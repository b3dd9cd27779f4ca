-------------------- MODULE PredicateIndexBuilder_proofs --------------------
(***************************************************************************)
(* p_index::builder is correct for every SPO file: the first scan counts   *)
(* the pairs of each predicate, the counts become the places where the     *)
(* predicates begin, and the second scan writes every subject at the rank  *)
(* of its pair, because the write cursor of a predicate is its beginning   *)
(* and the number of its pairs that have been read.                        *)
(***************************************************************************)
EXTENDS PredicateIndexBuilder, Basics_proofs

Pairs == PairsUpTo(input, Len(input.lines))

(* Of a set of pairs, those of a predicate and of the predicates below it. *)
Of(S, p) == {q \in S : q[1] = p}
Below(S, p) == {q \in S : q[1] < p}

(* Both scans: prev is the line read last.                                 *)
PrevInv ==
  /\ it = 0 => prev = no_triplet
  /\ it > 0 => prev = Read(input, it)

(* The first scan: each count stands one place after its predicate.        *)
CountInv ==
  /\ i = 2
  /\ offsets[1] = 0
  /\ \A p \in 0 .. predicates - 1 :
       offsets[p + 2] = Cardinality(Of(PairsUpTo(input, it), p))

(* The sums: up to i the offsets are final, after it they are counts.      *)
AccumulateInv ==
  /\ it = Len(input.lines)
  /\ \A p \in 0 .. predicates : p < i => offsets[p + 1] = Cardinality(Below(Pairs, p))
  /\ \A p \in 0 .. predicates - 1 : p + 1 >= i => offsets[p + 2] = Cardinality(Of(Pairs, p))

(* The second scan: the pointers are final, an offset is moved by the      *)
(* pairs of its predicate, and the pairs read have their subjects written. *)
PlaceInv ==
  /\ pointers = [p \in 1 .. predicates + 1 |-> Cardinality(Below(Pairs, p - 1))]
  /\ p_index.pointers = pointers
  /\ \A p \in 0 .. predicates - 1 :
       offsets[p + 1] = pointers[p + 1] + Cardinality(Of(PairsUpTo(input, it), p))
  /\ \A q \in PairsUpTo(input, it) : nodes[Rank(Pairs, q) + 1] = q[2]

IInv ==
  /\ TypeOK
  /\ input \in Inputs
  /\ p_index \in [pointers : Seq(Nat), nodes : Seq(Nat)]
  /\ pc \in {"count", "place"} => PrevInv
  /\ pc = "count" => CountInv
  /\ pc = "accumulate" => AccumulateInv
  /\ pc \in {"place", "done"} => PlaceInv
  /\ pc = "done" => it = Len(input.lines) /\ p_index.nodes = nodes
-----------------------------------------------------------------------------
(* What an input gives: lines of naturals, sorted, with counts of their    *)
(* own.                                                                    *)
LEMMA InputFacts ==
  ASSUME NEW in \in Inputs
  PROVE  /\ Len(in.lines) \in Nat /\ Len(in.lines) > 0
         /\ \A k \in 1 .. Len(in.lines) :
              /\ Read(in, k) \in [first : Nat, second : Nat, third : Nat]
              /\ Read(in, k).second < num_types(in.params, "spo", 2)
              /\ Pair(in, k) \in Nat \X Nat
              /\ Pair(in, k)[1] = Read(in, k).second /\ Pair(in, k)[2] = Read(in, k).first
         /\ \A k \in 1 .. Len(in.lines) - 1 : Precedes(Read(in, k), Read(in, k + 1))
         /\ num_types(in.params, "spo", 2) \in Nat
         /\ num_nodes(in.params, "spo", 2) = Cardinality(PairsUpTo(in, Len(in.lines)))
<1>1. WellFormed(in)
  BY InputsAssumption
<1>2. in.lines \in Seq(Nat \X Nat \X Nat)
  BY <1>1 DEF WellFormed
<1>3. ASSUME NEW k \in 1 .. Len(in.lines)
      PROVE  Read(in, k) \in [first : Nat, second : Nat, third : Nat]
  <2>1. in.lines[k] \in Nat \X Nat \X Nat
    BY <1>2, <1>3
  <2> QED
    BY <2>1 DEF Read, read_next, Triplet, Columns, Subject, Predicate, Object
<1> QED
  BY <1>1, <1>2, <1>3 DEF WellFormed, Pair

(* The lines of a file are sorted not only from one to the next.           *)
LEMMA FileSorted ==
  ASSUME NEW in \in Inputs,
         NEW a \in 1 .. Len(in.lines), NEW b \in 1 .. Len(in.lines), a < b
  PROVE  Precedes(Read(in, a), Read(in, b))
<1> DEFINE f == [k \in 1 .. Len(in.lines) |-> Read(in, k)]
<1>1. f \in [1 .. Len(in.lines) -> [first : Nat, second : Nat, third : Nat]]
  BY InputFacts
<1>2. \A k \in 1 .. Len(in.lines) - 1 : Precedes(f[k], f[k + 1])
  <2> TAKE k \in 1 .. Len(in.lines) - 1
  <2>1. k \in 1 .. Len(in.lines) /\ k + 1 \in 1 .. Len(in.lines)
    BY InputFacts
  <2> QED
    BY <2>1, InputFacts
<1>3. Len(in.lines) \in Nat
  BY InputFacts
<1> HIDE DEF f
<1>4. Precedes(f[a], f[b])
  BY <1>1, <1>2, <1>3, SortedPairwise
<1> QED
  BY <1>4 DEF f
-----------------------------------------------------------------------------
(* The pairs of the lines up to one are a finite set, to which each line   *)
(* adds its own.                                                           *)
LEMMA PairsGrow ==
  ASSUME NEW in \in Inputs, NEW m \in 0 .. Len(in.lines)
  PROVE  /\ IsFiniteSet(PairsUpTo(in, m))
         /\ PairsUpTo(in, m) \subseteq Nat \X Nat
         /\ PairsUpTo(in, m) \subseteq PairsUpTo(in, Len(in.lines))
         /\ PairsUpTo(in, 0) = {}
         /\ m < Len(in.lines) => PairsUpTo(in, m + 1) = PairsUpTo(in, m) \cup {Pair(in, m + 1)}
<1>1. IsFiniteSet(1 .. m)
  BY FS_Interval
<1>2. [k \in 1 .. m |-> Pair(in, k)] \in Surjection(1 .. m, PairsUpTo(in, m))
  BY DEF Surjection, PairsUpTo
<1>3. IsFiniteSet(PairsUpTo(in, m))
  BY <1>1, <1>2, FS_Surjection
<1>4. 1 .. m \subseteq 1 .. Len(in.lines) /\ 1 .. m + 1 = (1 .. m) \cup {m + 1} /\ 1 .. 0 = {}
  BY InputFacts
<1>5. PairsUpTo(in, m) \subseteq Nat \X Nat
  BY <1>4, InputFacts DEF PairsUpTo
<1> QED
  BY <1>3, <1>4, <1>5 DEF PairsUpTo

(* A line that follows a line of another pair has a pair not seen before:  *)
(* the comparison with the previous line alone is enough.                  *)
LEMMA NewPairIsNew ==
  ASSUME NEW in \in Inputs, NEW m \in 0 .. Len(in.lines) - 1
  PROVE  Pair(in, m + 1) \notin PairsUpTo(in, m) <=> (m = 0 \/ Pair(in, m + 1) # Pair(in, m))
<1>n. PICK n \in Nat : n = Len(in.lines)
  BY InputFacts
<1>1. m \in Nat /\ m + 1 \in 1 .. n /\ 1 .. m \subseteq 1 .. n
  BY <1>n
<1>2. \A k \in 1 .. n : Read(in, k) \in [first : Nat, second : Nat, third : Nat]
  BY <1>n, InputFacts
<1>3. ASSUME NEW k \in 1 .. m, Pair(in, k) = Pair(in, m + 1)
      PROVE  Pair(in, m) = Pair(in, m + 1)
  <2>1. CASE k = m
    BY <1>3, <2>1
  <2>2. CASE k < m
    <3>1. k \in 1 .. n /\ m \in 1 .. n /\ m < m + 1
      BY <1>1
    <3>2. Precedes(Read(in, k), Read(in, m)) /\ Precedes(Read(in, m), Read(in, m + 1))
      BY <1>n, <1>1, <2>2, <3>1, FileSorted
    <3>3. /\ Read(in, k).first = Read(in, m + 1).first
          /\ Read(in, k).second = Read(in, m + 1).second
      BY <1>3 DEF Pair
    <3>4. /\ Read(in, m).first = Read(in, m + 1).first
          /\ Read(in, m).second = Read(in, m + 1).second
      BY <1>1, <1>2, <3>1, <3>2, <3>3, PrecedesSqueezed
    <3> QED
      BY <3>4 DEF Pair
  <2> QED
    BY <2>1, <2>2
<1>4. m > 0 => m \in 1 .. m
  BY <1>1
<1> QED
  BY <1>1, <1>3, <1>4 DEF PairsUpTo
-----------------------------------------------------------------------------
(* The pairs below the next predicate are those below a predicate and its  *)
(* own: the sums of the counts are the places where the predicates begin.  *)
LEMMA CountsAddUp ==
  ASSUME NEW S, S \subseteq Nat \X Nat, IsFiniteSet(S), NEW p \in Nat
  PROVE  /\ IsFiniteSet(Of(S, p)) /\ Cardinality(Of(S, p)) \in Nat
         /\ IsFiniteSet(Below(S, p)) /\ Cardinality(Below(S, p)) \in Nat
         /\ Cardinality(Below(S, 0)) = 0
         /\ Cardinality(Below(S, p + 1)) = Cardinality(Below(S, p)) + Cardinality(Of(S, p))
<1>1. Of(S, p) \in SUBSET S /\ Below(S, p) \in SUBSET S
  BY DEF Of, Below
<1>2. IsFiniteSet(Of(S, p)) /\ IsFiniteSet(Below(S, p))
  BY <1>1, FS_Subset
<1>3. Cardinality(Of(S, p)) \in Nat /\ Cardinality(Below(S, p)) \in Nat
  BY <1>2, FS_CardinalityType
<1>4. Below(S, p + 1) = Below(S, p) \cup Of(S, p) /\ Below(S, p) \cap Of(S, p) = {}
  BY DEF Of, Below
<1>5. Below(S, 0) = {}
  BY DEF Below
<1>6. Cardinality({}) = 0
  BY FS_EmptySet
<1>7. Cardinality(Below(S, p) \cup Of(S, p))
        = Cardinality(Below(S, p)) + Cardinality(Of(S, p)) - Cardinality(Below(S, p) \cap Of(S, p))
  BY <1>2, FS_Union
<1>8. Cardinality(Below(S, p + 1)) = Cardinality(Below(S, p)) + Cardinality(Of(S, p)) - 0
  BY <1>4, <1>6, <1>7
<1>9. Cardinality(Below(S, p + 1)) = Cardinality(Below(S, p)) + Cardinality(Of(S, p))
  BY <1>3, <1>8
<1> QED
  BY <1>2, <1>3, <1>5, <1>6, <1>9

(* A new pair is one more of its predicate, and of no other.               *)
LEMMA OneMore ==
  ASSUME NEW S, IsFiniteSet(S), NEW q, NEW p
  PROVE  Cardinality(Of(S \cup {q}, p))
           = IF q[1] = p /\ q \notin S THEN Cardinality(Of(S, p)) + 1 ELSE Cardinality(Of(S, p))
<1>1. IsFiniteSet(Of(S, p))
  <2>1. Of(S, p) \in SUBSET S
    BY DEF Of
  <2> QED
    BY <2>1, FS_Subset
<1>2. CASE q[1] = p
  <2>1. Of(S \cup {q}, p) = Of(S, p) \cup {q} /\ (q \in Of(S, p) <=> q \in S)
    BY <1>2 DEF Of
  <2> QED
    BY <1>1, <1>2, <2>1, FS_AddElement
<1>3. CASE q[1] # p
  BY <1>3 DEF Of
<1> QED
  BY <1>2, <1>3

(* Of more pairs there are not fewer of a predicate.                       *)
LEMMA NotFewer ==
  ASSUME NEW S, IsFiniteSet(S), NEW T, T \subseteq S, NEW p
  PROVE  Cardinality(Of(T, p)) <= Cardinality(Of(S, p))
<1>1. Of(S, p) \in SUBSET S /\ Of(T, p) \in SUBSET Of(S, p)
  BY DEF Of
<1> QED
  BY <1>1, FS_Subset

(* The pairs of an input: as many as its .stats count, all of predicates   *)
(* below the number of predicates.                                         *)
LEMMA AllPairs ==
  ASSUME NEW in \in Inputs
  PROVE  LET S == PairsUpTo(in, Len(in.lines))
             n == num_types(in.params, "spo", 2)
         IN  /\ S \subseteq Nat \X Nat /\ IsFiniteSet(S)
             /\ num_nodes(in.params, "spo", 2) \in Nat
             /\ Cardinality(Below(S, n)) = num_nodes(in.params, "spo", 2)
             /\ \A q \in S : q[1] \in 0 .. n - 1
<1> DEFINE S == PairsUpTo(in, Len(in.lines))
           n == num_types(in.params, "spo", 2)
<1>1. S \subseteq Nat \X Nat /\ IsFiniteSet(S)
  BY PairsGrow, InputFacts
<1>2. \A k \in 1 .. Len(in.lines) : Pair(in, k)[1] \in 0 .. n - 1
  BY InputFacts
<1>3. \A q \in S : q[1] \in 0 .. n - 1
  BY <1>2 DEF PairsUpTo
<1>4. Below(S, n) = S
  <2> n \in Nat
    BY InputFacts
  <2> HIDE DEF S, n
  <2> QED
    BY <1>1, <1>3 DEF Below
<1> QED
  BY <1>1, <1>3, <1>4, InputFacts, FS_CardinalityType

(* The rank of a new pair: the pairs of the predicates below its own, and  *)
(* those of its predicate that were read before it.                        *)
LEMMA RankOfNew ==
  ASSUME NEW in \in Inputs, NEW m \in 0 .. Len(in.lines) - 1,
         Pair(in, m + 1) \notin PairsUpTo(in, m)
  PROVE  LET S == PairsUpTo(in, Len(in.lines))
             q == Pair(in, m + 1)
         IN  Rank(S, q) = Cardinality(Below(S, q[1])) + Cardinality(Of(PairsUpTo(in, m), q[1]))
<1> DEFINE S == PairsUpTo(in, Len(in.lines))
           q == Pair(in, m + 1)
           L(k) == Read(in, k)
<1>n. PICK n \in Nat : n = Len(in.lines)
  BY InputFacts
<1>1. m \in Nat /\ m + 1 \in 1 .. n /\ m + 1 \in Nat /\ 1 .. m \subseteq 1 .. n
  BY <1>n
<1>2. \A k \in 1 .. n :
        /\ L(k).first \in Nat /\ L(k).second \in Nat /\ Pair(in, k) = <<L(k).second, L(k).first>>
  BY <1>n, InputFacts DEF Pair
<1>3. ASSUME NEW k \in 1 .. m, Pair(in, k)[1] = q[1]
      PROVE  Before(Pair(in, k), q)
  <2>1. k \in 1 .. n /\ k < m + 1
    BY <1>1
  <2>2. Precedes(L(k), L(m + 1))
    BY <1>n, <1>1, <2>1, FileSorted
  <2>3. L(k).second = L(m + 1).second
    BY <1>1, <1>2, <1>3, <2>1
  <2>4. L(k).first <= L(m + 1).first
    BY <1>1, <1>2, <2>1, <2>2 DEF Precedes
  <2>5. Pair(in, k) # q
    BY DEF PairsUpTo
  <2>6. L(k).first < L(m + 1).first
    BY <1>1, <1>2, <2>1, <2>3, <2>4, <2>5
  <2> QED
    BY <1>1, <1>2, <2>1, <2>3, <2>6 DEF Before
<1>4. ASSUME NEW k \in 1 .. n, Pair(in, k)[1] = q[1], Before(Pair(in, k), q)
      PROVE  k \in 1 .. m
  <2>1. L(k).second = L(m + 1).second /\ L(k).first < L(m + 1).first
    BY <1>1, <1>2, <1>4 DEF Before
  <2>2. k # m + 1
    BY <1>1, <1>2, <2>1
  <2>3. ASSUME m + 1 < k PROVE FALSE
    <3>1. Precedes(L(m + 1), L(k))
      BY <1>n, <1>1, <2>3, FileSorted
    <3> QED
      BY <1>1, <1>2, <2>1, <3>1 DEF Precedes
  <2> QED
    BY <1>1, <2>2, <2>3
<1>5. {r \in S : Before(r, q)} = Below(S, q[1]) \cup Of(PairsUpTo(in, m), q[1])
  <2>1. ASSUME NEW r \in S, Before(r, q)
        PROVE  r \in Below(S, q[1]) \cup Of(PairsUpTo(in, m), q[1])
    <3>1. PICK k \in 1 .. n : r = Pair(in, k)
      BY <1>n DEF PairsUpTo
    <3>2. CASE r[1] = q[1]
      BY <1>4, <2>1, <3>1, <3>2 DEF Of, PairsUpTo
    <3>3. CASE r[1] < q[1]
      BY <3>3 DEF Below
    <3> QED
      BY <2>1, <3>2, <3>3 DEF Before
  <2>2. ASSUME NEW r \in Of(PairsUpTo(in, m), q[1])
        PROVE  r \in S /\ Before(r, q)
    <3>1. PICK k \in 1 .. m : r = Pair(in, k) /\ r[1] = q[1]
      BY DEF Of, PairsUpTo
    <3> QED
      BY <1>n, <1>1, <1>3, <3>1 DEF PairsUpTo
  <2>3. \A r \in Below(S, q[1]) : r \in S /\ Before(r, q)
    BY DEF Below, Before
  <2> QED
    BY <2>1, <2>2, <2>3
<1>6. Below(S, q[1]) \cap Of(PairsUpTo(in, m), q[1]) = {}
  <2>1. q[1] \in Nat
    BY <1>1, <1>2
  <2> QED
    BY <2>1 DEF Below, Of
<1>7. /\ IsFiniteSet(Below(S, q[1])) /\ Cardinality(Below(S, q[1])) \in Nat
      /\ IsFiniteSet(Of(PairsUpTo(in, m), q[1])) /\ Cardinality(Of(PairsUpTo(in, m), q[1])) \in Nat
  <2>1. q[1] \in Nat
    BY <1>1, <1>2
  <2>2. /\ IsFiniteSet(S) /\ S \subseteq Nat \X Nat
        /\ IsFiniteSet(PairsUpTo(in, m)) /\ PairsUpTo(in, m) \subseteq Nat \X Nat
    BY <1>n, AllPairs, PairsGrow
  <2> HIDE DEF S, q
  <2> QED
    BY <2>1, <2>2, CountsAddUp
<1>8. Cardinality({}) = 0
  BY FS_EmptySet
<1> HIDE DEF S, q
<1>9. Rank(S, q) = Cardinality(Below(S, q[1])) + Cardinality(Of(PairsUpTo(in, m), q[1])) - 0
  BY <1>5, <1>6, <1>7, <1>8, FS_Union DEF Rank
<1> QED
  BY <1>7, <1>9 DEF S, q
-----------------------------------------------------------------------------
(* What the types give: the sizes, and offsets as a sequence.              *)
LEMMA Sizes ==
  ASSUME TypeOK, input \in Inputs
  PROVE  /\ predicates \in Nat /\ predicates > 0 /\ pairs \in Nat
         /\ Len(input.lines) \in Nat /\ Len(input.lines) > 0
         /\ offsets \in Seq(Nat) /\ Len(offsets) = predicates + 1
         /\ \A p \in 0 .. predicates : offsets[p + 1] \in Nat
<1>1. Len(input.lines) \in Nat /\ Len(input.lines) > 0
  BY InputFacts
<1>2. predicates \in Nat
  BY InputFacts DEF predicates
<1>3. predicates > 0
  <2>1. 1 \in 1 .. Len(input.lines)
    BY <1>1
  <2>2. Read(input, 1).second \in Nat /\ Read(input, 1).second < predicates
    BY <2>1, InputFacts DEF predicates
  <2> QED
    BY <1>2, <2>2
<1>4. pairs \in Nat
  BY AllPairs DEF pairs
<1>5. offsets \in [1 .. predicates + 1 -> Nat]
  BY DEF TypeOK
<1>6. offsets \in Seq(Nat) /\ Len(offsets) = predicates + 1
  BY <1>2, <1>5
<1>7. \A p \in 0 .. predicates : p + 1 \in 1 .. predicates + 1
  BY <1>2
<1> QED
  BY <1>1, <1>2, <1>3, <1>4, <1>5, <1>6, <1>7

(* The line that a scan reads next, and what it takes for a new pair: the  *)
(* wildcards of a fresh prev equal no id.                                  *)
LEMMA NextLine ==
  ASSUME TypeOK, input \in Inputs, it < Len(input.lines)
  PROVE  /\ it \in 0 .. Len(input.lines) - 1 /\ it + 1 \in 1 .. Len(input.lines)
         /\ Current \in [first : Nat, second : Nat, third : Nat]
         /\ Current.second \in 0 .. predicates - 1
         /\ Pair(input, it + 1) = <<Current.second, Current.first>>
         /\ PairsUpTo(input, it + 1) = PairsUpTo(input, it) \cup {Pair(input, it + 1)}
         /\ IsFiniteSet(PairsUpTo(input, it))
         /\ PrevInv => (NewSubjectPredicate <=> Pair(input, it + 1) \notin PairsUpTo(input, it))
<1>1. it \in 0 .. Len(input.lines) /\ Len(input.lines) \in Nat
  BY InputFacts DEF TypeOK
<1>2. it \in 0 .. Len(input.lines) - 1 /\ it + 1 \in 1 .. Len(input.lines)
  BY <1>1
<1>3. /\ Current \in [first : Nat, second : Nat, third : Nat]
      /\ Current.second < predicates
      /\ Pair(input, it + 1) = <<Current.second, Current.first>>
  BY <1>2, InputFacts DEF Current, predicates, Pair
<1>4. Current.second \in 0 .. predicates - 1
  BY <1>3, Sizes
<1>5. ASSUME PrevInv
      PROVE  NewSubjectPredicate <=> it = 0 \/ Pair(input, it + 1) # Pair(input, it)
  <2>1. CASE it = 0
    BY <1>3, <1>5, <2>1 DEF PrevInv, NewSubjectPredicate, no_triplet, Triplet, wildcard_symbol
  <2>2. CASE it > 0
    <3>1. prev = Read(input, it) /\ Pair(input, it) = <<prev.second, prev.first>>
      BY <1>5, <2>2 DEF PrevInv, Pair
    <3> QED
      BY <1>3, <2>2, <3>1 DEF NewSubjectPredicate
  <2> QED
    BY <1>1, <2>1, <2>2
<1> QED
  BY <1>1, <1>2, <1>3, <1>4, <1>5, NewPairIsNew, PairsGrow

(* Nothing is counted before the first line.                               *)
LEMMA InitEstablishesIInv == Init => IInv
<1> SUFFICES ASSUME Init PROVE IInv
  OBVIOUS
<1> USE DEF Init
<1>1. predicates \in Nat /\ predicates > 0 /\ pairs \in Nat /\ Len(input.lines) \in Nat
  <2>1. Len(input.lines) \in Nat /\ Len(input.lines) > 0 /\ predicates \in Nat
    BY InputFacts DEF predicates
  <2>2. 1 \in 1 .. Len(input.lines)
    BY <2>1
  <2>3. Read(input, 1).second \in Nat /\ Read(input, 1).second < predicates
    BY <2>2, InputFacts DEF predicates
  <2> QED
    BY <2>1, <2>3, AllPairs DEF pairs
<1>2. TypeOK
  BY <1>1 DEF TypeOK, no_triplet, Triplet, wildcard_symbol
<1>3. CountInv
  <2>1. \A p \in 0 .. predicates - 1 : p + 2 \in 1 .. predicates + 1
    BY <1>1
  <2>2. PairsUpTo(input, 0) = {}
    BY <1>1, PairsGrow
  <2>3. \A p : Of(PairsUpTo(input, 0), p) = {}
    BY <2>2 DEF Of
  <2>4. /\ offsets[1] = 0
        /\ \A p \in 0 .. predicates - 1 : offsets[p + 2] = 0
    BY <1>1, <2>1
  <2>5. \A p : Cardinality(Of(PairsUpTo(input, 0), p)) = 0
    BY <2>3, FS_EmptySet
  <2>6. i = 2 /\ it = 0
    OBVIOUS
  <2> QED
    BY <2>4, <2>5, <2>6 DEF CountInv
<1> QED
  BY <1>1, <1>2, <1>3 DEF IInv, PrevInv

(* The first scan counts a line's pair where it stands for its predicate,  *)
(* if no earlier line has it.                                              *)
LEMMA CountKeepsIInv == IInv /\ Count => IInv'
<1> SUFFICES ASSUME IInv, Count PROVE IInv'
  OBVIOUS
<1> DEFINE p0 == Current.second
<1>1. /\ TypeOK /\ input \in Inputs /\ pc = "count" /\ it < Len(input.lines)
      /\ PrevInv /\ CountInv
  BY DEF IInv, Count
<1>2. predicates' = predicates /\ pairs' = pairs /\ input' = input
  BY DEF Count, predicates, pairs
<1>3. p0 \in 0 .. predicates - 1 /\ p0 + 2 \in 1 .. predicates + 1
  BY SMTT(30), <1>1, NextLine, Sizes
<1>4. offsets' = [offsets EXCEPT ![p0 + 2] = IF NewSubjectPredicate THEN @ + 1 ELSE @]
  BY DEF Count
<1>5. offsets \in [1 .. predicates + 1 -> Nat]
  BY <1>1 DEF TypeOK
<1>6. offsets' \in [1 .. predicates + 1 -> Nat]
  BY <1>3, <1>4, <1>5
<1>7. TypeOK'
  BY <1>1, <1>2, <1>6, NextLine DEF TypeOK, Count
<1>8. CountInv'
  <2>1. ASSUME NEW p \in 0 .. predicates - 1
        PROVE  offsets'[p + 2] = Cardinality(Of(PairsUpTo(input, it + 1), p))
    <3>1. p + 2 \in 1 .. predicates + 1 /\ p \in Int /\ p0 \in Int
      BY <1>1, <1>3, Sizes
    <3>2. offsets[p + 2] = Cardinality(Of(PairsUpTo(input, it), p))
      BY <1>1 DEF CountInv
    <3>3. Cardinality(Of(PairsUpTo(input, it + 1), p))
            = IF p0 = p /\ Pair(input, it + 1) \notin PairsUpTo(input, it)
              THEN Cardinality(Of(PairsUpTo(input, it), p)) + 1
              ELSE Cardinality(Of(PairsUpTo(input, it), p))
      BY <1>1, NextLine, OneMore
    <3>4. NewSubjectPredicate <=> Pair(input, it + 1) \notin PairsUpTo(input, it)
      BY <1>1, NextLine
    <3>5. p + 2 = p0 + 2 <=> p0 = p
      BY <3>1
    <3> HIDE DEF p0
    <3> QED
      BY <1>4, <1>5, <3>1, <3>2, <3>3, <3>4, <3>5
  <2>2. offsets'[1] = 0 /\ i' = 2
    <3>1. p0 + 2 # 1 /\ 1 \in 1 .. predicates + 1
      BY <1>1, <1>3, Sizes
    <3> QED
      BY <1>1, <1>4, <1>5, <3>1 DEF CountInv, Count
  <2> QED
    BY <1>2, <2>1, <2>2 DEF CountInv, Count
<1>9. PrevInv'
  BY <1>1, NextLine DEF PrevInv, Count, Current
<1> QED
  BY <1>1, <1>2, <1>7, <1>8, <1>9 DEF IInv, Count

(* When the file ends the counts are those of all its pairs.               *)
LEMMA EndCountKeepsIInv == IInv /\ EndCount => IInv'
<1> SUFFICES ASSUME IInv, EndCount PROVE IInv'
  OBVIOUS
<1>1. TypeOK /\ input \in Inputs /\ CountInv /\ it = Len(input.lines)
  BY DEF IInv, EndCount
<1>2. predicates' = predicates /\ pairs' = pairs /\ Pairs' = Pairs
  BY DEF EndCount, predicates, pairs, Pairs
<1>3. TypeOK'
  BY <1>1, <1>2 DEF TypeOK, EndCount
<1>4. AccumulateInv
  <2>1. ASSUME NEW p \in 0 .. predicates, p < 2
        PROVE  offsets[p + 1] = Cardinality(Below(Pairs, p))
    <3>1. Pairs \subseteq Nat \X Nat /\ IsFiniteSet(Pairs)
      BY <1>1, AllPairs DEF Pairs
    <3>2. Cardinality(Below(Pairs, 0)) = 0
      BY <3>1, CountsAddUp
    <3>3. Cardinality(Below(Pairs, 0 + 1)) = 0 + Cardinality(Of(Pairs, 0)) /\ Cardinality(Of(Pairs, 0)) \in Nat
      BY <3>1, <3>2, CountsAddUp
    <3>4. offsets[0 + 2] = Cardinality(Of(Pairs, 0)) /\ offsets[1] = 0
      BY <1>1, Sizes DEF CountInv, Pairs
    <3>5. p = 0 \/ p = 1
      BY <2>1
    <3> QED
      BY <3>2, <3>3, <3>4, <3>5
  <2> QED
    BY <1>1, <2>1 DEF AccumulateInv, CountInv, Pairs
<1>5. AccumulateInv'
  BY <1>2, <1>4 DEF AccumulateInv, EndCount
<1> QED
  BY <1>1, <1>3, <1>5 DEF IInv, EndCount

(* A sum: the pairs below the next predicate.                              *)
LEMMA AccumulateKeepsIInv == IInv /\ Accumulate => IInv'
<1> SUFFICES ASSUME IInv, Accumulate PROVE IInv'
  OBVIOUS
<1>1. TypeOK /\ input \in Inputs /\ AccumulateInv
  BY DEF IInv, Accumulate
<1>2. predicates' = predicates /\ pairs' = pairs /\ Pairs' = Pairs
  BY DEF Accumulate, predicates, pairs, Pairs
<1>3. i \in Nat /\ i >= 2 /\ i <= predicates /\ predicates \in Nat
  <2>1. i < Len(offsets) /\ Len(offsets) = predicates + 1 /\ predicates \in Nat
    BY <1>1, Sizes DEF Accumulate
  <2> QED
    BY <1>1, <2>1 DEF TypeOK
<1>4. offsets' = [offsets EXCEPT ![i + 1] = @ + offsets[i]] /\ i' = i + 1
  BY DEF Accumulate
<1>5. offsets \in [1 .. predicates + 1 -> Nat]
  BY <1>1 DEF TypeOK
<1>6. TypeOK'
  <2>1. offsets' \in [1 .. predicates + 1 -> Nat] /\ i' \in 2 .. predicates + 1
    BY <1>3, <1>4, <1>5
  <2> QED
    BY <1>1, <1>2, <2>1 DEF TypeOK, Accumulate
<1>7. Pairs \subseteq Nat \X Nat /\ IsFiniteSet(Pairs)
  BY <1>1, AllPairs DEF Pairs
<1>8. ASSUME NEW p \in 0 .. predicates, p < i'
      PROVE  offsets'[p + 1] = Cardinality(Below(Pairs, p))
  <2>1. CASE p < i
    <3>1. p + 1 \in 1 .. predicates + 1 /\ p + 1 # i + 1
      BY <1>3, <2>1
    <3> QED
      BY <1>1, <1>4, <1>5, <2>1, <3>1 DEF AccumulateInv
  <2>2. CASE p = i
    <3>1. /\ i - 1 \in 0 .. predicates /\ i - 1 \in 0 .. predicates - 1 /\ i - 1 \in Nat
          /\ i - 1 < i /\ i - 1 + 1 >= i /\ i - 1 + 1 = i /\ i - 1 + 2 = i + 1
      BY <1>3
    <3>2. offsets[i - 1 + 1] = Cardinality(Below(Pairs, i - 1))
      BY <1>1, <3>1 DEF AccumulateInv
    <3>3. offsets[i - 1 + 2] = Cardinality(Of(Pairs, i - 1))
      BY <1>1, <3>1 DEF AccumulateInv
    <3>4. /\ Cardinality(Below(Pairs, i - 1 + 1)) = Cardinality(Below(Pairs, i - 1)) + Cardinality(Of(Pairs, i - 1))
          /\ Cardinality(Below(Pairs, i - 1)) \in Nat /\ Cardinality(Of(Pairs, i - 1)) \in Nat
      BY <1>7, <3>1, CountsAddUp
    <3>5. offsets'[i + 1] = offsets[i + 1] + offsets[i]
      BY <1>3, <1>4, <1>5
    <3> QED
      BY <2>2, <3>1, <3>2, <3>3, <3>4, <3>5
  <2> QED
    BY <1>3, <1>4, <1>8, <2>1, <2>2
<1>9. ASSUME NEW p \in 0 .. predicates - 1, p + 1 >= i'
      PROVE  offsets'[p + 2] = Cardinality(Of(Pairs, p))
  <2>1. p + 2 \in 1 .. predicates + 1 /\ p + 2 # i + 1 /\ p + 1 >= i
    BY <1>3, <1>4, <1>9
  <2> QED
    BY <1>1, <1>4, <1>5, <2>1 DEF AccumulateInv
<1>10. AccumulateInv'
  BY <1>1, <1>2, <1>8, <1>9 DEF AccumulateInv, Accumulate
<1> QED
  BY <1>1, <1>6, <1>10 DEF IInv, Accumulate

(* When all sums are done the offsets are the places where the predicates  *)
(* begin, and the pointers keep them.                                      *)
LEMMA FillPointersKeepsIInv == IInv /\ FillPointers => IInv'
<1> SUFFICES ASSUME IInv, FillPointers PROVE IInv'
  OBVIOUS
<1>1. /\ TypeOK /\ input \in Inputs /\ AccumulateInv
      /\ p_index \in [pointers : Seq(Nat), nodes : Seq(Nat)]
  BY DEF IInv, FillPointers
<1>2. predicates' = predicates /\ pairs' = pairs /\ Pairs' = Pairs
  BY DEF FillPointers, predicates, pairs, Pairs
<1>3. /\ predicates \in Nat /\ Len(input.lines) \in Nat /\ offsets \in Seq(Nat)
      /\ i >= predicates + 1 /\ i \in Nat
  <2>1. predicates \in Nat /\ i >= Len(offsets) /\ Len(offsets) = predicates + 1
    BY <1>1, Sizes DEF FillPointers
  <2> QED
    BY <1>1, <2>1, Sizes DEF TypeOK
<1>4. offsets \in [1 .. predicates + 1 -> Nat]
  BY <1>1 DEF TypeOK
<1>5. /\ offsets' = offsets /\ pointers' = offsets /\ it' = 0 /\ prev' = no_triplet /\ input' = input
      /\ pc' = "place" /\ p_index' = [p_index EXCEPT !.pointers = offsets]
  BY DEF FillPointers
<1>6. TypeOK'
  BY SMTT(30), <1>1, <1>2, <1>3, <1>5 DEF TypeOK, FillPointers, no_triplet, Triplet, wildcard_symbol
<1>7. offsets = [p \in 1 .. predicates + 1 |-> Cardinality(Below(Pairs, p - 1))]
  <2>1. ASSUME NEW p \in 1 .. predicates + 1 PROVE offsets[p] = Cardinality(Below(Pairs, p - 1))
    <3>1. p - 1 \in 0 .. predicates /\ p - 1 < i /\ p - 1 + 1 = p
      BY <1>3
    <3>2. offsets[p - 1 + 1] = Cardinality(Below(Pairs, p - 1))
      BY <1>1, <3>1 DEF AccumulateInv
    <3> QED
      BY <3>1, <3>2
  <2> QED
    BY <1>4, <2>1
<1>8. PairsUpTo(input, 0) = {} /\ \A p : Cardinality(Of(PairsUpTo(input, 0), p)) = 0
  <2>1. PairsUpTo(input, 0) = {}
    BY <1>1, <1>3, PairsGrow
  <2>2. \A p : Of(PairsUpTo(input, 0), p) = {}
    BY <2>1 DEF Of
  <2> QED
    BY <2>1, <2>2, FS_EmptySet
<1>9. PlaceInv'
  <2>1. \A p \in 0 .. predicates - 1 : offsets[p + 1] \in Nat /\ offsets[p + 1] = offsets[p + 1] + 0
    BY <1>1, <1>3, Sizes
  <2>2. p_index'.pointers = pointers'
    BY <1>1, <1>5
  <2> QED
    BY <1>2, <1>5, <1>7, <1>8, <2>1, <2>2 DEF PlaceInv
<1>10. p_index' \in [pointers : Seq(Nat), nodes : Seq(Nat)]
  BY <1>1, <1>3, <1>5
<1> QED
  BY <1>1, <1>5, <1>6, <1>9, <1>10 DEF IInv, PrevInv

(* The second scan: a new pair's subject goes to the rank of the pair,     *)
(* where no other pair's is, and the cursor of the predicate moves on.     *)
LEMMA PlaceKeepsIInv == IInv /\ Place => IInv'
<1> SUFFICES ASSUME IInv, Place PROVE IInv'
  OBVIOUS
<1> DEFINE p0 == Current.second
           q0 == Pair(input, it + 1)
           Seen == PairsUpTo(input, it)
           New == q0 \notin Seen
<1>1. /\ TypeOK /\ input \in Inputs /\ pc = "place" /\ it < Len(input.lines)
      /\ PrevInv /\ PlaceInv
  BY DEF IInv, Place
<1>2. predicates' = predicates /\ pairs' = pairs /\ Pairs' = Pairs /\ input' = input
  BY DEF Place, predicates, pairs, Pairs
<1>3. /\ p0 \in 0 .. predicates - 1 /\ p0 + 1 \in 1 .. predicates + 1
      /\ p0 \in Nat /\ Current.first \in Nat /\ q0 = <<p0, Current.first>>
      /\ it \in 0 .. Len(input.lines) - 1
  BY SMTT(30), <1>1, NextLine, Sizes
<1>4. PairsUpTo(input, it + 1) = Seen \cup {q0} /\ IsFiniteSet(Seen)
  BY <1>1, NextLine
<1>5. NewSubjectPredicate <=> New
  BY <1>1, NextLine
<1>6. /\ offsets' = IF New THEN [offsets EXCEPT ![p0 + 1] = offsets[p0 + 1] + 1] ELSE offsets
      /\ nodes' = IF New THEN [nodes EXCEPT ![offsets[p0 + 1] + 1] = Current.first] ELSE nodes
  BY <1>5 DEF Place
<1>7. /\ offsets \in [1 .. predicates + 1 -> Nat] /\ nodes \in [1 .. pairs -> Nat]
      /\ predicates \in Nat /\ pairs \in Nat
  BY <1>1, Sizes DEF TypeOK
<1>8. TypeOK'
  <2>1. offsets' \in [1 .. predicates + 1 -> Nat] /\ nodes' \in [1 .. pairs -> Nat]
    <3>1. offsets[p0 + 1] \in Nat
      BY <1>3, <1>7
    <3>2. Current.first \in Nat
      BY <1>3
    <3>3. CASE New
      <4>1. offsets' = [offsets EXCEPT ![p0 + 1] = offsets[p0 + 1] + 1]
        BY <1>6, <3>3
      <4>2. nodes' = [nodes EXCEPT ![offsets[p0 + 1] + 1] = Current.first]
        BY <1>6, <3>3
      <4>3. offsets[p0 + 1] + 1 \in Nat
        BY <3>1
      <4>4. offsets' \in [1 .. predicates + 1 -> Nat]
        BY <1>7, <4>1, <4>3
      <4>5. nodes' \in [1 .. pairs -> Nat]
        BY <1>7, <3>2, <4>2
      <4> QED
        BY <4>4, <4>5
    <3>4. CASE ~ New
      BY <1>6, <1>7, <3>4
    <3> QED
      BY <3>3, <3>4
  <2> QED
    BY <1>1, <1>2, <2>1, NextLine DEF TypeOK, Place
<1>9. \A p \in 0 .. predicates - 1 :
        offsets'[p + 1] = pointers[p + 1] + Cardinality(Of(PairsUpTo(input, it + 1), p))
  <2>1. TAKE p \in 0 .. predicates - 1
  <2>2. offsets[p + 1] = pointers[p + 1] + Cardinality(Of(Seen, p))
    BY <1>1 DEF PlaceInv
  <2>3. Cardinality(Of(Seen \cup {q0}, p))
          = IF q0[1] = p /\ New THEN Cardinality(Of(Seen, p)) + 1 ELSE Cardinality(Of(Seen, p))
    BY <1>4, OneMore
  <2>4. p + 1 \in 1 .. predicates + 1 /\ (p + 1 = p0 + 1 <=> q0[1] = p)
    BY SMTT(30), <1>3, <1>7
  <2>5. Cardinality(Of(Seen, p)) \in Nat /\ pointers[p + 1] \in Nat
    <3>1. p \in Nat /\ p + 1 - 1 = p
      BY <1>7
    <3>2. Cardinality(Of(Seen, p)) \in Nat
      <4>1. it \in 0 .. Len(input.lines)
        BY <1>1 DEF TypeOK
      <4>2. Seen \subseteq Nat \X Nat
        BY <1>1, <4>1, PairsGrow
      <4> HIDE DEF Seen
      <4> QED
        BY <1>4, <3>1, <4>2, CountsAddUp
    <3>3. Cardinality(Below(Pairs, p)) \in Nat
      BY <1>1, <3>1, AllPairs, CountsAddUp DEF Pairs
    <3>4. pointers[p + 1] = Cardinality(Below(Pairs, p + 1 - 1))
      BY <1>1, <2>4 DEF PlaceInv
    <3> QED
      BY <3>1, <3>2, <3>3, <3>4
  <2>6. PairsUpTo(input, it + 1) = Seen \cup {q0}
    BY <1>4
  <2> HIDE DEF p0, q0, Seen, New
  <2>7. CASE New /\ q0[1] = p
    <3>1. offsets'[p + 1] = offsets[p + 1] + 1
      BY <1>3, <1>6, <1>7, <2>4, <2>7
    <3>2. Cardinality(Of(PairsUpTo(input, it + 1), p)) = Cardinality(Of(Seen, p)) + 1
      BY <2>3, <2>6, <2>7
    <3> QED
      BY <2>2, <2>5, <3>1, <3>2
  <2>8. CASE ~ (New /\ q0[1] = p)
    <3>1. offsets'[p + 1] = offsets[p + 1]
      BY <1>3, <1>6, <1>7, <2>4, <2>8
    <3> QED
      BY <2>2, <2>3, <2>5, <2>6, <2>8, <3>1
  <2> QED
    BY <2>7, <2>8
<1>10. \A q \in PairsUpTo(input, it + 1) : nodes'[Rank(Pairs, q) + 1] = q[2]
  <2>1. \A q \in Seen : nodes[Rank(Pairs, q) + 1] = q[2]
    BY <1>1 DEF PlaceInv
  <2>2. CASE ~ New
    BY <1>4, <1>6, <2>1, <2>2
  <2>3. CASE New
    <3>1. offsets[p0 + 1] = Rank(Pairs, q0)
      <4>1. offsets[p0 + 1] = pointers[p0 + 1] + Cardinality(Of(Seen, p0))
        BY <1>1, <1>3 DEF PlaceInv
      <4>2. pointers[p0 + 1] = Cardinality(Below(Pairs, p0 + 1 - 1)) /\ p0 + 1 - 1 = p0
        BY <1>1, <1>3 DEF PlaceInv
      <4>3. Rank(Pairs, q0) = Cardinality(Below(Pairs, q0[1])) + Cardinality(Of(Seen, q0[1]))
        BY <1>1, <1>3, <2>3, RankOfNew DEF Pairs
      <4> QED
        BY <1>3, <4>1, <4>2, <4>3
    <3>2. Pairs \subseteq Nat \X Nat /\ IsFiniteSet(Pairs) /\ Cardinality(Pairs) = pairs
      BY <1>1, AllPairs, InputFacts DEF Pairs, pairs
    <3>3. Seen \cup {q0} \subseteq Pairs
      <4>1. it + 1 \in 0 .. Len(input.lines)
        BY <1>1, NextLine, Sizes
      <4> QED
        BY <1>1, <1>4, <4>1, PairsGrow DEF Pairs
    <3>4. \A q \in Pairs : Rank(Pairs, q) \in 0 .. pairs - 1 /\ Nth(Pairs, Rank(Pairs, q)) = q
      BY <3>2, RanksArePositions
    <3>5. ASSUME NEW q \in Seen \cup {q0}
          PROVE  nodes'[Rank(Pairs, q) + 1] = q[2]
      <4>1. q \in Pairs /\ q0 \in Pairs
        BY <3>3
      <4>2. Rank(Pairs, q) + 1 \in 1 .. pairs /\ Rank(Pairs, q) \in Nat /\ Rank(Pairs, q0) \in Nat
        BY <1>7, <3>4, <4>1
      <4>3. nodes' = [nodes EXCEPT ![Rank(Pairs, q0) + 1] = Current.first]
        BY <1>6, <2>3, <3>1
      <4>4. CASE q = q0
        BY <1>3, <1>7, <4>2, <4>3, <4>4
      <4>5. CASE q # q0
        <5>1. Rank(Pairs, q) # Rank(Pairs, q0)
          BY <3>4, <4>1, <4>5
        <5>2. Rank(Pairs, q) + 1 # Rank(Pairs, q0) + 1
          BY <4>2, <5>1
        <5>3. q \in Seen
          BY <4>5
        <5> HIDE DEF q0, Seen, New, p0
        <5> QED
          BY <1>7, <2>1, <4>2, <4>3, <5>2, <5>3
      <4> QED
        BY <4>4, <4>5
    <3> QED
      BY <1>4, <3>5
  <2> QED
    BY <2>2, <2>3
<1>11. PlaceInv'
  BY <1>1, <1>2, <1>9, <1>10 DEF PlaceInv, Place
<1>12. PrevInv'
  BY <1>1, NextLine DEF PrevInv, Place, Current
<1> QED
  BY <1>1, <1>8, <1>11, <1>12 DEF IInv, Place

(* The nodes are written as the second scan leaves them.                   *)
LEMMA BuildNodesKeepsIInv == IInv /\ BuildNodes => IInv'
<1> SUFFICES ASSUME IInv, BuildNodes PROVE IInv'
  OBVIOUS
<1>1. /\ TypeOK /\ input \in Inputs /\ PlaceInv /\ it = Len(input.lines)
      /\ p_index \in [pointers : Seq(Nat), nodes : Seq(Nat)]
  BY DEF IInv, BuildNodes
<1>2. predicates' = predicates /\ pairs' = pairs /\ Pairs' = Pairs
  BY DEF BuildNodes, predicates, pairs, Pairs
<1>3. p_index' = [p_index EXCEPT !.nodes = nodes]
  BY DEF BuildNodes
<1>4. nodes \in Seq(Nat)
  <2>1. nodes \in [1 .. pairs -> Nat] /\ pairs \in Nat
    BY <1>1, Sizes DEF TypeOK
  <2> QED
    BY <2>1
<1>5. p_index' \in [pointers : Seq(Nat), nodes : Seq(Nat)]
  BY <1>1, <1>3, <1>4
<1>6. p_index'.nodes = nodes /\ p_index'.pointers = p_index.pointers
  BY <1>1, <1>3
<1>7. TypeOK'
  BY <1>1, <1>2 DEF TypeOK, BuildNodes
<1>8. PlaceInv'
  BY <1>1, <1>2, <1>6 DEF PlaceInv, BuildNodes
<1> QED
  BY <1>1, <1>5, <1>6, <1>7, <1>8 DEF IInv, BuildNodes

(* The invariant holds of every reachable state.                           *)
THEOREM Inductive == Spec => []IInv
<1>1. ASSUME IInv, [Next]_vars PROVE IInv'
  <2>1. CASE UNCHANGED vars
    BY <1>1, <2>1 DEF vars, IInv, TypeOK, PrevInv, CountInv, AccumulateInv, PlaceInv,
      predicates, pairs, Pairs
  <2>2. CASE Next
    BY <1>1, <2>2, CountKeepsIInv, EndCountKeepsIInv, AccumulateKeepsIInv,
      FillPointersKeepsIInv, PlaceKeepsIInv, BuildNodesKeepsIInv DEF Next
  <2> QED
    BY <1>1, <2>1, <2>2
<1> QED
  BY <1>1, InitEstablishesIInv, PTL DEF Spec
-----------------------------------------------------------------------------
(* The types of the builder's variables (p_index::builder).                *)
THEOREM TypeCorrect == Spec => []TypeOK
<1>1. IInv => TypeOK
  BY DEF IInv
<1> QED
  BY <1>1, Inductive, PTL

(* When the second scan begins, the last pointer is the number of pairs in *)
(* the .stats file: the builder's assertion never fails.                   *)
THEOREM StatsMatched == Spec => []OffsetsMatchStats
<1>1. IInv => OffsetsMatchStats
  <2> SUFFICES ASSUME IInv, pc = "place" PROVE pointers[Len(pointers)] = pairs
    BY DEF OffsetsMatchStats
  <2>1. TypeOK /\ input \in Inputs /\ PlaceInv
    BY DEF IInv
  <2>2. predicates \in Nat
    BY <2>1, Sizes
  <2>3. pointers = [p \in 1 .. predicates + 1 |-> Cardinality(Below(Pairs, p - 1))]
    BY <2>1 DEF PlaceInv
  <2>4. DOMAIN pointers = 1 .. predicates + 1 /\ pointers \in Seq(Nat)
    BY <2>1, <2>3 DEF TypeOK
  <2>5. Len(pointers) = predicates + 1
    BY <2>2, <2>4
  <2>6. pointers[predicates + 1] = Cardinality(Below(Pairs, predicates))
    <3>1. predicates + 1 \in 1 .. predicates + 1 /\ predicates + 1 - 1 = predicates
      BY <2>2
    <3>2. \A p \in 1 .. predicates + 1 : pointers[p] = Cardinality(Below(Pairs, p - 1))
      BY <2>3
    <3>3. pointers[predicates + 1] = Cardinality(Below(Pairs, predicates + 1 - 1))
      BY <2>2, <3>1, <3>2
    <3> QED
      BY <3>1, <3>3
  <2>7. Cardinality(Below(Pairs, predicates)) = pairs
    BY <2>1, AllPairs DEF Pairs, pairs, predicates
  <2> QED
    BY <2>5, <2>6, <2>7
<1> QED
  BY <1>1, Inductive, PTL

(* The cursor of a predicate is at its beginning and the pairs read so     *)
(* far, of which there are never more than it has: no write of the second  *)
(* scan falls into the range of another predicate.                         *)
THEOREM WritesInRange == Spec => []WritesStayInRange
<1>1. IInv => WritesStayInRange
  <2> SUFFICES ASSUME IInv, pc \in {"place", "done"}, NEW p \in 1 .. predicates
               PROVE  /\ pointers[p] <= offsets[p] /\ offsets[p] <= pointers[p + 1]
                      /\ pc = "done" => offsets[p] = pointers[p + 1]
    BY DEF WritesStayInRange
  <2>1. TypeOK /\ input \in Inputs /\ PlaceInv /\ (pc = "done" => it = Len(input.lines))
    BY DEF IInv
  <2>2. PICK k \in Nat : k + 1 = p /\ k \in 0 .. predicates - 1
    <3>1. p - 1 \in Nat /\ p - 1 + 1 = p /\ p - 1 \in 0 .. predicates - 1
      BY <2>1, Sizes
    <3> QED
      BY <3>1
  <2>3. k + 1 \in 1 .. predicates + 1 /\ k + 1 + 1 \in 1 .. predicates + 1 /\ predicates \in Nat
        /\ k + 1 - 1 = k /\ k + 1 + 1 - 1 = k + 1
    BY <2>1, <2>2, Sizes
  <2>4. pointers[k + 1] = Cardinality(Below(Pairs, k)) /\ pointers[k + 1 + 1] = Cardinality(Below(Pairs, k + 1))
    <3>1. pointers[k + 1] = Cardinality(Below(Pairs, k + 1 - 1))
      BY <2>1, <2>3 DEF PlaceInv
    <3>2. pointers[k + 1 + 1] = Cardinality(Below(Pairs, k + 1 + 1 - 1))
      BY <2>1, <2>3 DEF PlaceInv
    <3> QED
      BY <2>3, <3>1, <3>2
  <2>5. offsets[k + 1] = pointers[k + 1] + Cardinality(Of(PairsUpTo(input, it), k))
    BY <2>1, <2>2 DEF PlaceInv
  <2>6. Pairs \subseteq Nat \X Nat /\ IsFiniteSet(Pairs)
    BY <2>1, AllPairs DEF Pairs
  <2>7. /\ Cardinality(Below(Pairs, k + 1)) = Cardinality(Below(Pairs, k)) + Cardinality(Of(Pairs, k))
        /\ Cardinality(Below(Pairs, k)) \in Nat /\ Cardinality(Of(Pairs, k)) \in Nat
    BY <2>6, CountsAddUp
  <2>8. it \in 0 .. Len(input.lines)
    BY <2>1 DEF TypeOK
  <2>9. /\ PairsUpTo(input, it) \subseteq Pairs /\ IsFiniteSet(PairsUpTo(input, it))
        /\ PairsUpTo(input, it) \subseteq Nat \X Nat
    BY <2>1, <2>8, PairsGrow DEF Pairs
  <2>10. Cardinality(Of(PairsUpTo(input, it), k)) <= Cardinality(Of(Pairs, k))
    BY <2>6, <2>9, NotFewer
  <2>11. Cardinality(Of(PairsUpTo(input, it), k)) \in Nat
    BY <2>9, CountsAddUp
  <2>12. pc = "done" => Cardinality(Of(PairsUpTo(input, it), k)) = Cardinality(Of(Pairs, k))
    BY <2>1 DEF Pairs
  <2> QED
    BY <2>2, <2>4, <2>5, <2>7, <2>10, <2>11, <2>12
<1> QED
  BY <1>1, Inductive, PTL

(* The finished index is the reference one: for every predicate its        *)
(* subjects in the order of the file, each once.                           *)
THEOREM IndexCorrect == Spec => []PredicatesListed
<1>1. IInv => PredicatesListed
  <2> SUFFICES ASSUME IInv, pc = "done"
               PROVE  p_index = PredicateIndexOf(input.lines, predicates)
    BY DEF PredicatesListed
  <2>1. /\ TypeOK /\ input \in Inputs /\ PlaceInv /\ it = Len(input.lines)
        /\ p_index.nodes = nodes /\ p_index.pointers = pointers
        /\ p_index \in [pointers : Seq(Nat), nodes : Seq(Nat)]
    BY DEF IInv, PlaceInv
  <2>2. Pairs = {<<input.lines[k][Predicate], input.lines[k][Subject]>> : k \in DOMAIN input.lines}
    <3>1. input.lines \in Seq(Nat \X Nat \X Nat)
      BY <2>1, InputsAssumption DEF WellFormed
    <3>2. DOMAIN input.lines = 1 .. Len(input.lines)
      BY <3>1
    <3>3. \A k \in 1 .. Len(input.lines) :
            Pair(input, k) = <<input.lines[k][Predicate], input.lines[k][Subject]>>
      BY DEF Pair, Read, read_next, Columns, Triplet, Subject, Predicate, Object
    <3> QED
      BY <3>2, <3>3 DEF Pairs, PairsUpTo
  <2>3. /\ Pairs \subseteq Nat \X Nat /\ IsFiniteSet(Pairs) /\ Cardinality(Pairs) = pairs
        /\ pairs \in Nat
    BY <2>1, AllPairs, InputFacts DEF Pairs, pairs
  <2>4. nodes = [k \in 1 .. pairs |-> Nth(Pairs, k - 1)[2]]
    <3>1. ASSUME NEW k \in 1 .. pairs PROVE nodes[k] = Nth(Pairs, k - 1)[2]
      <4>1. k - 1 \in 0 .. pairs - 1 /\ k - 1 + 1 = k
        BY <2>3
      <4>2. Nth(Pairs, k - 1) \in Pairs /\ Rank(Pairs, Nth(Pairs, k - 1)) = k - 1
        BY <2>3, <4>1, RanksArePositions
      <4>3. nodes[Rank(Pairs, Nth(Pairs, k - 1)) + 1] = Nth(Pairs, k - 1)[2]
        BY <2>1, <4>2 DEF PlaceInv, Pairs
      <4> QED
        BY <4>1, <4>2, <4>3
    <3> QED
      BY <2>1, <3>1 DEF TypeOK
  <2>5. pointers = [p \in 1 .. predicates + 1 |-> Cardinality({q \in Pairs : q[1] < p - 1})]
    BY <2>1 DEF PlaceInv, Below
  <2>6. p_index = [pointers |-> pointers, nodes |-> nodes]
    BY <2>1
  <2> QED
    BY <2>2, <2>3, <2>4, <2>5, <2>6 DEF PredicateIndexOf
<1> QED
  BY <1>1, Inductive, PTL
=============================================================================
