---------------------------- MODULE Basics_proofs ----------------------------
(***************************************************************************)
(* Facts that other proofs need. A set of naturals has a least element,    *)
(* from which induction over data is done by a least counterexample, and a *)
(* function may be defined by recursion; the lines of a sorted file are in *)
(* order, whichever two, and those that precede a triplet are its first    *)
(* ones; the ranks of the pairs of a finite set number them from 0 without *)
(* gaps; the division and the powers of numbers; what is written to the    *)
(* words of a bit vector, bit by bit or in rows of values, is read from    *)
(* them; and how its ones and its zeros are counted, skipped and found.    *)
(***************************************************************************)
EXTENDS PairOrder, RdfTypes, CompactVector, FiniteSetTheorems, TLAPS

LessThan == {e \in Nat \X Nat : e[1] < e[2]}

(* The order of the naturals, as the library has it.                       *)
LEMMA LessThanWellFounded == IsWellFoundedOn(LessThan, Nat)
<1>1. LessThan = OpToRel(<, Nat)
  BY DEF LessThan, OpToRel
<1> QED
  BY <1>1, NatLessThanWellFounded

(* Every non-empty set of naturals has a least element. Stated of sets, it *)
(* replaces induction: the set is that of the counterexamples.             *)
LEMMA LeastNatural ==
  ASSUME NEW T, T \subseteq Nat, T # {}
  PROVE  \E x \in T : \A y \in T : x <= y
<1>1. PICK x \in T : \A y \in T : ~ (<<y, x>> \in LessThan)
  BY LessThanWellFounded, WFMin
<1>2. ASSUME NEW y \in T PROVE x <= y
  <2>1. x \in Nat /\ y \in Nat
    OBVIOUS
  <2>2. y < x => <<y, x>> \in LessThan
    BY <2>1 DEF LessThan
  <2> QED
    BY <1>1, <2>1, <2>2
<1> QED
  BY <1>2
-----------------------------------------------------------------------------
(* Induction up to n, of the set of the numbers for which a fact holds.    *)
LEMMA InductionUpTo ==
  ASSUME NEW n \in Nat, NEW P, 0 \in P, \A k \in 0 .. n - 1 : k \in P => k + 1 \in P
  PROVE  \A k \in 0 .. n : k \in P
<1> DEFINE T == {k \in 0 .. n : k \notin P}
<1> SUFFICES ASSUME T # {} PROVE FALSE
  OBVIOUS
<1>1. PICK x \in T : \A y \in T : x <= y
  <2>1. T \subseteq Nat
    OBVIOUS
  <2> HIDE DEF T
  <2> QED
    BY <2>1, LeastNatural
<1>2. x - 1 \in 0 .. n - 1 /\ x = x - 1 + 1
  BY <1>1
<1>3. x - 1 \notin T
  BY <1>1, <1>2
<1> QED
  BY <1>1, <1>2, <1>3

(* f is the recursion of base and step, up to n.                           *)
Recurs(n, f, S, base, step) ==
  /\ f \in [0 .. n -> S]
  /\ f[0] = base
  /\ \A k \in 0 .. n - 1 : f[k + 1] = step[<<k, f[k]>>]

(* step, of a number and the value for it, gives the value for the next.   *)
Steps(S, base, step) == base \in S /\ step \in [Nat \X S -> S]

HasRecursion(S, base, step) ==
  \E f \in [Nat -> S] : f[0] = base /\ \A k \in Nat : f[k + 1] = step[<<k, f[k]>>]

(* A function may be defined by recursion.                                 *)
LEMMA Recursion ==
  ASSUME NEW S, NEW base, NEW step, Steps(S, base, step)
  PROVE  HasRecursion(S, base, step)
<1>0. base \in S /\ step \in [Nat \X S -> S]
  BY DEF Steps
<1>1. ASSUME NEW n \in Nat PROVE \E f : Recurs(n, f, S, base, step)
  <2> DEFINE P == {k \in Nat : \E f : Recurs(k, f, S, base, step)}
  <2>1. 0 \in P
    <3>1. Recurs(0, [k \in 0 .. 0 |-> base], S, base, step)
      BY <1>0 DEF Recurs
    <3> QED
      BY <3>1
  <2>2. ASSUME NEW k \in 0 .. n - 1, k \in P PROVE k + 1 \in P
    <3>1. PICK f : Recurs(k, f, S, base, step)
      BY <2>2
    <3>2. /\ f \in [0 .. k -> S] /\ f[0] = base
          /\ \A j \in 0 .. k - 1 : f[j + 1] = step[<<j, f[j]>>]
      BY <3>1 DEF Recurs
    <3> DEFINE g == [j \in 0 .. k + 1 |-> IF j = k + 1 THEN step[<<k, f[k]>>] ELSE f[j]]
    <3>3. k \in Nat /\ f[k] \in S /\ step[<<k, f[k]>>] \in S
      BY <1>0, <3>2
    <3>4. /\ \A j \in 0 .. k : g[j] = f[j]
          /\ g[k + 1] = step[<<k, f[k]>>]
      BY <3>3
    <3>5. g \in [0 .. k + 1 -> S] /\ g[0] = base
      BY <3>2, <3>3, <3>4
    <3>6. ASSUME NEW j \in 0 .. (k + 1) - 1 PROVE g[j + 1] = step[<<j, g[j]>>]
      <4> HIDE DEF g
      <4>1. CASE j = k
        BY <3>3, <3>4, <4>1
      <4>2. CASE j # k
        <5>1. j \in 0 .. k - 1 /\ j \in 0 .. k /\ j + 1 \in 0 .. k
          BY <3>3, <4>2
        <5> QED
          BY <3>2, <3>4, <5>1
      <4> QED
        BY <4>1, <4>2
    <3> HIDE DEF g
    <3>7. Recurs(k + 1, g, S, base, step)
      BY <3>5, <3>6 DEF Recurs
    <3> QED
      BY <3>3, <3>7
  <2> HIDE DEF P
  <2>3. n \in P
    BY <2>1, <2>2, InductionUpTo
  <2> QED
    BY <2>3 DEF P
<1>2. ASSUME NEW n \in Nat, NEW f, Recurs(n, f, S, base, step), NEW m \in 0 .. n,
             NEW g, Recurs(m, g, S, base, step)
      PROVE  f[m] = g[m]
  <2> DEFINE P == {k \in Nat : f[k] = g[k]}
  <2>0. /\ m \in Nat /\ f[0] = g[0]
        /\ \A k \in 0 .. m - 1 : f[k + 1] = step[<<k, f[k]>>] /\ g[k + 1] = step[<<k, g[k]>>]
    BY <1>2 DEF Recurs
  <2>1. 0 \in P
    BY <2>0
  <2>2. ASSUME NEW k \in 0 .. m - 1, k \in P PROVE k + 1 \in P
    <3>1. f[k] = g[k] /\ k + 1 \in Nat
      BY <2>2
    <3>2. f[k + 1] = step[<<k, f[k]>>] /\ g[k + 1] = step[<<k, g[k]>>]
      BY <2>0
    <3> QED
      BY <3>1, <3>2
  <2> HIDE DEF P
  <2>3. m \in P
    BY <2>0, <2>1, <2>2, InductionUpTo
  <2> QED
    BY <2>3 DEF P
<1> DEFINE F == [n \in Nat |-> CHOOSE f : Recurs(n, f, S, base, step)]
           h == [n \in Nat |-> F[n][n]]
<1>3. \A n \in Nat : Recurs(n, F[n], S, base, step)
  BY <1>1
<1> HIDE DEF F
<1>4. \A n \in Nat : \A m \in 0 .. n : F[n][m] = F[m][m]
  BY <1>2, <1>3
<1>5. h \in [Nat -> S] /\ h[0] = base
  BY <1>3 DEF Recurs
<1>6. ASSUME NEW k \in Nat PROVE h[k + 1] = step[<<k, h[k]>>]
  <2>1. k + 1 \in Nat /\ k \in 0 .. (k + 1) - 1 /\ k \in 0 .. k + 1
    OBVIOUS
  <2>2. F[k + 1][k + 1] = step[<<k, F[k + 1][k]>>]
    BY <1>3, <2>1 DEF Recurs
  <2> QED
    BY <1>4, <2>1, <2>2
<1> QED
  BY <1>5, <1>6 DEF HasRecursion
-----------------------------------------------------------------------------
(* The order of a file is transitive.                                      *)
LEMMA PrecedesTransitive ==
  ASSUME NEW t \in [first : Nat, second : Nat, third : Nat],
         NEW u \in [first : Nat, second : Nat, third : Nat],
         NEW v \in [first : Nat, second : Nat, third : Nat],
         Precedes(t, u), Precedes(u, v)
  PROVE  Precedes(t, v)
  BY DEF Precedes

(* What lies between two lines of one pair has that pair.                  *)
LEMMA PrecedesSqueezed ==
  ASSUME NEW t \in [first : Nat, second : Nat, third : Nat],
         NEW u \in [first : Nat, second : Nat, third : Nat],
         NEW v \in [first : Nat, second : Nat, third : Nat],
         Precedes(t, u), Precedes(u, v), t.first = v.first, t.second = v.second
  PROVE  u.first = v.first /\ u.second = v.second
  BY DEF Precedes

(* A sequence of triplets of which each precedes the next is sorted: the   *)
(* least one that did not come after some earlier one would follow one     *)
(* that does.                                                              *)
LEMMA SortedPairwise ==
  ASSUME NEW n \in Nat, NEW f \in [1 .. n -> [first : Nat, second : Nat, third : Nat]],
         \A k \in 1 .. n - 1 : Precedes(f[k], f[k + 1]),
         NEW a \in 1 .. n, NEW b \in 1 .. n, a < b
  PROVE  Precedes(f[a], f[b])
<1> DEFINE T == {c \in Nat : a < c /\ c <= n /\ ~ Precedes(f[a], f[c])}
<1> SUFFICES ASSUME ~ Precedes(f[a], f[b]) PROVE FALSE
  OBVIOUS
<1>0. b \in T
  OBVIOUS
<1>1. PICK c \in T : \A d \in T : c <= d
  <2>1. T \subseteq Nat
    OBVIOUS
  <2> HIDE DEF T
  <2> QED
    BY <1>0, <2>1, LeastNatural
<1>2. c - 1 \in 1 .. n - 1 /\ c - 1 \in 1 .. n /\ c \in 1 .. n /\ c = c - 1 + 1 /\ c - 1 \notin T
  BY <1>1
<1>3. a = c - 1 \/ Precedes(f[a], f[c - 1])
  BY <1>2
<1>4. ~ Precedes(f[a], f[c])
  BY <1>1
<1> HIDE DEF T
<1>5. Precedes(f[c - 1], f[c])
  BY <1>2
<1> QED
  BY <1>2, <1>3, <1>4, <1>5, PrecedesTransitive
-----------------------------------------------------------------------------
(* The numbers 1 .. n that come before some place are counted by it.       *)
LEMMA DownLines ==
  ASSUME NEW n \in Nat, NEW T, T \subseteq 1 .. n,
         \A i \in T : \A k \in 1 .. n : k < i => k \in T
  PROVE  Cardinality(T) \in 0 .. n /\ \A k \in 1 .. n : k \in T <=> k <= Cardinality(T)
<1> DEFINE Out == {d \in Nat : d + 1 \notin T}
<1>1. n \in Out
  OBVIOUS
<1>2. PICK c \in Out : \A d \in Out : c <= d
  <2>1. Out \subseteq Nat /\ Out # {}
    BY <1>1
  <2> HIDE DEF Out
  <2> QED
    BY <2>1, LeastNatural
<1>3. c \in 0 .. n /\ c + 1 \notin T
  BY <1>1, <1>2
<1>4. ASSUME NEW k \in 1 .. n PROVE k \in T <=> k <= c
  <2>1. k <= c => k \in T
    <3>1. k - 1 \in Nat /\ (k - 1) + 1 = k
      OBVIOUS
    <3>2. k <= c => k - 1 \notin Out
      BY <1>2, <1>3, <3>1
    <3> QED
      BY <3>1, <3>2
  <2>2. ASSUME k \in T, c < k PROVE FALSE
    <3>1. c + 1 \in 1 .. n /\ (c + 1 = k \/ c + 1 < k)
      BY <1>3, <2>2
    <3> QED
      BY <1>3, <2>2, <3>1
  <2> QED
    BY <1>3, <2>1, <2>2
<1>5. T = 1 .. c
  <2>1. \A k \in T : k \in 1 .. n
    OBVIOUS
  <2>2. \A k \in T : k \in 1 .. c
    BY <1>3, <1>4, <2>1
  <2>3. \A k \in 1 .. c : k \in 1 .. n /\ k <= c
    BY <1>3
  <2> QED
    BY <1>4, <2>2, <2>3
<1>6. Cardinality(T) = c
  <2>1. 1 \in Int /\ c \in Int
    BY <1>3
  <2>2. Cardinality(1 .. c) = IF 1 > c THEN 0 ELSE c - 1 + 1
    BY <2>1, FS_Interval
  <2> QED
    BY <1>3, <1>5, <2>2
<1> QED
  BY <1>3, <1>4, <1>6

(* The lines of a permutation file: sorted, and with the first ids 0, 1 .. *)
SortedLines(line, n) ==
  /\ n \in Nat \ {0} /\ line \in [1 .. n -> [first : Nat, second : Nat, third : Nat]]
  /\ \A k \in 1 .. n - 1 : Precedes(line[k], line[k + 1])
  /\ \A f \in 0 .. line[n].first : \E i \in 1 .. n : line[i].first = f

(* Between two lines, whichever, the order is that of their places.        *)
LEMMA LinesInOrder ==
  ASSUME NEW line, NEW n, SortedLines(line, n), NEW i \in 1 .. n, NEW k \in 1 .. n, i < k
  PROVE  /\ Precedes(line[i], line[k]) /\ ~ Precedes(line[k], line[i]) /\ line[i] # line[k]
         /\ line[i].first <= line[k].first
         /\ line[i].first = line[k].first => line[i].second <= line[k].second
         /\ line[i].first = line[k].first /\ line[i].second = line[k].second
              => line[i].third < line[k].third
<1>1. /\ n \in Nat /\ line \in [1 .. n -> [first : Nat, second : Nat, third : Nat]]
      /\ \A j \in 1 .. n - 1 : Precedes(line[j], line[j + 1])
  BY DEF SortedLines
<1>2. Precedes(line[i], line[k])
  BY <1>1, SortedPairwise
<1>3. /\ line[i].first \in Nat /\ line[i].second \in Nat /\ line[i].third \in Nat
      /\ line[k].first \in Nat /\ line[k].second \in Nat /\ line[k].third \in Nat
  BY <1>1
<1>4. /\ ~ Precedes(line[k], line[i]) /\ line[i].first <= line[k].first
      /\ line[i].first = line[k].first => line[i].second <= line[k].second
      /\ line[i].first = line[k].first /\ line[i].second = line[k].second
           => line[i].third < line[k].third
  BY <1>2, <1>3 DEF Precedes
<1> QED
  BY <1>2, <1>4

(* How far an iterator got in the file that lists its answers: the m first *)
(* lines are those that precede u.                                         *)
IdTriplets == [first : Nat, second : Nat, third : Nat]

Reached(line, n, u, m) ==
  /\ m \in 0 .. n
  /\ \A k \in 0 .. n - 1 : Precedes(line[k + 1], u) <=> k < m

(* The order is a strict total order on triplets of ids.                   *)
LEMMA TotalOrder ==
  ASSUME NEW t \in IdTriplets, NEW u \in IdTriplets
  PROVE  /\ ~ Precedes(t, t)
         /\ Precedes(t, u) \/ Precedes(u, t) \/ t = u
         /\ ~ (Precedes(t, u) /\ Precedes(u, t))
         /\ \A v \in IdTriplets : Precedes(t, u) /\ Precedes(u, v) => Precedes(t, v)
<1>1. /\ t = [first |-> t.first, second |-> t.second, third |-> t.third]
      /\ u = [first |-> u.first, second |-> u.second, third |-> u.third]
  BY DEF IdTriplets
<1>2. /\ t.first \in Nat /\ t.second \in Nat /\ t.third \in Nat
      /\ u.first \in Nat /\ u.second \in Nat /\ u.third \in Nat
  BY DEF IdTriplets
<1>3. ~ Precedes(t, t)
  BY <1>2 DEF Precedes
<1>4. Precedes(t, u) \/ Precedes(u, t) \/ t = u
  <2>1. \/ Precedes(t, u) \/ Precedes(u, t)
        \/ t.first = u.first /\ t.second = u.second /\ t.third = u.third
    BY <1>2 DEF Precedes
  <2> QED
    BY <1>1, <2>1
<1>5. ~ (Precedes(t, u) /\ Precedes(u, t))
  BY <1>2 DEF Precedes
<1>6. ASSUME NEW v \in IdTriplets PROVE Precedes(t, u) /\ Precedes(u, v) => Precedes(t, v)
  <2>1. v.first \in Nat /\ v.second \in Nat /\ v.third \in Nat
    BY DEF IdTriplets
  <2> QED
    BY <1>2, <2>1 DEF Precedes
<1> QED
  BY <1>3, <1>4, <1>5, <1>6

(* Some number of lines precedes any triplet.                              *)
LEMMA ReachedSome ==
  ASSUME NEW line, NEW n, SortedLines(line, n), NEW u \in IdTriplets
  PROVE  \E m : Reached(line, n, u, m)
<1>1. n \in Nat /\ line \in [1 .. n -> IdTriplets]
  BY DEF SortedLines, IdTriplets
<1> DEFINE T == {i \in 1 .. n : Precedes(line[i], u)}
<1>2. ASSUME NEW i \in T, NEW k \in 1 .. n, k < i PROVE k \in T
  <2>1. i \in 1 .. n /\ Precedes(line[i], u)
    OBVIOUS
  <2>2. Precedes(line[k], line[i])
    BY <1>2, <2>1, LinesInOrder
  <2>3. line[k] \in IdTriplets /\ line[i] \in IdTriplets
    BY <1>1, <2>1
  <2> QED
    BY <2>1, <2>2, <2>3, TotalOrder
<1>3. PICK m : m \in 0 .. n /\ \A k \in 1 .. n : k \in T <=> k <= m
  <2>1. T \subseteq 1 .. n
    OBVIOUS
  <2>2. \A i \in T : \A k \in 1 .. n : k < i => k \in T
    BY <1>2
  <2> HIDE DEF T
  <2>3. Cardinality(T) \in 0 .. n /\ \A k \in 1 .. n : k \in T <=> k <= Cardinality(T)
    BY <1>1, <2>1, <2>2, DownLines
  <2> QED
    BY <2>3
<1>4. \A k \in 0 .. n - 1 : Precedes(line[k + 1], u) <=> k < m
  <2> TAKE k \in 0 .. n - 1
  <2>1. k + 1 \in 1 .. n /\ (k + 1 <= m <=> k < m)
    BY <1>1, <1>3
  <2> QED
    BY <1>3, <2>1
<1> QED
  BY <1>3, <1>4 DEF Reached

(* A line is reached by those before it.                                   *)
LEMMA ReachedLine ==
  ASSUME NEW line, NEW n, SortedLines(line, n), NEW m, NEW i \in 1 .. n,
         Reached(line, n, line[i], m)
  PROVE  m + 1 = i
<1>1. n \in Nat /\ line \in [1 .. n -> IdTriplets]
  BY DEF SortedLines, IdTriplets
<1>2. m \in 0 .. n /\ \A k \in 0 .. n - 1 : Precedes(line[k + 1], line[i]) <=> k < m
  BY DEF Reached
<1>3. i - 1 \in 0 .. n - 1 /\ (i - 1) + 1 = i
  BY <1>1
<1>4. ~ (i - 1 < m)
  <2>1. ~ Precedes(line[i], line[i])
    BY <1>1, TotalOrder
  <2> QED
    BY <1>2, <1>3, <2>1
<1>5. ~ (m < i - 1)
  <2> SUFFICES ASSUME m < i - 1 PROVE FALSE
    OBVIOUS
  <2>1. m \in 0 .. n - 1 /\ m + 1 \in 1 .. n /\ m + 1 < i
    BY <1>1, <1>2
  <2>2. Precedes(line[m + 1], line[i])
    BY <2>1, LinesInOrder
  <2>3. m < m
    BY <1>2, <2>1, <2>2
  <2> QED
    BY <1>2, <2>3
<1> QED
  BY <1>2, <1>3, <1>4, <1>5

(* Past it, one line more is.                                              *)
LEMMA ReachedNext ==
  ASSUME NEW line, NEW n, SortedLines(line, n), NEW m, NEW i \in 1 .. n,
         Reached(line, n, line[i], m), NEW v,
         \A k \in 1 .. n : Precedes(line[k], v) <=> Precedes(line[k], line[i]) \/ line[k] = line[i]
  PROVE  m + 1 = i /\ Reached(line, n, v, m + 1)
<1>1. m + 1 = i /\ n \in Nat
  BY ReachedLine DEF SortedLines
<1>2. m \in 0 .. n /\ \A k \in 0 .. n - 1 : Precedes(line[k + 1], line[i]) <=> k < m
  BY DEF Reached
<1>3. ASSUME NEW k \in 0 .. n - 1 PROVE Precedes(line[k + 1], v) <=> k < m + 1
  <2>1. k + 1 \in 1 .. n
    BY <1>1
  <2>2. line[k + 1] = line[i] <=> k + 1 = i
    BY <1>1, <2>1, LinesInOrder
  <2>3. k + 1 = i <=> k = m
    BY <1>1, <1>2
  <2>4. k < m + 1 <=> k < m \/ k = m
    BY <1>2
  <2> QED
    BY <1>2, <2>1, <2>2, <2>3, <2>4
<1> QED
  BY <1>1, <1>2, <1>3 DEF Reached

(* A threshold that no line tells from another is as far.                  *)
LEMMA ReachedAlike ==
  ASSUME NEW line, NEW n, NEW u, NEW m, Reached(line, n, u, m), NEW v, n \in Nat,
         \A k \in 1 .. n : Precedes(line[k], v) <=> Precedes(line[k], u)
  PROVE  Reached(line, n, v, m)
<1>1. \A k \in 0 .. n - 1 : k + 1 \in 1 .. n
  OBVIOUS
<1> QED
  BY <1>1 DEF Reached
-----------------------------------------------------------------------------
(* The ranks of the pairs of a finite set are its positions, each once.    *)
LEMMA RanksArePositions ==
  ASSUME NEW S, S \subseteq Nat \X Nat, IsFiniteSet(S)
  PROVE  /\ Cardinality(S) \in Nat
         /\ \A q \in S : Rank(S, q) \in 0 .. Cardinality(S) - 1 /\ Nth(S, Rank(S, q)) = q
         /\ \A k \in 0 .. Cardinality(S) - 1 : Nth(S, k) \in S /\ Rank(S, Nth(S, k)) = k
         /\ \A q, r \in S : Before(q, r) => Rank(S, q) < Rank(S, r)
<1> DEFINE Under(q) == {r \in S : Before(r, q)}
<1>1. PICK m \in Nat : m = Cardinality(S)
  BY FS_CardinalityType
<1>2. ASSUME NEW q \in S
      PROVE  /\ IsFiniteSet(Under(q)) /\ Rank(S, q) = Cardinality(Under(q))
             /\ Rank(S, q) \in Nat /\ Rank(S, q) <= m - 1
  <2>1. Under(q) \in SUBSET (S \ {q})
    BY DEF Before
  <2>2. IsFiniteSet(S \ {q}) /\ Cardinality(S \ {q}) = m - 1
    BY <1>1, FS_RemoveElement
  <2>3. IsFiniteSet(Under(q)) /\ Cardinality(Under(q)) <= m - 1
    BY <2>1, <2>2, FS_Subset
  <2>4. Cardinality(Under(q)) \in Nat
    BY <2>3, FS_CardinalityType
  <2> QED
    BY <1>1, <2>3, <2>4 DEF Rank
<1>3. ASSUME NEW q \in S, NEW r \in S, Before(q, r)
      PROVE  Rank(S, q) < Rank(S, r)
  <2>1. Under(q) \in SUBSET Under(r)
    BY <1>3 DEF Before
  <2>2. q \in Under(r) /\ q \notin Under(q)
    BY <1>3 DEF Before
  <2>3. Cardinality(Under(q)) <= Cardinality(Under(r)) /\ Cardinality(Under(q)) # Cardinality(Under(r))
    BY <1>2, <2>1, <2>2, FS_Subset
  <2> HIDE DEF Under
  <2> QED
    BY <1>2, <2>3
<1>4. \A q, r \in S : q # r => Before(q, r) \/ Before(r, q)
  BY DEF Before
<1>5. ASSUME NEW q \in S, NEW r \in S, Rank(S, q) = Rank(S, r)
      PROVE  q = r
  <2> HIDE DEF Under
  <2> QED
    BY <1>2, <1>3, <1>4, <1>5
<1> DEFINE f == [q \in S |-> Rank(S, q)]
           P == 0 .. m - 1
<1>6. f \in Injection(S, P)
  <2> HIDE DEF Under
  <2>1. f \in [S -> P]
    BY <1>2
  <2> QED
    BY <1>5, <2>1 DEF Injection, IsInjective
<1>7. IsFiniteSet(P) /\ Cardinality(P) = m
  <2>1. 0 \in Int /\ m - 1 \in Int
    OBVIOUS
  <2>2. IsFiniteSet(P) /\ Cardinality(P) = IF 0 > m - 1 THEN 0 ELSE m - 1 - 0 + 1
    BY <2>1, FS_Interval
  <2> QED
    BY <2>2
<1>8. f \in Surjection(S, P)
  BY <1>1, <1>6, <1>7, FS_Injection
<1>9. \A k \in P : \E q \in S : Rank(S, q) = k
  BY <1>8 DEF Surjection
<1>10. \A k \in P : Nth(S, k) \in S /\ Rank(S, Nth(S, k)) = k
  BY <1>9 DEF Nth
<1>11. \A q \in S : Rank(S, q) \in P
  <2> HIDE DEF Under
  <2> QED
    BY <1>2
<1>12. \A q \in S : Nth(S, Rank(S, q)) = q
  BY <1>5, <1>10, <1>11
<1> QED
  BY <1>1, <1>3, <1>10, <1>11, <1>12
-----------------------------------------------------------------------------
(* f lists the m pairs of S in order.                                      *)
RankOrder(f, S, m) ==
  /\ f \in [0 .. m - 1 -> S]
  /\ \A q \in S : \E j \in 0 .. m - 1 : f[j] = q
  /\ \A a, b \in 0 .. m - 1 : a < b => Before(f[a], f[b])

(* Of those m, T has the first c.                                          *)
HasFirst(T, c, f, m) == \A j \in 0 .. m - 1 : f[j] \in T <=> j < c

(* Where f lists the pairs of S, the first c of them are c.                *)
LEMMA CountsInitialPart ==
  ASSUME NEW S, S \subseteq Nat \X Nat, NEW m \in Nat, NEW f, RankOrder(f, S, m),
         NEW c \in 0 .. m, NEW T, T \subseteq S, HasFirst(T, c, f, m)
  PROVE  IsFiniteSet(T) /\ Cardinality(T) = c
<1> DEFINE P == 0 .. c - 1
           g == [j \in P |-> f[j]]
<1>0. /\ f \in [0 .. m - 1 -> S]
      /\ \A q \in S : \E j \in 0 .. m - 1 : f[j] = q
      /\ \A a, b \in 0 .. m - 1 : a < b => Before(f[a], f[b])
      /\ \A j \in 0 .. m - 1 : f[j] \in T <=> j < c
  BY DEF RankOrder, HasFirst
<1>1. c \in Nat /\ P \subseteq 0 .. m - 1 /\ \A j \in 0 .. m - 1 : j < c => j \in P
  BY <1>0
<1>2. g \in [P -> T] /\ \A j \in P : g[j] = f[j]
  BY <1>0, <1>1
<1>3. \A a, b \in P : a < b => f[a] # f[b]
  <2>1. \A q \in S : ~ Before(q, q)
    BY DEF Before
  <2> QED
    BY <1>0, <1>1, <2>1
<1>4. \A a, b \in P : g[a] = g[b] => a = b
  BY <1>2, <1>3
<1>5. \A q \in T : \E j \in P : g[j] = q
  BY <1>0, <1>1, <1>2
<1>6. g \in Bijection(P, T)
  BY <1>2, <1>4, <1>5 DEF Bijection, Injection, Surjection, IsInjective
<1>7. IsFiniteSet(P) /\ Cardinality(P) = c
  <2>1. 0 \in Int /\ c - 1 \in Int
    BY <1>1
  <2>2. IsFiniteSet(P) /\ Cardinality(P) = IF 0 > c - 1 THEN 0 ELSE c - 1 - 0 + 1
    BY <2>1, FS_Interval
  <2> QED
    BY <1>1, <2>2
<1> QED
  BY <1>6, <1>7, FS_Bijection DEF ExistsBijection

(* A list of the pairs of S in order is the list of their ranks.           *)
LEMMA IncreasingEnumeration ==
  ASSUME NEW S, S \subseteq Nat \X Nat, NEW m \in Nat, NEW f, RankOrder(f, S, m)
  PROVE  /\ IsFiniteSet(S) /\ Cardinality(S) = m
         /\ \A j \in 0 .. m - 1 : f[j] \in S /\ Rank(S, f[j]) = j /\ Nth(S, j) = f[j]
<1>0. /\ f \in [0 .. m - 1 -> S]
      /\ \A q \in S : \E j \in 0 .. m - 1 : f[j] = q
      /\ \A a, b \in 0 .. m - 1 : a < b => Before(f[a], f[b])
  BY DEF RankOrder
<1>1. IsFiniteSet(S) /\ Cardinality(S) = m
  <2>1. m \in 0 .. m /\ HasFirst(S, m, f, m)
    BY <1>0 DEF HasFirst
  <2> QED
    BY <2>1, CountsInitialPart
<1>2. ASSUME NEW j \in 0 .. m - 1 PROVE Rank(S, f[j]) = j
  <2> DEFINE T == {r \in S : Before(r, f[j])}
  <2>1. \A q, r \in S : ~ (Before(q, r) /\ Before(r, q)) /\ ~ Before(q, q)
    BY DEF Before
  <2>2. \A k \in 0 .. m - 1 : f[k] \in T <=> k < j
    <3> TAKE k \in 0 .. m - 1
    <3>1. k < j \/ k = j \/ j < k
      OBVIOUS
    <3>2. f[k] \in S /\ f[j] \in S
      BY <1>0
    <3> QED
      BY <1>0, <2>1, <3>1, <3>2
  <2>3. T \subseteq S /\ j \in 0 .. m
    OBVIOUS
  <2> HIDE DEF T
  <2>4. HasFirst(T, j, f, m)
    BY <2>2 DEF HasFirst
  <2>5. Cardinality(T) = j
    BY <2>3, <2>4, CountsInitialPart
  <2> QED
    BY <2>5 DEF T, Rank
<1>3. \A j \in 0 .. m - 1 : Nth(S, j) = f[j]
  <2> TAKE j \in 0 .. m - 1
  <2>1. \A q \in S : Rank(S, q) = j => q = f[j]
    BY <1>0, <1>2
  <2> QED
    BY <1>0, <1>2, <2>1 DEF Nth
<1> QED
  BY <1>0, <1>1, <1>2, <1>3
-----------------------------------------------------------------------------
(* A quotient and a remainder are known from what they are for.            *)
LEMMA DivisionKnown ==
  ASSUME NEW b \in Nat \ {0}, NEW q \in Nat, NEW r \in 0 .. b - 1
  PROVE  (b * q + r) \div b = q /\ (b * q + r) % b = r
  OBVIOUS

(* Division by a positive number.                                          *)
LEMMA Division ==
  ASSUME NEW a \in Nat, NEW b \in Nat \ {0}
  PROVE  a \div b \in Nat /\ a % b \in 0 .. b - 1 /\ a = b * (a \div b) + (a % b)
  OBVIOUS

(* One digit more, in base g, of a number of which p is a power of g.      *)
LEMMA OneDigitMore ==
  ASSUME NEW a \in Nat, NEW p \in Nat \ {0}, NEW g \in Nat \ {0}
  PROVE  a % (g * p) = (a % p) + ((a \div p) % g) * p
<1>1. PICK q \in Nat, r \in 0 .. p - 1 : q = a \div p /\ r = a % p /\ a = p * q + r
  BY Division
<1>2. PICK s \in Nat, t \in 0 .. g - 1 : s = q \div g /\ t = q % g /\ q = g * s + t
  BY Division
<1>3. g * p \in Nat \ {0}
  OBVIOUS
<1>4. p * t + r \in 0 .. g * p - 1
  <2>1. t + 1 <= g /\ p * (t + 1) <= p * g
    OBVIOUS
  <2>2. p * t + r < p * (t + 1) /\ p * t + r \in Nat
    OBVIOUS
  <2> QED
    BY <1>3, <2>1, <2>2
<1>5. a = (g * p) * s + (p * t + r)
  <2>1. p * q = p * (g * s + t)
    BY <1>2
  <2>2. p * (g * s + t) = (g * p) * s + p * t
    OBVIOUS
  <2> QED
    BY <1>1, <2>1, <2>2
<1>6. a % (g * p) = p * t + r
  BY <1>3, <1>4, <1>5, DivisionKnown
<1>7. (a \div p) % g = t /\ a % p = r
  BY <1>1, <1>2
<1>8. p * t = t * p
  OBVIOUS
<1> QED
  <2>1. a % (g * p) = r + t * p
    BY <1>6, <1>8
  <2> QED
    BY <1>7, <2>1

(* The powers of g, by a recursive function.                               *)
PowersOf(g) == CHOOSE f : f = [k \in Nat |-> IF k = 0 THEN 1 ELSE g * f[k - 1]]

(* They are what the recursion says.                                       *)
LEMMA PowersKnown ==
  ASSUME NEW g \in Nat \ {0}, NEW pw, pw = PowersOf(g)
  PROVE  /\ pw \in [Nat -> Nat \ {0}]
         /\ pw[0] = 1 /\ \A k \in Nat : pw[k + 1] = g * pw[k]
<1> DEFINE S == Nat \ {0}
           step == [e \in Nat \X S |-> g * e[2]]
<1>1. 1 \in S /\ step \in [Nat \X S -> S]
  <2>1. \A m \in S : g * m \in S
    OBVIOUS
  <2> HIDE DEF S
  <2>2. \A e \in Nat \X S : e[2] \in S
    OBVIOUS
  <2> QED
    BY <2>1, <2>2 DEF S
<1>2. \A k \in Nat, m \in S : step[<<k, m>>] = g * m
  OBVIOUS
<1> HIDE DEF step, S
<1>3. PICK f \in [Nat -> S] : f[0] = 1 /\ \A k \in Nat : f[k + 1] = step[<<k, f[k]>>]
  <2>1. Steps(S, 1, step)
    BY <1>1 DEF Steps
  <2>2. HasRecursion(S, 1, step)
    BY <2>1, Recursion
  <2> QED
    BY <2>2 DEF HasRecursion
<1>4. \A k \in Nat : f[k + 1] = g * f[k]
  BY <1>2, <1>3
<1>5. f = [k \in Nat |-> IF k = 0 THEN 1 ELSE g * f[k - 1]]
  <2>1. ASSUME NEW k \in Nat PROVE f[k] = IF k = 0 THEN 1 ELSE g * f[k - 1]
    <3>1. CASE k = 0
      BY <1>3, <3>1
    <3>2. CASE k # 0
      <4>1. k - 1 \in Nat /\ k = (k - 1) + 1
        BY <3>2
      <4> QED
        BY <1>4, <3>2, <4>1
    <3> QED
      BY <3>1, <3>2
  <2> QED
    BY <1>3, <2>1
<1>6. pw = [k \in Nat |-> IF k = 0 THEN 1 ELSE g * pw[k - 1]]
  BY <1>5 DEF PowersOf
<1>7. pw[0] = 1
  BY <1>6
<1>8. \A k \in Nat : pw[k + 1] = g * pw[k]
  <2> TAKE k \in Nat
  <2>1. k + 1 \in Nat /\ k + 1 # 0 /\ (k + 1) - 1 = k
    OBVIOUS
  <2> QED
    BY <1>6, <2>1
<1>9. ASSUME NEW n \in Nat PROVE pw[n] \in Nat \ {0}
  <2> DEFINE P == {k \in Nat : pw[k] \in Nat \ {0}}
  <2>1. 0 \in P
    BY <1>7
  <2>2. ASSUME NEW k \in 0 .. n - 1, k \in P PROVE k + 1 \in P
    <3>1. k \in Nat /\ pw[k] \in Nat \ {0}
      BY <2>2
    <3>2. g * pw[k] \in Nat \ {0}
      BY <3>1
    <3> QED
      BY <1>8, <3>1, <3>2
  <2> HIDE DEF P
  <2>3. n \in P
    BY <2>1, <2>2, InductionUpTo
  <2> QED
    BY <2>3 DEF P
<1>10. pw \in [Nat -> Nat \ {0}]
  <2>1. pw = [k \in Nat |-> pw[k]]
    BY <1>6
  <2> QED
    BY <1>9, <2>1
<1> QED
  BY <1>7, <1>8, <1>10
-----------------------------------------------------------------------------
(* The bit of the words at a position, if they have one.                   *)
BitAt(words, p) == p % word_width \in words[(p \div word_width) + 1]

(* The powers of 2 are what their recursion says.                          *)
LEMMA Powers ==
  /\ power \in [Nat -> Nat \ {0}]
  /\ power[0] = 1 /\ \A k \in Nat : power[k + 1] = 2 * power[k]
<1>1. 2 \in Nat \ {0}
  OBVIOUS
<1>2. power = PowersOf(2)
  BY DEF power, PowersOf
<1> QED
  BY <1>1, <1>2, PowersKnown

(* A greater exponent, a greater power.                                    *)
LEMMA PowersOrdered ==
  ASSUME NEW a \in Nat, NEW b \in Nat, a <= b
  PROVE  power[a] <= power[b]
<1> DEFINE P == {k \in Nat : power[a] <= power[a + k]}
<1>1. 0 \in P
  BY Powers
<1>2. ASSUME NEW k \in 0 .. (b - a) - 1, k \in P PROVE k + 1 \in P
  <2>1. k \in Nat /\ a + k \in Nat /\ (a + k) + 1 = a + (k + 1)
    OBVIOUS
  <2>2. power[a + (k + 1)] = 2 * power[a + k] /\ power[a + k] \in Nat /\ power[a] \in Nat
    BY <2>1, Powers
  <2>3. power[a] <= power[a + k]
    BY <1>2
  <2> QED
    BY <2>1, <2>2, <2>3
<1>3. b - a \in Nat
  OBVIOUS
<1> HIDE DEF P
<1>4. b - a \in P
  BY <1>1, <1>2, <1>3, InductionUpTo
<1> QED
  BY <1>4 DEF P

(* A number has no bits from its width on.                                 *)
LEMMA BitsWithin ==
  ASSUME NEW len \in 0 .. word_width, NEW v \in Nat, v < power[len]
  PROVE  bits_of(v) \subseteq Mask(len)
<1> SUFFICES ASSUME NEW b \in Bits, (v \div power[b]) % 2 = 1 PROVE b \in 0 .. len - 1
  BY DEF bits_of, Mask
<1>1. b \in Nat /\ len \in Nat /\ word_width \in Nat
  BY WordsAssumption DEF Bits
<1>2. CASE b >= len
  <2>1. power[len] <= power[b] /\ power[b] \in Nat \ {0} /\ power[len] \in Nat
    BY <1>1, <1>2, Powers, PowersOrdered
  <2>2. v < power[b]
    BY <2>1
  <2>3. v \div power[b] = 0
    <3>1. v = power[b] * 0 + v /\ v \in 0 .. power[b] - 1
      BY <2>1, <2>2
    <3> QED
      BY <2>1, <3>1, DivisionKnown
  <2> QED
    BY <2>3
<1> QED
  BY <1>1, <1>2

(* A number that fits in a word is the number of its bits.                 *)
LEMMA NumberOfBits ==
  ASSUME NEW v \in Nat, v < power[word_width]
  PROVE  number(bits_of(v)) = v
<1> DEFINE turn(f, k) == IF k = 0 THEN 0
                         ELSE f[k - 1] + IF k - 1 \in bits_of(v) THEN power[k - 1] ELSE 0
           below == CHOOSE f : f = [k \in 0 .. word_width |-> turn(f, k)]
           g == [k \in 0 .. word_width |-> v % power[k]]
<1>0. word_width \in Nat
  BY WordsAssumption
<1>1. \A k \in 0 .. word_width - 1 :
        /\ v % power[k] \in Nat
        /\ v % power[k + 1] = (v % power[k]) + IF k \in bits_of(v) THEN power[k] ELSE 0
  <2> TAKE k \in 0 .. word_width - 1
  <2>1. k \in Nat /\ k \in Bits
    BY <1>0 DEF Bits
  <2>2. power[k + 1] = 2 * power[k] /\ power[k] \in Nat \ {0}
    BY <2>1, Powers
  <2> HIDE DEF below, g
  <2>3. v % (2 * power[k]) = (v % power[k]) + ((v \div power[k]) % 2) * power[k]
    <3>1. PICK q \in Nat \ {0} : q = power[k]
      BY <2>2
    <3>2. v % (2 * q) = (v % q) + ((v \div q) % 2) * q
      <4>1. 2 \in Nat \ {0}
        OBVIOUS
      <4> QED
        BY <4>1, OneDigitMore
    <3> QED
      BY <3>1, <3>2
  <2>4. v \div power[k] \in Nat /\ v % power[k] \in Nat
    <3>1. PICK q \in Nat \ {0} : q = power[k]
      BY <2>2
    <3>2. v \div q \in Nat /\ v % q \in 0 .. q - 1
      BY Division
    <3> QED
      BY <3>1, <3>2
  <2>5. (v \div power[k]) % 2 \in {0, 1}
    BY <2>4
  <2>6. k \in bits_of(v) <=> (v \div power[k]) % 2 = 1
    BY <2>1 DEF bits_of
  <2> QED
    BY <2>2, <2>3, <2>4, <2>5, <2>6
<1>2. v % power[0] = 0
  BY Powers
<1>3. g = [k \in 0 .. word_width |-> turn(g, k)]
  <2>1. ASSUME NEW k \in 0 .. word_width PROVE g[k] = turn(g, k)
    <3>1. CASE k = 0
      BY <1>2, <3>1
    <3>2. CASE k # 0
      <4>1. k - 1 \in 0 .. word_width - 1 /\ k - 1 \in 0 .. word_width /\ (k - 1) + 1 = k
        BY <1>0, <3>2
      <4>2. g[k] = v % power[k] /\ g[k - 1] = v % power[k - 1]
        BY <4>1
      <4> QED
        BY <1>1, <3>2, <4>1, <4>2
    <3> QED
      BY <3>1, <3>2
  <2> QED
    BY <2>1
<1>4. below = [k \in 0 .. word_width |-> turn(below, k)]
  BY <1>3
<1>5. number(bits_of(v)) = below[word_width]
  BY DEF number
<1> HIDE DEF below, g
<1> DEFINE P == {k \in Nat : below[k] = v % power[k]}
<1>6. 0 \in P
  BY <1>0, <1>2, <1>4
<1>7. ASSUME NEW k \in 0 .. word_width - 1, k \in P PROVE k + 1 \in P
  <2>1. k + 1 \in 0 .. word_width /\ k + 1 # 0 /\ (k + 1) - 1 = k /\ k + 1 \in Nat
    BY <1>0
  <2>2. below[k + 1] = below[k] + IF k \in bits_of(v) THEN power[k] ELSE 0
    BY <1>4, <2>1
  <2> QED
    BY <1>1, <1>7, <2>1, <2>2
<1> HIDE DEF P
<1>8. word_width \in P
  BY <1>0, <1>6, <1>7, InductionUpTo
<1>9. v % power[word_width] = v
  <2>1. power[word_width] \in Nat \ {0}
    BY <1>0, Powers
  <2>2. v = power[word_width] * 0 + v /\ v \in 0 .. power[word_width] - 1
    BY <2>1
  <2> QED
    BY <2>1, <2>2, DivisionKnown
<1> QED
  BY <1>5, <1>8, <1>9 DEF P

(* The word and the bit of a position.                                     *)
LEMMA BitPlace ==
  ASSUME NEW p \in Nat
  PROVE  /\ p \div word_width \in Nat /\ p % word_width \in 0 .. word_width - 1
         /\ p = word_width * (p \div word_width) + (p % word_width)
<1>1. word_width \in Nat \ {0}
  BY WordsAssumption
<1> QED
  BY <1>1, Division

(* What a word and a bit are the place of.                                 *)
LEMMA PlaceKnown ==
  ASSUME NEW q \in Nat, NEW r \in 0 .. word_width - 1
  PROVE  /\ (word_width * q + r) \div word_width = q
         /\ (word_width * q + r) % word_width = r
<1>1. word_width \in Nat \ {0}
  BY WordsAssumption
<1> QED
  BY <1>1, DivisionKnown

(* Multiples are in the order of their factors.                            *)
LEMMA MultiplesOrdered ==
  ASSUME NEW m \in Nat \ {0}, NEW a \in Nat, NEW b \in Nat
  PROVE  /\ a <= b => m * a <= m * b
         /\ m * a < m * b => a < b
         /\ m * (a + 1) = m * a + m
         /\ m * a \in Nat
<1>1. ASSUME NEW c \in Nat, NEW d \in Nat, c <= d
      PROVE  m * c <= m * d
  <2>1. m * (d - c) \in Nat
    BY <1>1
  <2>2. m * d = m * c + m * (d - c)
    OBVIOUS
  <2>3. m * c \in Nat /\ m * d \in Nat
    OBVIOUS
  <2> QED
    BY <2>1, <2>2, <2>3
<1>2. m * a \in Nat /\ m * b \in Nat
  OBVIOUS
<1>3. m * a < m * b => a < b
  BY <1>1, <1>2
<1>4. m * (a + 1) = m * a + m
  OBVIOUS
<1> QED
  BY <1>1, <1>2, <1>3, <1>4

(* Words in order take up bits in order.                                   *)
LEMMA WordsOrdered ==
  ASSUME NEW a \in Nat, NEW b \in Nat
  PROVE  /\ a <= b => word_width * a <= word_width * b
         /\ word_width * a < word_width * b => a < b
         /\ word_width * (a + 1) = word_width * a + word_width
         /\ word_width * a \in Nat
<1>1. word_width \in Nat \ {0}
  BY WordsAssumption
<1> QED
  BY <1>1, MultiplesOrdered

(* What a write of some bits of a word does.                               *)
Changes(words, new, k, cleared, given) ==
  /\ new \in Seq(Word) /\ Len(new) = Len(words)
  /\ new[k + 1] = (words[k + 1] \ cleared) \cup given
  /\ \A j \in 1 .. Len(words) : j # k + 1 => new[j] = words[j]

(* A write changes one word.                                               *)
LEMMA WordWritten ==
  ASSUME NEW words \in Seq(Word), NEW k \in 0 .. Len(words) - 1,
         NEW cleared \in SUBSET Bits, NEW given \in SUBSET Bits
  PROVE  Changes(words, Write(words, k, cleared, given), k, cleared, given)
<1>1. k + 1 \in 1 .. Len(words) /\ DOMAIN words = 1 .. Len(words)
  OBVIOUS
<1>2. words[k + 1] \in SUBSET Bits
  BY <1>1 DEF Word
<1>3. (words[k + 1] \ cleared) \cup given \in Word
  BY <1>2 DEF Word
<1> QED
  BY <1>1, <1>3 DEF Write, Changes

(* write_bits gives the bits within the mask those of the value, and leaves *)
(* every other bit of the words alone.                                     *)
LEMMA BitsWritten ==
  ASSUME NEW words \in Seq(Word), NEW pos \in Nat, NEW len \in 1 .. word_width,
         NEW mask \in SUBSET (0 .. len - 1), NEW bits \in SUBSET mask,
         pos + len <= word_width * Len(words)
  PROVE  LET new == write_bits(words, pos, bits, len, mask)
         IN  /\ new \in Seq(Word) /\ Len(new) = Len(words)
             /\ \A p \in 0 .. word_width * Len(words) - 1 :
                  BitAt(new, p) <=> IF p - pos \in mask THEN p - pos \in bits
                                    ELSE BitAt(words, p)
<1> DEFINE word == pos \div word_width
           shift == pos % word_width
           stored == word_width - shift
           first == Write(words, word, Left(mask, shift), Left(bits, shift))
           new == write_bits(words, pos, bits, len, mask)
<1>0. word_width \in Nat \ {0} /\ Len(words) \in Nat /\ len \in Nat
  BY WordsAssumption
<1>1. word \in Nat /\ shift \in 0 .. word_width - 1 /\ pos = word_width * word + shift
  BY BitPlace
<1>2. /\ word_width * word \in Nat /\ word_width * (word + 1) = word_width * word + word_width
      /\ word_width * Len(words) \in Nat
  BY <1>0, <1>1, WordsOrdered
<1> HIDE DEF word, shift
<1>3. stored \in 1 .. word_width
  BY <1>0, <1>1
<1>4. word \in 0 .. Len(words) - 1
  <2>1. word_width * word < word_width * Len(words)
    BY <1>0, <1>1, <1>2
  <2> QED
    BY <1>0, <1>1, <2>1, WordsOrdered
<1>5. stored < len => word + 1 \in 0 .. Len(words) - 1
  <2> SUFFICES ASSUME stored < len PROVE word + 1 \in 0 .. Len(words) - 1
    OBVIOUS
  <2>1. word_width * (word + 1) < word_width * Len(words)
    BY <1>0, <1>1, <1>2
  <2>2. word + 1 \in Nat
    BY <1>1
  <2> QED
    BY <1>0, <2>1, <2>2, WordsOrdered
<1>6. /\ Left(mask, shift) \in SUBSET Bits /\ Left(bits, shift) \in SUBSET Bits
      /\ Right(mask, stored) \in SUBSET Bits /\ Right(bits, stored) \in SUBSET Bits
  BY DEF Left, Right
<1>7. /\ first \in Seq(Word) /\ Len(first) = Len(words)
      /\ first[word + 1] = (words[word + 1] \ Left(mask, shift)) \cup Left(bits, shift)
      /\ \A j \in 1 .. Len(words) : j # word + 1 => first[j] = words[j]
  <2> HIDE DEF first
  <2>1. first = Write(words, word, Left(mask, shift), Left(bits, shift))
    BY DEF first
  <2>2. Changes(words, first, word, Left(mask, shift), Left(bits, shift))
    BY <1>4, <1>6, <2>1, WordWritten
  <2> QED
    BY <2>2 DEF Changes
<1> HIDE DEF stored
<1>8. /\ new \in Seq(Word) /\ Len(new) = Len(words)
      /\ new[word + 1] = (words[word + 1] \ Left(mask, shift)) \cup Left(bits, shift)
      /\ word + 1 < Len(words) =>
           new[word + 2] = (words[word + 2] \ Right(mask, stored)) \cup Right(bits, stored)
      /\ \A j \in 1 .. Len(words) : j \notin {word + 1, word + 2} => new[j] = words[j]
  <2>1. new = IF stored < len
              THEN Write(first, word + 1, Right(mask, stored), Right(bits, stored)) ELSE first
    BY DEF write_bits, word, shift, stored
  <2> HIDE DEF first, new
  <2>2. CASE stored < len
    <3>1. word + 1 \in 0 .. Len(first) - 1
      BY <1>5, <1>7, <2>2
    <3>2. /\ new \in Seq(Word) /\ Len(new) = Len(first)
          /\ new[(word + 1) + 1]
               = (first[(word + 1) + 1] \ Right(mask, stored)) \cup Right(bits, stored)
          /\ \A j \in 1 .. Len(first) : j # (word + 1) + 1 => new[j] = first[j]
      <4>1. new = Write(first, word + 1, Right(mask, stored), Right(bits, stored))
        BY <2>1, <2>2
      <4>2. first \in Seq(Word)
        BY <1>7
      <4>3. Changes(first, new, word + 1, Right(mask, stored), Right(bits, stored))
        BY <1>6, <3>1, <4>1, <4>2, WordWritten
      <4> QED
        BY <4>3 DEF Changes
    <3>3. (word + 1) + 1 = word + 2 /\ word + 1 # word + 2
      BY <1>1
    <3>4. word + 1 \in 1 .. Len(words) /\ word + 2 \in 1 .. Len(words)
      BY <1>0, <1>1, <1>5, <2>2
    <3>5. new[word + 2] = (words[word + 2] \ Right(mask, stored)) \cup Right(bits, stored)
      BY <1>7, <3>2, <3>3, <3>4
    <3>6. new[word + 1] = first[word + 1]
      BY <1>7, <3>2, <3>3, <3>4
    <3> QED
      BY <1>7, <3>2, <3>3, <3>5, <3>6
  <2>3. CASE ~ (stored < len)
    <3>1. Right(mask, stored) = {} /\ Right(bits, stored) = {}
      BY <1>0, <1>3, <2>3 DEF Right, Bits
    <3>2. word + 1 < Len(words) => word + 2 \in 1 .. Len(words) /\ word + 2 # word + 1
      BY <1>0, <1>1
    <3>3. new = first
      BY <2>1, <2>3
    <3> QED
      BY <1>7, <3>1, <3>2, <3>3
  <2> QED
    BY <2>2, <2>3
<1> HIDE DEF new, first
<1>9. ASSUME NEW p \in 0 .. word_width * Len(words) - 1
      PROVE  BitAt(new, p) <=> IF p - pos \in mask THEN p - pos \in bits ELSE BitAt(words, p)
  <2>1. PICK q \in Nat : q = p \div word_width
    BY <1>2, BitPlace
  <2>2. PICK r \in 0 .. word_width - 1 : r = p % word_width
    BY <1>2, BitPlace
  <2>3. p \in Nat /\ p = word_width * q + r /\ word_width * q \in Nat
    BY <1>2, <2>1, <2>2, BitPlace, WordsOrdered
  <2>4. r \in Nat /\ r < word_width /\ r \in Bits
    BY <1>0 DEF Bits
  <2>5. q < Len(words)
    <3>1. word_width * q < word_width * Len(words)
      BY <1>0, <1>2, <2>3, <2>4
    <3> QED
      BY <1>0, <3>1, WordsOrdered
  <2>6. (BitAt(new, p) <=> r \in new[q + 1]) /\ (BitAt(words, p) <=> r \in words[q + 1])
    BY <2>1, <2>2 DEF BitAt
  <2>7. CASE q = word
    <3>1. p - pos = r - shift
      BY <1>0, <1>1, <1>2, <2>3, <2>4, <2>7
    <3>2. /\ r \in Left(mask, shift) <=> p - pos \in mask
          /\ r \in Left(bits, shift) <=> p - pos \in bits
      BY <2>4, <3>1 DEF Left
    <3> QED
      BY <1>8, <2>6, <2>7, <3>2
  <2>8. CASE q = word + 1
    <3>1. p - pos = r + stored
      BY <1>0, <1>1, <1>2, <2>3, <2>4, <2>8 DEF stored
    <3>2. /\ r \in Right(mask, stored) <=> p - pos \in mask
          /\ r \in Right(bits, stored) <=> p - pos \in bits
      BY <2>4, <3>1 DEF Right
    <3>3. q + 1 = word + 2 /\ word + 1 < Len(words)
      BY <1>1, <2>5, <2>8
    <3> QED
      BY <1>8, <2>6, <3>2, <3>3
  <2>9. CASE q # word /\ q # word + 1
    <3>1. p - pos \notin mask
      <4>1. CASE q < word
        <5>1. word_width * (q + 1) <= word_width * word
          BY <1>1, <4>1, WordsOrdered
        <5>2. word_width * (q + 1) = word_width * q + word_width
          BY WordsOrdered
        <5>3. p - pos < 0
          BY <1>0, <1>1, <1>2, <2>3, <2>4, <5>1, <5>2
        <5> QED
          BY <1>0, <2>3, <5>3
      <4>2. CASE q > word + 1
        <5>1. word_width * ((word + 1) + 1) <= word_width * q
          BY <1>1, <4>2, WordsOrdered
        <5>2. word_width * ((word + 1) + 1) = word_width * (word + 1) + word_width
          BY <1>1, WordsOrdered
        <5>3. p - pos >= len
          BY <1>0, <1>1, <1>2, <2>3, <2>4, <5>1, <5>2
        <5> QED
          BY <1>0, <2>3, <5>3
      <4> QED
        BY <1>1, <2>9, <4>1, <4>2
    <3>2. q + 1 \in 1 .. Len(words) /\ q + 1 \notin {word + 1, word + 2}
      BY <1>0, <1>1, <2>5, <2>9
    <3> QED
      BY <1>8, <2>6, <3>1, <3>2
  <2> QED
    BY <2>7, <2>8, <2>9
<1> QED
  BY <1>8, <1>9 DEF new

(* A position of the words is in one of them, which can be read.           *)
LEMMA BitKnown ==
  ASSUME NEW words \in Seq(Word), NEW q \in 0 .. Len(words) - 1,
         NEW r \in 0 .. word_width - 1, NEW p, p = word_width * q + r
  PROVE  /\ WordAt(words, q) = words[q + 1] /\ words[q + 1] \in SUBSET Bits
         /\ BitAt(words, p) <=> r \in words[q + 1]
<1>1. q \in Nat /\ q + 1 \in 1 .. Len(words) /\ DOMAIN words = 1 .. Len(words)
  OBVIOUS
<1>2. p \div word_width = q /\ p % word_width = r
  BY <1>1, PlaceKnown
<1>3. words[q + 1] \in SUBSET Bits
  BY <1>1 DEF Word
<1> QED
  BY <1>1, <1>2, <1>3 DEF WordAt, BitAt

(* read_bits gives the bits within the mask. What it takes from the first  *)
(* of two words is not masked, and need not be.                            *)
LEMMA BitsRead ==
  ASSUME NEW words \in Seq(Word), NEW pos \in Nat, NEW len \in 1 .. word_width,
         NEW mask \in SUBSET (0 .. len - 1), mask = 0 .. len - 1 \/ len = 1,
         pos + len <= word_width * Len(words)
  PROVE  read_bits(words, pos, len, mask) = {x \in mask : BitAt(words, pos + x)}
<1> DEFINE word == pos \div word_width
           shift == pos % word_width
<1>0. word_width \in Nat \ {0} /\ Len(words) \in Nat /\ len \in Nat
  BY WordsAssumption
<1>1. word \in Nat /\ shift \in 0 .. word_width - 1 /\ pos = word_width * word + shift
  BY BitPlace
<1>2. /\ word_width * word \in Nat /\ word_width * (word + 1) = word_width * word + word_width
      /\ word_width * Len(words) \in Nat
  BY <1>0, <1>1, WordsOrdered
<1>3. read_bits(words, pos, len, mask) =
        IF shift + len <= word_width THEN Right(WordAt(words, word), shift) \cap mask
        ELSE Right(WordAt(words, word), shift)
               \cup (Left(WordAt(words, word + 1), word_width - shift) \cap mask)
  BY DEF read_bits
<1> HIDE DEF word, shift
<1>4. word \in 0 .. Len(words) - 1
  <2>1. word_width * word < word_width * Len(words)
    BY <1>0, <1>1, <1>2
  <2> QED
    BY <1>0, <1>1, <2>1, WordsOrdered
<1>5. WordAt(words, word) = words[word + 1] /\ words[word + 1] \in SUBSET Bits
  <2>1. PICK r \in 0 .. word_width - 1 : TRUE
    BY <1>1
  <2>2. PICK p : p = word_width * word + r
    OBVIOUS
  <2> QED
    BY <1>4, <2>2, BitKnown
<1>6. ASSUME NEW x \in mask, x + shift < word_width
      PROVE  BitAt(words, pos + x) <=> x + shift \in words[word + 1]
  <2>1. x + shift \in 0 .. word_width - 1 /\ pos + x = word_width * word + (x + shift)
    BY <1>0, <1>1, <1>2, <1>6
  <2> QED
    BY <1>4, <2>1, BitKnown
<1>7. \A x \in mask : x \in 0 .. len - 1 /\ x \in Bits /\ x \in Nat
  BY <1>0 DEF Bits
<1>8. CASE shift + len <= word_width
  <2>1. \A x \in mask : x + shift < word_width
    BY <1>0, <1>1, <1>7, <1>8
  <2>2. \A x \in mask : x \in Right(words[word + 1], shift) <=> x + shift \in words[word + 1]
    BY <1>7 DEF Right
  <2> QED
    BY <1>3, <1>5, <1>6, <1>8, <2>1, <2>2
<1>9. CASE ~ (shift + len <= word_width)
  <2>1. mask = 0 .. len - 1
    BY <1>0, <1>1, <1>9
  <2>2. word + 1 \in 0 .. Len(words) - 1
    <3>1. word_width * (word + 1) < word_width * Len(words)
      BY <1>0, <1>1, <1>2, <1>9
    <3>2. word + 1 \in Nat
      BY <1>1
    <3> QED
      BY <1>0, <3>1, <3>2, WordsOrdered
  <2>3. /\ WordAt(words, word + 1) = words[(word + 1) + 1]
        /\ words[(word + 1) + 1] \in SUBSET Bits
    <3>1. PICK r \in 0 .. word_width - 1 : TRUE
      BY <1>1
    <3>2. PICK p : p = word_width * (word + 1) + r
      OBVIOUS
    <3> QED
      BY <2>2, <3>2, BitKnown
  <2>4. ASSUME NEW x \in mask, x + shift >= word_width
        PROVE  BitAt(words, pos + x) <=> x - (word_width - shift) \in words[(word + 1) + 1]
    <3>1. /\ x - (word_width - shift) \in 0 .. word_width - 1
          /\ pos + x = word_width * (word + 1) + (x - (word_width - shift))
      BY <1>0, <1>1, <1>2, <1>7, <2>4
    <3> QED
      BY <2>2, <3>1, BitKnown
  <2>5. \A x : x \in Right(words[word + 1], shift) <=>
                 x \in mask /\ x + shift < word_width /\ x + shift \in words[word + 1]
    <3> TAKE x
    <3>1. ASSUME x \in Bits, x + shift \in words[word + 1]
          PROVE  x \in mask /\ x + shift < word_width
      <4>1. x \in Nat /\ x + shift < word_width
        BY <1>0, <1>1, <1>5, <3>1 DEF Bits
      <4> QED
        BY <1>0, <1>1, <1>9, <2>1, <4>1
    <3> QED
      BY <1>7, <3>1 DEF Right
  <2>6. \A x \in mask : x \in Left(words[(word + 1) + 1], word_width - shift) <=>
          x + shift >= word_width /\ x - (word_width - shift) \in words[(word + 1) + 1]
    <3> TAKE x \in mask
    <3>1. ASSUME x - (word_width - shift) \in words[(word + 1) + 1]
          PROVE  x + shift >= word_width
      <4>1. x - (word_width - shift) >= 0
        BY <1>0, <2>3, <3>1 DEF Bits
      <4> QED
        BY <1>0, <1>1, <1>7, <4>1
    <3> QED
      BY <1>7, <3>1 DEF Left
  <2>7. \A x \in mask : x + shift < word_width \/ x + shift >= word_width
    BY <1>0, <1>1, <1>7
  <2>8. \A x \in mask : ~ (x + shift < word_width /\ x + shift >= word_width)
    BY <1>0, <1>1, <1>7
  <2>9. read_bits(words, pos, len, mask) =
          Right(words[word + 1], shift)
            \cup (Left(words[(word + 1) + 1], word_width - shift) \cap mask)
    BY <1>3, <1>5, <1>9, <2>3
  <2> QED
    BY <1>6, <2>4, <2>5, <2>6, <2>7, <2>8, <2>9
<1> QED
  BY <1>8, <1>9

(* A read of a word at a byte gives them too, if there are few enough.     *)
LEMMA BitsReadUnaligned ==
  ASSUME NEW words \in Seq(Word), NEW pos \in Nat, NEW len \in 1 .. word_width,
         len <= word_width - byte_width + 1,
         NEW mask \in SUBSET (0 .. len - 1), pos + len <= word_width * Len(words)
  PROVE  unaligned_word(words, pos) \cap mask = {x \in mask : BitAt(words, pos + x)}
<1> DEFINE over == pos % byte_width
           begin == pos - over
           word == {b \in Bits : (begin + b) % word_width
                                   \in WordAt(words, (begin + b) \div word_width)}
<1>0. /\ word_width \in Nat \ {0} /\ Len(words) \in Nat /\ len \in Nat
      /\ byte_width \in Nat \ {0}
  BY WordsAssumption
<1>1. over \in 0 .. byte_width - 1
  BY <1>0, Division
<1>2. unaligned_word(words, pos) = Right(word, over)
  BY DEF unaligned_word
<1> SUFFICES ASSUME NEW x \in mask PROVE x \in Right(word, over) <=> BitAt(words, pos + x)
  BY <1>2
<1>3. /\ x \in 0 .. len - 1 /\ pos + x \in Nat /\ begin + (x + over) = pos + x
      /\ x \in Bits /\ x + over \in Bits
  BY <1>0, <1>1 DEF Bits
<1>4. PICK q \in Nat, r \in 0 .. word_width - 1 :
        q = (pos + x) \div word_width /\ r = (pos + x) % word_width /\ pos + x = word_width * q + r
  BY <1>3, BitPlace
<1>5. q \in 0 .. Len(words) - 1
  <2>1. word_width * q < word_width * Len(words)
    <3>1. word_width * q \in Nat /\ word_width * Len(words) \in Nat
      BY <1>0, WordsOrdered
    <3> QED
      BY <1>0, <1>3, <1>4, <3>1
  <2> QED
    BY <1>0, <2>1, WordsOrdered
<1>6. WordAt(words, q) = words[q + 1] /\ (BitAt(words, pos + x) <=> r \in words[q + 1])
  BY <1>4, <1>5, BitKnown
<1> HIDE DEF begin, over
<1>7. x + over \in word <=> r \in words[q + 1]
  BY <1>3, <1>4, <1>6
<1> QED
  BY <1>3, <1>6, <1>7 DEF Right

(* How many members of S are below p.                                      *)
CountTo(S, p) == Cardinality(S \cap Mask(p))

(* The count goes on by one with every member.                             *)
LEMMA CountSteps ==
  ASSUME NEW S, NEW p \in Nat
  PROVE  /\ IsFiniteSet(S \cap Mask(p)) /\ CountTo(S, p) \in Nat
         /\ CountTo(S, p + 1) = CountTo(S, p) + IF p \in S THEN 1 ELSE 0
<1>1. IsFiniteSet(Mask(p))
  <2>1. p - 1 \in Int /\ 0 \in Int
    OBVIOUS
  <2> QED
    BY <2>1, FS_Interval DEF Mask
<1>2. IsFiniteSet(S \cap Mask(p))
  BY <1>1, FS_Intersection
<1>3. CountTo(S, p) \in Nat
  BY <1>2, FS_CardinalityType DEF CountTo
<1>4. CASE p \in S
  <2>1. S \cap Mask(p + 1) = (S \cap Mask(p)) \cup {p}
    BY <1>4 DEF Mask
  <2>2. p \notin S \cap Mask(p)
    BY DEF Mask
  <2> QED
    BY <1>2, <1>3, <1>4, <2>1, <2>2, FS_AddElement DEF CountTo
<1>5. CASE p \notin S
  <2>1. S \cap Mask(p + 1) = S \cap Mask(p)
    BY <1>5 DEF Mask
  <2> QED
    BY <1>2, <1>3, <1>5, <2>1 DEF CountTo
<1> QED
  BY <1>2, <1>3, <1>4, <1>5

(* It starts at 0 and never goes back.                                     *)
LEMMA CountGrows ==
  ASSUME NEW S, NEW p \in Nat, NEW q \in Nat, p <= q
  PROVE  /\ CountTo(S, 0) = 0 /\ CountTo(S, p) \in Nat /\ CountTo(S, q) \in Nat
         /\ CountTo(S, p) <= CountTo(S, q)
         /\ p \in S /\ p < q => CountTo(S, p) < CountTo(S, q)
<1>1. CountTo(S, 0) = 0
  <2>1. S \cap Mask(0) = {}
    BY DEF Mask
  <2> QED
    BY <2>1, FS_EmptySet DEF CountTo
<1>2. ASSUME NEW a \in Nat, NEW b \in Nat, a <= b
      PROVE  CountTo(S, a) \in Nat /\ CountTo(S, b) \in Nat /\ CountTo(S, a) <= CountTo(S, b)
  <2>1. S \cap Mask(a) \in SUBSET (S \cap Mask(b))
    BY <1>2 DEF Mask
  <2>2. IsFiniteSet(S \cap Mask(b))
    BY CountSteps
  <2>3. Cardinality(S \cap Mask(a)) <= Cardinality(S \cap Mask(b))
    BY <2>1, <2>2, FS_Subset
  <2> QED
    BY <2>3, CountSteps DEF CountTo
<1>3. ASSUME p \in S, p < q PROVE CountTo(S, p) < CountTo(S, q)
  <2>1. CountTo(S, p + 1) <= CountTo(S, q) /\ CountTo(S, p + 1) \in Nat /\ CountTo(S, q) \in Nat
    <3>1. p + 1 \in Nat /\ p + 1 <= q
      BY <1>3
    <3> QED
      BY <1>2, <3>1
  <2>2. CountTo(S, p + 1) = CountTo(S, p) + 1 /\ CountTo(S, p) \in Nat
    BY <1>3, CountSteps
  <2> QED
    BY <2>1, <2>2
<1> QED
  BY <1>1, <1>2, <1>3

(* Two members with as many before them are one.                           *)
LEMMA CountTells ==
  ASSUME NEW S, NEW p \in Nat, NEW q \in Nat, p \in S, q \in S, CountTo(S, p) = CountTo(S, q)
  PROVE  p = q
<1>1. CASE p < q
  <2>1. CountTo(S, p) < CountTo(S, q) /\ CountTo(S, p) \in Nat /\ CountTo(S, q) \in Nat
    BY <1>1, CountGrows
  <2> QED
    BY <2>1
<1>2. CASE q < p
  <2>1. CountTo(S, q) < CountTo(S, p) /\ CountTo(S, p) \in Nat /\ CountTo(S, q) \in Nat
    BY <1>2, CountGrows
  <2> QED
    BY <2>1
<1> QED
  BY <1>1, <1>2

(* The members up to a bound have every count up to that of the bound; the *)
(* one with a given count is what select_in_word gives.                    *)
LEMMA SelectFinds ==
  ASSUME NEW m \in Nat, NEW S \in SUBSET (0 .. m - 1), NEW k \in 0 .. Cardinality(S) - 1
  PROVE  /\ IsFiniteSet(S) /\ Cardinality(S) = CountTo(S, m) /\ Cardinality(S) \in Nat
         /\ select_in_word(S, k) \in S /\ CountTo(S, select_in_word(S, k)) = k
<1>1. S \cap Mask(m) = S
  BY DEF Mask
<1>2. IsFiniteSet(S) /\ Cardinality(S) = CountTo(S, m) /\ Cardinality(S) \in Nat
  <2>1. IsFiniteSet(S \cap Mask(m)) /\ CountTo(S, m) \in Nat
    BY CountSteps
  <2> QED
    BY <1>1, <2>1 DEF CountTo
<1> DEFINE P == {x \in Nat : CountTo(S, x) > k}
<1>3. m \in P /\ P \subseteq Nat
  BY <1>2
<1>4. PICK x \in P : \A y \in P : x <= y
  <2> HIDE DEF P
  <2> QED
    BY <1>3, LeastNatural
<1>5. x # 0
  BY <1>2, <1>4, CountGrows
<1>6. x - 1 \in Nat /\ ~ (CountTo(S, x - 1) > k)
  <2>1. x - 1 \in Nat /\ ~ (x <= x - 1)
    BY <1>3, <1>4, <1>5
  <2> QED
    BY <1>4, <2>1
<1>7. CountTo(S, (x - 1) + 1) = CountTo(S, x - 1) + (IF x - 1 \in S THEN 1 ELSE 0)
      /\ CountTo(S, x - 1) \in Nat
  BY <1>6, CountSteps
<1>8. x - 1 \in S /\ CountTo(S, x - 1) = k
  <2>1. (x - 1) + 1 = x /\ CountTo(S, x) > k
    BY <1>3, <1>4
  <2> QED
    BY <1>2, <1>6, <1>7, <2>1
<1>9. select_in_word(S, k) \in S /\ Cardinality(S \cap Mask(select_in_word(S, k))) = k
  BY <1>8 DEF select_in_word, CountTo
<1> QED
  BY <1>2, <1>9 DEF CountTo

(* What select_in_word gives, from what it is for.                         *)
LEMMA SelectKnown ==
  ASSUME NEW m \in Nat, NEW S \in SUBSET (0 .. m - 1), NEW p \in S
  PROVE  /\ CountTo(S, p) \in 0 .. Cardinality(S) - 1 /\ Cardinality(S) \in Nat
         /\ select_in_word(S, CountTo(S, p)) = p
<1>1. p \in Nat /\ p < m
  OBVIOUS
<1>2. S \cap Mask(m) = S
  BY DEF Mask
<1>3. Cardinality(S) = CountTo(S, m) /\ CountTo(S, p) < CountTo(S, m)
      /\ CountTo(S, p) \in Nat /\ CountTo(S, m) \in Nat
  <2>1. p \in S /\ p <= m
    BY <1>1
  <2>2. CountTo(S, p) < CountTo(S, m) /\ CountTo(S, p) \in Nat /\ CountTo(S, m) \in Nat
    BY <1>1, <2>1, CountGrows
  <2> QED
    BY <1>2, <2>2 DEF CountTo
<1>4. CountTo(S, p) \in 0 .. Cardinality(S) - 1
  BY <1>3
<1>5. select_in_word(S, CountTo(S, p)) \in S
      /\ CountTo(S, select_in_word(S, CountTo(S, p))) = CountTo(S, p)
  BY <1>4, SelectFinds
<1>6. select_in_word(S, CountTo(S, p)) \in Nat
  <2>1. \A x \in S : x \in Nat
    OBVIOUS
  <2> QED
    BY <1>5, <2>1
<1> QED
  BY <1>1, <1>3, <1>4, <1>5, <1>6, CountTells

(* The members of a set that lie in a word, by the bits of the word.       *)
LEMMA WordCounts ==
  ASSUME NEW S, NEW q \in Nat, NEW w \in SUBSET Bits,
         \A r \in Bits : r \in w <=> word_width * q + r \in S
  PROVE  /\ \A r \in 0 .. word_width : CountTo(S, word_width * q + r) = CountTo(S, word_width * q) + CountTo(w, r)
         /\ popcount(w) = CountTo(w, word_width) /\ popcount(w) \in Nat
         /\ CountTo(S, word_width * (q + 1)) = CountTo(S, word_width * q) + popcount(w)
<1>0. word_width \in Nat \ {0}
  BY WordsAssumption
<1>1. word_width * q \in Nat /\ word_width * (q + 1) = word_width * q + word_width
  BY WordsOrdered
<1> DEFINE b == word_width * q
           P == {r \in Nat : CountTo(S, b + r) = CountTo(S, b) + CountTo(w, r)}
<1>2. 0 \in P
  <2>1. b + 0 = b /\ CountTo(S, b) \in Nat /\ CountTo(w, 0) = 0
    BY <1>1, CountGrows
  <2> QED
    BY <2>1
<1>3. ASSUME NEW r \in 0 .. word_width - 1, r \in P PROVE r + 1 \in P
  <2>1. r \in Nat /\ b + r \in Nat /\ (b + r) + 1 = b + (r + 1) /\ r \in Bits
    BY <1>1 DEF Bits
  <2>2. /\ CountTo(S, (b + r) + 1) = CountTo(S, b + r) + IF b + r \in S THEN 1 ELSE 0
        /\ CountTo(w, r + 1) = CountTo(w, r) + IF r \in w THEN 1 ELSE 0
        /\ CountTo(S, b + r) \in Nat /\ CountTo(w, r) \in Nat /\ CountTo(S, b) \in Nat
    <3> HIDE DEF b
    <3> QED
      BY <1>1, <2>1, CountSteps DEF b
  <2>3. CountTo(S, b + r) = CountTo(S, b) + CountTo(w, r) /\ (r \in w <=> b + r \in S)
    BY <1>3, <2>1
  <2> QED
    BY <2>1, <2>2, <2>3
<1> HIDE DEF P
<1>4. \A r \in 0 .. word_width : r \in P
  BY <1>0, <1>2, <1>3, InductionUpTo
<1>5. w \cap Mask(word_width) = w
  BY DEF Mask, Bits
<1>6. popcount(w) = CountTo(w, word_width)
  BY <1>5 DEF popcount, CountTo
<1>7. popcount(w) \in Nat
  <2>1. PICK m \in Nat : m = word_width
    BY <1>0
  <2>2. CountTo(w, m) \in Nat
    BY CountSteps
  <2> QED
    BY <1>6, <2>1, <2>2
<1>8. word_width \in 0 .. word_width
  BY <1>0
<1> QED
  BY <1>1, <1>4, <1>6, <1>7, <1>8 DEF P

(* The ones of a word, or its zeros.                                       *)
BitsOf(kind, words, q) == IF kind = "zeros" THEN Not(WordAt(words, q)) ELSE WordAt(words, q)

(* S is what buf, for word base, and the words after it say.               *)
Spells(kind, words, base, buf, S) ==
  /\ S \in SUBSET Nat /\ \A x \in S : x >= word_width * base
  /\ buf \in SUBSET Bits /\ \A r \in Bits : r \in buf <=> word_width * base + r \in S
  /\ \A q \in Nat : q > base => \A r \in Bits : r \in BitsOf(kind, words, q) <=> word_width * q + r \in S

kth(words, kind, base, buf, k) == kth_bit(words, kind = "zeros", base, buf, k)

(* Word by word the k-th member is found.                                  *)
LEMMA KthBit ==
  ASSUME NEW words \in Seq(Word), NEW kind, NEW base \in Nat, NEW buf, NEW S,
         Spells(kind, words, base, buf, S), NEW p \in S, p < word_width * Len(words)
  PROVE  kth(words, kind, base, buf, CountTo(S, p)) =
           [buf |-> IF p \div word_width = base THEN buf ELSE BitsOf(kind, words, p \div word_width),
            bit |-> p % word_width, word |-> p \div word_width]
<1> DEFINE k == CountTo(S, p)
           word(j) == WordAt(words, base + j)
           Buf(j) == IF j = 0 THEN buf ELSE IF kind = "zeros" THEN Not(word(j)) ELSE word(j)
           top == Len(words) + k
           turn(f, j) == IF j = 0 THEN 0 ELSE f[j - 1] + popcount(Buf(j - 1))
           skipped == CHOOSE f : f = [j \in 0 .. top |-> turn(f, j)]
           Passed(j) == skipped[j] <= k /\ k < skipped[j] + popcount(Buf(j))
           passed == CHOOSE j \in DOMAIN skipped : Passed(j)
           C(j) == CountTo(S, word_width * (base + j))
<1>0. word_width \in Nat \ {0} /\ Len(words) \in Nat
  BY WordsAssumption
<1>1. /\ S \in SUBSET Nat /\ \A x \in S : x >= word_width * base
      /\ buf \in SUBSET Bits /\ \A r \in Bits : r \in buf <=> word_width * base + r \in S
      /\ \A q \in Nat : q > base => \A r \in Bits : r \in BitsOf(kind, words, q) <=> word_width * q + r \in S
  BY DEF Spells
<1>2. p \in Nat /\ k \in Nat /\ top \in Nat
  <2>1. p \in Nat
    BY <1>1
  <2>2. k \in Nat
    BY <2>1, CountSteps
  <2> QED
    BY <1>0, <2>1, <2>2
<1>3. kth(words, kind, base, buf, k) =
        [buf |-> Buf(passed), bit |-> select_in_word(Buf(passed), k - skipped[passed]),
         word |-> base + passed]
  BY DEF kth, kth_bit
<1>4. \A j \in Nat : /\ Buf(j) \in SUBSET Bits
                     /\ \A r \in Bits : r \in Buf(j) <=> word_width * (base + j) + r \in S
  <2> TAKE j \in Nat
  <2>1. CASE j = 0
    <3>1. base + j = base
      BY <2>1
    <3> QED
      BY <1>1, <2>1, <3>1
  <2>2. CASE j # 0
    <3>1. base + j \in Nat /\ base + j > base /\ Buf(j) = BitsOf(kind, words, base + j)
      BY <2>2 DEF BitsOf
    <3>2. BitsOf(kind, words, base + j) \in SUBSET Bits
      <4>1. \A i \in DOMAIN words : words[i] \in SUBSET Bits
        BY DEF Word
      <4> QED
        BY <4>1 DEF BitsOf, Not, WordAt
    <3> QED
      BY <1>1, <3>1, <3>2
  <2> QED
    BY <2>1, <2>2
<1> HIDE DEF Buf
<1>5. ASSUME NEW j \in Nat
      PROVE  /\ word_width * (base + j) \in Nat /\ base + j \in Nat
             /\ C(j) \in Nat /\ popcount(Buf(j)) \in Nat /\ C(j + 1) = C(j) + popcount(Buf(j))
             /\ \A r \in 0 .. word_width :
                  CountTo(S, word_width * (base + j) + r) = C(j) + CountTo(Buf(j), r)
  <2>1. base + j \in Nat /\ (base + j) + 1 = base + (j + 1) /\ word_width * (base + j) \in Nat
    BY <1>0
  <2>2. CountTo(S, word_width * (base + j)) \in Nat
    BY <2>1, CountSteps
  <2>3. /\ popcount(Buf(j)) \in Nat
        /\ CountTo(S, word_width * ((base + j) + 1))
             = CountTo(S, word_width * (base + j)) + popcount(Buf(j))
        /\ \A r \in 0 .. word_width :
             CountTo(S, word_width * (base + j) + r)
               = CountTo(S, word_width * (base + j)) + CountTo(Buf(j), r)
    <3>1. PICK w \in SUBSET Bits, i \in Nat : w = Buf(j) /\ i = base + j
      BY <1>4, <2>1
    <3>2. \A r \in Bits : r \in w <=> word_width * i + r \in S
      BY <1>4, <3>1
    <3>3. /\ \A r \in 0 .. word_width :
               CountTo(S, word_width * i + r) = CountTo(S, word_width * i) + CountTo(w, r)
          /\ popcount(w) \in Nat
          /\ CountTo(S, word_width * (i + 1)) = CountTo(S, word_width * i) + popcount(w)
      BY <3>2, WordCounts
    <3> QED
      BY <3>1, <3>3
  <2> QED
    BY <2>1, <2>2, <2>3
<1>6. C(0) = 0
  <2>1. word_width * base \in Nat /\ base + 0 = base
    BY <1>0
  <2>2. S \cap Mask(word_width * base) = {}
    BY <1>1, <2>1 DEF Mask
  <2> QED
    BY <2>1, <2>2, FS_EmptySet DEF CountTo
<1> HIDE DEF C
<1>7. /\ DOMAIN skipped = 0 .. top
      /\ \A j \in 0 .. top : skipped[j] = C(j)
  <2> DEFINE g == [j \in 0 .. top |-> C(j)]
  <2>1. g = [j \in 0 .. top |-> turn(g, j)]
    <3>1. ASSUME NEW j \in 0 .. top PROVE g[j] = turn(g, j)
      <4>1. CASE j = 0
        BY <1>6, <4>1
      <4>2. CASE j # 0
        <5>1. j - 1 \in Nat /\ j - 1 \in 0 .. top /\ (j - 1) + 1 = j
          BY <1>2, <4>2
        <5>2. g[j] = C(j) /\ g[j - 1] = C(j - 1)
          BY <5>1
        <5> QED
          BY <1>5, <4>2, <5>1, <5>2
      <4> QED
        BY <4>1, <4>2
    <3> QED
      BY <3>1
  <2>2. skipped = [j \in 0 .. top |-> turn(skipped, j)]
    BY <2>1
  <2> HIDE DEF skipped
  <2> DEFINE P == {j \in Nat : skipped[j] = C(j)}
  <2>3. 0 \in P
    BY <1>2, <1>6, <2>2
  <2>4. ASSUME NEW j \in 0 .. top - 1, j \in P PROVE j + 1 \in P
    <3>1. j \in Nat /\ j + 1 \in 0 .. top /\ j + 1 # 0 /\ (j + 1) - 1 = j
      BY <1>2
    <3>2. skipped[j + 1] = skipped[j] + popcount(Buf(j))
      BY <2>2, <3>1
    <3>3. C(j + 1) = C(j) + popcount(Buf(j)) /\ skipped[j] = C(j)
      BY <1>5, <2>4, <3>1
    <3>4. skipped[j + 1] = C(j + 1) /\ j + 1 \in Nat
      BY <3>1, <3>2, <3>3
    <3> QED
      BY <3>4
  <2> HIDE DEF P
  <2>5. \A j \in 0 .. top : j \in P
    BY <1>2, <2>3, <2>4, InductionUpTo
  <2>6. DOMAIN skipped = 0 .. top
    BY <2>2
  <2> QED
    BY <2>5, <2>6 DEF P
<1> DEFINE q == p \div word_width
           r == p % word_width
           j == q - base
<1>8. /\ q \in Nat /\ r \in 0 .. word_width - 1 /\ r \in Nat /\ r \in 0 .. word_width
      /\ p = word_width * q + r
  <2>1. q \in Nat /\ r \in 0 .. word_width - 1 /\ p = word_width * q + r
    BY <1>2, BitPlace
  <2> QED
    BY <1>0, <2>1
<1> HIDE DEF q, r
<1>9. j \in Nat /\ base + j = q /\ j \in 0 .. top
  <2>1. /\ word_width * base < word_width * (q + 1) /\ word_width * q < word_width * Len(words)
    <3>1. p >= word_width * base
      BY <1>1
    <3>2. word_width * (q + 1) = word_width * q + word_width /\ word_width * q \in Nat
      BY <1>8, WordsOrdered
    <3>3. word_width * base \in Nat /\ word_width * Len(words) \in Nat
      BY <1>0
    <3> QED
      BY <1>0, <1>2, <1>8, <3>1, <3>2, <3>3
  <2>2. base < q + 1 /\ q < Len(words)
    <3>1. q + 1 \in Nat
      BY <1>8
    <3> QED
      BY <1>0, <1>8, <2>1, <3>1, WordsOrdered
  <2> QED
    BY <1>0, <1>2, <1>8, <2>2
<1>10. r \in Buf(j) /\ CountTo(Buf(j), r) = k - C(j)
       /\ C(j) <= k /\ k < C(j + 1) /\ C(j) \in Nat /\ C(j + 1) \in Nat
  <2>1. r \in Bits /\ word_width * (base + j) + r \in S
    BY <1>0, <1>8, <1>9 DEF Bits
  <2>2. r \in Buf(j)
    BY <1>4, <1>9, <2>1
  <2>3. k = C(j) + CountTo(Buf(j), r)
    BY <1>5, <1>8, <1>9
  <2>4. CountTo(Buf(j), r) \in Nat /\ CountTo(Buf(j), r) < CountTo(Buf(j), word_width)
        /\ CountTo(Buf(j), word_width) \in Nat
    <3>1. PICK m \in Nat : m = word_width /\ r < m
      BY <1>0, <1>8
    <3>2. PICK w : w = Buf(j)
      OBVIOUS
    <3>3. r \in w /\ r <= m /\ r \in Nat
      BY <1>8, <2>2, <3>1, <3>2
    <3>4. CountTo(w, r) \in Nat /\ CountTo(w, r) < CountTo(w, m) /\ CountTo(w, m) \in Nat
      BY <3>1, <3>3, CountGrows
    <3> QED
      BY <3>1, <3>2, <3>4
  <2>5. C(j + 1) = C(j) + CountTo(Buf(j), word_width) /\ C(j) \in Nat
    <3>1. popcount(Buf(j)) = CountTo(Buf(j), word_width)
      <4>1. base + j \in Nat
        BY <1>9
      <4> QED
        BY <1>4, <1>9, <4>1, WordCounts
    <3> QED
      BY <1>5, <1>9, <3>1
  <2> QED
    BY <1>2, <2>2, <2>3, <2>4, <2>5
<1> HIDE DEF k, skipped, j
<1>11. Passed(j) /\ j \in DOMAIN skipped
  BY <1>5, <1>7, <1>9, <1>10
<1>12. ASSUME NEW i \in DOMAIN skipped, Passed(i) PROVE i = j
  <2>1. i \in 0 .. top /\ i \in Nat /\ i + 1 \in Nat /\ j + 1 \in Nat
    BY <1>7, <1>9, <1>12
  <2>2. C(i) <= k /\ k < C(i + 1) /\ C(i) \in Nat /\ C(i + 1) \in Nat
    BY <1>5, <1>7, <1>12, <2>1
  <2>3. \A a, b \in Nat : a <= b => C(a) <= C(b)
    <3> SUFFICES ASSUME NEW a \in Nat, NEW b \in Nat, a <= b PROVE C(a) <= C(b)
      OBVIOUS
    <3>1. base + a \in Nat /\ base + b \in Nat /\ base + a <= base + b
      OBVIOUS
    <3>2. /\ word_width * (base + a) <= word_width * (base + b)
          /\ word_width * (base + a) \in Nat /\ word_width * (base + b) \in Nat
      BY <3>1, WordsOrdered
    <3> QED
      BY <3>2, CountGrows DEF C
  <2>4. ~ (i < j)
    <3>1. i < j => i + 1 <= j
      BY <1>9, <2>1
    <3> QED
      BY <1>2, <1>9, <1>10, <2>1, <2>2, <2>3, <3>1
  <2>5. ~ (j < i)
    <3>1. j < i => j + 1 <= i
      BY <1>9, <2>1
    <3> QED
      BY <1>2, <1>9, <1>10, <2>1, <2>2, <2>3, <3>1
  <2> QED
    BY <1>9, <2>1, <2>4, <2>5
<1> HIDE DEF Passed
<1>13. passed = j
  BY <1>11, <1>12
<1>14. select_in_word(Buf(j), k - skipped[j]) = r
  <2>1. Buf(j) \in SUBSET (0 .. word_width - 1)
    BY <1>4, <1>9 DEF Bits
  <2>2. select_in_word(Buf(j), CountTo(Buf(j), r)) = r
    BY <1>0, <1>10, <2>1, SelectKnown
  <2> QED
    BY <1>7, <1>9, <1>10, <2>2
<1>15. Buf(j) = IF q = base THEN buf ELSE BitsOf(kind, words, q)
  BY <1>8, <1>9 DEF Buf, BitsOf
<1> HIDE DEF passed
<1> QED
  BY <1>3, <1>9, <1>13, <1>14, <1>15 DEF q, r, k

(* A bit vector whose words take all its bits, the places of its ones, and *)
(* the k-th of them.                                                       *)
BitVec(bv) ==
  bv.words \in Seq(Word) /\ bv.size \in Nat /\ bv.size <= word_width * Len(bv.words)

Places(bv) == {p \in 0 .. bv.size - 1 : BitAt(bv.words, p)}

One(bv, k) == select_in_word(Places(bv), k)

(* The ones come in order, each with as many before it as its number says. *)
LEMMA OnesInOrder ==
  ASSUME NEW bv, BitVec(bv)
  PROVE  /\ Cardinality(Places(bv)) \in Nat /\ Places(bv) \in SUBSET (0 .. bv.size - 1)
         /\ \A k \in 0 .. Cardinality(Places(bv)) - 1 :
              /\ One(bv, k) \in Places(bv) /\ One(bv, k) \in Nat /\ One(bv, k) < bv.size
              /\ CountTo(Places(bv), One(bv, k)) = k
         /\ \A j, k \in 0 .. Cardinality(Places(bv)) - 1 : j <= k => One(bv, j) <= One(bv, k)
<1> DEFINE S == Places(bv)
           m == Cardinality(S)
<1>0. bv.size \in Nat
  BY DEF BitVec
<1>1. S \in SUBSET (0 .. bv.size - 1)
  BY DEF Places
<1> HIDE DEF S
<1>2. m \in Nat
  <2>1. S \cap Mask(bv.size) = S
    BY <1>0, <1>1 DEF Mask
  <2>2. CountTo(S, bv.size) \in Nat
    BY <1>0, CountSteps
  <2> QED
    BY <2>1, <2>2 DEF CountTo
<1>3. ASSUME NEW k \in 0 .. m - 1
      PROVE  /\ One(bv, k) \in S /\ One(bv, k) \in Nat /\ One(bv, k) < bv.size
             /\ CountTo(S, One(bv, k)) = k
  <2>1. select_in_word(S, k) \in S /\ CountTo(S, select_in_word(S, k)) = k
    BY <1>0, <1>1, <1>3, SelectFinds
  <2>2. One(bv, k) = select_in_word(S, k)
    BY DEF One, S
  <2>3. \A x \in S : x \in Nat /\ x < bv.size
    BY <1>0, <1>1
  <2> QED
    BY <2>1, <2>2, <2>3
<1>4. ASSUME NEW j \in 0 .. m - 1, NEW k \in 0 .. m - 1, j <= k PROVE One(bv, j) <= One(bv, k)
  <2>1. /\ One(bv, j) \in S /\ One(bv, j) \in Nat /\ CountTo(S, One(bv, j)) = j
        /\ One(bv, k) \in S /\ One(bv, k) \in Nat /\ CountTo(S, One(bv, k)) = k
    BY <1>3
  <2>2. CASE One(bv, k) < One(bv, j)
    <3>1. CountTo(S, One(bv, k)) < CountTo(S, One(bv, j))
      BY <2>1, <2>2, CountGrows
    <3> QED
      BY <1>2, <1>4, <2>1, <3>1
  <2> QED
    BY <2>1, <2>2
<1> QED
  BY <1>1, <1>2, <1>3, <1>4 DEF S

(* The ones, or the zeros, from a place on, those past the size of the     *)
(* vector included.                                                        *)
From(kind, words, start) ==
  {x \in Nat : x >= start /\ x % word_width \in BitsOf(kind, words, x \div word_width)}

(* They are what the rest of the word of the place and the words after it  *)
(* say.                                                                    *)
LEMMA FromRest ==
  ASSUME NEW kind, NEW words \in Seq(Word), NEW base \in Nat, NEW shift \in 0 .. word_width,
         NEW start, start = word_width * base + shift
  PROVE  Spells(kind, words, base, BitsOf(kind, words, base) \ Mask(shift), From(kind, words, start))
<1> DEFINE S == From(kind, words, start)
           buf == BitsOf(kind, words, base) \ Mask(shift)
<1>0. word_width \in Nat \ {0}
  BY WordsAssumption
<1>2. word_width * base \in Nat
  BY <1>0
<1>1. base \in Nat /\ shift \in Nat /\ shift <= word_width
      /\ start = word_width * base + shift /\ start \in Nat
  BY <1>0, <1>2
<1>3. \A q \in Nat : BitsOf(kind, words, q) \in SUBSET Bits
  <2>1. \A i \in DOMAIN words : words[i] \in SUBSET Bits
    BY DEF Word
  <2> QED
    BY <2>1 DEF BitsOf, Not, WordAt
<1>4. ASSUME NEW q \in Nat, NEW r \in Bits
      PROVE  /\ word_width * q + r \in Nat /\ r \in Nat /\ r < word_width /\ word_width * q \in Nat
             /\ word_width * q + r \in S <=>
                  word_width * q + r >= start /\ r \in BitsOf(kind, words, q)
  <2>1. r \in 0 .. word_width - 1 /\ r \in Nat /\ r < word_width
    BY <1>0 DEF Bits
  <2>2. word_width * q \in Nat /\ word_width * q + r \in Nat
    BY <1>0, <2>1
  <2>3. (word_width * q + r) \div word_width = q /\ (word_width * q + r) % word_width = r
    BY <2>1, PlaceKnown
  <2>4. word_width * q + r \in S <=>
          word_width * q + r >= start /\ r \in BitsOf(kind, words, q)
    BY <2>2, <2>3 DEF From
  <2> QED
    BY <2>1, <2>2, <2>4
<1>5. \A x \in S : x \in Nat /\ x >= word_width * base
  <2>1. \A x \in S : x \in Nat /\ x >= start
    BY DEF From
  <2> QED
    BY <1>1, <1>2, <2>1
<1>6. ASSUME NEW r \in Bits PROVE r \in buf <=> word_width * base + r \in S
  <2>1. word_width * base + r >= start <=> r \notin Mask(shift)
    <3>1. r \in Nat
      BY <1>1, <1>4
    <3>2. r >= shift <=> r \notin Mask(shift)
      BY <1>1, <3>1 DEF Mask
    <3>3. word_width * base + r >= start <=> r >= shift
      BY <1>1, <1>2, <3>1
    <3> QED
      BY <3>2, <3>3
  <2> QED
    BY <1>1, <1>4, <2>1
<1>7. ASSUME NEW q \in Nat, q > base, NEW r \in Bits
      PROVE  r \in BitsOf(kind, words, q) <=> word_width * q + r \in S
  <2>1. word_width * (base + 1) <= word_width * q
        /\ word_width * (base + 1) = word_width * base + word_width
    BY <1>1, <1>7, WordsOrdered
  <2>2. word_width * q + r >= start
    <3>1. r \in Nat /\ word_width * q \in Nat
      BY <1>4
    <3> QED
      BY <1>0, <1>1, <1>2, <2>1, <3>1
  <2> QED
    BY <1>4, <2>2
<1>8. buf \in SUBSET Bits
  BY <1>1, <1>3
<1> HIDE DEF S, buf
<1>9. Spells(kind, words, base, buf, S)
  BY <1>5, <1>6, <1>7, <1>8 DEF Spells
<1> QED
  BY <1>9 DEF S, buf

LEMMA FromSpelt ==
  ASSUME NEW words \in Seq(Word), NEW start \in Nat
  PROVE  Spells("ones", words, start \div word_width,
                WordAt(words, start \div word_width) \ Mask(start % word_width),
                From("ones", words, start))
<1>1. PICK q \in Nat, r \in 0 .. word_width - 1 :
        q = start \div word_width /\ r = start % word_width /\ start = word_width * q + r
  BY BitPlace
<1>2. r \in 0 .. word_width
  BY WordsAssumption
<1> QED
  <2>1. Spells("ones", words, q, BitsOf("ones", words, q) \ Mask(r), From("ones", words, start))
    BY <1>1, <1>2, FromRest
  <2>2. BitsOf("ones", words, q) = WordAt(words, q)
    BY DEF BitsOf
  <2> QED
    BY <1>1, <2>1, <2>2

(* Up to the size they are counted as the places are.                      *)
LEMMA FromCounts ==
  ASSUME NEW bv, BitVec(bv), NEW start \in Nat, NEW p \in Nat, start <= p, p < bv.size
  PROVE  /\ CountTo(From("ones", bv.words, start), p) = CountTo(Places(bv), p) - CountTo(Places(bv), start)
         /\ p \in From("ones", bv.words, start) <=> p \in Places(bv)
<1> DEFINE S == From("ones", bv.words, start)
           T == Places(bv)
<1>0. /\ word_width \in Nat \ {0} /\ bv.size \in Nat /\ Len(bv.words) \in Nat
      /\ bv.words \in Seq(Word) /\ bv.size <= word_width * Len(bv.words)
  BY WordsAssumption DEF BitVec
<1>1. ASSUME NEW x \in Nat, x < bv.size
      PROVE  x \in S <=> x >= start /\ x \in T
  <2>1. x % word_width \in WordAt(bv.words, x \div word_width) <=> BitAt(bv.words, x)
    <3>1. PICK q \in Nat, r \in 0 .. word_width - 1 :
            q = x \div word_width /\ r = x % word_width /\ x = word_width * q + r
      BY BitPlace
    <3>2. q \in 0 .. Len(bv.words) - 1
      <4>1. word_width * q < word_width * Len(bv.words)
        <5>1. word_width * q \in Nat /\ word_width * Len(bv.words) \in Nat
          BY <1>0
        <5> QED
          BY <1>0, <1>1, <3>1, <5>1
      <4> QED
        BY <1>0, <4>1, WordsOrdered
    <3> QED
      BY <1>0, <3>1, <3>2, BitKnown, ZenonT(40)
  <2> QED
    BY <1>0, <1>1, <2>1 DEF From, BitsOf, Places
<1>2. \A x \in S \cup T : x \in Nat
  BY <1>0 DEF From, Places
<1> HIDE DEF S, T
<1>3. S \cap Mask(p) = (T \cap Mask(p)) \ Mask(start)
  <2>1. \A x \in Mask(p) : x \in Nat /\ x < bv.size
    BY <1>0 DEF Mask
  <2>2. \A x \in Nat : x \in Mask(start) <=> ~ (x >= start)
    BY DEF Mask
  <2> QED
    BY <1>1, <2>1, <2>2
<1>4. (T \cap Mask(p)) \cap Mask(start) = T \cap Mask(start)
  BY DEF Mask
<1>5. CountTo(S, p) = CountTo(T, p) - CountTo(T, start)
  <2>1. IsFiniteSet(T \cap Mask(p))
    BY CountSteps
  <2>2. Cardinality((T \cap Mask(p)) \ Mask(start))
          = Cardinality(T \cap Mask(p)) - Cardinality((T \cap Mask(p)) \cap Mask(start))
    BY <2>1, FS_Difference
  <2> QED
    BY <1>3, <1>4, <2>2 DEF CountTo
<1> QED
  BY <1>1, <1>5 DEF S, T

(* A division that rounds up.                                              *)
LEMMA CeilDiv ==
  ASSUME NEW a \in Nat, NEW b \in Nat \ {0}
  PROVE  /\ ceil_div(a, b) \in Nat
         /\ a <= b * ceil_div(a, b) /\ b * ceil_div(a, b) < a + b
         /\ \A k \in Nat : k < ceil_div(a, b) => b * k < a
         /\ \A x \in Nat : x < a => x \div b < ceil_div(a, b)
<1> DEFINE c == ceil_div(a, b)
<1>1. c = (a + b - 1) \div b
  BY DEF ceil_div
<1>2. a + b - 1 \in Nat
  OBVIOUS
<1>3. PICK q \in Nat, r \in 0 .. b - 1 : q = (a + b - 1) \div b /\ a + b - 1 = b * q + r
  BY <1>2, Division
<1>4. c = q
  BY <1>1, <1>3
<1> HIDE DEF c
<1>5. b * q \in Nat
  BY MultiplesOrdered
<1>6. a <= b * q /\ b * q < a + b
  BY <1>3, <1>5
<1>7. ASSUME NEW k \in Nat, k < q PROVE b * k < a
  <2>1. b * (k + 1) <= b * q /\ b * (k + 1) = b * k + b /\ b * k \in Nat
    BY <1>7, MultiplesOrdered
  <2> QED
    BY <1>5, <1>6, <2>1
<1>8. ASSUME NEW x \in Nat, x < a PROVE x \div b < q
  <2>1. PICK y \in Nat, z \in 0 .. b - 1 : y = x \div b /\ x = b * y + z
    BY Division
  <2>2. b * y < b * q
    <3>1. b * y \in Nat
      BY MultiplesOrdered
    <3> QED
      BY <1>5, <1>6, <1>8, <2>1, <3>1
  <2>3. y < q
    BY <2>2, MultiplesOrdered
  <2> QED
    BY <2>1, <2>3
<1> QED
  BY <1>4, <1>6, <1>7, <1>8 DEF c

(* The place of the highest bit of a number.                               *)
LEMMA MsbKnown ==
  ASSUME NEW x \in Nat \ {0}
  PROVE  msb(x) \in Nat /\ power[msb(x)] <= x /\ x < power[msb(x) + 1]
<1> DEFINE P == {b \in Nat : x < power[b]}
<1>1. power \in [Nat -> Nat \ {0}] /\ power[0] = 1 /\ \A k \in Nat : power[k + 1] = 2 * power[k]
  BY Powers
<1>2. x \in P
  <2> DEFINE Q == {k \in Nat : k < power[k]}
  <2>1. 0 \in Q
    BY <1>1
  <2>2. ASSUME NEW k \in 0 .. x - 1, k \in Q PROVE k + 1 \in Q
    <3>1. k \in Nat /\ power[k] \in Nat \ {0} /\ k < power[k] /\ power[k + 1] = 2 * power[k]
      BY <1>1, <2>2
    <3> QED
      BY <3>1
  <2>3. x \in Q
    <3> HIDE DEF Q
    <3> QED
      BY <2>1, <2>2, InductionUpTo
  <2> QED
    BY <2>3
<1>3. PICK y \in P : \A z \in P : y <= z
  <2>1. P \subseteq Nat
    OBVIOUS
  <2> HIDE DEF P
  <2> QED
    BY <1>2, <2>1, LeastNatural
<1>4. y # 0
  BY <1>1, <1>3
<1>5. y - 1 \in Nat /\ (y - 1) + 1 = y /\ ~ (y <= y - 1)
  BY <1>3, <1>4
<1>6. power[y - 1] <= x /\ x < power[y]
  <2>1. y - 1 \notin P
    BY <1>3, <1>5
  <2>2. power[y - 1] \in Nat
    BY <1>1, <1>5
  <2> QED
    BY <1>3, <1>5, <2>1, <2>2
<1>7. y - 1 \in 0 .. x
  <2>1. y <= x
    BY <1>2, <1>3
  <2> QED
    BY <1>5, <2>1
<1>8. \E b \in 0 .. x : power[b] <= x /\ x < power[b + 1]
  BY <1>5, <1>6, <1>7
<1> QED
  BY <1>8 DEF msb

(* The width of the numbers up to x.                                       *)
LEMMA WidthKnown ==
  ASSUME NEW x \in Nat, x < power[word_width]
  PROVE  /\ ceil_log2(x + 1) \in 0 .. word_width
         /\ \A v \in 0 .. x : v < power[ceil_log2(x + 1)]
<1>0. word_width \in Nat \ {0} /\ \A k \in Nat : power[k] \in Nat \ {0}
  BY WordsAssumption, Powers
<1>1. CASE x = 0
  <2>1. ceil_log2(x + 1) = 0
    BY <1>1 DEF ceil_log2
  <2> QED
    BY <1>0, <1>1, <2>1, Powers
<1>2. CASE x # 0
  <2>1. ceil_log2(x + 1) = msb(x) + 1
    <3>1. x + 1 > 1 /\ (x + 1) - 1 = x
      BY <1>2
    <3> QED
      BY <3>1 DEF ceil_log2
  <2>2. PICK m \in Nat : m = msb(x) /\ power[m] <= x /\ x < power[m + 1]
    BY <1>2, MsbKnown
  <2>3. m < word_width
    <3>1. CASE word_width <= m
      <4>1. PICK w \in Nat : w = word_width
        BY <1>0
      <4>2. power[w] <= power[m]
        BY <3>1, <4>1, PowersOrdered
      <4> QED
        BY <1>0, <2>2, <4>1, <4>2
    <3> QED
      BY <1>0, <3>1
  <2>4. ASSUME NEW v \in 0 .. x PROVE v < power[m + 1]
    BY <1>0, <2>2
  <2> QED
    BY <1>0, <2>1, <2>2, <2>3, <2>4
<1> QED
  BY <1>1, <1>2

(* The word of a bit is among those that take up the bits.                 *)
LEMMA WordOf ==
  ASSUME NEW m \in Nat, NEW p \in Nat, p < word_width * m
  PROVE  \E a \in Nat : \E x \in 0 .. word_width - 1 :
           /\ a = p \div word_width /\ x = p % word_width /\ p = word_width * a + x
           /\ a < m /\ word_width * a \in Nat /\ word_width * (a + 1) = word_width * a + word_width
           /\ \A b \in Nat : a < b => word_width * a + word_width <= word_width * b
<1>0. word_width \in Nat \ {0}
  BY WordsAssumption
<1>1. PICK a \in Nat, x \in 0 .. word_width - 1 :
        a = p \div word_width /\ x = p % word_width /\ p = word_width * a + x
  BY BitPlace
<1>2. word_width * a \in Nat /\ word_width * m \in Nat
      /\ word_width * (a + 1) = word_width * a + word_width
  BY <1>0, <1>1
<1>3. a < m
  <2>1. word_width * a < word_width * m
    BY <1>0, <1>1, <1>2
  <2> QED
    BY <1>1, <2>1, WordsOrdered
<1>4. ASSUME NEW b \in Nat, a < b PROVE word_width * a + word_width <= word_width * b
  <2>1. a + 1 \in Nat /\ a + 1 <= b
    BY <1>1, <1>4
  <2> QED
    BY <1>2, <2>1, WordsOrdered
<1> QED
  BY <1>1, <1>2, <1>3, <1>4

(* A bit vector of zeros has no ones.                                      *)
LEMMA ZerosGiven ==
  ASSUME NEW size \in Nat
  PROVE  /\ zeros(size) \in [size : Nat, words : Seq(Word)] /\ BitVec(zeros(size))
         /\ zeros(size).size = size /\ Places(zeros(size)) = {}
<1> DEFINE words == words_for(size)
           all == [k \in 1 .. words |-> {}]
<1>0. word_width \in Nat \ {0}
  BY WordsAssumption
<1>1. words \in Nat /\ size <= word_width * words
  <2>1. /\ ceil_div(size, word_width) \in Nat
        /\ size <= word_width * ceil_div(size, word_width)
    BY <1>0, CeilDiv
  <2> QED
    BY <2>1 DEF words_for
<1>2. zeros(size) = [size |-> size, words |-> all]
  BY DEF zeros
<1> HIDE DEF words
<1>3. all \in Seq(Word) /\ Len(all) = words /\ \A k \in 1 .. words : all[k] = {}
  <2>1. {} \in Word
    BY DEF Word
  <2> QED
    BY <1>1, <2>1
<1> HIDE DEF all
<1>4. BitVec(zeros(size)) /\ zeros(size) \in [size : Nat, words : Seq(Word)]
  BY <1>1, <1>2, <1>3 DEF BitVec
<1>5. ASSUME NEW p \in 0 .. size - 1 PROVE ~ BitAt(all, p)
  <2>1. PICK a \in Nat, x \in 0 .. word_width - 1 :
          a = p \div word_width /\ x = p % word_width /\ p = word_width * a + x
    BY BitPlace
  <2>2. a + 1 \in 1 .. words
    <3>1. word_width * a \in Nat /\ word_width * words \in Nat
      BY <1>0, <1>1, WordsOrdered
    <3>2. word_width * a < word_width * words
      BY <1>0, <1>1, <2>1, <3>1
    <3>3. a < words
      BY <1>1, <2>1, <3>2, WordsOrdered
    <3> QED
      BY <1>1, <2>1, <3>3
  <2> QED
    BY <1>3, <2>1, <2>2 DEF BitAt
<1> QED
  BY <1>2, <1>4, <1>5 DEF Places

(* A bit vector that is appended to: it has no more words than it needs,   *)
(* and zeros after its last bit.                                           *)
Packed(bv) ==
  /\ bv \in [size : Nat, words : Seq(Word)] /\ BitVec(bv)
  /\ word_width * Len(bv.words) < bv.size + word_width
  /\ \A p \in bv.size .. word_width * Len(bv.words) - 1 : ~ BitAt(bv.words, p)

(* What is appended comes after what was there.                            *)
LEMMA BitsAppended ==
  ASSUME NEW bv, Packed(bv), NEW len \in 0 .. word_width, NEW bits \in SUBSET (0 .. len - 1)
  PROVE  LET new == append_bits(bv, bits, len)
         IN  /\ Packed(new) /\ new.size = bv.size + len
             /\ \A p \in 0 .. bv.size - 1 : BitAt(new.words, p) <=> BitAt(bv.words, p)
             /\ \A x \in 0 .. len - 1 : BitAt(new.words, bv.size + x) <=> x \in bits
<1> DEFINE words == bv.words
           size == bv.size
           new == append_bits(bv, bits, len)
<1>0. /\ word_width \in Nat \ {0} /\ size \in Nat /\ words \in Seq(Word) /\ Len(words) \in Nat
      /\ size <= word_width * Len(words) /\ len \in Nat /\ word_width * Len(words) \in Nat
      /\ word_width * Len(words) < size + word_width
      /\ \A p \in size .. word_width * Len(words) - 1 : ~ BitAt(words, p)
      /\ bv \in [size : Nat, words : Seq(Word)]
  <2>1. word_width \in Nat \ {0}
    BY WordsAssumption
  <2>2. Len(words) \in Nat
    BY DEF Packed
  <2>3. word_width * Len(words) \in Nat
    BY <2>1, <2>2
  <2> QED
    BY <2>1, <2>2, <2>3 DEF Packed, BitVec
<1>1. PICK q \in Nat, s \in 0 .. word_width - 1 :
        q = size \div word_width /\ s = size % word_width /\ size = word_width * q + s
  BY <1>0, BitPlace
<1>2. PICK base \in Nat : base = word_width * q
  BY <1>0
<1>7. /\ word_width * (q + 1) = base + word_width /\ s \in Nat /\ size = base + s
      /\ word_width * ((q + 1) + 1) = (base + word_width) + word_width
  <2>1. /\ word_width * (q + 1) = word_width * q + word_width
        /\ word_width * ((q + 1) + 1) = word_width * (q + 1) + word_width
    BY WordsOrdered
  <2>2. word_width * (q + 1) = base + word_width
    BY <1>2, <2>1
  <2>3. word_width * ((q + 1) + 1) = (base + word_width) + word_width
    BY <2>1, <2>2
  <2>4. s \in Nat
    BY <1>0
  <2>5. size = base + s
    BY <1>1, <1>2
  <2> QED
    BY <2>2, <2>3, <2>4, <2>5
<1> HIDE DEF words, size

(* It is enough to say what every bit of the new words is.                 *)
<1>3. ASSUME NEW w2 \in Seq(Word), new = [size |-> size + len, words |-> w2],
             size + len <= word_width * Len(w2),
             word_width * Len(w2) < size + len + word_width,
             Len(words) <= Len(w2),
             \A p \in 0 .. word_width * Len(w2) - 1 :
               BitAt(w2, p) <=> (p < size /\ BitAt(words, p)) \/ p - size \in bits
      PROVE  /\ Packed(new) /\ new.size = size + len
             /\ \A p \in 0 .. size - 1 : BitAt(new.words, p) <=> BitAt(words, p)
             /\ \A x \in 0 .. len - 1 : BitAt(new.words, size + x) <=> x \in bits
  <2>0. PICK top \in Nat : top = word_width * Len(w2)
    <3>1. Len(w2) \in Nat
      BY <1>3
    <3> QED
      BY <1>0, <3>1
  <2>1. new.size = size + len /\ new.words = w2 /\ new \in [size : Nat, words : Seq(Word)]
    BY <1>0, <1>3
  <2>2. ASSUME NEW p \in 0 .. size - 1 PROVE BitAt(w2, p) <=> BitAt(words, p)
    <3>1. p \in 0 .. top - 1 /\ p < size /\ p - size \notin bits
      BY <1>0, <1>3, <2>0
    <3> QED
      BY <1>3, <2>0, <3>1
  <2>3. ASSUME NEW x \in 0 .. len - 1 PROVE BitAt(w2, size + x) <=> x \in bits
    <3>1. size + x \in 0 .. top - 1 /\ ~ (size + x < size) /\ (size + x) - size = x
      BY <1>0, <1>3, <2>0
    <3> QED
      BY <1>3, <2>0, <3>1
  <2>4. ASSUME NEW p \in size + len .. top - 1 PROVE ~ BitAt(w2, p)
    <3>1. p \in 0 .. top - 1 /\ ~ (p < size) /\ p - size \notin bits
      BY <1>0, <2>0
    <3> QED
      BY <1>3, <2>0, <3>1
  <2> HIDE DEF new
  <2>5. Packed(new)
    BY <1>3, <2>0, <2>1, <2>4 DEF Packed, BitVec
  <2> QED
    BY <2>1, <2>2, <2>3, <2>5
<1>4. CASE len = 0
  <2>1. new = bv
    BY <1>4 DEF append_bits
  <2>2. Packed(new) /\ new.size = size + len
    BY <1>0, <1>4, <2>1 DEF size
  <2> QED
    BY <1>4, <2>1, <2>2 DEF words, size
<1>5. CASE len # 0 /\ s = 0
  <2>1. PICK one \in Word : one = bits
    BY <1>0 DEF Word, Bits
  <2>2. new = [size |-> size + len, words |-> Append(words, one)]
    BY <1>1, <1>5, <2>1 DEF append_bits, words, size
  <2>3. Len(words) = q
    <3>1. PICK top \in Nat : top = word_width * Len(words)
      BY <1>0
    <3>2. base <= top /\ top < base + word_width
      BY <1>0, <1>5, <1>7, <3>1
    <3>3. Len(words) < q + 1
      <4>1. word_width * Len(words) < word_width * (q + 1) /\ q + 1 \in Nat
        BY <1>7, <3>1, <3>2
      <4> QED
        BY <1>0, <4>1, WordsOrdered
    <3>4. ~ (Len(words) < q)
      <4>1. Len(words) < q => word_width * (Len(words) + 1) <= word_width * q
        <5>1. Len(words) + 1 \in Nat /\ (Len(words) < q => Len(words) + 1 <= q)
          BY <1>0
        <5> QED
          BY <5>1, WordsOrdered
      <4>2. word_width * (Len(words) + 1) = top + word_width
        BY <1>0, <3>1, WordsOrdered
      <4> QED
        BY <1>0, <1>2, <3>2, <4>1, <4>2
    <3> QED
      BY <1>0, <3>3, <3>4
  <2> DEFINE w2 == Append(words, one)
  <2>4. /\ w2 \in Seq(Word) /\ Len(w2) = q + 1 /\ w2[q + 1] = one
        /\ \A j \in 1 .. q : w2[j] = words[j]
    BY <1>0, <2>3
  <2> HIDE DEF w2
  <2>5. ASSUME NEW p \in 0 .. (base + word_width) - 1
        PROVE  BitAt(w2, p) <=> (p < size /\ BitAt(words, p)) \/ p - size \in bits
    <3>1. PICK a \in Nat, x \in 0 .. word_width - 1 :
            a = p \div word_width /\ x = p % word_width /\ p = word_width * a + x
            /\ a < q + 1 /\ word_width * a \in Nat
            /\ \A b \in Nat : a < b => word_width * a + word_width <= word_width * b
      <4>1. p \in Nat /\ p < word_width * (q + 1) /\ q + 1 \in Nat
        BY <1>0, <1>7
      <4> QED
        BY <4>1, WordOf
    <3>2. PICK start \in Nat : start = word_width * a
      BY <3>1
    <3>3. (BitAt(w2, p) <=> x \in w2[a + 1]) /\ (BitAt(words, p) <=> x \in words[a + 1])
      BY <3>1 DEF BitAt
    <3>4. CASE a = q
      <4>0. p = base + x
        BY <1>2, <3>1, <3>4
      <4>1. ~ (p < size) /\ p - size = x
        BY <1>0, <1>5, <1>7, <4>0
      <4> QED
        BY <2>1, <2>4, <3>3, <3>4, <4>1
    <3>5. CASE a # q
      <4>1. a + 1 \in 1 .. q /\ a < q
        BY <3>1, <3>5
      <4>2. start + word_width <= base
        BY <1>2, <3>1, <3>2, <4>1
      <4>3. p < size /\ p - size \notin bits
        BY <1>0, <1>2, <1>7, <3>1, <3>2, <4>2
      <4> QED
        BY <2>4, <3>3, <4>1, <4>3
    <3> QED
      BY <3>4, <3>5
  <2>6. size + len <= word_width * (q + 1) /\ word_width * (q + 1) < size + len + word_width
    BY <1>0, <1>5, <1>7
  <2>7. new = [size |-> size + len, words |-> w2]
    BY <2>2 DEF w2
  <2> HIDE DEF new
  <2> QED
    BY <1>3, <1>7, <2>3, <2>4, <2>5, <2>6, <2>7 DEF new, words, size
<1>6. CASE len # 0 /\ s # 0
  <2> DEFINE left == Left(bits, s)
             right == Right(bits, word_width - s)
             filled2 == Write(words, q, {}, left)
  <2>1. Len(words) = q + 1
    <3>1. PICK top \in Nat : top = word_width * Len(words)
      BY <1>0
    <3>2. base < top /\ top < (base + word_width) + word_width
      BY <1>0, <1>6, <1>7, <3>1
    <3>3. q < Len(words) /\ Len(words) < (q + 1) + 1
      <4>1. (q + 1) + 1 \in Nat
        OBVIOUS
      <4>2. /\ word_width * q < word_width * Len(words)
            /\ word_width * Len(words) < word_width * ((q + 1) + 1)
        BY <1>2, <1>7, <3>1, <3>2
      <4> QED
        BY <1>0, <4>1, <4>2, WordsOrdered
    <3> QED
      BY <1>0, <3>3
  <2>2. left \in SUBSET Bits /\ right \in SUBSET Bits /\ {} \in SUBSET Bits
    BY DEF Left, Right
  <2>3. /\ \A x \in 0 .. word_width - 1 : x \in left <=> x - s \in bits
        /\ \A x \in 0 .. word_width - 1 : x \in right <=> x + (word_width - s) \in bits
    BY DEF Left, Right, Bits
  <2> HIDE DEF left, right
  <2>4. /\ filled2 \in Seq(Word) /\ Len(filled2) = Len(words)
        /\ filled2[q + 1] = (words[q + 1] \ {}) \cup left
        /\ \A j \in 1 .. Len(words) : j # q + 1 => filled2[j] = words[j]
    <3>1. q \in 0 .. Len(words) - 1
      BY <2>1
    <3>2. Changes(words, filled2, q, {}, left)
      BY <1>0, <2>2, <3>1, WordWritten
    <3> QED
      BY <3>2 DEF Changes
  <2>5. new = [size |-> size + len,
               words |-> IF len > word_width - s THEN Append(filled2, right) ELSE filled2]
    <3>1. Len(words) - 1 = q
      BY <2>1
    <3> QED
      BY <1>1, <1>6, <3>1 DEF append_bits, words, size, left, right
  <2> HIDE DEF filled2
  (* The bits of the words there were.                                     *)
  <2>6. ASSUME NEW p \in 0 .. (base + word_width) - 1, NEW w2,
               \A j \in 1 .. q + 1 : w2[j] = filled2[j]
        PROVE  BitAt(w2, p) <=> (p < size /\ BitAt(words, p)) \/ p - size \in bits
    <3>1. PICK a \in Nat, x \in 0 .. word_width - 1 :
            a = p \div word_width /\ x = p % word_width /\ p = word_width * a + x
            /\ a < q + 1 /\ word_width * a \in Nat
            /\ \A b \in Nat : a < b => word_width * a + word_width <= word_width * b
      <4>1. p \in Nat /\ p < word_width * (q + 1) /\ q + 1 \in Nat
        BY <1>0, <1>7
      <4> QED
        BY <4>1, WordOf
    <3>2. PICK start \in Nat : start = word_width * a
      BY <3>1
    <3>3. a + 1 \in 1 .. q + 1
      BY <3>1
    <3>4. (BitAt(w2, p) <=> x \in filled2[a + 1]) /\ (BitAt(words, p) <=> x \in words[a + 1])
      BY <2>6, <3>1, <3>3 DEF BitAt
    <3>5. CASE a = q
      <4>0. p = base + x
        BY <1>2, <3>1, <3>5
      <4>1. p - size = x - s /\ (p < size <=> x < s)
        BY <1>0, <1>7, <4>0
      <4>2. x \in filled2[a + 1] <=> x \in words[a + 1] \/ x - s \in bits
        BY <2>3, <2>4, <3>1, <3>5
      <4>3. ~ (p < size) => ~ BitAt(words, p)
        <5>1. PICK top \in Nat : top = word_width * Len(words) /\ top = base + word_width
          BY <1>0, <1>7, <2>1
        <5>2. ~ (p < size) => p \in size .. top - 1
          BY <1>0, <5>1
        <5> QED
          BY <1>0, <5>1, <5>2
      <4>4. p < size => ~ (x - s \in bits)
        BY <1>0, <4>1
      <4> QED
        BY <3>4, <4>1, <4>2, <4>3, <4>4
    <3>6. CASE a # q
      <4>1. a + 1 \in 1 .. Len(words) /\ a + 1 # q + 1 /\ a < q
        BY <2>1, <3>1, <3>6
      <4>2. start + word_width <= base
        BY <1>2, <3>1, <3>2, <4>1
      <4>3. p < size /\ p - size \notin bits
        BY <1>0, <1>2, <1>7, <3>1, <3>2, <4>2
      <4> QED
        BY <2>4, <3>4, <4>1, <4>3
    <3> QED
      BY <3>5, <3>6
  <2>7. CASE len > word_width - s
    <3> DEFINE w2 == Append(filled2, right)
    <3>1. /\ w2 \in Seq(Word) /\ Len(w2) = (q + 1) + 1 /\ w2[(q + 1) + 1] = right
          /\ \A j \in 1 .. q + 1 : w2[j] = filled2[j]
      BY <2>1, <2>2, <2>4 DEF Word
    <3>2. new = [size |-> size + len, words |-> w2]
      BY <2>5, <2>7
    <3> HIDE DEF w2, new
    <3>3. ASSUME NEW p \in 0 .. ((base + word_width) + word_width) - 1
          PROVE  BitAt(w2, p) <=> (p < size /\ BitAt(words, p)) \/ p - size \in bits
      <4>1. CASE p < base + word_width
        <5>1. p \in 0 .. (base + word_width) - 1
          BY <1>0, <1>2, <4>1
        <5> QED
          BY <2>6, <3>1, <5>1
      <4>2. CASE ~ (p < base + word_width)
        <5>1. PICK x \in 0 .. word_width - 1 : p = (base + word_width) + x
          <6>1. p - (base + word_width) \in 0 .. word_width - 1
            BY <1>0, <1>2, <4>2
          <6> QED
            BY <1>0, <1>2, <6>1
        <5>2. p \div word_width = q + 1 /\ p % word_width = x
          <6>1. q + 1 \in Nat /\ p = word_width * (q + 1) + x
            BY <1>7, <5>1
          <6> QED
            BY <6>1, PlaceKnown
        <5>3. BitAt(w2, p) <=> x \in right
          BY <3>1, <5>2 DEF BitAt
        <5>4. ~ (p < size) /\ p - size = x + (word_width - s)
          BY <1>0, <1>2, <1>7, <5>1
        <5> QED
          BY <2>3, <5>3, <5>4
      <4> QED
        BY <4>1, <4>2
    <3>4. /\ size + len <= word_width * ((q + 1) + 1)
          /\ word_width * ((q + 1) + 1) < size + len + word_width
      BY <1>0, <1>2, <1>7, <2>7
    <3>5. Len(words) <= Len(w2)
      BY <2>1, <3>1
    <3> QED
      BY <1>3, <1>7, <3>1, <3>2, <3>3, <3>4, <3>5 DEF new, words, size
  <2>8. CASE ~ (len > word_width - s)
    <3>1. new = [size |-> size + len, words |-> filled2]
      BY <2>5, <2>8
    <3>2. \A p \in 0 .. (base + word_width) - 1 :
            BitAt(filled2, p) <=> (p < size /\ BitAt(words, p)) \/ p - size \in bits
      BY <2>6
    <3>3. /\ size + len <= word_width * (q + 1)
          /\ word_width * (q + 1) < size + len + word_width
      BY <1>0, <1>2, <1>6, <1>7, <2>8
    <3>4. Len(words) <= Len(filled2) /\ Len(filled2) = q + 1
      BY <2>1, <2>4
    <3> HIDE DEF new
    <3> QED
      BY <1>3, <1>7, <2>4, <3>1, <3>2, <3>3, <3>4 DEF new, words, size
  <2> QED
    BY <2>7, <2>8
<1> QED
  BY <1>4, <1>5, <1>6 DEF words, size, new

(* The power of a sum is a product.                                        *)
LEMMA PowersMultiply ==
  ASSUME NEW a \in Nat, NEW b \in Nat
  PROVE  power[a + b] = power[a] * power[b]
<1> DEFINE P == {k \in Nat : power[a + k] = power[a] * power[k]}
<1>1. power \in [Nat -> Nat \ {0}] /\ power[0] = 1 /\ \A k \in Nat : power[k + 1] = 2 * power[k]
  BY Powers
<1>2. 0 \in P
  <2>1. a + 0 = a /\ power[a] \in Nat
    BY <1>1
  <2> QED
    BY <1>1, <2>1
<1>3. ASSUME NEW k \in 0 .. b - 1, k \in P PROVE k + 1 \in P
  <2>1. k \in Nat /\ a + k \in Nat /\ (a + k) + 1 = a + (k + 1)
    OBVIOUS
  <2>2. power[a + (k + 1)] = 2 * power[a + k] /\ power[k + 1] = 2 * power[k]
    BY <1>1, <2>1
  <2>3. PICK x \in Nat, y \in Nat : x = power[a] /\ y = power[k] /\ power[a + k] = x * y
    BY <1>1, <1>3, <2>1
  <2>4. 2 * (x * y) = x * (2 * y)
    OBVIOUS
  <2> QED
    BY <2>1, <2>2, <2>3, <2>4
<1> HIDE DEF P
<1>4. b \in 0 .. b
  OBVIOUS
<1>5. b \in P
  BY <1>2, <1>3, <1>4, InductionUpTo
<1> QED
  BY <1>5 DEF P

(* The low bits of a number are those of the rest of a division.           *)
LEMMA LowBits ==
  ASSUME NEW v \in Nat, NEW l \in 0 .. word_width
  PROVE  /\ power[l] \in Nat \ {0} /\ v = (v \div power[l]) * power[l] + number(bits_of(v) \cap Mask(l))
         /\ v \div power[l] \in Nat /\ number(bits_of(v) \cap Mask(l)) \in Nat
<1>0. word_width \in Nat \ {0} /\ l \in Nat /\ power \in [Nat -> Nat \ {0}]
      /\ \A k \in Nat : power[k + 1] = 2 * power[k]
  <2>1. word_width \in Nat \ {0}
    BY WordsAssumption
  <2> QED
    BY <2>1, Powers
<1>1. PICK d \in Nat \ {0} : d = power[l]
  BY <1>0
<1>2. PICK q \in Nat, r \in 0 .. d - 1 : q = v \div d /\ r = v % d /\ v = d * q + r
  BY Division
<1>3. r \in Nat /\ r < power[l] /\ r < power[word_width]
  <2>1. power[l] <= power[word_width] /\ power[word_width] \in Nat
    <3>1. PICK w \in Nat : w = word_width /\ l <= w
      BY <1>0
    <3> QED
      BY <1>0, <3>1, PowersOrdered
  <2> QED
    BY <1>1, <2>1
<1>4. bits_of(r) \subseteq Mask(l)
  BY <1>3, BitsWithin
<1>5. ASSUME NEW b \in Bits, b \in Mask(l)
      PROVE  (v \div power[b]) % 2 = (r \div power[b]) % 2
  <2>1. b \in Nat /\ l - (b + 1) \in Nat /\ b + ((l - (b + 1)) + 1) = l
    BY <1>0, <1>5 DEF Mask, Bits
  <2>2. PICK c \in Nat \ {0} : c = power[b]
    BY <1>0, <2>1
  <2>3. PICK h \in Nat \ {0} : h = power[l - (b + 1)]
    BY <1>0, <2>1
  <2>4. d = c * (2 * h)
    <3>1. power[(l - (b + 1)) + 1] = 2 * h
      BY <1>0, <2>1, <2>3
    <3>2. power[b + ((l - (b + 1)) + 1)] = power[b] * power[(l - (b + 1)) + 1]
      <4>1. (l - (b + 1)) + 1 \in Nat
        BY <2>1
      <4> QED
        BY <2>1, <4>1, PowersMultiply
    <3> QED
      BY <1>1, <2>1, <2>2, <3>1, <3>2
  <2>5. PICK x \in Nat, y \in 0 .. c - 1 : x = r \div c /\ y = r % c /\ r = c * x + y
    <3>1. PICK z \in Nat : z = r
      BY <1>3
    <3>2. z \div c \in Nat /\ z % c \in 0 .. c - 1 /\ z = c * (z \div c) + (z % c)
      BY Division
    <3> QED
      BY <3>1, <3>2
  <2>6. v = c * (2 * (h * q) + x) + y
    <3>1. d * q = c * (2 * (h * q))
      BY <2>4
    <3>2. PICK g \in Nat : g = h * q
      OBVIOUS
    <3>3. c * (2 * g + x) = c * (2 * g) + c * x
      OBVIOUS
    <3> QED
      BY <1>2, <2>5, <3>1, <3>2, <3>3
  <2>7. PICK g \in Nat : g = h * q
    OBVIOUS
  <2>8. v \div c = 2 * g + x
    <3>1. 2 * g + x \in Nat
      OBVIOUS
    <3> QED
      BY <2>6, <2>7, <3>1, DivisionKnown
  <2>9. (2 * g + x) % 2 = x % 2
    OBVIOUS
  <2> QED
    BY <2>2, <2>5, <2>8, <2>9
<1>6. bits_of(v) \cap Mask(l) = bits_of(r)
  <2>1. ASSUME NEW b \in Bits, b \in Mask(l) PROVE b \in bits_of(v) <=> b \in bits_of(r)
    BY <1>5, <2>1 DEF bits_of
  <2>2. bits_of(v) \subseteq Bits /\ bits_of(r) \subseteq Bits
    BY DEF bits_of
  <2> QED
    BY <1>4, <2>1, <2>2
<1>7. number(bits_of(r)) = r
  BY <1>3, NumberOfBits
<1>8. d * q = q * d
  OBVIOUS
<1> QED
  BY <1>1, <1>2, <1>3, <1>6, <1>7, <1>8

(* S has the i values of h, which come in order.                           *)
InOrder(S, h, i, m) ==
  /\ h \in [0 .. i - 1 -> 0 .. m - 1]
  /\ \A j, k \in 0 .. i - 1 : j < k => h[j] < h[k]
  /\ \A j \in 0 .. i - 1 : h[j] \in S
  /\ \A x \in S : \E j \in 0 .. i - 1 : x = h[j]

(* Then the k-th of S is the k-th value.                                   *)
LEMMA OnesGiven ==
  ASSUME NEW i \in Nat, NEW m \in Nat, NEW h, NEW S, InOrder(S, h, i, m)
  PROVE  Cardinality(S) = i /\ \A k \in 0 .. i - 1 : CountTo(S, h[k]) = k /\ select_in_word(S, k) = h[k]
<1> USE DEF InOrder
<1>0. \A j \in 0 .. i - 1 : j \in Nat /\ h[j] \in 0 .. m - 1 /\ h[j] \in Nat
  OBVIOUS
<1>1. ASSUME NEW k \in 0 .. i PROVE Cardinality({h[j] : j \in 0 .. k - 1}) = k
  <2> DEFINE T == {h[j] : j \in 0 .. k - 1}
             f == [j \in 0 .. k - 1 |-> h[j]]
  <2>1. \A j \in 0 .. k - 1 : j \in 0 .. i - 1
    OBVIOUS
  <2>2. f \in Bijection(0 .. k - 1, T)
    <3>1. f \in [0 .. k - 1 -> T] /\ \A t \in T : \E j \in 0 .. k - 1 : f[j] = t
      OBVIOUS
    <3>2. ASSUME NEW x \in 0 .. k - 1, NEW y \in 0 .. k - 1, x # y PROVE f[x] # f[y]
      <4>1. x \in 0 .. i - 1 /\ y \in 0 .. i - 1 /\ (x < y \/ y < x)
        BY <2>1, <3>2
      <4>2. h[x] < h[y] \/ h[y] < h[x]
        BY <4>1
      <4>3. h[x] \in Nat /\ h[y] \in Nat
        BY <1>0, <4>1
      <4> QED
        BY <4>2, <4>3
    <3> HIDE DEF f, T
    <3> QED
      BY <3>1, <3>2 DEF Bijection, Injection, Surjection, IsInjective
  <2>3. IsFiniteSet(0 .. k - 1) /\ Cardinality(0 .. k - 1) = k
    <3>1. PICK z \in Nat : z = k
      OBVIOUS
    <3>2. IsFiniteSet(0 .. z - 1) /\ Cardinality(0 .. z - 1) = z
      BY FS_Interval
    <3> QED
      BY <3>1, <3>2
  <2> HIDE DEF T, f
  <2>4. Cardinality(T) = Cardinality(0 .. k - 1)
    BY <2>2, <2>3, FS_Bijection DEF ExistsBijection
  <2> QED
    BY <2>3, <2>4 DEF T
<1>2. Cardinality(S) = i
  <2>1. i \in 0 .. i
    OBVIOUS
  <2>2. S = {h[j] : j \in 0 .. i - 1}
    OBVIOUS
  <2> QED
    BY <1>1, <2>1, <2>2
<1>3. ASSUME NEW k \in 0 .. i - 1 PROVE CountTo(S, h[k]) = k /\ select_in_word(S, k) = h[k]
  <2>1. S \cap Mask(h[k]) = {h[j] : j \in 0 .. k - 1}
    <3>1. ASSUME NEW x \in S \cap Mask(h[k]) PROVE x \in {h[j] : j \in 0 .. k - 1}
      <4>1. PICK j \in 0 .. i - 1 : x = h[j]
        OBVIOUS
      <4>2. h[j] < h[k] /\ h[j] \in Nat /\ h[k] \in Nat
        BY <1>0, <4>1 DEF Mask
      <4>3. ~ (k < j) /\ j # k
        BY <4>2
      <4> QED
        BY <4>1, <4>3
    <3>2. ASSUME NEW x \in {h[j] : j \in 0 .. k - 1} PROVE x \in S \cap Mask(h[k])
      <4>1. PICK j \in 0 .. k - 1 : x = h[j]
        OBVIOUS
      <4>2. j \in 0 .. i - 1 /\ j < k
        OBVIOUS
      <4>3. h[j] < h[k] /\ h[j] \in Nat /\ h[k] \in Nat
        BY <1>0, <4>2
      <4>4. h[j] \in S
        BY <4>2
      <4> QED
        BY <4>1, <4>3, <4>4 DEF Mask
    <3> QED
      BY <3>1, <3>2
  <2>2. CountTo(S, h[k]) = k
    <3>1. k \in 0 .. i
      OBVIOUS
    <3> QED
      BY <1>1, <2>1, <3>1 DEF CountTo
  <2>3. S \in SUBSET (0 .. m - 1) /\ h[k] \in S
    BY <1>0
  <2>4. select_in_word(S, CountTo(S, h[k])) = h[k]
    BY <2>3, SelectKnown
  <2> QED
    BY <2>2, <2>4
<1> QED
  BY <1>2, <1>3

(* The unary iterator that has just given the one at p.                    *)
Passed(bv, p) ==
  [position |-> p, buf |-> WordAt(bv.words, p \div word_width) \ Mask((p % word_width) + 1)]

(* The bits of a word that is read anywhere among the words.               *)
LEMMA WordRead ==
  ASSUME NEW bv, BitVec(bv), NEW pos \in Nat
  PROVE  /\ get_word64(bv, pos) \in Word
         /\ \A x \in Bits : pos + x < bv.size => (x \in get_word64(bv, pos) <=> BitAt(bv.words, pos + x))
<1> DEFINE q == pos \div word_width
           s == pos % word_width
           w == get_word64(bv, pos)
           len == Len(bv.words)
<1>0. /\ word_width \in Nat \ {0} /\ bv.words \in Seq(Word) /\ bv.size \in Nat
      /\ bv.size <= word_width * len /\ len \in Nat
  BY WordsAssumption DEF BitVec
<1>1. q \in Nat /\ s \in 0 .. word_width - 1 /\ pos = word_width * q + s
  BY BitPlace
<1>2. w = IF s # 0 /\ q + 1 < len
          THEN Right(WordAt(bv.words, q), s) \cup Left(WordAt(bv.words, q + 1), word_width - s)
          ELSE Right(WordAt(bv.words, q), s)
  BY DEF get_word64
<1> HIDE DEF q, s, w, len
<1>3. w \in Word
  <2>1. \A v, k : Right(v, k) \in SUBSET Bits /\ Left(v, k) \in SUBSET Bits
    BY DEF Right, Left
  <2> QED
    BY <1>2, <2>1 DEF Word
<1>4. ASSUME NEW x \in Bits, pos + x < bv.size PROVE x \in w <=> BitAt(bv.words, pos + x)
  <2>1. x \in Nat /\ x < word_width
    BY <1>0 DEF Bits
  <2>2. CASE s + x < word_width
    <3>1. s + x \in 0 .. word_width - 1 /\ pos + x = word_width * q + (s + x) /\ pos + x \in Nat
      <4>1. PICK a \in Nat : a = word_width * q
        BY <1>0, <1>1
      <4> QED
        BY <1>0, <1>1, <2>1, <2>2, <4>1
    <3>2. q \in 0 .. len - 1
      <4>1. word_width * q < word_width * len
        <5>1. PICK a \in Nat, b \in Nat : a = word_width * q /\ b = word_width * len
          BY <1>0, <1>1
        <5> QED
          BY <1>0, <1>1, <1>4, <3>1, <5>1
      <4> QED
        BY <1>0, <1>1, <4>1, WordsOrdered
    <3>3. WordAt(bv.words, q) = bv.words[q + 1] /\ (BitAt(bv.words, pos + x) <=> s + x \in bv.words[q + 1])
      <4>1. q \in 0 .. Len(bv.words) - 1
        BY <3>2 DEF len
      <4> QED
        BY <1>0, <3>1, <4>1, BitKnown
    <3>4. x \in Right(WordAt(bv.words, q), s) <=> s + x \in bv.words[q + 1]
      <4>1. x + s = s + x
        BY <1>1, <2>1
      <4> QED
        BY <3>3, <4>1 DEF Right
    <3>5. x \notin Left(WordAt(bv.words, q + 1), word_width - s)
      <4>1. WordAt(bv.words, q + 1) \in SUBSET Bits
        <5>1. \A i \in DOMAIN bv.words : bv.words[i] \in SUBSET Bits
          BY <1>0 DEF Word
        <5> QED
          BY <5>1 DEF WordAt
      <4>2. x - (word_width - s) \notin Bits
        BY <1>0, <1>1, <2>1, <2>2 DEF Bits
      <4> QED
        BY <4>1, <4>2 DEF Left
    <3> QED
      BY <1>2, <3>3, <3>4, <3>5
  <2>3. CASE ~ (s + x < word_width)
    <3> DEFINE y == (s + x) - word_width
    <3>1. /\ y \in 0 .. word_width - 1 /\ y = x - (word_width - s) /\ s # 0 /\ q + 1 \in Nat
          /\ pos + x = word_width * (q + 1) + y /\ word_width * (q + 1) \in Nat
      <4>1. PICK a \in Nat : a = word_width * q
        BY <1>0, <1>1
      <4>2. word_width * (q + 1) = a + word_width
        BY <1>1, <4>1, WordsOrdered
      <4> QED
        BY <1>0, <1>1, <2>1, <2>3, <4>1, <4>2
    <3>2. q + 1 \in 0 .. len - 1
      <4>1. word_width * (q + 1) < word_width * len
        <5>1. PICK a \in Nat, b \in Nat : a = word_width * (q + 1) /\ b = word_width * len
          BY <1>0, <3>1
        <5> QED
          BY <1>0, <1>4, <3>1, <5>1
      <4> QED
        BY <1>0, <3>1, <4>1, WordsOrdered
    <3>3. /\ WordAt(bv.words, q + 1) = bv.words[(q + 1) + 1]
          /\ (BitAt(bv.words, pos + x) <=> y \in bv.words[(q + 1) + 1])
      <4>1. q + 1 \in 0 .. Len(bv.words) - 1
        BY <3>2 DEF len
      <4> HIDE DEF y
      <4> QED
        BY <1>0, <3>1, <4>1, BitKnown
    <3>4. x \in Left(WordAt(bv.words, q + 1), word_width - s) <=> y \in WordAt(bv.words, q + 1)
      BY <3>1 DEF Left
    <3>5. x \notin Right(WordAt(bv.words, q), s)
      <4>1. WordAt(bv.words, q) \in SUBSET Bits
        <5>1. \A i \in DOMAIN bv.words : bv.words[i] \in SUBSET Bits
          BY <1>0 DEF Word
        <5> QED
          BY <5>1 DEF WordAt
      <4>2. x + s \notin Bits
        BY <1>0, <1>1, <2>1, <2>3 DEF Bits
      <4> QED
        BY <4>1, <4>2 DEF Right
    <3>6. q + 1 < len
      BY <1>0, <3>2
    <3> QED
      BY <1>2, <3>1, <3>3, <3>4, <3>5, <3>6
  <2> QED
    BY <2>2, <2>3
<1> QED
  BY <1>3, <1>4 DEF w

(* A greater number, a greater quotient.                                   *)
LEMMA DivisionOrdered ==
  ASSUME NEW a \in Nat, NEW b \in Nat, a <= b, NEW m \in Nat \ {0}
  PROVE  a \div m <= b \div m
<1>1. PICK q \in Nat : q = a \div m
  BY Division
<1>2. PICK s \in Nat : s = b \div m
  BY Division
<1>3. PICK r \in 0 .. m - 1 : a = m * q + r
  BY <1>1, Division
<1>4. PICK t \in 0 .. m - 1 : b = m * s + t
  BY <1>2, Division
<1>5. m * q < m * (s + 1)
  <2>1. PICK c \in Nat, d \in Nat : c = m * q /\ d = m * s
    BY <1>1, <1>2
  <2>2. m * (s + 1) = d + m
    BY <1>2, <2>1
  <2> QED
    BY <1>3, <1>4, <2>1, <2>2
<1>6. q < s + 1
  BY <1>5, MultiplesOrdered
<1> QED
  BY <1>1, <1>2, <1>6

(* A bit that is set is a one, and no other bit changes.                   *)
LEMMA BitGiven ==
  ASSUME NEW bv \in [size : Nat, words : Seq(Word)],
         NEW pos \in Nat, pos < word_width * Len(bv.words)
  PROVE  LET new == set_bit(bv, pos)
         IN  /\ new \in [size : Nat, words : Seq(Word)] /\ new.size = bv.size
             /\ Len(new.words) = Len(bv.words)
             /\ \A p \in 0 .. word_width * Len(bv.words) - 1 :
                  BitAt(new.words, p) <=> p = pos \/ BitAt(bv.words, p)
<1> DEFINE new == set_bit(bv, pos)
           words == bv.words
<1>0. /\ word_width \in Nat \ {0} /\ bv.size \in Nat /\ words \in Seq(Word) /\ Len(words) \in Nat
      /\ pos \in Nat
  BY WordsAssumption
<1>1. PICK q \in Nat, r \in 0 .. word_width - 1 :
        q = pos \div word_width /\ r = pos % word_width /\ pos = word_width * q + r
        /\ q < Len(words) /\ word_width * q \in Nat
        /\ \A b \in Nat : q < b => word_width * q + word_width <= word_width * b
  BY <1>0, WordOf
<1>2. q \in 0 .. Len(words) - 1
  BY <1>0, <1>1
<1>3. PICK given \in SUBSET Bits : given = {r}
  BY <1>1 DEF Bits
<1> DEFINE w2 == Write(words, q, given, given)
<1>4. /\ w2 \in Seq(Word) /\ Len(w2) = Len(words)
      /\ w2[q + 1] = (words[q + 1] \ given) \cup given
      /\ \A j \in 1 .. Len(words) : j # q + 1 => w2[j] = words[j]
  <2>1. Changes(words, w2, q, given, given)
    BY <1>0, <1>2, WordWritten
  <2> QED
    BY <2>1 DEF Changes
<1>5. new = [bv EXCEPT !.words = w2]
  BY <1>1, <1>3 DEF set_bit
<1> HIDE DEF w2, new
<1>6. /\ new \in [size : Nat, words : Seq(Word)] /\ new.size = bv.size /\ new.words = w2
  BY <1>4, <1>5
<1>7. ASSUME NEW p \in 0 .. word_width * Len(words) - 1
      PROVE  BitAt(w2, p) <=> p = pos \/ BitAt(words, p)
  <2>1. PICK a \in Nat, x \in 0 .. word_width - 1 :
          a = p \div word_width /\ x = p % word_width /\ p = word_width * a + x
          /\ a < Len(words) /\ word_width * a \in Nat
          /\ \A b \in Nat : a < b => word_width * a + word_width <= word_width * b
    <3>1. PICK m \in Nat : m = Len(words)
      BY <1>0
    <3>2. PICK top \in Nat : top = word_width * m
      BY <1>0, <3>1
    <3>3. PICK z \in Nat : z = p
      BY <1>0, <3>1, <3>2
    <3>4. z < word_width * m
      BY <1>0, <3>1, <3>2, <3>3
    <3>5. \E a \in Nat : \E x \in 0 .. word_width - 1 :
            /\ a = z \div word_width /\ x = z % word_width /\ z = word_width * a + x
            /\ a < m /\ word_width * a \in Nat
            /\ \A b \in Nat : a < b => word_width * a + word_width <= word_width * b
      BY <3>4, WordOf
    <3> HIDE DEF words
    <3> QED
      BY <3>1, <3>3, <3>5
  <2>2. a \in 0 .. Len(words) - 1
    BY <1>0, <2>1
  <2>3. BitAt(w2, p) <=> x \in w2[a + 1]
    BY <2>1 DEF BitAt
  <2>4. BitAt(words, p) <=> x \in words[a + 1]
    BY <2>1 DEF BitAt
  <2>5. CASE a = q
    <3>1. p = pos <=> x = r
      BY <1>0, <1>1, <2>1, <2>5
    <3> QED
      BY <1>3, <1>4, <2>3, <2>4, <2>5, <3>1
  <2>6. CASE a # q
    <3>1. p # pos
      BY <1>0, <1>1, <2>1, <2>6
    <3>2. a + 1 \in 1 .. Len(words) /\ a + 1 # q + 1
      BY <1>0, <1>1, <2>2, <2>6
    <3> QED
      BY <1>4, <2>3, <2>4, <3>1, <3>2
  <2> QED
    BY <2>5, <2>6
<1> QED
  BY <1>4, <1>6, <1>7 DEF new

(* That is one member more of the places.                                  *)
LEMMA BitSet ==
  ASSUME NEW bv \in [size : Nat, words : Seq(Word)], BitVec(bv), NEW pos \in 0 .. bv.size - 1
  PROVE  LET new == set_bit(bv, pos)
         IN  /\ new \in [size : Nat, words : Seq(Word)] /\ BitVec(new) /\ new.size = bv.size
             /\ Places(new) = Places(bv) \cup {pos}
<1> DEFINE new == set_bit(bv, pos)
<1>1. PICK top \in Nat : top = word_width * Len(bv.words)
  BY WordsAssumption
<1>2. pos \in Nat /\ pos < top /\ bv.size <= top /\ bv.size \in Nat
  BY <1>1 DEF BitVec
<1>3. /\ new \in [size : Nat, words : Seq(Word)] /\ new.size = bv.size
      /\ Len(new.words) = Len(bv.words)
      /\ \A p \in 0 .. top - 1 : BitAt(new.words, p) <=> p = pos \/ BitAt(bv.words, p)
  BY <1>1, <1>2, BitGiven
<1> HIDE DEF new
<1>4. BitVec(new)
  BY <1>1, <1>2, <1>3 DEF BitVec
<1>5. Places(new) = Places(bv) \cup {pos}
  BY <1>2, <1>3 DEF Places
<1> QED
  BY <1>3, <1>4, <1>5 DEF new

(* Bits that are set are those given, and no other bit changes.            *)
LEMMA BitsSet ==
  ASSUME NEW bv \in [size : Nat, words : Seq(Word)], BitVec(bv), NEW len \in 0 .. word_width,
         NEW pos \in Nat, pos + len <= bv.size, NEW bits \in SUBSET Mask(len)
  PROVE  LET new == set_bits(bv, pos, bits, len)
         IN  /\ new \in [size : Nat, words : Seq(Word)] /\ new.size = bv.size
             /\ Len(new.words) = Len(bv.words)
             /\ \A p \in 0 .. word_width * Len(bv.words) - 1 :
                  BitAt(new.words, p) <=> IF p - pos \in Mask(len) THEN p - pos \in bits
                                          ELSE BitAt(bv.words, p)
<1> DEFINE new == set_bits(bv, pos, bits, len)
<1>1. CASE len = 0
  <2>1. new = bv
    BY <1>1 DEF set_bits
  <2>2. Mask(len) = {}
    BY <1>1 DEF Mask
  <2> HIDE DEF new
  <2> QED
    BY <2>1, <2>2 DEF new
<1>2. CASE len # 0
  <2>1. PICK words \in Seq(Word) : words = bv.words
    OBVIOUS
  <2>2. /\ word_width \in Nat \ {0} /\ Len(words) \in Nat /\ bv.size \in Nat
        /\ bv.size <= word_width * Len(words)
    BY <2>1, WordsAssumption DEF BitVec
  <2>3. PICK mask \in SUBSET (0 .. len - 1) : mask = Mask(len)
    BY DEF Mask
  <2>4. len \in 1 .. word_width /\ bits \in SUBSET mask
    BY <1>2, <2>2, <2>3
  <2>5. pos + len <= word_width * Len(words)
    <3>1. PICK top \in Nat : top = word_width * Len(words)
      BY <2>2
    <3> QED
      BY <2>2, <2>4, <3>1
  <2> DEFINE w2 == write_bits(words, pos, bits, len, mask)
  <2>6. /\ w2 \in Seq(Word) /\ Len(w2) = Len(words)
        /\ \A p \in 0 .. word_width * Len(words) - 1 :
             BitAt(w2, p) <=> IF p - pos \in mask THEN p - pos \in bits ELSE BitAt(words, p)
    BY <2>4, <2>5, BitsWritten
  <2>7. new = [bv EXCEPT !.words = w2]
    BY <1>2, <2>1, <2>3 DEF set_bits
  <2> HIDE DEF w2, new
  <2>8. new \in [size : Nat, words : Seq(Word)] /\ new.size = bv.size /\ new.words = w2
    BY <2>6, <2>7
  <2> QED
    BY <2>1, <2>3, <2>6, <2>8 DEF new
<1> QED
  BY <1>1, <1>2

(* Values of a width lie one after the other.                              *)
LEMMA RowPlaces ==
  ASSUME NEW w \in Nat, NEW a \in Nat, NEW m \in Nat, a < m
  PROVE  /\ a * w \in Nat /\ m * w \in Nat /\ a * w + w <= m * w
         /\ \A b \in Nat : /\ b * w \in Nat
                           /\ b < a => b * w + w <= a * w
                           /\ a < b => a * w + w <= b * w
<1>1. ASSUME NEW c \in Nat, NEW d \in Nat, c < d
      PROVE  c * w \in Nat /\ d * w \in Nat /\ c * w + w <= d * w
  <2>1. (d - (c + 1)) * w \in Nat
    BY <1>1
  <2>2. d * w = c * w + w + (d - (c + 1)) * w
    BY <1>1
  <2>3. c * w \in Nat /\ d * w \in Nat
    BY <1>1
  <2> QED
    BY <1>1, <2>1, <2>2, <2>3
<1>2. \A b \in Nat : b * w \in Nat
  OBVIOUS
<1> QED
  BY <1>1, <1>2

(* The j-th value of a row of values of a width, from an offset on.        *)
Row(bv, offset, width, j, v) ==
  \A x \in Mask(width) : BitAt(bv.words, offset + j * width + x) <=> x \in bits_of(v)

(* The bits of bv and new from a to b are the same.                        *)
Alike(bv, new, a, b) == \A p \in a .. b - 1 : BitAt(new.words, p) <=> BitAt(bv.words, p)

(* A vector of bits, of which none is lost in another of its kind.         *)
Resembles(bv, new) ==
  /\ new \in [size : Nat, words : Seq(Word)] /\ BitVec(new)
  /\ new.size = bv.size /\ Len(new.words) = Len(bv.words)

(* A value that is written to a row lies there, the others still do, and   *)
(* nothing else changes.                                                   *)
LEMMA RowWritten ==
  ASSUME NEW bv \in [size : Nat, words : Seq(Word)], BitVec(bv),
         NEW offset \in Nat, NEW width \in 0 .. word_width, NEW m \in Nat, NEW j \in 0 .. m - 1,
         NEW e, e = offset + m * width, e <= bv.size, NEW v \in Nat, v < power[width]
  PROVE  LET new == set_bits(bv, offset + j * width, bits_of(v), width)
         IN  /\ Resembles(bv, new)
             /\ Row(new, offset, width, j, v)
             /\ \A k \in 0 .. m - 1 : \A u :
                  k # j /\ Row(bv, offset, width, k, u) => Row(new, offset, width, k, u)
             /\ Alike(bv, new, 0, offset) /\ Alike(bv, new, e, bv.size)
<1> DEFINE pos == offset + j * width
           new == set_bits(bv, pos, bits_of(v), width)
<1>0. PICK top \in Nat : top = word_width * Len(bv.words) /\ bv.size <= top /\ bv.size \in Nat
  <2>1. word_width * Len(bv.words) \in Nat
    BY WordsAssumption
  <2> QED
    BY <2>1 DEF BitVec
<1>1. width \in Nat /\ j \in Nat /\ j < m
  BY WordsAssumption
<1>2. /\ j * width \in Nat /\ m * width \in Nat /\ j * width + width <= m * width
      /\ \A b \in Nat : /\ b * width \in Nat
                        /\ b < j => b * width + width <= j * width
                        /\ j < b => j * width + width <= b * width
  BY <1>1, RowPlaces
<1>3. pos \in Nat /\ pos + width <= e /\ e \in Nat /\ offset <= pos
  BY <1>1, <1>2
<1>4. bits_of(v) \in SUBSET Mask(width)
  BY BitsWithin
<1>5. /\ new \in [size : Nat, words : Seq(Word)] /\ new.size = bv.size
      /\ Len(new.words) = Len(bv.words)
      /\ \A p \in 0 .. top - 1 :
           BitAt(new.words, p) <=> IF p - pos \in Mask(width) THEN p - pos \in bits_of(v)
                                   ELSE BitAt(bv.words, p)
  <2>1. pos + width <= bv.size
    BY <1>0, <1>1, <1>3
  <2> QED
    BY <1>0, <1>3, <1>4, <2>1, BitsSet
<1>6. Resembles(bv, new)
  BY <1>0, <1>5 DEF Resembles, BitVec
<1> DEFINE At(k) == offset + k * width
<1>7. ASSUME NEW k \in 0 .. m - 1, NEW x \in Mask(width)
      PROVE  /\ At(k) + x \in 0 .. top - 1
             /\ (At(k) + x) - pos \in Mask(width) <=> k = j
             /\ (At(j) + x) - pos = x
  <2>1. x \in 0 .. width - 1 /\ k \in Nat /\ k < m /\ m * width \in Nat
    BY <1>1, <1>2 DEF Mask
  <2>2. k * width \in Nat /\ k * width + width <= m * width
    BY <1>1, <2>1, RowPlaces
  <2>3. At(k) + x \in 0 .. top - 1
    BY <1>0, <1>3, <2>1, <2>2, SMTT(30)
  <2>4. CASE k < j
    <3>1. k * width + width <= j * width
      BY <1>2, <2>1, <2>4
    <3> QED
      BY <1>1, <1>2, <2>1, <2>2, <2>3, <2>4, <3>1 DEF Mask
  <2>5. CASE j < k
    <3>1. j * width + width <= k * width
      BY <1>2, <2>1, <2>5
    <3> QED
      BY <1>1, <1>2, <2>1, <2>2, <2>3, <2>5, <3>1 DEF Mask
  <2>6. CASE j = k
    BY <1>1, <1>2, <2>1, <2>3, <2>6 DEF Mask
  <2> QED
    BY <1>1, <2>1, <2>4, <2>5, <2>6
<1> HIDE DEF new
<1>8. Row(new, offset, width, j, v)
  <2> SUFFICES ASSUME NEW x \in Mask(width)
               PROVE  BitAt(new.words, At(j) + x) <=> x \in bits_of(v)
    BY DEF Row
  <2>1. /\ At(j) + x \in 0 .. top - 1 /\ (At(j) + x) - pos \in Mask(width)
        /\ (At(j) + x) - pos = x
    BY <1>7
  <2> HIDE DEF At, pos
  <2> QED
    BY <1>5, <2>1
<1>9. ASSUME NEW k \in 0 .. m - 1, NEW u, k # j, Row(bv, offset, width, k, u)
      PROVE  Row(new, offset, width, k, u)
  <2> SUFFICES ASSUME NEW x \in Mask(width)
               PROVE  BitAt(new.words, At(k) + x) <=> x \in bits_of(u)
    BY DEF Row
  <2>1. At(k) + x \in 0 .. top - 1 /\ (At(k) + x) - pos \notin Mask(width)
    BY <1>7, <1>9
  <2>2. BitAt(bv.words, At(k) + x) <=> x \in bits_of(u)
    BY <1>9 DEF Row
  <2> HIDE DEF At, pos
  <2> QED
    BY <1>5, <2>1, <2>2
<1> HIDE DEF pos
<1>10. Alike(bv, new, 0, offset)
  <2> SUFFICES ASSUME NEW p \in 0 .. offset - 1
               PROVE  BitAt(new.words, p) <=> BitAt(bv.words, p)
    BY DEF Alike
  <2>1. p \in 0 .. top - 1 /\ p - pos \notin Mask(width)
    BY <1>0, <1>1, <1>3 DEF Mask
  <2> QED
    BY <1>5, <2>1
<1>11. Alike(bv, new, e, bv.size)
  <2> SUFFICES ASSUME NEW p \in e .. bv.size - 1
               PROVE  BitAt(new.words, p) <=> BitAt(bv.words, p)
    BY DEF Alike
  <2>1. p \in 0 .. top - 1 /\ p - pos \notin Mask(width)
    BY <1>0, <1>1, <1>3 DEF Mask
  <2> QED
    BY <1>5, <2>1
<1> QED
  BY <1>6, <1>8, <1>9, <1>10, <1>11 DEF new, pos

(* It is read by a read of a word at a byte, if that gets enough bits.     *)
LEMMA RowRead ==
  ASSUME NEW bv, BitVec(bv), NEW offset \in Nat, NEW width \in Nat,
         width <= word_width - byte_width + 1, NEW j \in Nat,
         NEW pos, pos = offset + j * width, pos + width <= bv.size,
         NEW v \in Nat, v < power[width], Row(bv, offset, width, j, v)
  PROVE  number(get_word56(bv, pos) \cap Mask(width)) = v
<1>0. /\ word_width \in Nat \ {0} /\ byte_width \in Nat \ {0} /\ bv.words \in Seq(Word)
      /\ bv.size <= word_width * Len(bv.words) /\ bv.size \in Nat
  BY WordsAssumption DEF BitVec
<1>1. width \in 0 .. word_width
  BY <1>0
<1>2. bits_of(v) \subseteq Mask(width)
  BY <1>1, BitsWithin
<1>3. v < power[word_width]
  <2>1. power[width] <= power[word_width] /\ power[width] \in Nat /\ power[word_width] \in Nat
    <3>1. width <= word_width /\ word_width \in Nat
      BY <1>0, <1>1
    <3> QED
      BY <3>1, Powers, PowersOrdered
  <2> QED
    BY <2>1
<1>4. get_word56(bv, pos) \cap Mask(width) = bits_of(v)
  <2>1. CASE width = 0
    BY <1>2, <2>1 DEF Mask
  <2>2. CASE width # 0
    <3>1. PICK words \in Seq(Word) : words = bv.words
      BY <1>0
    <3>2. PICK mask \in SUBSET (0 .. width - 1) : mask = Mask(width)
      BY DEF Mask
    <3>3. width \in 1 .. word_width
      BY <1>0, <1>1, <2>2
    <3>4. pos \in Nat /\ pos + width <= word_width * Len(words)
      <4>1. PICK top \in Nat : top = word_width * Len(words)
        BY <1>0, <3>1
      <4>2. j * width \in Nat
        OBVIOUS
      <4> QED
        BY <1>0, <3>1, <4>1, <4>2
    <3>5. unaligned_word(words, pos) \cap mask = {x \in mask : BitAt(words, pos + x)}
      BY <3>3, <3>4, BitsReadUnaligned
    <3>6. \A x \in mask : BitAt(words, pos + x) <=> x \in bits_of(v)
      BY <3>1, <3>2 DEF Row
    <3> QED
      BY <1>2, <3>1, <3>2, <3>5, <3>6 DEF get_word56
  <2> QED
    BY <2>1, <2>2
<1> QED
  BY <1>3, <1>4, NumberOfBits

(* Where its buffer has the rest of a word, a unary iterator skips to the  *)
(* one that has k others before it.                                        *)
LEMMA SkipFinds ==
  ASSUME NEW bv, BitVec(bv), NEW base \in Nat, NEW shift \in 0 .. word_width,
         NEW start, start = word_width * base + shift,
         NEW e, e.position \div word_width = base, e.buf = WordAt(bv.words, base) \ Mask(shift),
         NEW k \in Nat, NEW t \in Places(bv), start <= t,
         CountTo(Places(bv), t) = CountTo(Places(bv), start) + k
  PROVE  skip(bv, e, k) = unary_iterator(bv, t)
<1> DEFINE S == From("ones", bv.words, start)
           q == t \div word_width
           r == t % word_width
           rest == IF q = base THEN e.buf ELSE WordAt(bv.words, q)
<1>0. /\ word_width \in Nat \ {0} /\ bv.words \in Seq(Word) /\ bv.size \in Nat
      /\ bv.size <= word_width * Len(bv.words) /\ word_width * Len(bv.words) \in Nat
  <2>1. /\ word_width \in Nat \ {0} /\ bv.words \in Seq(Word) /\ bv.size \in Nat
        /\ bv.size <= word_width * Len(bv.words)
    BY WordsAssumption DEF BitVec
  <2> QED
    BY <2>1
<1>1. t \in Nat /\ t < bv.size /\ start \in Nat /\ t < word_width * Len(bv.words)
  <2>1. t \in 0 .. bv.size - 1
    BY DEF Places
  <2>2. PICK a \in Nat : a = word_width * base
    BY <1>0
  <2>3. shift \in Nat /\ start = a + shift
    BY <1>0, <2>2
  <2> QED
    BY <1>0, <2>1, <2>3
<1>2. CountTo(S, t) = k /\ t \in S
  <2>1. CountTo(S, t) = CountTo(Places(bv), t) - CountTo(Places(bv), start) /\ t \in S
    BY <1>1, FromCounts
  <2>2. CountTo(Places(bv), t) \in Nat /\ CountTo(Places(bv), start) \in Nat
    BY <1>1, CountSteps
  <2> QED
    BY <2>1, <2>2
<1>3. Spells("ones", bv.words, base, e.buf, S)
  <2>1. Spells("ones", bv.words, base, BitsOf("ones", bv.words, base) \ Mask(shift), S)
    BY <1>0, FromRest
  <2>2. BitsOf("ones", bv.words, base) = WordAt(bv.words, base)
    BY DEF BitsOf
  <2> QED
    BY <2>1, <2>2
<1> HIDE DEF S
<1>4. kth_bit(bv.words, FALSE, base, e.buf, k) = [buf |-> rest, bit |-> r, word |-> q]
  <2>1. PICK words \in Seq(Word) : words = bv.words
    BY <1>0
  <2>2. PICK buf : buf = e.buf
    OBVIOUS
  <2>3. Spells("ones", words, base, buf, S) /\ t < word_width * Len(words) /\ t \in S
    BY <1>1, <1>2, <1>3, <2>1, <2>2
  <2>4. kth(words, "ones", base, buf, CountTo(S, t)) =
          [buf |-> IF t \div word_width = base THEN buf
                   ELSE BitsOf("ones", words, t \div word_width),
           bit |-> t % word_width, word |-> t \div word_width]
    BY ONLY <2>3, base \in Nat, words \in Seq(Word), KthBit
  <2>5. BitsOf("ones", words, t \div word_width) = WordAt(words, t \div word_width)
    BY DEF BitsOf
  <2>6. kth_bit(words, FALSE, base, buf, k) =
          [buf |-> IF t \div word_width = base THEN buf ELSE WordAt(words, t \div word_width),
           bit |-> t % word_width, word |-> t \div word_width]
    BY <1>2, <2>4, <2>5 DEF kth
  <2> QED
    BY <2>1, <2>2, <2>6 DEF rest, q, r
<1>5. q \in Nat /\ r \in 0 .. word_width - 1 /\ t = word_width * q + r
  BY <1>1, BitPlace
<1>6. unary_iterator(bv, t) = [position |-> t, buf |-> WordAt(bv.words, q) \ Mask(r)]
  BY DEF unary_iterator
<1> HIDE DEF q, r, rest
<1>7. q * word_width + r = t
  BY <1>0, <1>5
<1>8. skip(bv, e, k) = [position |-> t, buf |-> rest \ Mask(r)]
  <2> DEFINE found == kth_bit(bv.words, FALSE, base, e.buf, k)
  <2>1. found = [buf |-> rest, bit |-> r, word |-> q]
    BY <1>4
  <2> HIDE DEF found
  <2>2. found.buf = rest /\ found.bit = r /\ found.word = q
    BY <2>1
  <2>3. skip(bv, e, k) = [position |-> found.word * word_width + found.bit,
                          buf |-> found.buf \ Mask(found.bit)]
    BY DEF skip, found
  <2> QED
    BY <1>7, <2>2, <2>3
<1>9. rest \ Mask(r) = WordAt(bv.words, q) \ Mask(r)
  <2>1. CASE q # base
    BY <2>1 DEF rest
  <2>2. CASE q = base
    <3>1. shift <= r
      <4>1. PICK a \in Nat : a = word_width * base
        BY <1>0
      <4> QED
        BY <1>0, <1>5, <2>2, <4>1
    <3>2. Mask(shift) \subseteq Mask(r)
      BY <1>0, <1>5, <3>1 DEF Mask
    <3>3. rest = WordAt(bv.words, q) \ Mask(shift)
      BY <2>2 DEF rest
    <3> QED
      BY <3>2, <3>3
  <2> QED
    BY <2>1, <2>2
<1> QED
  BY <1>6, <1>8, <1>9

(* It goes on to the next one.                                             *)
LEMMA NextOneFound ==
  ASSUME NEW bv, BitVec(bv), NEW base \in Nat, NEW shift \in 0 .. word_width,
         NEW start, start = word_width * base + shift,
         NEW e, e.position \div word_width = base, e.buf = WordAt(bv.words, base) \ Mask(shift),
         NEW t \in Places(bv), start <= t, CountTo(Places(bv), t) = CountTo(Places(bv), start)
  PROVE  next_one(bv, e) = Passed(bv, t)
<1>1. skip(bv, e, 0) = unary_iterator(bv, t)
  <2>1. start \in Nat
    <3>1. word_width * base \in Nat /\ shift \in Nat
      BY WordsAssumption
    <3> QED
      BY <3>1
  <2>2. CountTo(Places(bv), start) \in Nat
    BY <2>1, CountSteps
  <2>3. CountTo(Places(bv), t) = CountTo(Places(bv), start) + 0
    BY <2>2
  <2> QED
    BY <2>3, SkipFinds
<1> DEFINE w == WordAt(bv.words, t \div word_width)
           r == t % word_width
<1>2. t \in Nat
  BY DEF Places, BitVec
<1>3. r \in Nat
  BY <1>2, BitPlace
<1>4. unary_iterator(bv, t) = [position |-> t, buf |-> w \ Mask(r)]
  BY DEF unary_iterator
<1>5. Passed(bv, t) = [position |-> t, buf |-> w \ Mask(r + 1)]
  BY DEF Passed
<1> HIDE DEF w, r
<1>7. (w \ Mask(r)) \ {r} = w \ Mask(r + 1)
  BY <1>3 DEF Mask
<1>8. PICK P : P = {t}
  OBVIOUS
<1>9. PICK T : T = {w \ Mask(r), w \ Mask(r + 1)}
  OBVIOUS
<1>10. PICK y \in [position : P, buf : T] : y = [position |-> t, buf |-> w \ Mask(r)]
  BY <1>8, <1>9
<1>11. PICK new \in T : new = w \ Mask(r + 1)
  BY <1>9
<1>12. [y EXCEPT !.buf = new] = [position |-> y.position, buf |-> new]
  BY ONLY y \in [position : P, buf : T], new \in T
<1>13. y.position = t /\ y.buf = w \ Mask(r)
  BY <1>10
<1>14. next_one(bv, e) = [y EXCEPT !.buf = y.buf \ {r}]
  <2>1. next_one(bv, e) = [y EXCEPT !.buf = y.buf \ {y.position % word_width}]
    BY <1>1, <1>4, <1>10 DEF next_one
  <2> QED
    BY <1>13, <2>1 DEF r
<1>15. next_one(bv, e) = [y EXCEPT !.buf = new]
  BY <1>7, <1>11, <1>13, <1>14
<1> QED
  BY <1>5, <1>11, <1>12, <1>13, <1>15

(* From the place of a one it gives that one, and then one after the other.*)
LEMMA OnesGivenInTurn ==
  ASSUME NEW bv, BitVec(bv), NEW k \in 0 .. Cardinality(Places(bv)) - 1
  PROVE  /\ next_one(bv, unary_iterator(bv, One(bv, k))) = Passed(bv, One(bv, k))
         /\ k + 1 < Cardinality(Places(bv)) =>
              next_one(bv, Passed(bv, One(bv, k))) = Passed(bv, One(bv, k + 1))
<1> DEFINE p == One(bv, k)
           m == Cardinality(Places(bv))
<1>0. word_width \in Nat \ {0} /\ m \in Nat /\ k \in Nat
  BY WordsAssumption, OnesInOrder
<1>1. /\ \A j \in 0 .. m - 1 : One(bv, j) \in Places(bv) /\ One(bv, j) \in Nat
                                /\ CountTo(Places(bv), One(bv, j)) = j
      /\ \A i, j \in 0 .. m - 1 : i <= j => One(bv, i) <= One(bv, j)
  BY OnesInOrder
<1>2. p \in Places(bv) /\ p \in Nat /\ CountTo(Places(bv), p) = k
  BY <1>1
<1> HIDE DEF p
<1>3. PICK q \in Nat, r \in 0 .. word_width - 1 :
        q = p \div word_width /\ r = p % word_width /\ p = word_width * q + r
  BY <1>2, BitPlace
<1>4. r \in 0 .. word_width /\ r + 1 \in 0 .. word_width /\ r \in Nat
  BY <1>0, <1>3
<1>5. next_one(bv, unary_iterator(bv, p)) = Passed(bv, p)
  <2> DEFINE e == unary_iterator(bv, p)
  <2>1. e.position \div word_width = q /\ e.buf = WordAt(bv.words, q) \ Mask(r)
    BY <1>3 DEF unary_iterator
  <2> HIDE DEF e
  <2>2. p <= p
    BY <1>2
  <2>3. next_one(bv, e) = Passed(bv, p)
    BY <1>2, <1>3, <1>4, <2>1, <2>2, NextOneFound
  <2> QED
    BY <2>3 DEF e
<1>6. ASSUME k + 1 < m PROVE next_one(bv, Passed(bv, p)) = Passed(bv, One(bv, k + 1))
  <2> DEFINE e == Passed(bv, p)
             t == One(bv, k + 1)
  <2>1. e.position \div word_width = q /\ e.buf = WordAt(bv.words, q) \ Mask(r + 1)
    BY <1>3 DEF Passed
  <2>2. p + 1 = word_width * q + (r + 1)
    <3>1. PICK a \in Nat : a = word_width * q
      BY <1>0, <1>3
    <3> QED
      BY <1>3, <1>4, <3>1
  <2>3. /\ t \in Places(bv) /\ t \in Nat /\ CountTo(Places(bv), t) = k + 1 /\ p <= t
    <3>1. k \in 0 .. m - 1 /\ k + 1 \in 0 .. m - 1 /\ k <= k + 1
      BY <1>0, <1>6
    <3> QED
      BY <1>1, <3>1 DEF p
  <2>4. p + 1 <= t
    BY <1>0, <1>2, <2>3
  <2>5. CountTo(Places(bv), p + 1) = k + 1
    BY <1>2, CountSteps
  <2> HIDE DEF e, t
  <2>6. next_one(bv, e) = Passed(bv, t)
    BY <1>3, <1>4, <2>1, <2>2, <2>3, <2>4, <2>5, NextOneFound
  <2> QED
    BY <2>6 DEF e, t
<1> QED
  BY <1>5, <1>6 DEF p, m

(* Where there are no members the count stays.                             *)
LEMMA NoneCounted ==
  ASSUME NEW S, NEW p \in Nat, NEW q \in Nat, p <= q, \A x \in p .. q - 1 : x \notin S
  PROVE  CountTo(S, q) = CountTo(S, p)
<1>1. S \cap Mask(q) = S \cap Mask(p)
  <2>1. \A x \in Mask(q) : x \in Mask(p) \/ x \in p .. q - 1
    BY DEF Mask
  <2>2. \A x \in Mask(p) : x \in Mask(q)
    BY DEF Mask
  <2> QED
    BY <2>1, <2>2
<1> QED
  BY <1>1 DEF CountTo

(* The zeros from a place on are as many as the places from there that are *)
(* not ones.                                                               *)
LEMMA ZerosCounted ==
  ASSUME NEW bv, BitVec(bv), NEW start \in Nat, NEW p \in Nat, start <= p, p < bv.size
  PROVE  /\ CountTo(From("zeros", bv.words, start), p)
              = (p - start) - (CountTo(Places(bv), p) - CountTo(Places(bv), start))
         /\ p \in From("zeros", bv.words, start) <=> p \notin Places(bv)
<1> DEFINE S == From("ones", bv.words, start)
           Z == From("zeros", bv.words, start)
<1>1. \A x \in Nat : x >= start => (x \in Z <=> x \notin S)
  <2> TAKE x \in Nat
  <2>1. x % word_width \in Bits
    BY BitPlace DEF Bits
  <2>2. x % word_width \in Not(WordAt(bv.words, x \div word_width)) <=>
          x % word_width \notin WordAt(bv.words, x \div word_width)
    BY <2>1 DEF Not
  <2> QED
    BY <2>2 DEF From, BitsOf
<1>2. \A x \in S \cup Z : x \in Nat /\ x >= start
  BY DEF From
<1>3. /\ CountTo(S, p) = CountTo(Places(bv), p) - CountTo(Places(bv), start)
      /\ p \in S <=> p \in Places(bv)
  BY FromCounts
<1> HIDE DEF S, Z
<1>4. Z \cap Mask(p) = (start .. p - 1) \ (S \cap Mask(p))
  BY <1>1, <1>2 DEF Mask
<1>5. IsFiniteSet(start .. p - 1) /\ Cardinality(start .. p - 1) = p - start
  <2>1. /\ IsFiniteSet(start .. p - 1)
        /\ Cardinality(start .. p - 1) = IF start > p - 1 THEN 0 ELSE (p - 1) - start + 1
    BY FS_Interval
  <2> QED
    BY <2>1
<1>6. (start .. p - 1) \cap (S \cap Mask(p)) = S \cap Mask(p)
  BY <1>2 DEF Mask
<1>7. Cardinality((start .. p - 1) \ (S \cap Mask(p)))
        = Cardinality(start .. p - 1) - Cardinality((start .. p - 1) \cap (S \cap Mask(p)))
  BY <1>5, FS_Difference
<1>8. CountTo(Z, p) = (p - start) - CountTo(S, p)
  BY <1>4, <1>5, <1>6, <1>7 DEF CountTo
<1> QED
  BY <1>1, <1>3, <1>8 DEF Z

(* One place more before what is spelt.                                    *)
LEMMA OneMoreSpelt ==
  ASSUME NEW kind, NEW words, NEW base \in Nat, NEW shift \in Bits, NEW buf, NEW S,
         Spells(kind, words, base, buf, S), NEW start, start = word_width * base + shift
  PROVE  Spells(kind, words, base, buf \cup {shift}, S \cup {start})
<1>0. /\ word_width \in Nat \ {0} /\ shift \in Nat /\ shift < word_width
      /\ start \in Nat /\ word_width * base \in Nat
  <2>1. word_width \in Nat \ {0} /\ shift \in Nat /\ shift < word_width
    BY WordsAssumption DEF Bits
  <2>2. word_width * base \in Nat
    BY <2>1
  <2> QED
    BY <2>1, <2>2
<1>1. \A q \in Nat, r \in Bits : word_width * q + r = start <=> q = base /\ r = shift
  <2> TAKE q \in Nat, r \in Bits
  <2>1. shift \in 0 .. word_width - 1 /\ r \in 0 .. word_width - 1
    BY DEF Bits
  <2>2. /\ (word_width * q + r) \div word_width = q /\ (word_width * q + r) % word_width = r
        /\ (word_width * base + shift) \div word_width = base
        /\ (word_width * base + shift) % word_width = shift
    BY <2>1, PlaceKnown
  <2> QED
    BY <2>2
<1>2. /\ S \in SUBSET Nat /\ \A x \in S : x >= word_width * base
      /\ buf \in SUBSET Bits /\ \A r \in Bits : r \in buf <=> word_width * base + r \in S
      /\ \A q \in Nat : q > base => \A r \in Bits : r \in BitsOf(kind, words, q) <=> word_width * q + r \in S
  BY DEF Spells
<1>3. S \cup {start} \in SUBSET Nat /\ \A x \in S \cup {start} : x >= word_width * base
  BY <1>0, <1>2
<1>4. buf \cup {shift} \in SUBSET Bits
      /\ \A r \in Bits : r \in buf \cup {shift} <=> word_width * base + r \in S \cup {start}
  BY <1>1, <1>2
<1>5. \A q \in Nat : q > base => \A r \in Bits :
        r \in BitsOf(kind, words, q) <=> word_width * q + r \in S \cup {start}
  BY <1>1, <1>2
<1> QED
  BY <1>3, <1>4, <1>5 DEF Spells

(* The zeros from place s of word base on are S, t is one of them, and the *)
(* buffer of e has that word from shift on, which may be one place further.*)
ZeroSought(bv, base, s, e, shift, S, t) ==
  /\ BitVec(bv) /\ base \in Nat /\ s \in Bits /\ shift \in {s, s + 1}
  /\ e.position \div word_width = base /\ e.position % word_width = s
  /\ e.buf = WordAt(bv.words, base) \ Mask(shift)
  /\ Spells("zeros", bv.words, base, Not(e.buf) \ Mask(s), S)
  /\ t \in S /\ word_width * base + shift <= t /\ t < bv.size

(* Then the iterator skips to that zero.                                   *)
LEMMA SkipFindsZero ==
  ASSUME NEW bv, NEW base, NEW s, NEW e, NEW shift, NEW S, NEW t,
         ZeroSought(bv, base, s, e, shift, S, t)
  PROVE  skip0(bv, e, CountTo(S, t)) = unary_iterator(bv, t)
<1> DEFINE k == CountTo(S, t)
           buf == Not(e.buf) \ Mask(s)
           start == word_width * base + shift
<1> USE DEF ZeroSought
<1> DEFINE q == t \div word_width
           r == t % word_width
           rest == IF q = base THEN buf ELSE BitsOf("zeros", bv.words, q)
<1>0. /\ word_width \in Nat \ {0} /\ bv.words \in Seq(Word) /\ bv.size \in Nat
      /\ bv.size <= word_width * Len(bv.words) /\ word_width * Len(bv.words) \in Nat
      /\ s \in 0 .. word_width - 1
  <2>1. /\ word_width \in Nat \ {0} /\ bv.words \in Seq(Word) /\ bv.size \in Nat
        /\ bv.size <= word_width * Len(bv.words)
    BY WordsAssumption DEF BitVec
  <2> QED
    BY <2>1 DEF Bits
<1>1. t \in Nat /\ t < word_width * Len(bv.words) /\ t >= word_width * base
  <2>1. t \in Nat /\ t >= word_width * base
    BY DEF Spells
  <2> QED
    BY <1>0, <2>1
<1>2. kth_bit(bv.words, TRUE, base, buf, k) = [buf |-> rest, bit |-> r, word |-> q]
  <2>1. PICK words \in Seq(Word) : words = bv.words
    BY <1>0
  <2>2. PICK b : b = buf
    OBVIOUS
  <2>3. Spells("zeros", words, base, b, S) /\ t < word_width * Len(words) /\ t \in S
    BY <1>1, <2>1, <2>2
  <2>4. kth(words, "zeros", base, b, CountTo(S, t)) =
          [buf |-> IF t \div word_width = base THEN b ELSE BitsOf("zeros", words, t \div word_width),
           bit |-> t % word_width, word |-> t \div word_width]
    BY ONLY <2>3, base \in Nat, words \in Seq(Word), KthBit
  <2>5. kth_bit(words, TRUE, base, b, k) =
          [buf |-> IF t \div word_width = base THEN b ELSE BitsOf("zeros", words, t \div word_width),
           bit |-> t % word_width, word |-> t \div word_width]
    BY <2>4 DEF kth
  <2> QED
    BY <2>1, <2>2, <2>5 DEF rest, q, r
<1>3. q \in Nat /\ r \in 0 .. word_width - 1 /\ t = word_width * q + r
  BY <1>1, BitPlace
<1>4. e.position \div word_width = base /\ e.position % word_width = s
  OBVIOUS
<1>5. unary_iterator(bv, t) = [position |-> t, buf |-> WordAt(bv.words, q) \ Mask(r)]
  BY DEF unary_iterator
<1> HIDE DEF q, r, rest
<1>6. q * word_width + r = t
  BY <1>0, <1>3
<1>7. skip0(bv, e, k) = [position |-> t, buf |-> Not(rest) \ Mask(r)]
  <2> DEFINE found == kth_bit(bv.words, TRUE, base, buf, k)
  <2>1. found = [buf |-> rest, bit |-> r, word |-> q]
    BY <1>2
  <2>2. skip0(bv, e, k) = [position |-> found.word * word_width + found.bit,
                           buf |-> Not(found.buf) \ Mask(found.bit)]
    BY <1>4 DEF skip0
  <2> HIDE DEF found
  <2>3. found.buf = rest /\ found.bit = r /\ found.word = q
    BY <2>1
  <2> QED
    BY <1>6, <2>2, <2>3
<1>8. WordAt(bv.words, q) \in SUBSET Bits
  <2>1. \A i \in DOMAIN bv.words : bv.words[i] \in SUBSET Bits
    BY <1>0 DEF Word
  <2> QED
    BY <2>1 DEF WordAt
<1>9. Not(rest) \ Mask(r) = WordAt(bv.words, q) \ Mask(r)
  <2>1. CASE q # base
    BY <1>8, <2>1 DEF rest, BitsOf, Not
  <2>2. CASE q = base
    <3>1. PICK a \in Nat : a = word_width * base
      BY <1>0
    <3>2. rest = Not(e.buf) \ Mask(s)
      BY <2>2 DEF rest
    <3>3. shift \in Nat /\ s <= shift /\ shift <= r
      BY <1>0, <1>3, <2>2, <3>1
    <3>4. Mask(s) \subseteq Mask(r) /\ Mask(shift) \subseteq Mask(r)
      BY <1>0, <1>3, <3>3 DEF Mask
    <3> QED
      BY <1>8, <2>2, <3>2, <3>4 DEF Not
  <2> QED
    BY <2>1, <2>2
<1> QED
  BY <1>5, <1>7, <1>9

(* From a place to the zero t,                                             *)
LEMMA ZeroFromPlace ==
  ASSUME NEW bv, BitVec(bv), NEW start \in Nat, NEW t \in Nat, start <= t, t < bv.size,
         t \notin Places(bv),
         NEW k, k = (t - start) - (CountTo(Places(bv), t) - CountTo(Places(bv), start))
  PROVE  skip0(bv, unary_iterator(bv, start), k) = unary_iterator(bv, t)
<1> DEFINE Z == From("zeros", bv.words, start)
           e == unary_iterator(bv, start)
<1>1. PICK base \in Nat, s \in Bits :
        base = start \div word_width /\ s = start % word_width /\ start = word_width * base + s
  BY BitPlace DEF Bits
<1>2. bv.words \in Seq(Word) /\ word_width \in Nat \ {0} /\ s \in 0 .. word_width
      /\ s \in 0 .. word_width - 1
  BY WordsAssumption DEF Bits, BitVec
<1>3. CountTo(Z, t) = k /\ t \in Z
  BY ZerosCounted
<1>4. k \in Nat
  <2>1. PICK z : z = Z
    OBVIOUS
  <2>2. CountTo(z, t) \in Nat
    BY CountSteps
  <2> QED
    BY <1>3, <2>1, <2>2
<1>5. e.position = start /\ e.buf = WordAt(bv.words, base) \ Mask(s)
  BY <1>1 DEF unary_iterator
<1> HIDE DEF e, Z
<1>6. Spells("zeros", bv.words, base, BitsOf("zeros", bv.words, base) \ Mask(s), Z)
  BY <1>1, <1>2, FromRest DEF Z
<1>7. Not(e.buf) \ Mask(s) = BitsOf("zeros", bv.words, base) \ Mask(s)
  BY <1>5 DEF BitsOf, Not
<1>8. ZeroSought(bv, base, s, e, s, Z, t)
  BY <1>1, <1>3, <1>5, <1>6, <1>7 DEF ZeroSought
<1>9. skip0(bv, e, k) = unary_iterator(bv, t)
  BY <1>3, <1>8, SkipFindsZero
<1> QED
  BY <1>9 DEF e

(* and from a one that has been consumed and counts as a zero.             *)
LEMMA ZeroFromOne ==
  ASSUME NEW bv, BitVec(bv), NEW start \in Places(bv), NEW t \in Nat, start < t, t < bv.size,
         t \notin Places(bv),
         NEW k, k = (t - start) - (CountTo(Places(bv), t) - CountTo(Places(bv), start)) + 1
  PROVE  skip0(bv, Passed(bv, start), k) = unary_iterator(bv, t)
<1> DEFINE Z == From("zeros", bv.words, start + 1)
           S == Z \cup {start}
           e == Passed(bv, start)
<1>0. start \in Nat
  BY DEF Places, BitVec
<1>1. PICK base \in Nat, s \in Bits :
        base = start \div word_width /\ s = start % word_width /\ start = word_width * base + s
  BY <1>0, BitPlace DEF Bits
<1>2. bv.words \in Seq(Word) /\ word_width \in Nat \ {0} /\ s \in Nat /\ s + 1 \in 0 .. word_width
  BY WordsAssumption DEF Bits, BitVec
<1>3. start + 1 = word_width * base + (s + 1)
  <2>1. PICK a \in Nat : a = word_width * base
    BY <1>2
  <2> QED
    BY <1>1, <1>2, <2>1
<1>4. /\ CountTo(Z, t) = (t - (start + 1)) - (CountTo(Places(bv), t) - CountTo(Places(bv), start + 1))
      /\ t \in Z
  BY <1>0, ZerosCounted
<1>5. CountTo(Places(bv), start + 1) = CountTo(Places(bv), start) + 1
      /\ CountTo(Places(bv), start) \in Nat /\ CountTo(Places(bv), t) \in Nat
  BY <1>0, CountSteps
<1>6. CountTo(S, t) = CountTo(Z, t) + 1 /\ CountTo(Z, t) \in Nat
  <2>1. start \notin Z
    BY <1>0 DEF From
  <2>2. IsFiniteSet(Z \cap Mask(t)) /\ CountTo(Z, t) \in Nat
    BY CountSteps
  <2>3. S \cap Mask(t) = (Z \cap Mask(t)) \cup {start}
    BY <1>0 DEF Mask
  <2> HIDE DEF Z
  <2>4. Cardinality((Z \cap Mask(t)) \cup {start}) = Cardinality(Z \cap Mask(t)) + 1
    BY <2>1, <2>2, FS_AddElement
  <2> QED
    BY <2>2, <2>3, <2>4 DEF CountTo
<1>7. k = CountTo(S, t) /\ k \in Nat
  BY <1>0, <1>4, <1>5, <1>6
<1>8. e.position = start /\ e.buf = WordAt(bv.words, base) \ Mask(s + 1)
  BY <1>1 DEF Passed
<1> HIDE DEF e, Z
<1>9. Spells("zeros", bv.words, base, BitsOf("zeros", bv.words, base) \ Mask(s + 1), Z)
  BY <1>2, <1>3, FromRest DEF Z
<1>10. Spells("zeros", bv.words, base, (BitsOf("zeros", bv.words, base) \ Mask(s + 1)) \cup {s}, S)
  BY <1>1, <1>9, OneMoreSpelt
<1>11. Not(e.buf) \ Mask(s) = (BitsOf("zeros", bv.words, base) \ Mask(s + 1)) \cup {s}
  <2>1. Mask(s + 1) = Mask(s) \cup {s} /\ s \notin Mask(s)
    BY <1>2 DEF Mask
  <2> QED
    BY <1>8, <2>1 DEF BitsOf, Not
<1>12. t \in S
  BY <1>4
<1> HIDE DEF S
<1>13. start + 1 <= t
  BY <1>0
<1>14. ZeroSought(bv, base, s, e, s + 1, S, t)
  BY <1>1, <1>3, <1>8, <1>10, <1>11, <1>12, <1>13 DEF ZeroSought
<1>15. skip0(bv, e, k) = unary_iterator(bv, t)
  BY <1>7, <1>14, SkipFindsZero
<1> QED
  BY <1>15 DEF e

(* The one before a place, where there is none in between.                 *)
LEMMA PredecessorFound ==
  ASSUME NEW bv, BitVec(bv), NEW pos \in 0 .. bv.size - 1, NEW t \in Places(bv), t <= pos,
         \A x \in t + 1 .. pos : x \notin Places(bv)
  PROVE  predecessor1(bv, pos) = t
<1> DEFINE block == pos \div word_width
           word(k) == IF k = block THEN bv.words[k + 1] \cap Mask((pos % word_width) + 1)
                      ELSE bv.words[k + 1]
           Fits(k) == word(k) # {} /\ \A j \in k + 1 .. block : word(j) = {}
           found == CHOOSE k \in 0 .. block : Fits(k)
           q == t \div word_width
           r == t % word_width
<1>0. /\ word_width \in Nat \ {0} /\ bv.words \in Seq(Word) /\ bv.size \in Nat
      /\ bv.size <= word_width * Len(bv.words) /\ Len(bv.words) \in Nat
      /\ pos \in Nat /\ pos < bv.size /\ t \in Nat
  BY WordsAssumption DEF BitVec, Places
<1>1. /\ block \in Nat /\ pos % word_width \in 0 .. word_width - 1
      /\ pos = word_width * block + (pos % word_width)
  BY <1>0, BitPlace
<1>2. q \in Nat /\ r \in 0 .. word_width - 1 /\ t = word_width * q + r
  BY <1>0, BitPlace
<1>3. predecessor1(bv, pos) =
        found * word_width + (CHOOSE b \in word(found) : \A c \in word(found) : c <= b)
  BY DEF predecessor1
<1>4. block < Len(bv.words)
  <2>1. word_width * block < word_width * Len(bv.words)
    <3>1. PICK a \in Nat : a = word_width * block
      BY <1>0, <1>1
    <3>2. PICK c \in Nat : c = word_width * Len(bv.words)
      BY <1>0
    <3> QED
      BY <1>0, <1>1, <3>1, <3>2
  <2> QED
    BY <1>0, <1>1, <2>1, WordsOrdered
<1>5. PICK s \in 0 .. word_width - 1 : s = pos % word_width
  BY <1>1
<1> HIDE DEF block
(* A bit of a word that counts is a one up to pos.                         *)
<1>6. ASSUME NEW k \in 0 .. block, NEW b \in Nat
      PROVE  /\ b \in word(k) <=> b < word_width /\ word_width * k + b <= pos
                                  /\ word_width * k + b \in Places(bv)
             /\ word_width * k + b \in Nat
  <2>1. word_width * k \in Nat
    BY <1>0
  <2>2. bv.words[k + 1] \in SUBSET Bits
    <3>1. k + 1 \in 1 .. Len(bv.words)
      BY <1>0, <1>1, <1>4
    <3> QED
      BY <1>0, <3>1 DEF Word
  <2>3. CASE ~ b < word_width
    <3>1. b \notin Bits
      BY <1>0, <2>3 DEF Bits
    <3> QED
      BY <2>1, <2>2, <2>3, <3>1
  <2>4. CASE b < word_width
    <3>1. b \in 0 .. word_width - 1
      BY <1>0, <2>4
    <3>2. BitAt(bv.words, word_width * k + b) <=> b \in bv.words[k + 1]
      BY <3>1, PlaceKnown DEF BitAt
    <3>3. word_width * k + b <= pos => (word_width * k + b \in Places(bv) <=> b \in bv.words[k + 1])
      BY <1>0, <2>1, <3>2, SMTT(30) DEF Places
    <3>4. CASE k = block
      <4>1. b \in Mask(s + 1) <=> word_width * k + b <= pos
        BY <1>0, <1>1, <1>5, <2>1, <3>4 DEF Mask
      <4> QED
        BY <1>5, <2>1, <2>4, <3>3, <3>4, <4>1
    <3>5. CASE k # block
      <4>1. k + 1 \in Nat /\ k + 1 <= block
        BY <1>1, <3>5
      <4>2. word_width * (k + 1) <= word_width * block
            /\ word_width * (k + 1) = word_width * k + word_width /\ word_width * block \in Nat
        BY <1>1, <4>1, WordsOrdered
      <4>3. word_width * k + b <= pos
        BY <1>0, <1>1, <2>1, <2>4, <4>2, SMTT(30)
      <4> QED
        BY <2>1, <2>4, <3>3, <3>5, <4>3
    <3> QED
      BY <3>4, <3>5
  <2> QED
    BY <2>3, <2>4
<1>7. \A k \in 0 .. block : \A b \in word(k) : b \in Nat
  <2> TAKE k \in 0 .. block
  <2>1. bv.words[k + 1] \in SUBSET Bits
    <3>1. k + 1 \in 1 .. Len(bv.words)
      BY <1>0, <1>1, <1>4
    <3> QED
      BY <1>0, <3>1 DEF Word
  <2> QED
    BY <1>0, <2>1 DEF Bits
<1>8. q \in 0 .. block
  <2>1. PICK a \in Nat : a = word_width * q
    BY <1>0, <1>2
  <2>2. word_width * q < word_width * (block + 1)
    <3>1. word_width * (block + 1) = word_width * block + word_width /\ word_width * block \in Nat
      BY <1>1, WordsOrdered
    <3>2. PICK c \in Nat : c = word_width * block
      BY <3>1
    <3> QED
      BY <1>0, <1>1, <1>2, <2>1, <3>1, <3>2, SMTT(30)
  <2>3. block + 1 \in Nat
    BY <1>1
  <2>4. q < block + 1
    BY <1>2, <2>2, <2>3, WordsOrdered
  <2> QED
    BY <1>1, <1>2, <2>4
<1> HIDE DEF q, r, word
<1>9. r \in word(q) /\ \A c \in word(q) : c <= r
  <2>1. r \in Nat /\ r < word_width /\ t = word_width * q + r
    BY <1>0, <1>2
  <2>2. r \in word(q)
    BY <1>6, <1>8, <2>1
  <2>3. ASSUME NEW c \in word(q) PROVE c <= r
    <3>1. c \in Nat
      BY <1>7, <1>8
    <3>2. word_width * q + c <= pos /\ word_width * q + c \in Places(bv) /\ word_width * q + c \in Nat
      BY <1>6, <1>8, <2>3, <3>1
    <3>3. ~ (word_width * q + c > t)
      BY <1>0, <3>2
    <3>4. PICK a \in Nat : a = word_width * q
      BY <1>0, <1>2
    <3> QED
      BY <1>2, <2>1, <3>1, <3>3, <3>4
  <2> QED
    BY <2>2, <2>3
<1>10. ASSUME NEW j \in q + 1 .. block PROVE word(j) = {}
  <2>1. j \in 0 .. block /\ j \in Nat /\ q + 1 <= j
    BY <1>2
  <2> SUFFICES ASSUME NEW c \in word(j) PROVE FALSE
    OBVIOUS
  <2>2. c \in Nat
    BY <1>7, <2>1
  <2>3. word_width * j + c <= pos /\ word_width * j + c \in Places(bv) /\ word_width * j + c \in Nat
    BY <1>6, <2>1, <2>2
  <2>4. /\ word_width * (q + 1) <= word_width * j /\ word_width * (q + 1) = word_width * q + word_width
        /\ word_width * q \in Nat /\ word_width * j \in Nat
    BY <1>2, <2>1, WordsOrdered
  <2>5. word_width * j + c > t
    BY <1>0, <1>2, <2>2, <2>4
  <2> QED
    BY <1>0, <2>3, <2>5
<1>11. Fits(q)
  BY <1>9, <1>10
<1>12. \A k \in 0 .. block : Fits(k) => k = q
  <2> SUFFICES ASSUME NEW k \in 0 .. block, Fits(k), k # q PROVE FALSE
    OBVIOUS
  <2>1. CASE k < q
    <3>1. q \in k + 1 .. block
      BY <1>8, <2>1
    <3> QED
      BY <1>9, <3>1
  <2>2. CASE q < k
    <3>1. k \in q + 1 .. block
      BY <1>8, <2>2
    <3> QED
      BY <1>10, <3>1
  <2> QED
    BY <1>8, <2>1, <2>2
<1> HIDE DEF Fits
<1>13. found = q
  BY <1>8, <1>11, <1>12
<1>14. (CHOOSE b \in word(q) : \A c \in word(q) : c <= b) = r
  <2>1. \A b \in word(q) : (\A c \in word(q) : c <= b) => b = r
    <3> SUFFICES ASSUME NEW b \in word(q), \A c \in word(q) : c <= b PROVE b = r
      OBVIOUS
    <3>1. b \in Nat /\ r \in Nat /\ b <= r /\ r <= b
      BY <1>7, <1>8, <1>9
    <3> QED
      BY <3>1
  <2> QED
    BY <1>9, <2>1
<1> HIDE DEF found
<1>15. q * word_width = word_width * q /\ word_width * q \in Nat
  BY <1>0, <1>2
<1> QED
  BY <1>2, <1>3, <1>13, <1>14, <1>15

(* A bit vector of as many words as its size needs.                        *)
WordsFit(bv) ==
  bv \in [size : Nat, words : Seq(Word)] /\ Len(bv.words) = words_for(bv.size)

(* Its words take all its bits.                                            *)
LEMMA WordsFitKnown ==
  ASSUME NEW bv, WordsFit(bv)
  PROVE  /\ BitVec(bv) /\ bv \in [size : Nat, words : Seq(Word)] /\ bv.size \in Nat
         /\ word_width * Len(bv.words) \in Nat /\ bv.size <= word_width * Len(bv.words)
<1>1. word_width \in Nat \ {0} /\ bv.size \in Nat /\ bv.words \in Seq(Word) /\ Len(bv.words) \in Nat
  BY WordsAssumption DEF WordsFit
<1>2. bv.size <= word_width * ceil_div(bv.size, word_width)
  BY <1>1, CeilDiv
<1>3. bv.size <= word_width * Len(bv.words)
  BY <1>2 DEF WordsFit, words_for
<1> QED
  BY <1>1, <1>3 DEF WordsFit, BitVec

(* All its bits are zeros at first.                                        *)
LEMMA ZerosFit ==
  ASSUME NEW size \in Nat
  PROVE  /\ WordsFit(zeros(size)) /\ zeros(size).size = size
         /\ \A p \in Nat : p < word_width * Len(zeros(size).words) => ~ BitAt(zeros(size).words, p)
<1> DEFINE words == words_for(size)
           all == [k \in 1 .. words |-> {}]
<1>0. word_width \in Nat \ {0}
  BY WordsAssumption
<1>1. words \in Nat
  BY <1>0, CeilDiv DEF words_for
<1>2. zeros(size) = [size |-> size, words |-> all]
  BY DEF zeros
<1>3. words = words_for(size)
  OBVIOUS
<1> HIDE DEF words
<1>4. all \in Seq(Word) /\ Len(all) = words /\ \A k \in 1 .. words : all[k] = {}
  <2>1. {} \in Word
    BY DEF Word
  <2> QED
    BY <1>1, <2>1
<1> HIDE DEF all
<1>5. ASSUME NEW p \in Nat, p < word_width * words PROVE ~ BitAt(all, p)
  <2>1. PICK a \in Nat : a = p \div word_width /\ a < words
    BY <1>1, <1>5, WordOf
  <2>2. a + 1 \in 1 .. words
    BY <1>1, <2>1
  <2> QED
    BY <1>4, <2>1, <2>2 DEF BitAt
<1> QED
  BY <1>2, <1>3, <1>4, <1>5 DEF WordsFit

(* The words of one sequence, and then those of another.                   *)
LEMMA WordsJoined ==
  ASSUME NEW S, NEW s \in Seq(S), NEW t \in Seq(S)
  PROVE  /\ s \o t \in Seq(S) /\ Len(s \o t) = Len(s) + Len(t)
         /\ \A k \in 1 .. Len(s) + Len(t) : (s \o t)[k] = IF k <= Len(s) THEN s[k] ELSE t[k - Len(s)]
  OBVIOUS

(* Zeros after the bits of a vector that has none from its size on.        *)
LEMMA ZeroExtended ==
  ASSUME NEW bv, WordsFit(bv), NEW m \in Nat,
         \A p \in Nat : bv.size <= p /\ p < word_width * Len(bv.words) => ~ BitAt(bv.words, p)
  PROVE  LET new == zero_extend(bv, m)
         IN  /\ WordsFit(new) /\ new.size = bv.size + m
             /\ \A p \in Nat : p < new.size =>
                  (BitAt(new.words, p) <=> p < bv.size /\ BitAt(bv.words, p))
<1> DEFINE size == bv.size + m
           l == Len(bv.words)
           w == words_for(size)
           all == [k \in 1 .. w - l |-> {}]
           words == bv.words \o all
           new == zero_extend(bv, m)
<1>0. /\ word_width \in Nat \ {0} /\ bv.size \in Nat /\ size \in Nat
      /\ bv.words \in Seq(Word) /\ l \in Nat
  BY WordsAssumption DEF WordsFit
<1>1. new = [size |-> size, words |-> words]
  BY DEF zero_extend
<1>2. w \in Nat /\ size <= word_width * w
  BY <1>0, CeilDiv DEF words_for
<1>3. w - l \in Nat
  <2>1. word_width * ceil_div(bv.size, word_width) < bv.size + word_width
    BY <1>0, CeilDiv
  <2>2. word_width * l < bv.size + word_width
    BY <2>1 DEF WordsFit, words_for
  <2>3. word_width * (w + 1) = word_width * w + word_width /\ word_width * l \in Nat
        /\ word_width * w \in Nat
    BY <1>0, <1>2, WordsOrdered
  <2> HIDE DEF l, w
  <2>4. word_width * l < word_width * (w + 1)
    <3>1. PICK a \in Nat : a = word_width * l
      BY <2>3
    <3>2. PICK b \in Nat : b = word_width * w
      BY <2>3
    <3>3. size < word_width * w + 1 /\ bv.size <= size
      BY <1>0, <1>2, <2>3
    <3> QED
      BY <1>0, <2>2, <2>3, <3>1, <3>2, <3>3
  <2>5. w + 1 \in Nat
    BY <1>2
  <2>6. l < w + 1
    BY <1>0, <2>4, <2>5, WordsOrdered
  <2> QED
    BY <1>0, <1>2, <2>6
<1>4. w = words_for(size)
  OBVIOUS
<1> HIDE DEF w, l
<1>5. all \in Seq(Word) /\ Len(all) = w - l /\ \A k \in 1 .. w - l : all[k] = {}
  <2>1. {} \in Word
    BY DEF Word
  <2>2. PICK d \in Nat : d = w - l
    BY <1>3
  <2>3. [k \in 1 .. d |-> {}] \in Seq(Word) /\ Len([k \in 1 .. d |-> {}]) = d
        /\ \A k \in 1 .. d : [j \in 1 .. d |-> {}][k] = {}
    BY <2>1
  <2> QED
    BY <2>2, <2>3
<1>6. l = Len(bv.words)
  BY DEF l
<1> HIDE DEF all
<1>7. words \in Seq(Word) /\ Len(words) = w
      /\ \A k \in 1 .. w : words[k] = IF k <= l THEN bv.words[k] ELSE {}
  <2>1. words \in Seq(Word) /\ Len(words) = Len(bv.words) + Len(all)
    BY <1>0, <1>5, WordsJoined
  <2>2. ASSUME NEW k \in 1 .. w PROVE words[k] = IF k <= l THEN bv.words[k] ELSE {}
    <3>1. k \in 1 .. Len(bv.words) + Len(all)
      BY <1>0, <1>2, <1>3, <1>5, <1>6
    <3>2. words[k] = IF k <= Len(bv.words) THEN bv.words[k] ELSE all[k - Len(bv.words)]
      BY <1>0, <1>5, <3>1, WordsJoined
    <3>3. CASE k <= l
      BY <1>6, <3>2, <3>3
    <3>4. CASE ~ k <= l
      <4>1. k - l \in 1 .. w - l
        BY <1>0, <1>2, <1>3, <3>4
      <4> QED
        BY <1>5, <1>6, <3>2, <3>4, <4>1
    <3> QED
      BY <3>3, <3>4
  <2> QED
    <3>1. Len(bv.words) + Len(all) = w
      BY <1>0, <1>2, <1>3, <1>5, <1>6
    <3> HIDE DEF words
    <3> QED
      BY <2>1, <2>2, <3>1
<1>8. new.size = size /\ new.words = words
  BY <1>1
<1> HIDE DEF words, size
<1>9. WordsFit(new)
  <2>1. new \in [size : Nat, words : Seq(Word)]
    BY <1>0, <1>1, <1>7
  <2> QED
    BY <1>4, <1>7, <1>8, <2>1 DEF WordsFit
<1>10. ASSUME NEW p \in Nat, p < size
       PROVE  BitAt(words, p) <=> p < bv.size /\ BitAt(bv.words, p)
  <2>1. p < word_width * w
    <3>1. word_width * w \in Nat
      BY <1>0, <1>2
    <3> QED
      BY <1>0, <1>2, <1>10, <3>1
  <2>2. PICK a \in Nat : a = p \div word_width /\ a < w
    BY <1>2, <2>1, WordOf
  <2>3. a + 1 \in 1 .. w /\ (a + 1 <= l <=> a < l)
    BY <1>0, <1>2, <2>2
  <2>4. CASE a < l
    <3>1. BitAt(words, p) <=> BitAt(bv.words, p)
      BY <1>7, <2>2, <2>3, <2>4 DEF BitAt
    <3>2. p < word_width * l
      <4>1. PICK x \in 0 .. word_width - 1 : p = word_width * a + x
        BY <2>2, BitPlace
      <4>2. a + 1 \in Nat /\ a + 1 <= l
        BY <1>0, <2>4
      <4>3. word_width * (a + 1) <= word_width * l /\ word_width * (a + 1) = word_width * a + word_width
            /\ word_width * a \in Nat /\ word_width * l \in Nat
        BY <1>0, <4>2, WordsOrdered
      <4> QED
        BY <1>0, <4>1, <4>3
    <3>3. bv.size <= p => ~ BitAt(bv.words, p)
      BY <1>6, <3>2
    <3> QED
      BY <1>0, <3>1, <3>3
  <2>5. CASE ~ a < l
    <3>1. ~ BitAt(words, p)
      BY <1>7, <2>2, <2>3, <2>5 DEF BitAt
    <3>2. ~ p < bv.size
      <4>1. word_width * l <= word_width * a /\ word_width * a \in Nat /\ word_width * l \in Nat
        BY <1>0, <2>5, WordsOrdered
      <4>2. bv.size <= word_width * l
        BY <1>6, WordsFitKnown
      <4>3. PICK x \in 0 .. word_width - 1 : p = word_width * a + x
        BY <2>2, BitPlace
      <4> QED
        BY <1>0, <4>1, <4>2, <4>3
    <3> QED
      BY <3>1, <3>2
  <2> QED
    BY <2>4, <2>5
<1> QED
  BY <1>8, <1>9, <1>10 DEF new, size
-----------------------------------------------------------------------------
(* A builder whose words take all its values.                              *)
Vector(cv) ==
  /\ cv \in [size : Nat, width : 1 .. word_width, mask : SUBSET Bits, back : Nat,
             cur : [block : Nat, shift : 0 .. word_width - 1], bits : Seq(Word)]
  /\ cv.mask = 0 .. cv.width - 1 \/ (cv.mask = {} /\ cv.width = 1)
  /\ cv.size * cv.width <= word_width * Len(cv.bits)

(* A value that the mask does not cut.                                     *)
VectorFits(cv, v) == v \in Nat /\ v < power[word_width] /\ bits_of(v) \subseteq cv.mask

(* The bits of v lie at i.                                                 *)
VectorHolds(cv, i, v) == \A x \in cv.mask : BitAt(cv.bits, i * cv.width + x) <=> x \in bits_of(v)

(* Where a value lies, it is within the words, and overlaps no other.      *)
LEMMA VectorSlots ==
  ASSUME NEW cv, Vector(cv), NEW i \in 0 .. cv.size - 1
  PROVE  /\ i * cv.width \in Nat /\ i * cv.width + cv.width <= word_width * Len(cv.bits)
         /\ \A x \in cv.mask : i * cv.width + x \in 0 .. word_width * Len(cv.bits) - 1
         /\ \A j \in 0 .. cv.size - 1, x \in cv.mask :
              (j * cv.width + x) - i * cv.width \in cv.mask => j = i
<1>0. /\ cv.size \in Nat /\ cv.width \in 1 .. word_width /\ cv.bits \in Seq(Word)
      /\ cv.mask \subseteq 0 .. cv.width - 1 /\ word_width \in Nat \ {0}
      /\ cv.size * cv.width <= word_width * Len(cv.bits)
  BY WordsAssumption DEF Vector
<1> DEFINE w == cv.width
<1>1. w \in Nat \ {0} /\ i \in Nat /\ Len(cv.bits) \in Nat
  BY <1>0
<1> HIDE DEF w
<1>2. ASSUME NEW a \in Nat, NEW b \in Nat, a < b
      PROVE  a * w \in Nat /\ b * w \in Nat /\ a * w + w <= b * w
  <2>1. (b - (a + 1)) * w \in Nat
    BY <1>1, <1>2
  <2>2. b * w = a * w + w + (b - (a + 1)) * w
    BY <1>1
  <2>3. a * w \in Nat /\ b * w \in Nat
    BY <1>1
  <2> QED
    BY <1>1, <2>1, <2>2, <2>3
<1>3. i * w \in Nat /\ i * w + w <= cv.size * w
  BY <1>0, <1>1, <1>2
<1>4. cv.size * w <= word_width * Len(cv.bits) /\ cv.size * w \in Nat
  BY <1>0, <1>1 DEF w
<1>5. word_width * Len(cv.bits) \in Nat
  BY <1>0, <1>1
<1>6. ASSUME NEW x \in cv.mask
      PROVE  x \in 0 .. w - 1 /\ i * w + x \in 0 .. word_width * Len(cv.bits) - 1
  <2>1. x \in 0 .. w - 1
    BY <1>0 DEF w
  <2> QED
    BY <1>1, <1>3, <1>4, <1>5, <2>1
<1>7. ASSUME NEW j \in 0 .. cv.size - 1, NEW x \in cv.mask, (j * w + x) - i * w \in cv.mask
      PROVE  j = i
  <2>1. x \in 0 .. w - 1 /\ (j * w + x) - i * w \in 0 .. w - 1 /\ j \in Nat
    BY <1>6, <1>7
  <2>2. ~ (j < i)
    <3> SUFFICES ASSUME j < i PROVE FALSE
      OBVIOUS
    <3>1. j * w \in Nat /\ j * w + w <= i * w
      BY <1>1, <1>2, <2>1
    <3> QED
      BY <1>1, <1>3, <2>1, <3>1
  <2>3. ~ (i < j)
    <3> SUFFICES ASSUME i < j PROVE FALSE
      OBVIOUS
    <3>1. j * w \in Nat /\ i * w + w <= j * w
      BY <1>1, <1>2, <2>1
    <3> QED
      BY <1>1, <1>3, <2>1, <3>1
  <2> QED
    BY <1>1, <2>1, <2>2, <2>3
<1> QED
  BY <1>1, <1>3, <1>4, <1>5, <1>6, <1>7 DEF w

(* Writing a value leaves a builder, where it lies and the others still do. *)
LEMMA VectorWritten ==
  ASSUME NEW cv, Vector(cv), NEW i \in 0 .. cv.size - 1, NEW v, VectorFits(cv, v), NEW new,
         new = write_bits(cv.bits, i * cv.width, bits_of(v), cv.width, cv.mask)
  PROVE  /\ new \in Seq(Word) /\ Len(new) = Len(cv.bits)
         /\ \A j \in 0 .. cv.size - 1, x \in cv.mask :
              BitAt(new, j * cv.width + x) <=>
                IF j = i THEN x \in bits_of(v) ELSE BitAt(cv.bits, j * cv.width + x)
<1> DEFINE pos == i * cv.width
           len == cv.width
           mask == cv.mask
           words == cv.bits
<1>1. /\ words \in Seq(Word) /\ len \in 1 .. word_width /\ mask \in SUBSET (0 .. len - 1)
      /\ cv.size \in Nat
  BY WordsAssumption DEF Vector
<1>2. /\ pos \in Nat /\ pos + len <= word_width * Len(words)
      /\ \A j \in 0 .. cv.size - 1, x \in mask :
           (j * cv.width + x) - pos \in mask => j = i
  BY VectorSlots
<1>3. \A j \in 0 .. cv.size - 1, x \in mask :
        j * cv.width + x \in 0 .. word_width * Len(words) - 1
  BY VectorSlots
<1>4. bits_of(v) \in SUBSET mask
  BY DEF VectorFits
<1>5. new = write_bits(words, pos, bits_of(v), len, mask)
  OBVIOUS
<1> HIDE DEF pos, len, mask, words
<1>6. /\ new \in Seq(Word) /\ Len(new) = Len(words)
      /\ \A p \in 0 .. word_width * Len(words) - 1 :
           BitAt(new, p) <=> IF p - pos \in mask THEN p - pos \in bits_of(v)
                             ELSE BitAt(words, p)
  BY <1>1, <1>2, <1>4, <1>5, BitsWritten
<1>7. ASSUME NEW j \in 0 .. cv.size - 1, NEW x \in mask
      PROVE  BitAt(new, j * cv.width + x) <=>
               IF j = i THEN x \in bits_of(v) ELSE BitAt(words, j * cv.width + x)
  <2>1. CASE j = i
    <3>1. (i * cv.width + x) - pos = x
      <4>1. pos = i * cv.width /\ pos \in Nat /\ x \in 0 .. len - 1 /\ len \in Nat
        BY <1>1, <1>2 DEF pos
      <4> QED
        BY <4>1
    <3> QED
      BY <1>3, <1>6, <2>1, <3>1
  <2>2. CASE j # i
    BY <1>2, <1>3, <1>6, <2>2
  <2> QED
    BY <2>1, <2>2
<1> QED
  BY <1>6, <1>7 DEF words, mask

(* The bits of a value that lies there are the value, however they are     *)
(* read.                                                                   *)
LEMMA VectorRead ==
  ASSUME NEW cv, Vector(cv), NEW i \in 0 .. cv.size - 1, NEW v, VectorFits(cv, v), VectorHolds(cv, i, v)
  PROVE  /\ get(cv, i) = v
         /\ cv.width <= word_width - byte_width + 1 => access_bits(cv, i) = v
<1> DEFINE pos == i * cv.width
           len == cv.width
           mask == cv.mask
           words == cv.bits
<1>1. /\ words \in Seq(Word) /\ len \in 1 .. word_width /\ mask \in SUBSET (0 .. len - 1)
      /\ mask = 0 .. len - 1 \/ len = 1
  BY WordsAssumption DEF Vector
<1>2. pos \in Nat /\ pos + len <= word_width * Len(words)
  BY VectorSlots
<1>3. {x \in mask : BitAt(words, pos + x)} = bits_of(v)
  BY DEF VectorFits, VectorHolds
<1>4. number(bits_of(v)) = v
  BY NumberOfBits DEF VectorFits
<1> HIDE DEF pos, len, mask, words
<1>5. read_bits(words, pos, len, mask) = bits_of(v)
  <2>1. read_bits(words, pos, len, mask) = {x \in mask : BitAt(words, pos + x)}
    BY <1>1, <1>2, BitsRead
  <2> QED
    BY <1>3, <2>1
<1>6. ASSUME len <= word_width - byte_width + 1
      PROVE  unaligned_word(words, pos) \cap mask = bits_of(v)
  <2>1. unaligned_word(words, pos) \cap mask = {x \in mask : BitAt(words, pos + x)}
    BY <1>1, <1>2, <1>6, BitsReadUnaligned
  <2> QED
    BY <1>3, <2>1
<1> QED
  BY <1>4, <1>5, <1>6 DEF get, access_bits, pos, len, mask, words

(* A cursor is at its position, and advances by a width.                   *)
LEMMA CursorAdvances ==
  ASSUME NEW p \in Nat, NEW w \in Nat
  PROVE  /\ cursor_at(p) \in [block : Nat, shift : 0 .. word_width - 1]
         /\ cursor_pos(cursor_at(p)) = p
         /\ advanced(cursor_at(p), w) = cursor_at(p + w)
<1>0. word_width \in Nat \ {0}
  BY WordsAssumption
<1>1. PICK q \in Nat, s \in 0 .. word_width - 1 :
        q = p \div word_width /\ s = p % word_width /\ p = word_width * q + s
  BY BitPlace
<1>2. cursor_at(p) = [block |-> q, shift |-> s]
  BY <1>1 DEF cursor_at
<1>3. s + w \in Nat
  BY <1>0, <1>1
<1>4. PICK a \in Nat, b \in 0 .. word_width - 1 :
        a = (s + w) \div word_width /\ b = (s + w) % word_width /\ s + w = word_width * a + b
  BY <1>3, BitPlace
<1>5. p + w = word_width * (q + a) + b
  <2>1. word_width * (q + a) = word_width * q + word_width * a
    BY <1>0
  <2>2. word_width * q \in Nat /\ word_width * a \in Nat
    BY <1>0
  <2> QED
    BY <1>0, <1>1, <1>4, <2>1, <2>2
<1>6. cursor_at(p + w) = [block |-> q + a, shift |-> b]
  <2>1. q + a \in Nat
    OBVIOUS
  <2>2. (p + w) \div word_width = q + a /\ (p + w) % word_width = b
    BY <1>5, <2>1, PlaceKnown
  <2> QED
    BY <2>2 DEF cursor_at
<1>7. advanced(cursor_at(p), w) = [block |-> q + a, shift |-> b]
  BY <1>2, <1>4 DEF advanced
<1>8. cursor_pos(cursor_at(p)) = p
  <2>1. q * word_width = word_width * q
    BY <1>0
  <2> QED
    BY <1>1, <1>2, <2>1 DEF cursor_pos
<1> QED
  BY <1>2, <1>6, <1>7, <1>8

(* resize allocates words for all the values.                              *)
LEMMA VectorResized ==
  ASSUME NEW size \in Nat, NEW w \in 0 .. word_width, NEW cv, cv = resized(size, w)
  PROVE  Vector(cv) /\ cv.size = size /\ cv.mask = Mask(w) /\ cv.cur = cursor_at(0)
<1> DEFINE width == IF w = 0 THEN 1 ELSE w
           words == words_for(size * width)
<1>0. word_width \in Nat \ {0}
  BY WordsAssumption
<1>1. /\ width \in 1 .. word_width /\ width \in Nat
      /\ Mask(w) = 0 .. width - 1 \/ (Mask(w) = {} /\ width = 1)
  BY <1>0 DEF Mask
<1>2. cv = [size |-> size, width |-> width, mask |-> Mask(w), back |-> 0,
            cur |-> cursor_at(0), bits |-> [k \in 1 .. words |-> {}]]
  BY DEF resized, zeros
<1> HIDE DEF width
<1>3. size * width \in Nat
  BY <1>1
<1>4. words \in Nat /\ size * width <= word_width * words
  <2>1. PICK a \in Nat : a = size * width
    BY <1>3
  <2>2. (a + word_width) - 1 \in Nat
    BY <1>0
  <2>3. PICK q \in Nat, r \in 0 .. word_width - 1 :
          q = ((a + word_width) - 1) \div word_width /\ (a + word_width) - 1 = word_width * q + r
    BY <2>2, BitPlace
  <2>4. word_width * q \in Nat
    BY <1>0
  <2>5. words = q
    <3>1. words = words_for(a)
      BY <2>1
    <3>2. words_for(a) = ceil_div(a, word_width)
      BY DEF words_for
    <3>3. ceil_div(a, word_width) = ((a + word_width) - 1) \div word_width
      BY <1>0 DEF ceil_div
    <3> QED
      BY <2>3, <3>1, <3>2, <3>3
  <2> QED
    BY <1>0, <2>1, <2>3, <2>4, <2>5
<1> HIDE DEF words
<1>5. [k \in 1 .. words |-> {}] \in Seq(Word) /\ Len([k \in 1 .. words |-> {}]) = words
  <2>1. {} \in Word
    BY DEF Word
  <2> QED
    BY <1>4, <2>1
<1>6. cursor_at(0) \in [block : Nat, shift : 0 .. word_width - 1]
  BY CursorAdvances
<1>7. Mask(w) \in SUBSET Bits
  BY <1>0 DEF Mask, Bits
<1>8. Vector(cv)
  BY <1>0, <1>1, <1>2, <1>4, <1>5, <1>6, <1>7 DEF Vector
<1> QED
  BY <1>2, <1>8

(* One value more is pushed back.                                          *)
LEMMA PushStores ==
  ASSUME NEW cv, Vector(cv), NEW i \in 0 .. cv.size - 1, cv.cur = cursor_at(i * cv.width),
         NEW v, VectorFits(cv, v)
  PROVE  LET new == push_back(cv, v)
         IN  /\ Vector(new) /\ new.size = cv.size /\ new.width = cv.width /\ new.mask = cv.mask
             /\ new.cur = cursor_at((i + 1) * new.width)
             /\ VectorHolds(new, i, v)
             /\ \A j \in 0 .. cv.size - 1 : \A u : j # i /\ VectorHolds(cv, j, u) => VectorHolds(new, j, u)
<1> DEFINE bits == write_bits(cv.bits, i * cv.width, bits_of(v), cv.width, cv.mask)
           new == push_back(cv, v)
           R == [size : Nat, width : 1 .. word_width, mask : SUBSET Bits, back : Nat,
                 cur : [block : Nat, shift : 0 .. word_width - 1], bits : Seq(Word)]
<1>0. word_width \in Nat \ {0} /\ v \in Nat
  BY WordsAssumption DEF VectorFits
<1>1. cv \in R /\ cv.width \in Nat /\ i \in Nat
  BY <1>0 DEF Vector
<1>2. /\ i * cv.width \in Nat /\ (i + 1) * cv.width = i * cv.width + cv.width
      /\ (i + 1) * cv.width \in Nat
  BY <1>1
<1>3. /\ cursor_pos(cv.cur) = i * cv.width
      /\ advanced(cv.cur, cv.width) = cursor_at((i + 1) * cv.width)
      /\ cursor_at((i + 1) * cv.width) \in [block : Nat, shift : 0 .. word_width - 1]
  <2>1. PICK p \in Nat : p = i * cv.width
    BY <1>2
  <2>2. p + cv.width \in Nat /\ (i + 1) * cv.width = p + cv.width
    BY <1>1, <1>2, <2>1
  <2>3. cursor_pos(cursor_at(p)) = p /\ advanced(cursor_at(p), cv.width) = cursor_at(p + cv.width)
    BY <1>1, CursorAdvances
  <2>4. cursor_at(p + cv.width) \in [block : Nat, shift : 0 .. word_width - 1]
    BY <2>2, CursorAdvances
  <2> QED
    BY <2>1, <2>2, <2>3, <2>4
<1>4. /\ bits \in Seq(Word) /\ Len(bits) = Len(cv.bits)
      /\ \A j \in 0 .. cv.size - 1, x \in cv.mask :
           BitAt(bits, j * cv.width + x) <=>
             IF j = i THEN x \in bits_of(v) ELSE BitAt(cv.bits, j * cv.width + x)
  BY VectorWritten
<1>5. new = [cv EXCEPT !.back = v, !.cur = cursor_at((i + 1) * cv.width), !.bits = bits]
  BY <1>3 DEF push_back
<1> HIDE DEF bits, new
<1>6. /\ new.size = cv.size /\ new.width = cv.width /\ new.mask = cv.mask
      /\ new.cur = cursor_at((i + 1) * cv.width) /\ new.bits = bits /\ new \in R
  BY <1>0, <1>1, <1>3, <1>4, <1>5
<1> HIDE DEF R
<1>7. Vector(new)
  <2>1. /\ cv.mask = 0 .. cv.width - 1 \/ (cv.mask = {} /\ cv.width = 1)
        /\ cv.size * cv.width <= word_width * Len(cv.bits)
    BY DEF Vector
  <2> QED
    BY <1>4, <1>6, <2>1 DEF Vector, R
<1>8. ASSUME NEW j \in 0 .. cv.size - 1, NEW u, j # i, VectorHolds(cv, j, u) PROVE VectorHolds(new, j, u)
  BY <1>4, <1>6, <1>8 DEF VectorHolds
<1>9. VectorHolds(new, i, v)
  BY <1>4, <1>6 DEF VectorHolds
<1> QED
  BY <1>6, <1>7, <1>8, <1>9 DEF new

(* A builder that is filled holds its values.                              *)
LEMMA FillStores ==
  ASSUME NEW cv, Vector(cv), cv.cur = cursor_at(0),
         NEW values \in Seq(Nat), Len(values) = cv.size,
         \A k \in 1 .. cv.size : VectorFits(cv, values[k])
  PROVE  LET full == fill(cv, values)
         IN  /\ Vector(full) /\ full.size = cv.size /\ full.mask = cv.mask
             /\ \A i \in 0 .. cv.size - 1 : VectorHolds(full, i, values[i + 1])
<1> DEFINE size == cv.size
           good(x) == /\ Vector(x) /\ x.size = cv.size /\ x.width = cv.width /\ x.mask = cv.mask
           D == {x \in [size : Nat, width : 1 .. word_width, mask : SUBSET Bits, back : Nat,
                        cur : [block : Nat, shift : 0 .. word_width - 1], bits : Seq(Word)] :
                   good(x)}
           turn(f, k) == IF k = 0 THEN cv ELSE push_back(f[k - 1], values[k])
           F == CHOOSE f : f = [k \in 0 .. size |-> turn(f, k)]
           step == [e \in Nat \X D |-> IF push_back(e[2], values[e[1] + 1]) \in D
                                       THEN push_back(e[2], values[e[1] + 1]) ELSE e[2]]
           After(x, k) == /\ x \in D /\ x.cur = cursor_at(k * x.width)
                          /\ \A i \in 0 .. k - 1 : VectorHolds(x, i, values[i + 1])
<1>0. size \in Nat /\ cv.width \in Nat
  BY WordsAssumption DEF Vector
<1>1. \A x : x \in D <=> good(x)
  BY DEF Vector
<1> HIDE DEF D
<1>2. cv \in D
  BY <1>1
<1>3. /\ step \in [Nat \X D -> D]
      /\ \A k \in Nat, x \in D : step[<<k, x>>] = IF push_back(x, values[k + 1]) \in D
                                                  THEN push_back(x, values[k + 1]) ELSE x
  OBVIOUS
<1> HIDE DEF step
<1>4. PICK f \in [Nat -> D] : f[0] = cv /\ \A k \in Nat : f[k + 1] = step[<<k, f[k]>>]
  <2>1. Steps(D, cv, step)
    BY <1>2, <1>3 DEF Steps
  <2>2. HasRecursion(D, cv, step)
    BY <2>1, Recursion
  <2> QED
    BY <2>2 DEF HasRecursion
<1>5. After(cv, 0)
  <2>1. 0 * cv.width = 0
    BY <1>0
  <2> QED
    BY <1>2, <2>1
<1>6. ASSUME NEW k \in 0 .. size - 1, NEW x, After(x, k)
      PROVE  After(push_back(x, values[k + 1]), k + 1)
  <2>0. k \in Nat /\ k + 1 \in 1 .. cv.size /\ k \in 0 .. x.size - 1 /\ good(x)
    BY <1>0, <1>1, <1>6
  <2>1. VectorFits(x, values[k + 1])
    BY <2>0 DEF VectorFits
  <2> DEFINE new == push_back(x, values[k + 1])
  <2>2. /\ Vector(new) /\ new.size = x.size /\ new.width = x.width /\ new.mask = x.mask
        /\ new.cur = cursor_at((k + 1) * new.width)
        /\ VectorHolds(new, k, values[k + 1])
        /\ \A j \in 0 .. x.size - 1 : \A u : j # k /\ VectorHolds(x, j, u) => VectorHolds(new, j, u)
    BY <1>6, <2>0, <2>1, PushStores
  <2> HIDE DEF new
  <2>3. new \in D
    BY <1>1, <2>0, <2>2
  <2>4. ASSUME NEW i \in 0 .. (k + 1) - 1 PROVE VectorHolds(new, i, values[i + 1])
    <3>1. i \in 0 .. x.size - 1 /\ (i # k => i \in 0 .. k - 1)
      BY <1>0, <2>0
    <3> QED
      BY <1>6, <2>2, <3>1
  <2> QED
    BY <2>2, <2>3, <2>4 DEF new
<1> DEFINE P == {k \in Nat : After(f[k], k)}
<1>7. 0 \in P
  BY <1>4, <1>5
<1>8. ASSUME NEW k \in 0 .. size - 1, k \in P PROVE k + 1 \in P /\ f[k + 1] = push_back(f[k], values[k + 1])
  <2>1. k \in Nat /\ After(f[k], k)
    BY <1>8
  <2>2. After(push_back(f[k], values[k + 1]), k + 1)
    BY <1>6, <2>1
  <2>3. f[k + 1] = push_back(f[k], values[k + 1])
    BY <1>3, <1>4, <2>1, <2>2
  <2> QED
    BY <2>1, <2>2, <2>3
<1>9. \A k \in 0 .. size : k \in P
  <2> HIDE DEF P
  <2> QED
    BY <1>0, <1>7, <1>8, InductionUpTo
<1>10. \A k \in 0 .. size - 1 : f[k + 1] = push_back(f[k], values[k + 1])
  BY <1>0, <1>8, <1>9
<1> DEFINE g == [k \in 0 .. size |-> f[k]]
<1>11. g = [k \in 0 .. size |-> turn(g, k)]
  <2>1. ASSUME NEW k \in 0 .. size PROVE f[k] = turn(g, k)
    <3>1. CASE k = 0
      BY <1>4, <3>1
    <3>2. CASE k # 0
      <4>1. k - 1 \in 0 .. size - 1 /\ (k - 1) + 1 = k /\ k - 1 \in 0 .. size
        BY <1>0, <3>2
      <4>2. f[k] = push_back(f[k - 1], values[k])
        BY <1>10, <4>1
      <4> QED
        BY <3>2, <4>1, <4>2
    <3> QED
      BY <3>1, <3>2
  <2> QED
    BY <2>1
<1>12. F = [k \in 0 .. size |-> turn(F, k)]
  BY <1>11
<1>13. fill(cv, values) = F[size]
  BY DEF fill
<1> HIDE DEF F
<1> DEFINE Q == {k \in Nat : F[k] = f[k]}
<1>14. size \in Q
  <2>1. 0 \in Q
    BY <1>0, <1>4, <1>12
  <2>2. ASSUME NEW k \in 0 .. size - 1, k \in Q PROVE k + 1 \in Q
    <3>1. k + 1 \in 0 .. size /\ k + 1 # 0 /\ (k + 1) - 1 = k /\ k + 1 \in Nat
      BY <1>0
    <3>2. F[k + 1] = push_back(F[k], values[k + 1])
      BY <1>12, <3>1
    <3> QED
      BY <1>10, <2>2, <3>1, <3>2
  <2> HIDE DEF Q
  <2>3. size \in 0 .. size
    BY <1>0
  <2> QED
    BY <1>0, <2>1, <2>2, <2>3, InductionUpTo
<1>15. After(fill(cv, values), size)
  <2>1. size \in 0 .. size
    BY <1>0
  <2>2. After(f[size], size)
    BY <1>9, <2>1
  <2>3. fill(cv, values) = f[size]
    BY <1>13, <1>14
  <2> HIDE DEF After
  <2> QED
    BY <2>2, <2>3
<1> QED
  BY <1>1, <1>15
=============================================================================
