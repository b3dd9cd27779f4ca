------------------------ MODULE BlockSequence_proofs ------------------------
(***************************************************************************)
(* Proofs about block_sequence: that the builder's blocks hold the         *)
(* differences of the nodes, and that access, find and the iterators go by *)
(* them to the nodes.                                                      *)
(***************************************************************************)
EXTENDS BlockSequence, Basics_proofs

(* The values that max_bytes hold.                                         *)
Small == 0 .. group_power[max_bytes] - 1
-----------------------------------------------------------------------------
(* The powers of group are what their recursion says.                      *)
LEMMA GroupPowers ==
  /\ group_power \in [Nat -> Nat \ {0}]
  /\ group_power[0] = 1 /\ \A k \in Nat : group_power[k + 1] = group * group_power[k]
<1>1. group \in Nat \ {0}
  BY VByteAssumption
<1>2. group_power = PowersOf(group)
  BY DEF group_power, PowersOf
<1> QED
  BY <1>1, <1>2, PowersKnown

(* A small value has at most max_bytes bytes, and fits in them.            *)
LEMMA BytesFor ==
  ASSUME NEW val \in Small
  PROVE  bytes_for(val) \in 1 .. max_bytes /\ val < group_power[bytes_for(val)]
<1> USE VByteAssumption
<1> DEFINE Enough(d) == (d < max_bytes => val < group_power[d]) /\ (d > 1 => val >= group_power[d - 1])
           T == {d \in Nat : val < group_power[d]}
<1>0. /\ group_power[max_bytes] \in Nat \ {0} /\ group_power[0] = 1 /\ group_power[1] \in Nat \ {0}
      /\ \A k \in Nat : group_power[k] \in Nat
  BY GroupPowers
<1>1. val \in Nat /\ val < group_power[max_bytes]
  BY <1>0 DEF Small
<1>2. PICK m \in T : \A d \in T : m <= d
  <2>1. max_bytes \in T /\ T \subseteq Nat
    BY <1>1
  <2> HIDE DEF T
  <2> QED
    BY <2>1, LeastNatural
<1>3. m \in Nat /\ m <= max_bytes /\ val < group_power[m]
  BY <1>1, <1>2
<1>4. \E d \in 1 .. max_bytes : Enough(d)
  <2>1. CASE m = 0
    <3>1. 1 \in 1 .. max_bytes /\ val < group_power[1]
      BY <1>0, <1>1, <1>3, <2>1
    <3> QED
      BY <3>1
  <2>2. CASE m # 0
    <3>1. m \in 1 .. max_bytes /\ m - 1 \in Nat /\ m - 1 \notin T
      BY <1>2, <1>3, <2>2
    <3>2. val >= group_power[m - 1]
      BY <1>0, <1>1, <3>1
    <3> QED
      BY <1>3, <3>1, <3>2
  <2> QED
    BY <2>1, <2>2
<1>5. bytes_for(val) \in 1 .. max_bytes /\ Enough(bytes_for(val))
  BY <1>4 DEF bytes_for
<1>6. CASE bytes_for(val) < max_bytes
  BY <1>5, <1>6
<1>7. CASE bytes_for(val) = max_bytes
  BY <1>1, <1>5, <1>7
<1> QED
  BY <1>5, <1>6, <1>7

(* Its bytes are its digits in base group, and only the last is marked.    *)
LEMMA BytesOf ==
  ASSUME NEW val \in Small
  PROVE  /\ bytes_of(val) \in Seq(byte) /\ Len(bytes_of(val)) = bytes_for(val)
         /\ \A k \in 1 .. bytes_for(val) :
              /\ bytes_of(val)[k] \in byte
              /\ bytes_of(val)[k] % group = (val \div group_power[k - 1]) % group
              /\ bytes_of(val)[k] >= group <=> k = bytes_for(val)
<1> USE VByteAssumption
<1>1. PICK d \in 1 .. max_bytes : d = bytes_for(val)
  BY BytesFor
<1>2. val \in Nat
  BY GroupPowers DEF Small
<1>3. ASSUME NEW k \in 1 .. d
      PROVE  /\ bytes_of(val)[k] \in byte
             /\ bytes_of(val)[k] % group = (val \div group_power[k - 1]) % group
             /\ bytes_of(val)[k] >= group <=> k = d
  <2>1. PICK p \in Nat \ {0} : p = group_power[k - 1]
    BY GroupPowers
  <2>2. PICK t \in 0 .. group - 1 : t = (val \div p) % group
    BY <1>2, Division
  <2>3. bytes_of(val)[k] = t + (IF k = d THEN group ELSE 0)
    BY <1>1, <2>1, <2>2 DEF bytes_of
  <2>4. (t + group) % group = t /\ t % group = t
    OBVIOUS
  <2>5. CASE k = d
    <3>1. bytes_of(val)[k] = t + group
      BY <2>3, <2>5
    <3> QED
      BY <2>1, <2>2, <2>4, <2>5, <3>1 DEF byte
  <2>6. CASE k # d
    <3>1. bytes_of(val)[k] = t
      BY <2>3, <2>6
    <3> QED
      BY <2>1, <2>2, <2>4, <2>6, <3>1 DEF byte
  <2> QED
    BY <2>5, <2>6
<1>4. bytes_of(val) = [k \in 1 .. d |-> bytes_of(val)[k]]
  BY <1>1 DEF bytes_of
<1>5. bytes_of(val) \in Seq(byte) /\ Len(bytes_of(val)) = d
  BY <1>3, <1>4
<1> QED
  BY <1>1, <1>3, <1>5
-----------------------------------------------------------------------------
(* The bytes of val come after the first read of the bytes.                *)
Lies(bytes, read, val) ==
  /\ read + bytes_for(val) <= Len(bytes)
  /\ \A j \in 1 .. bytes_for(val) : bytes[read + j] = bytes_of(val)[j]

(* The end of a value is found where it lies.                              *)
LEMMA NextMarked ==
  ASSUME NEW val \in Small, NEW bytes \in Seq(byte), NEW read \in Nat, Lies(bytes, read, val)
  PROVE  next_marked(bytes, read + 1) = read + bytes_for(val)
<1>1. PICK d \in Nat \ {0} : d = bytes_for(val)
  BY BytesFor, VByteAssumption
<1>2. /\ read + d <= Len(bytes)
      /\ \A j \in 1 .. d : bytes[read + j] = bytes_of(val)[j]
  BY <1>1 DEF Lies
<1>3. \A j \in 1 .. d : bytes_of(val)[j] >= group <=> j = d
  BY <1>1, BytesOf
<1>4. \A j \in 1 .. d : bytes[read + j] \in Int /\ (bytes[read + j] >= group <=> j = d)
  <2>1. \A j \in 1 .. d : bytes_of(val)[j] \in Int
    BY <1>1, BytesOf, VByteAssumption DEF byte
  <2> QED
    BY <1>2, <1>3, <2>1
<1> DEFINE Ends(k) == bytes[k] >= group /\ \A j \in read + 1 .. k - 1 : bytes[j] < group
<1>5. ASSUME NEW k \in read + 1 .. read + d
      PROVE  bytes[k] \in Int /\ (bytes[k] >= group <=> k = read + d)
  <2>1. PICK j \in 1 .. d : k = read + j
    <3>1. k - read \in 1 .. d /\ k = read + (k - read)
      OBVIOUS
    <3> QED
      BY <3>1
  <2>2. j = d <=> k = read + d
    BY <2>1
  <2> QED
    BY <1>4, <2>1, <2>2
<1>6. group \in Int
  BY VByteAssumption
<1>7. read + d \in read + 1 .. Len(bytes) /\ Ends(read + d)
  BY <1>2, <1>5, <1>6
<1>8. ASSUME NEW k \in read + 1 .. Len(bytes), Ends(k)
      PROVE  k = read + d
  <2>1. CASE k < read + d
    BY <1>5, <1>8, <2>1
  <2>2. CASE k > read + d
    <3>1. read + d \in read + 1 .. k - 1 /\ read + d \in read + 1 .. read + d
      BY <2>2
    <3>2. bytes[read + d] < group
      BY <1>8, <3>1
    <3> QED
      BY <1>5, <1>6, <3>1, <3>2
  <2> QED
    BY <2>1, <2>2
<1> QED
  BY <1>1, <1>7, <1>8 DEF next_marked

(* The value of the bytes is the value they are of.                        *)
LEMMA ValueOf ==
  ASSUME NEW val \in Small, NEW bytes, NEW read \in Nat, Lies(bytes, read, val)
  PROVE  value_of(bytes, read + 1, read + bytes_for(val)) = val
<1>1. PICK d \in Nat \ {0} : d = bytes_for(val)
  BY BytesFor, VByteAssumption
<1>2. \A j \in 1 .. d : bytes[read + j] = bytes_of(val)[j]
  BY <1>1 DEF Lies
<1>3. \A j \in 1 .. d : bytes[read + j] % group = (val \div group_power[j - 1]) % group
  BY <1>1, <1>2, BytesOf
<1>4. val \in Nat /\ val < group_power[d]
  BY <1>1, BytesFor, GroupPowers DEF Small
<1> DEFINE Dom == read .. read + d
           Recursive(f) == f = [k \in Dom |-> IF k < read + 1 THEN 0
                                ELSE f[k - 1] + ((bytes[k] % group) * group_power[k - (read + 1)])]
           h == [k \in Dom |-> val % group_power[k - read]]
           v == CHOOSE f : Recursive(f)
<1>5. ASSUME NEW j \in 1 .. d
      PROVE  val % group_power[j] = (val % group_power[j - 1]) + ((bytes[read + j] % group) * group_power[j - 1])
  <2>1. PICK p \in Nat \ {0} : p = group_power[j - 1]
    BY GroupPowers
  <2>2. group_power[j] = group * p
    <3>1. j - 1 \in Nat /\ (j - 1) + 1 = j
      OBVIOUS
    <3> QED
      BY <2>1, <3>1, GroupPowers
  <2>3. group \in Nat \ {0}
    BY VByteAssumption
  <2>4. val % (group * p) = (val % p) + ((val \div p) % group) * p
    BY <1>4, <2>3, OneDigitMore
  <2>5. bytes[read + j] % group = (val \div p) % group
    BY <1>3, <2>1
  <2> QED
    BY <2>1, <2>2, <2>4, <2>5
<1>6. val % group_power[0] = 0
  BY <1>4, GroupPowers
<1>7. \E f : Recursive(f)
  <2>1. ASSUME NEW k \in Dom
        PROVE  h[k] = IF k < read + 1 THEN 0
                      ELSE h[k - 1] + ((bytes[k] % group) * group_power[k - (read + 1)])
    <3>1. CASE k = read
      <4>1. k < read + 1 /\ k - read = 0
        BY <3>1
      <4> QED
        BY <1>6, <4>1
    <3>2. CASE k # read
      <4>1. /\ k - read \in 1 .. d /\ k - 1 \in Dom /\ ~ (k < read + 1)
            /\ read + (k - read) = k /\ (k - read) - 1 = k - (read + 1)
            /\ (k - 1) - read = (k - read) - 1
        BY <3>2
      <4>2. h[k] = val % group_power[k - read] /\ h[k - 1] = val % group_power[(k - read) - 1]
        BY <4>1
      <4> HIDE DEF h, Dom
      <4> QED
        BY <1>5, <4>1, <4>2
    <3> QED
      BY <3>1, <3>2
  <2>2. h = [k \in Dom |-> h[k]]
    OBVIOUS
  <2> HIDE DEF h, Dom
  <2>3. Recursive(h)
    BY <2>1, <2>2
  <2> QED
    BY <2>3
<1>8. Recursive(v)
  BY <1>7
<1>9. v[read + d] = val % group_power[d]
  <2> HIDE DEF v
  <2> DEFINE P == {j \in Nat : v[read + j] = val % group_power[j]}
  <2>1. 0 \in P
    <3>1. read \in Dom /\ read < read + 1 /\ read + 0 = read
      OBVIOUS
    <3>2. v[read] = 0
      BY <1>8, <3>1
    <3> QED
      BY <1>6, <3>1, <3>2
  <2>2. ASSUME NEW j \in 0 .. d - 1, j \in P PROVE j + 1 \in P
    <3>1. /\ read + (j + 1) \in Dom /\ ~ (read + (j + 1) < read + 1) /\ j + 1 \in 1 .. d
          /\ (read + (j + 1)) - 1 = read + j /\ (read + (j + 1)) - (read + 1) = j
          /\ (j + 1) - 1 = j /\ j + 1 \in Nat
      OBVIOUS
    <3>2. v[read + (j + 1)] = v[(read + (j + 1)) - 1]
            + ((bytes[read + (j + 1)] % group) * group_power[(read + (j + 1)) - (read + 1)])
      <4> HIDE DEF Dom
      <4> QED
        BY <1>8, <3>1
    <3>3. v[read + j] = val % group_power[j]
      BY <2>2
    <3> QED
      BY <1>5, <3>1, <3>2, <3>3
  <2> HIDE DEF P
  <2>3. d \in P
    BY <2>1, <2>2, InductionUpTo
  <2> QED
    BY <2>3 DEF P
<1>10. val % group_power[d] = val
  <2>1. PICK p \in Nat \ {0} : p = group_power[d]
    BY GroupPowers
  <2>2. val \in 0 .. p - 1 /\ p * 0 + val = val
    BY <1>4, <2>1
  <2>3. (p * 0 + val) % p = val
    BY <2>2, DivisionKnown
  <2> QED
    BY <2>1, <2>2, <2>3
<1>11. value_of(bytes, read + 1, read + d) = v[read + d]
  <2>1. (read + 1) - 1 = read
    OBVIOUS
  <2> QED
    BY <2>1 DEF value_of
<1> QED
  BY <1>1, <1>9, <1>10, <1>11
-----------------------------------------------------------------------------
(* The bytes of in come after the first read of the bytes.                 *)
Written(bytes, read, in) ==
  \E ends \in [0 .. Len(in) -> Nat] :
    /\ ends[0] = read
    /\ \A k \in 1 .. Len(in) : /\ ends[k] = ends[k - 1] + bytes_for(in[k])
                                /\ Lies(bytes, ends[k - 1], in[k])

(* later begins with earlier.                                              *)
Grown(earlier, later) ==
  Len(earlier) <= Len(later) /\ \A j \in 1 .. Len(earlier) : later[j] = earlier[j]

(* What is appended disturbs no bytes.                                     *)
LEMMA LiesStays ==
  ASSUME NEW val \in Small, NEW bytes \in Seq(byte), NEW more \in Seq(byte), NEW read \in Nat,
         Lies(bytes, read, val), Grown(bytes, more)
  PROVE  Lies(more, read, val)
<1>1. PICK d \in Nat \ {0} : d = bytes_for(val)
  BY BytesFor, VByteAssumption
<1>2. /\ read + d <= Len(bytes) /\ \A j \in 1 .. d : bytes[read + j] = bytes_of(val)[j]
      /\ Len(bytes) <= Len(more) /\ \A j \in 1 .. Len(bytes) : more[j] = bytes[j]
  BY <1>1 DEF Lies, Grown
<1>3. \A j \in 1 .. d : more[read + j] = bytes_of(val)[j]
  <2> TAKE j \in 1 .. d
  <2>1. read + j \in 1 .. Len(bytes)
    BY <1>2
  <2> QED
    BY <1>2, <2>1
<1>4. read + d <= Len(more)
  BY <1>2
<1> QED
  BY <1>1, <1>3, <1>4 DEF Lies

(* The same of all the numbers of a block.                                 *)
LEMMA WrittenStays ==
  ASSUME NEW in \in Seq(Small), NEW bytes \in Seq(byte), NEW more \in Seq(byte),
         NEW read \in Nat, Written(bytes, read, in), Grown(bytes, more)
  PROVE  Written(more, read, in)
<1>1. PICK ends \in [0 .. Len(in) -> Nat] :
        /\ ends[0] = read
        /\ \A k \in 1 .. Len(in) : /\ ends[k] = ends[k - 1] + bytes_for(in[k])
                                    /\ Lies(bytes, ends[k - 1], in[k])
  BY DEF Written
<1>2. ASSUME NEW k \in 1 .. Len(in) PROVE Lies(more, ends[k - 1], in[k])
  <2>1. k - 1 \in 0 .. Len(in) /\ in[k] \in Small
    OBVIOUS
  <2> QED
    BY <1>1, <2>1, LiesStays
<1> QED
  BY <1>1, <1>2 DEF Written

(* decode gives the numbers back.                                          *)
LEMMA DecodeWritten ==
  ASSUME NEW in \in Seq(Small), NEW bytes \in Seq(byte), NEW read \in Nat,
         Written(bytes, read, in)
  PROVE  decode(bytes, read, Len(in)) = in
<1>1. PICK ends \in [0 .. Len(in) -> Nat] :
        /\ ends[0] = read
        /\ \A k \in 1 .. Len(in) : /\ ends[k] = ends[k - 1] + bytes_for(in[k])
                                    /\ Lies(bytes, ends[k - 1], in[k])
  BY DEF Written
<1> DEFINE Recursive(f) == f = [k \in 0 .. Len(in) |-> IF k = 0 THEN read
                                                       ELSE next_marked(bytes, f[k - 1] + 1)]
           last == CHOOSE f : Recursive(f)
<1>2. ASSUME NEW k \in 1 .. Len(in)
      PROVE  /\ k - 1 \in 0 .. Len(in) /\ ends[k - 1] \in Nat /\ in[k] \in Small
             /\ next_marked(bytes, ends[k - 1] + 1) = ends[k]
             /\ value_of(bytes, ends[k - 1] + 1, ends[k]) = in[k]
  <2>1. k - 1 \in 0 .. Len(in) /\ ends[k - 1] \in Nat /\ in[k] \in Small
    OBVIOUS
  <2> QED
    BY <1>1, <2>1, NextMarked, ValueOf
<1>3. \E f : Recursive(f)
  <2>1. \A k \in 0 .. Len(in) : ends[k] = IF k = 0 THEN read
                                          ELSE next_marked(bytes, ends[k - 1] + 1)
    BY <1>1, <1>2
  <2>2. Recursive(ends)
    BY <2>1
  <2> QED
    BY <2>2
<1>4. Recursive(last)
  BY <1>3
<1> HIDE DEF last
<1>5. PICK n \in Nat : n = Len(in)
  OBVIOUS
<1>6. \A k \in 0 .. n : last[k] = ends[k]
  <2> DEFINE P == {k \in Nat : last[k] = ends[k]}
  <2>1. 0 \in P
    BY <1>1, <1>4
  <2>2. ASSUME NEW k \in 0 .. n - 1, k \in P PROVE k + 1 \in P
    <3>1. k + 1 \in 1 .. Len(in) /\ (k + 1) - 1 = k /\ k + 1 # 0 /\ k + 1 \in 0 .. Len(in)
      BY <1>5
    <3>2. last[k + 1] = next_marked(bytes, last[(k + 1) - 1] + 1)
      BY <1>4, <3>1
    <3>3. last[k] = ends[k]
      BY <2>2
    <3> QED
      BY <1>2, <3>1, <3>2, <3>3
  <2> HIDE DEF P
  <2>3. \A k \in 0 .. n : k \in P
    BY <2>1, <2>2, InductionUpTo
  <2> QED
    BY <2>3 DEF P
<1>7. decode(bytes, read, Len(in)) =
        [k \in 1 .. Len(in) |-> value_of(bytes, last[k - 1] + 1, last[k])]
  BY DEF decode, last
<1>8. \A k \in 1 .. Len(in) : value_of(bytes, last[k - 1] + 1, last[k]) = in[k]
  <2> TAKE k \in 1 .. Len(in)
  <2>1. k - 1 \in 0 .. n /\ k \in 0 .. n
    BY <1>5
  <2> QED
    BY <1>2, <1>6, <2>1
<1>9. in = [k \in 1 .. Len(in) |-> in[k]]
  OBVIOUS
<1> QED
  BY <1>7, <1>8, <1>9

(* A sequence after another.                                               *)
Follows(s, t, u, S) ==
  /\ u \in Seq(S) /\ Len(u) = Len(s) + Len(t)
  /\ \A j \in 1 .. Len(s) : u[j] = s[j]
  /\ \A j \in 1 .. Len(t) : u[Len(s) + j] = t[j]

(* What concatenation does.                                                *)
LEMMA Concatenated ==
  ASSUME NEW S, NEW s, NEW t, s \in Seq(S), t \in Seq(S)
  PROVE  Follows(s, t, s \o t, S)
  BY DEF Follows

(* What is there after each of n parts is appended remains in B.           *)
Appendable(n, B, out, parts) ==
  n \in Nat /\ out \in B /\ \A k \in 1 .. n : \A s \in B : s \o parts[k] \in B

HasPrefixes(n, out, parts) ==
  \E f : f = [k \in 0 .. n |-> IF k = 0 THEN out ELSE f[k - 1] \o parts[k]]

(* There is a function of the number of parts that gives what is there.    *)
LEMMA Appending ==
  ASSUME NEW n, NEW B, NEW out, NEW parts, Appendable(n, B, out, parts)
  PROVE  HasPrefixes(n, out, parts)
<1>0. n \in Nat /\ out \in B /\ \A k \in 1 .. n : \A s \in B : s \o parts[k] \in B
  BY DEF Appendable
<1> DEFINE step == [e \in Nat \X B |-> IF e[1] + 1 \in 1 .. n
                                        THEN e[2] \o parts[e[1] + 1] ELSE e[2]]
<1>1. step \in [Nat \X B -> B]
  <2>1. ASSUME NEW e \in Nat \X B
        PROVE  (IF e[1] + 1 \in 1 .. n THEN e[2] \o parts[e[1] + 1] ELSE e[2]) \in B
    <3>1. e[2] \in B
      OBVIOUS
    <3> QED
      BY <1>0, <3>1
  <2> QED
    BY <2>1
<1>2. ASSUME NEW k \in 0 .. n - 1, NEW s \in B
      PROVE  step[<<k, s>>] = s \o parts[k + 1]
  <2>1. <<k, s>> \in Nat \X B /\ <<k, s>>[1] + 1 = k + 1 /\ <<k, s>>[2] = s /\ k + 1 \in 1 .. n
    BY <1>0
  <2>2. step[<<k, s>>] = IF <<k, s>>[1] + 1 \in 1 .. n
                         THEN <<k, s>>[2] \o parts[<<k, s>>[1] + 1] ELSE <<k, s>>[2]
    BY <2>1
  <2> HIDE DEF step
  <2> QED
    BY <2>1, <2>2
<1> HIDE DEF step
<1>3. PICK f \in [Nat -> B] : f[0] = out /\ \A k \in Nat : f[k + 1] = step[<<k, f[k]>>]
  <2>1. Steps(B, out, step)
    BY <1>0, <1>1 DEF Steps
  <2>2. HasRecursion(B, out, step)
    BY <2>1, Recursion
  <2> QED
    BY <2>2 DEF HasRecursion
<1> DEFINE g == [k \in 0 .. n |-> f[k]]
<1>4. ASSUME NEW k \in 0 .. n
      PROVE  g[k] = IF k = 0 THEN out ELSE g[k - 1] \o parts[k]
  <2>1. CASE k = 0
    BY <1>0, <1>3, <2>1
  <2>2. CASE k # 0
    <3>1. /\ k - 1 \in Nat /\ k - 1 \in 0 .. n - 1 /\ (k - 1) + 1 = k
          /\ g[k] = f[k] /\ g[k - 1] = f[k - 1]
      BY <1>0, <2>2
    <3> HIDE DEF g
    <3>2. f[k] = step[<<k - 1, f[k - 1]>>] /\ f[k - 1] \in B
      BY <1>3, <3>1
    <3> QED
      BY <1>2, <2>2, <3>1, <3>2
  <2> QED
    BY <2>1, <2>2
<1>5. g = [k \in 0 .. n |-> g[k]]
  OBVIOUS
<1> HIDE DEF g
<1>6. g = [k \in 0 .. n |-> IF k = 0 THEN out ELSE g[k - 1] \o parts[k]]
  BY <1>4, <1>5
<1> QED
  BY <1>6 DEF HasPrefixes

(* encode appends the bytes of the numbers.                                *)
LEMMA EncodeWrites ==
  ASSUME NEW in \in Seq(Small), NEW out \in Seq(byte)
  PROVE  /\ encode(out, in) \in Seq(byte) /\ Grown(out, encode(out, in))
         /\ Written(encode(out, in), Len(out), in)
<1>0. PICK n \in Nat : n = Len(in)
  OBVIOUS
<1>1. \A k \in 1 .. n : in[k] \in Small /\ bytes_of(in[k]) \in Seq(byte)
  BY <1>0, BytesOf
<1> DEFINE Recursive(f) == f = [k \in 0 .. Len(in) |-> IF k = 0 THEN out
                                                       ELSE f[k - 1] \o bytes_of(in[k])]
           buf == CHOOSE f : Recursive(f)
<1>7. \E g : Recursive(g)
  <2> DEFINE parts == [k \in 1 .. n |-> bytes_of(in[k])]
  <2>1. \A k \in 1 .. n : parts[k] = bytes_of(in[k])
    OBVIOUS
  <2>2. ASSUME NEW k \in 1 .. n, NEW s \in Seq(byte) PROVE s \o parts[k] \in Seq(byte)
    <3>1. parts[k] \in Seq(byte)
      BY <1>1
    <3> QED
      BY <3>1
  <2> HIDE DEF parts
  <2>3. PICK g : g = [k \in 0 .. n |-> IF k = 0 THEN out ELSE g[k - 1] \o parts[k]]
    <3>1. Appendable(n, Seq(byte), out, parts)
      BY <2>2, Zenon DEF Appendable
    <3>2. HasPrefixes(n, out, parts)
      BY <3>1, Appending
    <3> QED
      BY <3>2, Zenon DEF HasPrefixes
  <2>4. g = [k \in 0 .. n |-> IF k = 0 THEN out ELSE g[k - 1] \o bytes_of(in[k])]
    BY <2>1, <2>3
  <2> QED
    BY <1>0, <2>4
<1>8. Recursive(buf)
  BY <1>7
<1>9. encode(out, in) = buf[n]
  BY <1>0 DEF encode
<1> HIDE DEF buf
<1>10. buf[0] = out /\ \A k \in 1 .. n : buf[k] = buf[k - 1] \o bytes_of(in[k])
  BY <1>0, <1>8
<1> DEFINE Good(k) == /\ buf[k] \in Seq(byte) /\ Grown(out, buf[k])
                      /\ \A i \in 1 .. k : /\ Len(buf[i - 1]) \in Nat
                                            /\ Len(buf[i]) = Len(buf[i - 1]) + bytes_for(in[i])
                                            /\ Lies(buf[k], Len(buf[i - 1]), in[i])
           P == {k \in Nat : Good(k)}
<1>11. Good(0)
  BY <1>10 DEF Grown
<1>12. ASSUME NEW k \in 0 .. n - 1, Good(k) PROVE Good(k + 1)
  <2>1. k + 1 \in 1 .. n /\ (k + 1) - 1 = k
    OBVIOUS
  <2>2. PICK val \in Small : val = in[k + 1]
    BY <1>1, <2>1
  <2>3. buf[k + 1] = buf[k] \o bytes_of(val)
    BY <1>10, <2>1, <2>2
  <2>4. PICK d \in Nat \ {0} : d = bytes_for(val)
    BY BytesFor, VByteAssumption
  <2>5. bytes_of(val) \in Seq(byte) /\ Len(bytes_of(val)) = d
    BY <2>4, BytesOf
  <2>6. buf[k] \in Seq(byte) /\ Grown(out, buf[k])
    BY <1>12
  <2> HIDE DEF Good
  <2>7. /\ buf[k + 1] \in Seq(byte) /\ Len(buf[k + 1]) = Len(buf[k]) + d
        /\ \A j \in 1 .. Len(buf[k]) : buf[k + 1][j] = buf[k][j]
        /\ \A j \in 1 .. d : buf[k + 1][Len(buf[k]) + j] = bytes_of(val)[j]
    <3>1. Follows(buf[k], bytes_of(val), buf[k] \o bytes_of(val), byte)
      BY <2>5, <2>6, Concatenated
    <3>2. Follows(buf[k], bytes_of(val), buf[k + 1], byte)
      BY <2>3, <3>1
    <3> QED
      BY <2>5, <3>2 DEF Follows
  <2>8. Grown(buf[k], buf[k + 1])
    BY <2>6, <2>7 DEF Grown
  <2>9. Grown(out, buf[k + 1])
    BY <2>6, <2>7 DEF Grown
  <2>10. Lies(buf[k + 1], Len(buf[k]), val)
    <3>1. PICK r \in Nat : r = Len(buf[k])
      BY <2>6
    <3>2. r + d <= Len(buf[k + 1]) /\ \A j \in 1 .. d : buf[k + 1][r + j] = bytes_of(val)[j]
      BY <2>7, <3>1
    <3> QED
      BY <2>4, <3>1, <3>2 DEF Lies
  <2>11. ASSUME NEW i \in 1 .. k + 1
         PROVE  /\ Len(buf[i - 1]) \in Nat
                /\ Len(buf[i]) = Len(buf[i - 1]) + bytes_for(in[i])
                /\ Lies(buf[k + 1], Len(buf[i - 1]), in[i])
    <3>1. CASE i = k + 1
      <4>1. i - 1 = k
        BY <3>1
      <4> QED
        BY <2>2, <2>4, <2>6, <2>7, <2>10, <3>1, <4>1
    <3>2. CASE i # k + 1
      <4>1. i \in 1 .. k /\ i \in 1 .. n
        BY <3>2
      <4>2. /\ Len(buf[i - 1]) \in Nat
            /\ Len(buf[i]) = Len(buf[i - 1]) + bytes_for(in[i])
            /\ Lies(buf[k], Len(buf[i - 1]), in[i])
        BY <1>12, <4>1 DEF Good
      <4> QED
        BY <1>1, <2>6, <2>7, <2>8, <4>1, <4>2, LiesStays
    <3> QED
      BY <3>1, <3>2
  <2> QED
    BY <2>7, <2>9, <2>11 DEF Good
<1>13. Good(n)
  <2>1. 0 \in P
    BY <1>11
  <2>2. ASSUME NEW k \in 0 .. n - 1, k \in P PROVE k + 1 \in P
    <3> HIDE DEF Good
    <3>1. Good(k)
      BY <2>2
    <3> QED
      BY <1>12, <3>1
  <2> HIDE DEF P
  <2>3. \A k \in 0 .. n : k \in P
    BY <2>1, <2>2, InductionUpTo
  <2> QED
    BY <2>3 DEF P
<1>14. Written(buf[n], Len(out), in)
  <2> DEFINE ends == [k \in 0 .. n |-> Len(buf[k])]
  <2>1. \A k \in 1 .. n : /\ Len(buf[k - 1]) \in Nat
                          /\ Len(buf[k]) = Len(buf[k - 1]) + bytes_for(in[k])
                          /\ Lies(buf[n], Len(buf[k - 1]), in[k])
    BY <1>13
  <2>2. \A k \in 0 .. n : Len(buf[k]) \in Nat
    <3> TAKE k \in 0 .. n
    <3>1. CASE k = n
      <4>1. buf[n] \in Seq(byte)
        BY <1>13
      <4> QED
        BY <3>1, <4>1
    <3>2. CASE k # n
      <4>1. k + 1 \in 1 .. n /\ (k + 1) - 1 = k
        BY <3>2
      <4> QED
        BY <2>1, <4>1
    <3> QED
      BY <3>1, <3>2
  <2>3. ends \in [0 .. Len(in) -> Nat] /\ ends[0] = Len(out)
    BY <1>0, <1>10, <2>2
  <2>4. ASSUME NEW k \in 1 .. Len(in)
        PROVE  /\ ends[k] = ends[k - 1] + bytes_for(in[k])
               /\ Lies(buf[n], ends[k - 1], in[k])
    <3>1. k \in 1 .. n /\ k \in 0 .. n /\ k - 1 \in 0 .. n
      BY <1>0
    <3>2. ends[k] = Len(buf[k]) /\ ends[k - 1] = Len(buf[k - 1])
      BY <3>1
    <3> HIDE DEF ends
    <3> QED
      BY <2>1, <3>1, <3>2
  <2> HIDE DEF ends
  <2> QED
    BY <2>3, <2>4 DEF Written
<1> QED
  BY <1>9, <1>13, <1>14
-----------------------------------------------------------------------------
(* The i-th node is the first of its range.                                *)
First(i) == \E p \in 1 .. Len(level.pointers) - 1 : level.pointers[p] = i - 1

(* What is stored for it, and what a block should hold.                    *)
Difference(i) == IF First(i) THEN level.from[i] ELSE level.from[i] - level.from[i - 1] - 1
Block(b) == [k \in 1 .. BlockSize(b) |-> Difference(b * block_size + k)]

(* What the assumption says of a level.                                    *)
LEMMA LevelFacts ==
  ASSUME level \in Levels
  PROVE  /\ m_size \in Nat \ {0} /\ m_size = Len(level.from) /\ level.from \in Seq(Nat)
         /\ \A i \in 1 .. m_size : level.from[i] \in Small /\ level.from[i] \in Nat
         /\ level.pointers \in Seq(Nat)
         /\ Len(level.pointers) \in Nat /\ Len(level.pointers) > 1
         /\ \A p \in 1 .. Len(level.pointers) : level.pointers[p] \in Nat
         /\ level.pointers[1] = 0 /\ level.pointers[Len(level.pointers)] = m_size
         /\ \A p \in 1 .. Len(level.pointers) - 1 : level.pointers[p] < level.pointers[p + 1]
<1>1. /\ WellFormedRanges(level.from, level.pointers)
      /\ \A k \in DOMAIN level.from : level.from[k] < group_power[max_bytes]
  BY BlockSequenceAssumption DEF WellFormedLevel
<1>2. /\ level.from \in Seq(Nat) /\ level.pointers \in Seq(Nat) /\ Len(level.pointers) > 1
      /\ level.pointers[1] = 0 /\ level.pointers[Len(level.pointers)] = Len(level.from)
      /\ \A p \in 1 .. Len(level.pointers) - 1 : level.pointers[p] < level.pointers[p + 1]
  BY <1>1 DEF WellFormedRanges
<1>3. PICK n \in Nat : n = Len(level.pointers)
  BY <1>2
<1>4. \A p \in 1 .. n : level.pointers[p] \in Nat
  BY <1>2, <1>3
<1>5. PICK m \in Nat : m = Len(level.from)
  BY <1>2
<1>6. m # 0
  <2> DEFINE P == {k \in Nat : level.pointers[k + 1] >= k}
  <2>0. n - 1 \in Nat /\ (n - 1) + 1 = n /\ n > 1
    BY <1>2, <1>3
  <2>1. 0 \in P
    BY <1>2
  <2>2. ASSUME NEW k \in 0 .. (n - 1) - 1, k \in P PROVE k + 1 \in P
    <3>1. k + 1 \in 1 .. n - 1 /\ k + 1 \in 1 .. n /\ (k + 1) + 1 \in 1 .. n
      BY <2>0
    <3>2. level.pointers[k + 1] < level.pointers[(k + 1) + 1] /\ level.pointers[k + 1] >= k
      BY <1>2, <1>3, <2>2, <3>1
    <3> QED
      BY <1>4, <3>1, <3>2
  <2> HIDE DEF P
  <2>3. \A k \in 0 .. n - 1 : k \in P
    BY <2>0, <2>1, <2>2, InductionUpTo
  <2>4. n - 1 \in P
    BY <2>0, <2>3
  <2>5. level.pointers[n] >= n - 1
    BY <2>0, <2>4 DEF P
  <2> QED
    BY <1>2, <1>3, <1>5, <2>0, <2>5
<1>7. \A i \in 1 .. m : level.from[i] \in Nat
  BY <1>2, <1>5
<1>8. \A i \in 1 .. m : level.from[i] \in Small
  <2> TAKE i \in 1 .. m
  <2>1. i \in DOMAIN level.from
    BY <1>2, <1>5
  <2>2. PICK c \in Nat : c = group_power[max_bytes]
    BY GroupPowers, VByteAssumption
  <2>3. level.from[i] < c /\ level.from[i] \in Nat
    BY <1>1, <1>7, <2>1, <2>2
  <2> QED
    BY <2>2, <2>3 DEF Small
<1> QED
  BY <1>2, <1>3, <1>4, <1>5, <1>6, <1>7, <1>8 DEF m_size

(* The nodes of a range increase.                                          *)
LEMMA RangeSorted ==
  ASSUME level \in Levels, NEW p \in 1 .. Len(level.pointers) - 1,
         NEW i \in level.pointers[p] + 1 .. level.pointers[p + 1],
         NEW j \in level.pointers[p] + 1 .. level.pointers[p + 1], i < j
  PROVE  level.from[i] < level.from[j]
<1>1. WellFormedRanges(level.from, level.pointers)
  BY BlockSequenceAssumption DEF WellFormedLevel
<1> QED
  BY <1>1 DEF WellFormedRanges

(* The ranges follow one another.                                          *)
LEMMA PointersIncrease ==
  ASSUME level \in Levels, NEW p \in 1 .. Len(level.pointers), NEW q \in 1 .. Len(level.pointers),
         p < q
  PROVE  level.pointers[p] < level.pointers[q]
<1>1. PICK n \in Nat : n = Len(level.pointers)
  BY LevelFacts
<1>2. \A k \in 1 .. n : level.pointers[k] \in Nat
  BY <1>1, LevelFacts
<1>3. \A k \in 1 .. n - 1 : level.pointers[k] < level.pointers[k + 1]
  BY <1>1, LevelFacts
<1> DEFINE P == {k \in Nat : level.pointers[p] < level.pointers[p + 1 + k]}
<1>4. p \in 1 .. n - 1 /\ q - (p + 1) \in Nat /\ p + 1 + (q - (p + 1)) = q
  BY <1>1
<1>5. 0 \in P
  <2>1. p + 1 + 0 = p + 1
    BY <1>4
  <2> QED
    BY <1>3, <1>4, <2>1
<1>6. ASSUME NEW k \in 0 .. (q - (p + 1)) - 1, k \in P PROVE k + 1 \in P
  <2>1. /\ p + 1 + k \in 1 .. n - 1 /\ p + 1 + k \in 1 .. n /\ (p + 1 + k) + 1 \in 1 .. n
        /\ (p + 1 + k) + 1 = p + 1 + (k + 1) /\ k + 1 \in Nat /\ p \in 1 .. n
    BY <1>1, <1>4
  <2>2. level.pointers[p] < level.pointers[p + 1 + k]
    BY <1>6
  <2>3. level.pointers[p + 1 + k] < level.pointers[p + 1 + (k + 1)]
    BY <1>3, <2>1
  <2>4. level.pointers[p] < level.pointers[p + 1 + (k + 1)]
    BY <1>2, <2>1, <2>2, <2>3
  <2> QED
    BY <2>1, <2>4
<1> HIDE DEF P
<1>7. \A k \in 0 .. q - (p + 1) : k \in P
  BY <1>4, <1>5, <1>6, InductionUpTo
<1>8. q - (p + 1) \in P
  BY <1>4, <1>7
<1> QED
  BY <1>4, <1>8 DEF P

(* Each node is in a range.                                                *)
LEMMA RangeOf ==
  ASSUME level \in Levels, NEW i \in 1 .. m_size
  PROVE  \E p \in 1 .. Len(level.pointers) - 1 : level.pointers[p] < i /\ i <= level.pointers[p + 1]
<1>1. PICK n \in Nat : n = Len(level.pointers) /\ n > 1
  BY LevelFacts
<1>2. /\ \A k \in 1 .. n : level.pointers[k] \in Nat
      /\ level.pointers[1] = 0 /\ level.pointers[n] = m_size /\ m_size \in Nat
  BY <1>1, LevelFacts
<1> DEFINE T == {k \in 1 .. n : i <= level.pointers[k]}
<1>3. PICK k \in T : \A j \in T : k <= j
  <2>1. n \in T /\ T \subseteq Nat
    BY <1>1, <1>2
  <2> HIDE DEF T
  <2> QED
    BY <2>1, LeastNatural
<1>4. k # 1
  BY <1>2, <1>3
<1>5. k - 1 \in 1 .. n - 1 /\ k - 1 \in 1 .. n /\ (k - 1) + 1 = k /\ k - 1 \notin T
  BY <1>3, <1>4
<1>6. level.pointers[k - 1] < i /\ i <= level.pointers[(k - 1) + 1]
  BY <1>2, <1>3, <1>5
<1> QED
  BY <1>1, <1>5, <1>6

(* In a range, one node is the first.                                      *)
LEMMA FirstInRange ==
  ASSUME level \in Levels, NEW p \in 1 .. Len(level.pointers) - 1,
         NEW i \in level.pointers[p] + 1 .. level.pointers[p + 1]
  PROVE  First(i) <=> i = level.pointers[p] + 1
<1>1. PICK n \in Nat : n = Len(level.pointers)
  BY LevelFacts
<1>2. \A k \in 1 .. n : level.pointers[k] \in Nat
  BY <1>1, LevelFacts
<1>3. p \in 1 .. n /\ p + 1 \in 1 .. n
  BY <1>1
<1>4. ASSUME NEW q \in 1 .. n - 1, level.pointers[q] = i - 1 PROVE q = p
  <2>1. q \in 1 .. n
    OBVIOUS
  <2>2. ~ (q < p)
    BY <1>1, <1>2, <1>3, <1>4, <2>1, PointersIncrease
  <2>3. ~ (p + 1 < q) /\ q # p + 1
    BY <1>1, <1>2, <1>3, <1>4, <2>1, PointersIncrease
  <2> QED
    BY <1>3, <2>1, <2>2, <2>3
<1>5. i \in Nat /\ level.pointers[p] \in Nat
  BY <1>2, <1>3
<1> QED
  BY <1>1, <1>4, <1>5 DEF First

(* A difference is small, and leads from a node to the next of its range.  *)
LEMMA Differences ==
  ASSUME level \in Levels, NEW i \in 1 .. m_size
  PROVE  /\ Difference(i) \in Small /\ Difference(i) \in Nat
         /\ First(i) => Difference(i) = level.from[i]
         /\ ~ First(i) => i > 1 /\ level.from[i] = level.from[i - 1] + Difference(i) + 1
<1>1. PICK p \in 1 .. Len(level.pointers) - 1 :
        level.pointers[p] < i /\ i <= level.pointers[p + 1]
  BY RangeOf
<1>2. level.pointers[p] \in Nat /\ level.pointers[p + 1] \in Nat /\ m_size \in Nat
  <2>1. p \in 1 .. Len(level.pointers) /\ p + 1 \in 1 .. Len(level.pointers)
    BY LevelFacts
  <2> QED
    BY <2>1, LevelFacts
<1>3. i \in level.pointers[p] + 1 .. level.pointers[p + 1]
  BY <1>1, <1>2
<1>4. level.from[i] \in Small /\ level.from[i] \in Nat
  BY LevelFacts
<1>5. CASE First(i)
  BY <1>4, <1>5 DEF Difference
<1>6. CASE ~ First(i)
  <2>1. i # level.pointers[p] + 1
    BY <1>3, <1>6, FirstInRange
  <2>2. i - 1 \in level.pointers[p] + 1 .. level.pointers[p + 1] /\ i - 1 < i /\ i > 1
        /\ i - 1 \in 1 .. m_size
    BY <1>2, <1>3, <2>1
  <2>3. level.from[i - 1] < level.from[i]
    BY <1>3, <2>2, RangeSorted
  <2>4. level.from[i - 1] \in Nat
    BY <2>2, LevelFacts
  <2>5. Difference(i) = level.from[i] - level.from[i - 1] - 1
    BY <1>6 DEF Difference
  <2>6. Difference(i) \in Nat /\ Difference(i) <= level.from[i]
    BY <1>4, <2>3, <2>4, <2>5
  <2>7. Difference(i) \in Small
    <3>1. PICK c \in Nat : Small = 0 .. c - 1
      BY GroupPowers, VByteAssumption DEF Small
    <3> QED
      BY <1>4, <2>6, <3>1
  <2> QED
    BY <1>4, <1>6, <2>2, <2>4, <2>5, <2>6, <2>7
<1> QED
  BY <1>5, <1>6
-----------------------------------------------------------------------------
(* The blocks cut the nodes into equal parts, of which the last may be     *)
(* shorter.                                                                *)
LEMMA Blocks ==
  ASSUME level \in Levels
  PROVE  /\ m_blocks \in Nat \ {0}
         /\ \A b \in 0 .. m_blocks - 1 :
              /\ BlockSize(b) \in 1 .. block_size
              /\ b * block_size \in Nat
              /\ b * block_size + BlockSize(b) <= m_size
              /\ b # m_blocks - 1 => BlockSize(b) = block_size
              /\ b = m_blocks - 1 => b * block_size + BlockSize(b) = m_size
<1> DEFINE bs == block_size
           N == m_size
<1>1. bs \in Nat \ {0} /\ N \in Nat \ {0}
  BY LevelFacts, BlockSequenceAssumption
<1>2. m_blocks = (N + bs - 1) \div bs
  BY DEF m_blocks
<1>3. \A b : BlockSize(b) = IF (b + 1) * bs <= N THEN bs ELSE N % bs
  BY DEF BlockSize
<1> HIDE DEF bs, N
<1>4. PICK q \in Nat, r \in 0 .. bs - 1 : q = m_blocks /\ N + bs - 1 = bs * q + r
  <2>1. N + bs - 1 \in Nat
    BY <1>1
  <2> QED
    BY <1>1, <1>2, <2>1, Division
<1>5. q # 0 /\ N <= bs * q /\ bs * q - bs < N /\ bs * q \in Nat
  <2>1. bs * q \in Nat
    BY <1>1
  <2>2. q = 0 => bs * q = 0
    BY <1>1
  <2> QED
    BY <1>1, <1>4, <2>1, <2>2
<1>6. ASSUME NEW b \in 0 .. q - 1
      PROVE  /\ BlockSize(b) \in 1 .. bs /\ b * bs \in Nat /\ b * bs + BlockSize(b) <= N
             /\ b # q - 1 => BlockSize(b) = bs
             /\ b = q - 1 => b * bs + BlockSize(b) = N
  <2>1. b \in Nat /\ b * bs \in Nat /\ (b + 1) * bs = b * bs + bs
    BY <1>1
  <2>2. CASE b # q - 1
    <3>1. b + 2 <= q
      BY <2>2
    <3>2. (b + 2) * bs <= q * bs /\ (b + 2) * bs = b * bs + bs + bs /\ q * bs = bs * q
      BY <1>1, <2>1, <3>1
    <3>3. b * bs + bs <= N
      BY <1>1, <1>5, <2>1, <3>2
    <3>4. BlockSize(b) = bs
      BY <1>3, <2>1, <3>3
    <3> QED
      BY <1>1, <2>1, <2>2, <3>3, <3>4
  <2>3. CASE b = q - 1
    <3>1. b * bs = bs * q - bs
      BY <1>1, <2>3
    <3>2. CASE b * bs + bs <= N
      <4>1. BlockSize(b) = bs
        BY <1>3, <2>1, <3>2
      <4> QED
        BY <1>1, <1>5, <2>1, <2>3, <3>1, <3>2, <4>1
    <3>3. CASE ~ (b * bs + bs <= N)
      <4>1. PICK t \in 1 .. bs - 1 : N = b * bs + t
        <5>1. N - b * bs \in 1 .. bs - 1 /\ N = b * bs + (N - b * bs)
          BY <1>1, <1>5, <2>1, <3>1, <3>3
        <5> QED
          BY <5>1
      <4>2. N % bs = t
        <5>1. b * bs = bs * b /\ t \in 0 .. bs - 1
          BY <1>1, <2>1
        <5>2. (bs * b + t) % bs = t
          BY <1>1, <2>1, <5>1, DivisionKnown
        <5> QED
          BY <4>1, <5>1, <5>2
      <4>3. BlockSize(b) = t
        BY <1>3, <2>1, <3>3, <4>2
      <4> QED
        BY <1>1, <2>1, <2>3, <4>1, <4>3
    <3> QED
      BY <3>2, <3>3
  <2> QED
    BY <2>2, <2>3
<1> QED
  BY <1>4, <1>5, <1>6 DEF bs, N

(* The block of a position, and the place in it.                           *)
LEMMA PositionInBlock ==
  ASSUME level \in Levels, NEW i \in 0 .. m_size - 1
  PROVE  /\ i \div block_size \in 0 .. m_blocks - 1
         /\ i % block_size \in 0 .. BlockSize(i \div block_size) - 1
         /\ i = (i \div block_size) * block_size + (i % block_size)
<1>1. block_size \in Nat \ {0} /\ m_size \in Nat \ {0}
  BY LevelFacts, BlockSequenceAssumption
<1>2. PICK q \in Nat, r \in 0 .. block_size - 1 :
        q = i \div block_size /\ r = i % block_size /\ i = block_size * q + r
  BY <1>1, Division
<1>3. PICK c \in Nat \ {0} : c = m_blocks
  BY Blocks
<1>4. PICK last \in Nat : last = (c - 1) * block_size /\ last + BlockSize(c - 1) = m_size
                          /\ BlockSize(c - 1) \in 1 .. block_size
  <2>1. c - 1 \in 0 .. m_blocks - 1
    BY <1>3
  <2> QED
    BY <1>3, <2>1, Blocks
<1>5. q * block_size = block_size * q /\ block_size * q \in Nat
  BY <1>1
<1>6. q < c
  <2> SUFFICES ASSUME c <= q PROVE FALSE
    OBVIOUS
  <2>1. c * block_size <= q * block_size /\ c * block_size = last + block_size
    BY <1>1, <1>4
  <2> QED
    BY <1>1, <1>2, <1>4, <1>5, <2>1
<1>7. r < BlockSize(q)
  <2>1. CASE q = c - 1
    BY <1>1, <1>2, <1>4, <1>5, <2>1
  <2>2. CASE q # c - 1
    <3>1. q \in 0 .. m_blocks - 1 /\ q # m_blocks - 1
      BY <1>3, <1>6, <2>2
    <3>2. BlockSize(q) = block_size
      BY <3>1, Blocks
    <3> QED
      BY <1>1, <1>2, <3>2
  <2> QED
    BY <2>1, <2>2
<1>8. q \in 0 .. m_blocks - 1
  BY <1>3, <1>6
<1>9. BlockSize(q) \in Nat
  BY <1>1, <1>8, Blocks
<1>10. r \in 0 .. BlockSize(q) - 1
  BY <1>7, <1>9
<1> QED
  BY <1>2, <1>5, <1>8, <1>10

(* A place in a block is a position.                                       *)
LEMMA PlaceInBlock ==
  ASSUME level \in Levels, NEW b \in 0 .. m_blocks - 1, NEW k \in 0 .. BlockSize(b) - 1
  PROVE  /\ b * block_size + k \in 0 .. m_size - 1
         /\ (b * block_size + k) \div block_size = b
         /\ (b * block_size + k) % block_size = k
<1>1. /\ block_size \in Nat \ {0} /\ m_size \in Nat /\ BlockSize(b) \in 1 .. block_size
      /\ b * block_size \in Nat /\ b * block_size + BlockSize(b) <= m_size /\ m_blocks \in Nat
  BY LevelFacts, Blocks, BlockSequenceAssumption
<1>2. b \in Nat /\ k \in 0 .. block_size - 1 /\ b * block_size = block_size * b
  BY <1>1
<1>3. (block_size * b + k) \div block_size = b /\ (block_size * b + k) % block_size = k
  BY <1>1, <1>2, DivisionKnown
<1>4. b * block_size + k \in 0 .. m_size - 1
  BY <1>1, <1>2
<1> QED
  BY <1>2, <1>3, <1>4
-----------------------------------------------------------------------------
(* The block's numbers, and its bound, are where they are looked for.      *)
Stored(b) ==
  /\ upper_bounds[b + 1] = level.from[b * block_size + BlockSize(b)]
  /\ Written(data, IF b = 0 THEN 0 ELSE endpoints[b], Block(b))

AllStored ==
  /\ level \in Levels
  /\ data \in Seq(byte) /\ endpoints \in Seq(Nat)
  /\ Len(endpoints) = m_blocks - 1
  /\ \A b \in 0 .. m_blocks - 1 : Stored(b)

(* An iterator, and the one at a position, with some value.                *)
Fields(b, buffer, pos, v) == [block |-> b, buffer |-> buffer, pos |-> pos, val |-> v]
It(i, v) == Fields(i \div block_size, Block(i \div block_size), i % block_size, v)

(* The iterator that a position should have.                               *)
NodeAt(i) == It(i, level.from[i + 1])

(* A block's numbers are those that its nodes differ by.                   *)
LEMMA BlockNumbers ==
  ASSUME level \in Levels, NEW b \in 0 .. m_blocks - 1
  PROVE  /\ Block(b) \in Seq(Small) /\ Block(b) \in Seq(Nat) /\ Len(Block(b)) = BlockSize(b)
         /\ \A k \in 0 .. BlockSize(b) - 1 :
              Block(b)[k + 1] = Difference(b * block_size + k + 1)
<1>1. PICK s \in Nat \ {0} : s = BlockSize(b)
  BY Blocks, BlockSequenceAssumption
<1>2. b * block_size \in Nat
  BY Blocks
<1>3. ASSUME NEW k \in 0 .. s - 1
      PROVE  b * block_size + (k + 1) \in 1 .. m_size /\ b * block_size + (k + 1) = b * block_size + k + 1
  <2>1. b * block_size + k \in 0 .. m_size - 1 /\ m_size \in Nat
    BY <1>1, PlaceInBlock, LevelFacts
  <2> QED
    BY <1>2, <2>1
<1>4. \A k \in 1 .. s : /\ Difference(b * block_size + k) \in Small
                        /\ Difference(b * block_size + k) \in Nat
  <2> TAKE k \in 1 .. s
  <2>1. k - 1 \in 0 .. s - 1 /\ (k - 1) + 1 = k
    OBVIOUS
  <2>2. b * block_size + k \in 1 .. m_size
    BY <1>3, <2>1
  <2> QED
    BY <2>2, Differences
<1>5. Block(b) = [k \in 1 .. s |-> Difference(b * block_size + k)]
  BY <1>1 DEF Block
<1>6. \A k \in 0 .. s - 1 : Block(b)[k + 1] = Difference(b * block_size + k + 1)
  <2> TAKE k \in 0 .. s - 1
  <2>1. k + 1 \in 1 .. s
    OBVIOUS
  <2> QED
    BY <1>3, <1>5, <2>1
<1>7. Block(b) \in [1 .. s -> Small] /\ Block(b) \in [1 .. s -> Nat]
  BY <1>4, <1>5
<1>8. Block(b) \in Seq(Small) /\ Block(b) \in Seq(Nat) /\ Len(Block(b)) = s
  BY <1>5, <1>7
<1> QED
  BY <1>1, <1>6, <1>8

(* decode_block reads the block; where it begins in the middle of a range, *)
(* or of the sequence, its first value is the node.                        *)
LEMMA BlockDecoded ==
  ASSUME AllStored, NEW b \in 0 .. m_blocks - 1
  PROVE  /\ \E v \in Int : decode_block(b) = It(b * block_size, v)
         /\ b = 0 \/ ~ First(b * block_size + 1) => decode_block(b) = NodeAt(b * block_size)
<1>0. level \in Levels
  BY DEF AllStored
<1> DEFINE start == IF b = 0 THEN 0 ELSE endpoints[b]
           prev == IF b = 0 THEN -1 ELSE upper_bounds[b]
           d == Difference(b * block_size + 1)
<1>1. b \in Nat /\ m_blocks \in Nat \ {0} /\ BlockSize(b) \in Nat \ {0} /\ b * block_size \in Nat
  BY <1>0, Blocks, BlockSequenceAssumption
<1>2. start \in Nat
  BY <1>1 DEF AllStored
<1>3. Block(b) \in Seq(Small) /\ Len(Block(b)) = BlockSize(b) /\ Block(b)[1] = d
  <2>1. 0 \in 0 .. BlockSize(b) - 1 /\ 0 + 1 = 1 /\ b * block_size + 0 + 1 = b * block_size + 1
    BY <1>1
  <2>2. Block(b)[0 + 1] = Difference(b * block_size + 0 + 1)
    BY <1>0, <2>1, BlockNumbers
  <2> QED
    BY <1>0, <2>1, <2>2, BlockNumbers
<1>4. decode(data, start, BlockSize(b)) = Block(b)
  <2>1. data \in Seq(byte) /\ Written(data, start, Block(b))
    BY DEF AllStored, Stored
  <2> QED
    BY <1>2, <1>3, <2>1, DecodeWritten
<1>5. decode_block(b) = [block |-> b, buffer |-> Block(b), pos |-> 0, val |-> d + prev + 1]
  BY <1>3, <1>4 DEF decode_block
<1>6. /\ b * block_size \in 0 .. m_size - 1
      /\ (b * block_size) \div block_size = b /\ (b * block_size) % block_size = 0
  <2>1. 0 \in 0 .. BlockSize(b) - 1 /\ b * block_size + 0 = b * block_size
    BY <1>1
  <2>2. /\ b * block_size + 0 \in 0 .. m_size - 1
        /\ (b * block_size + 0) \div block_size = b /\ (b * block_size + 0) % block_size = 0
    BY <1>0, <2>1, PlaceInBlock
  <2> QED
    BY <2>1, <2>2
<1>7. decode_block(b) = It(b * block_size, d + prev + 1)
  BY <1>5, <1>6 DEF It, Fields
<1>8. m_size \in Nat \ {0}
  BY <1>0, LevelFacts
<1>9. b * block_size + 1 \in 1 .. m_size
  BY <1>1, <1>6, <1>8
<1>10. d \in Nat /\ (First(b * block_size + 1) => d = level.from[b * block_size + 1])
       /\ (~ First(b * block_size + 1) =>
             level.from[b * block_size + 1] = level.from[(b * block_size + 1) - 1] + d + 1)
  BY <1>0, <1>9, Differences
<1>11. CASE b = 0
  <2>1. prev = -1 /\ b * block_size = 0 /\ b * block_size + 1 = 1
    BY <1>11, BlockSequenceAssumption
  <2>2. First(b * block_size + 1)
    <3>1. 1 \in 1 .. Len(level.pointers) - 1 /\ level.pointers[1] = 0
      BY <1>0, LevelFacts
    <3> QED
      BY <2>1, <3>1 DEF First
  <2>3. d + prev + 1 = level.from[b * block_size + 1] /\ d + prev + 1 \in Int
    BY <1>10, <2>1, <2>2
  <2> QED
    BY <1>7, <2>3 DEF NodeAt
<1>12. CASE b # 0
  <2>1. b - 1 \in 0 .. m_blocks - 1 /\ b - 1 # m_blocks - 1 /\ (b - 1) + 1 = b
    BY <1>1, <1>12
  <2>2. prev = level.from[(b - 1) * block_size + BlockSize(b - 1)]
    BY <1>12, <2>1 DEF AllStored, Stored
  <2>3. (b - 1) * block_size + BlockSize(b - 1) = b * block_size
    <3>1. BlockSize(b - 1) = block_size
      BY <1>0, <2>1, Blocks
    <3>2. (b - 1) * block_size + block_size = b * block_size
      BY <1>1, BlockSequenceAssumption
    <3> QED
      BY <3>1, <3>2
  <2>4. b * block_size \in 1 .. m_size
    <3>1. b * block_size >= block_size
      BY <1>1, <1>12, BlockSequenceAssumption
    <3> QED
      BY <1>6, <1>8, <3>1, BlockSequenceAssumption
  <2>5. prev = level.from[b * block_size] /\ prev \in Nat
    BY <1>0, <2>2, <2>3, <2>4, LevelFacts
  <2>6. d + prev + 1 \in Int
    BY <1>10, <2>5
  <2>7. ~ First(b * block_size + 1) => d + prev + 1 = level.from[b * block_size + 1]
    <3>1. (b * block_size + 1) - 1 = b * block_size
      BY <1>1
    <3> QED
      BY <1>10, <2>5, <3>1
  <2> QED
    BY <1>7, <1>12, <2>6, <2>7 DEF NodeAt
<1> QED
  BY <1>11, <1>12
-----------------------------------------------------------------------------
(* An iterator at a position says so.                                      *)
LEMMA ItFacts ==
  ASSUME level \in Levels, NEW i \in 0 .. m_size - 1, NEW v
  PROVE  /\ position(It(i, v)) = i
         /\ It(i, v).buffer \in Seq(Nat) /\ Len(It(i, v).buffer) = BlockSize(i \div block_size)
         /\ It(i, v).pos \in 0 .. Len(It(i, v).buffer) - 1
<1>1. /\ i \div block_size \in 0 .. m_blocks - 1
      /\ i % block_size \in 0 .. BlockSize(i \div block_size) - 1
      /\ i = (i \div block_size) * block_size + (i % block_size)
  BY PositionInBlock
<1>2. /\ It(i, v).block = i \div block_size /\ It(i, v).buffer = Block(i \div block_size)
      /\ It(i, v).pos = i % block_size
  BY DEF It, Fields
<1>3. Block(i \div block_size) \in Seq(Nat)
      /\ Len(Block(i \div block_size)) = BlockSize(i \div block_size)
  BY <1>1, BlockNumbers
<1> QED
  BY <1>1, <1>2, <1>3 DEF position

(* An iterator one difference further.                                     *)
Moved(b, buf, k, v) == Fields(b, buf, k + 1, v + buf[k + 2] + 1)

(* What further and switch_range change of an iterator.                    *)
LEMMA IteratorFields ==
  ASSUME NEW b, NEW buf, NEW k, NEW v, NEW pos
  PROVE  /\ further(Fields(b, buf, k, v)) = Moved(b, buf, k, v)
         /\ switch_range(Fields(b, buf, k, v), pos) = Fields(b, buf, pos, buf[pos + 1])
<1> DEFINE x == [block |-> b, buffer |-> buf, pos |-> k, val |-> v]
<1>1. x.block = b /\ x.buffer = buf /\ x.pos = k /\ x.val = v
  OBVIOUS
<1>2. ASSUME NEW p, NEW w
      PROVE  [x EXCEPT !.pos = p, !.val = w] = [block |-> b, buffer |-> buf, pos |-> p, val |-> w]
  <2> DEFINE y == [block |-> b, buffer |-> buf, pos |-> p, val |-> v]
  <2>1. [x EXCEPT !.pos = p] = y
    OBVIOUS
  <2>2. [y EXCEPT !.val = w] = [block |-> b, buffer |-> buf, pos |-> p, val |-> w]
    OBVIOUS
  <2> HIDE DEF x, y
  <2>3. [x EXCEPT !.pos = p, !.val = w] = [[x EXCEPT !.pos = p] EXCEPT !.val = w]
    OBVIOUS
  <2> QED
    BY <2>1, <2>2, <2>3
<1>3. further(x) = [x EXCEPT !.pos = x.pos + 1, !.val = x.val + x.buffer[x.pos + 2] + 1]
  BY DEF further
<1>4. switch_range(x, pos) = [x EXCEPT !.pos = pos, !.val = x.buffer[pos + 1]]
  BY DEF switch_range
<1> HIDE DEF x
<1>5. further(x) = [block |-> b, buffer |-> buf, pos |-> k + 1, val |-> v + buf[k + 2] + 1]
  BY <1>1, <1>2, <1>3
<1>6. switch_range(x, pos) = [block |-> b, buffer |-> buf, pos |-> pos, val |-> buf[pos + 1]]
  BY <1>1, <1>2, <1>4
<1> QED
  BY <1>5, <1>6 DEF x, Fields, Moved

(* One step within a block.                                                *)
LEMMA FurtherStep ==
  ASSUME level \in Levels, NEW i \in 0 .. m_size - 1, NEW v \in Int,
         (i % block_size) + 1 # BlockSize(i \div block_size)
  PROVE  /\ i + 1 \in 0 .. m_size - 1
         /\ (i + 1) \div block_size = i \div block_size
         /\ further(It(i, v)) = It(i + 1, v + Difference(i + 2) + 1)
         /\ Difference(i + 2) \in Nat
         /\ ~ First(i + 2) => further(NodeAt(i)) = NodeAt(i + 1)
<1>0. PICK b \in 0 .. m_blocks - 1 : b = i \div block_size
  BY PositionInBlock
<1>1. PICK k \in 0 .. BlockSize(b) - 1 :
        b = i \div block_size /\ k = i % block_size /\ i = b * block_size + k
  BY <1>0, PositionInBlock
<1>2. m_size \in Nat /\ BlockSize(b) \in Nat /\ b * block_size \in Nat
  BY LevelFacts, Blocks, BlockSequenceAssumption
<1>3. k + 1 \in 0 .. BlockSize(b) - 1 /\ b * block_size + (k + 1) = i + 1 /\ k + 2 = (k + 1) + 1
      /\ b * block_size + (k + 1) + 1 = i + 2
  BY <1>1, <1>2
<1>4. i + 1 \in 0 .. m_size - 1 /\ (i + 1) \div block_size = b /\ (i + 1) % block_size = k + 1
  <2>1. /\ b * block_size + (k + 1) \in 0 .. m_size - 1
        /\ (b * block_size + (k + 1)) \div block_size = b
        /\ (b * block_size + (k + 1)) % block_size = k + 1
    BY <1>3, PlaceInBlock
  <2> QED
    BY <1>3, <2>1
<1>5. Block(b)[k + 2] = Difference(i + 2)
  <2>1. Block(b)[(k + 1) + 1] = Difference(b * block_size + (k + 1) + 1)
    BY <1>3, BlockNumbers
  <2> QED
    BY <1>3, <2>1
<1>6. ASSUME NEW w
      PROVE  further(It(i, w)) = It(i + 1, w + Difference(i + 2) + 1)
  <2>1. It(i, w) = Fields(b, Block(b), k, w)
    BY <1>1 DEF It
  <2>2. It(i + 1, w + Difference(i + 2) + 1) =
          Fields(b, Block(b), k + 1, w + Difference(i + 2) + 1)
    BY <1>4 DEF It
  <2>3. further(It(i, w)) = Moved(b, Block(b), k, w)
    BY <2>1, IteratorFields
  <2>4. further(It(i, w)) = Fields(b, Block(b), k + 1, w + Block(b)[k + 2] + 1)
    BY <2>3 DEF Moved
  <2> QED
    BY <1>5, <2>2, <2>4
<1>7. i + 2 \in 1 .. m_size /\ (i + 2) - 1 = i + 1
  BY <1>2, <1>4
<1>8. Difference(i + 2) \in Nat
  BY <1>7, Differences
<1>9. ~ First(i + 2) => further(NodeAt(i)) = NodeAt(i + 1)
  <2> SUFFICES ASSUME ~ First(i + 2) PROVE further(NodeAt(i)) = NodeAt(i + 1)
    OBVIOUS
  <2>1. level.from[i + 2] = level.from[i + 1] + Difference(i + 2) + 1
    BY <1>7, Differences
  <2>2. (i + 1) + 1 = i + 2
    OBVIOUS
  <2> QED
    BY <1>6, <2>1, <2>2 DEF NodeAt
<1> QED
  BY <1>1, <1>4, <1>6, <1>8, <1>9

(* The first of the next block.                                            *)
LEMMA NextBlock ==
  ASSUME level \in Levels, NEW i \in 0 .. m_size - 1, i + 1 < m_size,
         (i % block_size) + 1 = BlockSize(i \div block_size)
  PROVE  /\ i \div block_size + 1 \in 0 .. m_blocks - 1
         /\ i \div block_size + 1 # m_blocks
         /\ (i \div block_size + 1) * block_size = i + 1
<1>0. PICK b \in 0 .. m_blocks - 1 : b = i \div block_size
  BY PositionInBlock
<1>1. PICK k \in 0 .. BlockSize(b) - 1 :
        b = i \div block_size /\ k = i % block_size /\ i = b * block_size + k
  BY <1>0, PositionInBlock
<1>2. m_size \in Nat /\ BlockSize(b) \in Nat /\ b * block_size \in Nat /\ m_blocks \in Nat
      /\ block_size \in Nat
  BY LevelFacts, Blocks, BlockSequenceAssumption
<1>3. k + 1 = BlockSize(b)
  BY <1>1
<1>4. b # m_blocks - 1
  <2>1. b = m_blocks - 1 => b * block_size + BlockSize(b) = m_size
    BY Blocks
  <2> QED
    BY <1>1, <1>2, <1>3, <2>1
<1>5. BlockSize(b) = block_size
  BY <1>4, Blocks
<1>6. (b + 1) * block_size = b * block_size + block_size
  BY <1>2
<1>7. (b + 1) * block_size = i + 1
  BY <1>1, <1>2, <1>3, <1>5, <1>6
<1>8. b + 1 \in 0 .. m_blocks - 1 /\ b + 1 # m_blocks
  BY <1>2, <1>4
<1> QED
  BY <1>1, <1>7, <1>8

(* One step to the next position, in the same block or the next. Within a  *)
(* range it gives the next node.                                           *)
LEMMA NextStep ==
  ASSUME AllStored, NEW i \in 0 .. m_size - 1, i + 1 < m_size, NEW v \in Int
  PROVE  /\ i + 1 \in 0 .. m_size - 1
         /\ \E w \in Int : iterator_next(It(i, v)) = It(i + 1, w)
         /\ ~ First(i + 2) => iterator_next(NodeAt(i)) = NodeAt(i + 1)
<1>0. level \in Levels
  BY DEF AllStored
<1>1. m_size \in Nat /\ i + 1 \in 0 .. m_size - 1
  BY <1>0, LevelFacts
<1>2. ASSUME NEW w
      PROVE  /\ Len(It(i, w).buffer) = BlockSize(i \div block_size)
             /\ It(i, w).pos = i % block_size /\ It(i, w).block = i \div block_size
  <2>1. Len(It(i, w).buffer) = BlockSize(i \div block_size)
    BY <1>0, ItFacts
  <2> QED
    BY <2>1 DEF It, Fields
<1>3. level.from[i + 1] \in Int
  <2>1. i + 1 \in 1 .. m_size
    BY <1>1
  <2> QED
    BY <1>0, <2>1, LevelFacts
<1>4. CASE (i % block_size) + 1 # BlockSize(i \div block_size)
  <2>1. \A w : iterator_next(It(i, w)) = further(It(i, w))
    BY <1>2, <1>4 DEF iterator_next
  <2>2. /\ further(It(i, v)) = It(i + 1, v + Difference(i + 2) + 1)
        /\ Difference(i + 2) \in Nat
        /\ ~ First(i + 2) => further(NodeAt(i)) = NodeAt(i + 1)
    BY <1>0, <1>4, FurtherStep
  <2>3. v + Difference(i + 2) + 1 \in Int
    BY <2>2
  <2> QED
    BY <1>1, <2>1, <2>2, <2>3 DEF NodeAt
<1>5. CASE (i % block_size) + 1 = BlockSize(i \div block_size)
  <2>1. PICK b \in 0 .. m_blocks - 1 : b = i \div block_size + 1 /\ b # m_blocks /\ b * block_size = i + 1
    BY <1>0, <1>5, NextBlock
  <2>2. \A w : iterator_next(It(i, w)) = decode_block(b)
    BY <1>2, <1>5, <2>1 DEF iterator_next
  <2>3. \E w \in Int : decode_block(b) = It(i + 1, w)
    BY <2>1, BlockDecoded
  <2>4. ~ First(i + 2) => decode_block(b) = NodeAt(i + 1)
    <3>1. b * block_size + 1 = i + 2
      BY <2>1
    <3> QED
      BY <2>1, <3>1, BlockDecoded
  <2> QED
    BY <1>1, <2>2, <2>3, <2>4 DEF NodeAt
<1> QED
  BY <1>4, <1>5

(* Where a range begins, switch_range gives its first node.                *)
LEMMA Switched ==
  ASSUME level \in Levels, NEW i \in 0 .. m_size - 1, NEW v,
         NEW j \in 0 .. m_size - 1, j \div block_size = i \div block_size, First(j + 1)
  PROVE  switch_range(It(i, v), j % block_size) = NodeAt(j)
<1>0. PICK b \in 0 .. m_blocks - 1 : b = j \div block_size
  BY PositionInBlock
<1>1. PICK k \in 0 .. BlockSize(b) - 1 :
        b = j \div block_size /\ k = j % block_size /\ j = b * block_size + k
  BY <1>0, PositionInBlock
<1>2. Block(b)[k + 1] = Difference(j + 1)
  BY <1>1, BlockNumbers
<1>3. j + 1 \in 1 .. m_size
  BY LevelFacts
<1>4. Difference(j + 1) = level.from[j + 1]
  BY <1>3, Differences
<1>5. It(i, v) = Fields(b, Block(b), i % block_size, v)
  BY <1>1 DEF It
<1>6. switch_range(It(i, v), k) = Fields(b, Block(b), k, Block(b)[k + 1])
  BY <1>5, IteratorFields
<1> QED
  BY <1>1, <1>2, <1>4, <1>6 DEF NodeAt, It

(* The positions of a range: in the sequence, and only the first begins it.*)
LEMMA RangePositions ==
  ASSUME level \in Levels, NEW p \in 0 .. Len(level.pointers) - 2
  PROVE  /\ RangeAt(level.pointers, p).begin = level.pointers[p + 1]
         /\ RangeAt(level.pointers, p).end = level.pointers[p + 2]
         /\ level.pointers[p + 1] \in Nat /\ level.pointers[p + 2] \in Nat
         /\ level.pointers[p + 1] < level.pointers[p + 2] /\ level.pointers[p + 2] <= m_size
         /\ \A i \in level.pointers[p + 1] .. level.pointers[p + 2] - 1 :
              i \in 0 .. m_size - 1 /\ (First(i + 1) <=> i = level.pointers[p + 1])
<1>1. PICK n \in Nat : n = Len(level.pointers) /\ n > 1
  BY LevelFacts
<1>2. p + 1 \in 1 .. n - 1 /\ p + 1 \in 1 .. n /\ p + 2 \in 1 .. n /\ (p + 1) + 1 = p + 2
  BY <1>1
<1>3. /\ level.pointers[p + 1] \in Nat /\ level.pointers[p + 2] \in Nat /\ m_size \in Nat
      /\ level.pointers[p + 1] < level.pointers[p + 2] /\ level.pointers[n] = m_size
  BY <1>1, <1>2, LevelFacts
<1>4. level.pointers[p + 2] <= m_size
  <2>1. CASE p + 2 = n
    BY <1>3, <2>1
  <2>2. CASE p + 2 # n
    <3>1. p + 2 < n /\ n \in 1 .. n
      BY <1>1, <1>2, <2>2
    <3>2. level.pointers[p + 2] < level.pointers[n]
      BY <1>1, <1>2, <3>1, PointersIncrease
    <3> QED
      BY <1>3, <3>2
  <2> QED
    BY <2>1, <2>2
<1>5. ASSUME NEW i \in level.pointers[p + 1] .. level.pointers[p + 2] - 1
      PROVE  i \in 0 .. m_size - 1 /\ (First(i + 1) <=> i = level.pointers[p + 1])
  <2>1. i + 1 \in level.pointers[p + 1] + 1 .. level.pointers[(p + 1) + 1]
    BY <1>2, <1>3
  <2>2. First(i + 1) <=> i + 1 = level.pointers[p + 1] + 1
    BY <1>1, <1>2, <2>1, FirstInRange
  <2>3. i \in 0 .. m_size - 1
    BY <1>3, <1>4
  <2> QED
    BY <1>3, <2>2, <2>3
<1> QED
  BY <1>3, <1>4, <1>5 DEF RangeAt

(* An iterator of a range begins at its first node.                        *)
LEMMA RangeBegins ==
  ASSUME AllStored, NEW p \in 0 .. Len(level.pointers) - 2
  PROVE  range_iterator(RangeAt(level.pointers, p)) = NodeAt(level.pointers[p + 1])
<1>0. level \in Levels
  BY DEF AllStored
<1>1. PICK i \in 0 .. m_size - 1 :
        i = level.pointers[p + 1] /\ i = RangeAt(level.pointers, p).begin /\ First(i + 1)
  <2>1. level.pointers[p + 1] \in level.pointers[p + 1] .. level.pointers[p + 2] - 1
    <3>1. /\ level.pointers[p + 1] \in Nat /\ level.pointers[p + 2] \in Nat
          /\ level.pointers[p + 1] < level.pointers[p + 2]
      BY <1>0, RangePositions
    <3> QED
      BY <3>1
  <2> QED
    BY <1>0, <2>1, RangePositions
<1>2. PICK b \in 0 .. m_blocks - 1 : b = i \div block_size
  BY <1>0, PositionInBlock
<1>3. PICK v \in Int : decode_block(b) = It(b * block_size, v)
  BY BlockDecoded
<1>4. b * block_size \in 0 .. m_size - 1 /\ (b * block_size) \div block_size = b
  <2>1. 0 \in 0 .. BlockSize(b) - 1 /\ b * block_size + 0 = b * block_size
    BY <1>0, Blocks, BlockSequenceAssumption
  <2>2. /\ b * block_size + 0 \in 0 .. m_size - 1
        /\ (b * block_size + 0) \div block_size = b
    BY <1>0, <2>1, PlaceInBlock
  <2> QED
    BY <2>1, <2>2
<1>5. switch_range(It(b * block_size, v), i % block_size) = NodeAt(i)
  BY <1>0, <1>1, <1>2, <1>4, Switched
<1> QED
  BY <1>1, <1>2, <1>3, <1>5 DEF range_iterator

(* In a block, within a range, one goes from node to node.                 *)
LEMMA FurtherInRange ==
  ASSUME level \in Levels, NEW p \in 0 .. Len(level.pointers) - 2,
         NEW b \in 0 .. m_blocks - 1, NEW k \in 0 .. BlockSize(b) - 1, k + 1 < BlockSize(b),
         level.pointers[p + 1] <= b * block_size + k,
         b * block_size + (k + 1) < level.pointers[p + 2]
  PROVE  further(NodeAt(b * block_size + k)) = NodeAt(b * block_size + (k + 1))
<1>1. PICK i \in 0 .. m_size - 1 :
        i = b * block_size + k /\ i \div block_size = b /\ i % block_size = k
  BY PlaceInBlock
<1>2. b * block_size \in Nat /\ BlockSize(b) \in Nat
  BY Blocks, BlockSequenceAssumption
<1>3. i + 1 = b * block_size + (k + 1) /\ k + 1 # BlockSize(b)
  BY <1>1, <1>2
<1>4. ~ First(i + 2)
  <2>1. level.pointers[p + 1] \in Nat /\ level.pointers[p + 2] \in Nat
    BY RangePositions
  <2>2. i + 1 \in level.pointers[p + 1] .. level.pointers[p + 2] - 1 /\ i + 1 # level.pointers[p + 1]
        /\ (i + 1) + 1 = i + 2
    BY SMTT(30), <1>1, <1>3, <2>1
  <2> QED
    BY <2>2, RangePositions
<1>5. level.from[i + 1] \in Int
  <2>1. i + 1 \in 1 .. m_size
    BY LevelFacts
  <2> QED
    BY SMTT(30), <2>1, LevelFacts
<1>6. further(NodeAt(i)) = NodeAt(i + 1)
  BY <1>1, <1>3, <1>4, <1>5, FurtherStep
<1> QED
  BY <1>1, <1>3, <1>6

(* access goes to the node of its position.                                *)
LEMMA AtPosition ==
  ASSUME AllStored, NEW p \in 0 .. Len(level.pointers) - 2,
         NEW pos \in level.pointers[p + 1] .. level.pointers[p + 2] - 1
  PROVE  at(RangeAt(level.pointers, p), pos) = NodeAt(pos)
<1>0. level \in Levels
  BY DEF AllStored
<1>1. PICK a \in 0 .. m_size - 1 : a = level.pointers[p + 1] /\ a <= pos
  <2>1. /\ level.pointers[p + 1] \in Nat /\ level.pointers[p + 2] \in Nat
        /\ level.pointers[p + 1] < level.pointers[p + 2]
    BY <1>0, RangePositions
  <2>2. level.pointers[p + 1] \in level.pointers[p + 1] .. level.pointers[p + 2] - 1
    BY <2>1
  <2>3. level.pointers[p + 1] \in 0 .. m_size - 1
    BY <1>0, <2>2, RangePositions
  <2>4. level.pointers[p + 1] <= pos
    BY <2>1
  <2> QED
    BY <2>3, <2>4
<1>2. pos \in 0 .. m_size - 1
  BY <1>0, RangePositions
<1>3. PICK b \in 0 .. m_blocks - 1 : b = pos \div block_size
  BY <1>0, <1>2, PositionInBlock
<1>4. PICK c \in Nat, hi \in 0 .. BlockSize(b) - 1 :
        c = b * block_size /\ hi = pos % block_size /\ pos = c + hi
  BY <1>0, <1>2, <1>3, PositionInBlock, Blocks
<1>5. /\ block_size \in Nat \ {0} /\ m_size \in Nat /\ BlockSize(b) \in 1 .. block_size
      /\ BlockSize(b) \in Nat \ {0} /\ a \in Nat
  <2>1. block_size \in Nat \ {0} /\ m_size \in Nat
    BY <1>0, LevelFacts, BlockSequenceAssumption
  <2>2. BlockSize(b) \in 1 .. block_size
    BY <1>0, Blocks
  <2> QED
    BY <2>1, <2>2
<1> DEFINE x == NodeAt(a)
           from == IF pos \div block_size # x.block THEN decode_block(pos \div block_size) ELSE x
           Dom == from.pos .. pos % block_size
           Recursive(f) == f = [k \in Dom |-> IF k = from.pos THEN from ELSE further(f[k - 1])]
           walk == CHOOSE f : Recursive(f)
<1>6. at(RangeAt(level.pointers, p), pos) =
        IF position(from) < pos THEN walk[pos % block_size] ELSE from
  <2>1. range_iterator(RangeAt(level.pointers, p)) = x
    BY <1>1, RangeBegins
  <2> HIDE DEF x
  <2> QED
    BY <2>1 DEF at, iterator_access
<1>7. PICK lo \in 0 .. hi : from = NodeAt(c + lo) /\ a <= c + lo
  <2>1. x.block = a \div block_size
    BY DEF NodeAt, It, Fields
  <2>2. PICK q \in 0 .. m_blocks - 1, r \in Nat :
          q = a \div block_size /\ r = a % block_size /\ r < block_size /\ a = q * block_size + r
    <3>1. a \div block_size \in 0 .. m_blocks - 1 /\ a = (a \div block_size) * block_size + (a % block_size)
      BY <1>0, PositionInBlock
    <3>2. PICK r \in 0 .. block_size - 1 : r = a % block_size
      BY <1>5, Division
    <3>3. r \in Nat /\ r < block_size
      BY <1>5, <3>2
    <3> QED
      BY <3>1, <3>2, <3>3
  <2>3. CASE q = b
    <3>1. from = NodeAt(a)
      BY <1>3, <2>1, <2>2, <2>3
    <3>2. a = c + r
      BY <1>4, <2>2, <2>3
    <3>3. r \in 0 .. hi
      <4> HIDE DEF from, x
      <4>1. c + r <= c + hi /\ hi \in Nat
        BY <1>1, <1>4, <1>5, <3>2
      <4> QED
        BY <1>4, <2>2, <4>1
    <3>4. from = NodeAt(c + r) /\ a <= c + r
      BY <1>5, <3>1, <3>2
    <3> HIDE DEF from
    <3> QED
      BY <3>3, <3>4
  <2>4. CASE q # b
    <3>1. from = decode_block(b)
      BY <1>3, <2>1, <2>2, <2>4
    <3>2. q * block_size \in Nat
      BY <1>0, Blocks
    <3>3. q < b
      <4> SUFFICES ASSUME b + 1 <= q PROVE FALSE
        BY <2>4
      <4>1. (b + 1) * block_size <= q * block_size /\ (b + 1) * block_size = c + block_size
        BY <1>4, <1>5
      <4>2. hi < block_size /\ hi \in Nat
        <5> HIDE DEF from, x
        <5> QED
          BY <1>4, <1>5
      <4>3. q * block_size <= a
        BY <1>5, <2>2, <3>2
      <4>4. a <= c + hi
        BY <1>1, <1>4
      <4>5. c + block_size <= a
        <5> HIDE DEF from, x
        <5>1. PICK e \in Nat : e = q * block_size
          BY <3>2
        <5>2. PICK f \in Nat : f = (b + 1) * block_size /\ f = c + block_size
          BY <1>4, <1>5, <4>1
        <5>3. f <= e /\ e <= a
          BY <4>1, <4>3, <5>1, <5>2
        <5> QED
          BY SMTT(30), <1>5, <5>1, <5>2, <5>3
      <4> HIDE DEF from, x
      <4> QED
        BY <1>4, <1>5, <4>2, <4>4, <4>5
    <3>4. a < c
      <4>1. (q + 1) * block_size <= b * block_size /\ (q + 1) * block_size = q * block_size + block_size
        BY <1>5, <3>3
      <4>2. a < q * block_size + block_size
        BY <1>5, <2>2, <3>2
      <4> HIDE DEF from, x
      <4>3. PICK e \in Nat : e = q * block_size
        BY <3>2
      <4>4. e + block_size <= c /\ a < e + block_size
        BY <1>4, <4>1, <4>2, <4>3
      <4>5. c \in Nat /\ a \in Nat /\ block_size \in Nat
        BY <1>4, <1>5
      <4>6. e + block_size <= c /\ a < e + block_size /\ e \in Nat
        BY <4>4
      <4> QED
        BY <4>5, <4>6
    <3>5. /\ level.pointers[p + 1] \in Nat /\ level.pointers[p + 2] \in Nat
      BY <1>0, RangePositions
    <3>6. c \in level.pointers[p + 1] .. level.pointers[p + 2] - 1 /\ c # level.pointers[p + 1]
      <4>1. PICK u \in Nat, w \in Nat : u = level.pointers[p + 1] /\ w = level.pointers[p + 2]
        BY <3>5
      <4>2. pos \in u .. w - 1 /\ u = a
        BY <1>1, <4>1
      <4>3. pos = c + hi /\ c \in Nat /\ hi \in Nat
        BY <1>4, <1>5
      <4>4. c \in u .. w - 1 /\ c # u
        BY SMTT(30), <1>5, <3>4, <4>1, <4>2, <4>3
      <4> QED
        BY <4>1, <4>4
    <3>7. ~ First(b * block_size + 1)
      BY <1>0, <1>4, <3>6, RangePositions
    <3>8. decode_block(b) = NodeAt(c)
      BY <1>4, <3>7, BlockDecoded
    <3>9. 0 \in 0 .. hi /\ c + 0 = c /\ a <= c + 0
      BY <1>4, <1>5, <3>4
    <3>10. from = NodeAt(c + 0)
      BY <3>1, <3>8, <3>9
    <3> HIDE DEF from
    <3> QED
      BY <3>9, <3>10
  <2> HIDE DEF from
  <2> QED
    BY <2>3, <2>4
<1>8. c + lo \in 0 .. m_size - 1 /\ (c + lo) % block_size = lo
  <2>1. lo \in 0 .. BlockSize(b) - 1
    BY <1>4, <1>5
  <2> QED
    BY <1>0, <1>4, <2>1, PlaceInBlock
<1>9. position(from) = c + lo /\ from.pos = lo
  <2>1. position(NodeAt(c + lo)) = c + lo
    BY <1>0, <1>8, ItFacts DEF NodeAt
  <2>2. NodeAt(c + lo).pos = lo
    BY <1>8 DEF NodeAt, It, Fields
  <2> HIDE DEF from
  <2> QED
    BY <1>7, <2>1, <2>2
<1>10. Dom = lo .. hi
  <2> HIDE DEF from
  <2> QED
    BY <1>4, <1>9
<1>11. ASSUME NEW k \in lo .. hi, k # lo
       PROVE  k - 1 \in lo .. hi /\ further(NodeAt(c + (k - 1))) = NodeAt(c + k)
  <2>1. /\ k - 1 \in lo .. hi /\ k - 1 \in 0 .. BlockSize(b) - 1 /\ (k - 1) + 1 < BlockSize(b)
        /\ (k - 1) + 1 = k
    BY <1>4, <1>5, <1>11
  <2>2. level.pointers[p + 1] <= c + (k - 1) /\ c + k < level.pointers[p + 2]
    <3>1. PICK u \in Nat, w \in Nat : u = level.pointers[p + 1] /\ w = level.pointers[p + 2]
      BY <1>0, RangePositions
    <3>2. lo \in Nat /\ hi \in Nat /\ k \in Nat /\ lo <= k - 1 /\ k <= hi /\ c \in Nat
      BY <1>4, <1>5, <1>11
    <3>3. u <= c + lo
      BY <1>1, <1>7, <3>1
    <3>5. pos < w
      BY <3>1
    <3>6. c + hi < w
      BY <1>4, <3>5
    <3>4. u <= c + (k - 1) /\ c + k < w
      BY SMTT(30), <3>1, <3>2, <3>3, <3>6
    <3> QED
      BY <3>1, <3>4
  <2>3. further(NodeAt(b * block_size + (k - 1))) = NodeAt(b * block_size + ((k - 1) + 1))
    BY <1>0, <1>4, <2>1, <2>2, FurtherInRange
  <2> QED
    BY <1>4, <2>1, <2>3
<1>12. \E f : Recursive(f)
  <2> DEFINE h == [k \in lo .. hi |-> NodeAt(c + k)]
  <2>1. ASSUME NEW k \in lo .. hi
        PROVE  h[k] = IF k = lo THEN NodeAt(c + lo) ELSE further(h[k - 1])
    <3>1. CASE k = lo
      BY <3>1
    <3>2. CASE k # lo
      <4>1. k - 1 \in lo .. hi /\ further(NodeAt(c + (k - 1))) = NodeAt(c + k)
        BY <1>11, <3>2
      <4>2. h[k] = NodeAt(c + k) /\ h[k - 1] = NodeAt(c + (k - 1))
        BY <4>1
      <4> HIDE DEF h
      <4> QED
        BY <3>2, <4>1, <4>2
    <3> QED
      BY <3>1, <3>2
  <2>2. h = [k \in lo .. hi |-> h[k]]
    OBVIOUS
  <2> HIDE DEF h, from
  <2>3. h = [k \in lo .. hi |-> IF k = lo THEN NodeAt(c + lo) ELSE further(h[k - 1])]
    BY <2>1, <2>2
  <2> HIDE DEF Dom
  <2>4. Recursive(h)
    BY <1>7, <1>9, <1>10, <2>3
  <2> QED
    BY <2>4
<1>13. Recursive(walk)
  <2> HIDE DEF from, Dom
  <2> QED
    BY <1>12
<1> HIDE DEF walk, from, Dom
<1>14. walk[hi] = NodeAt(c + hi)
  <2> DEFINE P == {j \in Nat : walk[lo + j] = NodeAt(c + (lo + j))}
  <2>1. 0 \in P
    <3>1. lo + 0 = lo /\ lo \in lo .. hi
      BY <1>4, <1>5
    <3>2. walk[lo] = from
      BY <1>9, <1>10, <1>13, <3>1
    <3> QED
      BY <1>7, <3>1, <3>2
  <2>2. ASSUME NEW j \in 0 .. (hi - lo) - 1, j \in P PROVE j + 1 \in P
    <3>1. /\ lo + (j + 1) \in lo .. hi /\ lo + (j + 1) # lo /\ (lo + (j + 1)) - 1 = lo + j
          /\ j + 1 \in Nat
      BY <1>4, <1>5
    <3>2. walk[lo + (j + 1)] = further(walk[(lo + (j + 1)) - 1])
      BY <1>9, <1>10, <1>13, <3>1
    <3>3. walk[lo + j] = NodeAt(c + (lo + j))
      BY <2>2
    <3>4. further(NodeAt(c + ((lo + (j + 1)) - 1))) = NodeAt(c + (lo + (j + 1)))
      BY <1>11, <3>1
    <3> QED
      BY <3>1, <3>2, <3>3, <3>4
  <2> HIDE DEF P
  <2>3. hi - lo \in Nat /\ lo + (hi - lo) = hi
    BY <1>4, <1>5
  <2>4. \A j \in 0 .. hi - lo : j \in P
    BY <2>1, <2>2, <2>3, InductionUpTo
  <2>5. hi - lo \in P
    BY <2>3, <2>4
  <2> QED
    BY <2>3, <2>5 DEF P
<1>15. CASE position(from) < pos
  <2>1. at(RangeAt(level.pointers, p), pos) = walk[pos % block_size]
    BY <1>6, <1>15
  <2> QED
    BY <1>4, <1>14, <2>1
<1>16. CASE ~ (position(from) < pos)
  <2>1. at(RangeAt(level.pointers, p), pos) = from
    BY <1>6, <1>16
  <2>2. c + lo = pos
    <3>1. lo \in Nat /\ hi \in Nat /\ c \in Nat /\ lo <= hi
      BY <1>4, <1>5
    <3>2. pos = c + hi /\ ~ (c + lo < pos)
      BY <1>4, <1>9, <1>16
    <3> QED
      BY <3>1, <3>2
  <2> QED
    BY <1>7, <2>1, <2>2
<1> QED
  BY <1>15, <1>16

(* The scan of a short range hits only nodes that are the id.              *)
LEMMA ScannedRange ==
  ASSUME AllStored, NEW p \in 0 .. Len(level.pointers) - 2, NEW id,
         NEW k, k \in Scanned(RangeAt(level.pointers, p), id)
  PROVE  /\ k \in Nat
         /\ level.pointers[p + 1] + k \in level.pointers[p + 1] .. level.pointers[p + 2] - 1
         /\ level.from[level.pointers[p + 1] + k + 1] = id
<1>0. level \in Levels
  BY DEF AllStored
<1> DEFINE r == RangeAt(level.pointers, p)
<1>1. PICK a \in Nat, w \in Nat : a = level.pointers[p + 1] /\ w = level.pointers[p + 2]
  BY <1>0, RangePositions
<1>2. a < w /\ w <= m_size /\ r.begin = a /\ Length(r) = w - a /\ m_size \in Nat
  BY <1>0, <1>1, RangePositions, LevelFacts DEF Length
<1>3. PICK n \in Nat : n = w - a /\ n > 0
  BY <1>1, <1>2
<1> DEFINE Recursive(f) == f = [j \in 0 .. Length(r) - 1 |->
                                 IF j = 0 THEN at(r, r.begin) ELSE iterator_next(f[j - 1])]
           x == CHOOSE f : Recursive(f)
<1>4. k \in 0 .. Length(r) - 1 /\ x[k].val = id
  <2>1. k \in IF Length(r) <= linear_scan_threshold
              THEN {j \in 0 .. Length(r) - 1 : x[j].val = id} ELSE {}
    BY DEF Scanned
  <2> HIDE DEF x
  <2> QED
    BY <2>1
<1> HIDE DEF r
<1>5. at(r, r.begin) = NodeAt(a)
  <2>1. a \in level.pointers[p + 1] .. level.pointers[p + 2] - 1
    BY <1>1, <1>2
  <2> QED
    BY <1>1, <1>2, <2>1, AtPosition DEF r
<1>6. ASSUME NEW j \in 0 .. n - 1, j # 0
      PROVE  j - 1 \in 0 .. n - 1 /\ iterator_next(NodeAt(a + (j - 1))) = NodeAt(a + j)
  <2>1. /\ a + (j - 1) \in 0 .. m_size - 1 /\ (a + (j - 1)) + 1 = a + j /\ a + j < m_size
        /\ a + j \in a .. w - 1 /\ a + j # a /\ (a + (j - 1)) + 2 = (a + j) + 1
    <3>1. j \in Nat \ {0} /\ j < n /\ n = w - a
      BY <1>3, <1>6
    <3>2. w <= m_size /\ m_size \in Nat
      BY <1>2
    <3> HIDE DEF x
    <3> QED
      BY <3>1, <3>2
  <2>2. ~ First((a + (j - 1)) + 2)
    BY <1>0, <1>1, <2>1, RangePositions
  <2>3. iterator_next(NodeAt(a + (j - 1))) = NodeAt((a + (j - 1)) + 1)
    <3>1. 0 \in Int /\ (a + (j - 1)) + 1 < m_size
      BY <2>1
    <3> QED
      BY <2>1, <2>2, <3>1, NextStep
  <2> QED
    BY <1>6, <2>1, <2>3
<1>7. Length(r) - 1 = n - 1
  BY <1>2, <1>3
<1>8. \E f : Recursive(f)
  <2> DEFINE h == [j \in 0 .. n - 1 |-> NodeAt(a + j)]
  <2>1. ASSUME NEW j \in 0 .. n - 1
        PROVE  h[j] = IF j = 0 THEN NodeAt(a) ELSE iterator_next(h[j - 1])
    <3>1. CASE j = 0
      <4>1. a + j = a
        BY <1>1, <3>1
      <4> QED
        BY <3>1, <4>1
    <3>2. CASE j # 0
      <4>1. j - 1 \in 0 .. n - 1 /\ iterator_next(NodeAt(a + (j - 1))) = NodeAt(a + j)
        BY <1>6, <3>2
      <4>2. h[j] = NodeAt(a + j) /\ h[j - 1] = NodeAt(a + (j - 1))
        BY <4>1
      <4> HIDE DEF h
      <4> QED
        BY <3>2, <4>1, <4>2
    <3> QED
      BY <3>1, <3>2
  <2>2. h = [j \in 0 .. n - 1 |-> h[j]]
    OBVIOUS
  <2> HIDE DEF h
  <2>3. h = [j \in 0 .. n - 1 |-> IF j = 0 THEN NodeAt(a) ELSE iterator_next(h[j - 1])]
    BY <2>1, <2>2
  <2>4. Recursive(h)
    BY <1>5, <1>7, <2>3
  <2> QED
    BY <2>4
<1>9. Recursive(x)
  BY <1>8
<1> HIDE DEF x
<1>10. \A j \in 0 .. n - 1 : x[j] = NodeAt(a + j)
  <2> DEFINE P == {j \in Nat : x[j] = NodeAt(a + j)}
  <2>1. 0 \in P
    <3>1. a + 0 = a /\ 0 \in 0 .. n - 1
      BY <1>1, <1>3
    <3>2. x[0] = at(r, r.begin)
      BY <1>7, <1>9, <3>1
    <3> QED
      BY <1>5, <3>1, <3>2
  <2>2. ASSUME NEW j \in 0 .. (n - 1) - 1, j \in P PROVE j + 1 \in P
    <3>1. j + 1 \in 0 .. n - 1 /\ j + 1 # 0 /\ (j + 1) - 1 = j /\ j + 1 \in Nat
      BY <1>3
    <3>2. x[j + 1] = iterator_next(x[(j + 1) - 1])
      BY <1>7, <1>9, <3>1
    <3>3. x[j] = NodeAt(a + j)
      BY <2>2
    <3>4. iterator_next(NodeAt(a + ((j + 1) - 1))) = NodeAt(a + (j + 1))
      BY <1>6, <3>1
    <3> QED
      BY <3>1, <3>2, <3>3, <3>4
  <2> HIDE DEF P
  <2>3. n - 1 \in Nat
    BY <1>3
  <2>4. \A j \in 0 .. n - 1 : j \in P
    BY <2>1, <2>2, <2>3, InductionUpTo
  <2> QED
    BY <2>4 DEF P
<1>11. k \in 0 .. n - 1
  BY <1>4, <1>7
<1>12. NodeAt(a + k).val = level.from[(a + k) + 1]
  BY DEF NodeAt, It, Fields
<1>13. k \in Nat /\ a + k \in a .. w - 1
  <2>1. n = w - a
    BY <1>3
  <2> QED
    BY <1>11, <2>1
<1> QED
  BY <1>1, <1>4, <1>10, <1>11, <1>12, <1>13

(* A product grows with its factor.                                        *)
LEMMA ProductGrows ==
  ASSUME NEW i \in Nat, NEW j \in Nat, NEW k \in Nat, i <= j
  PROVE  i * k <= j * k /\ i * k \in Nat /\ j * k = k * j
  OBVIOUS

(* A position of the p-th range is not before block b, which the range     *)
(* reaches.                                                                *)
Ahead(p, pos, b) ==
  /\ b <= level.pointers[p + 2] \div block_size
  /\ b * block_size <= pos /\ level.pointers[p + 1] < (b + 1) * block_size

(* A block's bound tells whether a node that does not lie before the block *)
(* lies after it.                                                          *)
LEMMA BoundTells ==
  ASSUME AllStored, NEW p \in 0 .. Len(level.pointers) - 2,
         NEW pos \in level.pointers[p + 1] .. level.pointers[p + 2] - 1,
         NEW b \in 0 .. m_blocks - 1, Ahead(p, pos, b)
  PROVE  /\ upper_bounds[b + 1] \in Nat /\ level.from[pos + 1] \in Nat
         /\ upper_bounds[b + 1] < level.from[pos + 1] /\ b # level.pointers[p + 2] \div block_size =>
              (b + 1) * block_size <= pos
         /\ upper_bounds[b + 1] >= level.from[pos + 1] \/ b = level.pointers[p + 2] \div block_size =>
              pos \div block_size = b
<1>0. level \in Levels
  BY DEF AllStored
<1>1. PICK a \in Nat, w \in Nat : a = level.pointers[p + 1] /\ w = level.pointers[p + 2]
  BY <1>0, RangePositions
<1>2. PICK m \in Nat : m = m_size
  BY <1>0, LevelFacts
<1>3. w <= m /\ pos \in a .. w - 1
  BY <1>0, <1>1, <1>2, RangePositions
<1>4. PICK bs \in Nat \ {0} : bs = block_size
  BY BlockSequenceAssumption
<1>5. PICK c \in Nat : c = b * bs
  BY <1>0, <1>4, Blocks
<1>6. b \in Nat /\ (b + 1) * bs = c + bs
  <2>1. b \in Nat
    BY <1>0, Blocks
  <2> QED
    BY <1>4, <1>5, <2>1
<1>7. PICK s \in 1 .. bs : s = BlockSize(b)
  BY <1>0, <1>4, Blocks
<1>8. c + s <= m /\ (c + bs <= m => s = bs)
  <2>1. b * block_size + BlockSize(b) <= m_size
    BY <1>0, Blocks
  <2>2. BlockSize(b) = IF c + bs <= m THEN bs ELSE m_size % block_size
    BY <1>2, <1>4, <1>5, <1>6 DEF BlockSize
  <2> QED
    BY <1>2, <1>4, <1>5, <1>7, <2>1, <2>2
<1>9. PICK q \in Nat, r \in 0 .. bs - 1 : q = w \div bs /\ w = bs * q + r
  <2>1. w \div bs \in Nat /\ w % bs \in 0 .. bs - 1 /\ w = bs * (w \div bs) + (w % bs)
    BY Division
  <2> QED
    BY <2>1
<1>10. upper_bounds[b + 1] = level.from[c + s]
  BY <1>4, <1>5, <1>7 DEF AllStored, Stored
<1>11. a < c + bs /\ c <= pos /\ b <= q
  BY <1>1, <1>4, <1>5, <1>6, <1>9 DEF Ahead
<1>12. \A i \in a + 1 .. w, j \in a + 1 .. w : i < j => level.from[i] < level.from[j]
  <2>1. p + 1 \in 1 .. Len(level.pointers) - 1 /\ (p + 1) + 1 = p + 2
    BY <1>0, LevelFacts
  <2> QED
    BY <1>0, <1>1, <2>1, RangeSorted
<1>13. /\ level.from[c + s] \in Nat /\ level.from[pos + 1] \in Nat
  <2>1. c + s \in 1 .. m
    <3>1. c \in Nat /\ s \in Nat \ {0} /\ m \in Nat
      BY <1>7
    <3> QED
      BY <1>8, <3>1
  <2>2. pos + 1 \in 1 .. m
    BY <1>3
  <2> QED
    BY <1>0, <1>2, <2>1, <2>2, LevelFacts
<1>14. pos < c + bs => pos \div bs = b
  <2> SUFFICES ASSUME pos < c + bs PROVE pos \div bs = b
    OBVIOUS
  <2>1. PICK k \in 0 .. bs - 1 : pos = c + k
    <3>1. pos - c \in 0 .. bs - 1 /\ pos = c + (pos - c)
      BY <1>3, <1>11
    <3> QED
      BY <3>1
  <2>2. c = bs * b
    BY <1>5, <1>6
  <2>3. (bs * b + k) \div bs = b
    BY <1>6, DivisionKnown
  <2> QED
    BY <2>1, <2>2, <2>3
<1>15. b # q => c + bs <= w
  <2> SUFFICES ASSUME b # q PROVE c + bs <= w
    OBVIOUS
  <2>1. PICK e \in Nat : e = bs * q
    BY <1>9
  <2>2. b + 1 <= q
    BY <1>6, <1>9, <1>11
  <2>3. (b + 1) * bs <= e
    <3>1. (b + 1) * bs <= q * bs /\ q * bs = bs * q
      <4>1. b + 1 \in Nat /\ bs \in Nat
        BY <1>6
      <4> QED
        BY <2>2, <4>1, ProductGrows
    <3> QED
      BY <2>1, <3>1
  <2> QED
    BY <1>6, <1>9, <2>1, <2>3
<1>16. b = q => w < c + bs
  <2>1. b = q => bs * q = c
    BY <1>5, <1>6
  <2> QED
    BY <1>9, <2>1
<1>17. ASSUME level.from[c + s] < level.from[pos + 1], b # q
       PROVE  c + bs <= pos
  <2> SUFFICES ASSUME pos < c + bs PROVE FALSE
    BY <1>3
  <2>1. c + bs <= w /\ s = bs
    BY <1>3, <1>8, <1>15, <1>17
  <2>2. pos + 1 \in a + 1 .. w /\ c + s \in a + 1 .. w /\ pos + 1 <= c + s
    BY <1>3, <1>11, <2>1
  <2>3. CASE pos + 1 = c + s
    BY <1>13, <1>17, <2>3
  <2>4. CASE pos + 1 # c + s
    <3>1. level.from[pos + 1] < level.from[c + s]
      BY <1>12, <2>2, <2>4
    <3> QED
      BY <1>13, <1>17, <3>1
  <2> QED
    BY <2>3, <2>4
<1>18. ASSUME level.from[c + s] >= level.from[pos + 1] \/ b = q
       PROVE  pos \div bs = b
  <2>1. CASE b = q
    BY <1>3, <1>14, <1>16, <2>1
  <2>2. CASE b # q
    <3> SUFFICES ASSUME ~ (pos < c + bs) PROVE FALSE
      BY <1>14
    <3>1. s = bs
      BY <1>3, <1>8
    <3>2. pos + 1 \in a + 1 .. w /\ c + s \in a + 1 .. w /\ c + s < pos + 1
      BY <1>3, <1>11, <3>1
    <3>3. level.from[c + s] < level.from[pos + 1]
      BY <1>12, <3>2
    <3> QED
      BY <1>13, <1>18, <2>2, <3>3
  <2> QED
    BY <2>1, <2>2
<1> QED
  BY <1>1, <1>4, <1>6, <1>9, <1>10, <1>13, <1>17, <1>18

-----------------------------------------------------------------------------
(* The numbers of nodes and of whole blocks go together, and the range of  *)
(* the last node is known, with the place in it.                           *)
BuilderInv ==
  LET b == Len(upper_bounds)
      p == builder.range
  IN
  /\ DOMAIN builder = {"i", "range", "within", "last", "buf"}
  /\ builder.i \in 0 .. m_size
  /\ builder.buf \in Seq(Small)
  /\ \A k \in 1 .. Len(builder.buf) : builder.buf[k] = Difference(b * block_size + k)
  /\ builder.i < m_size => /\ b < m_blocks /\ Len(builder.buf) < BlockSize(b)
                           /\ builder.i = b * block_size + Len(builder.buf)
  /\ builder.i = m_size => b = m_blocks /\ builder.buf = <<>>
  /\ p \in 0 .. Len(level.pointers) - 2
  /\ builder.within = builder.i - level.pointers[p + 1]
  /\ builder.i <= level.pointers[p + 2]
  /\ builder.i = 0 => p = 0 /\ builder.last = -1
  /\ builder.i > 0 => level.pointers[p + 1] < builder.i /\ builder.last = level.from[builder.i]

(* The blocks that are closed are stored.                                  *)
StoreInv ==
  LET b == Len(upper_bounds) IN
  /\ data \in Seq(byte) /\ endpoints \in Seq(Nat) /\ upper_bounds \in Seq(Nat)
  /\ Len(endpoints) = IF b = m_blocks THEN m_blocks - 1 ELSE b
  /\ b = 0 => data = <<>>
  /\ b # 0 /\ b # m_blocks => endpoints[b] = Len(data)
  /\ \A c \in 0 .. b - 1 : Stored(c)

(* m_it is at some position, whatever its value.                           *)
IteratorInv ==
  IF pc = "building" THEN m_it = no_iterator
  ELSE /\ builder.i = m_size
       /\ \E i \in 0 .. m_size - 1, v \in Int : m_it = It(i, v)

(* What find looks for, in the p-th range, and where it is.                *)
Asks(p) ==
  /\ call.op = "find" /\ call.id \in Nat
  /\ p \in 0 .. Len(level.pointers) - 2 /\ call.range = RangeAt(level.pointers, p)

Present(p) ==
  {pos \in level.pointers[p + 1] .. level.pointers[p + 2] - 1 : level.from[pos + 1] = call.id}

(* No block up to call.block holds the id.                                 *)
SkippingInv ==
  pc = "skipping" =>
    /\ DOMAIN call = {"op", "range", "id", "block"}
    /\ \E p \in 0 .. Len(level.pointers) - 2 :
         /\ Asks(p) /\ (AbsentIds \/ Present(p) # {})
         /\ call.block \in level.pointers[p + 1] \div block_size + 1 .. level.pointers[p + 2] \div block_size
         /\ \A pos \in Present(p) : call.block * block_size <= pos

(* The scan has not passed the id, and is in its block.                    *)
ScanningInv ==
  pc = "scanning" =>
    \E p \in 0 .. Len(level.pointers) - 2 :
      /\ Asks(p) /\ (AbsentIds \/ Present(p) # {})
      /\ \A pos \in Present(p) : \E i \in level.pointers[p + 1] .. pos :
           m_it = NodeAt(i) /\ i \div block_size = pos \div block_size

(* What the answers are.                                                   *)
AnswerInv ==
  pc = "answered" =>
    \/ call.op = "access" /\ result = level.from[call.pos + 1]
    \/ \E p \in 0 .. Len(level.pointers) - 2 : Asks(p) /\ \A pos \in Present(p) : result = pos

(* A walker is at a node of its range.                                     *)
WalkInv ==
  pc = "walking" =>
    \E p \in 0 .. Len(level.pointers) - 2 :
      \E i \in level.pointers[p + 1] .. level.pointers[p + 2] - 1 :
        walker = [iterator |-> NodeAt(i), range |-> p]

States == {"building", "idle", "skipping", "scanning", "answered", "walking", "undefined"}

IInv ==
  /\ level \in Levels /\ pc \in States
  /\ BuilderInv /\ StoreInv /\ IteratorInv
  /\ SkippingInv /\ ScanningInv /\ AnswerInv /\ WalkInv
  /\ AbsentIds \/ pc # "undefined"
-----------------------------------------------------------------------------
(* What a level determines, it keeps.                                      *)
LEMMA LevelKept ==
  ASSUME level' = level
  PROVE  /\ m_size' = m_size /\ m_blocks' = m_blocks
         /\ \A b : BlockSize(b)' = BlockSize(b) /\ Block(b)' = Block(b)
         /\ \A i : First(i)' = First(i) /\ Difference(i)' = Difference(i)
         /\ \A i : NodeAt(i)' = NodeAt(i)
         /\ \A i, v : It(i, v)' = It(i, v)
<1>1. m_size' = m_size
  BY DEF m_size
<1>2. m_blocks' = m_blocks
  BY <1>1 DEF m_blocks
<1>3. \A b : BlockSize(b)' = BlockSize(b)
  BY <1>1 DEF BlockSize
<1>4. \A i : First(i)' = First(i)
  BY DEF First
<1>5. \A i : Difference(i)' = Difference(i)
  BY <1>4 DEF Difference
<1>6. \A b : Block(b)' = Block(b)
  BY <1>3, <1>5 DEF Block
<1>7. \A i, v : It(i, v)' = It(i, v)
  BY <1>6 DEF It
<1>8. \A i : NodeAt(i)' = NodeAt(i)
  BY <1>7 DEF NodeAt
<1> QED
  BY <1>1, <1>2, <1>3, <1>4, <1>5, <1>6, <1>7, <1>8

(* Once the sequence is built, every block is stored.                      *)
LEMMA Ready ==
  ASSUME IInv, pc # "building"
  PROVE  /\ AllStored /\ level \in Levels
         /\ \E i \in 0 .. m_size - 1, v \in Int : m_it = It(i, v)
<1>1. builder.i = m_size /\ \E i \in 0 .. m_size - 1, v \in Int : m_it = It(i, v)
  BY DEF IInv, IteratorInv
<1>2. Len(upper_bounds) = m_blocks
  BY <1>1 DEF IInv, BuilderInv
<1>3. AllStored
  BY <1>2 DEF IInv, StoreInv, AllStored
<1> QED
  BY <1>1, <1>3 DEF AllStored

(* And stays so.                                                           *)
LEMMA BuiltKept ==
  ASSUME IInv, UNCHANGED built
  PROVE  /\ level' \in Levels /\ BuilderInv' /\ StoreInv'
         /\ builder.i = m_size => builder'.i = m_size'
<1>1. /\ level' = level /\ builder' = builder /\ data' = data /\ endpoints' = endpoints
      /\ upper_bounds' = upper_bounds
  BY DEF built
<1>2. /\ m_size' = m_size /\ m_blocks' = m_blocks
      /\ \A b : BlockSize(b)' = BlockSize(b) /\ Block(b)' = Block(b)
      /\ \A i : Difference(i)' = Difference(i)
  BY <1>1, LevelKept
<1>3. \A b : Stored(b)' = Stored(b)
  BY <1>1, <1>2 DEF Stored
<1>4. BuilderInv'
  BY <1>1, <1>2 DEF IInv, BuilderInv
<1>5. StoreInv'
  BY <1>1, <1>2, <1>3 DEF IInv, StoreInv
<1> QED
  BY <1>1, <1>2, <1>4, <1>5 DEF IInv

(* The nodes of the p-th range, and its positions.                         *)
LEMMA RangeFacts ==
  ASSUME level \in Levels, NEW r \in Ranges
  PROVE  \E p \in 0 .. Len(level.pointers) - 2 :
           /\ r = RangeAt(level.pointers, p)
           /\ r.begin = level.pointers[p + 1] /\ r.end = level.pointers[p + 2]
           /\ Positions(r) = level.pointers[p + 1] .. level.pointers[p + 2] - 1
<1>1. PICK p \in 0 .. Len(level.pointers) - 2 : r = RangeAt(level.pointers, p)
  BY DEF Ranges
<1>2. r.begin = level.pointers[p + 1] /\ r.end = level.pointers[p + 2]
  BY <1>1, RangePositions
<1> QED
  BY <1>1, <1>2 DEF Positions

(* The state before anything is built.                                     *)
LEMMA Initially ==
  ASSUME Init
  PROVE  IInv
<1>1. /\ level \in Levels /\ pc = "building" /\ m_it = no_iterator
      /\ data = <<>> /\ endpoints = <<>> /\ upper_bounds = <<>>
      /\ builder = [i |-> 0, range |-> 0, within |-> 0, last |-> -1, buf |-> <<>>]
  BY DEF Init
<1>2. /\ DOMAIN builder = {"i", "range", "within", "last", "buf"}
      /\ builder.i = 0 /\ builder.range = 0 /\ builder.within = 0 /\ builder.last = -1
      /\ builder.buf = <<>>
  BY <1>1
<1>3. m_blocks \in Nat \ {0} /\ BlockSize(0) \in 1 .. block_size /\ block_size \in Nat
  <2>1. m_blocks \in Nat \ {0}
    BY <1>1, Blocks
  <2>2. 0 \in 0 .. m_blocks - 1
    BY <2>1
  <2> QED
    BY <1>1, <2>1, <2>2, Blocks, BlockSequenceAssumption
<1>4. /\ m_size \in Nat \ {0} /\ Len(level.pointers) \in Nat /\ Len(level.pointers) > 1
      /\ level.pointers[0 + 1] = 0 /\ level.pointers[0 + 2] \in Nat
  <2>1. 0 \in 0 .. Len(level.pointers) - 2
    BY <1>1, LevelFacts
  <2> QED
    BY <1>1, <2>1, LevelFacts, RangePositions
<1>5. BuilderInv
  BY <1>1, <1>2, <1>3, <1>4 DEF BuilderInv
<1>6. StoreInv
  BY <1>1, <1>3 DEF StoreInv
<1> QED
  BY <1>1, <1>5, <1>6 DEF IInv, IteratorInv, SkippingInv, ScanningInv, AnswerInv, WalkInv, States

(* The sequence is loaded.                                                 *)
LEMMA LoadKeeps ==
  ASSUME IInv, Load
  PROVE  IInv'
<1>1. builder.i = m_size /\ m_it' = decode_block(0) /\ pc' = "idle" /\ UNCHANGED built
  BY DEF Load, built
<1>2. level' \in Levels /\ BuilderInv' /\ StoreInv' /\ builder'.i = m_size' /\ level' = level
  BY <1>1, BuiltKept DEF built
<1>3. level \in Levels
  BY DEF IInv
<1>4. AllStored
  <2>1. Len(upper_bounds) = m_blocks
    BY <1>1 DEF IInv, BuilderInv
  <2> QED
    BY <2>1 DEF IInv, StoreInv, AllStored
<1>5. PICK v \in Int : m_it' = It(0, v)
  <2>1. 0 \in 0 .. m_blocks - 1 /\ 0 * block_size = 0
    BY <1>3, Blocks, BlockSequenceAssumption
  <2> QED
    BY <1>1, <1>4, <2>1, BlockDecoded
<1>6. IteratorInv'
  <2>1. 0 \in 0 .. m_size - 1
    BY <1>3, LevelFacts
  <2> QED
    BY <1>1, <1>2, <1>5, <2>1, LevelKept DEF IteratorInv
<1> QED
  BY <1>1, <1>2, <1>6 DEF IInv, SkippingInv, ScanningInv, AnswerInv, WalkInv, States

(* The calls that are answered at once.                                    *)
LEMMA AccessKeeps ==
  ASSUME IInv, NEW r \in Ranges, NEW pos \in Positions(r), Access(r, pos)
  PROVE  IInv'
<1>1. /\ pc = "idle" /\ call' = [op |-> "access", pos |-> pos] /\ m_it' = at(r, pos)
      /\ pc' = "answered" /\ result' = m_it'.val /\ UNCHANGED built
  BY DEF Access, Answer
<1>2. AllStored /\ level \in Levels
  BY <1>1, Ready
<1>3. PICK p \in 0 .. Len(level.pointers) - 2 :
        /\ r = RangeAt(level.pointers, p)
        /\ Positions(r) = level.pointers[p + 1] .. level.pointers[p + 2] - 1
  BY <1>2, RangeFacts
<1>4. m_it' = NodeAt(pos)
  BY <1>1, <1>2, <1>3, AtPosition
<1>5. /\ level' \in Levels /\ BuilderInv' /\ StoreInv' /\ level' = level
      /\ builder'.i = m_size'
  BY <1>1, BuiltKept DEF IInv, IteratorInv, built
<1>6. pos \in 0 .. m_size - 1 /\ level.from[pos + 1] \in Int
  <2>1. pos \in 0 .. m_size - 1 /\ m_size \in Nat
    BY <1>2, <1>3, RangePositions, LevelFacts
  <2>2. pos + 1 \in 1 .. m_size
    BY <2>1
  <2> QED
    BY <1>2, <2>1, <2>2, LevelFacts
<1>7. IteratorInv'
  BY <1>1, <1>4, <1>5, <1>6, LevelKept DEF IteratorInv, NodeAt
<1>8. result' = level.from[pos + 1]
  BY <1>1, <1>4 DEF NodeAt, It, Fields
<1>9. AnswerInv'
  <2>1. call'.op = "access" /\ call'.pos = pos
    BY <1>1
  <2> QED
    BY <1>5, <1>8, <2>1 DEF AnswerInv
<1> QED
  BY <1>1, <1>5, <1>7, <1>9 DEF IInv, SkippingInv, ScanningInv, WalkInv, States

(* What is looked for.                                                     *)
LEMMA AskedFor ==
  ASSUME level \in Levels, NEW p \in 0 .. Len(level.pointers) - 2,
         NEW id \in Asked(RangeAt(level.pointers, p)),
         level' = level, call'.op = "find", call'.id = id,
         call'.range = RangeAt(level.pointers, p)
  PROVE  /\ Asks(p)' /\ (AbsentIds \/ Present(p)' # {})
         /\ \A pos : pos \in Present(p)' <=>
                       /\ pos \in level.pointers[p + 1] .. level.pointers[p + 2] - 1
                       /\ level.from[pos + 1] = id
<1> DEFINE r == RangeAt(level.pointers, p)
<1>1. id \in level.ids /\ (AbsentIds \/ \E pos \in Positions(r) : level.from[pos + 1] = id)
  BY DEF Asked
<1>2. id \in Nat
  BY <1>1, BlockSequenceAssumption DEF WellFormedLevel
<1>3. Positions(r) = level.pointers[p + 1] .. level.pointers[p + 2] - 1
  BY RangePositions DEF Positions
<1>4. Asks(p)'
  BY <1>2 DEF Asks
<1>5. Present(p)' = {pos \in level.pointers[p + 1] .. level.pointers[p + 2] - 1 :
                       level.from[pos + 1] = id}
  BY DEF Present
<1> QED
  BY <1>1, <1>3, <1>4, <1>5

(* An id is once in a range.                                               *)
LEMMA OnceInRange ==
  ASSUME level \in Levels, NEW p \in 0 .. Len(level.pointers) - 2,
         NEW i \in level.pointers[p + 1] .. level.pointers[p + 2] - 1,
         NEW j \in level.pointers[p + 1] .. level.pointers[p + 2] - 1
  PROVE  /\ level.from[i + 1] \in Nat /\ level.from[j + 1] \in Nat
         /\ i < j => level.from[i + 1] < level.from[j + 1]
         /\ level.from[i + 1] = level.from[j + 1] => i = j
<1>1. PICK a \in Nat, w \in Nat : a = level.pointers[p + 1] /\ w = level.pointers[p + 2]
  BY RangePositions
<1>2. p + 1 \in 1 .. Len(level.pointers) - 1 /\ (p + 1) + 1 = p + 2
  BY LevelFacts
<1>3. i + 1 \in a + 1 .. w /\ j + 1 \in a + 1 .. w /\ i \in Nat /\ j \in Nat
  BY <1>1
<1>4. /\ i < j => level.from[i + 1] < level.from[j + 1]
      /\ j < i => level.from[j + 1] < level.from[i + 1]
  <2>1. \A k \in a + 1 .. w, l \in a + 1 .. w : k < l => level.from[k] < level.from[l]
    BY <1>1, <1>2, RangeSorted
  <2>2. (i < j => i + 1 < j + 1) /\ (j < i => j + 1 < i + 1)
    BY <1>3
  <2> QED
    BY <1>3, <2>1, <2>2
<1>5. level.from[i + 1] \in Nat /\ level.from[j + 1] \in Nat
  <2>1. i \in 0 .. m_size - 1 /\ j \in 0 .. m_size - 1 /\ m_size \in Nat
    BY RangePositions, LevelFacts
  <2>2. i + 1 \in 1 .. m_size /\ j + 1 \in 1 .. m_size
    BY <2>1
  <2> QED
    BY <2>2, LevelFacts
<1> QED
  BY <1>3, <1>4, <1>5

(* The id is found in a short range.                                       *)
LEMMA FindByScanKeeps ==
  ASSUME IInv, NEW r \in Ranges, NEW id \in Asked(r), FindByScan(r, id)
  PROVE  IInv'
<1> DEFINE hits == Scanned(r, id)
           hit == CHOOSE k \in hits : \A h \in hits : k <= h
<1>1. /\ pc = "idle" /\ call' = [op |-> "find", range |-> r, id |-> id] /\ hits # {}
      /\ pc' = "answered" /\ result' = r.begin + hit /\ UNCHANGED built /\ m_it' = m_it
  BY DEF FindByScan, Answer
<1> HIDE DEF hits
<1>2. AllStored /\ level \in Levels
  BY <1>1, Ready
<1>3. PICK p \in 0 .. Len(level.pointers) - 2 :
        r = RangeAt(level.pointers, p) /\ r.begin = level.pointers[p + 1]
  BY <1>2, RangeFacts
<1>4. hit \in hits
  <2>1. hits \subseteq Nat
    BY <1>2, <1>3, ScannedRange DEF hits
  <2>2. \E k \in hits : \A h \in hits : k <= h
    BY <1>1, <2>1, LeastNatural
  <2> QED
    BY <2>2
<1>5. /\ result' \in level.pointers[p + 1] .. level.pointers[p + 2] - 1
      /\ level.from[result' + 1] = id
  <2>1. PICK k : k = hit /\ k \in Scanned(RangeAt(level.pointers, p), id)
    BY <1>3, <1>4 DEF hits
  <2>2. /\ k \in Nat
        /\ level.pointers[p + 1] + k \in level.pointers[p + 1] .. level.pointers[p + 2] - 1
        /\ level.from[level.pointers[p + 1] + k + 1] = id
    BY <1>2, <2>1, ScannedRange
  <2>3. result' = level.pointers[p + 1] + k
    BY <1>1, <1>3, <2>1
  <2> QED
    BY <2>2, <2>3
<1>6. /\ level' \in Levels /\ BuilderInv' /\ StoreInv' /\ level' = level
      /\ builder'.i = m_size'
  BY <1>1, BuiltKept DEF IInv, IteratorInv, built
<1>7. IteratorInv'
  BY <1>1, <1>6, LevelKept DEF IInv, IteratorInv
<1>8. call'.op = "find" /\ call'.id = id /\ call'.range = r
  BY <1>1
<1>9. Asks(p)' /\ \A pos \in Present(p)' : result' = pos
  <2>1. /\ Asks(p)'
        /\ \A pos \in Present(p)' : /\ pos \in level.pointers[p + 1] .. level.pointers[p + 2] - 1
                                    /\ level.from[pos + 1] = id
    BY <1>2, <1>3, <1>6, <1>8, AskedFor
  <2> QED
    BY <1>2, <1>5, <2>1, OnceInRange
<1>10. AnswerInv'
  BY <1>6, <1>9 DEF AnswerInv
<1> QED
  BY <1>1, <1>6, <1>7, <1>10 DEF IInv, SkippingInv, ScanningInv, WalkInv, States

(* The block in which a range begins, and those it reaches.                *)
LEMMA RangeBlocks ==
  ASSUME level \in Levels, NEW p \in 0 .. Len(level.pointers) - 2,
         NEW pos \in level.pointers[p + 1] .. level.pointers[p + 2] - 1
  PROVE  LET b == level.pointers[p + 1] \div block_size
             e == level.pointers[p + 2] \div block_size IN
         /\ b \in 0 .. m_blocks - 1 /\ e \in Nat /\ b <= e
         /\ Ahead(p, pos, b)
         /\ \A c \in b + 1 .. e : c * block_size <= pos => Ahead(p, pos, c) /\ c \in 0 .. m_blocks - 1
<1>1. PICK a \in Nat, w \in Nat : a = level.pointers[p + 1] /\ w = level.pointers[p + 2]
  BY RangePositions
<1>2. PICK bs \in Nat \ {0} : bs = block_size
  BY BlockSequenceAssumption
<1>3. PICK b \in Nat, r \in 0 .. bs - 1 : b = a \div bs /\ a = bs * b + r
  <2>1. a \div bs \in Nat /\ a % bs \in 0 .. bs - 1 /\ a = bs * (a \div bs) + (a % bs)
    BY Division
  <2> QED
    BY <2>1
<1>4. PICK e \in Nat, t \in 0 .. bs - 1 : e = w \div bs /\ w = bs * e + t
  <2>1. w \div bs \in Nat /\ w % bs \in 0 .. bs - 1 /\ w = bs * (w \div bs) + (w % bs)
    BY Division
  <2> QED
    BY <2>1
<1>5. a <= pos /\ pos < w /\ pos \in Nat /\ a < w
  BY <1>1, RangePositions
<1>6. PICK f \in Nat, g \in Nat : f = b * bs /\ g = e * bs /\ a = f + r /\ w = g + t
  <2>1. b * bs \in Nat /\ b * bs = bs * b /\ e * bs \in Nat /\ e * bs = bs * e
    BY <1>3, <1>4
  <2> QED
    BY <1>3, <1>4, <2>1
<1>7. b <= e
  <2> SUFFICES ASSUME e + 1 <= b PROVE FALSE
    BY <1>3, <1>4
  <2>1. (e + 1) * bs <= b * bs /\ (e + 1) * bs = g + bs
    <3>1. (e + 1) * bs <= b * bs
      <4>1. e + 1 \in Nat /\ b \in Nat /\ bs \in Nat
        OBVIOUS
      <4> QED
        BY <4>1, ProductGrows
    <3>2. (e + 1) * bs = e * bs + bs
      BY <1>4
    <3> QED
      BY <1>6, <3>1, <3>2
  <2>2. g + bs <= f
    BY <1>6, <2>1
  <2> QED
    BY <1>3, <1>4, <1>5, <1>6, <2>2
<1>8. b \in 0 .. m_blocks - 1
  <2>1. a \in 0 .. m_size - 1
    <3>1. a \in level.pointers[p + 1] .. level.pointers[p + 2] - 1
      BY <1>1, <1>5
    <3> QED
      BY <3>1, RangePositions
  <2> QED
    BY <1>2, <1>3, <2>1, PositionInBlock
<1>9. (b + 1) * bs = f + bs
  BY <1>3, <1>6
<1>10. Ahead(p, pos, b)
  <2>1. f <= pos /\ a < f + bs
    BY <1>3, <1>5, <1>6
  <2> QED
    BY <1>1, <1>2, <1>4, <1>6, <1>7, <1>9, <2>1 DEF Ahead
<1>11. ASSUME NEW c \in b + 1 .. e, c * block_size <= pos
       PROVE  Ahead(p, pos, c) /\ c \in 0 .. m_blocks - 1
  <2>1. c \in Nat /\ b + 1 <= c + 1 /\ c <= e
    BY <1>3, <1>4
  <2>2. (b + 1) * bs <= (c + 1) * bs
    <3>1. b + 1 \in Nat /\ c + 1 \in Nat /\ bs \in Nat
      BY <2>1
    <3> QED
      BY <2>1, <3>1, ProductGrows
  <2>3. a < (c + 1) * bs
    <3>1. a < f + bs
      BY <1>3, <1>6
    <3>2. (c + 1) * bs \in Nat
      BY <2>1
    <3> QED
      BY <1>9, <2>2, <3>1, <3>2
  <2>4. Ahead(p, pos, c)
    BY <1>1, <1>2, <1>4, <1>11, <2>1, <2>3 DEF Ahead
  <2>5. c \in 0 .. m_blocks - 1
    <3>1. PICK d \in 0 .. m_blocks - 1 : d = pos \div bs
      <4>1. pos \in 0 .. m_size - 1
        BY RangePositions
      <4> QED
        BY <1>2, <4>1, PositionInBlock
    <3>2. PICK s \in 0 .. bs - 1 : pos = bs * d + s
      <4>1. pos \div bs \in Nat /\ pos % bs \in 0 .. bs - 1 /\ pos = bs * (pos \div bs) + (pos % bs)
        BY <1>5, Division
      <4> QED
        BY <3>1, <4>1
    <3>3. d \in Nat /\ m_blocks \in Nat
      BY Blocks
    <3>4. c <= d
      <4> SUFFICES ASSUME d + 1 <= c PROVE FALSE
        BY <2>1, <3>3
      <4>1. (d + 1) * bs <= c * bs /\ (d + 1) * bs = bs * d + bs
        <5>1. (d + 1) * bs <= c * bs
          BY <2>1, <3>3, ProductGrows
        <5>2. (d + 1) * bs = bs * d + bs
          BY <3>3
        <5> QED
          BY <5>1, <5>2
      <4>2. PICK u \in Nat, v \in Nat : u = bs * d /\ v = c * bs
        BY <2>1, <3>3
      <4>3. u + bs <= v /\ v <= pos /\ pos = u + s
        BY <1>2, <1>11, <3>2, <4>1, <4>2
      <4> QED
        BY <1>5, <4>3
    <3> QED
      BY <2>1, <3>3, <3>4
  <2> QED
    BY <2>4, <2>5
<1> QED
  BY <1>1, <1>2, <1>3, <1>4, <1>7, <1>8, <1>10, <1>11

(* find goes to the beginning of the range, and compares its block's bound.*)
LEMMA StartFindKeeps ==
  ASSUME IInv, NEW r \in Ranges, NEW id \in Asked(r), StartFind(r, id)
  PROVE  IInv'
<1> DEFINE b == r.begin \div block_size
           e == r.end \div block_size
           x == IF b # m_it.block THEN decode_block(b) ELSE m_it
<1>1. /\ pc = "idle" /\ m_it' = switch_range(x, r.begin % block_size)
      /\ call' = [op |-> "find", range |-> r, id |-> id, block |-> b + 1]
      /\ pc' = IF b # e /\ id > upper_bound(x) THEN "skipping" ELSE "scanning"
      /\ UNCHANGED built
  BY DEF StartFind
<1> HIDE DEF x
<1>2. AllStored /\ level \in Levels
  BY <1>1, Ready
<1>3. PICK p \in 0 .. Len(level.pointers) - 2 :
        /\ r = RangeAt(level.pointers, p)
        /\ r.begin = level.pointers[p + 1] /\ r.end = level.pointers[p + 2]
  BY <1>2, RangeFacts
<1>4. PICK a \in 0 .. m_size - 1 : a = r.begin /\ First(a + 1) /\ a \in r.begin .. r.end - 1
  <2>1. r.begin \in r.begin .. r.end - 1
    BY <1>2, <1>3, RangePositions
  <2> QED
    BY <1>2, <1>3, <2>1, RangePositions
<1>5. b \in 0 .. m_blocks - 1
  BY <1>2, <1>4, PositionInBlock
<1>6. PICK j \in 0 .. m_size - 1, v \in Int : x = It(j, v) /\ j \div block_size = b
  <2>1. PICK i \in 0 .. m_size - 1, u \in Int : m_it = It(i, u)
    BY <1>1, Ready
  <2>2. m_it.block = i \div block_size
    BY <2>1 DEF It, Fields
  <2>3. CASE b = m_it.block
    BY <2>1, <2>2, <2>3 DEF x
  <2>4. CASE b # m_it.block
    <3>1. PICK u2 \in Int : decode_block(b) = It(b * block_size, u2)
      BY <1>2, <1>5, BlockDecoded
    <3>2. b * block_size \in 0 .. m_size - 1 /\ (b * block_size) \div block_size = b
      <4>1. 0 \in 0 .. BlockSize(b) - 1 /\ b * block_size + 0 = b * block_size
        BY <1>2, <1>5, Blocks, BlockSequenceAssumption
      <4>2. /\ b * block_size + 0 \in 0 .. m_size - 1
            /\ (b * block_size + 0) \div block_size = b
        BY <1>2, <1>5, <4>1, PlaceInBlock
      <4> QED
        BY <4>1, <4>2
    <3> QED
      BY <2>4, <3>1, <3>2 DEF x
  <2> QED
    BY <2>3, <2>4
<1>7. m_it' = NodeAt(a)
  BY <1>1, <1>2, <1>4, <1>6, Switched
<1>8. upper_bound(x) = upper_bounds[b + 1]
  BY <1>6 DEF upper_bound, It, Fields
<1>9. /\ level' \in Levels /\ BuilderInv' /\ StoreInv' /\ level' = level
      /\ builder'.i = m_size'
  BY <1>1, BuiltKept DEF IInv, IteratorInv, built
<1>10. IteratorInv'
  <2>1. level.from[a + 1] \in Int
    <3>1. a + 1 \in 1 .. m_size
      BY <1>2, <1>4, LevelFacts
    <3> QED
      BY <1>2, <3>1, LevelFacts
  <2>2. m_it' = It(a, level.from[a + 1])
    BY <1>7 DEF NodeAt
  <2> QED
    BY <1>1, <1>9, <2>1, <2>2, LevelKept DEF IteratorInv
<1>11. call'.op = "find" /\ call'.id = id /\ call'.range = r /\ call'.block = b + 1
  BY <1>1
<1>12. /\ Asks(p)' /\ (AbsentIds \/ Present(p)' # {})
       /\ \A pos : pos \in Present(p)' <=> pos \in r.begin .. r.end - 1 /\ level.from[pos + 1] = id
  BY <1>2, <1>3, <1>9, <1>11, AskedFor
<1>13. ASSUME NEW pos \in Present(p)'
       PROVE  /\ id = level.from[pos + 1] /\ id \in Nat /\ upper_bounds[b + 1] \in Nat /\ a <= pos
              /\ upper_bounds[b + 1] < id /\ b # e => (b + 1) * block_size <= pos
              /\ upper_bounds[b + 1] >= id \/ b = e => pos \div block_size = b
              /\ pos \in r.begin .. r.end - 1
  <2>1. pos \in level.pointers[p + 1] .. level.pointers[p + 2] - 1 /\ level.from[pos + 1] = id
    BY <1>3, <1>12
  <2>2. Ahead(p, pos, b)
    BY <1>2, <1>3, <2>1, RangeBlocks
  <2>3. a <= pos
    BY <1>3, <1>4, <2>1
  <2> QED
    BY <1>2, <1>3, <1>5, <2>1, <2>2, <2>3, BoundTells
<1>14. CASE b # e /\ id > upper_bounds[b + 1]
  <2>1. pc' = "skipping"
    BY <1>1, <1>8, <1>14
  <2>2. b + 1 \in b + 1 .. e
    <3>1. a \in level.pointers[p + 1] .. level.pointers[p + 2] - 1
      BY <1>3, <1>4
    <3>2. b <= e /\ e \in Nat
      BY <1>2, <1>3, <3>1, RangeBlocks
    <3>3. b \in Nat
      BY <1>2, <1>5, Blocks
    <3> HIDE DEF b, e
    <3> QED
      BY <1>14, <3>2, <3>3
  <2>3. \A pos \in Present(p)' : (b + 1) * block_size <= pos
    BY <1>13, <1>14
  <2>4. SkippingInv'
    <3>1. DOMAIN call' = {"op", "range", "id", "block"}
      BY <1>1
    <3> QED
      BY <1>3, <1>9, <1>11, <1>12, <2>2, <2>3, <3>1 DEF SkippingInv
  <2> QED
    BY <1>9, <1>10, <2>1, <2>4 DEF IInv, ScanningInv, AnswerInv, WalkInv, States
<1>15. CASE ~ (b # e /\ id > upper_bounds[b + 1])
  <2>1. pc' = "scanning"
    BY <1>1, <1>8, <1>15
  <2>2. \A pos \in Present(p)' : \E i \in level.pointers[p + 1] .. pos :
          m_it' = NodeAt(i) /\ i \div block_size = pos \div block_size
    <3> TAKE pos \in Present(p)'
    <3>1. pos \div block_size = b /\ a <= pos /\ pos \in Int
      BY <1>3, <1>13, <1>15
    <3>2. a \in level.pointers[p + 1] .. pos /\ a \div block_size = b
      BY <1>3, <1>4, <3>1
    <3> QED
      BY <1>7, <3>1, <3>2
  <2>3. ScanningInv'
    BY <1>9, <1>12, <2>2, LevelKept DEF ScanningInv
  <2> QED
    BY <1>9, <1>10, <2>1, <2>3 DEF IInv, SkippingInv, AnswerInv, WalkInv, States
<1> QED
  BY <1>14, <1>15

(* What find was asked for, it keeps.                                      *)
LEMMA CallKept ==
  ASSUME level' = level, call'.op = call.op, call'.id = call.id, call'.range = call.range, NEW p
  PROVE  (Asks(p)' <=> Asks(p)) /\ Present(p)' = Present(p)
  BY DEF Asks, Present

(* The blocks after the first: they are skipped up to the one whose bound  *)
(* is not less, or that the range ends in.                                 *)
LEMMA SkipBlockKeeps ==
  ASSUME IInv, SkipBlock
  PROVE  IInv'
<1>1. pc = "skipping" /\ UNCHANGED built
  BY DEF SkipBlock
<1>2. AllStored /\ level \in Levels
  BY <1>1, Ready
<1>3. PICK p \in 0 .. Len(level.pointers) - 2 :
        /\ Asks(p) /\ (AbsentIds \/ Present(p) # {})
        /\ call.block \in level.pointers[p + 1] \div block_size + 1 .. level.pointers[p + 2] \div block_size
        /\ \A pos \in Present(p) : call.block * block_size <= pos
  BY <1>1 DEF IInv, SkippingInv
<1>4. /\ level' \in Levels /\ BuilderInv' /\ StoreInv' /\ level' = level
      /\ builder'.i = m_size'
  BY <1>1, BuiltKept DEF IInv, IteratorInv, built
<1>5. PICK a \in Nat, w \in Nat : a = level.pointers[p + 1] /\ w = level.pointers[p + 2]
  BY <1>2, RangePositions
<1>6. PICK b \in Nat, e \in Nat : b = a \div block_size /\ e = w \div block_size
  BY <1>5, Division, BlockSequenceAssumption
<1>7. PICK c \in Nat : c = call.block /\ c \in b + 1 .. e
  BY <1>3, <1>5, <1>6
<1>8. call.range.end \div block_size = e
  BY <1>2, <1>3, <1>5, <1>6, RangePositions DEF Asks
<1>9. ASSUME NEW pos \in Present(p)
      PROVE  /\ pos \in a .. w - 1 /\ level.from[pos + 1] = call.id /\ c * block_size <= pos
             /\ c \in 0 .. m_blocks - 1 /\ Ahead(p, pos, c)
  <2>1. /\ pos \in level.pointers[p + 1] .. level.pointers[p + 2] - 1
        /\ level.from[pos + 1] = call.id /\ c * block_size <= pos
    BY <1>3, <1>7 DEF Present
  <2>2. \A d \in b + 1 .. e : d * block_size <= pos => Ahead(p, pos, d) /\ d \in 0 .. m_blocks - 1
    BY <1>2, <1>5, <1>6, <2>1, RangeBlocks
  <2> QED
    BY <1>5, <1>7, <2>1, <2>2
<1>10. CASE c = m_blocks
  <2>1. pc' = "undefined" /\ UNCHANGED <<m_it, call>>
    BY <1>7, <1>10 DEF SkipBlock
  <2>2. Present(p) = {}
    <3>1. c \notin 0 .. m_blocks - 1
      BY <1>2, <1>10, Blocks
    <3> QED
      BY <1>9, <3>1
  <2>3. IteratorInv'
    BY <1>1, <1>4, <2>1, LevelKept DEF IInv, IteratorInv
  <2> QED
    BY <1>3, <1>4, <2>1, <2>2, <2>3
    DEF IInv, SkippingInv, ScanningInv, AnswerInv, WalkInv, States
<1>11. CASE c # m_blocks /\ upper_bounds[c + 1] < call.id /\ c # e
  <2>1. pc' = "skipping" /\ m_it' = m_it /\ call' = [call EXCEPT !.block = call.block + 1]
    BY <1>1, <1>7, <1>8, <1>11 DEF SkipBlock
  <2>2. /\ call'.op = call.op /\ call'.id = call.id /\ call'.range = call.range
        /\ call'.block = c + 1 /\ DOMAIN call' = DOMAIN call
    BY <1>1, <1>7, <2>1 DEF IInv, SkippingInv
  <2>3. Asks(p)' /\ Present(p)' = Present(p)
    BY <1>3, <1>4, <2>2, CallKept
  <2>4. DOMAIN call' = {"op", "range", "id", "block"}
    BY <1>1, <2>2 DEF IInv, SkippingInv
  <2>5. c + 1 \in b + 1 .. e
    BY <1>7, <1>11
  <2>6. \A pos \in Present(p) : (c + 1) * block_size <= pos
    <3> TAKE pos \in Present(p)
    <3>1. upper_bounds[c + 1] < level.from[pos + 1] /\ c # level.pointers[p + 2] \div block_size
      BY <1>5, <1>6, <1>9, <1>11
    <3> QED
      BY <1>2, <1>5, <1>9, <3>1, BoundTells
  <2>7. SkippingInv'
    BY <1>3, <1>4, <1>5, <1>6, <2>2, <2>3, <2>4, <2>5, <2>6 DEF SkippingInv
  <2>8. IteratorInv'
    BY <1>1, <1>4, <2>1, LevelKept DEF IInv, IteratorInv
  <2> QED
    BY <1>4, <2>1, <2>7, <2>8 DEF IInv, ScanningInv, AnswerInv, WalkInv, States
<1>12. CASE c # m_blocks /\ ~ (upper_bounds[c + 1] < call.id /\ c # e)
  <2>1. pc' = "scanning" /\ call' = call /\ m_it' = decode_block(c)
    BY <1>1, <1>7, <1>8, <1>12 DEF SkipBlock
  <2>2. Asks(p)' /\ Present(p)' = Present(p)
    BY <1>3, <1>4, <2>1, CallKept
  <2>3. c \in 0 .. m_blocks - 1
    <3>1. e <= m_blocks
      <4>1. PICK k \in Nat \ {0} : k = m_blocks
        BY <1>2, Blocks
      <4>2. PICK bs \in Nat \ {0} : bs = block_size
        BY BlockSequenceAssumption
      <4>3. PICK t \in 0 .. bs - 1 : w = bs * e + t
        <5>1. w % bs \in 0 .. bs - 1 /\ w = bs * (w \div bs) + (w % bs)
          BY Division
        <5>2. e = w \div bs
          BY <1>6, <4>2
        <5> QED
          BY Zenon, <5>1, <5>2
      <4>4. PICK u \in Nat : u = (k - 1) * bs /\ u + bs >= m_size
        <5>1. k - 1 \in 0 .. m_blocks - 1 /\ k - 1 = m_blocks - 1
          BY <4>1
        <5>2. /\ BlockSize(k - 1) \in 1 .. block_size /\ (k - 1) * block_size \in Nat
              /\ (k - 1) * block_size + BlockSize(k - 1) = m_size
          BY <1>2, <5>1, Blocks
        <5> QED
          BY <4>2, <5>2
      <4>5. w <= m_size /\ m_size \in Nat
        BY <1>2, <1>5, RangePositions, LevelFacts
      <4>6. e <= k
        <5> SUFFICES ASSUME k + 1 <= e PROVE FALSE
          OBVIOUS
        <5>1. (k + 1) * bs <= e * bs /\ e * bs \in Nat /\ e * bs = bs * e
          <6>1. k + 1 \in Nat /\ bs \in Nat
            OBVIOUS
          <6> QED
            BY <6>1, ProductGrows
        <5>2. (k + 1) * bs = u + bs + bs
          BY <4>4
        <5>3. PICK g \in Nat : g = bs * e
          BY <5>1
        <5>4. u + bs + bs <= g /\ w = g + t /\ w <= u + bs
          BY <4>3, <4>4, <4>5, <5>1, <5>2, <5>3
        <5> QED
          BY <5>4
      <4> QED
        BY <4>1, <4>6
    <3>2. m_blocks \in Nat
      BY <1>2, Blocks
    <3> QED
      BY <1>7, <1>12, <3>1, <3>2
  <2>4. PICK v \in Int : m_it' = It(c * block_size, v)
    BY <1>2, <2>1, <2>3, BlockDecoded
  <2>5. c * block_size \in 0 .. m_size - 1 /\ (c * block_size) \div block_size = c
    <3>1. 0 \in 0 .. BlockSize(c) - 1 /\ c * block_size + 0 = c * block_size
      BY <1>2, <2>3, Blocks, BlockSequenceAssumption
    <3>2. /\ c * block_size + 0 \in 0 .. m_size - 1
          /\ (c * block_size + 0) \div block_size = c
      BY <1>2, <2>3, <3>1, PlaceInBlock
    <3> QED
      BY <3>1, <3>2
  <2>6. IteratorInv'
    BY <1>4, <2>1, <2>4, <2>5, LevelKept DEF IteratorInv
  <2>7. ASSUME NEW pos \in Present(p)
        PROVE  /\ c * block_size \in level.pointers[p + 1] .. pos
               /\ m_it' = NodeAt(c * block_size)
               /\ (c * block_size) \div block_size = pos \div block_size
    <3>1. pos \div block_size = c
      <4>1. /\ upper_bounds[c + 1] \in Nat /\ level.from[pos + 1] \in Nat
            /\ upper_bounds[c + 1] >= level.from[pos + 1] \/ c = level.pointers[p + 2] \div block_size =>
                 pos \div block_size = c
        BY <1>2, <1>5, <1>9, BoundTells
      <4> QED
        BY SMTT(30), <1>5, <1>6, <1>9, <1>12, <4>1
    <3>2. a < c * block_size
      <4>1. PICK bs \in Nat \ {0} : bs = block_size
        BY BlockSequenceAssumption
      <4>2. PICK t \in 0 .. bs - 1 : a = bs * b + t
        <5>1. a % bs \in 0 .. bs - 1 /\ a = bs * (a \div bs) + (a % bs)
          BY Division
        <5>2. b = a \div bs
          BY <1>6, <4>1
        <5> QED
          BY Zenon, <5>1, <5>2
      <4>3. PICK u \in Nat : u = b * bs /\ u = bs * b /\ (b + 1) * bs = u + bs
        OBVIOUS
      <4>4. (b + 1) * bs <= c * bs /\ c * bs \in Nat
        <5>1. b + 1 \in Nat /\ bs \in Nat /\ c \in Nat /\ b + 1 <= c
          BY <1>7
        <5>2. c * bs \in Nat
          BY <5>1
        <5> QED
          BY <5>1, <5>2, ProductGrows
      <4>5. PICK g \in Nat : g = c * bs
        BY <4>4
      <4>6. u + bs <= g /\ a = u + t
        BY <4>2, <4>3, <4>4, <4>5
      <4>7. a < g
        BY <4>6
      <4> QED
        BY <4>1, <4>5, <4>7
    <3>3. PICK g \in Nat : g = c * block_size
      BY <2>5
    <3>4. g \in a .. w - 1 /\ g # a /\ g \in a .. pos
      BY <1>9, <3>2, <3>3
    <3>5. ~ First(g + 1)
      BY <1>2, <1>5, <3>4, RangePositions
    <3>6. decode_block(c) = NodeAt(g)
      BY <1>2, <2>3, <3>3, <3>5, BlockDecoded
    <3> QED
      BY <1>5, <2>1, <2>5, <3>1, <3>3, <3>4, <3>6
  <2>8. ScanningInv'
    BY <1>3, <1>4, <2>2, <2>7, LevelKept DEF ScanningInv
  <2> QED
    BY <1>4, <2>1, <2>6, <2>8 DEF IInv, SkippingInv, AnswerInv, WalkInv, States
<1> QED
  BY <1>10, <1>11, <1>12

(* The scan stays in the block, and does not pass the id.                  *)
LEMMA ScanValueKeeps ==
  ASSUME IInv, ScanValue
  PROVE  IInv'
<1>1. pc = "scanning" /\ UNCHANGED built /\ call' = call
  BY DEF ScanValue
<1>2. AllStored /\ level \in Levels
  BY <1>1, Ready
<1>3. PICK p \in 0 .. Len(level.pointers) - 2 :
        /\ Asks(p) /\ (AbsentIds \/ Present(p) # {})
        /\ \A pos \in Present(p) : \E i \in level.pointers[p + 1] .. pos :
             m_it = NodeAt(i) /\ i \div block_size = pos \div block_size
  BY <1>1 DEF IInv, ScanningInv
<1>4. /\ level' \in Levels /\ BuilderInv' /\ StoreInv' /\ level' = level
      /\ builder'.i = m_size'
  BY <1>1, BuiltKept DEF IInv, IteratorInv, built
<1>5. Asks(p)' /\ Present(p)' = Present(p)
  BY <1>1, <1>3, <1>4, CallKept
<1>6. PICK j \in 0 .. m_size - 1, v \in Int : m_it = It(j, v)
  BY <1>1, Ready
<1>7. m_it.pos = j % block_size /\ Len(m_it.buffer) = BlockSize(j \div block_size)
  BY <1>2, <1>6, ItFacts DEF It, Fields
<1>8. ASSUME NEW pos \in Present(p)
      PROVE  /\ (j % block_size) + 1 # BlockSize(j \div block_size)
             /\ \E i \in level.pointers[p + 1] .. pos :
                  further(m_it) = NodeAt(i) /\ i \div block_size = pos \div block_size
  <2>1. /\ pos \in level.pointers[p + 1] .. level.pointers[p + 2] - 1
        /\ level.from[pos + 1] = call.id
    BY DEF Present
  <2>2. PICK i \in level.pointers[p + 1] .. pos :
          m_it = NodeAt(i) /\ i \div block_size = pos \div block_size
    BY <1>3
  <2>3. PICK a \in Nat, w \in Nat : a = level.pointers[p + 1] /\ w = level.pointers[p + 2]
    BY <1>2, RangePositions
  <2>4. i \in a .. w - 1 /\ pos \in a .. w - 1 /\ i <= pos
    BY <2>1, <2>2, <2>3
  <2>5. m_it.val = level.from[i + 1] /\ m_it.val < call.id
    BY <2>2 DEF ScanValue, NodeAt, It, Fields
  <2>6. i # pos
    <3>1. level.from[i + 1] \in Nat /\ level.from[pos + 1] \in Nat
      BY <1>2, <2>1, <2>3, <2>4, OnceInRange
    <3> QED
      BY <2>1, <2>5, <3>1
  <2>7. i \in 0 .. m_size - 1 /\ pos \in 0 .. m_size - 1
    BY <1>2, <2>1, <2>3, <2>4, RangePositions
  <2>8. j = i
    <3>1. position(m_it) = j /\ position(m_it) = i
      BY <1>2, <1>6, <2>2, <2>7, ItFacts DEF NodeAt
    <3> QED
      BY <3>1
  <2>9. PICK b \in 0 .. m_blocks - 1 : b = i \div block_size
    BY <1>2, <2>7, PositionInBlock
  <2>10. PICK c \in Nat, k \in 0 .. BlockSize(b) - 1, l \in 0 .. BlockSize(b) - 1 :
           /\ c = b * block_size /\ i = c + k /\ pos = c + l /\ k = i % block_size
    <3>1. b * block_size \in Nat
      BY <1>2, Blocks
    <3>2. /\ i % block_size \in 0 .. BlockSize(b) - 1 /\ i = b * block_size + (i % block_size)
      BY <1>2, <2>7, <2>9, PositionInBlock
    <3>3. /\ pos % block_size \in 0 .. BlockSize(b) - 1 /\ pos = b * block_size + (pos % block_size)
      BY <1>2, <2>2, <2>7, <2>9, PositionInBlock
    <3> QED
      BY <3>1, <3>2, <3>3
  <2>11. k < l /\ k + 1 < BlockSize(b) /\ k + 1 \in 0 .. BlockSize(b) - 1
         /\ a <= c + k /\ c + (k + 1) < w /\ i + 1 = c + (k + 1) /\ i + 1 \in a .. pos
    <3>1. PICK s \in Nat : s = BlockSize(b)
      BY <1>2, Blocks, BlockSequenceAssumption
    <3>2. k \in 0 .. s - 1 /\ l \in 0 .. s - 1
      BY <3>1
    <3>3. i = c + k /\ pos = c + l
      BY <2>10
    <3>4. i < pos /\ pos < w /\ a <= i /\ i \in Nat /\ pos \in Nat
      BY SMTT(30), <2>3, <2>4, <2>6
    <3>5. k \in Nat /\ l \in Nat /\ c \in Nat /\ k < s /\ l < s
      BY <3>1, <3>2
    <3>6. k < l /\ k + 1 < s /\ k + 1 \in 0 .. s - 1
      BY <3>1, <3>3, <3>4, <3>5
    <3>7. i + 1 = c + (k + 1) /\ i + 1 \in a .. pos /\ i + 1 < w
      BY <3>3, <3>4, <3>5, <3>6
    <3> QED
      BY <3>1, <3>3, <3>4, <3>6, <3>7
  <2>12. further(NodeAt(c + k)) = NodeAt(c + (k + 1))
    BY <1>2, <2>3, <2>10, <2>11, FurtherInRange
  <2>13. further(m_it) = NodeAt(i + 1)
    BY <2>2, <2>10, <2>11, <2>12
  <2>14. (i + 1) \div block_size = b
    BY <1>2, <2>10, <2>11, PlaceInBlock
  <2>15. (j % block_size) + 1 # BlockSize(j \div block_size)
    <3>1. PICK s \in Nat : s = BlockSize(b)
      BY <1>2, Blocks, BlockSequenceAssumption
    <3>2. k + 1 < s
      BY <2>11, <3>1
    <3>3. (j % block_size) + 1 = k + 1 /\ BlockSize(j \div block_size) = s
      BY <2>8, <2>9, <2>10, <3>1
    <3>4. k \in Nat
      OBVIOUS
    <3> QED
      BY <3>1, <3>2, <3>3, <3>4
  <2>16. i + 1 \in level.pointers[p + 1] .. pos
    BY <2>3, <2>11
  <2> QED
    BY <2>2, <2>9, <2>13, <2>14, <2>15, <2>16
<1>9. CASE m_it.pos + 1 = Len(m_it.buffer)
  <2>1. pc' = "undefined" /\ m_it' = m_it
    BY <1>9 DEF ScanValue
  <2>2. AbsentIds
    BY <1>3, <1>7, <1>8, <1>9
  <2>3. IteratorInv'
    BY <1>1, <1>4, <2>1, LevelKept DEF IInv, IteratorInv
  <2> QED
    BY <1>4, <2>1, <2>2, <2>3 DEF IInv, SkippingInv, ScanningInv, AnswerInv, WalkInv, States
<1>10. CASE m_it.pos + 1 # Len(m_it.buffer)
  <2>1. pc' = "scanning" /\ m_it' = further(m_it)
    BY <1>1, <1>10 DEF ScanValue
  <2>2. /\ j + 1 \in 0 .. m_size - 1
        /\ m_it' = It(j + 1, v + Difference(j + 2) + 1) /\ v + Difference(j + 2) + 1 \in Int
    <3>1. /\ j + 1 \in 0 .. m_size - 1 /\ Difference(j + 2) \in Nat
          /\ further(It(j, v)) = It(j + 1, v + Difference(j + 2) + 1)
      BY <1>2, <1>7, <1>10, FurtherStep
    <3> QED
      BY <1>6, <2>1, <3>1
  <2>3. IteratorInv'
    BY <1>4, <2>1, <2>2, LevelKept DEF IteratorInv
  <2>4. ScanningInv'
    BY <1>3, <1>4, <1>5, <1>8, <2>1, LevelKept DEF ScanningInv
  <2> QED
    BY <1>4, <2>1, <2>3, <2>4 DEF IInv, SkippingInv, AnswerInv, WalkInv, States
<1> QED
  BY <1>9, <1>10

(* The scan ends at the id, if it is in the range.                         *)
LEMMA EndScanKeeps ==
  ASSUME IInv, EndScan
  PROVE  IInv'
<1>1. /\ pc = "scanning" /\ m_it.val >= call.id /\ pc' = "answered"
      /\ result' = position(m_it) /\ UNCHANGED built /\ call' = call /\ m_it' = m_it
  BY DEF EndScan, Answer
<1>2. AllStored /\ level \in Levels
  BY <1>1, Ready
<1>3. PICK p \in 0 .. Len(level.pointers) - 2 :
        /\ Asks(p)
        /\ \A pos \in Present(p) : \E i \in level.pointers[p + 1] .. pos :
             m_it = NodeAt(i) /\ i \div block_size = pos \div block_size
  BY <1>1 DEF IInv, ScanningInv
<1>4. /\ level' \in Levels /\ BuilderInv' /\ StoreInv' /\ level' = level
      /\ builder'.i = m_size'
  BY <1>1, BuiltKept DEF IInv, IteratorInv, built
<1>5. Asks(p)' /\ Present(p)' = Present(p)
  BY <1>1, <1>3, <1>4, CallKept
<1>6. ASSUME NEW pos \in Present(p)
      PROVE  result' = pos
  <2>1. /\ pos \in level.pointers[p + 1] .. level.pointers[p + 2] - 1
        /\ level.from[pos + 1] = call.id
    BY DEF Present
  <2>2. PICK i \in level.pointers[p + 1] .. pos : m_it = NodeAt(i)
    BY <1>3
  <2>3. PICK a \in Nat, w \in Nat : a = level.pointers[p + 1] /\ w = level.pointers[p + 2]
    BY <1>2, RangePositions
  <2>4. i \in a .. w - 1 /\ pos \in a .. w - 1 /\ i <= pos
    BY <2>1, <2>2, <2>3
  <2>5. level.from[i + 1] >= level.from[pos + 1]
    BY <1>1, <2>1, <2>2 DEF NodeAt, It, Fields
  <2>6. i = pos
    <3>1. /\ level.from[i + 1] \in Nat /\ level.from[pos + 1] \in Nat
          /\ i < pos => level.from[i + 1] < level.from[pos + 1]
      BY <1>2, <2>3, <2>4, OnceInRange
    <3> QED
      BY SMTT(30), <2>3, <2>4, <2>5, <3>1
  <2>7. i \in 0 .. m_size - 1
    BY <1>2, <2>3, <2>4, RangePositions
  <2>8. position(m_it) = i
    BY <1>2, <2>2, <2>7, ItFacts DEF NodeAt
  <2> QED
    BY <1>1, <2>6, <2>8
<1>7. IteratorInv'
  BY <1>1, <1>4, LevelKept DEF IInv, IteratorInv
<1>8. AnswerInv'
  BY <1>3, <1>4, <1>5, <1>6 DEF AnswerInv
<1> QED
  BY <1>1, <1>4, <1>7, <1>8 DEF IInv, SkippingInv, ScanningInv, WalkInv, States

(* The steps that only give the call, or the walk, up.                     *)
LEMMA IdleKeeps ==
  ASSUME IInv, Return \/ Stop
  PROVE  IInv'
<1>1. pc # "building" /\ pc' = "idle" /\ UNCHANGED built /\ m_it' = m_it
  BY DEF Return, Stop
<1>2. /\ level' \in Levels /\ BuilderInv' /\ StoreInv' /\ level' = level
      /\ builder'.i = m_size'
  BY <1>1, BuiltKept DEF IInv, IteratorInv, built
<1>3. IteratorInv'
  BY <1>1, <1>2, LevelKept DEF IInv, IteratorInv
<1> QED
  BY <1>1, <1>2, <1>3 DEF IInv, SkippingInv, ScanningInv, AnswerInv, WalkInv, States

(* A walk begins at a range's first node.                                  *)
LEMMA WalkKeeps ==
  ASSUME IInv, NEW p \in 0 .. Len(level.pointers) - 2, Walk(p)
  PROVE  IInv'
<1>1. /\ pc = "idle" /\ pc' = "walking" /\ UNCHANGED built /\ m_it' = m_it
      /\ walker' = [iterator |-> at(RangeAt(level.pointers, p), level.pointers[p + 1]), range |-> p]
  BY DEF Walk
<1>2. AllStored /\ level \in Levels
  BY <1>1, Ready
<1>3. /\ level' \in Levels /\ BuilderInv' /\ StoreInv' /\ level' = level
      /\ builder'.i = m_size'
  BY <1>1, BuiltKept DEF IInv, IteratorInv, built
<1>4. IteratorInv'
  BY <1>1, <1>3, LevelKept DEF IInv, IteratorInv
<1>5. level.pointers[p + 1] \in level.pointers[p + 1] .. level.pointers[p + 2] - 1
  <2>1. /\ level.pointers[p + 1] \in Nat /\ level.pointers[p + 2] \in Nat
        /\ level.pointers[p + 1] < level.pointers[p + 2]
    BY <1>2, RangePositions
  <2> QED
    BY <2>1
<1>6. walker' = [iterator |-> NodeAt(level.pointers[p + 1]), range |-> p]
  BY <1>1, <1>2, <1>5, AtPosition
<1>7. WalkInv'
  BY <1>3, <1>5, <1>6, LevelKept DEF WalkInv
<1> QED
  BY <1>1, <1>3, <1>4, <1>7 DEF IInv, SkippingInv, ScanningInv, AnswerInv, States

(* And goes to the next node, of its range or of the next.                 *)
LEMMA StepKeeps ==
  ASSUME IInv, Step
  PROVE  IInv'
<1> DEFINE x == iterator_next(walker.iterator)
<1>1. /\ pc = "walking" /\ pc' = "walking" /\ UNCHANGED built /\ m_it' = m_it
      /\ position(walker.iterator) + 1 < m_size
      /\ walker' = IF position(x) = RangeAt(level.pointers, walker.range).end
                   THEN [iterator |-> switch_range(x, x.pos), range |-> walker.range + 1]
                   ELSE [walker EXCEPT !.iterator = x]
  BY DEF Step
<1> HIDE DEF x
<1>2. AllStored /\ level \in Levels
  BY <1>1, Ready
<1>3. /\ level' \in Levels /\ BuilderInv' /\ StoreInv' /\ level' = level
      /\ builder'.i = m_size'
  BY <1>1, BuiltKept DEF IInv, IteratorInv, built
<1>4. IteratorInv'
  BY <1>1, <1>3, LevelKept DEF IInv, IteratorInv
<1>5. PICK p \in 0 .. Len(level.pointers) - 2 :
        \E k \in level.pointers[p + 1] .. level.pointers[p + 2] - 1 :
          walker = [iterator |-> NodeAt(k), range |-> p]
  BY <1>1 DEF IInv, WalkInv
<1>6. PICK i \in level.pointers[p + 1] .. level.pointers[p + 2] - 1 :
        walker = [iterator |-> NodeAt(i), range |-> p]
  BY <1>5
<1>7. PICK a \in Nat, w \in Nat : a = level.pointers[p + 1] /\ w = level.pointers[p + 2] /\ w <= m_size
  BY <1>2, RangePositions
<1>8. i \in 0 .. m_size - 1 /\ i \in a .. w - 1
  BY <1>2, <1>7, RangePositions
<1>9. x = iterator_next(NodeAt(i)) /\ walker.range = p /\ walker.iterator = NodeAt(i)
  BY <1>6 DEF x
<1>10. i + 1 < m_size
  <2>1. position(NodeAt(i)) = i
    BY <1>2, <1>8, ItFacts DEF NodeAt
  <2> QED
    BY <1>1, <1>9, <2>1
<1>11. level.from[i + 1] \in Int
  <2>1. i + 1 \in 1 .. m_size
    BY <1>2, <1>8, LevelFacts
  <2> QED
    BY SMTT(30), <1>2, <2>1, LevelFacts
<1>12. PICK v \in Int : /\ x = It(i + 1, v) /\ i + 1 \in 0 .. m_size - 1
                        /\ ~ First(i + 2) => x = NodeAt(i + 1)
  <2>1. /\ i + 1 \in 0 .. m_size - 1
        /\ \E v \in Int : iterator_next(It(i, level.from[i + 1])) = It(i + 1, v)
        /\ ~ First(i + 2) => iterator_next(NodeAt(i)) = NodeAt(i + 1)
    BY <1>2, <1>8, <1>10, <1>11, NextStep
  <2> QED
    BY <1>9, <2>1 DEF NodeAt
<1>13. position(x) = i + 1 /\ x.pos = (i + 1) % block_size
  BY <1>2, <1>12, ItFacts DEF It, Fields
<1>14. RangeAt(level.pointers, walker.range).end = w
  BY <1>2, <1>7, <1>9, RangePositions
<1>15. i \in Nat /\ i + 2 = (i + 1) + 1
  BY <1>7, <1>8
<1>16. CASE i + 1 = w
  <2>1. walker' = [iterator |-> switch_range(x, x.pos), range |-> p + 1]
    BY <1>1, <1>9, <1>13, <1>14, <1>16
  <2>2. p + 1 \in 0 .. Len(level.pointers) - 2
    <3>1. PICK n \in Nat : n = Len(level.pointers) /\ n > 1 /\ level.pointers[n] = m_size
      BY <1>2, LevelFacts
    <3>2. p + 2 # n
      BY <1>7, <1>10, <1>16, <3>1
    <3> QED
      BY <3>1, <3>2
  <2>3. /\ i + 1 \in level.pointers[(p + 1) + 1] .. level.pointers[(p + 1) + 2] - 1
        /\ First((i + 1) + 1)
    <3>1. (p + 1) + 1 = p + 2
      OBVIOUS
    <3>2. /\ level.pointers[(p + 1) + 1] = i + 1 /\ level.pointers[(p + 1) + 2] \in Nat
          /\ level.pointers[(p + 1) + 1] < level.pointers[(p + 1) + 2]
      BY <1>2, <1>7, <1>16, <2>2, <3>1, RangePositions
    <3>3. i + 1 \in level.pointers[(p + 1) + 1] .. level.pointers[(p + 1) + 2] - 1
      BY <1>15, <3>2
    <3> QED
      BY <1>2, <2>2, <3>2, <3>3, RangePositions
  <2>4. switch_range(x, x.pos) = NodeAt(i + 1)
    BY <1>2, <1>12, <1>13, <2>3, Switched
  <2>5. WalkInv'
    BY <1>3, <2>1, <2>2, <2>3, <2>4, LevelKept DEF WalkInv
  <2> QED
    BY <1>1, <1>3, <1>4, <2>5 DEF IInv, SkippingInv, ScanningInv, AnswerInv, States
<1>17. CASE i + 1 # w
  <2>1. walker' = [walker EXCEPT !.iterator = x]
    BY <1>1, <1>13, <1>14, <1>17
  <2>2. walker' = [iterator |-> x, range |-> p]
    BY <1>6, <2>1
  <2>3. i + 1 \in a .. w - 1 /\ i + 1 # a
    BY <1>7, <1>8, <1>17
  <2>4. x = NodeAt(i + 1)
    BY <1>2, <1>7, <1>12, <1>15, <2>3, RangePositions
  <2>5. WalkInv'
    BY <1>3, <1>7, <2>2, <2>3, <2>4, LevelKept DEF WalkInv
  <2> QED
    BY <1>1, <1>3, <1>4, <2>5 DEF IInv, SkippingInv, ScanningInv, AnswerInv, States
<1> QED
  BY <1>16, <1>17

(* What Push reads, and that the difference is the one that should be      *)
(* stored.                                                                 *)
LEMMA PushReads ==
  ASSUME IInv, Push
  PROVE  LET i == builder.i
             b == Len(upper_bounds)
             buf == Append(builder.buf, Difference(i + 1))
             closes == Len(buf) = BlockSize(b) IN
         /\ level' = level /\ pc = "building" /\ pc' = "building" /\ m_it' = m_it
         /\ i \in 0 .. m_size - 1 /\ i + 1 \in 1 .. m_size
         /\ \E q \in 0 .. Len(level.pointers) - 2 :
              /\ level.pointers[q + 1] < i + 1 /\ i + 1 <= level.pointers[q + 2]
              /\ builder' = [i |-> i + 1, range |-> q, within |-> (i + 1) - level.pointers[q + 1],
                             last |-> level.from[i + 1], buf |-> IF closes THEN <<>> ELSE buf]
         /\ data' = IF closes THEN encode(data, buf) ELSE data
         /\ endpoints' = IF closes /\ b # m_blocks - 1 THEN Append(endpoints, Len(data')) ELSE endpoints
         /\ upper_bounds' = IF closes THEN Append(upper_bounds, level.from[i + 1]) ELSE upper_bounds
<1> DEFINE i == builder.i
           p == builder.range
           leaves == builder.within = Length(RangeAt(level.pointers, p))
           last == IF leaves THEN -1 ELSE builder.last
           v == level.from[i + 1]
<1>0. level \in Levels /\ BuilderInv
  BY DEF IInv
<1>1. /\ i # m_size /\ i \in 0 .. m_size /\ p \in 0 .. Len(level.pointers) - 2
      /\ builder.within = i - level.pointers[p + 1] /\ i <= level.pointers[p + 2]
      /\ i = 0 => p = 0 /\ builder.last = -1
      /\ i > 0 => level.pointers[p + 1] < i /\ builder.last = level.from[i]
  BY <1>0 DEF BuilderInv, Push
<1>2. PICK n \in Nat : n = m_size
  BY <1>0, LevelFacts
<1>3. i \in 0 .. n - 1 /\ i + 1 \in 1 .. n
  BY <1>1, <1>2
<1>4. PICK a \in Nat, w \in Nat : /\ a = level.pointers[p + 1] /\ w = level.pointers[p + 2]
                                  /\ a < w /\ w <= n
  BY <1>0, <1>1, <1>2, RangePositions
<1>5. leaves <=> i = w
  <2>1. Length(RangeAt(level.pointers, p)) = w - a
    BY <1>0, <1>1, <1>4, RangePositions DEF Length
  <2>2. builder.within = i - a /\ i \in Nat
    BY <1>1, <1>3, <1>4
  <2>3. leaves <=> i - a = w - a
    BY <2>1, <2>2
  <2> HIDE DEF i, leaves
  <2> QED
    BY <2>2, <2>3
<1>6. a <= i
  <2>1. i = 0 => a = 0
    BY <1>0, <1>1, <1>4, LevelFacts
  <2> QED
    BY SMTT(30), <1>1, <1>3, <1>4, <2>1
<1>7. level.from[i + 1] \in Nat /\ Difference(i + 1) \in Nat
      /\ (First(i + 1) => Difference(i + 1) = level.from[i + 1])
      /\ (~ First(i + 1) => level.from[i + 1] = level.from[(i + 1) - 1] + Difference(i + 1) + 1)
  BY <1>0, <1>2, <1>3, Differences, LevelFacts
<1>8. (i + 1) - 1 = i /\ i \in Nat
  BY <1>3
<1>9. ASSUME i = w
      PROVE  p + 1 \in 0 .. Len(level.pointers) - 2 /\ First(i + 1)
  <2>1. PICK k \in Nat : k = Len(level.pointers) /\ level.pointers[k] = n
    BY <1>0, <1>2, LevelFacts
  <2>2. p + 2 # k
    BY <1>3, <1>4, <1>9, <2>1
  <2>3. p + 2 \in 1 .. k - 1
    BY <1>1, <2>1, <2>2
  <2>4. First(i + 1)
    BY <1>4, <1>8, <1>9, <2>1, <2>3 DEF First
  <2> QED
    BY <1>1, <2>1, <2>3, <2>4
<1>10. ASSUME i # w
       PROVE  i < w /\ (First(i + 1) <=> i = a)
  <2>1. i < w
    BY <1>1, <1>3, <1>4, <1>10
  <2>2. i \in a .. w - 1
    BY <1>3, <1>4, <1>6, <2>1
  <2> QED
    BY <1>0, <1>1, <1>4, <2>1, <2>2, RangePositions
<1>11. v - last - 1 = Difference(i + 1)
  <2>1. CASE i = w
    <3>1. last = -1
      BY <1>5, <2>1
    <3> HIDE DEF last
    <3> QED
      BY <1>7, <1>9, <2>1, <3>1
  <2>2. CASE i # w /\ i = 0
    <3>1. last = -1 /\ a = 0
      BY <1>1, <1>4, <1>5, <1>6, <2>2
    <3> HIDE DEF last
    <3> QED
      BY <1>7, <1>10, <2>2, <3>1
  <2>3. CASE i # w /\ i # 0
    <3>1. last = level.from[i] /\ a # i
      BY <1>1, <1>3, <1>4, <1>5, <2>3
    <3>2. level.from[i] \in Nat
      <4>1. i \in 1 .. n
        BY <1>3, <2>3
      <4> QED
        BY <1>0, <1>2, <4>1, LevelFacts
    <3> HIDE DEF last
    <3> QED
      BY <1>7, <1>8, <1>10, <2>3, <3>1, <3>2
  <2> QED
    BY <2>1, <2>2, <2>3
<1>12. /\ level' = level /\ pc = "building" /\ pc' = "building" /\ m_it' = m_it
       /\ builder' = [i      |-> i + 1,
                      range  |-> IF leaves THEN p + 1 ELSE p,
                      within |-> IF leaves THEN 1 ELSE builder.within + 1,
                      last   |-> v,
                      buf    |-> IF Len(Append(builder.buf, v - last - 1)) = BlockSize(Len(upper_bounds))
                                 THEN <<>> ELSE Append(builder.buf, v - last - 1)]
  BY DEF Push
<1>13. LET buf == Append(builder.buf, v - last - 1)
           b == Len(upper_bounds)
           closes == Len(buf) = BlockSize(b) IN
       /\ data' = IF closes THEN encode(data, buf) ELSE data
       /\ endpoints' = IF closes /\ b # m_blocks - 1 THEN Append(endpoints, Len(data')) ELSE endpoints
       /\ upper_bounds' = IF closes THEN Append(upper_bounds, v) ELSE upper_bounds
  BY DEF Push
<1> HIDE DEF last, leaves
<1>14. \E q \in 0 .. Len(level.pointers) - 2 :
         /\ level.pointers[q + 1] < i + 1 /\ i + 1 <= level.pointers[q + 2]
         /\ q = IF leaves THEN p + 1 ELSE p
         /\ (IF leaves THEN 1 ELSE builder.within + 1) = (i + 1) - level.pointers[q + 1]
  <2>1. CASE i = w
    <3>1. (p + 1) + 1 = p + 2 /\ level.pointers[(p + 1) + 1] = i
      BY <1>1, <1>4, <2>1
    <3>2. /\ level.pointers[(p + 1) + 2] \in Nat
          /\ level.pointers[(p + 1) + 1] < level.pointers[(p + 1) + 2]
      BY <1>0, <1>9, <2>1, RangePositions
    <3>3. i < i + 1 /\ i + 1 <= level.pointers[(p + 1) + 2] /\ 1 = (i + 1) - i
      BY <1>8, <3>1, <3>2
    <3> QED
      BY <1>5, <1>9, <2>1, <3>1, <3>3
  <2>2. CASE i # w
    <3>1. a < i + 1 /\ i + 1 <= w /\ builder.within + 1 = (i + 1) - a
      <4>1. a <= i /\ i < w /\ builder.within = i - a /\ i \in Nat
        BY <1>1, <1>4, <1>6, <1>8, <1>10, <2>2
      <4> HIDE DEF i
      <4> QED
        BY <4>1
    <3> QED
      BY <1>1, <1>4, <1>5, <2>2, <3>1
  <2> QED
    BY <2>1, <2>2
<1>15. PICK q \in 0 .. Len(level.pointers) - 2 :
         /\ level.pointers[q + 1] < i + 1 /\ i + 1 <= level.pointers[q + 2]
         /\ q = IF leaves THEN p + 1 ELSE p
         /\ (IF leaves THEN 1 ELSE builder.within + 1) = (i + 1) - level.pointers[q + 1]
  BY <1>14
<1>16. builder' = [i |-> i + 1, range |-> q, within |-> (i + 1) - level.pointers[q + 1], last |-> v,
                   buf |-> IF Len(Append(builder.buf, Difference(i + 1))) = BlockSize(Len(upper_bounds))
                           THEN <<>> ELSE Append(builder.buf, Difference(i + 1))]
  BY <1>11, <1>12, <1>15
<1> QED
  BY <1>2, <1>3, <1>11, <1>12, <1>13, <1>15, <1>16

(* What BuilderInv says, of its parts.                                     *)
BufferNow(i, b, l) ==
  /\ b = Len(upper_bounds) /\ l = Len(builder.buf)
  /\ builder.buf \in Seq(Small)
  /\ \A k \in 1 .. l : builder.buf[k] = Difference(b * block_size + k)
  /\ i < m_size => b < m_blocks /\ l < BlockSize(b) /\ i = b * block_size + l
  /\ i = m_size => b = m_blocks /\ builder.buf = <<>>

RangeNow(i, p) ==
  /\ builder.i = i /\ i \in 0 .. m_size /\ i # 0
  /\ builder.range = p /\ p \in 0 .. Len(level.pointers) - 2
  /\ builder.within = i - level.pointers[p + 1]
  /\ i <= level.pointers[p + 2]
  /\ level.pointers[p + 1] < i /\ builder.last = level.from[i]

BuilderNow(i, p, b, l) ==
  /\ DOMAIN builder = {"i", "range", "within", "last", "buf"}
  /\ BufferNow(i, b, l) /\ RangeNow(i, p)

(* What makes BuilderInv hold after a step.                                *)
LEMMA BuilderIs ==
  ASSUME NEW i, NEW p, NEW b, NEW l
  PROVE  BuilderNow(i, p, b, l)' => BuilderInv'
  BY DEF BuilderNow, BufferNow, RangeNow, BuilderInv

(* What is appended.                                                       *)
LEMMA Appended ==
  ASSUME NEW S, NEW s \in Seq(S), NEW x \in S
  PROVE  /\ Append(s, x) \in Seq(S) /\ Len(Append(s, x)) = Len(s) + 1
         /\ \A k \in 1 .. Len(s) : Append(s, x)[k] = s[k]
         /\ Append(s, x)[Len(s) + 1] = x
  OBVIOUS

(* One value, which may close a block.                                     *)
LEMMA PushKeeps ==
  ASSUME IInv, Push
  PROVE  IInv'
<1>18. PICK b \in Nat : b = Len(upper_bounds)
  BY DEF IInv, StoreInv
<1> DEFINE buf == Append(builder.buf, Difference(builder.i + 1))
           closes == Len(buf) = BlockSize(b)
<1>0. level \in Levels /\ BuilderInv /\ StoreInv
  BY DEF IInv
<1>1. PICK i \in Nat : i = builder.i /\ i \in 0 .. m_size - 1 /\ i + 1 \in 1 .. m_size
  BY PushReads
<1>2. PICK q \in 0 .. Len(level.pointers) - 2 :
        /\ level.pointers[q + 1] < i + 1 /\ i + 1 <= level.pointers[q + 2]
        /\ builder' = [i |-> i + 1, range |-> q, within |-> (i + 1) - level.pointers[q + 1],
                       last |-> level.from[i + 1], buf |-> IF closes THEN <<>> ELSE buf]
  BY <1>1, <1>18, PushReads
<1>3. /\ level' = level /\ pc = "building" /\ pc' = "building" /\ m_it' = m_it
      /\ data' = IF closes THEN encode(data, buf) ELSE data
      /\ endpoints' = IF closes /\ b # m_blocks - 1 THEN Append(endpoints, Len(data')) ELSE endpoints
      /\ upper_bounds' = IF closes THEN Append(upper_bounds, level.from[i + 1]) ELSE upper_bounds
  BY <1>1, <1>18, PushReads
<1>4. /\ m_size' = m_size /\ m_blocks' = m_blocks
      /\ \A c : BlockSize(c)' = BlockSize(c) /\ Block(c)' = Block(c)
      /\ \A k : Difference(k)' = Difference(k)
  BY <1>3, LevelKept
<1>5. /\ builder'.i = i + 1 /\ builder'.range = q /\ builder'.last = level.from[i + 1]
      /\ builder'.within = (i + 1) - level.pointers[q + 1]
      /\ builder'.buf = IF closes THEN <<>> ELSE buf
      /\ DOMAIN builder' = {"i", "range", "within", "last", "buf"}
  <2> HIDE DEF closes, buf
  <2> QED
    BY <1>2
<1>6. m_size \in Nat \ {0}
  BY <1>0, LevelFacts
<1>7. PICK l \in Nat : l = Len(builder.buf)
  BY <1>0 DEF BuilderInv
<1>8. /\ builder.buf \in Seq(Small) /\ b \in 0 .. m_blocks - 1 /\ l < BlockSize(b)
      /\ i = b * block_size + l
      /\ \A k \in 1 .. l : builder.buf[k] = Difference(b * block_size + k)
  <2>1. i < m_size
    BY <1>1, <1>6
  <2>2. b \in Nat
    BY <1>0, <1>18 DEF StoreInv
  <2>3. m_blocks \in Nat
    BY <1>0, Blocks
  <2>4. /\ builder.buf \in Seq(Small) /\ b < m_blocks /\ l < BlockSize(b)
        /\ i = b * block_size + l
        /\ \A k \in 1 .. l : builder.buf[k] = Difference(b * block_size + k)
    BY <1>0, <1>1, <1>7, <1>18, <2>1 DEF BuilderInv
  <2> QED
    BY <2>2, <2>3, <2>4
<1>9. Difference(i + 1) \in Small /\ level.from[i + 1] \in Nat
  BY <1>0, <1>1, Differences, LevelFacts
<1>10. PICK c \in Nat : c = b * block_size
  BY <1>0, <1>8, Blocks
<1>11. PICK s \in Nat \ {0} : s = BlockSize(b)
  BY <1>0, <1>8, Blocks, BlockSequenceAssumption
<1>12. /\ buf \in Seq(Small) /\ Len(buf) = l + 1
       /\ \A k \in 1 .. l + 1 : buf[k] = Difference(b * block_size + k)
  <2>1. /\ buf \in Seq(Small) /\ Len(buf) = l + 1
        /\ \A k \in 1 .. l : buf[k] = builder.buf[k]
        /\ buf[l + 1] = Difference(i + 1)
    BY <1>1, <1>7, <1>8, <1>9, Appended
  <2> HIDE DEF buf
  <2>2. ASSUME NEW k \in 1 .. l + 1
        PROVE  buf[k] = Difference(b * block_size + k)
    <3>1. CASE k = l + 1
      <4>1. b * block_size + k = i + 1
        BY <1>8, <1>10, <3>1
      <4> QED
        BY <2>1, <3>1, <4>1
    <3>2. CASE k # l + 1
      <4>1. k \in 1 .. l
        BY <3>2
      <4> QED
        BY <1>8, <2>1, <4>1
    <3> QED
      BY <3>1, <3>2
  <2> QED
    BY <2>1, <2>2
<1>13. i + 1 = c + (l + 1) /\ l < s /\ c + s <= m_size /\ (b = m_blocks - 1 => c + s = m_size)
       /\ (b # m_blocks - 1 => s = block_size)
  <2>1. /\ b * block_size + BlockSize(b) <= m_size
        /\ b # m_blocks - 1 => BlockSize(b) = block_size
        /\ b = m_blocks - 1 => b * block_size + BlockSize(b) = m_size
    BY <1>0, <1>8, Blocks
  <2>2. i + 1 = c + (l + 1)
    BY <1>8, <1>10
  <2> QED
    BY <1>8, <1>10, <1>11, <2>1, <2>2
<1>14. data \in Seq(byte) /\ endpoints \in Seq(Nat) /\ upper_bounds \in Seq(Nat)
  BY <1>0, <1>18 DEF StoreInv
<1>15. Len(endpoints) = b /\ b \in Nat /\ m_blocks \in Nat
  <2>1. m_blocks \in Nat /\ b \in Nat
    BY <1>0, <1>14, Blocks
  <2>2. b # m_blocks
    <3> QED
      BY <1>8, <2>1
  <2> QED
    BY <1>0, <1>18, <2>1, <2>2 DEF StoreInv
<1> HIDE DEF buf
<1>16. CASE ~ closes
  <2>1. builder'.buf = buf /\ data' = data /\ endpoints' = endpoints /\ upper_bounds' = upper_bounds
    BY <1>3, <1>5, <1>16
  <2>2. l + 1 < s /\ i + 1 < m_size
    <3>1. l + 1 # s
      BY <1>11, <1>12, <1>16
    <3> QED
      BY <1>1, <1>6, <1>13, <3>1
  <2>3. Len(upper_bounds') = b /\ Len(builder'.buf) = l + 1
    BY <1>12, <1>18, <2>1
  <2>4. BuilderInv'
    <3>1. i + 1 \in 0 .. m_size /\ i + 1 > 0 /\ i + 1 # 0 /\ i + 1 # m_size
      BY <1>1, <1>6, <2>2
    <3>2. b < m_blocks /\ l + 1 < BlockSize(b) /\ i + 1 = b * block_size + (l + 1)
      BY <1>8, <1>10, <1>11, <1>13, <1>15, <2>2
    <3>3. BuilderNow(i + 1, q, b, l + 1)'
      <4>1. \A k \in 1 .. l + 1 : builder'.buf[k] = Difference(b * block_size + k)'
        BY <1>4, <1>12, <2>1
      <4>2. builder'.buf \in Seq(Small)
        BY <1>12, <1>18, <2>1
      <4>3. (level.pointers[q + 1])' = level.pointers[q + 1] /\ (level.pointers[q + 2])' = level.pointers[q + 2]
            /\ Len(level.pointers)' = Len(level.pointers) /\ (level.from[i + 1])' = level.from[i + 1]
        BY <1>3
      <4>4. /\ builder'.i = i + 1 /\ builder'.range = q /\ builder'.last = level.from[i + 1]
            /\ builder'.within = (i + 1) - level.pointers[q + 1]
            /\ DOMAIN builder' = {"i", "range", "within", "last", "buf"}
            /\ level.pointers[q + 1] < i + 1 /\ i + 1 <= level.pointers[q + 2]
        BY <1>2, <1>5
      <4>5. m_size' = m_size /\ m_blocks' = m_blocks /\ BlockSize(b)' = BlockSize(b) /\ block_size' = block_size
        BY <1>4
      <4> HIDE DEF closes
      <4>6. BufferNow(i + 1, b, l + 1)'
        BY <2>3, <3>1, <3>2, <4>1, <4>2, <4>5 DEF BufferNow
      <4>7. RangeNow(i + 1, q)'
        <5>1. level' = level /\ i + 1 \in 0 .. m_size /\ i + 1 # 0 /\ m_size' = m_size
          BY <1>3, <3>1, <4>5
        <5>2. /\ builder'.i = i + 1 /\ builder'.range = q /\ builder'.last = level.from[i + 1]
              /\ builder'.within = (i + 1) - level.pointers[q + 1]
              /\ level.pointers[q + 1] < i + 1 /\ i + 1 <= level.pointers[q + 2]
          BY <4>4
        <5>3. q \in 0 .. Len(level.pointers) - 2
          OBVIOUS
        <5> QED
          BY <5>1, <5>2, <5>3 DEF RangeNow
      <4> QED
        BY <4>4, <4>6, <4>7 DEF BuilderNow
    <3> QED
      BY <3>3, BuilderIs
  <2>5. \A k : Stored(k)' = Stored(k)
    BY <1>3, <1>4, <2>1 DEF Stored
  <2>6. StoreInv'
    BY <1>0, <1>3, <1>4, <2>1, <2>5 DEF StoreInv
  <2>7. IteratorInv'
    BY <1>3 DEF IInv, IteratorInv, no_iterator
  <2> QED
    BY <1>0, <1>3, <2>4, <2>6, <2>7
    DEF IInv, SkippingInv, ScanningInv, AnswerInv, WalkInv, States
<1>17. CASE closes
  <2>1. /\ builder'.buf = <<>> /\ data' = encode(data, buf)
        /\ endpoints' = IF b # m_blocks - 1 THEN Append(endpoints, Len(data')) ELSE endpoints
        /\ upper_bounds' = Append(upper_bounds, level.from[i + 1])
    BY <1>3, <1>5, <1>17
  <2>2. l + 1 = s
    BY <1>11, <1>12, <1>17
  <2>3. buf = Block(b)
    <3>1. DOMAIN buf = 1 .. s
      BY <1>12, <2>2
    <3>2. buf = [k \in 1 .. s |-> buf[k]]
      BY <1>12, <3>1
    <3>3. \A k \in 1 .. s : buf[k] = Difference(b * block_size + k)
      BY <1>12, <2>2
    <3> QED
      BY <1>11, <3>2, <3>3 DEF Block
  <2>4. data' \in Seq(byte) /\ Grown(data, data') /\ Written(data', Len(data), Block(b))
    BY <1>12, <1>14, <2>1, <2>3, EncodeWrites
  <2>5. /\ upper_bounds' \in Seq(Nat) /\ Len(upper_bounds') = b + 1
        /\ \A k \in 1 .. b : upper_bounds'[k] = upper_bounds[k]
        /\ upper_bounds'[b + 1] = level.from[i + 1]
    BY <1>9, <1>14, <1>18, <2>1, Appended
  <2>6. Len(data') \in Nat /\ Len(data) \in Nat
    BY <1>14, <2>4
  <2>7. /\ endpoints' \in Seq(Nat)
        /\ Len(endpoints') = IF b + 1 = m_blocks THEN m_blocks - 1 ELSE b + 1
        /\ \A k \in 1 .. b : endpoints'[k] = endpoints[k]
        /\ b + 1 # m_blocks => endpoints'[b + 1] = Len(data')
    <3>1. CASE b # m_blocks - 1
      <4>1. endpoints' = Append(endpoints, Len(data')) /\ b + 1 # m_blocks
        BY <1>15, <2>1, <3>1
      <4> QED
        BY <1>14, <1>15, <2>6, <4>1, Appended
    <3>2. CASE b = m_blocks - 1
      <4>1. endpoints' = endpoints /\ b + 1 = m_blocks
        BY <1>15, <2>1, <3>2
      <4> QED
        BY <1>14, <1>15, <3>2, <4>1
    <3> QED
      BY <3>1, <3>2
  <2>8. c + s = i + 1
    BY <1>13, <2>2
  <2>9. b # m_blocks - 1 => /\ b + 1 \in 0 .. m_blocks - 1 /\ (b + 1) * block_size = i + 1
                            /\ BlockSize(b + 1) \in Nat \ {0} /\ i + 1 < m_size
    <3> SUFFICES ASSUME b # m_blocks - 1
                 PROVE  /\ b + 1 \in 0 .. m_blocks - 1 /\ (b + 1) * block_size = i + 1
                        /\ BlockSize(b + 1) \in Nat \ {0} /\ i + 1 < m_size
      OBVIOUS
    <3>1. b + 1 \in 0 .. m_blocks - 1
      BY <1>8, <1>15
    <3>2. (b + 1) * block_size = c + block_size
      BY <1>10, <1>15, BlockSequenceAssumption
    <3>3. (b + 1) * block_size = i + 1
      BY <1>13, <2>8, <3>2
    <3>4. BlockSize(b + 1) \in 1 .. block_size /\ (b + 1) * block_size + BlockSize(b + 1) <= m_size
      BY <1>0, <3>1, Blocks
    <3>5. PICK t \in Nat \ {0} : t = BlockSize(b + 1)
      BY <3>4, BlockSequenceAssumption
    <3>6. i + 1 + t <= m_size
      BY <3>3, <3>4, <3>5
    <3> QED
      BY <1>6, <3>1, <3>3, <3>5, <3>6
  <2>10. BuilderInv'
    <3>1. i + 1 \in 0 .. m_size /\ i + 1 > 0 /\ i + 1 # 0
      BY <1>1, <1>6
    <3>2. i + 1 < m_size => /\ b + 1 < m_blocks /\ 0 < BlockSize(b + 1)
                            /\ i + 1 = (b + 1) * block_size + 0
      <4>1. i + 1 < m_size => b # m_blocks - 1
        BY <1>6, <1>13, <2>8
      <4>2. b # m_blocks - 1 => b + 1 < m_blocks
        BY <1>15, <2>9
      <4>3. b # m_blocks - 1 => 0 < BlockSize(b + 1)
        BY <2>9
      <4>4. (i + 1) + 0 = i + 1
        OBVIOUS
      <4> QED
        BY <2>9, <4>1, <4>2, <4>3, <4>4
    <3>3. i + 1 = m_size => b + 1 = m_blocks
      <4>1. b = m_blocks - 1 => b + 1 = m_blocks
        BY <1>15
      <4>2. ~ (i + 1 < m_size /\ i + 1 = m_size)
        BY <1>6
      <4> QED
        BY <2>9, <4>1, <4>2
    <3>4. builder'.buf = <<>> /\ Len(builder'.buf) = 0 /\ builder'.buf \in Seq(Small)
      BY <2>1
    <3>5. \A k \in 1 .. Len(builder'.buf) : FALSE
      BY <3>4
    <3>6. BuilderNow(i + 1, q, b + 1, 0)'
      <4>1. (level.pointers[q + 1])' = level.pointers[q + 1] /\ (level.pointers[q + 2])' = level.pointers[q + 2]
            /\ Len(level.pointers)' = Len(level.pointers) /\ (level.from[i + 1])' = level.from[i + 1]
        BY <1>3
      <4>2. \A k \in 1 .. 0 : FALSE
        OBVIOUS
      <4>4. /\ builder'.i = i + 1 /\ builder'.range = q /\ builder'.last = level.from[i + 1]
            /\ builder'.within = (i + 1) - level.pointers[q + 1]
            /\ DOMAIN builder' = {"i", "range", "within", "last", "buf"}
            /\ level.pointers[q + 1] < i + 1 /\ i + 1 <= level.pointers[q + 2]
        BY <1>2, <1>5
      <4>5. m_size' = m_size /\ m_blocks' = m_blocks /\ BlockSize(b + 1)' = BlockSize(b + 1)
        BY <1>4
      <4> HIDE DEF closes
      <4>6. BufferNow(i + 1, b + 1, 0)'
        BY <2>5, <3>2, <3>3, <3>4, <4>2, <4>5 DEF BufferNow
      <4>7. RangeNow(i + 1, q)'
        <5>1. level' = level /\ i + 1 \in 0 .. m_size /\ i + 1 # 0 /\ m_size' = m_size
          BY <1>3, <3>1, <4>5
        <5>2. /\ builder'.i = i + 1 /\ builder'.range = q /\ builder'.last = level.from[i + 1]
              /\ builder'.within = (i + 1) - level.pointers[q + 1]
              /\ level.pointers[q + 1] < i + 1 /\ i + 1 <= level.pointers[q + 2]
          BY <4>4
        <5>3. q \in 0 .. Len(level.pointers) - 2
          OBVIOUS
        <5> QED
          BY <5>1, <5>2, <5>3 DEF RangeNow
      <4> QED
        BY <4>4, <4>6, <4>7 DEF BuilderNow
    <3> QED
      BY <3>6, BuilderIs
  <2>11. ASSUME NEW k \in 0 .. b PROVE Stored(k)'
    <3>1. CASE k = b
      <4>1. upper_bounds'[k + 1] = level.from[k * block_size + BlockSize(k)]
        BY <1>10, <1>11, <2>5, <2>8, <3>1
      <4>2. Len(data) = IF k = 0 THEN 0 ELSE endpoints'[k]
        <5>1. CASE b = 0
          <6>1. data = <<>>
            BY <1>0, <1>18, <5>1 DEF StoreInv
          <6> QED
            BY <3>1, <5>1, <6>1
        <5>2. CASE b # 0
          <6>1. b # m_blocks
            BY <1>8, <1>15
          <6>2. endpoints[b] = Len(data)
            BY <1>0, <1>18, <5>2, <6>1 DEF StoreInv
          <6>3. b \in 1 .. b
            BY <1>15, <5>2
          <6> QED
            BY <2>7, <3>1, <5>2, <6>2, <6>3
        <5> QED
          BY <5>1, <5>2
      <4> QED
        BY <1>3, <1>4, <2>4, <3>1, <4>1, <4>2 DEF Stored
    <3>2. CASE k # b
      <4>1. k \in 0 .. b - 1 /\ k + 1 \in 1 .. b /\ (k # 0 => k \in 1 .. b) /\ k \in 0 .. m_blocks - 1
        BY <1>8, <1>15, <3>2
      <4>2. Stored(k)
        BY <1>0, <1>18, <4>1 DEF StoreInv
      <4>3. upper_bounds'[k + 1] = level.from[k * block_size + BlockSize(k)]
        BY <2>5, <4>1, <4>2 DEF Stored
      <4>4. PICK start \in Nat : start = IF k = 0 THEN 0 ELSE endpoints[k]
        BY <1>14, <1>15, <4>1
      <4>5. Written(data, start, Block(k))
        BY <4>2, <4>4 DEF Stored
      <4>6. Block(k) \in Seq(Small)
        BY <1>0, <4>1, BlockNumbers
      <4>7. Written(data', start, Block(k))
        BY <1>14, <2>4, <4>4, <4>5, <4>6, WrittenStays
      <4>8. start = IF k = 0 THEN 0 ELSE endpoints'[k]
        BY <2>7, <4>1, <4>4
      <4> QED
        BY <1>3, <1>4, <4>3, <4>7, <4>8 DEF Stored
    <3> QED
      BY <3>1, <3>2
  <2>12. StoreInv'
    <3>1. (b + 1) - 1 = b /\ b + 1 # 0
      BY <1>15
    <3> QED
      BY <1>4, <2>4, <2>5, <2>7, <2>11, <3>1 DEF StoreInv
  <2>13. IteratorInv'
    BY <1>3 DEF IInv, IteratorInv, no_iterator
  <2> QED
    BY <1>0, <1>3, <2>10, <2>12, <2>13
    DEF IInv, SkippingInv, ScanningInv, AnswerInv, WalkInv, States
<1> QED
  BY <1>16, <1>17
-----------------------------------------------------------------------------
(* No step leaves the invariant.                                           *)
LEMMA Steady ==
  ASSUME IInv, UNCHANGED vars
  PROVE  IInv'
<1>1. /\ UNCHANGED built /\ level' = level /\ pc' = pc /\ m_it' = m_it /\ call' = call
      /\ result' = result /\ walker' = walker
  BY DEF vars, built
<1>2. /\ level' \in Levels /\ BuilderInv' /\ StoreInv'
      /\ builder.i = m_size => builder'.i = m_size'
  BY <1>1, BuiltKept
<1>3. IteratorInv'
  BY <1>1, <1>2, LevelKept DEF IInv, IteratorInv, no_iterator
<1>4. \A p : (Asks(p)' <=> Asks(p)) /\ Present(p)' = Present(p)
  BY <1>1, CallKept
<1>5. SkippingInv' /\ ScanningInv'
  BY <1>1, <1>4, LevelKept DEF IInv, SkippingInv, ScanningInv
<1>6. AnswerInv'
  BY <1>1, <1>4 DEF IInv, AnswerInv
<1>7. WalkInv'
  BY <1>1, LevelKept DEF IInv, WalkInv
<1> QED
  BY <1>1, <1>2, <1>3, <1>5, <1>6, <1>7 DEF IInv

(* The invariant holds throughout: the blocks that are closed hold their   *)
(* nodes' differences, m_it and the walkers are at a node's place, and     *)
(* find has not gone past the id.                                          *)
THEOREM Inductive == Spec => []IInv
<1>1. Init => IInv
  BY Initially
<1>2. IInv /\ [Next]_vars => IInv'
  <2> SUFFICES ASSUME IInv, [Next]_vars PROVE IInv'
    OBVIOUS
  <2>1. CASE Push
    BY <2>1, PushKeeps
  <2>2. CASE Load
    BY <2>2, LoadKeeps
  <2>3. CASE \E r \in Ranges : \E pos \in Positions(r) : Access(r, pos)
    BY <2>3, AccessKeeps
  <2>4. CASE \E r \in Ranges : \E id \in Asked(r) : FindByScan(r, id)
    BY <2>4, FindByScanKeeps
  <2>5. CASE \E r \in Ranges : \E id \in Asked(r) : StartFind(r, id)
    BY <2>5, StartFindKeeps
  <2>6. CASE SkipBlock
    BY <2>6, SkipBlockKeeps
  <2>7. CASE ScanValue
    BY <2>7, ScanValueKeeps
  <2>8. CASE EndScan
    BY <2>8, EndScanKeeps
  <2>9. CASE Return \/ Stop
    BY <2>9, IdleKeeps
  <2>10. CASE \E p \in 0 .. Len(level.pointers) - 2 : Walk(p)
    BY <2>10, WalkKeeps
  <2>11. CASE Step
    BY <2>11, StepKeeps
  <2>12. CASE UNCHANGED vars
    BY <2>12, Steady
  <2> QED
    BY <2>1, <2>2, <2>3, <2>4, <2>5, <2>6, <2>7, <2>8, <2>9, <2>10, <2>11, <2>12 DEF Next
<1> QED
  BY <1>1, <1>2, PTL DEF Spec

(* The differences are unsigned numbers, the blocks bytes, and m_it is     *)
(* within its block.                                                       *)
THEOREM TypeCorrect == Spec => []TypeOK
<1>1. IInv => TypeOK
  <2> SUFFICES ASSUME IInv PROVE TypeOK
    OBVIOUS
  <2>1. builder.buf \in Seq(Nat)
    <3>1. Small \subseteq Nat
      BY GroupPowers, VByteAssumption DEF Small
    <3>2. builder.buf \in Seq(Small)
      BY DEF IInv, BuilderInv
    <3>3. PICK buf \in Seq(Small) : buf = builder.buf
      BY <3>2
    <3>4. Len(buf) \in Nat /\ buf = [k \in 1 .. Len(buf) |-> buf[k]]
      BY <3>3
    <3>5. \A k \in 1 .. Len(buf) : buf[k] \in Nat
      <4> TAKE k \in 1 .. Len(buf)
      <4>1. buf[k] \in Small
        BY <3>3
      <4> QED
        BY <3>1, <4>1
    <3>6. buf \in [1 .. Len(buf) -> Nat]
      BY <3>4, <3>5
    <3>7. buf \in Seq(Nat)
      BY <3>4, <3>6
    <3> QED
      BY <3>3, <3>7
  <2>2. m_it # no_iterator => m_it.buffer \in Seq(Nat) /\ m_it.pos \in 0 .. Len(m_it.buffer) - 1
    <3>1. CASE pc = "building"
      BY <3>1 DEF IInv, IteratorInv
    <3>2. CASE pc # "building"
      <4>1. PICK i \in 0 .. m_size - 1, v \in Int : m_it = It(i, v)
        BY <3>2, Ready
      <4> QED
        BY <4>1, ItFacts DEF IInv
    <3> QED
      BY <3>1, <3>2
  <2> QED
    BY <2>1, <2>2 DEF IInv, StoreInv, TypeOK, States
<1> QED
  BY <1>1, Inductive, PTL

(* access gives the node of its position, in every state of m_it.          *)
THEOREM AccessCorrect == Spec => []AccessGivesNode
<1>1. IInv => AccessGivesNode
  BY DEF IInv, AnswerInv, AccessGivesNode, Asks
<1> QED
  BY <1>1, Inductive, PTL

(* find gives the position of every id that the range holds.               *)
THEOREM FindCorrect == Spec => []FindsPresent
<1>1. IInv => FindsPresent
  <2> SUFFICES ASSUME IInv, pc = "answered", call.op = "find"
               PROVE  find(level.from, call.range, call.id) \in {result, not_found}
    BY DEF FindsPresent
  <2>1. PICK p \in 0 .. Len(level.pointers) - 2 : Asks(p) /\ \A pos \in Present(p) : result = pos
    BY DEF IInv, AnswerInv
  <2>2. level \in Levels
    BY DEF IInv
  <2>3. Positions(call.range) = level.pointers[p + 1] .. level.pointers[p + 2] - 1
    BY <2>1, <2>2, RangePositions DEF Asks, Positions
  <2>4. \A pos \in Positions(call.range) : level.from[pos + 1] = call.id => pos = result
    BY <2>1, <2>3 DEF Present
  <2>5. CASE \E pos \in Positions(call.range) : level.from[pos + 1] = call.id
    <3>1. find(level.from, call.range, call.id) =
            CHOOSE pos \in Positions(call.range) : level.from[pos + 1] = call.id
      BY <2>5 DEF find
    <3> QED
      BY <2>4, <2>5, <3>1
  <2>6. CASE ~ \E pos \in Positions(call.range) : level.from[pos + 1] = call.id
    BY <2>6 DEF find
  <2> QED
    BY <2>5, <2>6
<1> QED
  BY <1>1, Inductive, PTL

(* Asked only for ids that the range holds, find never reads past its      *)
(* block or looks for a block that is not there.                           *)
THEOREM StaysIn == AbsentIds = FALSE => (Spec => []StaysInBlock)
<1> SUFFICES ASSUME AbsentIds = FALSE PROVE Spec => []StaysInBlock
  OBVIOUS
<1>1. IInv => StaysInBlock
  BY DEF IInv, StaysInBlock
<1> QED
  BY <1>1, Inductive, PTL

(* An iterator on its way through the ranges gives the node of its         *)
(* position.                                                               *)
THEOREM WalkCorrect == Spec => []WalkGivesNodes
<1>1. IInv => WalkGivesNodes
  <2> SUFFICES ASSUME IInv, pc = "walking"
               PROVE  walker.iterator.val = level.from[position(walker.iterator) + 1]
    BY DEF WalkGivesNodes
  <2>1. level \in Levels
    BY DEF IInv
  <2>2. PICK p \in 0 .. Len(level.pointers) - 2 :
          \E k \in level.pointers[p + 1] .. level.pointers[p + 2] - 1 :
            walker = [iterator |-> NodeAt(k), range |-> p]
    BY DEF IInv, WalkInv
  <2>3. PICK i \in level.pointers[p + 1] .. level.pointers[p + 2] - 1 :
          walker.iterator = NodeAt(i)
    BY <2>2
  <2>4. i \in 0 .. m_size - 1
    BY <2>1, RangePositions
  <2>5. position(NodeAt(i)) = i /\ NodeAt(i).val = level.from[i + 1]
    BY <2>1, <2>4, ItFacts DEF NodeAt, It, Fields
  <2> QED
    BY <2>3, <2>5
<1> QED
  BY <1>1, Inductive, PTL
=============================================================================
