-------------------------------- MODULE Index --------------------------------
(***************************************************************************)
(* index_3t, index_2tp and index_2to: permute chooses a trie and a         *)
(* selection for each pattern, and the iterator it gives is run by a       *)
(* client's loop, `while (it.has_next()) { *it; ++it; }`, where has_next   *)
(* and * may also be called again before ++.                               *)
(***************************************************************************)
EXTENDS PredicateIndex, FiniteSets

CONSTANTS
  IndexTypes,    \* names of index_types
  Datasets,      \* [lines, file]: sets of lines and, by permutation, their files
  Unguarded      \* whether to build what the encoders get wrong (SeveralPartitions),
                 \* and to ask for what is not there where find does not refuse it
                 \* (AbsenceUnseen) or select does not see that it did (PairAbsent)

(* Data: ids are numbered from 0 without gaps in every column; the file of *)
(* a permutation lists the lines, each once, in its order.                 *)
WellFormed(d) ==
  /\ d.lines \subseteq Nat \X Nat \X Nat /\ d.lines # {}
  /\ \A column \in {Subject, Predicate, Object} :
       LET ids == {l[column] : l \in d.lines} IN ids = 0 .. Cardinality(ids) - 1
  /\ \A perm \in permutation_type :
       LET file == d.file[perm] IN
       /\ file \in Seq(d.lines)
       /\ d.lines = {file[i] : i \in 1 .. Len(file)}
       /\ \A i \in 1 .. Len(file) - 1 :
            Precedes(read_next(perm, file[i]), read_next(perm, file[i + 1]))

(* types.hpp: the layout of each index, and the encoders of the second and *)
(* third level of its tries; mapper is that of the POS trie.               *)
Levels(second, third) == [second |-> second, third |-> third]
compact_levels == Levels("compact", "compact")
ef_levels == Levels("ef", "ef")
pef_levels == Levels("pef", "pef")
pef_compact_levels == Levels("pef", "compact")
pef_compact_levels2 == Levels("compact", "pef")
vb_levels == Levels("vb", "vb")

index_types ==
  [compact_3t |-> [layout |-> "3t", mapper |-> "identity",
                   spo |-> compact_levels, pos |-> compact_levels, osp |-> compact_levels],
   ef_3t      |-> [layout |-> "3t", mapper |-> "identity",
                   spo |-> ef_levels, pos |-> ef_levels, osp |-> ef_levels],
   pef_3t     |-> [layout |-> "3t", mapper |-> "identity",
                   spo |-> pef_compact_levels, pos |-> pef_levels, osp |-> pef_levels],
   pef_r_3t   |-> [layout |-> "3t", mapper |-> "sorted_array",
                   spo |-> pef_compact_levels, pos |-> pef_levels, osp |-> pef_compact_levels2],
   pef_2tp    |-> [layout |-> "2tp", spo |-> pef_compact_levels, pos |-> pef_levels],
   vb_3t      |-> [layout |-> "3t", mapper |-> "identity",
                   spo |-> vb_levels, pos |-> vb_levels, osp |-> vb_levels],
   vb_2tp     |-> [layout |-> "2tp", spo |-> pef_compact_levels, pos |-> vb_levels],
   pef_2to    |-> [layout |-> "2to", spo |-> pef_compact_levels, ops |-> pef_levels]]

ASSUME IndexAssumption ==
  /\ IndexTypes \subseteq DOMAIN index_types
  /\ Unguarded \in BOOLEAN
  /\ \A d \in Datasets : WellFormed(d)

VARIABLES
  type,       \* the name of the index's type
  data,       \* what it was built on
  index,      \* its tries, and its predicate index
  pattern,    \* the query, in the order s, p, o
  pc,         \* "idle", "has_next", "ready", "read", "end", "undefined"
  it,         \* the iterator
  m_perm,     \* what permute returned
  val,        \* what * gave last
  emitted,    \* the triplets the client went past, as the iterator gave them
  triplet_id  \* the result of is_member

vars == <<type, data, index, pattern, pc, it, m_perm, val, emitted, triplet_id>>

layout == index_types[type].layout
-----------------------------------------------------------------------------
(* The builders of the three layouts: which tries, with which mapper.      *)
BuildTrie(d, perm, levels, mapper) ==
  Encoded(TrieOf(perm, d.file[perm], mapper), levels.second, levels.third, mapper)

build_3t(d, t) ==
  LET osp == TrieOf("osp", d.file["osp"], identity_mapper)
      mapper == IF t.mapper = "identity" THEN identity_mapper
                ELSE sorted_array_mapper(osp.first_pointers, osp.second_nodes)
  IN  [spo |-> BuildTrie(d, "spo", t.spo, identity_mapper),
       pos |-> BuildTrie(d, "pos", t.pos, mapper),
       osp |-> BuildTrie(d, "osp", t.osp, identity_mapper)]

build_2tp(d, t) ==
  [spo |-> BuildTrie(d, "spo", t.spo, identity_mapper),
   pos |-> BuildTrie(d, "pos", t.pos, identity_mapper)]

(* The nodes of the predicate index are encoded as SPO's levels_type::first.*)
build_2to(d, t) ==
  [spo |-> BuildTrie(d, "spo", t.spo, identity_mapper),
   ops |-> BuildTrie(d, "ops", t.ops, identity_mapper),
   p_index |-> EncodedPredicateIndex(
                 PredicateIndexOf(d.file["spo"], Cardinality({l[Predicate] : l \in d.lines})),
                 "pef")]

build_index(d, name) ==
  LET t == index_types[name]
  IN  CASE t.layout = "3t"  -> build_3t(d, t)
        [] t.layout = "2tp" -> build_2tp(d, t)
        [] t.layout = "2to" -> build_2to(d, t)
-----------------------------------------------------------------------------
Given(id) == id # wildcard_symbol

(* The three permute functions.                                            *)
Permuted(perm, first, second, third) ==
  [perm |-> perm, triplet |-> Triplet(first, second, third)]

(* Mutant: OSP's columns in the order of the OPS trie.                     *)
permute_3t_OspAsOps(t) ==
  IF Given(t.first) /\ (Given(t.second) \/ ~ Given(t.third))
  THEN Permuted("spo", t.first, t.second, t.third)
  ELSE IF Given(t.second) /\ (Given(t.third) \/ ~ Given(t.first))
  THEN Permuted("pos", t.second, t.third, t.first)
  ELSE Permuted("osp", t.third, t.second, t.first)

permute_3t(t) ==
  IF Given(t.first) /\ (Given(t.second) \/ ~ Given(t.third))
  THEN Permuted("spo", t.first, t.second, t.third)
  ELSE IF Given(t.second) /\ (Given(t.third) \/ ~ Given(t.first))
  THEN Permuted("pos", t.second, t.third, t.first)
  ELSE Permuted("osp", t.third, t.first, t.second)

permute_2tp(t) ==
  IF Given(t.first)
  THEN Permuted(IF ~ Given(t.second) /\ Given(t.third) THEN "osp" ELSE "spo",
                t.first, t.second, t.third)
  ELSE Permuted(IF Given(t.second) THEN "pos" ELSE "ops", t.second, t.third, t.first)

permute_2to(t) ==
  IF Given(t.first)
  THEN Permuted(IF ~ Given(t.second) /\ Given(t.third) THEN "osp" ELSE "spo",
                t.first, t.second, t.third)
  ELSE IF Given(t.second) /\ ~ Given(t.third)
  THEN Permuted("pos", t.first, t.second, t.third)
  ELSE Permuted("ops", t.third, t.second, t.first)

permute(t) ==
  CASE layout = "3t"  -> permute_3t(t)
    [] layout = "2tp" -> permute_2tp(t)
    [] layout = "2to" -> permute_2to(t)

(* The trie that the selection of a permutation walks.                     *)
TrieFor(perm) ==
  CASE layout = "3t"  -> index[perm]
    [] layout = "2tp" -> IF perm \in {"spo", "osp"} THEN index.spo ELSE index.pos
    [] layout = "2to" -> IF perm = "ops" THEN index.ops ELSE index.spo

(* The iterators' constructors: which selection, for which permutation.    *)
Selection(perm, q) ==
  CASE layout # "3t" /\ perm = "osp"  -> select_so(TrieFor(perm), q)
    [] layout = "2tp" /\ perm = "ops" -> select_o(TrieFor(perm), q)
    [] layout = "2to" /\ perm = "pos" -> select_p(index.p_index, q)
    [] OTHER -> select(TrieFor(perm), q)

has_next ==
  LET t == TrieFor(m_perm)
  IN  CASE it.kind = "iterator"    -> Turn(it, YesIf(it.i # it.size))
        [] it.kind = "iterator_so" -> iterator_so_has_next(t, it)
        [] it.kind = "iterator_po" -> iterator_po_has_next(t, it)
        [] it.kind = "iterator_p"  -> iterator_p_has_next(index.p_index, t, it)

Dereferenced ==
  IF it.kind \in {"iterator_po", "iterator_p"}
  THEN [it EXCEPT !.val.third = it.third.node] ELSE it

Advanced ==
  LET t == TrieFor(m_perm)
  IN  CASE it.kind = "iterator"    -> iterator_next(t, it)
        [] it.kind = "iterator_so" -> iterator_so_next(t, it)
        [] it.kind \in {"iterator_po", "iterator_p"} -> iterator_po_next(t, it)
-----------------------------------------------------------------------------
Ids(column) == {l[column] : l \in data.lines}

(* The query tool turns one or two ids of a triplet into wildcards, as the *)
(* index it measures, one of three permutations, and -w say.               *)
AsQuery(t, perm, num_wildcards) ==
  LET Blank(one, both) == IF num_wildcards = 1 THEN one ELSE both
      w == wildcard_symbol
  IN  CASE perm = "spo" -> Blank([t EXCEPT !.third = w], [t EXCEPT !.second = w, !.third = w])
        [] perm = "pos" -> Blank([t EXCEPT !.first = w], [t EXCEPT !.first = w, !.third = w])
        [] perm = "osp" -> Blank([t EXCEPT !.second = w], [t EXCEPT !.first = w, !.second = w])

Triplets == [first : Ids(Subject), second : Ids(Predicate), third : Ids(Object)]
Patterns == {AsQuery(t, perm, n) : t \in Triplets, perm \in {"spo", "pos", "osp"}, n \in 1 .. 2}

(* Every pef_sequence of the index has several partitions, without which   *)
(* its find and its iterators go wrong (NodesSequence).                    *)
SeveralPartitions ==
  /\ \A perm \in DOMAIN index \ {"p_index"} :
       /\ ~ OnePartition(index[perm].second_nodes)
       /\ ~ OnePartition(index[perm].third_nodes)
  /\ layout = "2to" => ~ OnePartition(index.p_index.nodes)

(* select looks for a second id among the children of the first.           *)
PairAbsent(p) ==
  /\ ~ (layout # "3t" /\ p.perm \in {"osp"})
  /\ ~ (layout = "2tp" /\ p.perm = "ops")
  /\ ~ (layout = "2to" /\ p.perm = "pos")
  /\ SelectedNode(TrieFor(p.perm), p.triplet) \in {not_found, garbage}

(* The first ids among whose children p's second is looked for: its own,   *)
(* or, in select_o, every one; iterator_p only looks for pairs there are.  *)
LooksUnder(p) ==
  CASE layout = "2tp" /\ p.perm = "ops" -> 0 .. Len(TrieFor(p.perm).first_pointers) - 2
    [] layout = "2to" /\ p.perm = "pos" -> {}
    [] OTHER -> {p.triplet.first}

(* Whether find is asked, for the query q, permuted to p, for what is not  *)
(* there and does not refuse it. block_sequence's never does: answers are  *)
(* right if q is there, or, in select_o, q with every predicate.           *)
(* pef_sequence's does not where it reads past its upper bounds.           *)
Occurs(q) ==
  \E l \in data.lines : /\ q.first \in {wildcard_symbol, l[Subject]}
                        /\ q.second \in {wildcard_symbol, l[Predicate]}
                        /\ q.third \in {wildcard_symbol, l[Object]}

AbsenceUnseen(q, p) ==
  LET t == TrieFor(p.perm)
  IN  \/ /\ t.second_nodes.encoding = "vb"
         /\ ~ IF p.perm = "ops" THEN \A id \in Ids(Predicate) : Occurs([q EXCEPT !.second = id])
              ELSE Occurs(q)
      \/ /\ Given(p.triplet.second)
         /\ \E first \in LooksUnder(p) :
              past_bounds(t.second_nodes, RangeAt(t.first_pointers, first), p.triplet.second)

Init ==
  /\ type \in IndexTypes
  /\ data \in Datasets
  /\ index = build_index(data, type)
  /\ SeveralPartitions \/ Unguarded
  /\ pattern = no_triplet
  /\ pc = "idle"
  /\ it = [kind |-> "none"]
  /\ m_perm = "none"
  /\ val = no_triplet
  /\ emitted = <<>>
  /\ triplet_id = garbage

SelectAll ==
  /\ pc = "idle"
  /\ m_perm' = "spo"
  /\ it' = select_all(index.spo)
  /\ pc' = "has_next"
  /\ UNCHANGED <<type, data, index, pattern, val, emitted, triplet_id>>

(* The constructor of iterator; not_found is not handled, and select goes  *)
(* on to read the pointers and the nodes at position 2^64 - 1.             *)
Select(q) ==
  LET p == permute(q) IN
  /\ pc = "idle"
  /\ AbsenceUnseen(q, p) => Unguarded
  /\ pattern' = q
  /\ m_perm' = p.perm
  /\ IF PairAbsent(p)
     THEN Unguarded /\ pc' = "undefined" /\ UNCHANGED it
     ELSE pc' = "has_next" /\ it' = Selection(p.perm, p.triplet)
  /\ UNCHANGED <<type, data, index, val, emitted, triplet_id>>

IsMember(q) ==
  /\ pc = "idle"
  /\ AbsenceUnseen(q, Permuted("spo", q.first, q.second, q.third)) => Unguarded
  /\ pattern' = q
  /\ triplet_id' = is_member(index.spo, q)
  /\ pc' = "end"
  /\ UNCHANGED <<type, data, index, it, m_perm, val, emitted>>

(* One turn of has_next's loop; once it has said yes, a client may ask     *)
(* again before it goes on.                                                *)
HasNext ==
  /\ pc \in {"has_next", "ready", "read"}
  /\ it' = has_next.it
  /\ pc' = CASE has_next.answer = "again" -> "has_next"
             [] has_next.answer = "no"    -> "end"
             [] has_next.answer = "yes"   -> IF pc = "has_next" THEN "ready" ELSE pc
  /\ UNCHANGED <<type, data, index, pattern, m_perm, val, emitted, triplet_id>>

Dereference ==
  /\ pc \in {"ready", "read"}
  /\ it' = Dereferenced
  /\ val' = Dereferenced.val
  /\ pc' = "read"
  /\ UNCHANGED <<type, data, index, pattern, m_perm, emitted, triplet_id>>

Increment ==
  /\ pc = "read"
  /\ it' = Advanced
  /\ emitted' = Append(emitted, val)
  /\ pc' = "has_next"
  /\ UNCHANGED <<type, data, index, pattern, m_perm, val, triplet_id>>

Next ==
  \/ SelectAll
  \/ \E q \in Patterns : Select(q)
  \/ \E q \in Triplets : IsMember(q)
  \/ HasNext
  \/ Dereference
  \/ Increment

(* The client's loop, once begun, goes on; it need not ask anything again. *)
Fairness ==
  /\ WF_vars(pc = "has_next" /\ HasNext)
  /\ WF_vars(pc = "ready" /\ Dereference)
  /\ WF_vars(Increment)

Spec == Init /\ [][Next]_vars /\ Fairness
-----------------------------------------------------------------------------
(* The order of the ids in the triplets an iterator gives, which is also   *)
(* the permutation file that lists them in the order it gives them.        *)
AnswerOrder == IF layout = "2to" /\ m_perm = "pos" THEN "pso" ELSE m_perm

AsLine(t) ==
  LET c == Columns[AnswerOrder]
      ids == <<t.first, t.second, t.third>>
  IN  [column \in 1 .. 3 |-> ids[CHOOSE k \in 1 .. 3 : c[k] = column]]

EmittedLines == [k \in DOMAIN emitted |-> AsLine(emitted[k])]

(* What the client's loop and its is_member are to a triple store.         *)
StoreStatus == IF pc \in {"has_next", "ready", "read"} THEN "selecting" ELSE pc
StoreEmitted == IF m_perm = "none" THEN <<>> ELSE EmittedLines
StoreMember ==
  IF pc # "end" \/ triplet_id = garbage THEN "none"
  ELSE IF triplet_id = not_found THEN "no" ELSE "yes"

Store == INSTANCE TripleStore WITH
  Datasets <- {d.lines : d \in Datasets},
  triples  <- data.lines,
  status   <- StoreStatus,
  emitted  <- StoreEmitted,
  member   <- StoreMember

(* Types: what the client sees.                                            *)
TypeOK ==
  /\ pc \in {"idle", "has_next", "ready", "read", "end", "undefined"}
  /\ m_perm \in permutation_type \cup {"none"}
  /\ val \in [first : Int, second : Int, third : Int]
  /\ emitted \in Seq([first : Nat, second : Nat, third : Nat])
  /\ triplet_id \in Int

(* The index is a triple store: every selection emits the matching triples *)
(* of the data, each once, and ends; is_member is right. Of every index in *)
(* types.hpp, for every selection the layout permutes: but not of one with *)
(* a pef_sequence of a single partition (SeveralPartitions), nor for ids   *)
(* that are not there, where an encoder's find goes wrong (AbsenceUnseen)  *)
(* or select does not look at what it returned (PairAbsent).               *)
StoreSpec == Store!Spec

(* The answers come in the order of the permutation file that the tests    *)
(* compare them with (test/check_queries.cpp:81-98), from its first match. *)
InFileOrder ==
  pc \in {"has_next", "ready", "read", "end"} /\ m_perm # "none" =>
    LET file == data.file[AnswerOrder]
        matches == {i \in DOMAIN file : Store!Matches(file[i], pattern)}
    IN  \A k \in DOMAIN emitted :
          \E i \in matches : /\ EmittedLines[k] = file[i]
                             /\ Cardinality({j \in matches : j < i}) = k - 1

(* A client that asks has_next or * again, before it moves on, leaves the  *)
(* iterator as it was and reads the same triplet: has_next moves no cursor *)
(* when there is a triplet to read (algorithms.hpp:133-142, 212-237).      *)
AskingAgainIsHarmless ==
  [][(pc \in {"ready", "read"} /\ pc' = pc) => (it' = it /\ val' = val)]_vars

(* is_member gives the position of the triplet in the SPO file, which the  *)
(* tests call its id (test/check_queries.cpp:67).                          *)
MemberPosition ==
  triplet_id \notin {garbage, not_found} =>
    read_next("spo", data.file["spo"][triplet_id + 1]) = pattern

(* What the README says of any pattern, "asks for all triples where        *)
(* subject = 13 and predicate = 549" (README.md:182): it has an answer.    *)
NeverUndefined == pc # "undefined"
=============================================================================
