# A formal model of rdf_indexes

rdf_indexes stores the triples (subject, predicate, object) of an RDF data set,
as integer ids, in compressed tries, and answers triple selection patterns: a
triple in which an id may be replaced by a wildcard. This directory holds TLA+
modules that model the library, the configurations with which TLC checks them
on small instances, and proofs that TLAPS checks for all instances.
`PROJECT.json` lists the components, the runs, the mutants that show each
property can fail, the source lines of each definition, the hazards and the
theorems.

## The system

The program is sequential: no threads, no persistence beyond a file that is
written once and read back whole. What is hard in it is agreement between
parts that are written far from each other: sizes counted by a script and
vectors filled by a builder, values raised by an encoder and lowered by an
iterator, a permutation chosen by an index and undone by its caller, cursors
that several calls share.

| Part | State it keeps | Operations | Correct when |
| --- | --- | --- | --- |
| data preparation (`scripts/`) | none | sort by five permutations, count the `.stats` | every file lists the same triples in its order; the counts are those of the files |
| triplets, parameters (`util_types.hpp`, `parameters.hpp`) | the counts | `read_next`, `num_types`, `num_nodes` | the count of a level of a permutation is the number of its nodes or ids |
| mappers (`mappers.hpp`) | a pointer to the OSP trie | `map`, `unmap` | `unmap` undoes `map` on the triplets of the data |
| `trie::builder` (`trie.hpp`) | counters, four vectors sized in advance | two passes over a file | the trie holds exactly the file; no vector is overrun |
| selections (`algorithms.hpp`, `trie_level.hpp`) | an iterator per query: cursors on nodes and pointers | `has_next`, `*`, `++`, `is_member` | a pattern's triplets are given once each, in order; the iterator ends |
| `p_index` (`index_2to.hpp`) | offsets, pointers, nodes | two scans; `iterator_p` | every predicate has its subjects |
| indexes (`index_3t.hpp`, `index_2tp.hpp`, `index_2to.hpp`, `types.hpp`) | two or three tries | `permute`, `select`, `select_all`, `is_member` | whatever the layout, the index is a triple store |
| `scan_binary_search` (`util.hpp`) | two bounds | one call | finds the id iff it is in the range; reads nothing else; returns |
| encoders (`compact_vector`, `ef_sequence`, `pef_sequence`, `block_sequence`) | words of bits, or bytes; the last two also a shared cursor `m_it` | `build`, `access`, `find`, iterator | they give back, range by range, what was stored |
| bits (`bit_vector.hpp`, `darray.hpp`, `integer_codes.hpp`, `vbyte_block`) | words, bytes | set, append, get, select, skip, encode, decode | what was written at a position is read there, and nothing next to it is changed |
| tools (`src/`) | none | build, query, print statistics | the query tool asks the pattern its options name |

How they interact: the scripts write five sorted files and one `.stats` file; a
layout's builder runs two or three trie builders over them, in an order that
matters for `pef_r_3t`, whose POS trie is written through the OSP trie; a trie
builder pushes into vectors and hands them to the encoders with the pointers
that delimit the ranges of siblings; a query is permuted for one of the tries,
whose selection builds an iterator from the encoders' cursors; the client runs
`while (it.has_next()) { *it; ++it; }`.

## The modules

| Module | Models | From |
| --- | --- | --- |
| `RdfTypes` | triplets, permutations, counts | `util_types.hpp`, `parameters.hpp` |
| `DataPreparation` | the sorted files and the `.stats` file | `scripts/` |
| `Mappers` | identity and sorted array mapper | `mappers.hpp` |
| `TrieContents` | the trie of a file, defined at once (a reference, no code) | |
| `TrieBuilder` | `trie::builder`: `ReadTriplet`, `CompressFirstAndSecond`, `MapTriplet`, `CompressThird` | `trie.hpp` |
| `TrieBuilder_proofs` | its inductive invariant and theorems | |
| `PairOrder` | pairs of ids in the order of a sorted file, by rank (a reference, no code) | |
| `Basics_proofs` | induction and recursion on naturals, the order of sorted files and ranks in them, division and powers, bits, and rows of values, written and read, ones and zeros counted and found | |
| `ScanBinarySearch` | `StartScan`, `Halve`, `Scan`, `EndScan` | `util.hpp` |
| `NodesSequence` | the interface of the encoders: stored values, cursors, `find` | `compact_vector.hpp`, `ef_sequence.hpp`, `pef_sequence.hpp`, `block_sequence.hpp` |
| `TrieLevel` | `trie_level::iterator` | `trie_level.hpp` |
| `Trie` | the selections of a trie, their iterators, `is_member` | `algorithms.hpp` |
| `PredicateIndex` | `iterator_p`, and a reference for the predicate index | `index_2to.hpp` |
| `PredicateIndexBuilder` | `p_index::builder`, line by line | `index_2to.hpp` |
| `PredicateIndexBuilder_proofs` | its inductive invariant and theorems | |
| `Words` | words of `word_width` bits, as sets of bit positions, and the arithmetic on them | `util.hpp` |
| `BitVector` | `bit_vector_builder`, the reads at a position, `unary_iterator`, `bits_iterator` | `bit_vector.hpp` |
| `CompactVector` | `compact_vector::builder` and the three ways to read it | `compact_vector.hpp` |
| `DArray` | `darray1`: dense and sparse blocks, `select` | `darray.hpp` |
| `EfSequence` | `PushBack`, `Set`, `Raise`, `Encode`, ... : the builds of `ef_sequence`, `access`, and the walks of its iterator, on words | `ef_sequence.hpp` |
| `EfSequence_proofs` | that values are read back as written, ones found by the darray, and given by `access` and the iterators; the inductive invariant and theorems of `ScanBinarySearch`, the `find` over those values | |
| `IntegerCodes` | the gamma and delta codes | `integer_codes.hpp` |
| `PefSequence` | the header and the upper bounds, bit by bit, partitions, the shared iterator, `access`, `find`, `next_geq`, `bsearch` | `pef_sequence.hpp` |
| `PefSequence_proofs` | that what the header and the bounds hold is read back, where the shared iterator can be; the inductive invariant of `PefSequence` and theorems | |
| `CompactEf` | `compact_ef::write` and its enumerator, on words, with the cursor on the high bits | `compact_ef.hpp` |
| `CompactEf_proofs` | what `write` leaves in each part, where every call of the enumerator arrives; its inductive invariant and theorems | |
| `Enumerator` | what an enumerator promises (a reference) | `compact_ef.hpp` |
| `VByte` | the bytes of a block, written and read | `vb.hpp` |
| `BlockSequence` | `build`, `decode_block`, the shared iterator, `access`, `find`, on bytes | `block_sequence.hpp` |
| `BlockSequence_proofs` | that what `VByte` encodes is decoded, the inductive invariant of `BlockSequence` and theorems | |
| `TripleStore` | what an index promises (abstract, no code) | |
| `Index` | the three layouts and the client's loop | `index_*.hpp`, `types.hpp` |
| `Index_proofs` | that a built trie holds its lines and where every iterator on it goes; the inductive invariant and theorems of `Index`, and that it implements `TripleStore` | |

A `_proofs` module EXTENDS the module it is about, or the two it is about, and
`Basics_proofs`.
`Mappers` EXTENDS `RdfTypes`; `NodesSequence` EXTENDS `Mappers`, and
`TrieContents` EXTENDS it and `PairOrder`; `TrieBuilder` EXTENDS `TrieContents`; `Trie` EXTENDS `TrieLevel` and
`TrieContents`; `Index` EXTENDS `PredicateIndex`, which EXTENDS `Trie`, and has
`TripleStore` as an INSTANCE. `PefSequence` EXTENDS `NodesSequence`, whose
`build` raises its values, and reads a partition through an INSTANCE of
`Enumerator`; `CompactEf`, which has no other link with it, is checked to give
what `Enumerator` promises. `BitVector` EXTENDS `Words`; `CompactVector`,
`DArray`, `IntegerCodes` and `CompactEf` EXTEND `BitVector`; `EfSequence`
EXTENDS the first two of them and is compared with what an INSTANCE of
`NodesSequence` says it stores; `PefSequence` also EXTENDS `IntegerCodes` and
`CompactVector`, for its header and its bounds; `BlockSequence` EXTENDS `VByte`.
`MC...` modules give the constants their values:
every data set over a few ids, and its files, which `DataPreparation` sorts and
counts.

State and code correspond name by name. In `TrieBuilder`, `first_pointers`,
`second_nodes`, `second_pointers` and `third_nodes` are the vectors of
`m_first`, `m_second` and `m_third`, `it` is the position of the
`triplets_iterator`, and one action is one turn of a loop or what follows the
loop. In `Index`, `it` is the record of the iterator's fields, and the actions
are the calls of a client; `HasNext` is one turn of `has_next`'s loop, so that
a loop that does not end is seen. `pc = "ready"` and `pc = "read"` let a client
call `has_next` and `*` again before `++`, which nothing in the interface
forbids. Sequences are 1-based here and 0-based in the code; a read outside of
one gives `garbage`, which no property accepts.

What is abstracted: files are sequences of lines and ids are small naturals. An
encoder is modelled twice, at two levels. `NodesSequence` keeps the values that
`build` stores and the cursors that read them; `find` there is what
`ScanBinarySearch` is checked and proved to return, and the tries and indexes
use nothing below it. Under it, `EfSequence`, `CompactEf`, `CompactVector` and
the header of `PefSequence` write and read words, and `BlockSequence` writes and
reads bytes. A word is a set of bit positions of `0 .. word_width - 1`: 64 in
the code, a small constant here, with bits that fall off one word and go on in
the next one as in the code.

There are four encodings. That `ef_sequence` ("ef") gives what `NodesSequence`
says is what the run **ef_sequence** shows. "pef" stores what "ef" does, and
its iterators and `find` differ in two cases, each the subject of a finding. With
a single partition (`OnePartition`: at most `partition_size` nodes, 128 in the
code) an iterator is not moved to its position and reads what is past the end,
and so does the scan of a short range; with several, the last one full, the
search for an id above all values goes past the upper bounds (`past_bounds`).
"vb" stands for `block_sequence`, whose `find` never refuses: the third finding.

So the indexes of types.hpp answer wrongly in places, and `Index` says where,
by three conditions that its constant `Unguarded` lifts:

- `SeveralPartitions`: every level of a `pef` encoding has more than
  `partition_size` nodes. Five of the eight types have such levels, and on a
  data set too small for them they answer wrongly: with `Unguarded`, TLC finds
  `InFileOrder` violated by `select_all` of `pef_3t` on a data set of a single
  line. Nothing is claimed of a `pef` type on such a data set;
- `AbsenceUnseen`: an index over `block_sequence` is asked only for ids that
  occur together in the data, and one over `pef_sequence` not for a second id
  whose search goes past the bounds;
- `PairAbsent`: `select` is not asked for two ids that are absent as a pair,
  which it does not check (run **absent_pair**).

In `PefSequence` and `BlockSequence` a call of `find` takes several steps, one
per call of `next_geq` and turn of `bsearch`, or per block and value; the
client may call `access` and `find` in any order, of any range, so that every
call meets `m_it` wherever earlier ones can leave it, and may walk the nodes
with an iterator of its own, switching ranges as `trie_level` does. A read
outside of the bounds leads to `pc = "undefined"`.

## What the runs check

**builder** (`MCTrieBuilder.cfg`). Every data set over 2 subjects, 2 predicates
and 3 objects with ids numbered without gaps, sorted in each of the five
permutations, and POS also through the sorted array mapper over OSP: 21,240
inputs. `WithinStats`: no `push_back`, which checks nothing, goes past the size
or the width that the `.stats` file gave. `DescribesPrefix`: after any number
of lines the pointers, once closed, place each line under its own pair.
`BuiltTrieIsFile`: the finished trie, decoded through the pointers and the
mapper, is the file. `BuiltTrieIsTrieOf`: it is the trie the queries are
modelled to read. `ChildrenIncrease`: siblings increase, also after the mapper,
which the searches and the encoders rely on.

**search** (`MCScanBinarySearch.cfg`). Every increasing sequence of at most 8
values, every range of it and every id up to one past its values, with the
threshold of the linear scan at 1 (it is 8 in the code), so that ranges of 8
values are halved twice, from both sides. `ReadsStayInRange`, `FindsExactly`,
and `Returns`.

**predicate_index** (`MCPredicateIndexBuilder.cfg`). Every SPO file over 2
subjects, 3 predicates and 2 objects. `OffsetsMatchStats` is the builder's own
assertion; `WritesStayInRange` follows the write cursors of the second scan;
`PredicatesListed` compares the finished index with its reference.

**index** (`MCIndex.cfg`). Every data set
over 2 subjects, 2 predicates and 2 objects, and two with a third predicate or
object, whose pairs fill a `pef` partition (`FullPartitions`), the eight index
types of `types.hpp`, partitions of 2 nodes and a threshold of 1 (128 and 8), so
that a level has up to 4 partitions and `find` both scans and searches; and
every query: all triplets, every pattern that the query tool
makes of a triplet (`AsQuery`, from `queries.cpp`), every membership query, as
far as the three conditions above allow: the types without `pef` are built of
all 220 data sets, each of the others of 160 to 186, those on which all of its
`pef` levels have several partitions. `StoreSpec`: the index
implements `TripleStore`, under a refinement mapping that turns the permuted
triplets back into lines; with its fairness, every selection ends.
`InFileOrder`: the answers are a prefix of the matching lines in the order of
the permutation file. `AskingAgainIsHarmless`: once `has_next` has said yes,
neither it nor `*` moves the iterator. `MemberPosition`: `is_member` gives the
triplet's position in the SPO file.

**absent_pair** (`MCIndexAbsent.cfg`) expects a violation. `trie::select` uses
the result of `find` as a position without looking whether it is `not_found`
(`algorithms.hpp:93`). For a pattern such as `13 549 -1` whose ids have no
triple in common, README.md:182 promises an answer; the program reads at
position 2^64 - 1. Patterns taken from the data, as the tests' are, never do.

**compact_ef** (`MCCompactEf.cfg`). Every list of up to 5 values up to 10,
with 1 for the threshold of short skips and pointers to every fourth zero and
one (8, 512 and 256 in the code), on words of 8 bits, after 5 bits that are
already there. `FieldsIntact`: what is written stays in the space reserved, and
changes neither those bits nor another field; the assertions of `write` check
less, and only in a debug build. `CursorAtPosition`: after any calls the
enumerator has the value of its position and its cursor has just consumed that
position's bit, which the short skips start from. `NextGeqAsPromised`: from
there, `next_geq` of any bound goes where `Enumerator` says. `PrevValueKnown`:
`prev_value`, which scans backwards from the cursor or, past the end, from the
low bits, gives the value before, whatever has been called.

**ef_sequence** (`MCEfSequence.cfg`). Words of 4 bits and unaligned reads at a
multiple of 2 (64 and 8 in the code), so that values of 1 to 4 bits lie across
words and up to 3 low bits leave some of a word over. Blocks of 4 ones in two
subblocks, dense below a distance of 6 (1024, 32 and 2^16), so that the darray
has blocks of both kinds, full and not. Levels of up to 3 ranges, some empty; single ranges of
wide values; up to 4 ranges of values far apart; lists of pointers. `ReadsBack`:
a `compact_vector` filled by `push_back` or, in any order, by `set` is read back
by `operator[]`, by an enumerator from any index and by the unaligned `access`,
where the width allows that one. `SelectFindsOnes`: the darray finds every one.
`AccessGivesNode`: no value is refused, pointers are stored as they are, and
nodes as `NodesSequence` says. `WalkGivesNodes` and `WalkGivesPointers`: an
iterator, which holds a word of low bits and refills it at one place in `++` and
at another in `next()`, gives each value in turn.

**pef** (`MCPefSequence.cfg`). Partitions of 2 nodes (128 in the code), a
threshold of 1 (8) and words of 8 bits for the header, which is written and read
back through the codes before anything else is: all levels of up to 6 nodes in
one or two ranges, and
ranges over 4 partitions. `AccessGivesNode`, `FindsExactly`, `WalkGivesNodes`,
and `SearchEnds`; the second and third leave out the iterators of a level with
a single partition, the next finding. No id above all values is looked for when
the last of several partitions is full.

**pef_short_ranges** (`MCPefShortRanges.cfg`) expects a violation: with a single
partition the constructor of the iterator does not move its enumerator to the
position (`pef_sequence.hpp:235`), so that `find`, which scans short ranges with
such an iterator, misses nodes. At the level of an index that is what
`SeveralPartitions` is for. **pef_past_bounds** (`MCPefPastBounds.cfg`)
expects one too: with a full last partition, `bsearch` reads one bound too many
for an id above all values (`pef_sequence.hpp:381`).

**blocks** (`MCBlockSequence.cfg`). Blocks of 2 nodes (128 in the code), bytes
with 1 bit of the value (7), so that values take 1 to 3 of them, and all
levels of up to 6 nodes in up to 3 ranges, ids of the range. What `access`, `find`
and the iterator work on is decoded from the bytes. `StaysInBlock`: the
upper bounds lead `find` to the right block, though the last may belong to
another range. **blocks_absent** (`MCBlockAbsent.cfg`) expects a violation:
`find` never returns `not_found` (`block_sequence.hpp:155`), against what
`test/check_find.cpp:43` expects.

Bounds. Two ids of a kind are what it takes for a range to have a neighbour on
either side and a pair to be absent; with two, or three, children per node a
range can be left, switched and re-entered, a first id can change while the
second stays, and a second id can repeat under the next first id. The data sets
are all those there are over the ids, not samples, and the sizes of their
files vary from 1 to 12 lines. `Index` asks one query per behaviour: the
modelled encoders keep no state from one query to the next.

Fairness. The program is a single thread: a function that has been called runs
until it returns (`WF_search_vars(SearchNext)` in
`ScanBinarySearch`). In `Index` the client
goes on with its loop (weak fairness of the first `has_next`, of the first `*`
and of `++`); calls it may repeat are not fair. In
`PefSequence` a search that has begun goes on (`WF_vars(Searching)`); that a
client calls is not assumed. The builders' runs state
no liveness: they end with their file.

`CHECK_DEADLOCK FALSE` is stated where the system stops: a built trie, a
finished search, an answered query.

## What is proved

For every value of the constants, from the assumptions named in the modules:

- `TrieBuilder_proofs`: `TypeCorrect`, `StatsSuffice` (`WithinStats`),
  `PrefixDescribed` (`DescribesPrefix`), `BuiltTrieCorrect` (`BuiltTrieIsFile`),
  `BuiltTrieReference` (`BuiltTrieIsTrieOf`), `ChildrenSorted`
  (`ChildrenIncrease`) and `LevelsReadyToEncode`, from `InputsAssumption`: the
  file is strictly sorted, its first ids start at 0 and have no gap, the counts
  are those of the file, `unmap` undoes `map` on its lines, and a sorted array
  mapper is over a level whose ranges increase. TLC evaluates the assumption on every input of the run, for which
  `DataPreparation` computes the counts the way `build_stats.py` does. That the
  OSP trie, which the mapper is made from, has such a level is what
  `LevelsReadyToEncode` says of it.
- `PredicateIndexBuilder_proofs`: `TypeCorrect`, `StatsMatched`
  (`OffsetsMatchStats`), `WritesInRange` (`WritesStayInRange`) and
  `IndexCorrect` (`PredicatesListed`), from `InputsAssumption`: the SPO file is
  strictly sorted, its predicates are below their number, and its pairs are as
  many as the `.stats` file says.
- `EfSequence_proofs`, of `scan_binary_search`: `TypeCorrect` (`SearchTypeOK`),
  `NoReadOutsideRange` (`ReadsStayInRange`) and `FindCorrect` (`FindsExactly`),
  from `ThresholdAssumption` and `SearchesAssumption`: the range is not empty,
  lies in the sequence and increases.
- `BlockSequence_proofs`, of the bytes: `EncodeWrites`, from which `decode` gives back whatever
  `encode` appended, wherever it lies among other bytes (`DecodeWritten`), for
  groups of any size and numbers that fit `max_bytes` of them.
- `BlockSequence_proofs`: `TypeCorrect`, `AccessCorrect` (`AccessGivesNode`),
  `FindCorrect` (`FindsPresent`), `StaysIn` (`StaysInBlock`, where find is asked
  only for ids in the range) and `WalkCorrect` (`WalkGivesNodes`), for any block
  size, any threshold and any levels that are well formed, as
  `LevelsReadyToEncode` says of the builder's, and whose nodes fit the bytes, as
  the code's 32-bit ids do.
- `EfSequence_proofs`: `ReadsBackHolds` (`ReadsBack`), `OnesSelected`
  (`SelectFindsOnes`), `AccessCorrect` (`AccessGivesNode`), `NodesWalked`
  (`WalkGivesNodes`), `PointersWalked` (`WalkGivesPointers`) and `TypesHold`
  (`TypeOK`), all the run **ef_sequence** checks, for words, values, ranges and
  blocks of any size. From `WordsAssumption` (bytes make up a word),
  `DArrayAssumption` (subblocks make up a block) and `EfAssumption`: values fit
  their width, which is at most a word's, pointers do not decrease, and the
  nodes' ranges begin at 0, end with the nodes, which are fewer than a word can
  count, and do not decrease inside, as `LevelsReadyToEncode` says of the
  builder's. Ranges may be empty, except where a client walks them.
- `PefSequence_proofs`: `TypeOKHolds` (`TypeOK`), `AccessGivesNodeHolds`
  (`AccessGivesNode`), `FindsExactlyHolds` (`FindsExactly`) and
  `WalkGivesNodesHolds` (`WalkGivesNodes`), all the run **pef** checks but
  `SearchEnds`, for levels, partitions, thresholds and words of any size. The
  last two properties themselves leave out the short ranges and the walks of a
  level with a single partition, as the finding of **pef_short_ranges** makes
  them. Ids above all values, the subject of **pef_past_bounds**, are not left
  out: where a search reads past the bounds there is no answer to speak of. From
  `WordsAssumption` and `PefAssumption`: the threshold is above 0, a read at a
  byte has fewer bits than a word, levels are well formed as
  `LevelsReadyToEncode` says of the builder's, and `BitsSuffice`: the greatest
  bound, and the places of the partitions' bits, fit the bits that such a read is
  sure to give. In the code those are 57 bits. A raised value is a sum of ids, the
  last of every range before it, so that this holds of 32-bit ids in up to 2^24
  ranges and, as their last ids are lower, of the data sets the library is for;
  of greater sums nothing is claimed.
- `CompactEf_proofs`: `FieldsHold` (`FieldsIntact`), `CursorsHold`
  (`CursorAtPosition`), `NextGeqHolds` (`NextGeqAsPromised`), `PrevValueHolds`
  (`PrevValueKnown`) and `TypesHold` (`TypeOK`), all the run **compact_ef**
  checks, for words, lists, samplings and base offsets of any size. From
  `WordsAssumption` and `CompactEfAssumption`: lists are not empty and do not
  decrease, and their length and last value together fit the bits that
  `get_word56` has at any byte, so that a pointer or the low bits of a value are
  never cut off. In the code those are 57 bits, and a partition has up to 128
  values, each at most an id of 32 bits above the one before.
- `Index_proofs`, of the tries: `PairLevel`, `TrieHoldsLines` and `MemberFound`,
  for every sorted file, and the lemmas on iterators (`WalkTurns`,
  `WalkAnswers`, ...), over all four encodings of the levels, a `pef` one with
  several partitions (`Partitioned`).
- `Index_proofs`: `MemberPositionHolds` (`MemberPosition`), `TypeCorrect`
  (`TypeOK`), `AskingAgainHolds` (`AskingAgainIsHarmless`), `InFileOrderHolds`
  (`InFileOrder`) and `StoreSafety`, the safety part of `StoreSpec`: the initial
  states are initial states of `TripleStore`, and every step is one of its steps
  or a stutter. From `IndexAssumption`, whose `WellFormed` says of a data set
  what the scripts make of any input: it is not empty, the ids of each column
  are 0, 1, ... without gaps, and every file lists the lines, each once, in the
  order of its permutation. And from `Unguarded = FALSE`: a `pef` type is only built of
  data whose `pef` levels have several partitions, no index is asked for what its
  `find` does not refuse though it is not there, and `select` not for two ids
  that are absent as a pair. What is proved is silent on these cases, in which
  the program is wrong.
- `Basics_proofs`: what the others share. The lemmas `LeastNatural`, `InductionUpTo` and
  `Recursion` are induction and recursion on naturals, stated for a set, or a
  function of steps, in place of an operator: the library's theorems with an
  operator parameter cannot be instantiated by the provers. `SortedPairwise`,
  `RanksArePositions` and `IncreasingEnumeration` say that in a sorted file the
  rank of a pair, by counting, is its place. The rest is about bits: division by
  powers, what a write leaves at every place of a bit vector and a read finds
  there, alone or in a row of values of one width, and how the unary iterator
  counts, skips and finds ones and zeros.

The trie builder. None of the properties is inductive, for the
vectors of the second pass say nothing of the lines unless the counters say how
many pairs have been seen. The invariant `IInv` adds that `pointer_first` is
the number of distinct pairs of the lines read and `pointer_second` their
number, that the first pointers are one more than the last first id, that every
pushed pointer is at most its counter, and that the third pass has pushed the
mapped ids of the lines it has read. A new line either repeats the last pair,
and lies under the last node of both levels, or opens a node; sortedness makes a
pair that differs from the last one differ from all before (`PairStep`), so the
count of nodes stays within that of the `.stats` file. That the result is
`TrieOf`'s follows as the nodes list the pairs in increasing order, each once,
and an increasing list of a set has each member at its rank.

The predicate index. The first scan's invariant is a count per predicate of the
pairs seen, shifted by one; in `accumulate` the offsets below `i` are sums, and
a sum of the counts of the predicates below `p` is the number of pairs before
`p`'s first. In the second scan `offsets[p]` is that number plus the pairs of `p`
already placed, so that the position written is the rank of the pair
(`RankOfNew`), is within the range of the predicate, and no two pairs share one.

The search. Whatever has been cut off from `[lo, hi]` does not
hold the id, because the range increases; in the scan, nothing before `pos`
does.

Blocks. While they are written, the invariant says that every finished block
lies where its endpoint says, decodes to its differences, and has its last node
as upper bound, and that the builder's buffer holds the differences since. Then
`m_it`, unless it is still none, is `It(i, v)` for some position `i`, whose
value is the node of `i` if the decoded prefix was summed from the start of the
range, which is what `AtPosition` establishes whatever the iterator held
before. In a `find` by blocks, every block skipped has an upper bound below the
id or is that of the range before (`RangeBlocks`, `BoundTells`), and in the scan
no value before the cursor is the id.

Values in words. `BitsWritten` says which bit of which word every bit of a value
goes to, whether it lies in one word or in two, and that no bit outside the mask
changes; `BitsRead` and `BitsReadUnaligned` that they are found there, and
`NumberOfBits` that they make the number again. The invariant `Filling` says of a
builder that whichever indexes have been given a value hold its bits, and that
`push_back`'s cursor is after them; `Slots`, that the bits of two indexes are
apart, keeps it when `set` comes in any order.

`ef_sequence`. `Building` adds what each phase has at hand: while nodes are
raised, the pointers' enumerator is at the range of the next node, whichever
ranges were empty, and `prev_upper` is the last value before it (`NextRun`);
while they are encoded, the low bits of the first values lie in one bit vector
and the ones of the other are their high parts, each moved on by its position
(`HighHeld`, `LowHeld`), which keeps ones apart though high parts may be equal.
Raised values do not decrease (`RaisedGrows`), so none is refused.
That the darray then finds the `k`-th one is a fact about any bit vector:
`DArrayStores` says what every block keeps of its ones, `KthBit` that going on
word by word from a subblock's first one ends at the one looked for, and a
distance that fits 16 bits loses nothing modulo `max_in_block_distance`. An
iterator is `Ready` if it has passed the one of the value at its position
and its buffer holds the low bits of `chunks_avail` values, one more for the
iterators that `++` moves, whose current value is in the buffer already; with no
low bits the count is at least of the values that are left, so that it is never
refilled. `Walking` says so of the client's iterator, with the bound of
its range.

`pef_sequence`. The proof goes from the bits up. A number in gamma or delta, or
of a fixed width, is `Spelt` at a place of a bit vector; what is appended
`Continues` what was there; and `bits_iterator`, with whatever is left in its
buffer, reads it and stops right after it, which is where the next number or the
first list begins, so that a reader's offsets, computed from the number of
partitions and the universe alone, are the writer's endpoints. `Readable` is the
result: a reader finds of every partition the list, base and bound that were
written. The lists begin at different places (`Where`
increases), so none is taken for another. The iterator is next. `Settled`: wherever calls left `m_it`, it is
on a partition, whose list, base and bound are the ones it holds, with its
enumerator at some value of it or nowhere yet. From there a move to any position
gives `MovedTo`: it is on the one partition that position belongs to
(`TargetOnly`) and has its value. So `access` does not depend on where it was, nor on
the order of its two moves, and `find`'s scan and a client's walk are moves on by
one. Last, the search: `SearchInv` says that while `find` searches, `m_it` is at
the beginning of the range, or bisecting has `Narrowed` it to a partition whose
lower bound is below what is looked for, and whose upper one is not, unless it is
the one after the range; and that the interval that is bisected still has that
partition (`Bisects`). It is in these that the strict comparisons matter: a bound
equal to a value is the last of one partition and the base of the next. Values
increase strictly within a range (`FoundOnly`), so the place found, if it is in
the range, is the only one, and if it is not, no place of the range has the
value. Without the clause on the range's first value it would not be inductive:
the place found might be one before the range with an equal raised value.

`compact_ef`. `Written(bv, k, z)` says part by part what a bit vector holds when
`k` values are written and the zeros below `z` passed: ones in all that comes
before the partition, in the high bits only the ones of the `k` values, their
low bits, and in either row of pointers a place for each sampled one or zero
met so far. A write keeps it (`ValueWritten`, `LastZerosPassed`), for each part
takes the place it should and leaves the others as they were (`PartsSame`);
the zeros between two high parts have as many ones before them, and those that
are sampled get their pointers, however many of them there are (`ZerosSet`). The
enumerator's invariant is that it stands at a value, its one just consumed
(`Standing`), or past the end with a cursor anywhere (`PastEnd`); weaker ones
fail, for a short skip counts on from that very one. `Splits` says how many ones
of the partition come before a place and `IsRank` how many come before a zero;
both counts are unique, so that wherever a scan, a skip, a pointer and the rest
of its way, or a search over zeros ends, the number of ones passed tells the
position (`MoveArrives`, `ZeroScanned`, `NextGeqArrives`). Going back from the
cursor, the one found is that of the value before (`PrevValueRead`). The
invariant `Inv` joins the two: `Written` while the list is written, and then all
of it and a place to stand.

The indexes. The argument has four layers. First, a trie: `TrieHoldsLines` says
of the levels that `TrieOf` defines that down every path lies the line of the
path's last position, and `build` loses nothing of it: what a cursor reads of a
level that is raised, differenced or plain is its node, in a `pef` level with
several partitions, as long as the cursor
holds what its encoding carries from one node to the next (`Placed`, `Reads`:
the bound of the range before, the last value, the slot).
Second, an iterator: `Gave(w, it, k)` says that it has given `k` lines and where
it therefore stands. The threshold up to which lines have been given, a triplet,
need not be a line (`Reached`): `iterator_so` and `iterator_po` move past nodes
without an answer, which moves the threshold over no line. For each of the five
kinds it is proved that the start establishes it, that a turn of `has_next` ends
the walk only when all answers are given and changes nothing when there is one,
that `*` gives the next line, and that `++` moves one on. Third, a layout: what
each `permute` chooses (`Chosen`) is a trie whose first ids are given, or one of
the other selections, and the answers are one block of consecutive lines of one
file, which for `iterator_so`, `iterator_po` and `iterator_p` is not the file
of the trie they walk. The predicate index and the SPO trie, built by different
scans, agree because both list the pairs of the same lines. Fourth, the client:
the inductive invariant is `Built /\ MemberInv /\ SelectInv`. `Built`
says that nothing changes the tries; `SelectInv` that if a selection has begun,
there is a walk `w` of which the iterator gave what was emitted, in the order of
the file, that a client told "yes" has an answer to read, and that `"end"` is
reached only with all of them given. None of the properties is inductive
without it, for what was emitted says nothing of the cursors. It quantifies over
walks, and TLC does not evaluate it; its consequences are what the run
**index** checks. From it `Listed` follows: the emitted lines are the first of
the block, the block's lines are those that match, and no line is there twice, so
that `++` is `Emit`, the `has_next` that says no is `Finish`, and every other call
a stutter.

Only model-checked: all liveness (`Returns`, `SearchEnds`, the liveness of
`StoreSpec`), which is beyond the prover. Every invariant that a run checks is a
theorem. That `Index` may use `NodesSequence` in place of the encoders is the
subject of the runs **ef_sequence**, **pef** and **blocks**, and not of a theorem
that composes them. The prover knows nothing of `2^n`: powers are a recursive
function, `power` in `Words` and `group_power` in `VByte`.

## Not modelled

- Code without a caller: `next_geq` and `end()` of `ef_sequence` and the
  `darray0` the former needs, `compact_ef::bitsize`, which only evaluates the
  offsets again, the `_nonzero` variants of the integer codes. `prev_value` of
  `pef_sequence`'s iterator has none either; that of `compact_ef`'s enumerator,
  which only it calls, is modelled, as it shares the enumerator's cursor.
- The external library essentials (serialization, timers), MaskedVByte, the
  printing of statistics, the parsing of N-Quads: input, output and vendored
  code without state of the program's own. `visit`, `swap` and the moves of
  words from a builder to what it builds change no value.
- How often the query tool repeats a query: a matter of timing.
- What the indexes over `block_sequence` answer to ids that are not in the data:
  `find` gives a position of some other id there (run **blocks_absent**), or reads on
  past the last block. What those over `pef_sequence` answer if a level has a
  single partition is modelled, but no property holds of it that is worth
  stating.
- `maskedvbyte_block`, the block that `types.hpp:71` gives `block_sequence`: it
  calls a vendored library. `VByte` models `vbyte_block`, the other block of
  `vb.hpp`, which has the same interface and does in code of the program's own
  what the library does: a number takes as many bytes of 7 bits as it needs,
  with a mark at its last one, where the library marks the other ones.
- In `PefSequence`, that the `ub` of a single partition is an `int` of 32 bits
  (`pef_sequence.hpp:228`), and the bound after `mid` that `bsearch` reads for a
  result it never returns (`pef_sequence.hpp:325`). The first is enough for what
  a level of 128 nodes holds; it is -1 if all its nodes are the same, and then
  no range has a second node and no search compares the bound.
- Tests and benchmarks: they are clients, whose comparisons are the properties
  of `Index`.
- Malformed input: a file that is not sorted, ids with gaps, an empty file, a
  pattern with an id that is not in the data. The scripts do not produce the
  first three; the last is outside of what `select` is asked by the tests.

## What is left

All parts of the program that keep state of their own are modelled, and all the
safety that the passing runs check is proved. Open are the liveness properties,
which TLC checks on the instances of the runs, and the statement that composes
the two levels at which an encoder is modelled: that `Index` over `EfSequence`,
`PefSequence` and `BlockSequence` behaves as over `NodesSequence`. It would ask
for the tries' selections to be stated over an interface that both levels
implement, in place of the values and cursors of `NodesSequence`.
