-------------------------- MODULE ScanBinarySearch --------------------------
(***************************************************************************)
(* scan_binary_search (util.hpp): the find of compact_vector and of        *)
(* ef_sequence. It halves [lo, hi] until few values are left, and scans    *)
(* them with an iterator.                                                  *)
(***************************************************************************)
EXTENDS Mappers

CONSTANTS
  linear_scan_threshold,
  Searches   \* [sequence, begin, end, id]: the stored values, a range, an id

ASSUME ThresholdAssumption == linear_scan_threshold \in Nat \ {0}

(* A call: the range is not empty and its stored values increase.          *)
WellFormedSearch(s) ==
  /\ s.sequence \in Seq(Nat)
  /\ s.begin \in Nat /\ s.end \in Nat /\ s.id \in Nat
  /\ s.begin < s.end /\ s.end <= Len(s.sequence)
  /\ \A p, q \in s.begin .. s.end - 1 : p < q => s.sequence[p + 1] < s.sequence[q + 1]

ASSUME SearchesAssumption == \A s \in Searches : WellFormedSearch(s)

VARIABLES
  search,   \* the call
  phase,    \* "halving", "scanning", "done"
  lo,
  hi,
  pos,      \* of the value read last
  result

search_vars == <<search, phase, lo, hi, pos, result>>

Value(p) == search.sequence[p + 1]

(* Mutant: the end of the range is searched too.                           *)
SearchInit_EndIncluded ==
  /\ search \in Searches
  /\ phase = "halving"
  /\ lo = search.begin
  /\ hi = search.end
  /\ pos = search.begin
  /\ result = not_found

SearchInit ==
  /\ search \in Searches
  /\ phase = "halving"
  /\ lo = search.begin
  /\ hi = search.end - 1
  /\ pos = search.begin
  /\ result = not_found

Return(r) == phase' = "done" /\ result' = r

(* The threshold ends the halving, never the loop's own test lo <= hi:     *)
(* more than two values leave some on either side of the middle.           *)
StartScan ==
  /\ phase = "halving"
  /\ lo <= hi
  /\ hi - lo <= linear_scan_threshold
  /\ phase' = "scanning"
  /\ pos' = lo
  /\ UNCHANGED <<search, lo, hi, result>>

(* Mutants: the range is halved to its last value; lo is not moved.        *)
Halve_WithoutThreshold ==
  /\ phase = "halving"
  /\ lo <= hi
  /\ pos' = lo + (hi - lo) \div 2
  /\ \/ /\ Value(pos') = search.id
        /\ Return(pos')
        /\ UNCHANGED <<lo, hi>>
     \/ /\ Value(pos') > search.id
        /\ hi' = pos' - 1
        /\ UNCHANGED <<phase, lo, result>>
     \/ /\ Value(pos') < search.id
        /\ lo' = pos' + 1
        /\ UNCHANGED <<phase, hi, result>>
  /\ UNCHANGED search

Halve_LowKept ==
  /\ phase = "halving"
  /\ hi - lo > linear_scan_threshold
  /\ pos' = lo + (hi - lo) \div 2
  /\ \/ /\ Value(pos') = search.id
        /\ Return(pos')
        /\ UNCHANGED <<lo, hi>>
     \/ /\ Value(pos') > search.id
        /\ hi' = pos' - 1
        /\ UNCHANGED <<phase, lo, result>>
     \/ /\ Value(pos') < search.id
        /\ UNCHANGED <<phase, lo, hi, result>>
  /\ UNCHANGED search

Halve ==
  /\ phase = "halving"
  /\ hi - lo > linear_scan_threshold
  /\ pos' = lo + (hi - lo) \div 2
  /\ \/ /\ Value(pos') = search.id
        /\ Return(pos')
        /\ UNCHANGED <<lo, hi>>
     \/ /\ Value(pos') > search.id
        /\ hi' = pos' - 1
        /\ UNCHANGED <<phase, lo, result>>
     \/ /\ Value(pos') < search.id
        /\ lo' = pos' + 1
        /\ UNCHANGED <<phase, hi, result>>
  /\ UNCHANGED search

(* One value of the scan.                                                  *)
Scan ==
  /\ phase = "scanning"
  /\ pos <= hi
  /\ IF Value(pos) = search.id
     THEN Return(pos) /\ UNCHANGED pos
     ELSE pos' = pos + 1 /\ UNCHANGED <<phase, result>>
  /\ UNCHANGED <<search, lo, hi>>

(* Mutant: the scan leaves the last value out.                             *)
EndScan_BeforeLast ==
  /\ phase = "scanning"
  /\ pos >= hi
  /\ Return(not_found)
  /\ UNCHANGED <<search, lo, hi, pos>>

EndScan ==
  /\ phase = "scanning"
  /\ pos > hi
  /\ Return(not_found)
  /\ UNCHANGED <<search, lo, hi, pos>>

SearchNext == StartScan \/ Halve \/ Scan \/ EndScan

(* A function: it runs on until it returns.                                *)
SearchSpec == SearchInit /\ [][SearchNext]_search_vars /\ WF_search_vars(SearchNext)
-----------------------------------------------------------------------------
(* Types: the cursors stay where an unsigned does not wrap.                *)
SearchTypeOK ==
  /\ phase \in {"halving", "scanning", "done"}
  /\ lo \in Nat
  /\ hi \in Nat
  /\ pos \in Nat
  /\ result \in Nat \cup {not_found}

(* Every value read is in the range, be it the middle of what is left to   *)
(* halve, which is never empty, or the next of the scan: the values beside *)
(* the range belong to other nodes, and may equal the id.                  *)
ReadsStayInRange ==
  /\ search.begin <= lo /\ hi < search.end
  /\ phase = "halving" => lo <= hi
  /\ phase = "scanning" /\ pos <= hi => pos \in search.begin .. search.end - 1

(* It returns what the tries count on (find, Mappers): the position of the *)
(* id in the range, and not_found only if there is none.                   *)
FindsExactly ==
  phase = "done" =>
    result = find(search.sequence, [begin |-> search.begin, end |-> search.end], search.id)

(* The interval shrinks at every turn, so that the search ends.            *)
Returns == <>(phase = "done")
=============================================================================
