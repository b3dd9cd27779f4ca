----------------------------- MODULE TripleStore -----------------------------
(***************************************************************************)
(* What an index promises, whatever its layout: a selection emits every    *)
(* triple of the data that matches its pattern, once, and then ends; a     *)
(* membership query says whether its triple is in the data.                *)
(***************************************************************************)
EXTENDS RdfTypes

CONSTANT Datasets   \* the sets of lines an index may have been built on

VARIABLES
  triples,   \* the data: lines <<s, p, o>>
  pattern,   \* the query, a triplet in the order s, p, o
  status,    \* "idle", "selecting", "end"
  emitted,   \* the lines given so far
  member     \* the answer to a membership query

vars == <<triples, pattern, status, emitted, member>>

Matches(line, q) ==
  /\ q.first \in {wildcard_symbol, line[Subject]}
  /\ q.second \in {wildcard_symbol, line[Predicate]}
  /\ q.third \in {wildcard_symbol, line[Object]}

Missing == {t \in triples : Matches(t, pattern) /\ \A i \in DOMAIN emitted : emitted[i] # t}

Init ==
  /\ triples \in Datasets
  /\ pattern = no_triplet
  /\ status = "idle"
  /\ emitted = <<>>
  /\ member = "none"

Select ==
  /\ status = "idle"
  /\ pattern' \in [first : Int, second : Int, third : Int]
  /\ status' = "selecting"
  /\ UNCHANGED <<triples, emitted, member>>

Emit ==
  /\ status = "selecting"
  /\ \E t \in Missing : emitted' = Append(emitted, t)
  /\ UNCHANGED <<triples, pattern, status, member>>

Finish ==
  /\ status = "selecting"
  /\ Missing = {}
  /\ status' = "end"
  /\ UNCHANGED <<triples, pattern, emitted, member>>

IsMember ==
  /\ status = "idle"
  /\ pattern' \in [first : Nat, second : Nat, third : Nat]
  /\ member' = IF \E t \in triples : Matches(t, pattern') THEN "yes" ELSE "no"
  /\ status' = "end"
  /\ UNCHANGED <<triples, emitted>>

Next == Select \/ Emit \/ Finish \/ IsMember

(* A selection that began is answered to its end.                          *)
Spec == Init /\ [][Next]_vars /\ WF_vars(Emit \/ Finish)
=============================================================================
