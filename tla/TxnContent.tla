----------------------------- MODULE TxnContent -----------------------------
(***************************************************************************)
(* What a reader sees of a document under the transaction log, and what a  *)
(* command of the log does to it: the vocabulary in which TxnHistory and   *)
(* TxnPersist say what the two stacks stand for.                           *)
(*                                                                         *)
(* The content of a document is its annotations as a set and its fields in *)
(* order: undoing a DELETE re-inserts the annotation at the end, so the    *)
(* order of the annotations is not restored.                               *)
(***************************************************************************)
EXTENDS TxnLog

Content == [annots : SUBSET Annot, fields : Seq(Field)]

ContentOf(d) == [annots |-> ToSet(d.annots), fields |-> d.fields]

IdsDistinct(d) ==
  \A i, j \in 1..Len(d.annots) : d.annots[i].id = d.annots[j].id => i = j

\* c leads from content p to content q, and back.
Holds(p, id, rect) == {a \in p.annots : a.id = id} = {[id |-> id, rect |-> rect]}
Without(p, id) == {a \in p.annots : a.id # id}

Links(c, p, q) ==
  CASE c.type = "ADD_ANNOT" ->
         /\ Without(p, c.id) = p.annots
         /\ q = [annots |-> p.annots \cup {[id |-> c.id, rect |-> c.after]},
                 fields |-> p.fields]
    [] c.type = "MOVE" ->
         /\ Holds(p, c.id, c.before)
         /\ q = [annots |-> Without(p, c.id) \cup {[id |-> c.id, rect |-> c.after]},
                 fields |-> p.fields]
    [] c.type = "DELETE" ->
         /\ Holds(p, c.id, c.before)
         /\ q = [annots |-> Without(p, c.id), fields |-> p.fields]
    [] c.type = "FORM_SET" ->
         \E i \in 1..Len(p.fields) :
           /\ p.fields[i] = [name |-> c.name, value |-> c.old]
           /\ \A j \in 1..(i - 1) : p.fields[j].name # c.name
           /\ q = [annots |-> p.annots,
                   fields |-> [p.fields EXCEPT ![i] = [name |-> c.name, value |-> c.new]]]
    [] c.type = "FORM_FLATTEN" ->
         /\ c.fields = p.fields
         /\ q = [annots |-> p.annots, fields |-> <<>>]

=============================================================================
