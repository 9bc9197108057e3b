------------------------------- MODULE TxnLog -------------------------------
(***************************************************************************)
(* The transaction log of src/core/doc/transaction.cc: an undo stack and a *)
(* redo stack of value-type commands over the document IR.  pc_txn_apply   *)
(* mutates the IR first and checks the budget afterwards; pc_txn_undo and  *)
(* pc_txn_redo pop the stack before they know whether the IR can be        *)
(* reversed.  Every call is synchronous, so a call is one action.          *)
(*                                                                         *)
(* Left out: allocation failure, unknown JSON keys ("extras"), the         *)
(* attributes of a form field other than its name and value, page boxes.   *)
(*                                                                         *)
(* An operator marked "Fault" is a plausible mistake in the operator after *)
(* it; nothing uses it.  It shows which property would notice the mistake. *)
(***************************************************************************)
EXTENDS Integers, Sequences, SequencesExt

CONSTANTS
  AnnotId,      \* annotation ids a caller may pass
  ValidId,      \* those pc_sidecar_validate_annotation_id accepts
  Rect,         \* annotation rectangles
  FieldName,    \* form field names
  Value,        \* form field values
  InitFields,   \* the form the IR was loaded with before the log was created
  MaxTiles,     \* budget: commands on the undo stack, 0 = unlimited
  MaxBytes,     \* budget: bytes of the undo stack, 0 = unlimited
  CmdBytes      \* sizeof(Command), the constant estimate of every command

Annot == [id : AnnotId, rect : Rect]
Field == [name : FieldName, value : Value]

ASSUME IdAssumption == ValidId \subseteq AnnotId
ASSUME FormAssumption == InitFields \in Seq(Field)
ASSUME BudgetAssumption ==
  /\ MaxTiles \in Nat
  /\ MaxBytes \in Nat
  /\ CmdBytes \in Nat \ {0}

VARIABLES
  ir,           \* the mutable part of pc_doc: annotations and form_fields
  undo,         \* pc_txn::undo, the most recent command last
  redo,         \* pc_txn::redo, the most recently undone command last
  undo_bytes,   \* pc_txn::undo_bytes
  status        \* pc_status::code of the last call

vars == <<ir, undo, redo, undo_bytes, status>>

Doc == [annots : Seq(Annot), fields : Seq(Field)]

\* pc_command, the caller's request, reduced to the members its type uses.
Request ==
       [type : {"ADD_ANNOT", "MOVE"}, id : AnnotId, after : Rect]
  \cup [type : {"DELETE"}, id : AnnotId]
  \cup [type : {"FORM_SET"}, name : FieldName, new : Value]
  \cup [type : {"FORM_FLATTEN"}]

\* Command, the logged mutation: the request and what it overwrote.
Command ==
       [type : {"ADD_ANNOT"}, id : AnnotId, after : Rect]
  \cup [type : {"MOVE"}, id : AnnotId, before : Rect, after : Rect]
  \cup [type : {"DELETE"}, id : AnnotId, before : Rect]
  \cup [type : {"FORM_SET"}, name : FieldName, old : Value, new : Value]
  \cup [type : {"FORM_FLATTEN"}, fields : Seq(Field)]

-----------------------------------------------------------------------------
(* The IR primitives.                                                      *)

\* find_annotation and ir_form_field_find: the first match, 0 if there is none.
AnnotIndex(d, id) == SelectInSeq(d.annots, LAMBDA a : a.id = id)
FieldIndex(d, name) == SelectInSeq(d.fields, LAMBDA f : f.name = name)

\* ir_annot_insert appends, whatever place the annotation held before.
AnnotInsert(d, id, rect) ==
  [annots |-> Append(d.annots, [id |-> id, rect |-> rect]), fields |-> d.fields]

\* ir_annot_remove closes the gap.
AnnotRemove(d, id) ==
  [annots |-> RemoveAt(d.annots, AnnotIndex(d, id)), fields |-> d.fields]

SetRect(d, id, rect) ==
  [annots |-> [d.annots EXCEPT ![AnnotIndex(d, id)] = [id |-> id, rect |-> rect]],
   fields |-> d.fields]

\* Fault: every field of that name is written.
SetValueEvery(d, name, value) ==
  [annots |-> d.annots,
   fields |-> [i \in 1..Len(d.fields) |->
                 IF d.fields[i].name = name THEN [name |-> name, value |-> value]
                                            ELSE d.fields[i]]]

SetValue(d, name, value) ==
  [annots |-> d.annots,
   fields |-> [d.fields EXCEPT ![FieldIndex(d, name)] = [name |-> name, value |-> value]]]

SetFields(d, fields) == [annots |-> d.annots, fields |-> fields]

\* Fault: a new annotation is not checked for a duplicate id.
ApplicableDuplicate(d, r) ==
  CASE r.type = "ADD_ANNOT" -> r.id \in ValidId
    [] r.type \in {"MOVE", "DELETE"} -> r.id \in ValidId /\ AnnotIndex(d, r.id) # 0
    [] r.type = "FORM_SET" -> FieldIndex(d, r.name) # 0
    [] r.type = "FORM_FLATTEN" -> TRUE

\* The conditions under which pc_txn_apply and ir_apply accept a request.
Applicable(d, r) ==
  CASE r.type = "ADD_ANNOT" -> r.id \in ValidId /\ AnnotIndex(d, r.id) = 0
    [] r.type \in {"MOVE", "DELETE"} -> r.id \in ValidId /\ AnnotIndex(d, r.id) # 0
    [] r.type = "FORM_SET" -> FieldIndex(d, r.name) # 0
    [] r.type = "FORM_FLATTEN" -> TRUE

\* Fault: the overwritten rectangle of a MOVE is read after the mutation.
CapturedLate(d, r) ==
  CASE r.type = "ADD_ANNOT" -> [type |-> "ADD_ANNOT", id |-> r.id, after |-> r.after]
    [] r.type = "MOVE" -> [type |-> "MOVE", id |-> r.id, before |-> r.after, after |-> r.after]
    [] r.type = "DELETE" ->
         [type |-> "DELETE", id |-> r.id,
          before |-> d.annots[AnnotIndex(d, r.id)].rect]
    [] r.type = "FORM_SET" ->
         [type |-> "FORM_SET", name |-> r.name,
          old |-> d.fields[FieldIndex(d, r.name)].value, new |-> r.new]
    [] r.type = "FORM_FLATTEN" -> [type |-> "FORM_FLATTEN", fields |-> d.fields]

\* The command ir_apply builds: it captures what it is about to overwrite.
Captured(d, r) ==
  CASE r.type = "ADD_ANNOT" -> [type |-> "ADD_ANNOT", id |-> r.id, after |-> r.after]
    [] r.type = "MOVE" ->
         [type |-> "MOVE", id |-> r.id,
          before |-> d.annots[AnnotIndex(d, r.id)].rect, after |-> r.after]
    [] r.type = "DELETE" ->
         [type |-> "DELETE", id |-> r.id,
          before |-> d.annots[AnnotIndex(d, r.id)].rect]
    [] r.type = "FORM_SET" ->
         [type |-> "FORM_SET", name |-> r.name,
          old |-> d.fields[FieldIndex(d, r.name)].value, new |-> r.new]
    [] r.type = "FORM_FLATTEN" -> [type |-> "FORM_FLATTEN", fields |-> d.fields]

\* ir_reverse, redo direction (and the mutation ir_apply performs).  Re-adding
\* does not look for a duplicate id.
CanForward(d, c) ==
  CASE c.type \in {"ADD_ANNOT", "FORM_FLATTEN"} -> TRUE
    [] c.type \in {"MOVE", "DELETE"} -> AnnotIndex(d, c.id) # 0
    [] c.type = "FORM_SET" -> FieldIndex(d, c.name) # 0

Forward(d, c) ==
  CASE c.type = "ADD_ANNOT" -> AnnotInsert(d, c.id, c.after)
    [] c.type = "MOVE" -> SetRect(d, c.id, c.after)
    [] c.type = "DELETE" -> AnnotRemove(d, c.id)
    [] c.type = "FORM_SET" -> SetValue(d, c.name, c.new)
    [] c.type = "FORM_FLATTEN" -> SetFields(d, <<>>)

\* ir_reverse, undo direction.  A flatten can be undone only while the IR holds
\* no fields (doc->form_fields is null exactly then).
CanBackward(d, c) ==
  CASE c.type = "DELETE" -> TRUE
    [] c.type \in {"ADD_ANNOT", "MOVE"} -> AnnotIndex(d, c.id) # 0
    [] c.type = "FORM_SET" -> FieldIndex(d, c.name) # 0
    [] c.type = "FORM_FLATTEN" -> d.fields = <<>>

\* Fault: undoing a flatten copies one field too few.
BackwardOneShort(d, c) ==
  CASE c.type = "ADD_ANNOT" -> AnnotRemove(d, c.id)
    [] c.type = "MOVE" -> SetRect(d, c.id, c.before)
    [] c.type = "DELETE" -> AnnotInsert(d, c.id, c.before)
    [] c.type = "FORM_SET" -> SetValue(d, c.name, c.old)
    [] c.type = "FORM_FLATTEN" -> SetFields(d, Front(c.fields))

Backward(d, c) ==
  CASE c.type = "ADD_ANNOT" -> AnnotRemove(d, c.id)
    [] c.type = "MOVE" -> SetRect(d, c.id, c.before)
    [] c.type = "DELETE" -> AnnotInsert(d, c.id, c.before)
    [] c.type = "FORM_SET" -> SetValue(d, c.name, c.old)
    [] c.type = "FORM_FLATTEN" -> SetFields(d, c.fields)

-----------------------------------------------------------------------------
(* The calls.                                                              *)

Init ==
  /\ ir = [annots |-> <<>>, fields |-> InitFields]
  /\ undo = <<>>
  /\ redo = <<>>
  /\ undo_bytes = 0
  /\ status = "NONE"

\* Fault: the ceilings are compared with the log as it is, without the new command.
OverBudgetLate ==
  \/ MaxTiles > 0 /\ Len(undo) > MaxTiles
  \/ MaxBytes > 0 /\ undo_bytes > MaxBytes

OverBudget ==
  \/ MaxTiles > 0 /\ Len(undo) >= MaxTiles
  \/ MaxBytes > 0 /\ undo_bytes + CmdBytes > MaxBytes

ApplyRefused(r) ==
  /\ ~Applicable(ir, r)
  /\ status' = "ARGUMENT"
  /\ UNCHANGED <<ir, undo, redo, undo_bytes>>

\* Fault: the mutation is not reversed.
ApplyOverBudgetKept(r) ==
  /\ Applicable(ir, r)
  /\ OverBudget
  /\ ir' = Forward(ir, Captured(ir, r))
  /\ status' = "LIMIT"
  /\ UNCHANGED <<undo, redo, undo_bytes>>

\* The mutation has been performed when the budget is found exceeded, so the
\* code reverses it.
ApplyOverBudget(r) ==
  /\ Applicable(ir, r)
  /\ OverBudget
  /\ ir' = LET c == Captured(ir, r) IN Backward(Forward(ir, c), c)
  /\ status' = "LIMIT"
  /\ UNCHANGED <<undo, redo, undo_bytes>>

\* Fault: the redo stack survives a new command.
ApplyLoggedRedoKept(r) ==
  /\ Applicable(ir, r)
  /\ ~OverBudget
  /\ ir' = Forward(ir, Captured(ir, r))
  /\ undo' = Append(undo, Captured(ir, r))
  /\ undo_bytes' = undo_bytes + CmdBytes
  /\ status' = "NONE"
  /\ UNCHANGED redo

ApplyLogged(r) ==
  /\ Applicable(ir, r)
  /\ ~OverBudget
  /\ ir' = Forward(ir, Captured(ir, r))
  /\ undo' = Append(undo, Captured(ir, r))
  /\ undo_bytes' = undo_bytes + CmdBytes
  /\ redo' = <<>>
  /\ status' = "NONE"

Apply(r) == ApplyRefused(r) \/ ApplyOverBudget(r) \/ ApplyLogged(r)

UndoEmpty ==
  /\ undo = <<>>
  /\ status' = "STATE"
  /\ UNCHANGED <<ir, undo, redo, undo_bytes>>

\* The command is popped before the reversal is tried: when the IR refuses, it
\* is on neither stack and its bytes stay counted.
UndoLost ==
  /\ undo # <<>>
  /\ ~CanBackward(ir, Last(undo))
  /\ undo' = Front(undo)
  /\ status' = "STATE"
  /\ UNCHANGED <<ir, redo, undo_bytes>>

UndoDone ==
  /\ undo # <<>>
  /\ CanBackward(ir, Last(undo))
  /\ ir' = Backward(ir, Last(undo))
  /\ undo' = Front(undo)
  /\ redo' = Append(redo, Last(undo))
  /\ undo_bytes' = undo_bytes - CmdBytes
  /\ status' = "NONE"

Undo == UndoEmpty \/ UndoLost \/ UndoDone

RedoEmpty ==
  /\ redo = <<>>
  /\ status' = "STATE"
  /\ UNCHANGED <<ir, undo, redo, undo_bytes>>

RedoLost ==
  /\ redo # <<>>
  /\ ~CanForward(ir, Last(redo))
  /\ redo' = Front(redo)
  /\ status' = "STATE"
  /\ UNCHANGED <<ir, undo, undo_bytes>>

\* Fault: the bytes of a redone command are not counted.
RedoDoneNoBytes ==
  /\ redo # <<>>
  /\ CanForward(ir, Last(redo))
  /\ ir' = Forward(ir, Last(redo))
  /\ redo' = Front(redo)
  /\ undo' = Append(undo, Last(redo))
  /\ status' = "NONE"
  /\ UNCHANGED undo_bytes

RedoDone ==
  /\ redo # <<>>
  /\ CanForward(ir, Last(redo))
  /\ ir' = Forward(ir, Last(redo))
  /\ redo' = Front(redo)
  /\ undo' = Append(undo, Last(redo))
  /\ undo_bytes' = undo_bytes + CmdBytes
  /\ status' = "NONE"

Redo == RedoEmpty \/ RedoLost \/ RedoDone

Next == (\E r \in Request : Apply(r)) \/ Undo \/ Redo

Spec == Init /\ [][Next]_vars

=============================================================================
