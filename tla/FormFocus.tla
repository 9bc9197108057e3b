------------------------------ MODULE FormFocus ------------------------------
(***************************************************************************)
(* Filling a form: src/core/forms/forms.cc over the transaction log.  The  *)
(* focus model keeps the index of a field and a typing buffer beside the   *)
(* IR; commits, toggles and fills go through the log by field name, and    *)
(* undo, redo and flatten change the IR behind the focus.                  *)
(*                                                                         *)
(* A text is a sequence of symbols; a symbol stands for the bytes of one   *)
(* character, or for one of the words a checkbox knows.  Left out: names   *)
(* and values longer than their buffers, FDF export, the file a flatten    *)
(* writes.                                                                 *)
(***************************************************************************)
EXTENDS TxnLog

CONSTANTS
  Attr,         \* the attributes of each field of InitFields
  Symbol,       \* what can be typed
  FillText,     \* what pc_form_fill_field is asked for
  Space, Yes, Off, LowerYes, LowerOff,  \* the symbols the code knows
  Cap           \* symbols the typing buffer holds

ASSUME AttrAssumption ==
  Attr \in [1..Len(InitFields) ->
              [kind : {"text", "checkbox"}, max : Nat, readonly : BOOLEAN]]
ASSUME CapAssumption == Cap \in Nat
ASSUME TextAssumption ==
  Value \cup FillText \subseteq Seq(Symbol \cup {Space, Yes, Off, LowerYes, LowerOff})

VARIABLE
  focus         \* pc_form_focus: [at, text]; at = 0 is the index -1

fvars == <<vars, focus>>

NoText == <<>>

-----------------------------------------------------------------------------
(* pc_form_fill_field.                                                     *)

\* validate_fill: the case of a checkbox value does not matter.
FitsMax(i, text) == Attr[i].max > 0 => Len(text) <= Attr[i].max
FitsKind(i, text) ==
  Attr[i].kind = "checkbox" => text \in {<<Yes>>, <<Off>>, <<LowerYes>>, <<LowerOff>>}

\* Fault: whether the field is read-only is not asked.
FillableReadonly(name, text) ==
  LET i == FieldIndex(ir, name)
  IN  i # 0 /\ FitsMax(i, text) /\ FitsKind(i, text)

\* The field of that name is the first one; so are the attributes it is checked for.
Fillable(name, text) ==
  LET i == FieldIndex(ir, name)
  IN  i # 0 /\ ~Attr[i].readonly /\ FitsMax(i, text) /\ FitsKind(i, text)

FillStatus(name, text) ==
  LET i == FieldIndex(ir, name)
  IN  CASE i = 0 -> "ARGUMENT"
        [] i # 0 /\ Attr[i].readonly -> "STATE"
        [] i # 0 /\ ~Attr[i].readonly /\ ~FitsMax(i, text) -> "RANGE"
        [] OTHER -> "ARGUMENT"

Fill(name, text) ==
  \/ Fillable(name, text) /\ Apply([type |-> "FORM_SET", name |-> name, new |-> text])
  \/ /\ ~Fillable(name, text)
     /\ status' = FillStatus(name, text)
     /\ UNCHANGED <<ir, undo, redo, undo_bytes>>

-----------------------------------------------------------------------------
(* The focus calls.                                                        *)

Focused == focus.at \in 1..Len(ir.fields)

NotFocused ==
  /\ ~Focused
  /\ status' = "STATE"
  /\ UNCHANGED <<ir, undo, redo, undo_bytes, focus>>

\* focus_move: the neighbour of a place, round the ends; from no place to either end.
Neighbour(at, delta, n) ==
  IF at = 0 THEN (IF delta > 0 THEN 1 ELSE n) ELSE ((at - 1 + delta + n) % n) + 1

Entered(d, i) ==
  [at |-> i, text |-> IF Attr[i].kind = "checkbox" THEN NoText ELSE d.fields[i].value]

\* The focus focus_move leaves; it stays where it is while there are no fields.
Moved(d, delta) ==
  IF d.fields = <<>> THEN focus ELSE Entered(d, Neighbour(focus.at, delta, Len(d.fields)))

FocusMove(delta) ==
  /\ focus' = Moved(ir, delta)
  /\ status' = IF ir.fields = <<>> THEN "STATE" ELSE "NONE"
  /\ UNCHANGED <<ir, undo, redo, undo_bytes>>

\* pc_form_focus_load, for a field of any type.
FocusLoad ==
  \/ NotFocused
  \/ /\ Focused
     /\ focus' = [focus EXCEPT !.text = ir.fields[focus.at].value]
     /\ status' = "NONE"
     /\ UNCHANGED <<ir, undo, redo, undo_bytes>>

Accepts(s) ==
  /\ Attr[focus.at].max > 0 => Len(focus.text) + 1 <= Attr[focus.at].max
  /\ Len(focus.text) + 1 <= Cap

\* pc_form_focus_type, for a field of any type.
FocusType(s) ==
  \/ NotFocused
  \/ /\ Focused
     /\ Accepts(s)
     /\ focus' = [focus EXCEPT !.text = Append(@, s)]
     /\ status' = "NONE"
     /\ UNCHANGED <<ir, undo, redo, undo_bytes>>
  \/ /\ Focused
     /\ ~Accepts(s)
     /\ status' = "LIMIT"
     /\ UNCHANGED <<ir, undo, redo, undo_bytes, focus>>

\* What a commit of the buffer does to the log.
CommitFill == Fill(ir.fields[focus.at].name, focus.text)

\* The buffer is read back from the focused field, whichever field was filled.
FocusCommit ==
  \/ NotFocused
  \/ /\ Focused
     /\ CommitFill
     /\ focus' = IF status' = "NONE"
                   THEN [focus EXCEPT !.text = ir'.fields[focus.at].value]
                   ELSE focus

\* Only the exact word counts as not checked.
TogglesTo(text) == IF text = <<Off>> THEN <<Yes>> ELSE <<Off>>

Toggle ==
  \/ NotFocused
  \/ /\ Focused
     /\ Attr[focus.at].kind = "checkbox"
     /\ LET f == ir.fields[focus.at] IN Fill(f.name, TogglesTo(f.value))
     /\ UNCHANGED focus
  \/ /\ Focused
     /\ Attr[focus.at].kind # "checkbox"
     /\ FocusType(Space)

\* pc_form_focus_announce: the four shapes, and none.
Announcement ==
  CASE ~Focused -> [shape |-> "none"]
    [] Focused /\ Attr[focus.at].kind = "checkbox" ->
         [shape |-> IF ir.fields[focus.at].value = <<Off>> THEN "not checked" ELSE "checked",
          at |-> focus.at]
    [] Focused /\ Attr[focus.at].kind # "checkbox" /\ focus.text = NoText ->
         [shape |-> "empty", at |-> focus.at]
    [] OTHER -> [shape |-> "value", at |-> focus.at, text |-> focus.text]

-----------------------------------------------------------------------------
(* The other calls on the same document.                                   *)

\* pc_form_flatten: the backend bakes and writes a new file, then the IR is told.
Flatten ==
  \/ /\ status' = "BACKEND"
     /\ UNCHANGED <<ir, undo, redo, undo_bytes, focus>>
  \/ Apply([type |-> "FORM_FLATTEN"]) /\ UNCHANGED focus

FInit == Init /\ focus = [at |-> 0, text |-> NoText]

\* pc_form_fill_field as the CLI calls it.
FillNamed(name, text) == Fill(name, text) /\ UNCHANGED focus

FNext ==
  \/ FocusMove(1)
  \/ FocusMove(-1)
  \/ FocusLoad
  \/ \E s \in Symbol : FocusType(s)
  \/ FocusCommit
  \/ Toggle
  \/ \E name \in FieldName, text \in FillText : FillNamed(name, text)
  \/ Flatten
  \/ Undo /\ UNCHANGED focus
  \/ Redo /\ UNCHANGED focus

FSpec == FInit /\ [][FNext]_fvars

-----------------------------------------------------------------------------

\* A value the document may hold in field i: the one it was opened with, or one that the
\* attributes of that very field allow.
Legal(i, text) ==
  \/ text = InitFields[i].value
  \/ ~Attr[i].readonly /\ FitsMax(i, text) /\ FitsKind(i, text)

\* A read-only field keeps its value, max_len bounds every value and a checkbox only holds
\* a word it knows, through fills, commits, toggles, undo, redo and flatten and wherever a
\* value waits in the log: fills are checked, but undo and redo write without a check, by
\* name, and two fields may share a name.
ValuesLegal ==
  /\ \A i \in 1..Len(ir.fields) : Legal(i, ir.fields[i].value)
  /\ \A c \in ToSet(undo) \cup ToSet(redo) :
       /\ c.type = "FORM_FLATTEN" =>
            \A i \in 1..Len(c.fields) : Legal(i, c.fields[i].value)
       /\ c.type = "FORM_SET" =>
            LET i == FieldIndex([fields |-> InitFields], c.name)
            IN  Legal(i, c.old) /\ Legal(i, c.new)

\* The form is whole or, flattened, empty: the focus index, kept across flatten and its
\* undo without another look, still means the same field when the fields come back.
FormWholeOrFlat ==
  \/ ir.fields = <<>>
  \/ /\ Len(ir.fields) = Len(InitFields)
     /\ \A i \in 1..Len(ir.fields) : ir.fields[i].name = InitFields[i].name

\* A commit or a toggle changes at most one value: that of the first field with the
\* focused field's name.  When the names are distinct it is the focused field.
Namesake(i) == FieldIndex(ir, ir.fields[i].name)

OneFieldWritten ==
  [][(FocusCommit \/ Toggle) /\ ir' # ir =>
       /\ Focused
       /\ \A i \in 1..Len(ir.fields) :
            i # Namesake(focus.at) => ir'.fields[i] = ir.fields[i]
       /\ Len(undo') = Len(undo) + 1]_fvars

=============================================================================
