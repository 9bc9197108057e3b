--------------------------- MODULE MCFormsKeyboard ---------------------------
(* FormsKeyboard on a small instance: see MCFormsKeyboard.cfg. *)
EXTENDS FormsKeyboard

CONSTANTS n1, n2, n3

f(name, value) == [name |-> name, value |-> value]
a(kind, max, readonly) == [kind |-> kind, max |-> max, readonly |-> readonly]

\* A text field of at most two symbols, a checkbox and a read-only text.
MCFields == <<f(n1, <<>>), f(n2, <<Off>>), f(n3, <<"c">>)>>
MCAttr == <<a("text", 2, FALSE), a("checkbox", 0, FALSE), a("text", 0, TRUE)>>

MCValue == BoundedSeq(Symbol \cup {Yes, Off}, Cap)

MCCharOf ==
  [k \in Key |-> CASE k \in {"Tab", "ShiftTab"} -> "tab"
                   [] k = "Space" -> Space
                   [] k = "Escape" -> "esc"
                   [] k \in PlainKey -> "c"]

\* No action reads the status of the last call.
WithoutStatus == <<ir, undo, redo, undo_bytes, focus, window, announced, unheard, before>>
=============================================================================
