----------------------------- MODULE MCFormFocus -----------------------------
(* FormFocus on a small instance: see MCFormFocus.cfg. *)
EXTENDS FormFocus

CONSTANTS n1, n2, n3

f(name, value) == [name |-> name, value |-> value]
a(kind, max, readonly) == [kind |-> kind, max |-> max, readonly |-> readonly]

\* A text field of at most one symbol, a checkbox of the same name, a checkbox that is not
\* checked, and a read-only text longer than its max_len.
MCFields == <<f(n1, <<>>), f(n1, <<Off>>), f(n2, <<LowerOff>>), f(n3, <<"c", "c">>)>>
MCAttr ==
  <<a("text", 1, FALSE), a("checkbox", 0, FALSE), a("checkbox", 0, FALSE), a("text", 1, TRUE)>>

\* Every text that fits the buffer.
MCValue == BoundedSeq(Symbol \cup {Yes, Off, LowerYes, LowerOff}, Cap)
MCFillText == {<<"c">>, <<LowerYes>>}

\* No action reads the status of the last call.
WithoutStatus == <<ir, undo, redo, undo_bytes, focus>>
=============================================================================
