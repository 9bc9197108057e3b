----------------------------- MODULE MCCaretKeys ----------------------------
(* A first page of every text of up to two characters, and some of three, and *)
(* a line's end; a second one that is empty or has two words.                 *)
EXTENDS CaretKeys

Characters == {"a", "mark", "~", "-", "LF"}
UpTo(n) == UNION {[1 .. k -> Characters] : k \in 0 .. n}
Three == {<<"a", "mark", "-">>, <<"~", "a", "a">>, <<"CR", "LF", "a">>,
          <<"i", "-", "i">>, <<"a", "bad">>, <<"a", "A", "a">>}
FirstC == {Append(t, "LF") : t \in UpTo(2) \cup Three}
OtherC == {<<>>, <<"A", " ", "i", "LF">>}
QueriesC == {<<>>, <<"a">>, <<"a", "a">>, <<"LF">>}
FontsC == {<<{"a", "i", "LF"}, {"a", "A", " ", "-", "~", "LF", "CR"}>>, <<{"a"}>>, <<>>}

\* No action reads the boxes of a selection, nor the bytes of one that is dropped.
WithoutBoxes ==
  <<text, caretPos, hasCaret, anchor, alive, caretPage, anchorPage,
    IF hasSelection THEN <<selection.page, selection.from, selection.to>> ELSE <<>>>>
=============================================================================
