----------------------------- MODULE MCTxnPersist -----------------------------
(* TxnPersist on a small instance: see MCTxnPersist.cfg. *)
EXTENDS TxnPersist

CONSTANTS a1, f1

f(name, value) == [name |-> name, value |-> value]

\* The form of the first session, and what pc_form_flatten makes of it.
MCFields == <<f(f1, 0)>>
MCFileForms == {MCFields, <<>>}

\* Rectangles 1 and 2 differ in the fourth decimal.
MCRound == [r \in {1, 2, 3} |-> IF r = 3 THEN 3 ELSE 2]

\* The redo side of one log put behind the undo side of another; more commands than the
\* budget written in the log.
MCForeignLogs ==
  {[undo |-> <<[type |-> "FORM_SET", name |-> f1, old |-> 0, new |-> 1]>>,
    redo |-> <<[type |-> "FORM_FLATTEN", fields |-> <<>>],
              [type |-> "FORM_FLATTEN", fields |-> <<>>]>>],
   [undo |-> [k \in 1..(MaxTiles + 1) |-> [type |-> "FORM_FLATTEN", fields |-> <<>>]],
    redo |-> <<>>]}

\* No action reads the status of the last call, and the properties read no more of the
\* saved IR than its rounded content.
Relevant ==
  <<ir, undo, redo, undo_bytes, file, kept.origin, RoundedContent(kept.ir), load, lost, origin>>
=============================================================================
