----------------------------- MODULE MCTxnHistory -----------------------------
(* TxnHistory on a small instance: see MCTxnHistory.cfg. *)
EXTENDS TxnHistory

CONSTANTS a1, a2, a3, bad, f1, f2

\* Two fields share a name: ir_form_field_find only ever reaches the first.
MCFields ==
  <<[name |-> f1, value |-> 0], [name |-> f2, value |-> 0], [name |-> f1, value |-> 1]>>

\* Valid ids are interchangeable: no property names one of them.
IdSymmetry == Permutations({a1, a2, a3})
=============================================================================
