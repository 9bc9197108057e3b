----------------------------- MODULE TxnHistory -----------------------------
(***************************************************************************)
(* TxnLog with one history variable: hist[k] is the content the document   *)
(* had when k - 1 commands were on the undo stack, for every point the     *)
(* stacks can still reach.  The variable adds no behaviour; it says what   *)
(* the two stacks stand for, and it is what the refinement of EditHistory  *)
(* and the inductive invariant are stated with.                            *)
(***************************************************************************)
EXTENDS TxnContent

VARIABLE hist

hvars == <<ir, undo, redo, undo_bytes, status, hist>>

HInit == Init /\ hist = <<ContentOf(ir)>>

HNext ==
  \/ \E r \in Request :
       /\ ApplyLogged(r)
       /\ hist' = Append(SubSeq(hist, 1, Len(undo) + 1), ContentOf(ir'))
  \/ \E r \in Request : ApplyRefused(r) /\ UNCHANGED hist
  \/ \E r \in Request : ApplyOverBudget(r) /\ UNCHANGED hist
  \/ Undo /\ UNCHANGED hist
  \/ Redo /\ UNCHANGED hist

HSpec == HInit /\ [][HNext]_hvars

-----------------------------------------------------------------------------

\* Type correctness of the log and of the history.
TypeOK ==
  /\ ir \in Doc
  /\ undo \in Seq(Command)
  /\ redo \in Seq(Command)
  /\ undo_bytes \in Nat
  /\ status \in {"NONE", "ARGUMENT", "LIMIT", "STATE"}
  /\ hist \in Seq(Content)

\* No two annotations of the IR share an id.  pc_txn_apply checks this for a new
\* annotation, but undoing a DELETE and redoing an ADD insert without looking, so
\* it rests on the stacks being exactly what led to the present IR.
UniqueIds == IdsDistinct(ir)

\* Undo and redo never meet an IR they cannot reverse: neither "undo violated IR
\* invariant" nor "form field not found during undo/redo" is reachable, and with
\* them the paths that drop a popped command.
Reversible ==
  /\ undo # <<>> => CanBackward(ir, Last(undo))
  /\ redo # <<>> => CanForward(ir, Last(redo))

\* The ceilings hold for the undo stack although pc_txn_redo pushes onto it without
\* looking at them, because the commands waiting on the redo stack were counted
\* when they were applied; and the byte count is the size of the stack.
WithinBudget ==
  /\ MaxTiles > 0 => Len(undo) + Len(redo) <= MaxTiles
  /\ undo_bytes = CmdBytes * Len(undo)
  /\ MaxBytes > 0 => CmdBytes * (Len(undo) + Len(redo)) <= MaxBytes

\* R18.4: a command the budget refuses leaves the IR as it was.  It does not hold: the
\* command has been performed by then, and reversing a DELETE appends the annotation at the
\* end, so the order, and with it pc_doc_hash, is another.
LimitLeavesIrUnchanged == [][status' = "LIMIT" => ir' = ir]_hvars

\* The meaning of the two stacks: read from the oldest command of the undo stack to
\* the most recently undone one at the top of the redo stack and on to its bottom,
\* the commands lead from each recorded content to the next, and the present
\* content is the one recorded between the two stacks.
StacksTellHistory ==
  /\ Len(hist) = Len(undo) + Len(redo) + 1
  /\ ContentOf(ir) = hist[Len(undo) + 1]
  /\ \A k \in 1..Len(undo) : Links(undo[k], hist[k], hist[k + 1])
  /\ \A k \in 1..Len(redo) :
       Links(redo[k], hist[Len(hist) - k], hist[Len(hist) - k + 1])

-----------------------------------------------------------------------------

\* The log is an edit history: a logged command is one edit, undo and redo move
\* along the timeline and show exactly the content recorded there, and a command
\* that is refused, or reversed because the budget is exceeded, changes nothing a
\* reader of the document can see except the order of the annotations.
History == INSTANCE EditHistory
  WITH Content <- Content, Original <- [annots |-> {}, fields |-> InitFields],
       timeline <- hist, cursor <- Len(undo) + 1, present <- ContentOf(ir)

IsEditHistory == History!Spec

=============================================================================
