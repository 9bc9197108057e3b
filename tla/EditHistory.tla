----------------------------- MODULE EditHistory -----------------------------
(***************************************************************************)
(* What an undo/redo log promises its user (R18.3, R41.3, R48.3), with no  *)
(* commands, budgets or byte counts: a timeline of document contents and a *)
(* cursor on it.  An edit forgets what was ahead of the cursor and adds one *)
(* content; undo and redo move the cursor, and what the user sees is always *)
(* the content under the cursor.                                           *)
(***************************************************************************)
EXTENDS Naturals, Sequences

CONSTANTS
  Content,      \* document contents
  Original      \* the content the history starts from

VARIABLES timeline, cursor, present

vars == <<timeline, cursor, present>>

Init ==
  /\ timeline = <<Original>>
  /\ cursor = 1
  /\ present = Original

Edit ==
  /\ present' \in Content
  /\ timeline' = Append(SubSeq(timeline, 1, cursor), present')
  /\ cursor' = cursor + 1

MoveBack ==
  /\ cursor > 1
  /\ cursor' = cursor - 1
  /\ present' = timeline[cursor']
  /\ UNCHANGED timeline

MoveAhead ==
  /\ cursor < Len(timeline)
  /\ cursor' = cursor + 1
  /\ present' = timeline[cursor']
  /\ UNCHANGED timeline

Next == Edit \/ MoveBack \/ MoveAhead

Spec == Init /\ [][Next]_vars
=============================================================================
