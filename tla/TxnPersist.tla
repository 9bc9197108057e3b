----------------------------- MODULE TxnPersist -----------------------------
(***************************************************************************)
(* A transaction log over several sessions: pc_txn_to_json saves the two   *)
(* stacks, a later session opens a document and pc_txn_from_json rebuilds  *)
(* the log on it by applying the undo commands one by one and loading the  *)
(* redo commands as they are.  Nothing in the file says which document it  *)
(* belongs to: the form of the document may differ from the one the log    *)
(* was recorded on (pc_form_flatten, for one, writes a file without any),  *)
(* and another program may have written the log.                           *)
(*                                                                         *)
(* pc_txn_from_json is one synchronous call; here each command it applies  *)
(* is a step, and nothing else happens until it returns.                   *)
(***************************************************************************)
EXTENDS TxnContent

CONSTANTS
  FileForms,    \* the forms a document opened later may have
  ForeignLogs,  \* logs another program wrote
  MaxSaved,     \* commands that fit the 64 KiB buffer of pc_txn_to_json
  Round         \* what three decimals leave of a rectangle

ASSUME RoundAssumption ==
  /\ Round \in [Rect -> Rect]
  /\ \A r \in Rect : Round[Round[r]] = Round[r]
ASSUME FormsAssumption == FileForms \subseteq Seq(Field)
\* command_from_json yields a command of one of the five types, or fails.
ASSUME LogsAssumption == ForeignLogs \subseteq [undo : Seq(Command), redo : Seq(Command)]

VARIABLES
  file,     \* the log on disk: [undo, redo]
  loading,  \* the log pc_txn_from_json is rebuilding, EmptyLog when it is not running
  todo,     \* the undo commands it has not applied yet
  phase,    \* "live": a session; "loading": in pc_txn_from_json; "failed": it failed
  lost,     \* commands this session popped from undo and could not reverse: their
            \* bytes stay counted
  origin,   \* of this session's commands: whether they all come from this program, and
            \* the form every session that made them opened, {} if they differ
  kept      \* the origin of the session that wrote file, and its IR then

disk == <<file, kept>>
load == <<loading, todo, phase>>
pvars == <<vars, disk, load, lost, origin>>

EmptyLog == [undo |-> <<>>, redo |-> <<>>]

-----------------------------------------------------------------------------

Rounded(c) ==
  CASE c.type = "ADD_ANNOT" -> [c EXCEPT !.after = Round[@]]
    [] c.type = "MOVE" -> [c EXCEPT !.before = Round[@], !.after = Round[@]]
    [] c.type = "DELETE" -> [c EXCEPT !.before = Round[@]]
    [] c.type \in {"FORM_SET", "FORM_FLATTEN"} -> c

\* Fault: a stack is written from its top.
WrittenTopFirst(cmds) == [k \in 1..Len(cmds) |-> Rounded(cmds[Len(cmds) + 1 - k])]

\* command_to_json for each command of a stack.
Written(cmds) == [k \in 1..Len(cmds) |-> Rounded(cmds[k])]

\* The content a saved log stands for: rounded, the annotations in no order.
RoundedContent(d) ==
  [annots |-> {[id |-> a.id, rect |-> Round[a.rect]] : a \in ToSet(d.annots)},
   fields |-> d.fields]

\* Fault: a MOVE is asked for with its old rectangle.
AsRequestBefore(c) ==
  CASE c.type = "ADD_ANNOT" -> [type |-> c.type, id |-> c.id, after |-> c.after]
    [] c.type = "MOVE" -> [type |-> c.type, id |-> c.id, after |-> c.before]
    [] c.type = "DELETE" -> [type |-> "DELETE", id |-> c.id]
    [] c.type = "FORM_SET" -> [type |-> "FORM_SET", name |-> c.name, new |-> c.new]
    [] c.type = "FORM_FLATTEN" -> [type |-> "FORM_FLATTEN"]

\* The pc_command apply_undo_commands builds from a command it read.
AsRequest(c) ==
  CASE c.type \in {"ADD_ANNOT", "MOVE"} -> [type |-> c.type, id |-> c.id, after |-> c.after]
    [] c.type = "DELETE" -> [type |-> "DELETE", id |-> c.id]
    [] c.type = "FORM_SET" -> [type |-> "FORM_SET", name |-> c.name, new |-> c.new]
    [] c.type = "FORM_FLATTEN" -> [type |-> "FORM_FLATTEN"]

\* Fault: the snapshot of a flatten is that of the document opened now.
RestoredAnew(c) == Captured(ir, AsRequest(c))

\* What is on the undo stack afterwards: what pc_txn_apply captured, except that the
\* snapshot of a flatten is the one that was read.
Restored(c) == IF c.type = "FORM_FLATTEN" THEN c ELSE Captured(ir, AsRequest(c))

-----------------------------------------------------------------------------

PInit ==
  /\ Init
  /\ file = EmptyLog
  /\ loading = EmptyLog
  /\ todo = <<>>
  /\ phase = "live"
  /\ lost = 0
  /\ origin = [own |-> TRUE, form |-> {InitFields}]
  /\ kept = [origin |-> origin, ir |-> ir]

\* A call on the log within a session.
Call ==
  /\ phase = "live"
  /\ \/ \E r \in Request : Apply(r) /\ UNCHANGED lost
     \/ (UndoEmpty \/ UndoDone \/ Redo) /\ UNCHANGED lost
     \/ UndoLost /\ lost' = lost + 1
  /\ UNCHANGED <<disk, load, origin>>

Save ==
  /\ phase = "live"
  /\ Len(undo) + Len(redo) <= MaxSaved
  /\ file' = [undo |-> Written(undo), redo |-> Written(redo)]
  /\ kept' = [origin |-> origin, ir |-> ir]
  /\ status' = "NONE"
  /\ UNCHANGED <<ir, undo, redo, undo_bytes, load, lost, origin>>

SaveTooLarge ==
  /\ phase = "live"
  /\ Len(undo) + Len(redo) > MaxSaved
  /\ status' = "MEMORY"
  /\ UNCHANGED <<ir, undo, redo, undo_bytes, disk, load, lost, origin>>

\* Close the document and open one with this form: pc_doc_open gives no annotations,
\* pc_txn_create an empty log.
Open(form) ==
  /\ phase # "loading"
  /\ ir' = [annots |-> <<>>, fields |-> form]
  /\ undo' = <<>>
  /\ redo' = <<>>
  /\ undo_bytes' = 0
  /\ status' = "NONE"
  /\ lost' = 0
  /\ UNCHANGED disk

\* viewer_open and the form commands of the CLI never look for a log.
OpenNew(form) ==
  /\ Open(form)
  /\ phase' = "live"
  /\ origin' = [own |-> TRUE, form |-> {form}]
  /\ UNCHANGED <<loading, todo>>

\* pc_txn_from_json starts on the document just opened.
Load(form, log) ==
  /\ Open(form)
  /\ loading' = log
  /\ todo' = log.undo
  /\ phase' = "loading"

LoadOwn(form) ==
  /\ Load(form, file)
  /\ origin' = [own |-> kept.origin.own, form |-> kept.origin.form \cap {form}]

LoadForeign(form, log) ==
  /\ Load(form, log)
  /\ origin' = [own |-> FALSE, form |-> {}]

\* One turn of the loop in apply_undo_commands.
Replay ==
  /\ phase = "loading"
  /\ todo # <<>>
  /\ LET c == Head(todo)
         r == AsRequest(c)
     IN  /\ Applicable(ir, r)
         /\ ~OverBudget
         /\ ir' = Forward(ir, Captured(ir, r))
         /\ undo' = Append(undo, Restored(c))
  /\ undo_bytes' = undo_bytes + CmdBytes
  /\ todo' = Tail(todo)
  /\ status' = "NONE"
  /\ UNCHANGED <<redo, loading, phase, disk, lost, origin>>

\* pc_txn_apply refuses: the log is freed, the document keeps what was applied.
ReplayFails ==
  /\ phase = "loading"
  /\ todo # <<>>
  /\ ApplyRefused(AsRequest(Head(todo))) \/ ApplyOverBudget(AsRequest(Head(todo)))
  /\ loading' = EmptyLog
  /\ todo' = <<>>
  /\ phase' = "failed"
  /\ UNCHANGED <<disk, lost, origin>>

\* load_redo_commands: the redo side is taken over without a look at the document.
ReplayEnds ==
  /\ phase = "loading"
  /\ todo = <<>>
  /\ redo' = loading.redo
  /\ loading' = EmptyLog
  /\ phase' = "live"
  /\ status' = "NONE"
  /\ UNCHANGED <<ir, undo, undo_bytes, todo, disk, lost, origin>>

PNext ==
  \/ Call
  \/ Save
  \/ SaveTooLarge
  \/ \E form \in FileForms : OpenNew(form) \/ LoadOwn(form)
  \/ \E form \in FileForms, log \in ForeignLogs : LoadForeign(form, log)
  \/ Replay
  \/ ReplayFails
  \/ ReplayEnds

PSpec == PInit /\ [][PNext]_pvars

-----------------------------------------------------------------------------

\* Every session that had a part in this one's commands opened the same form.
Steady == origin.form # {}

\* As long as the same form is opened, a saved log can be rebuilt, and afterwards every
\* undo and redo works, the redo commands that were loaded unseen included.
SteadyLogsWork ==
  Steady =>
    /\ phase # "failed"
    /\ lost = 0
    /\ phase = "live" =>
         /\ undo # <<>> => CanBackward(ir, Last(undo))
         /\ redo # <<>> => CanForward(ir, Last(redo))

\* And rebuilding gives back both stacks and the content the document had when the log
\* was saved, up to the rounding of rectangles and the order of the annotations: the
\* overwritten values are captured again and come out as they were saved.
SteadyReplayRestores ==
  [][ReplayEnds /\ Steady =>
       /\ undo' = file.undo
       /\ redo' = file.redo
       /\ RoundedContent(ir') = RoundedContent(kept.ir)]_pvars

\* Whatever the form, what a replay has applied asks for the same changes as the first
\* commands of the log, and its flattens restore the fields they removed then, not those
\* of this document: all of the log if it can be rebuilt, and if it cannot, what the
\* document keeps are the commands before the one that was refused, none skipped.
RequestsSurvive ==
  [][ReplayEnds \/ ReplayFails =>
       /\ Len(undo') = Len(loading.undo) - Len(todo)
       /\ ReplayEnds => Len(undo') = Len(loading.undo)
       /\ ReplayFails => Head(todo) = loading.undo[Len(undo') + 1]
       /\ \A k \in 1..Len(undo') :
            /\ AsRequest(undo'[k]) = AsRequest(loading.undo[k])
            /\ undo'[k].type = "FORM_FLATTEN" => undo'[k] = loading.undo[k]]_pvars

\* Logs of this program keep the invariants of a session whatever forms they are
\* rebuilt on: ids stay unique and the ceilings hold, although redo commands are loaded
\* without the check for a duplicate id and pushed without the check of the ceilings.
OwnLogsAreSafe ==
  origin.own =>
    /\ IdsDistinct(ir)
    /\ phase = "live" =>
         /\ MaxTiles > 0 => Len(undo) + Len(redo) <= MaxTiles
         /\ MaxBytes > 0 => CmdBytes * (Len(undo) + Len(redo)) <= MaxBytes

=============================================================================
