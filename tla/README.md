# Formal models of Tyny PDF

TLA+ models of the C++ sources under `src/src/` and `src/include/pdfcore/`, the TLC
configurations that check them, and machine-checked proofs about them. Paths below are relative
to `src/src/` unless they begin with `src/`. `PROJECT.json` maps every definition to the lines it
models and lists the runs, the deliberate mistakes each property was seen to catch, the hazards
and the findings.

    tlc -workers 2 -config MCTxnHistory.cfg MCTxnHistory     # any run of the table below
    tlapm TxnHistoryProofs.tla                               # the proofs: any *Proofs, TxnLogLemmas

## 1. The system

| Component | State it keeps | Operations | Correct when |
|---|---|---|---|
| transaction log, `core/doc/transaction.cc` | document IR (annotations, form fields), undo and redo stacks, byte count | apply, undo, redo, free, hash | undo and redo restore recorded contents, never fail, respect the budget |
| log persistence, same file | JSON text of the log | `pc_txn_to_json`, `pc_txn_from_json` | rebuilding gives the saved stacks and content back, and stays safe on any document |
| forms, `core/forms/forms.cc` | focus index and typing buffer, over the IR | fill, move, type, load, commit, toggle, announce, flatten, FDF | no value breaks its field's rules; a commit writes one field |
| viewer, `app/viewer/` | active page, tile cache and map, bitmaps of the grid, caret, selection, focus, log | open, demand, draw, key, char, click, close | tiles shown are of the page, the ceiling holds, keys do what they say |
| tiles, `render/tiles`, `render/cachemap`, `core/budget` | LRU array, hash of tiles, ceilings | get, put, evict, insert, query | no tile is freed while it can be reached |
| application, `app/main.cc` | viewer and window | callbacks, announcement sync | what is announced is what is focused |
| benchmark, `app/bench/bench.cc` | phase, page, counters, samples | render callback, session | what is measured is complete, every frame whole, the session ends |
| window, `os/win32/window/window.cc` | queue, pending surrogate, size, scale, target bitmap, frame counters | `WindowProc`, message loop, render, resize | every input arrives once, a frame fits the window, the loop ends when asked to |
| UIA state, `os/win32/uia/` | announced text, page, zoom | set, update, read | one announcement, the current one |
| sidecar, `core/sidecar/` | `<document>.tynypdf.json`, temporary file | read, check staleness, write | the file is whole at all times, unknown keys survive, a lost record is not saved as a valid one |
| sidecar lock, `os/*/sidecar_lock.cc` | `<document>.tynypdf.lock` | try, release | (the SPEC only promises that a save refuses while it is fresh) |
| caret, text, selection, search, re-anchoring, `core/` | none | functions of a page's text | results in the text, on character boundaries |
| backends, `backends/`, and `core/doc/doc.cc` | engine handles | open, page, render, text, fields, save | what is taken is given back in order on every path |
| command line, `cli/` | none | render, forms list, fill, flatten, txn replay | the exit code tells the state of the files |
| JSON, `core/json/canonical.cc` | tree of values | parse, print, free | a text means one value, no node is lost |
| SHA-256, clipboard, DPI | none | digest, platform calls | |

How they interact. The program is single-threaded per process: the message loop calls
`WindowProc`, which calls the callbacks of `main.cc` (or of `bench.cc`), which call the viewer,
which calls the form model, which applies commands to the log, which mutates the IR. The focus
holds an *index* into an array that log commands replace, and commits by *name*. The viewer owns
a cache of tiles and a map of *pointers* into it; the bitmaps of a grid slot remember only the
generation of the tile they were made from. The log crosses sessions as a JSON file which does
not name its document. Several processes share a document's sidecar and lock through the file
system.

What is hard in it:

* sequences of legal calls: stacks that have to match the IR exactly because undo and redo do not
  validate; operations that mutate first and check afterwards; state held beside the IR;
* caches: three stores of the same tiles, of which calls that fail half-way update only some;
* sessions: a log replayed on another form, or written by another program;
* one key that arrives as two messages, and an announcement pushed by only one of the callbacks;
* a loop that waits for a message only its own last frame asks for, with graphics calls that fail;
* byte offsets that outlive the page they were made on;
* two processes and a file system that may stop anywhere, with calls that fail;
* clean-up: some forty paths out of the commands, some of them exceptions.

## 2. Modules

| Module | Models | Notes |
|---|---|---|
| `EditHistory` | what an undo log promises: a timeline and a cursor | abstract specification, no code |
| `TxnLog` | `transaction.cc`: IR primitives, `ir_apply`, `ir_reverse`, apply, undo, redo | one action per outcome of each call |
| `TxnContent` | `TxnLog`: what a content is and which commands lead from one to another | extends `TxnLog`; no state of its own |
| `TxnHistory` | the log plus the history variable `hist` | properties and the refinement of `EditHistory` |
| `TxnLogLemmas`, `TxnHistoryProofs` | | lemmas on the log; proofs |
| `TxnPersist` | `to_json` and `from_json` over sessions | extends `TxnContent`; each replayed command is a step |
| `TxnPersistProofs` | | proofs |
| `FormFocus` | `forms.cc` | extends `TxnLog`: every fill goes through `Apply` |
| `FormsKeyboard` | `window.cc`, `main.cc`, `viewer_on_key`, `viewer_on_char` | extends `FormFocus` |
| `FormFocusProofs` | | proofs about both |
| `SidecarStore` | reader, writer, staleness, lock, the file system | independent of the others |
| `SidecarProofs` | | proofs |
| `Strip` | what the viewer promises of its tiles | abstract specification, no code |
| `TileViewer` | open, demand, draw and close of `viewer.cc` over `tiles.cc`, `cachemap.cc`, `budget.cc`, `d2d_blit.cc` | refines `Strip` |
| `WindowLoop` | `window.cc`: messages, size, scale, target, frames | |
| `BenchSession` | `bench.cc` | composes `TileViewer` and `WindowLoop` |
| `ViewerProofs` | | proofs about the viewer and the benchmark |
| `Engine` | `mupdf_backend.cc`, `null_backend.cc`, `doc.cc`, what the form calls take | a function is a sequence of steps |
| `CanonicalJson` | the reader and `pc_json_free` of `canonical.cc` | a machine over tokens |
| `JsonMeaning` | | what a text of `CanonicalJson` means by the grammar of JSON; no code |
| `JsonPrinter` | the printer of `canonical.cc` | RECURSIVE, so for TLC only |
| `EngineUse` | `cli/main.cc`, `cli/txn.cc`, `viewer_on_click` | the commands over `Engine`; what the reader makes of a log is left open |
| `CommandRun` | `replay_command` and the reader it calls | composes `EngineUse` and `CanonicalJson` |
| `EngineProofs` | | proofs about `Engine`, `EngineUse`, the reader and its grammar, and `CommandRun` |
| `PageText` | `break.cc`, `caret.cc`, `fallback.cc`, `selection.cc`, `search.cc`, `annot.cc` | operators, no state |
| `CaretKeys` | `viewer_on_click`, the caret keys of `viewer_on_key` | over `PageText` |
| `CaretKeysProofs` | | proofs about both |

Operators under a comment that begins with "Fault:" are plausible mistakes in the definition
that follows them. No specification uses one; replacing the definition by it makes one run find
a property violated, which is how each property was shown to have teeth.

### Transaction log

`ir` holds the annotations and form fields in the order of their arrays; `undo` and `redo`
are the vectors with their back last; `status` is the code of the last call. A request keeps the
members its type uses, a logged command also what it overwrote (`Captured`). `AnnotInsert`
appends and `AnnotRemove` closes the gap, as `ir_annot_insert` and `ir_annot_remove` do: the
order of annotations is state, because `pc_doc_hash` reads it. `ApplyOverBudget` performs the
command and reverses it, in that order; `UndoLost` and `RedoLost` are the paths that have
already popped a command when the IR refuses. `ContentOf` forgets the order of annotations,
since undo does not restore it.

### Persistence

`Save` writes both stacks with rectangles rounded to three decimals (`Round`, a constant that
is idempotent); `Load` opens a document of any form in `FileForms` and replays. `origin`
remembers whether all commands come from this program and from sessions with one and the same
form, since that decides what may be expected: nothing in the file does. `ForeignLogs` are
logs another program wrote. `MaxSaved` is the 64 KiB buffer of `pc_txn_to_json`. A replay that is refused
(`ReplayFails`) frees the log and leaves in the document what the commands before did: the stack the
model still shows in phase "failed" is the record of them, and `RequestsSurvive` is about it too.

### Forms and keyboard

`focus` is `[at, text]`, `at = 0` standing for index -1. Attributes of a field never change and
are the constant `Attr`; a text is a sequence of symbols, each one character or one of the words
a checkbox knows. `Fill` is `pc_form_fill_field` with its validation and the log call;
`FocusCommit` reads the buffer back from the focused field, whichever field was written.
In `FormsKeyboard`, `posted` is the WM_CHAR a key-down was translated to (posted characters
are handled before the next key), `high` the pending surrogate, `announced` the text UIA
reads. `Post` is an input method that posts units no key stands for. `before` is history: the last
unit the window handled and the buffer it came to, so that `UnitsLand` can say where the second half
of a pair has to land. A character counts one against `max_len` and the buffer, whatever bytes it has.

### Sidecar

A name leads to an inode, an inode has a content; `flushed` are the inodes whose data is on the
disk; `possible` is what the target name may lead to after a power loss: the directory is never
flushed, so every earlier target stays possible until then. A process stops between two system
calls at any moment (`Crash`), or the machine does (`PowerLoss`, one outcome for all data that
was not flushed). `Name(p)`: `rand()` is not seeded, so the n-th temporary name is the same
in every process. `mixed` marks inodes that two writers had under one name at the same time.
The buffer holds `Room` pieces (8192 bytes in the code, whatever the size of the list), and
`Serialized` skips what does not fit, as `json_append_str` does, in the order of the writer: the
annotations, the members of the record, the unknown keys. `Readings` is what the reader makes of a
content. It looks for members by name and refuses nothing: of a cut or a mixed file (`Torn`) any
annotations, keys and parts of a record may be found, a number also cut short; keys beside
"unknown" (`Tops`) are never held; an edited annotation's "modified" comes first and hides the
document's. `Checks` are the verdicts of a staleness check, which passes over the page count, the
fingerprint and the time (0 then) that it cannot read of the document. So a lost record *can* read
as fresh, when neither the fingerprint nor the time can be read, and a partial one may have kept what
makes it pass.

A content is a set of annotations, a set of unknown keys and a record. Not seen at this grain: a
saved file is no JSON by the letter, because a comma follows the last member of "document"
(`writer.cc:134`), which this reader does not mind; an annotation list whose end was cut is taken as
text and written back; a number joined of two writers' digits may be larger than either. `seen`,
`forced` and `against` are history: the keys of the file a process read, whether staleness was
overridden, and the fingerprint the last check computed.

### Tile viewer

`viewer_demand` and `viewer_draw` work tile by tile: `call` is the call in progress with the
places left, `DemandNext` and `DrawNext` are its turns, and every call they make (page, render,
allocation, put, insert, bitmap, upload) has an action in which it fails, with what the code
does then. `cache`, `map` and `slots` are the three stores: a tile is the page it was rendered
from and the generation stamped into its payload, which is what `d2d_blit` compares. `frame` is
what the last draw left in each place. `orphans` are tiles that were cached and then refused by
the map (`viewer.cc:202-206`): a later demand finds them in the cache and never maps them.
`TurnFails` frees both stores and allocates neither (`viewer.cc:121-124`); the viewer stays
without stores until it is closed. `Strip` forgets all of that: a page, the places that are
ready, the frame.

### Window loop and benchmark

`at` is where `pc_window_run` stands: waiting (`get`), after a message (`pump`), rendering
(`frame`), in the callback, presenting, or returned. Posted messages are the queue, WM_PAINT is
`dirty`, sent messages (WM_SIZE, WM_DPICHANGED) arrive while the loop waits. `DpiChanged` is one
step: the WM_SIZE that `SetWindowPos` sends inside it is handled with the old scale, then the
scale is stored and the target is made once more. `Loses` is a graphics call that fails.
`BenchSession` joins the two on one thread: `step` is where `bench_render_cb` stands, `phase`,
`page`, `stepsLeft`, `prepared`, `settleLeft` and `recorded` are its counters, `ViewerWorks` lets
a demand or a draw take its next turn, and `BenchOpen` to `BenchExit` are `bench_main`.

### Engine, commands and JSON

A function of the engine is the sequence of its steps (`Get`, `Call`, `Drop`), each with the
steps that follow its failure; a function of the program is the sequence of its calls with its
own clean-up as the continuation. `todo` is what is left of the path taken, `live` what is held.
`Throws` is an exception caught by `run_guarded`: control leaves the function where it is thrown,
and what the function would have given back is `stranded`. `files` are the input and an output of
another name; `unnoticed` says that `fclose` (everywhere) or `fwrite` (`forms fill`) lost bytes
that nobody asked about. `txn replay` parses its log: in `EngineUse` that is one step, `Parsed`, with
either answer and with or without replaced members; `CommandRun` puts the reader of
`CanonicalJson` in its place. There a text is a sequence of tokens, the recursive descent is the
stack `open` of containers being read, `nodes` counts the values allocated and `lost` those that a
repeated key of an object overwrote. A value carries the number of nodes that `pc_json_free` gives
back with it. `JsonMeaning` says independently of the reader what a text means. A phrase is a part of
the text with its meaning: a value, or the rest of an array or object from one of its elements up to
its bracket. The phrases that begin at a token are made of those that begin later, so a recursive
function over the last tokens has them all. A *lax* text may lack what follows the outermost bracket
or a comma of the outermost list, as the reader allows.

### Page text and caret keys

The characters of a text stand for classes: letters that compose, capitals, letters of two bytes,
extending marks, bytes that are no UTF-8, line ends; positions are bytes. `Glues` is
`no_break_between` with the character that *started* the cluster, which is what the code passes.
In `CaretKeys`, `caretPage` and `anchorPage` remember in which text the caret and the anchor were
placed; the code does not. `viewer_on_key` frees the page before `pc_selection_extend` reads its
text (`viewer.cc:377` and 403): `Extended` lets any boxes become the selection, some of another
page's included, or a failure; or the program ends (`alive`). `Reanchored` compares the page with text
cut from that same page, as `annot.cc:228` does.

## 3. Runs

| Run | Checks | Shows | States |
|---|---|---|---|
| `txn_history` | `TypeOK` `UniqueIds` `Reversible` `WithinBudget` `StacksTellHistory` `IsEditHistory` | one session, every sequence of calls within the budget | 68 k |
| `txn_persist` | `SteadyLogsWork` `OwnLogsAreSafe` `SteadyReplayRestores` `RequestsSurvive` | sessions, changed forms, foreign logs | 411 k |
| `forms_focus` | `ValuesLegal` `FormWholeOrFlat` `OneFieldWritten` | every order of the form calls with undo, redo and flatten | 16 k |
| `forms_keyboard` | `QuietIsAnnounced` `UnitsLand` `TabMoves` | keys, characters and an input method's units in every order | 1.44 M |
| `sidecar_store` | `WholeUnlessShared` `NoLitter` `KeptWhenItFits` `UnforcedSaveMatches` | two processes, failing calls, checks that cannot read all of the document, a crash or a power loss | 1.06 M |
| `tile_viewer` | `VTypeOK` `NothingDangles` `CeilingKept` `AnswerHolds` `IsStrip` | every order of the viewer's calls, with calls that fail half-way | 292 k |
| `bench_session` | `FrameIsWhole` `BenchComplete` `TargetFits` `WheelsMeasured` `SessionEnds` | a session with lost frames, resizes and a user, to its end | 571 k |
| `engine_use` | `ReleasedAtExit` `NothingOutlives` `ExitTells` `ReadAsMeant` `NodesAccounted` | every path through every command, every short or slightly broken log | 356 k |
| `caret_keys` | `CaretOnStop` `SelectionSound` `SearchExact` `RunsWhole` `AnchorLeftmost` | clicks and caret keys on two pages, the text functions over every short text | 57 k |
| `txn_limit` | `LimitLeavesIrUnchanged` | violated | |
| `sidecar_torn` | `TargetWhole` | violated | |
| `sidecar_tops` | `KeysSurviveSave` | violated | |

What the violations say of the code, each against a sentence of the repository:

* R18.4 "leaving the IR unchanged": a DELETE refused for the budget comes back as the last
  annotation, so the document's hash changes. `LogIsEditHistory` proves that the order of
  the annotations is all that changes.
* R3.1: two savers share a temporary file. `WholeHolds` proves what does hold: without a
  shared name no stop, of a process or of the machine, leaves anything but a whole file.
* R4.1, and `src/adr/0007-sidecar-format.md:53` and `src/docs/sidecar.schema.json:5` with it: an
  unknown key is preserved on save. A key beside "annotations" and "document" is never looked for and
  is gone after the next save. `FittingKeys` proves what does hold: inside "unknown" and within the
  buffer every key is kept.

Several properties carry an exception. Each names something the code really does, and the
property says that nothing else goes wrong:

* `SteadyReplayRestores` speaks of content: R43.1 promises "the exact same annotation state", and
  a replay after an undone DELETE has another order (`transaction.cc:256`).
* `KeptWhenItFits`, `UnforcedSaveMatches` speak of what fits the buffer (`Fits`), and of files no other
  writer had under the same name. What does not fit is dropped by a save that succeeds
  (`writer.cc:48`), keys inside "unknown" first, against R4.1 once more. `UnforcedSaveMatches` leaves
  out a check that could not read the document's bytes: it has no fingerprint to compare with, and
  a lost or partial record then passes if the time is no newer or cannot be read either
  (`stale.cc:21-26`, 152).
* `AnswerHolds`: a tile the map refused is drawn no more until the page is turned, and a demand
  stopped by the ceiling answers NONE.
* `FrameIsWhole`, `SessionEnds`: the grid is warmed once, even if that fails (`bench.cc:168-172`);
  a callback that fails asks for no frame (`bench.cc:128`), and a window that has lost its target
  draws none, so the loop may wait for ever.
* `ReleasedAtExit`: an exception strands the page (`mupdf_backend.cc:161`, 203), the list of
  fields or a font; a value that cannot be copied strands its field's name (617-639).
* `ExitTells`: nobody looks at `fclose`, nor at `fwrite` in `forms fill` (`cli/main.cc:358`); and
  `--out` may name the input, although `forms.cc:491` says it is never modified in place.
* `ReadAsMeant`: a text cut off directly after the outermost bracket or after a comma of the outermost
  list is accepted as if it were complete, because the loops of `canonical.cc:609` and 660 stop at
  the end of the text without asking for the bracket (white space is left out of the model: after a comma
  *and a blank* the code does enter the loop, and refuses); `NodesAccounted`: a repeated key leaks
  the earlier value.
* `SelectionSound`: an anchor that was set on another page is used as it is, so the bytes may reach
  beyond this one.
* `SearchExact`: a hit that begins with a line end is counted and not filled in.

What the models showed without a run of their own:

* Nothing in `main.cc` demands a page, so the viewer refuses every key (`viewer.cc:319`), against
  `src/docs/a11y/forms.md`, step 2; the runs pass a page that was demanded. Tab is also typed into the
  field it lands on (`window.cc:735`), against step 4.
* Shift with an arrow does not move the caret, so a second arrow does not extend further, and Shift with
  Home or End drops an existing selection. Its boxes come from a page already freed, so nothing can be
  said of them, against R34.1, "updating the selection byte range and quads". `SelectionSound` is
  about what the rest of the code does: the byte range, and that `pc_selection_extend` gives exactly
  the boxes of a range when the page is held. The programs of `EngineUse` do not have this key.
* R44.1 has an annotation re-anchored "to the nearest matching text [...] when document text changes" and
  flagged as detached below a threshold. The old text is cut from the present page, so no place within
  the text is ever detached and nothing of a changed text is noticed; and of places that score
  alike the leftmost wins (`annot.cc:255`), not the nearest: in the text "a", line end, line end an
  annotation on the second line end comes out as [0, 2), without the place it was at. `AnchorLeftmost`
  states where it goes.
* The reader takes the first "modified" of a sidecar. With an edited annotation (`Edited`) that is a date
  in quotes, which reads as 0, and every document that has a time is newer, although "only a strictly
  newer document fires it" (`stale.cc:151`).
* The staleness of a document that cannot be opened is decided by its modification time alone.
* `CaretOnStop` measures by the clusters of `break.cc`; whether those are the ones R21.3 asks for is not a
  question it answers.

### Bounds

* `MCTxnHistory`: three valid ids and an invalid one, two rectangles, a form in which two fields
  share a name, two values; both ceilings set and reached at four commands. Four commands let a
  DELETE of the first of two annotations be undone, which is where the order and the ceilings
  interact. Ids are symmetric.
* `MCTxnPersist`: one id, three rectangles of which two round to one, one field and its
  flattened form, two commands on the stack and in the file. Two commands are one that changes
  the form and one that depends on it.
* `MCFormFocus`: a text field, a checkbox of the same name, a checkbox with an unusual spelling
  and a read-only text longer than its `max_len`; buffer of two symbols, two commands. Every
  rule of a field has a value on either side of it.
* `MCFormsKeyboard`: a text field, a checkbox, a read-only text; keys are not pressed once two
  commands are logged (`MaxLog`), which is why this run is told not to report deadlock.
* `MCSidecar.cfg`: two processes, three inodes (`Inodes`: the target, an earlier target, a temporary
  file), one write per process's life (`MaxDraws`), one stop (`MaxCrashes`). A restarted process
  draws the same first name again, so names collide within the bound. One annotation and a key inside
  "unknown", `Room` 5: with one of them everything fits, with both it does not. The document has two
  states told apart by their fingerprint, in one second and without a page count; a record has the
  fingerprint of either or none. After a stop only the first state and its records are followed
  (`FirstAfterStop`): a stop and a change of the document are each met, but not both in one run. Pages,
  times and excluded keys are left to the theorems.
* `MCSidecarTops.cfg`, `MCSidecarTorn.cfg` have what their counterexamples need, with room for
  everything: a key beside "unknown" (`Tops`), a shared name.
* The view `Seen` leaves out inodes nothing leads to, and of the history whatever cannot matter to a
  property: the fingerprint a check compared with matters only where a sidecar passes without having it.
* `MCTileViewer`: two pages, a grid of two by two and a place beyond its slots, ceilings 0 (none)
  and 2, a cache of 2 slots without a ceiling (64 in the code), three generations (`MaxGen`) and
  two failing calls (`MaxFaults`). Two tiles meet every ceiling, two pages make a stale bitmap
  possible, and a second failure may hit the clean-up or the retry of the first.
* `MCBenchSession`: two pages, a strip of one tile and a grid of two, one settling and one
  measured full frame, sizes 0 (no area), 1 and 2, two scales, no wheel or two, two lost graphics
  calls (`MaxLost`), one failing viewer call; frames recorded in a phase are counted up to
  `MaxRecorded`, one more than any property asks about. Two wheels are one under way and
  one waiting.
* `MCEngineUse`: a form of two fields; at most one failure in a run, because each failure leads to
  an exit; every log of up to four tokens, and nested logs with one token left out, exchanged,
  repeated or cut.
* `MCCaretKeys`: first pages of every text of up to two characters and a line end, and the six
  of three characters in which clusters interact; the second page is empty or has two words;
  `Window` 2 for the code's 64 bytes of re-anchoring. The view `WithoutBoxes` leaves out the boxes of a
  selection, which no action and no property reads.
* The `WithoutStatus` and `Relevant` views drop variables that no action reads.

Runs that may really stop say so in their configuration: a viewer is closed, a program exits,
`alive` is lost.

### Fairness

Only `BSpec` assumes fairness: `WF_vars(Program)`. The program is one thread that is never
blocked but in `GetMessage`, and there only while no message is there: a step of the program that
stays enabled is taken. Nothing is assumed of `Outside` (resizes, DPI changes, input, the user),
and none of the failing graphics calls is bound to happen or not to. Under this `SessionEnds`
says that the benchmark ends by itself, except after a failed callback or with a window that has
no target. Elsewhere no liveness is stated: all other calls are synchronous, and no process waits
for another.

## 4. Proofs

Eight modules hold theorems; each is about every value of the constants under the assumptions of
the modules it extends, and TLC evaluates all of these on the runs.

| Assumptions | Say | Because |
|---|---|---|
| `IdAssumption` `FormAssumption` `BudgetAssumption` | valid ids are ids, a form is a sequence of fields, a command has bytes | types; `CmdBytes` is a `sizeof` |
| `LogsAssumption` `FormsAssumption` `RoundAssumption` | a log is two sequences of commands of the five types; rounding twice is rounding once | `command_from_json` refuses others; `%.3f` |
| `AttrAssumption` `CapAssumption` `TextAssumption` `CharAssumption` `KeyAssumption` | attributes for each field, the buffer has a size, texts are sequences, a key is translated to a whole character, a plain key is none of the form's keys | types; halves come from an input method alone; `PlainKey` are the keys `viewer_on_key` ignores |
| `StoreAssumption` `ContentAssumption` | finitely many annotations and keys, of which some are edited, beside "unknown" or excluded; what lies there at first is a sidecar; no document has the empty fingerprint; pages and times are numbers | types; what the reader returns for a missing member is "" and 0 |
| `PlacesAssumption` `RegionsAssumption` `NumbersAssumption` | finitely many places, regions are sequences of them | types |
| `SizesAssumption` `BenchAssumption` `GridAssumption` | the full region lies in the grid, the grid is smaller than the ceiling | 16 x 12 slots (`d2d_blit.h:18-19`), 256 tiles (`bench.cc:329`) |
| `WindowAssumption` `TextsAssumption` | texts and queries are sequences of characters, fonts sets of them | types |
| `FieldsAssumption` | each copied name and value is an allocation of its own | `malloc` |
| `StringsAssumption` `MarksAssumption` `LogTextsAssumption` | no two tokens stand for one string; no scalar is a bracket, colon or comma, and none is named "" or "end"; logs are sequences of tokens | `std::map` has a key once; a token is a mark or a scalar; the two names stand for no key and the end of the text |

| Module | Theorem | Statement |
|---|---|---|
| `TxnHistoryProofs` | `LogInvariant` | `LogInv`, the inductive invariant, always holds |
| | `TypeCorrect` `IdsStayUnique` `AlwaysReversible` `BudgetHolds` `StacksAreHistory` | `TypeOK`, `UniqueIds`, `Reversible`, `WithinBudget`, `StacksTellHistory` |
| | `LogIsEditHistory` | `HSpec => IsEditHistory`: the log implements the abstract history |
| `TxnPersistProofs` | `LogIsSound` | `LogInv`: types, bytes, and how far a replay has come |
| | `LogPersists` | `PersistInv`, the whole inductive invariant |
| | `LogRequestsSurvive` `OwnLogsSafe` | `RequestsSurvive`, `OwnLogsAreSafe` |
| | `SteadyLogs` `SteadyLogsRestore` | `SteadyLogsWork`, `SteadyReplayRestores` |
| `FormFocusProofs` | `FormInvariant` | `FInv`, the inductive invariant of the form calls |
| | `LegalAlways` `WholeOrFlatAlways` `WritesOneField` | `ValuesLegal`, `FormWholeOrFlat`, `OneFieldWritten` |
| | `KeysKeepTheForm` | `KInv`, the inductive invariant of the keyboard path |
| | `QuietAnnounced` `EveryUnitLands` `TabAlwaysMoves` | `QuietIsAnnounced`, `UnitsLand`, `TabMoves` |
| | `LegalAtTheKeyboard` | `ValuesLegal` once more, for keys and characters |
| `SidecarProofs` | `InvHolds` | `Inv`, the inductive invariant |
| | `ReadHolds` | `ReadKept`: what a process read and checked it keeps until it has written |
| | `WholeHolds` `NoneLitters` | `WholeUnlessShared`, `NoLitter` |
| | `UnforcedMatches` `FittingKeys` | `UnforcedSaveMatches`, `KeptWhenItFits`, for a buffer of any size |
| `ViewerProofs` | `InvHolds` | `Inv`, the inductive invariant of the viewer |
| | `TypeCorrect` `NoneDangles` `CeilingHolds` `AnswersHold` | `VTypeOK`, `NothingDangles`, `CeilingKept`, `AnswerHolds` |
| | `ViewerIsStrip` | `VSpec => IsStrip`: the stores implement the abstract strip |
| | `CountersAgree` | `BenchInv`, the inductive invariant of the benchmark |
| | `RecordsAll` `TargetAlwaysFits` `EveryWheelMeasured` | `BenchComplete`, `TargetFits`, `WheelsMeasured` |
| | `ViewerInside` | `BSpec => VSpec`: the benchmark uses the viewer as `TileViewer` specifies |
| | `ViewerSafeInside` | so that `NothingDangles` and `CeilingKept` hold in it too |
| | `FramesAreWhole` | `FrameIsWhole` |
| `CaretKeysProofs` | `CaretStays` `SelectionsSound` | `CaretOnStop`, `SelectionSound` |
| | `SearchFinds` `RunsAreWhole` `AnchorsLeftmost` | `SearchExact`, `RunsWhole`, `AnchorLeftmost` |
| `EngineProofs` | `AllIsReleased` `NothingIsOutlived` `ExitIsTrue` | `ReleasedAtExit`, `NothingOutlives`, `ExitTells` of `EngineUse!Spec` |
| | `ReaderCounts` `NodesHold` | `JsonInv`, the inductive invariant of the reader; `NodesAccounted` |
| | `ReadsAsMeant` | `ReadAsMeant`: the reader against the grammar, for every text |
| | `RunsAreRuns` `RunsAreSafe` | `RSpec => Spec`; so the three properties hold of `CommandRun!RSpec` |

*The log.* None of `UniqueIds`, `Reversible` and `WithinBudget` on the undo stack is inductive:
whether undo may insert an id depends on what is on the stack, and that on how the document came
to be. `LogInv` therefore says what the two stacks *mean*: `hist` is a list of contents, each
command leads from one to the next (`Links`), and the document shows the one between the stacks.
`TxnLogLemmas` has the lemmas on sequences and on the IR primitives (`AnnotIndexFinds`,
`RemoveContent`, `SetValueContent`, ...); the content before and after a command determines that
it can be reversed and what comes of it (`ForwardLinks`, `BackwardLinks`); one lemma per action
proves the invariant and the step of `EditHistory` at once; the theorems follow by temporal
reasoning. `WithinBudget` counts both stacks, because redo pushes without asking.

*Persistence.* There is no history here to compare with: a file may be saved, rounded and replayed
on a form that has changed. `PersistInv` says instead that a list of contents *exists* along which
the commands lead, in the session and in the file, and that the two lists meet at the present
document. It has three layers. `LogInv` holds of any log, foreign ones included: the bytes counted
are those of the undo stack and of what could not be reversed, and a replay has done a prefix of what
it was given. `OwnInv` holds of this program's logs: paths of *annotations* only, because the form may
differ between sessions and a redo command is loaded without being tried; that is enough for
unique ids and the ceilings. `SteadyInv` adds the fields, for logs recorded with one form: then every
command can be redone, those loaded unseen too. Rounding maps a path to a path.

*The forms.* Undo writes values without validation, so `ValuesLegal` needs to know what is on the
stacks. `FInv` says that every command there is `Harmless`: what it would write, in either
direction, is legal for the field that carries its name *first*, or it is a flatten whose snapshot
is a legal form. That is enough because every lookup goes by the first field of a name. On the
keyboard path there is no flatten, so `KInv` can say that the fields are the form's own, and the
focus on one of them or nowhere; `Heard` is what the announcement adds: while no key is down, no
message waits, and what was announced is what the focused field says. `Waits` says that the window
keeps a first half exactly when the last unit was one, and that the buffer is still the one it came to
while nothing else waits: a key pressed in between posts a character of its own, which ends the
wait before a second half can come. `UnitsLand` is a step from there.

*The sidecar.* Whether the target is whole depends on what lies under the temporary name at the
moment of the rename. `Inv` follows each writer from stage to stage: what its own file holds, that
it is flushed before it is renamed, that a name leads to its own file or to a shared one
(`OwnFiles`, `Shared`), and that every target a power loss may bring back was whole (`Contents`).
`ReadKept` relates memory to what was read: the keys a process holds are those it saw, a sidecar that
is not stale has the fingerprint of its check, and between the start of a write and its rename neither
changes. With `Inv`, which says that what an unshared file holds is what its writer serialized
(`RenamePublishes`), both properties of a save follow, for what fits is serialized as it is.

*The tiles.* `Inv` adds to the types and `NothingDangles` what each stage of the viewer's life and
of a call allows (`Phases`), and that every cached tile is of the active page and the current
generation, as is every bitmap that carries this generation (`Current`). `AnswerInv` adds to
it what the demand in progress has achieved for the places behind it. `ViewerIsStrip`
maps each action to a step of `Strip` or none.

*The benchmark.* `BenchInv` relates three counts kept by three parts: frames the window counts,
callbacks that succeeded (`Progress`, read off the callback's counters) and frames recorded. The
window never counts more than the callback (`Agreed`), so the budget it was given cannot run out
early. `WheelInv` says that of the wheels asked for, each is still to be posted, in the queue,
stamped or measured, and never two of them are under way. `FrameInv` builds on the viewer's
`Inv`, `CeilingKept` and `AnswerInv`, which hold inside the benchmark because `BSpec => VSpec`: what a
callback demanded and drew so far (`Demands`, `Draws`), and that a region once warmed stays warm
(`Warm`). This is where the size of the grid matters: what is mapped never reaches the ceiling
(`Stock`), so a demand that answers NONE has left out nothing but lost tiles.

*Texts.* `PageText` computes by recursive functions over positions. The library's induction rules
take an operator, which the provers cannot instantiate; but induction over a *set* needs none: a
set of numbers that has the first of a range, and with each number the next, has them all
(`Climb`, from the library's well-founded orderings). A recursive function is then shown to exist,
to have its type and to satisfy its equation by climbing over the positions for which it does. `CaretInv`
says that the caret is at a boundary of the page it was *placed* in, and `SelectInv` that the anchor
and the selection lie in their pages. What `pc_selection_extend` selects of a page that is held, the
search, the runs and re-anchoring are about any text at all. No place scores higher than the old one,
and the leftmost of those that score as high wins.

*The engine.* What holds at a step of a command depends on all the steps still to come, and they
differ for each of some forty failures. `EngineProofs` therefore follows a *path* by *marks*: what
is held before each step and how far the output is. Each step is checked against its two marks
alone (`Path`), and where one path ends at the mark at which another begins they join
(`PathJoins`), so that every function of the engine is looked at once, for all its callers, and
for any clean-up its caller passes to it (`Leads`). A failing step leads to a path back that gives
up just what is left (`Backs`), an exception to one that leaves what it stranded (`Strands`).
`EngineInv` says that what is left of the program is such a path; `EveryCommandEnds` starts it. A form
of any size is listed by a recursive function over its fields, followed by `Climb` again. The theorems are about
`EngineUse!Spec`, which leaves open what the reader makes of a log; a step of `CommandRun` is one
of `EngineUse` or leaves a command's variables alone (`RunsAreRuns`).

*The reader of JSON.* `JsonInv` says what every call in progress has: a list or a map that carries
the number of its nodes, and the key whose value it waits for, except that the innermost may be at
the head of its loop. The nodes allocated are those of the calls, of the value being returned and
of the lost ones. That a node is lost only by a repeated key needs where the keys were read:
each key of a map stands in the text as the key of a member, before the one read last
(`KeysBefore`). The counts are sums over sequences, `Total`, a recursive function; what one number
more or one number changed does to a sum is again shown by `Climb`.

*The reader and the grammar.* `GrammarInv` compares the two while the descent is under way. For some
list `b` of tokens, one for each call in progress, the value that call is to read begins there, and
each call *awaits* the next one's value: whatever the grammar makes of the text from `b[n]` on, it makes
of what it reads from `b[n + 1]` on and of what stands behind that (`Awaits`, `Chain`, `Follows`). At the
head of a loop the innermost call holds the elements read so far, and the grammar's rest from here
completes them (`Loops`). Elsewhere the innermost value is known exactly, to be one or none (`Found`), so
every text has one meaning at most. The step of each action needs three facts of the grammar, what a
value, a rest and the end of the text are made of (`ValueAt`, `RestAt`, `ReadsEnd`). They follow from
`Grammar`: what begins at a token is settled once the recursive function has come to it (`Climb`). That
the lax texts differ from JSON only at their end is the lemma `LaxIs`.

What stays with TLC, and why:

* That what the printer writes is read back. `JsonPrinter` is a RECURSIVE operator over trees, which
  TLAPS cannot take. `ReadsAsMeant` leaves only that the printed text means the printed value:
  `PrintedMeans`, an assumption of `MCEngineUse` that TLC evaluates for the value of every log of the
  run.
* `SessionEnds` is liveness under fairness.
* The three violated properties, by their nature.

## 5. Not modelled

* `render/tiles` eviction and replacement: the budget it asks is always null (`tiles.cc:122`) and
  the viewer puts only what it has just missed; `query_rect` of the map has no caller.
* `os/win32/swapchain/swapchain.cc`: a second implementation that only its test calls; `dpi.cc`:
  two stateless platform calls; the clipboard: one call without state.
* The UI Automation provider (`uia.cc`) answers queries about the state that `FormsKeyboard` has;
  its COM plumbing and the page announcement are left out.
* SHA-256, the PNG encoding, quads and floating-point geometry, argument syntax, face coverage,
  the text of FDF (its import is not implemented), `sidecar gc` (an external script), the spelling
  of JSON strings and numbers.
* Null-argument checks, truncation of names and values at their buffers, unknown keys of the log;
  allocation failure outside `Engine` and `TileViewer`.
* The statistics the benchmark writes, and pixels everywhere.

`PROJECT.json` lists every component with its status, and the hazards no property covers with
the reason.

## 6. Plan

1. *JSON*: the printer as a recursive function over values of bounded depth, so that `PrintedMeans`
   can be proved for every value.
2. *Lock*: what a lock that the writer took would guarantee, against what the present one does;
   this needs a promise in the SPEC first.
3. *Two viewers*: `main.cc` with a page demanded, composing `TileViewer`, `FormsKeyboard` and
   `CaretKeys` once the application draws pages.
