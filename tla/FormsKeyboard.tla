---------------------------- MODULE FormsKeyboard ----------------------------
(***************************************************************************)
(* The keyboard path of a form, from the message loop down: WindowProc of  *)
(* src/os/win32/window/window.cc, the callbacks of src/app/main.cc, the    *)
(* viewer's handlers and, below them, FormFocus.  The loop translates a    *)
(* key-down into a WM_CHAR, which it handles before the next key; a key    *)
(* callback ends by pushing the announcement of the focused field into the *)
(* state that UI Automation reads, a character callback does not.          *)
(*                                                                         *)
(* A character counts one against max_len and the buffer, whatever its     *)
(* bytes are.  Left out: the caret keys, which leave the form alone, and   *)
(* undo, which no key is bound to.                                         *)
(***************************************************************************)
EXTENDS FormFocus

CONSTANTS
  PlainKey,     \* the keys that type a symbol and mean nothing else
  CharOf,       \* the unit TranslateMessage posts for each key
  High, Low,    \* the units of a surrogate pair
  Astral,       \* the symbol the pair stands for
  ActivePage,   \* viewer_state::active_page: "page", or "none" before viewer_demand
  MaxLog        \* bound: commands in the log after which no more keys are pressed

FormKey == {"Tab", "ShiftTab", "Space", "Escape"}
Key == FormKey \cup PlainKey
Unit == Symbol \cup {High, Low}

ASSUME CharAssumption == CharOf \in [Key -> Symbol \ {High, Low}]
ASSUME KeyAssumption == PlainKey \cap FormKey = {}

VARIABLES
  held,         \* keys that are down
  posted,       \* WM_CHAR units waiting in the queue
  high,         \* WindowData::pending_high_surrogate is set
  announced,    \* pc_uia_state::focus_text
  unheard,      \* a unit no key produced was handled since the last key callback
  before        \* history: the last unit handled and the buffer it came to, if any

window == <<held, posted, high>>
kvars == <<fvars, window, announced, unheard, before>>

-----------------------------------------------------------------------------
(* The viewer's handlers.                                                  *)

Delta(k) == IF k = "Tab" THEN 1 ELSE -1

\* Fault: a rejected commit keeps the focus.
TabKeyTrap(k) ==
  IF ~Focused
    THEN FocusMove(Delta(k))
    ELSE CommitFill /\ focus' = IF status' = "NONE" THEN Moved(ir', Delta(k)) ELSE focus

\* Commit, then move, whatever became of the commit; without a field there is none.
\* status is then the commit's: what the viewer returns is dropped by the callback.
TabKey(k) ==
  IF ~Focused
    THEN FocusMove(Delta(k))
    ELSE CommitFill /\ focus' = Moved(ir', Delta(k))

ViewerOnKey(k) ==
  \/ /\ ActivePage = "none"
     /\ status' = "ARGUMENT"
     /\ UNCHANGED <<ir, undo, redo, undo_bytes, focus>>
  \/ /\ ActivePage = "page"
     /\ \/ k \in {"Tab", "ShiftTab"} /\ TabKey(k)
        \/ k = "Space" /\ Toggle
        \/ k = "Escape" /\ FocusLoad
        \/ k \in PlainKey /\ UNCHANGED fvars

\* What a unit that is not a high surrogate completes.
Codepoint(unit) == IF unit = Low /\ high THEN Astral ELSE unit

-----------------------------------------------------------------------------
(* The messages.                                                           *)

KInit ==
  /\ FInit
  /\ held = {}
  /\ posted = <<>>
  /\ high = FALSE
  /\ announced = Announcement
  /\ unheard = FALSE
  /\ before = <<>>

\* sync_forms_announcement, at the end of the key callback.
Sync == announced' = Announcement' /\ unheard' = FALSE

\* WM_KEYDOWN, a repeated one included.
KeyDown(k) ==
  /\ posted = <<>>
  /\ Len(undo) < MaxLog
  /\ held' = held \cup {k}
  /\ posted' = <<CharOf[k]>>
  /\ ViewerOnKey(k)
  /\ Sync
  /\ UNCHANGED <<high, before>>

\* Fault: the callback returns before the announcement is pushed.
KeyUpUnsynced(k) ==
  /\ posted = <<>>
  /\ held' = held \ {k}
  /\ UNCHANGED <<fvars, posted, high, announced, unheard, before>>

\* WM_KEYUP: the viewer ignores it.
KeyUp(k) ==
  /\ posted = <<>>
  /\ held' = held \ {k}
  /\ UNCHANGED <<fvars, posted, high, before>>
  /\ Sync

\* An input method posts units no key stands for, broken pairs among them.
Post(unit) ==
  /\ posted = <<>>
  /\ posted' = <<unit>>
  /\ unheard' = TRUE
  /\ UNCHANGED <<fvars, held, high, announced, before>>

\* WM_CHAR: half a pair waits, anything else is handed on and ends the wait.
Remembered == before' = <<Head(posted), focus>>

CharHigh ==
  /\ posted # <<>> /\ Head(posted) = High
  /\ posted' = Tail(posted)
  /\ high' = TRUE
  /\ Remembered
  /\ UNCHANGED <<fvars, held, announced, unheard>>

\* Fault: a half goes on waiting after the character it did not belong to.
CharRestWaiting ==
  /\ posted # <<>> /\ Head(posted) # High
  /\ posted' = Tail(posted)
  /\ high' = (high /\ Head(posted) # Low)
  /\ FocusType(Codepoint(Head(posted)))
  /\ Remembered
  /\ UNCHANGED <<held, announced, unheard>>

CharRest ==
  /\ posted # <<>> /\ Head(posted) # High
  /\ posted' = Tail(posted)
  /\ high' = FALSE
  /\ FocusType(Codepoint(Head(posted)))
  /\ Remembered
  /\ UNCHANGED <<held, announced, unheard>>

KNext ==
  \/ \E k \in Key : KeyDown(k)
  \/ \E k \in held : KeyUp(k)
  \/ \E unit \in Unit : Post(unit)
  \/ CharHigh
  \/ CharRest

KSpec == KInit /\ [][KNext]_kvars

-----------------------------------------------------------------------------

\* Although no character is announced when it is typed, once the keys are released the
\* announced text is that of the focused field: every key that types is followed by its
\* WM_KEYUP, whose callback pushes the announcement.  Units of an input method wait for
\* the next key.
QuietIsAnnounced == held = {} /\ posted = <<>> /\ ~unheard => announced = Announcement

\* The buffer takes no more: it is as long as max_len or the buffer allows.
Full ==
  \/ Attr[focus.at].max > 0 /\ Len(focus.text) >= Attr[focus.at].max
  \/ Len(focus.text) >= Cap

\* The focused buffer ends in s, or is full and says so; without a focus nothing changes
\* and the status says that.
Lands(s) ==
  \/ Focused /\ ~Full /\ focus' = [focus EXCEPT !.text = Append(@, s)]
  \/ Focused /\ Full /\ focus' = focus /\ status' = "LIMIT"
  \/ ~Focused /\ focus' = focus /\ status' = "STATE"

\* R52.1 and the comment on WM_CHAR: every unit the window handles reaches the focused
\* buffer or is refused with a status.  Two halves that follow each other are one
\* character, in the very buffer the first half came to, whatever keys were pressed in
\* between; a first half without its second is dropped and takes nothing with it; a second
\* half without its first lands as it is.
UnitsLand ==
  [][posted # <<>> =>
       LET unit   == Head(posted)
           paired == unit = Low /\ before # <<>> /\ before[1] = High
       IN  /\ unit = High => focus' = focus
           /\ unit # High => Lands(IF paired THEN Astral ELSE unit)
           /\ paired => focus = before[2]]_kvars

\* Tab is navigation, not a validation trap: with more than one field it moves the focus
\* even when the commit is refused, and no key but Tab moves it.
TabMoves ==
  [][/\ ActivePage = "page"
     /\ Len(ir.fields) > 1
     => (focus'.at # focus.at <=> \E k \in {"Tab", "ShiftTab"} : KeyDown(k))]_kvars

=============================================================================
