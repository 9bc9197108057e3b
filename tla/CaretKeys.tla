------------------------------ MODULE CaretKeys -----------------------------
(* The caret and the selection of the viewer: viewer_on_click and the caret   *)
(* keys of viewer_on_key (src/src/app/viewer/viewer.cc) over the text of the  *)
(* page that the caller names.  The caret, the anchor and the selection       *)
(* outlive a change of page.  The keys of the form are in FormsKeyboard.      *)
(*                                                                            *)
(* viewer_on_key frees the page before pc_selection_extend reads its text.    *)
(* What that reads is undefined: any boxes may become the selection, the call *)
(* may fail or the program may end; the bytes come from the anchor and the    *)
(* caret.  A call whose page cannot be fetched changes nothing and is not     *)
(* modelled.                                                                  *)
EXTENDS PageText

CONSTANTS FirstTexts, OtherTexts,   \* the texts of the first and of the second page
          Queries,                  \* what is searched for
          Fonts                     \* the faces of a backend, in order

ASSUME TextsAssumption ==
  /\ FirstTexts \cup OtherTexts \cup Queries \subseteq Seq(STRING)
  /\ Fonts \subseteq Seq(SUBSET STRING)

VARIABLES
  text,          \* the text of each page
  caretPos,      \* caret_pos
  hasCaret,      \* has_caret
  anchor,        \* selection_anchor
  hasSelection,  \* has_selection
  selection,     \* the bytes and boxes of the selection and, as history, the page it was made on
  alive,         \* has reading a freed page not ended the program?
  caretPage,     \* history: the page whose text the caret was placed in
  anchorPage     \* history: the page whose text the anchor was placed in

vars == <<text, caretPos, hasCaret, anchor, hasSelection, selection, alive, caretPage, anchorPage>>

Pages == {1, 2}
Keys == {"left", "right", "home", "end"}
NoSelection == [page |-> 1, from |-> 0, to |-> 0, boxes |-> {}]

Init ==
  /\ text \in {<<first, other>> : first \in FirstTexts, other \in OtherTexts}
  /\ caretPos = 0 /\ hasCaret = FALSE /\ anchor = 0
  /\ hasSelection = FALSE /\ selection = NoSelection
  /\ alive = TRUE /\ caretPage = 1 /\ anchorPage = 1

-----------------------------------------------------------------------------
\* a click into a box selects it; the caret and the anchor stay
ClickHits(p, i) ==
  /\ alive /\ i \in Boxes(text[p])
  /\ selection' = [page |-> p, from |-> Start(text[p])[i], to |-> Start(text[p])[i + 1],
                   boxes |-> {i}]
  /\ hasSelection' = TRUE
  /\ UNCHANGED <<text, caretPos, hasCaret, anchor, alive, caretPage, anchorPage>>

ClickMisses ==
  /\ alive /\ hasSelection' = FALSE
  /\ UNCHANGED <<text, caretPos, hasCaret, anchor, selection, alive, caretPage, anchorPage>>

\* the caret starts in the middle of the page
Position(p) == IF hasCaret THEN caretPos ELSE Bytes(text[p]) \div 2

\* Fault: the caret goes left by one byte
TargetByte(key, t, pos) ==
  CASE key = "left" -> IF pos > 0 THEN pos - 1 ELSE 0
    [] key = "right" -> CaretRight(t, pos) [] key = "home" -> 0 [] key = "end" -> Bytes(t)

Target(key, t, pos) ==
  CASE key = "left" -> CaretLeft(t, pos) [] key = "right" -> CaretRight(t, pos)
    [] key = "home" -> 0 [] key = "end" -> Bytes(t)

\* a page without text answers RANGE to every key
Typed(p) == alive /\ Boxes(text[p]) # {}

MoveCaret(p, key) ==
  /\ Typed(p)
  /\ caretPos' = Target(key, text[p], Position(p)) /\ caretPage' = p
  /\ hasCaret' = TRUE /\ hasSelection' = FALSE
  /\ UNCHANGED <<text, anchor, selection, alive, anchorPage>>

\* Home and End with Shift drop a selection that is there
DropSelection(p, key) ==
  /\ Typed(p) /\ key \in {"home", "end"} /\ hasSelection
  /\ hasSelection' = FALSE
  /\ UNCHANGED <<text, caretPos, hasCaret, anchor, selection, alive, caretPage, anchorPage>>

Lesser(a, b) == IF a < b THEN a ELSE b
Greater(a, b) == IF a < b THEN b ELSE a

\* pc_selection_extend on the freed page: it may find the bytes in any boxes, some of
\* another page's (0), or in none
Extended(p, to) ==
  \/ /\ hasSelection' = TRUE
     /\ \E boxes \in SUBSET (Boxes(text[p]) \cup {0}) :
          selection' = [page |-> p, from |-> Lesser(anchor', to), to |-> Greater(anchor', to),
                        boxes |-> boxes]
  \/ hasSelection' = FALSE /\ UNCHANGED selection

\* Shift with a key: without a selection the anchor is set first, before an
\* arrow moves the caret and after Home and End have; the caret stays
ExtendSelection(p, key) ==
  LET to == Target(key, text[p], Position(p))
      arrow == key \in {"left", "right"}
  IN  /\ Typed(p) /\ (arrow \/ ~hasSelection)
      /\ IF hasSelection THEN UNCHANGED <<anchor, anchorPage>>
         ELSE /\ anchor' = IF arrow THEN Position(p) ELSE to
              /\ anchorPage' = IF arrow /\ hasCaret THEN caretPage ELSE p
      /\ \/ Extended(p, to) /\ UNCHANGED alive
         \/ alive' = FALSE /\ UNCHANGED <<hasSelection, selection>>
      /\ UNCHANGED <<text, caretPos, hasCaret, caretPage>>

Next ==
  \/ \E p \in Pages : \E i \in Boxes(text[p]) : ClickHits(p, i)
  \/ ClickMisses
  \/ \E p \in Pages, key \in Keys :
       MoveCaret(p, key) \/ DropSelection(p, key) \/ ExtendSelection(p, key)

CSpec == Init /\ [][Next]_vars

-----------------------------------------------------------------------------
(* The caret stands between two clusters of the page it was placed in, never  *)
(* inside a combining sequence, a composition or a line's end, whatever keys  *)
(* moved it and although it starts in the middle of a page's bytes and goes   *)
(* with the user to another page, whose text may be shorter or not UTF-8.     *)
CaretOnStop ==
  hasCaret => LET t == text[caretPage]
              IN  caretPos \in {0, Bytes(t)} \cup Boundaries(t)

\* The boxes that have a byte of from .. to - 1.
Meant(t, from, to) == {i \in Boxes(t) : Start(t)[i] < to /\ Start(t)[i + 1] > from}

(* What the selection is whatever the freed page reads as, and what it would  *)
(* be if the page were held.  Its bytes are in the page's text although the   *)
(* anchor and the caret are carried from page to page and a click moves       *)
(* neither, unless the anchor is one of another page.  Of a page that is      *)
(* held, pc_selection_extend selects exactly the boxes that have one of the   *)
(* bytes, also at the ends of the text and for offsets beyond it; a range     *)
(* that no box has a byte of (an empty one, the end of a line) selects        *)
(* nothing or the box after it.                                               *)
SelectionSound ==
  /\ hasSelection =>
       /\ selection.from <= selection.to
       /\ anchorPage = selection.page => selection.to <= Bytes(text[selection.page])
  /\ \A p \in Pages : \A lo, hi \in 0 .. Bytes(text[1]) + Bytes(text[2]) :
       LET t == text[p]
           boxes == Selected(t, lo, hi)
       IN  lo <= hi =>
             /\ Meant(t, lo, hi) # {} => boxes = Meant(t, lo, hi)
             /\ Meant(t, lo, hi) = {} =>
                  \A i \in boxes :
                    boxes = {i} /\ hi <= Start(t)[i] /\ \A j \in Boxes(t) : j < i => Start(t)[j + 1] <= lo

(* The hits of a search match, do not overlap and leave out no match that     *)
(* does not overlap one of them; those that pc_search_page counts but does    *)
(* not fill in are the ones that begin with a line's end.                     *)
SearchExact ==
  \A p \in Pages, q \in Queries :
    LET t == text[p]
        hits == Hits(t, q)
        near(i, j) == i - j < Len(q) /\ j - i < Len(q)
    IN  /\ \A i, j \in hits : near(i, j) => i = j
        /\ \A i \in DOMAIN t : (q # <<>> /\ Boxes(t) # {} /\ MatchesAt(t, q, i)) =>
                                  \E j \in hits : near(i, j)
        /\ \A i \in hits : MatchesAt(t, q, i) /\ (i \notin Filled(t, q) <=> Head(q) = "LF")

(* The runs of one face cover the text in order, or there is none; a run's    *)
(* face draws all of it, no earlier face draws any of it, and the next run    *)
(* has another face.                                                          *)
RunsWhole ==
  \A p \in Pages, faces \in Fonts :
    LET t == text[p]
        runs == Runs(t, faces)
        of(i) == {r \in runs : r.first <= i /\ i <= r.last}
    IN  /\ runs # {} => \A i \in DOMAIN t : Cardinality(of(i)) = 1
        /\ \A r \in runs : \A i \in r.first .. r.last :
             t[i] \in faces[r.face] /\ \A f \in 1 .. r.face - 1 : t[i] \notin faces[f]
        /\ \A r, s \in runs : s.first = r.last + 1 => s.face # r.face

\* The places of the window that have the text of the old one.
Alike(t, old, len) ==
  {at \in 0 .. Len(t) - len : /\ old - Window <= at /\ at <= old + Window
                              /\ \A k \in 1 .. len : t[at + k] = t[old + k]}

(* An annotation that lies within the text goes to the leftmost place of the  *)
(* window that has the text found at its old place, widened to whole words    *)
(* and no further, within the text.  R44.1 wants the nearest such place, and   *)
(* that is the old one; the code leaves it where the text is repeated before. *)
AnchorLeftmost ==
  \A p \in Pages : \A old \in 0 .. Len(text[p]), len \in 1 .. 2 :
    LET t == text[p]
        r == Reanchored(t, old, len)
        end == r.offset + r.len
    IN  (Boxes(t) # {} /\ old + len <= Len(t)) =>
          \E at \in Alike(t, old, len) :
            /\ \A other \in Alike(t, old, len) : at <= other
            /\ r.offset <= at /\ at + len <= end /\ end <= Len(t)
            /\ r.offset = 0 \/ t[r.offset] \in Blank
            /\ end = Len(t) \/ t[end + 1] \in Blank
            /\ \A i \in (r.offset + 1 .. at) \cup (at + len + 1 .. end) : t[i] \notin Blank

=============================================================================
