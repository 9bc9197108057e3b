------------------------------ MODULE PageText ------------------------------
(* A page's text and what is computed from it: clusters and caret stops       *)
(* (src/src/core/text/break.cc, caret.cc), the runs of one face               *)
(* (src/src/core/text/fallback.cc), selections (src/src/core/selection), hits *)
(* (src/src/core/search) and re-anchored annotations (src/src/core/annot).    *)
(*                                                                            *)
(* A text is a sequence of characters of one or two bytes; positions are      *)
(* bytes.  The engine ends each line with "LF", and every other character has *)
(* a box.  The characters stand for their classes: "a" for the letters that   *)
(* compose after a tilde, "A" for its capital, "i" for a letter of two bytes, *)
(* "mark" for what extends a cluster, "bad" for a byte that is not UTF-8.     *)
EXTENDS Integers, Sequences, FiniteSetsExt

CONSTANT Window   \* how far an annotation is looked for (64 bytes)

ASSUME WindowAssumption == Window \in Nat

Width(c) == IF c \in {"i", "mark"} THEN 2 ELSE 1

\* Start(t)[i]: the byte where character i starts, with one more for the end
Start(t) ==
  LET s[i \in 1 .. Len(t) + 1] == IF i = 1 THEN 0 ELSE s[i - 1] + Width(t[i - 1])
  IN  s
Bytes(t) == Start(t)[Len(t) + 1]
Boxes(t) == {i \in DOMAIN t : t[i] # "LF"}

\* pc_text_break_positions decodes the whole text first
Decodable(t) == \A i \in DOMAIN t : t[i] # "bad"

-----------------------------------------------------------------------------
\* no_break_between: base is the character that started the cluster
Glues(base, c) ==
  \/ base = "CR" /\ c = "LF"
  \/ c = "mark"
  \/ base = "~" /\ c \in {"a", "A"}
  \/ c = "-" /\ base \in {"a", "A", "i"}

\* the character that starts the cluster of character i
Base(t) ==
  LET b[i \in DOMAIN t] == IF i > 1 /\ Glues(t[b[i - 1]], t[i]) THEN b[i - 1] ELSE i
  IN  b
Boundaries(t) == {Start(t)[Base(t)[i]] : i \in DOMAIN t}

\* caret_step refuses a position beyond the text; viewer_on_key then goes to
\* the end of the text it was moving to
Steppable(t, pos) == pos <= Bytes(t) /\ Decodable(t)
CaretLeft(t, pos) ==
  IF Steppable(t, pos) THEN Max({0} \cup {b \in Boundaries(t) : b < pos}) ELSE 0
CaretRight(t, pos) ==
  IF Steppable(t, pos) THEN Min({Bytes(t)} \cup {b \in Boundaries(t) : b > pos}) ELSE Bytes(t)

-----------------------------------------------------------------------------
\* Fault: a box that ends where the selection starts is selected as well
SelectedTouching(t, lo, hi) ==
  LET after == {i \in Boxes(t) : Start(t)[i + 1] >= lo}
      first == Min(after)
      last == Max({i \in Boxes(t) : Start(t)[i] < hi \/ i = Min(Boxes(t))})
  IN  IF after = {} \/ (lo < hi /\ last < first) THEN {}
      ELSE IF lo = hi THEN {first} ELSE {i \in Boxes(t) : first <= i /\ i <= last}

\* pc_selection_extend: the boxes of the bytes lo .. hi - 1, none for RANGE;
\* the last box is the page's first one when no box starts before hi
Selected(t, lo, hi) ==
  LET after == {i \in Boxes(t) : Start(t)[i + 1] > lo}
      first == Min(after)
      last == Max({i \in Boxes(t) : Start(t)[i] < hi \/ i = Min(Boxes(t))})
  IN  IF after = {} \/ (lo < hi /\ last < first) THEN {}
      ELSE IF lo = hi THEN {first} ELSE {i \in Boxes(t) : first <= i /\ i <= last}

-----------------------------------------------------------------------------
Lower(c) == IF c = "A" THEN "a" ELSE c
MatchesAt(t, q, i) ==
  /\ i + Len(q) - 1 <= Len(t)
  /\ \A k \in DOMAIN q : Lower(t[i + k - 1]) = Lower(q[k])

\* Fault: the search goes on inside the hit
HitsOverlapping(t, q) == {i \in DOMAIN t : q # <<>> /\ MatchesAt(t, q, i)}

\* pc_search_page: the search goes on after the hit
Hits(t, q) ==
  LET next[i \in 1 .. Len(t) + 1] ==
        IF i > Len(t) THEN {}
        ELSE IF MatchesAt(t, q, i) THEN {i} \cup next[i + Len(q)] ELSE next[i + 1]
  IN  IF q = <<>> \/ Boxes(t) = {} THEN {} ELSE next[1]
\* a hit is filled in only when its first character has a box
Filled(t, q) == Hits(t, q) \cap Boxes(t)

-----------------------------------------------------------------------------
\* Fault: the last face that draws a character wins
FaceLast(c, faces) == Max({f \in DOMAIN faces : c \in faces[f]})

\* pc_text_fallback_runs over faces 1 .. n, faces[f] the characters f draws:
\* the face of each character, or none for the whole text
Face(c, faces) == Min({f \in DOMAIN faces : c \in faces[f]})
Drawn(t, faces) == Decodable(t) /\ \A i \in DOMAIN t : \E f \in DOMAIN faces : t[i] \in faces[f]
RunStarts(t, faces) ==
  {i \in DOMAIN t : i > 1 => Face(t[i], faces) # Face(t[i - 1], faces)}
\* the runs, each its face and its first and last character
Runs(t, faces) ==
  IF ~Drawn(t, faces) THEN {}
  ELSE {[face |-> Face(t[i], faces), first |-> i,
         last |-> Min({Len(t)} \cup {j - 1 : j \in {k \in RunStarts(t, faces) : k > i}})] :
        i \in RunStarts(t, faces)}

-----------------------------------------------------------------------------
(* pc_annot_reanchor.  The text of the annotation is read from the page as it *)
(* is now, at the old place; positions are characters, from 0.                *)

\* how many characters at pos are those at the old place
Score(t, old, len, pos) == Cardinality({k \in 1 .. len : t[pos + k] = t[old + k]})
\* old_end is clamped to the text, len is not
Places(t, old, len) ==
  LET oldEnd == Min({old + len, Len(t)})
  IN  {pos \in Max({0, old - Window}) .. old + Window : pos + len <= Min({oldEnd + Window, Len(t)})}

Blank == {" ", "LF"}

\* Fault: a match is not widened to the start of its word
WordFromHere(t, pos) == pos

\* from a place back to the start of its word, and on to its end
WordFrom(t, pos) == Max({0} \cup {p \in 1 .. pos : t[p] \in Blank})
WordTo(t, pos) == Min({Len(t)} \cup {p \in pos .. Len(t) - 1 : t[p + 1] \in Blank})

\* where the annotation lies now, its confidence as the matching characters
\* (0 .. len), and whether it is detached.  Reads beyond the text: excluded
Reanchored(t, old, len) ==
  IF Boxes(t) = {} THEN [offset |-> old, len |-> len, score |-> 0, detached |-> TRUE]
  ELSE IF old > Len(t) THEN [offset |-> Len(t), len |-> 0, score |-> 0, detached |-> TRUE]
  ELSE LET best == Max({0} \cup {Score(t, old, len, p) : p \in Places(t, old, len)})
           at == IF best = 0 THEN old
                 ELSE Min({p \in Places(t, old, len) : Score(t, old, len, p) = best})
       IN  [offset |-> WordFrom(t, at), len |-> WordTo(t, at + len) - WordFrom(t, at),
            score |-> best, detached |-> 2 * best < len]
=============================================================================
