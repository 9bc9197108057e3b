----------------------------- MODULE JsonMeaning ----------------------------
(* What the texts of CanonicalJson mean, by the grammar of JSON.              *)
(*                                                                            *)
(* A phrase is a part of a text with its meaning: a "value", or the rest of   *)
(* an array or object from one of its elements on, up to its bracket.  What   *)
(* begins at a token is made of what begins at later ones.                    *)
EXTENDS CanonicalJson

Phrase(is, from, to, means) == [is |-> is, from |-> from, to |-> to, means |-> means]
Mark(t, i) == IF i <= Len(t) THEN t[i] ELSE "end"

\* the items of a, then those of b; the members of a, then those of b, which
\* replace others of the same key
Join(kind, a, b) ==
  IF kind = "[" THEN a \o b
  ELSE [k \in DOMAIN a \cup DOMAIN b |-> IF k \in DOMAIN b THEN b[k] ELSE a[k]]
Whole(kind, parts) == IF kind = "{" THEN Object(parts) ELSE Array(parts)
Sole(kind, key, v) == IF kind = "[" THEN <<v>> ELSE [k \in {key} |-> v]

Begins(ps, is, i) == {p \in ps : p.is = is /\ p.from = i}

\* scalars, empty brackets, and brackets around the rest from the first element
Values(t, i, later) ==
  {Phrase("value", i, i + 1, Scalar(token)) : token \in {t[i]} \cap (Keys \cup Others)}
  \cup UNION {IF Mark(t, i + 1) = Closer(kind)
              THEN {Phrase("value", i, i + 2, Whole(kind, <<>>))}
              ELSE {Phrase("value", i, p.to, Whole(kind, p.means)) : p \in Begins(later, kind, i + 1)} :
              kind \in {t[i]} \cap {"{", "["}}

\* an item is a value, a member a key and a value
Elements(kind, t, i, ps) ==
  IF kind = "[" THEN Begins(ps, "value", i)
  ELSE IF t[i] \in Keys /\ Mark(t, i + 1) = ":" THEN Begins(ps, "value", i + 2) ELSE {}

\* an element, and the bracket or a comma and the elements behind it
Rests(kind, t, i, ps) ==
  UNION {IF Mark(t, e.to) = Closer(kind)
         THEN {Phrase(kind, i, e.to + 1, Sole(kind, t[i], e.means))}
         ELSE IF Mark(t, e.to) = ","
         THEN {Phrase(kind, i, p.to, Join(kind, Sole(kind, t[i], e.means), p.means)) :
               p \in Begins(ps, kind, e.to + 1)}
         ELSE {} : e \in Elements(kind, t, i, ps)}

\* In a lax text nothing need be behind the bracket that opens, or a comma, at
\* the end.
AtEnd(t, lax) ==
  {Phrase(kind, Len(t) + 1, Len(t) + 1, <<>>) : kind \in IF lax THEN {"{", "["} ELSE {}}

\* the phrases from token i on, given the later ones
From(t, i, later) ==
  LET ps == later \cup Values(t, i, later)
  IN  ps \cup Rests("{", t, i, ps) \cup Rests("[", t, i, ps)

Phrases(t, lax) ==
  LET last[n \in 0 .. Len(t)] ==   \* those of the last n tokens
        IF n = 0 THEN AtEnd(t, lax) ELSE From(t, Len(t) + 1 - n, last[n - 1])
  IN  last[Len(t)]

Means(t, lax) == {p.means : p \in {q \in Begins(Phrases(t, lax), "value", 1) : q.to = Len(t) + 1}}
Json(t) == Means(t, FALSE)

(* A text is accepted as what it means by the grammar of JSON; what is no     *)
(* JSON is accepted only as a lax text, cut off behind a bracket or a comma,  *)
(* and rejected only if it is not even that (pc_json_parse).                  *)
ReadAsMeant ==
  /\ mode = "accepted" =>
       /\ Means(text, TRUE) = {got}
       /\ \/ Json(text) = {got}
          \/ Json(text) = {} /\ text[Len(text)] \in {"{", "[", ","}
  /\ mode = "rejected" => Means(text, TRUE) = {} /\ Json(text) = {}
=============================================================================
