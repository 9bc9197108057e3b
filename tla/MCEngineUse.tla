---------------------------- MODULE MCEngineUse -----------------------------
(* A form of two fields.  The logs are every text of up to four tokens; the  *)
(* canonical texts of nested objects and arrays, and each of these with one   *)
(* token left out, exchanged with the next or repeated, and cut off anywhere. *)
EXTENDS CommandRun, JsonPrinter

NamesC == <<"name1", "name2">>
ValuesC == <<"value1", "value2">>

StringsC == <<"a", "b">>
OthersC == {"1"}
Tokens == {"{", "}", "[", "]", ":", ",", "a", "1", "bad"}
Short == UNION {[1 .. n -> Tokens] : n \in 0 .. 4}

One == Scalar("1")
Pair(v, w) == Object([k \in {"a", "b"} |-> IF k = "a" THEN v ELSE w])
Deep == {Pair(One, Array(<<One, Scalar("b")>>)), Pair(Pair(One, One), Object(<<>>)),
         Array(<<Array(<<>>), Object([k \in {"a"} |-> One])>>)}
Near(t) ==
  {SubSeq(t, 1, n) : n \in 0 .. Len(t)}
  \cup {SubSeq(t, 1, i - 1) \o SubSeq(t, i + 1, Len(t)) : i \in DOMAIN t}
  \cup {[t EXCEPT ![i] = t[i + 1], ![i + 1] = t[i]] : i \in 1 .. Len(t) - 1}
  \cup {SubSeq(t, 1, i) \o SubSeq(t, i, Len(t)) : i \in DOMAIN t}
  \cup {[i \in DOMAIN t |-> IF t[i] = "b" THEN "a" ELSE t[i]]}

\* what the printer makes of a value means that value (pc_json_serialize)
ASSUME PrintedMeans ==
  \A t \in Logs : \A v \in Means(t, TRUE) : Json(Canonical(v)) = {v}

LogsC == Short \cup UNION {Near(Canonical(v)) : v \in Deep}
=============================================================================
