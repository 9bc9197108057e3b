----------------------------- MODULE JsonPrinter ----------------------------
(* The printer of canonical JSON, pc_json_serialize                           *)
(* (src/src/core/json/canonical.cc).                                          *)
EXTENDS JsonMeaning
LOCAL INSTANCE SequencesExt

\* the members in the order of their keys
RECURSIVE Canonical(_)
Canonical(v) ==
  LET list(parts) ==
        FoldLeftDomain(LAMBDA t, i : t \o (IF i > 1 THEN <<",">> ELSE <<>>) \o parts[i],
                       <<>>, parts)
      keys == SelectSeq(Strings, LAMBDA k : k \in DOMAIN v.members)
  IN  CASE v.kind = "scalar" -> <<v.is>>
        [] v.kind = "{" ->
             <<"{">> \o list([i \in DOMAIN keys |->
                              <<keys[i], ":">> \o Canonical(v.members[keys[i]])]) \o <<"}">>
        [] v.kind = "[" ->
             <<"[">> \o list([i \in DOMAIN v.items |-> Canonical(v.items[i])]) \o <<"]">>
=============================================================================
