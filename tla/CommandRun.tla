----------------------------- MODULE CommandRun -----------------------------
(* One run of a program over the engine, with the reader of JSON texts that   *)
(* txn replay (src/src/cli/txn.cc) gives its log to.  EngineUse leaves open   *)
(* what the reader makes of the log: every step here is one of EngineUse or   *)
(* one of CanonicalJson.                                                      *)
EXTENDS EngineUse, CanonicalJson

CONSTANT Logs   \* the texts of the logs

ASSUME LogTextsAssumption == Logs \subseteq Seq(STRING \ {"end"})

RInit == Init /\ JsonInit(IF cmd.name = "replay" THEN Logs ELSE {<<>>})

\* pc_txn_from_json reads the log first
Parses ==
  /\ Is({"parse"}) /\ mode \notin {"accepted", "rejected"}
  /\ JsonNext
  /\ UNCHANGED vars

ParsedLog ==
  /\ mode \in {"accepted", "rejected"}
  /\ Parsed(mode = "accepted" /\ got.kind = "{", lost > 0)
  /\ UNCHANGED jvars

RNext == (Works /\ UNCHANGED jvars) \/ Parses \/ ParsedLog
RSpec == RInit /\ [][RNext]_<<vars, jvars>>
=============================================================================
