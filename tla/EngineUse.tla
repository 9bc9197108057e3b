------------------------------ MODULE EngineUse -----------------------------
(* One run of a program over the engine, to its exit: the commands of         *)
(* tynypdf-cli (src/src/cli/main.cc, src/src/cli/txn.cc) and the viewer's     *)
(* click (viewer_on_click of src/src/app/viewer/viewer.cc).  The engine's     *)
(* functions are in Engine; every call may fail, and a failing call is        *)
(* followed by what the program gives back before it returns, so that a run   *)
(* has at most one failure.                                                   *)
(* What the parser makes of the log of txn replay is left open: CommandRun    *)
(* composes a run with the parser.                                            *)
EXTENDS Engine

VARIABLES
  cmd,       \* the command, its backend and where its output goes
  todo,      \* the steps left on the path the program is on
  live,      \* the resources taken and not given back
  files,     \* the input file and the file of another name: their contents
  exit,      \* the exit code, -1 while running
  stranded,  \* history: resources that nobody can give back any more
  unnoticed  \* history: bytes of the output were lost and nobody looked

vars == <<cmd, todo, live, files, exit, stranded, unnoticed>>

Outputs == {"stdout", "other", "input"}   \* --out may name the input itself
Commands ==
  [name : {"render", "list", "fill", "flatten", "replay", "click"},
   backend : {"null", "mupdf"}, out : Outputs]

\* flatten and replay insist on --out, the others write nothing or to stdout
Legal(c) == /\ c.name \in {"flatten", "replay"} => c.out # "stdout"
            /\ c.name \in {"list", "click"} => c.out = "stdout"
            /\ c.name = "replay" => c.backend = "null"

\* the output file is created, written and closed; nobody looks at fclose
ToFile(c, checked, fail) ==
  IF c.out = "stdout" THEN <<>>
  ELSE Step("create", "output", fail, {})
       \o (IF checked THEN Step("write", "output", Drop("output") \o fail, {}) ELSE <<>>)
       \o Step("close", "output", <<>>, {})

-----------------------------------------------------------------------------
\* Fault: a page that cannot be rendered is freed after its document
RenderPageLast(c) ==
  LET close == DocClose(c.backend)
      shut == PageFree(c.backend) \o close
  IN  DocOpen(c.backend, Exit(1))
      \o PageInRange(c.backend, close \o Exit(2))
      \o PageGet(c.backend, close \o Exit(1))
      \o PageRender(c.backend, close \o PageFree(c.backend) \o Exit(1))
      \o ToFile(c, TRUE, PixmapFree \o shut \o Exit(1))
      \o PixmapFree \o shut \o Exit(0)

\* tynypdf-cli render
Render(c) ==
  LET close == DocClose(c.backend)
      shut == PageFree(c.backend) \o close
  IN  DocOpen(c.backend, Exit(1))
      \o PageInRange(c.backend, close \o Exit(2))
      \o PageGet(c.backend, close \o Exit(1))
      \o PageRender(c.backend, shut \o Exit(1))
      \o ToFile(c, TRUE, PixmapFree \o shut \o Exit(1))
      \o PixmapFree \o shut \o Exit(0)

\* tynypdf-cli forms list
List(c) ==
  LET close == DocClose(c.backend)
  IN  DocOpen(c.backend, Exit(1))
      \o ListFields(c.backend, close \o Exit(1))
      \o ListFree(c.backend) \o close \o Exit(0)

\* flatten and fill open the document, load its form and start a transaction
FormOpen(c) ==
  LET close == DocClose(c.backend)
      shut == IrClose \o close
  IN  DocOpen(c.backend, Exit(1))
      \o IrOpen(close \o Exit(1))
      \o IrLoad(c.backend, shut \o Exit(1))
      \o Get("txn", shut \o Exit(1))
FormShut(c) == Drop("txn") \o IrClose \o DocClose(c.backend)

\* tynypdf-cli forms flatten: the file first, then the command on the IR
FlattenForm(c) ==
  LET fail == FormShut(c) \o Exit(1)
  IN  FormOpen(c) \o Flatten(c.backend, fail) \o Call("txn", fail) \o FormShut(c) \o Exit(0)

\* Fault: the command answers 0 although the fill was refused
FillForgiving(c) ==
  LET fail == FormShut(c) \o Exit(1)
  IN  FormOpen(c) \o Call("txn", FormShut(c) \o Exit(0)) \o Get("fdf", fail)
      \o ToFile(c, FALSE, Drop("fdf") \o fail) \o Drop("fdf") \o FormShut(c) \o Exit(0)

\* tynypdf-cli forms fill: fwrite is not looked at
Fill(c) ==
  LET fail == FormShut(c) \o Exit(1)
  IN  FormOpen(c) \o Call("txn", fail) \o Get("fdf", fail)
      \o ToFile(c, FALSE, Drop("fdf") \o fail) \o Drop("fdf") \o FormShut(c) \o Exit(0)

\* tynypdf-cli txn replay: the log is read, parsed, replayed and written again
Replay(c) ==
  LET shut == IrClose \o Exit(1)
      noFile == Drop("json") \o Exit(1)
      noLog == Drop("json") \o shut
  IN  Get("log", Exit(1)) \o Get("json", Drop("log") \o Exit(1)) \o Drop("log")
      \o Call("json", noFile)
      \o IrOpen(noFile) \o Step("parse", "root", noLog, {})
      \o Get("txn", Drop("root") \o noLog)
      \o Call("txn", Drop("txn") \o Drop("root") \o noLog) \o Drop("root") \o Drop("json")
      \o Get("outJson", Drop("txn") \o shut) \o Drop("txn") \o IrClose
      \o ToFile(c, TRUE, Drop("outJson") \o Exit(1)) \o Drop("outJson") \o Exit(0)

\* viewer_on_click in an open viewer; the hit test frees the text it looked at
\* whether the point is in it or not
Click(c) ==
  LET close == DocClose(c.backend)
      fail == close \o Exit(1)
      freed == PageFree(c.backend) \o fail
  IN  DocOpen(c.backend, Exit(1))
      \o PageBox(c.backend, fail) \o PageGet(c.backend, fail)
      \o TextLayout(c.backend, freed) \o TextLayoutFree
      \o PageFree(c.backend) \o close \o Exit(0)

Program(c) == CASE c.name = "render" -> Render(c) [] c.name = "list" -> List(c)
                [] c.name = "fill" -> Fill(c) [] c.name = "flatten" -> FlattenForm(c)
                [] c.name = "replay" -> Replay(c) [] c.name = "click" -> Click(c)

-----------------------------------------------------------------------------
Init ==
  /\ cmd \in {c \in Commands : Legal(c)}
  /\ todo = Program(cmd)
  /\ live = {} /\ stranded = {}
  /\ files = [f \in Outputs |-> IF f = "input" THEN "pdf" ELSE "none"]
  /\ exit = -1 /\ unnoticed = FALSE

Now == Head(todo)
Is(ops) == exit = -1 /\ Now.op \in ops
GoesOn == todo' = Tail(todo) /\ UNCHANGED <<cmd, stranded>>
Output(content) == files' = [files EXCEPT ![cmd.out] = content]

\* something is taken, or a call succeeds
Takes ==
  /\ Is({"get", "take", "create"})
  /\ GoesOn
  /\ live' = live \cup {Now.on}
  /\ IF Now.op = "create" THEN Output("partial") ELSE UNCHANGED files
  /\ UNCHANGED <<exit, unnoticed>>

Returns ==
  /\ Is({"call", "write"})
  /\ GoesOn
  /\ UNCHANGED <<live, files, exit, unnoticed>>

\* a call fails, and the program is on the path back
Fails ==
  /\ Is({"get", "call", "create", "write"})
  /\ todo' = Now.fail
  /\ stranded' = stranded \cup Now.loses
  /\ UNCHANGED <<cmd, live, files, exit, unnoticed>>

\* pc_txn_from_json: the log has to be an object; the nodes of a member that a
\* later one replaced are lost
Parsed(isLog, replaces) ==
  LET replaced == IF replaces THEN {"replaced"} ELSE {}
  IN  /\ Is({"parse"})
      /\ todo' = IF isLog THEN Tail(todo) ELSE Now.fail
      /\ live' = live \cup replaced \cup (IF isLog THEN {"root"} ELSE {})
      /\ stranded' = stranded \cup replaced
      /\ UNCHANGED <<cmd, files, exit, unnoticed>>

\* something is given back; free of a null pointer does nothing
GivesBack ==
  /\ Is({"drop", "free"})
  /\ GoesOn
  /\ live' = live \ {Now.on}
  /\ UNCHANGED <<files, exit, unnoticed>>

\* the output is closed: pdf_save_document looks at the last write, fclose's
\* callers do not
Closes ==
  /\ Is({"close", "saved"})
  /\ GoesOn
  /\ live' = live \ {Now.on}
  /\ \/ Output("whole") /\ UNCHANGED unnoticed
     \/ Now.op = "close" /\ unnoticed' = TRUE /\ UNCHANGED files
  /\ UNCHANGED exit

Exits ==
  /\ Is({"exit"})
  /\ exit' = Now.on
  /\ UNCHANGED <<cmd, todo, live, files, stranded, unnoticed>>

Works == Takes \/ Returns \/ Fails \/ GivesBack \/ Closes \/ Exits
Next == Works \/ \E isLog, replaces \in BOOLEAN : Parsed(isLog, replaces)
Spec == Init /\ [][Next]_vars

-----------------------------------------------------------------------------
(* Whichever call failed, what the program took has been given back when it   *)
(* exits, except what an exception or a forgetful clean-up stranded: the page *)
(* whose box could not be read, the fields copied out so far, a field's name; *)
(* and except the members of a log that a later one of the same key replaced. *)
ReleasedAtExit == exit # -1 => live = stranded

(* Nothing is given back before what depends on it, on any path: the locks    *)
(* outlive the context, the context the document and its pages, the document  *)
(* IR the transaction; and nothing is used or given back that is not there.   *)
NothingOutlives ==
  /\ \A x \in live \ stranded : Needs(x) \subseteq live
  /\ (exit = -1 /\ Now.op \in {"call", "write", "drop", "close", "saved"}) => Now.on \in live

(* A program that exits with 0 leaves its output whole, unless bytes were     *)
(* lost where nobody looks: fclose everywhere, and fwrite in forms fill.      *)
(* No command touches its input unless --out names it, and nothing is written *)
(* by one that exits with 2.                                                  *)
ExitTells ==
  /\ exit = 0 => (cmd.out = "stdout" \/ files[cmd.out] = "whole" \/ unnoticed)
  /\ cmd.out # "input" => files["input"] = "pdf"
  /\ exit = 2 => files = [f \in Outputs |-> IF f = "input" THEN "pdf" ELSE "none"]
=============================================================================
