------------------------------- MODULE Engine -------------------------------
(* What the engine's functions take and give back: the MuPDF backend          *)
(* (src/src/backends/mupdf/mupdf_backend.cc), the null backend                *)
(* (src/src/backends/null/null_backend.cc), pc_doc_open (core/doc/doc.cc) and *)
(* the form functions over them.  A function is the sequence of its steps,    *)
(* each with the path taken when it fails: what the function itself gives     *)
(* back and then what its caller does, the parameter "fail".                  *)
(*                                                                            *)
(* The password is always null.  The calloc of mupdf_form_list_fields is not  *)
(* checked and taken to succeed.                                              *)
EXTENDS Integers, Sequences

CONSTANT FieldNames,   \* the form's fields: resources that stand for their names
         FieldValues   \* and for the copies of their values

\* the other resources, here and in EngineUse
Resources ==
  {"locks", "context", "document", "wrapper", "boxPage", "page", "pageWrapper", "pix",
   "device", "samples", "stext", "utf8", "boxes", "items", "output", "nullDoc", "irBoxes",
   "irDoc", "irFields", "txn", "fdf", "log", "json", "root", "replaced", "outJson"}

\* each copy is an allocation of its own
ASSUME FieldsAssumption ==
  LET copies == FieldNames \o FieldValues
  IN  /\ FieldNames \in Seq(STRING) /\ FieldValues \in Seq(STRING)
      /\ Len(FieldNames) = Len(FieldValues)
      /\ \A i \in DOMAIN copies : copies[i] \notin Resources
      /\ \A i, j \in DOMAIN copies : copies[i] = copies[j] => i = j

\* op: what the step does, on: the resource it is about, fail: the steps after
\* its failure, loses: what nobody can give back after its failure
Step(op, on, fail, loses) == <<[op |-> op, on |-> on, fail |-> fail, loses |-> loses]>>

Get(x, fail) == Step("get", x, fail, {})
Call(x, fail) == Step("call", x, fail, {})
Drop(x) == Step("drop", x, <<>>, {})
DropAll(xs) == [i \in DOMAIN xs |-> Drop(xs[i])[1]]
Exit(code) == Step("exit", code, <<>>, {})

\* run_guarded: an exception leaves the guarded function where it is thrown,
\* without what that function would have given back
Throws(x, fail, loses) == Step("call", x, fail, loses)

\* what has to be there when x is used or given back
Needs(x) == CASE x = "context" -> {"locks"}
              [] x \in {"document", "page", "boxPage", "pix", "device", "stext"} -> {"context"}
              [] x = "txn" -> {"irDoc"}
              [] OTHER -> {}

-----------------------------------------------------------------------------
\* doc_open, doc_close
DocOpen(backend, fail) ==
  IF backend = "null" THEN Get("wrapper", fail)
  ELSE LET dropContext == Drop("context") \o Drop("locks") \o fail
       IN  Get("locks", fail) \o Get("context", Drop("locks") \o fail)
           \o Get("document", dropContext)
           \o Get("wrapper", Drop("document") \o dropContext)

DocClose(backend) ==
  IF backend = "null" THEN Drop("wrapper")
  ELSE DropAll(<<"document", "context", "locks", "wrapper">>)

\* doc_page_count and the check of the index; MuPDF answers 0 for an exception
PageInRange(backend, fail) ==
  Call(IF backend = "null" THEN "wrapper" ELSE "document", fail)

\* page_get_box; the page stays loaded when fz_bound_page throws
PageBox(backend, fail) ==
  IF backend = "null" THEN <<>>
  ELSE PageInRange(backend, fail) \o Get("boxPage", fail)
       \o Throws("boxPage", fail, {"boxPage"}) \o Drop("boxPage")

\* page_get, page_free
PageGet(backend, fail) ==
  IF backend = "null" THEN Get("pageWrapper", fail)
  ELSE PageInRange(backend, fail) \o Get("page", fail)
       \o Get("pageWrapper", Drop("page") \o fail)
       \o Throws("page", fail, {"page", "pageWrapper"})

PageFree(backend) ==
  IF backend = "null" THEN Drop("pageWrapper") ELSE DropAll(<<"page", "pageWrapper">>)

\* page_render; an empty area answers before anything is taken
PageRender(backend, fail) ==
  IF backend = "null" THEN Get("samples", fail)
  ELSE LET dropPix == Drop("pix") \o fail
       IN  Call("page", fail) \o Get("pix", fail) \o Get("device", dropPix)
           \o Throws("page", Drop("device") \o dropPix, {}) \o Drop("device")
           \o Get("samples", dropPix) \o Drop("pix")

PixmapFree == Drop("samples")

\* Fault: the structured text is kept when its copy cannot be allocated
TextLayoutKeeping(backend, fail) ==
  IF backend = "null" THEN fail
  ELSE Get("stext", fail) \o Get("utf8", fail)
       \o Get("boxes", Drop("utf8") \o fail) \o Drop("stext")

\* page_text_layout, page_text_layout_free
TextLayout(backend, fail) ==
  IF backend = "null" THEN fail
  ELSE LET dropText == Drop("stext") \o fail
       IN  Get("stext", fail) \o Get("utf8", dropText)
           \o Get("boxes", Drop("utf8") \o dropText) \o Drop("stext")

TextLayoutFree == DropAll(<<"utf8", "boxes">>)

-----------------------------------------------------------------------------
\* what form_list_free gives back of the first n fields
Copied(n) == SubSeq(FieldNames, 1, n) \o SubSeq(FieldValues, 1, n)
FreeFields(n) == DropAll(Append(Copied(n), "items"))
Kept(n) == {"items"} \cup {Copied(n)[k] : k \in DOMAIN Copied(n)}

\* one field is copied out: an exception loses all that was copied, the clean-up
\* after a failed copy of the value forgets the name
CopyField(i, fail) ==
  Throws("document", fail, Kept(i - 1))
  \o Get(FieldNames[i], FreeFields(i - 1) \o fail)
  \o Throws("document", fail, Kept(i - 1) \cup {FieldNames[i]})
  \o Step("get", FieldValues[i], FreeFields(i - 1) \o fail, {FieldNames[i]})
  \o Throws("document", fail, Kept(i))

\* form_list_fields, form_list_free
ListFields(backend, fail) ==
  IF backend = "null" THEN fail
  ELSE LET n == Len(FieldNames)
           copies[i \in 0 .. n] == IF i = 0 THEN <<>> ELSE copies[i - 1] \o CopyField(i, fail)
       IN  Call("document", fail) \o Step("take", "items", <<>>, {}) \o copies[n]
           \o Call("items", FreeFields(n) \o fail)
ListFree(backend) == FreeFields(Len(FieldNames))

\* form_flatten: the document in memory is baked, then saved to the output path
Flatten(backend, fail) ==
  IF backend = "null" THEN fail
  ELSE Call("document", fail) \o Step("create", "output", fail, {})
       \o Step("write", "output", Drop("output") \o fail, {})
       \o Step("saved", "output", <<>>, {})

-----------------------------------------------------------------------------
\* pc_doc_open, which always opens the null backend; pc_doc_close
IrOpen(fail) ==
  LET dropNull == Drop("nullDoc") \o fail
  IN  Get("nullDoc", fail) \o Get("irBoxes", dropNull) \o Drop("nullDoc")
      \o Get("irDoc", Drop("irBoxes") \o fail)
IrClose == Drop("irBoxes") \o Step("free", "irFields", <<>>, {}) \o Drop("irDoc")

\* pc_form_ir_load_from_backend
IrLoad(backend, fail) ==
  ListFields(backend, fail) \o Get("irFields", ListFree(backend) \o fail) \o ListFree(backend)
=============================================================================
