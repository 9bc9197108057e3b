--------------------------- MODULE FormFocusProofs ---------------------------
(* Proofs about FormFocus and FormsKeyboard: what holds of a form's values    *)
(* and of the keys that reach it, for every form, every text, every buffer    *)
(* and every budget of the log.                                               *)
EXTENDS FormsKeyboard, TxnLogLemmas

-----------------------------------------------------------------------------
(* The inductive invariant.                                                   *)

\* the place of a name in the form the document was opened with
Place(name) == FieldIndex([fields |-> InitFields], name)

\* no fields, or the form's own fields with values they may have
FormLike(fields) ==
  \/ fields = <<>>
  \/ /\ fields = [i \in 1 .. Len(InitFields) |->
                    [name |-> InitFields[i].name, value |-> fields[i].value]]
     /\ \A i \in 1 .. Len(InitFields) : Legal(i, fields[i].value)

\* a command on the form that can be undone and redone without harm
Harmless(c) ==
  \/ c.type = "FORM_FLATTEN" /\ FormLike(c.fields)
  \/ /\ c.type = "FORM_SET" /\ Place(c.name) # 0
     /\ Legal(Place(c.name), c.old) /\ Legal(Place(c.name), c.new)

HarmlessLog(s) == \E S : s \in Seq(S) /\ \A c \in S : Harmless(c)

FInv ==
  /\ ir = [annots |-> ir.annots, fields |-> ir.fields]
  /\ FormLike(ir.fields)
  /\ HarmlessLog(undo) /\ HarmlessLog(redo)

-----------------------------------------------------------------------------
(* Logs and forms.                                                            *)

\* A harmless log is a sequence, and its commands are harmless.
LEMMA LogFacts ==
  ASSUME NEW s, HarmlessLog(s)
  PROVE  /\ Len(s) \in Nat
         /\ \A c \in ToSet(s) : Harmless(c)
         /\ s # <<>> => Harmless(Last(s)) /\ HarmlessLog(Front(s))
<1> PICK S : s \in Seq(S) /\ \A c \in S : Harmless(c)
  BY DEF HarmlessLog
<1>1. \A i \in 1 .. Len(s) : s[i] \in S
  OBVIOUS
<1>2. ASSUME s # <<>> PROVE Last(s) \in S /\ Front(s) \in Seq(S)
  BY <1>2 DEF Last, Front
<1> QED
  BY <1>1, <1>2 DEF ToSet, HarmlessLog

\* It stays one with a harmless command more.
LEMMA LogGrows ==
  ASSUME NEW s, HarmlessLog(s), NEW c, Harmless(c)
  PROVE  HarmlessLog(Append(s, c)) /\ Len(Append(s, c)) = Len(s) + 1
<1> PICK S : s \in Seq(S) /\ \A e \in S : Harmless(e)
  BY DEF HarmlessLog
<1> DEFINE T == S \cup {c}
<1>1. s \in Seq(T) /\ \A e \in T : Harmless(e)
  OBVIOUS
<1> HIDE DEF T
<1>2. c \in T
  BY DEF T
<1> QED
  BY <1>1, <1>2 DEF HarmlessLog

\* The empty log is harmless.
LEMMA EmptyLog == HarmlessLog(<<>>)
<1> DEFINE S == {c \in {} : FALSE}
<1>1. \A c \in S : Harmless(c)
  OBVIOUS
<1> HIDE DEF S
<1>2. <<>> \in Seq(S)
  OBVIOUS
<1> QED
  BY <1>1, <1>2 DEF HarmlessLog

\* A form that is there has the fields it was opened with: a name is at its place.
LEMMA FormFacts ==
  ASSUME NEW d, FormLike(d.fields), d.fields # <<>>
  PROVE  /\ Len(d.fields) = Len(InitFields) /\ Len(InitFields) \in Nat
         /\ \A i \in 1 .. Len(InitFields) :
              /\ d.fields[i].name = InitFields[i].name
              /\ Legal(i, d.fields[i].value)
         /\ \A name : FieldIndex(d, name) = Place(name)
<1>1. Len(InitFields) \in Nat
  BY FormAssumption
<1>2. Len(d.fields) = Len(InitFields)
  BY <1>1 DEF FormLike
<1>3. \A i \in 1 .. Len(InitFields) : /\ d.fields[i].name = InitFields[i].name
                                      /\ Legal(i, d.fields[i].value)
  BY DEF FormLike
<1>4. ASSUME NEW name PROVE FieldIndex(d, name) = Place(name)
  <2> DEFINE e == [fields |-> InitFields]
             I(x) == {i \in 1 .. Len(x.fields) : x.fields[i].name = name}
  <2>1. I(d) = I(e)
    BY <1>2, <1>3
  <2>2. FieldIndex(d, name) = IF I(d) # {} THEN Min(I(d)) ELSE 0
    BY DEF FieldIndex, SelectInSeq
  <2>3. FieldIndex(e, name) = IF I(e) # {} THEN Min(I(e)) ELSE 0
    BY DEF FieldIndex, SelectInSeq
  <2> HIDE DEF I
  <2> QED
    BY <2>1, <2>2, <2>3 DEF Place
<1> QED
  BY <1>1, <1>2, <1>3, <1>4

\* A place that is found is one of the form's.
LEMMA PlaceFacts ==
  ASSUME NEW name, Place(name) # 0
  PROVE  Place(name) \in 1 .. Len(InitFields) /\ InitFields[Place(name)].name = name
BY FieldIndexMatches, FormAssumption DEF Place

\* Writing a value that its field may have leaves a form; nothing else changes.
LEMMA SetValueFacts ==
  ASSUME NEW d, FormLike(d.fields), NEW name, NEW value,
         FieldIndex(d, name) # 0, Len(d.fields) \in Nat, Legal(FieldIndex(d, name), value)
  PROVE  /\ FormLike(SetValue(d, name, value).fields)
         /\ SetValue(d, name, value).fields # <<>>
         /\ \A i \in 1 .. Len(d.fields) : i # FieldIndex(d, name) =>
              SetValue(d, name, value).fields[i] = d.fields[i]
         /\ Place(name) = FieldIndex(d, name)
         /\ \A old : SetValue(SetValue(d, name, value), name, old).fields
                       = SetValue(d, name, old).fields
<1> DEFINE k == FieldIndex(d, name)
           f == SetValue(d, name, value).fields
<1>1. k \in 1 .. Len(d.fields) /\ d.fields # <<>>
  BY FieldIndexMatches
<1>2. /\ Len(d.fields) = Len(InitFields) /\ Place(name) = k
      /\ \A i \in 1 .. Len(InitFields) : /\ d.fields[i].name = InitFields[i].name
                                         /\ Legal(i, d.fields[i].value)
  BY <1>1, FormFacts
<1>3. k \in 1 .. Len(InitFields) /\ InitFields[k].name = name
  BY <1>1, <1>2, PlaceFacts
<1>4. f = [d.fields EXCEPT ![k] = [name |-> name, value |-> value]]
  BY DEF SetValue
<1>5. d.fields = [i \in 1 .. Len(InitFields) |->
                    [name |-> InitFields[i].name, value |-> d.fields[i].value]]
  BY <1>1 DEF FormLike
<1> HIDE DEF k, f
<1>6. /\ f = [i \in 1 .. Len(InitFields) |->
                [name |-> InitFields[i].name, value |-> f[i].value]]
      /\ f[k].value = value
      /\ \A i \in 1 .. Len(InitFields) : i # k => f[i] = d.fields[i]
  BY <1>3, <1>4, <1>5
<1>7. FormLike(f) /\ f # <<>>
  <2>1. \A i \in 1 .. Len(InitFields) : Legal(i, f[i].value)
    BY <1>2, <1>6 DEF k
  <2>2. k \in DOMAIN f
    BY <1>3, <1>6
  <2> QED
    BY <1>6, <2>1, <2>2 DEF FormLike
<1>8. ASSUME NEW old
      PROVE  SetValue(SetValue(d, name, value), name, old).fields = SetValue(d, name, old).fields
  <2> DEFINE e == SetValue(d, name, value)
  <2>1. e.fields = f
    BY DEF f
  <2> HIDE DEF e
  <2>2. FieldIndex(e, name) = k
    BY <1>2, <1>7, <2>1, FormFacts
  <2>3. SetValue(e, name, old).fields = [f EXCEPT ![k] = [name |-> name, value |-> old]]
    BY <2>1, <2>2 DEF SetValue
  <2>4. SetValue(d, name, old).fields = [d.fields EXCEPT ![k] = [name |-> name, value |-> old]]
    BY DEF SetValue, k
  <2> QED
    BY <2>3, <2>4, <1>3, <1>4, <1>5 DEF e
<1> QED
  BY <1>1, <1>2, <1>6, <1>7, <1>8 DEF k, f

\* The number of fields is a number.
LEMMA FormLen ==
  ASSUME NEW fields, FormLike(fields)
  PROVE  Len(fields) \in Nat /\ (fields = <<>> => Len(fields) = 0)
<1>1. CASE fields = <<>>
  BY <1>1
<1>2. CASE fields # <<>>
  <2>1. Len(InitFields) \in Nat
    BY FormAssumption
  <2>2. fields = [i \in 1 .. Len(InitFields) |->
                    [name |-> InitFields[i].name, value |-> fields[i].value]]
    BY <1>2 DEF FormLike
  <2> QED
    BY <1>2, <2>1, <2>2
<1> QED
  BY <1>1, <1>2

\* The same for a write wherever the name is found, with a value legal at its place.
LEMMA WriteFacts ==
  ASSUME NEW d, FormLike(d.fields), NEW name, NEW value,
         FieldIndex(d, name) # 0, Legal(Place(name), value)
  PROVE  /\ FormLike(SetValue(d, name, value).fields)
         /\ \A i \in 1 .. Len(d.fields) : i # FieldIndex(d, name) =>
              SetValue(d, name, value).fields[i] = d.fields[i]
         /\ Place(name) = FieldIndex(d, name)
         /\ d.fields[FieldIndex(d, name)].name = name
         /\ Legal(Place(name), d.fields[FieldIndex(d, name)].value)
         /\ \A old : SetValue(SetValue(d, name, value), name, old).fields
                       = SetValue(d, name, old).fields
<1>1. Len(d.fields) \in Nat
  BY FormLen
<1>2. /\ FieldIndex(d, name) \in 1 .. Len(d.fields)
      /\ d.fields[FieldIndex(d, name)].name = name
  BY <1>1, FieldIndexMatches
<1>3. d.fields # <<>>
  BY <1>2, FormLen
<1>4. Place(name) = FieldIndex(d, name)
  BY <1>3, FormFacts
<1>5. Legal(Place(name), d.fields[FieldIndex(d, name)].value)
  BY <1>2, <1>3, <1>4, FormFacts
<1> QED
  BY <1>1, <1>2, <1>4, <1>5, SetValueFacts

\* Writing back what was read is no change.
LEMMA WriteBack ==
  ASSUME NEW d, d = [annots |-> d.annots, fields |-> d.fields], FormLike(d.fields),
         NEW name, FieldIndex(d, name) # 0, NEW value, Legal(Place(name), value)
  PROVE  LET old == d.fields[FieldIndex(d, name)].value
         IN  SetValue(SetValue(d, name, value), name, old) = d
<1> DEFINE k == FieldIndex(d, name)
           old == d.fields[k].value
<1>1. d.fields[k].name = name /\ k = Place(name) /\ Len(d.fields) \in Nat
  BY WriteFacts, FormLen
<1>2. k \in 1 .. Len(d.fields)
  BY <1>1, FieldIndexMatches
<1>3. d.fields = [i \in 1 .. Len(InitFields) |->
                    [name |-> InitFields[i].name, value |-> d.fields[i].value]]
  BY <1>2, FormLen DEF FormLike
<1>4. k \in 1 .. Len(InitFields) /\ InitFields[k].name = name
  BY <1>1, <1>2, PlaceFacts
<1>5. SetValue(d, name, old).fields = [d.fields EXCEPT ![k] = [name |-> name, value |-> old]]
  BY DEF SetValue
<1> HIDE DEF k
<1>6. d.fields[k] = [name |-> name, value |-> old]
  BY <1>1, <1>3, <1>4
<1>7. [d.fields EXCEPT ![k] = d.fields[k]] = d.fields
  BY <1>3
<1>8. SetValue(d, name, old).fields = d.fields
  BY <1>5, <1>6, <1>7
<1>9. SetValue(SetValue(d, name, value), name, old).fields = SetValue(d, name, old).fields
  BY WriteFacts
<1>10. SetValue(SetValue(d, name, value), name, old).annots = d.annots
  BY DEF SetValue
<1>11. SetValue(SetValue(d, name, value), name, old)
         = [annots |-> SetValue(SetValue(d, name, value), name, old).annots,
            fields |-> SetValue(SetValue(d, name, value), name, old).fields]
  BY DEF SetValue
<1> QED
  BY <1>8, <1>9, <1>10, <1>11 DEF k

-----------------------------------------------------------------------------
(* Every call preserves the invariant.                                        *)

\* The invariant speaks of the document and of the two stacks only.
LEMMA Untouched ==
  ASSUME FInv, UNCHANGED <<ir, undo, redo>>
  PROVE  FInv'
BY DEF FInv, HarmlessLog, FormLike, Legal, FitsMax, FitsKind

\* pc_form_fill_field writes at most the first field of the name, as one command.
LEMMA FillStep ==
  ASSUME FInv, NEW name, NEW text, Fill(name, text)
  PROVE  /\ FInv'
         /\ ir' # ir =>
              /\ \A i \in 1 .. Len(ir.fields) :
                   i # FieldIndex(ir, name) => ir'.fields[i] = ir.fields[i]
              /\ Len(undo') = Len(undo) + 1
<1> DEFINE k == FieldIndex(ir, name)
           r == [type |-> "FORM_SET", name |-> name, new |-> text]
           c == [type |-> "FORM_SET", name |-> name,
                 old |-> ir.fields[k].value, new |-> text]
<1>1. CASE ~Fillable(name, text)
  BY <1>1, Untouched DEF Fill
<1>2. CASE Fillable(name, text)
  <2>1. Apply(r) /\ k # 0
    BY <1>2 DEF Fill, Fillable
  <2>2. FormLike(ir.fields) /\ Len(ir.fields) \in Nat
    BY FormLen DEF FInv
  <2>3. k = Place(name)
    <3>1. ir.fields # <<>>
      BY <2>1, <2>2, FormLen, FieldIndexMatches
    <3> QED
      BY <2>2, <3>1, FormFacts
  <2>4. Legal(Place(name), text)
    BY <1>2, <2>3 DEF Fillable, Legal
  <2>5. Captured(ir, r) = c
    BY DEF Captured
  <2>6. Forward(ir, c) = SetValue(ir, name, text)
    BY DEF Forward
  <2>7. Backward(SetValue(ir, name, text), c)
          = SetValue(SetValue(ir, name, text), name, ir.fields[k].value)
    BY DEF Backward
  <2>8. Harmless(c)
    <3>1. Legal(Place(name), ir.fields[k].value)
      BY <2>1, <2>2, <2>4, WriteFacts
    <3>2. Place(name) # 0
      BY <2>1, <2>3
    <3> QED
      BY <2>4, <3>1, <3>2 DEF Harmless
  <2>9. CASE ApplyRefused(r)
    BY <2>9, Untouched DEF ApplyRefused
  <2>10. CASE ApplyOverBudget(r)
    <3>1. ir' = SetValue(SetValue(ir, name, text), name, ir.fields[k].value)
      BY <2>10, <2>5, <2>6, <2>7 DEF ApplyOverBudget
    <3>2. ir' = ir
      BY <2>1, <2>2, <2>4, <3>1, WriteBack DEF FInv
    <3> QED
      BY <2>10, <3>2, Untouched DEF ApplyOverBudget
  <2>11. CASE ApplyLogged(r)
    <3>1. ir' = SetValue(ir, name, text) /\ undo' = Append(undo, c) /\ redo' = <<>>
      BY <2>11, <2>5, <2>6 DEF ApplyLogged
    <3>2. /\ FormLike(ir'.fields)
          /\ \A i \in 1 .. Len(ir.fields) : i # k => ir'.fields[i] = ir.fields[i]
      BY <2>1, <2>2, <2>4, <3>1, WriteFacts
    <3>3. ir' = [annots |-> ir'.annots, fields |-> ir'.fields]
      BY <3>1 DEF SetValue
    <3>4. HarmlessLog(undo') /\ Len(undo') = Len(undo) + 1
      BY <2>8, <3>1, LogGrows DEF FInv
    <3>5. HarmlessLog(redo')
      BY <3>1, EmptyLog
    <3>6. FInv'
      BY <3>2, <3>3, <3>4, <3>5 DEF FInv, HarmlessLog, FormLike, Legal, FitsMax, FitsKind
    <3> QED
      BY <3>2, <3>4, <3>6
  <2> QED
    BY <2>1, <2>9, <2>10, <2>11 DEF Apply
<1> QED
  BY <1>1, <1>2

\* pc_form_flatten: the fields go into the log, whole.
LEMMA FlattenStep ==
  ASSUME FInv, Flatten
  PROVE  FInv'
<1> DEFINE r == [type |-> "FORM_FLATTEN"]
           c == [type |-> "FORM_FLATTEN", fields |-> ir.fields]
<1>1. Captured(ir, r) = c
  BY DEF Captured
<1>2. Forward(ir, c) = SetFields(ir, <<>>)
  BY DEF Forward
<1>3. Backward(SetFields(ir, <<>>), c) = SetFields(SetFields(ir, <<>>), ir.fields)
  BY DEF Backward
<1>4. CASE UNCHANGED <<ir, undo, redo>>
  BY <1>4, Untouched
<1>5. CASE ApplyOverBudget(r)
  <2>1. ir' = SetFields(SetFields(ir, <<>>), ir.fields)
    BY <1>5, <1>1, <1>2, <1>3 DEF ApplyOverBudget
  <2>2. ir' = ir
    BY <2>1 DEF SetFields, FInv
  <2> QED
    BY <1>5, <2>2, Untouched DEF ApplyOverBudget
<1>6. CASE ApplyLogged(r)
  <2>1. ir' = SetFields(ir, <<>>) /\ undo' = Append(undo, c) /\ redo' = <<>>
    BY <1>6, <1>1, <1>2 DEF ApplyLogged
  <2>2. ir' = [annots |-> ir'.annots, fields |-> ir'.fields] /\ FormLike(ir'.fields)
    BY <2>1 DEF SetFields, FormLike
  <2>3. Harmless(c)
    BY DEF Harmless, FInv
  <2>4. HarmlessLog(undo') /\ HarmlessLog(redo')
    BY <2>1, <2>3, LogGrows, EmptyLog DEF FInv
  <2> QED
    BY <2>2, <2>4 DEF FInv, HarmlessLog, FormLike, Legal, FitsMax, FitsKind
<1> QED
  BY <1>4, <1>5, <1>6 DEF Flatten, Apply, ApplyRefused

\* Undo writes an old value without a check, to the field the name leads to now.
LEMMA UndoStep ==
  ASSUME FInv, Undo
  PROVE  FInv'
<1>1. CASE UndoEmpty
  BY <1>1, Untouched DEF UndoEmpty
<1>2. CASE UndoLost
  <2>1. HarmlessLog(undo')
    BY <1>2, LogFacts DEF UndoLost, FInv
  <2> QED
    BY <1>2, <2>1 DEF UndoLost, FInv, HarmlessLog, FormLike, Legal, FitsMax, FitsKind
<1>3. CASE UndoDone
  <2> DEFINE c == Last(undo)
  <2>1. Harmless(c) /\ HarmlessLog(undo')
    BY <1>3, LogFacts DEF UndoDone, FInv
  <2>2. HarmlessLog(redo')
    BY <1>3, <2>1, LogGrows DEF UndoDone, FInv
  <2>3. CanBackward(ir, c) /\ ir' = Backward(ir, c)
    BY <1>3 DEF UndoDone
  <2> HIDE DEF c
  <2>4. FormLike(ir'.fields) /\ ir' = [annots |-> ir'.annots, fields |-> ir'.fields]
    <3>1. CASE c.type = "FORM_FLATTEN"
      <4>1. FormLike(c.fields) /\ ir' = SetFields(ir, c.fields)
        BY <2>1, <2>3, <3>1 DEF Harmless, Backward
      <4> QED
        BY <4>1 DEF SetFields
    <3>2. CASE c.type = "FORM_SET"
      <4>1. /\ Legal(Place(c.name), c.old) /\ FieldIndex(ir, c.name) # 0
            /\ ir' = SetValue(ir, c.name, c.old)
        BY <2>1, <2>3, <3>2 DEF Harmless, CanBackward, Backward
      <4>2. FormLike(SetValue(ir, c.name, c.old).fields)
        BY <4>1, WriteFacts DEF FInv
      <4> QED
        BY <4>1, <4>2 DEF SetValue
    <3> QED
      BY <2>1, <3>1, <3>2 DEF Harmless
  <2> QED
    BY <2>1, <2>2, <2>4 DEF FInv, HarmlessLog, FormLike, Legal, FitsMax, FitsKind
<1> QED
  BY <1>1, <1>2, <1>3 DEF Undo

\* Redo likewise.
LEMMA RedoStep ==
  ASSUME FInv, Redo
  PROVE  FInv'
<1>1. CASE RedoEmpty
  BY <1>1, Untouched DEF RedoEmpty
<1>2. CASE RedoLost
  <2>1. HarmlessLog(redo')
    BY <1>2, LogFacts DEF RedoLost, FInv
  <2> QED
    BY <1>2, <2>1 DEF RedoLost, FInv, HarmlessLog, FormLike, Legal, FitsMax, FitsKind
<1>3. CASE RedoDone
  <2> DEFINE c == Last(redo)
  <2>1. Harmless(c) /\ HarmlessLog(redo')
    BY <1>3, LogFacts DEF RedoDone, FInv
  <2>2. HarmlessLog(undo')
    BY <1>3, <2>1, LogGrows DEF RedoDone, FInv
  <2>3. CanForward(ir, c) /\ ir' = Forward(ir, c)
    BY <1>3 DEF RedoDone
  <2> HIDE DEF c
  <2>4. FormLike(ir'.fields) /\ ir' = [annots |-> ir'.annots, fields |-> ir'.fields]
    <3>1. CASE c.type = "FORM_FLATTEN"
      <4>1. ir' = SetFields(ir, <<>>)
        BY <2>3, <3>1 DEF Forward
      <4> QED
        BY <4>1 DEF SetFields, FormLike
    <3>2. CASE c.type = "FORM_SET"
      <4>1. /\ Legal(Place(c.name), c.new) /\ FieldIndex(ir, c.name) # 0
            /\ ir' = SetValue(ir, c.name, c.new)
        BY <2>1, <2>3, <3>2 DEF Harmless, CanForward, Forward
      <4>2. FormLike(SetValue(ir, c.name, c.new).fields)
        BY <4>1, WriteFacts DEF FInv
      <4> QED
        BY <4>1, <4>2 DEF SetValue
    <3> QED
      BY <2>1, <3>1, <3>2 DEF Harmless
  <2> QED
    BY <2>1, <2>2, <2>4 DEF FInv, HarmlessLog, FormLike, Legal, FitsMax, FitsKind
<1> QED
  BY <1>1, <1>2, <1>3 DEF Redo

\* The focus calls go through fills, or touch nothing the invariant is about.
LEMMA FInvStep ==
  ASSUME FInv, [FNext]_fvars
  PROVE  FInv'
<1>1. CASE UNCHANGED fvars
  BY <1>1, Untouched DEF fvars, vars
<1>2. CASE FocusMove(1) \/ FocusMove(-1)
  BY <1>2, Untouched DEF FocusMove
<1>3. CASE FocusLoad
  BY <1>3, Untouched DEF FocusLoad, NotFocused
<1>4. ASSUME NEW s, FocusType(s) PROVE FInv'
  BY <1>4, Untouched DEF FocusType, NotFocused
<1>5. CASE FocusCommit
  <2>1. CASE NotFocused
    BY <2>1, Untouched DEF NotFocused
  <2>2. CASE CommitFill
    BY <2>2, FillStep DEF CommitFill
  <2> QED
    BY <1>5, <2>1, <2>2 DEF FocusCommit
<1>6. CASE Toggle
  <2>1. CASE NotFocused
    BY <2>1, Untouched DEF NotFocused
  <2>2. CASE LET f == ir.fields[focus.at] IN Fill(f.name, TogglesTo(f.value))
    BY <2>2, FillStep
  <2>3. CASE FocusType(Space)
    BY <2>3, <1>4
  <2> QED
    BY <1>6, <2>1, <2>2, <2>3 DEF Toggle
<1>7. ASSUME NEW name, NEW text, FillNamed(name, text) PROVE FInv'
  BY <1>7, FillStep DEF FillNamed
<1>8. CASE Flatten
  BY <1>8, FlattenStep
<1>9. CASE Undo
  BY <1>9, UndoStep
<1>10. CASE Redo
  BY <1>10, RedoStep
<1> QED
  BY <1>1, <1>2, <1>3, <1>4, <1>5, <1>6, <1>7, <1>8, <1>9, <1>10 DEF FNext

\* The invariant holds of the form as it is opened.
LEMMA FInvInit ==
  ASSUME FInit
  PROVE  FInv
<1>1. ir = [annots |-> <<>>, fields |-> InitFields] /\ undo = <<>> /\ redo = <<>>
  BY DEF FInit, Init
<1>2. FormLike(InitFields)
  <2>1. /\ Len(InitFields) \in Nat
        /\ InitFields = [i \in 1 .. Len(InitFields) |-> InitFields[i]]
        /\ \A i \in 1 .. Len(InitFields) : InitFields[i] \in Field
    BY FormAssumption
  <2>2. \A i \in 1 .. Len(InitFields) :
          InitFields[i] = [name |-> InitFields[i].name, value |-> InitFields[i].value]
    BY <2>1 DEF Field
  <2> QED
    BY <2>1, <2>2 DEF FormLike, Legal
<1> QED
  BY <1>1, <1>2, EmptyLog DEF FInv

-----------------------------------------------------------------------------
(* The theorems.                                                              *)

\* The form is the opened one with legal values, or empty, and so is whatever the two
\* stacks would write into it.
THEOREM FormInvariant == FSpec => []FInv
<1>1. FInit => FInv
  BY FInvInit
<1>2. FInv /\ [FNext]_fvars => FInv'
  BY FInvStep
<1> QED
  BY <1>1, <1>2, PTL DEF FSpec

\* What the invariant says of the values.
LEMMA FormValues == FInv => ValuesLegal
<1>1. ASSUME FInv PROVE ValuesLegal
  <2>1. ASSUME NEW fields, FormLike(fields), NEW i \in 1 .. Len(fields)
        PROVE  Legal(i, fields[i].value)
    <3> DEFINE d == [fields |-> fields]
    <3>1. d.fields # <<>>
      BY <2>1, FormLen
    <3>2. FormLike(d.fields)
      BY <2>1
    <3>3. /\ Len(d.fields) = Len(InitFields)
          /\ \A j \in 1 .. Len(InitFields) : Legal(j, d.fields[j].value)
      BY <3>1, <3>2, FormFacts
    <3> QED
      BY <2>1, <3>3
  <2>2. ASSUME NEW c \in ToSet(undo) \cup ToSet(redo) PROVE Harmless(c)
    BY <1>1, <2>2, LogFacts DEF FInv
  <2>3. ASSUME NEW c, Harmless(c), c.type = "FORM_FLATTEN"
        PROVE  \A i \in 1 .. Len(c.fields) : Legal(i, c.fields[i].value)
    <3>1. FormLike(c.fields)
      BY <2>3 DEF Harmless
    <3> QED
      BY <3>1, <2>1
  <2>4. ASSUME NEW c, Harmless(c), c.type = "FORM_SET"
        PROVE  Legal(Place(c.name), c.old) /\ Legal(Place(c.name), c.new)
    BY <2>4 DEF Harmless
  <2>5. \A i \in 1 .. Len(ir.fields) : Legal(i, ir.fields[i].value)
    BY <1>1, <2>1 DEF FInv
  <2> QED
    BY <2>2, <2>3, <2>4, <2>5 DEF ValuesLegal, Place
<1> QED
  BY <1>1

\* No value breaks the rules of its field, in the document or in the log.
THEOREM LegalAlways == FSpec => []ValuesLegal
BY FormInvariant, FormValues, PTL

\* Flatten and its undo keep the form's fields in their places.
THEOREM WholeOrFlatAlways == FSpec => []FormWholeOrFlat
<1>1. ASSUME FInv PROVE FormWholeOrFlat
  <2>1. CASE ir.fields = <<>>
    BY <2>1 DEF FormWholeOrFlat
  <2>2. CASE ir.fields # <<>>
    <3>1. FormLike(ir.fields)
      BY <1>1 DEF FInv
    <3>2. /\ Len(ir.fields) = Len(InitFields)
          /\ \A i \in 1 .. Len(InitFields) : ir.fields[i].name = InitFields[i].name
      BY <2>2, <3>1, FormFacts
    <3> QED
      BY <3>2 DEF FormWholeOrFlat
  <2> QED
    BY <2>1, <2>2
<1> QED
  BY <1>1, FormInvariant, PTL

\* A commit or a toggle writes the first field of the focused field's name and no other,
\* and every write can be undone.
THEOREM WritesOneField == FSpec => OneFieldWritten
<1> DEFINE Writes ==
             (FocusCommit \/ Toggle) /\ ir' # ir =>
               /\ Focused
               /\ \A i \in 1..Len(ir.fields) :
                    i # Namesake(focus.at) => ir'.fields[i] = ir.fields[i]
               /\ Len(undo') = Len(undo) + 1
<1>1. FInv /\ [FNext]_fvars => [Writes]_fvars
  <2> SUFFICES ASSUME FInv, FocusCommit \/ Toggle, ir' # ir
               PROVE  /\ Focused
                      /\ \A i \in 1..Len(ir.fields) :
                           i # Namesake(focus.at) => ir'.fields[i] = ir.fields[i]
                      /\ Len(undo') = Len(undo) + 1
    OBVIOUS
  <2>1. ~NotFocused /\ \A s : ~FocusType(s)
    BY DEF NotFocused, FocusType
  <2>2. Focused /\ \E text : Fill(ir.fields[focus.at].name, text)
    BY <2>1 DEF FocusCommit, CommitFill, Toggle
  <2> QED
    BY <2>2, FillStep DEF Namesake
<1> QED
  BY <1>1, FormInvariant, PTL DEF FSpec, OneFieldWritten

-----------------------------------------------------------------------------
(* The keyboard.                                                              *)

IsText(t) == \E S : t \in Seq(S)

\* what a key may find: a harmless log, the form's own fields, their values and the typing
\* buffer texts, and the focus on a field or nowhere
KInv ==
  /\ FInv
  /\ Len(ir.fields) = Len(InitFields)
  /\ \A i \in 1 .. Len(ir.fields) : IsText(ir.fields[i].value)
  /\ focus = [at |-> focus.at, text |-> focus.text]
  /\ focus.at \in 0 .. Len(ir.fields) /\ IsText(focus.text)

\* The text of the field with the focus may be unannounced only while a key is down or
\* after units of an input method; nothing waits in the queue otherwise.
Heard == held = {} /\ ~unheard => posted = <<>> /\ announced = Announcement

\* A half of a pair waits when it was the last unit handled, and while it waits the focus
\* stays in the buffer it came to, until a key has posted the unit that ends the wait.
HalfBefore == before # <<>> /\ before[1] = High
Waits ==
  /\ (high /\ HalfBefore) \/ (~high /\ ~HalfBefore)
  /\ high /\ (posted # <<>> => Head(posted) = Low) => focus = before[2]

\* A character more makes a text.
LEMMA TextGrows ==
  ASSUME NEW t, IsText(t), NEW s
  PROVE  IsText(Append(t, s))
<1>1. PICK S : t \in Seq(S)
  BY DEF IsText
<1> DEFINE T == S \cup {s}
<1>2. t \in Seq(T) /\ s \in T
  BY <1>1
<1> HIDE DEF T
<1>3. Append(t, s) \in Seq(T)
  BY <1>2
<1> QED
  BY <1>3 DEF IsText

\* The texts a checkbox is given are texts.
LEMMA ShortTexts ==
  /\ IsText(NoText)
  /\ \A t : IsText(TogglesTo(t))
<1>1. <<>> \in Seq({Yes}) /\ <<Yes>> \in Seq({Yes}) /\ <<Off>> \in Seq({Off})
  OBVIOUS
<1> QED
  BY <1>1 DEF IsText, NoText, TogglesTo

\* Fills and commits leave as many fields as there were, and change a value only into the
\* text they are given.
LEMMA FillWrites ==
  ASSUME FInv, Len(ir.fields) = Len(InitFields), NEW name, NEW text, Fill(name, text)
  PROVE  /\ FInv' /\ Len(ir'.fields) = Len(ir.fields)
         /\ \A i \in 1 .. Len(ir.fields) :
              ir'.fields[i].value \in {ir.fields[i].value, text}
<1> DEFINE k == FieldIndex(ir, name)
           r == [type |-> "FORM_SET", name |-> name, new |-> text]
           c == [type |-> "FORM_SET", name |-> name,
                 old |-> ir.fields[k].value, new |-> text]
<1>1. FInv'
  BY FillStep
<1>2. CASE ir' = ir
  BY <1>1, <1>2
<1>3. CASE ir' # ir
  <2>1. Fillable(name, text) /\ Apply(r)
    BY <1>3 DEF Fill
  <2>2. k # 0 /\ FormLike(ir.fields) /\ Len(ir.fields) \in Nat
    BY <2>1, FormLen DEF Fillable, FInv
  <2>3. k \in 1 .. Len(ir.fields)
    BY <2>2, FieldIndexMatches
  <2>4. Captured(ir, r) = c /\ Forward(ir, c) = SetValue(ir, name, text)
    BY DEF Captured, Forward
  <2>5. Backward(SetValue(ir, name, text), c)
          = SetValue(SetValue(ir, name, text), name, ir.fields[k].value)
    BY DEF Backward
  <2>6. k = Place(name)
    BY <2>2, <2>3, FormFacts, FormLen
  <2>7. Legal(Place(name), text)
    BY <2>1, <2>6 DEF Fillable, Legal
  <2>8. ir' = SetValue(ir, name, text)
    <3>1. CASE ApplyOverBudget(r)
      <4>1. ir' = SetValue(SetValue(ir, name, text), name, ir.fields[k].value)
        BY <2>4, <2>5, <3>1 DEF ApplyOverBudget
      <4>2. ir' = ir
        BY <2>2, <2>7, <4>1, WriteBack DEF FInv
      <4> QED
        BY <1>3, <4>2
    <3>2. CASE ApplyLogged(r)
      BY <2>4, <3>2 DEF ApplyLogged
    <3> QED
      BY <1>3, <2>1, <3>1, <3>2 DEF Apply, ApplyRefused
  <2>9. /\ \A i \in 1 .. Len(ir.fields) : i # k => ir'.fields[i] = ir.fields[i]
        /\ ir'.fields # <<>> /\ FormLike(ir'.fields)
    BY <2>2, <2>6, <2>7, <2>8, SetValueFacts
  <2>10. Len(ir'.fields) = Len(InitFields)
    BY <2>9, FormFacts
  <2>11. ir'.fields = [ir.fields EXCEPT ![k] = [name |-> name, value |-> text]]
    BY <2>8 DEF SetValue
  <2>12. ir.fields = [i \in 1 .. Len(InitFields) |-> ir.fields[i]]
    BY <2>2, <2>3, FormLen DEF FormLike
  <2>13. ir'.fields[k].value = text
    <3> HIDE DEF k
    <3> QED
      BY <2>3, <2>11, <2>12
  <2> QED
    BY <1>1, <2>9, <2>10, <2>13
<1> QED
  BY <1>2, <1>3

\* A form that is there has a field.
LEMMA FormFull ==
  ASSUME NEW fields, FormLike(fields), fields # <<>>
  PROVE  Len(fields) > 0
<1>1. CASE Len(fields) = 0
  <2>1. Len(InitFields) = 0
    BY <1>1, FormAssumption DEF FormLike
  <2>2. fields = <<>>
    BY <2>1 DEF FormLike
  <2> QED
    BY <2>2
<1> QED
  BY <1>1, FormLen

\* A neighbour is a place, and another one as soon as there are two.
LEMMA NeighbourFacts ==
  ASSUME NEW n \in Nat, n > 0, NEW at \in 0 .. n, NEW delta \in {1, -1}
  PROVE  /\ Neighbour(at, delta, n) \in 1 .. n
         /\ n > 1 => Neighbour(at, delta, n) # at
<1>1. CASE at = 0
  BY <1>1 DEF Neighbour
<1>2. CASE at # 0
  <2> DEFINE b == at - 1
  <2>1. b \in 0 .. n - 1 /\ at = b + 1
    BY <1>2
  <2> HIDE DEF b
  <2>2. (b + 1 + n) % n \in 0 .. n - 1 /\ (b + -1 + n) % n \in 0 .. n - 1
    BY <2>1
  <2>3. n > 1 => (b + 1 + n) % n # b /\ (b + -1 + n) % n # b
    BY <2>1
  <2>4. Neighbour(at, delta, n) = ((b + delta + n) % n) + 1
    BY <1>2 DEF Neighbour, b
  <2> QED
    BY <2>1, <2>2, <2>3, <2>4
<1> QED
  BY <1>1, <1>2

\* Where the focus goes.
LEMMA MovedFacts ==
  ASSUME NEW d, Len(d.fields) \in Nat, NEW delta \in {1, -1}, d.fields # <<>>, Len(d.fields) > 0,
         \A i \in 1 .. Len(d.fields) : IsText(d.fields[i].value),
         focus.at \in 0 .. Len(d.fields)
  PROVE  /\ Moved(d, delta) = [at |-> Moved(d, delta).at, text |-> Moved(d, delta).text]
         /\ Moved(d, delta).at \in 1 .. Len(d.fields) /\ IsText(Moved(d, delta).text)
         /\ Len(d.fields) > 1 => Moved(d, delta).at # focus.at
<1> DEFINE n == Len(d.fields)
           j == Neighbour(focus.at, delta, n)
<1>1. j \in 1 .. n
  BY NeighbourFacts
<1>2. n > 1 => j # focus.at
  BY NeighbourFacts
<1>3. Moved(d, delta) = Entered(d, j)
  BY DEF Moved
<1> HIDE DEF j
<1> QED
  BY <1>1, <1>2, <1>3, ShortTexts DEF Entered

\* A step that leaves the form alone.
LEMMA FocusKept ==
  ASSUME KInv, UNCHANGED <<ir, undo, redo>>,
         focus' = [at |-> focus'.at, text |-> focus'.text],
         focus'.at \in 0 .. Len(ir.fields), IsText(focus'.text)
  PROVE  KInv'
<1>1. FInv'
  BY Untouched DEF KInv
<1> QED
  BY <1>1 DEF KInv

\* Typing keeps the invariant and the focus on its field.
LEMMA TypeFacts ==
  ASSUME KInv, NEW s, FocusType(s)
  PROVE  KInv' /\ focus'.at = focus.at
<1>1. CASE focus' = focus
  BY <1>1, FocusKept DEF FocusType, NotFocused, KInv
<1>2. CASE focus' # focus
  <2>1. UNCHANGED <<ir, undo, redo>> /\ focus' = [focus EXCEPT !.text = Append(@, s)]
    BY <1>2 DEF FocusType, NotFocused
  <2>2. focus' = [at |-> focus.at, text |-> Append(focus.text, s)]
    BY <2>1 DEF KInv
  <2>3. IsText(focus'.text)
    BY <2>2, TextGrows DEF KInv
  <2> QED
    BY <2>1, <2>2, <2>3, FocusKept DEF KInv
<1> QED
  BY <1>1, <1>2

\* A fill with a text, with the focus left where it was or moved.
LEMMA FillKept ==
  ASSUME KInv, NEW name, NEW text, IsText(text), Fill(name, text), NEW delta \in {1, -1},
         focus' = focus \/ (Focused /\ focus' = Moved(ir', delta))
  PROVE  /\ KInv'
         /\ focus' # focus /\ Len(ir.fields) > 1 => focus'.at # focus.at
         /\ Focused /\ focus' = Moved(ir', delta) /\ Len(ir.fields) > 1 => focus'.at # focus.at
<1>1. /\ FInv' /\ Len(ir'.fields) = Len(ir.fields)
      /\ \A i \in 1 .. Len(ir.fields) : ir'.fields[i].value \in {ir.fields[i].value, text}
  BY FillWrites DEF KInv
<1>2. /\ Len(ir'.fields) \in Nat /\ Len(ir'.fields) = Len(InitFields)
      /\ \A i \in 1 .. Len(ir'.fields) : IsText(ir'.fields[i].value)
  BY <1>1, FormLen DEF KInv, FInv
<1>3. CASE focus' = focus /\ ~(Focused /\ focus' = Moved(ir', delta))
  BY <1>1, <1>2, <1>3 DEF KInv
<1>4. CASE Focused /\ focus' = Moved(ir', delta)
  <2>1. focus.at \in 1 .. Len(ir'.fields) /\ Len(ir'.fields) > 0
    BY <1>1, <1>2, <1>4 DEF Focused
  <2>2. ir'.fields # <<>>
    BY <1>1, <2>1, FormLen DEF FInv
  <2>3. /\ focus' = [at |-> focus'.at, text |-> focus'.text]
        /\ focus'.at \in 1 .. Len(ir'.fields) /\ IsText(focus'.text)
        /\ Len(ir'.fields) > 1 => focus'.at # focus.at
    BY <1>2, <1>4, <2>1, <2>2, MovedFacts
  <2> QED
    BY <1>1, <1>2, <2>3 DEF KInv
<1> QED
  BY <1>3, <1>4

\* What a key does: only Tab moves the focus, and Tab always does.
LEMMA KeyFacts ==
  ASSUME KInv, NEW k \in Key, ViewerOnKey(k)
  PROVE  /\ KInv'
         /\ focus'.at # focus.at => k \in {"Tab", "ShiftTab"}
         /\ (ActivePage = "page" /\ Len(ir.fields) > 1 /\ k \in {"Tab", "ShiftTab"})
              => focus'.at # focus.at
<1>1. CASE UNCHANGED <<ir, undo, redo, focus>> /\ ~(k \in {"Tab", "ShiftTab"} /\ ActivePage = "page")
  BY <1>1, FocusKept DEF KInv
<1>2. CASE ActivePage = "page" /\ k \in {"Tab", "ShiftTab"} /\ TabKey(k)
  <2>1. Delta(k) \in {1, -1}
    BY DEF Delta
  <2>2. CASE ~Focused
    <3>1. UNCHANGED <<ir, undo, redo>> /\ focus' = Moved(ir, Delta(k))
      BY <1>2, <2>2 DEF TabKey, FocusMove
    <3>2. Len(ir.fields) \in Nat /\ (ir.fields = <<>> => Len(ir.fields) = 0)
      BY FormLen DEF KInv, FInv
    <3>3. CASE ir.fields = <<>>
      BY <1>2, <3>1, <3>2, <3>3, FocusKept DEF Moved, KInv
    <3>4. CASE ir.fields # <<>>
      <4>1. Len(ir.fields) > 0
        BY <3>2, <3>4, FormFull DEF KInv, FInv
      <4>2. /\ focus' = [at |-> focus'.at, text |-> focus'.text]
            /\ focus'.at \in 1 .. Len(ir.fields) /\ IsText(focus'.text)
            /\ Len(ir.fields) > 1 => focus'.at # focus.at
        BY <2>1, <3>1, <3>2, <3>4, <4>1, MovedFacts DEF KInv
      <4> QED
        BY <1>2, <3>1, <3>2, <4>2, FocusKept
    <3> QED
      BY <3>3, <3>4
  <2>3. CASE Focused
    <3>1. /\ Fill(ir.fields[focus.at].name, focus.text) /\ focus' = Moved(ir', Delta(k))
      BY <1>2, <2>3 DEF TabKey, CommitFill
    <3>2. IsText(focus.text)
      BY DEF KInv
    <3> QED
      BY <1>2, <2>1, <2>3, <3>1, <3>2, FillKept
  <2> QED
    BY <2>2, <2>3
<1>3. CASE k = "Space" /\ Toggle
  <2>1. CASE FocusType(Space)
    BY <1>3, <2>1, TypeFacts
  <2>2. CASE NotFocused
    BY <1>3, <2>2, FocusKept DEF NotFocused, KInv
  <2>3. CASE UNCHANGED focus /\ \E name, t : Fill(name, TogglesTo(t))
    <3>1. PICK name, t : Fill(name, TogglesTo(t))
      BY <2>3
    <3>2. KInv'
      BY <2>3, <3>1, ShortTexts, FillKept
    <3> QED
      BY <1>3, <2>3, <3>2
  <2> QED
    BY <1>3, <2>1, <2>2, <2>3 DEF Toggle
<1>4. CASE k = "Escape" /\ FocusLoad
  <2>1. CASE NotFocused
    BY <1>4, <2>1, FocusKept DEF NotFocused, KInv
  <2>2. CASE Focused /\ focus' = [focus EXCEPT !.text = ir.fields[focus.at].value]
             /\ UNCHANGED <<ir, undo, redo>>
    <3>1. focus' = [at |-> focus.at, text |-> ir.fields[focus.at].value]
      BY <2>2 DEF KInv
    <3>2. IsText(ir.fields[focus.at].value)
      BY <2>2 DEF KInv, Focused
    <3> QED
      BY <1>4, <2>2, <3>1, <3>2, FocusKept DEF KInv
  <2> QED
    BY <1>4, <2>1, <2>2 DEF FocusLoad
<1>5. CASE ActivePage = "none"
  <2>1. UNCHANGED <<ir, undo, redo, focus>>
    BY <1>5 DEF ViewerOnKey
  <2> QED
    BY <1>1, <1>5, <2>1
<1>6. CASE k \in PlainKey /\ UNCHANGED fvars
  BY <1>1, <1>6, KeyAssumption DEF fvars, vars, FormKey
<1>7. \/ ActivePage = "none"
      \/ /\ ActivePage = "page"
         /\ \/ k \in {"Tab", "ShiftTab"} /\ TabKey(k)
            \/ k = "Space" /\ Toggle
            \/ k = "Escape" /\ FocusLoad
            \/ k \in PlainKey /\ UNCHANGED fvars
  BY Zenon DEF ViewerOnKey
<1> QED
  BY <1>2, <1>3, <1>4, <1>5, <1>6, <1>7, Zenon

\* The form as it is opened, without a focus.
LEMMA KInvInit ==
  ASSUME KInit
  PROVE  KInv /\ Heard
<1>1. FInit /\ FInv
  BY FInvInit DEF KInit
<1>2. ir = [annots |-> <<>>, fields |-> InitFields] /\ focus = [at |-> 0, text |-> NoText]
  BY <1>1 DEF FInit, Init
<1>3. \A i \in 1 .. Len(InitFields) : IsText(InitFields[i].value)
  <2> SUFFICES ASSUME NEW i \in 1 .. Len(InitFields)
               PROVE  IsText(InitFields[i].value)
    OBVIOUS
  <2>1. InitFields[i] \in Field
    BY FormAssumption
  <2>2. InitFields[i].value \in Value
    BY <2>1 DEF Field
  <2> DEFINE S == Symbol \cup {Space, Yes, Off, LowerYes, LowerOff}
  <2>3. InitFields[i].value \in Seq(S)
    BY <2>2, TextAssumption
  <2> HIDE DEF S
  <2> QED
    BY <2>3 DEF IsText
<1>4. 0 \in 0 .. Len(InitFields)
  BY FormAssumption
<1>5. KInv
  BY <1>1, <1>2, <1>3, <1>4, ShortTexts DEF KInv
<1> QED
  BY <1>5 DEF KInit, Heard

\* Every message keeps the invariant.
LEMMA KInvStep ==
  ASSUME KInv, [KNext]_kvars
  PROVE  KInv'
<1>1. CASE UNCHANGED fvars
  BY <1>1, FocusKept DEF fvars, vars, KInv
<1>2. ASSUME NEW k \in Key, KeyDown(k) PROVE KInv'
  BY <1>2, KeyFacts DEF KeyDown
<1>3. CASE CharRest
  BY <1>3, TypeFacts DEF CharRest
<1> QED
  BY <1>1, <1>2, <1>3 DEF KNext, KeyUp, Post, CharHigh, kvars

\* Announcements are pushed in time.
LEMMA HeardStep ==
  ASSUME Heard, [KNext]_kvars
  PROVE  Heard'
<1>1. CASE UNCHANGED kvars
  <2>1. Announcement' = Announcement
    BY <1>1 DEF kvars, fvars, vars, Announcement, Focused
  <2> QED
    BY <1>1, <2>1 DEF kvars, window, Heard
<1>2. ASSUME NEW k \in Key, KeyDown(k) PROVE Heard'
  BY <1>2 DEF KeyDown, Heard
<1>3. ASSUME NEW k \in held, KeyUp(k) PROVE Heard'
  BY <1>3 DEF KeyUp, Sync, Heard
<1>4. ASSUME NEW unit \in Unit, Post(unit) PROVE Heard'
  BY <1>4 DEF Post, Heard
<1>5. CASE CharHigh \/ CharRest
  BY <1>5 DEF CharHigh, CharRest, Heard
<1> QED
  BY <1>1, <1>2, <1>3, <1>4, <1>5 DEF KNext

\* Nothing but a unit ends the wait of a half, and no key leaves the buffer without one.
LEMMA WaitsStep ==
  ASSUME Waits, [KNext]_kvars
  PROVE  Waits'
<1>1. CASE UNCHANGED kvars
  BY <1>1, Zenon DEF kvars, fvars, window, Waits, HalfBefore
<1>2. ASSUME NEW k \in Key, KeyDown(k) PROVE Waits'
  <2>1. CharOf[k] # Low
    BY CharAssumption
  <2>2. posted' = <<CharOf[k]>> /\ high' = high /\ before' = before
    BY <1>2 DEF KeyDown
  <2>3. posted' # <<>> /\ Head(posted') # Low
    BY <2>1, <2>2
  <2> QED
    BY <2>2, <2>3, Zenon DEF Waits, HalfBefore
<1>3. ASSUME NEW k \in held, KeyUp(k) PROVE Waits'
  <2>1. UNCHANGED <<focus, posted, high, before>>
    BY <1>3 DEF KeyUp, fvars
  <2> QED
    BY <2>1, Zenon DEF Waits, HalfBefore
<1>4. ASSUME NEW unit \in Unit, Post(unit) PROVE Waits'
  <2>1. UNCHANGED <<focus, high, before>> /\ posted = <<>>
    BY <1>4 DEF Post, fvars
  <2> QED
    BY <2>1, Zenon DEF Waits, HalfBefore
<1>5. CASE CharHigh
  <2>1. before' = <<High, focus>> /\ focus' = focus /\ high'
    BY <1>5 DEF CharHigh, Remembered, fvars
  <2>2. before' # <<>> /\ before'[1] = High /\ before'[2] = focus'
    BY <2>1
  <2> QED
    BY <2>1, <2>2, Zenon DEF Waits, HalfBefore
<1>6. CASE CharRest
  <2>1. before' = <<Head(posted), focus>> /\ Head(posted) # High /\ ~high'
    BY <1>6 DEF CharRest, Remembered
  <2>2. before'[1] # High
    BY <2>1
  <2> QED
    BY <2>1, <2>2, Zenon DEF Waits, HalfBefore
<1> QED
  BY <1>1, <1>2, <1>3, <1>4, <1>5, <1>6 DEF KNext

\* What typing a character does, said of the buffer.
LEMMA TypedLands ==
  ASSUME KInv, NEW s, FocusType(s)
  PROVE  Lands(s)
<1>1. CASE ~Focused
  BY <1>1 DEF FocusType, NotFocused, Lands
<1>2. CASE Focused
  <2>1. focus.at \in 1 .. Len(InitFields)
    BY <1>2 DEF Focused, KInv
  <2>2. Attr[focus.at].max \in Nat
    BY <2>1, AttrAssumption
  <2>3. Len(focus.text) \in Nat
    BY DEF KInv, IsText
  <2>4. Accepts(s) <=> ~Full
    BY <2>2, <2>3, CapAssumption DEF Accepts, Full
  <2> QED
    BY <1>2, <2>4 DEF FocusType, NotFocused, Lands
<1> QED
  BY <1>1, <1>2

-----------------------------------------------------------------------------
(* The theorems about the keyboard.                                           *)

\* The form keeps its fields, and the focus a text and a place among them, whatever is
\* pressed; so no key brings a value into the form that its field may not have.
THEOREM KeysKeepTheForm == KSpec => []KInv
<1>1. KInit => KInv
  BY KInvInit
<1>2. KInv /\ [KNext]_kvars => KInv'
  BY KInvStep
<1> QED
  BY <1>1, <1>2, PTL DEF KSpec

\* Once the keys are released, what is announced is the field with the focus.
THEOREM QuietAnnounced == KSpec => []QuietIsAnnounced
<1>1. KInit => Heard
  BY KInvInit
<1>2. Heard /\ [KNext]_kvars => Heard'
  BY HeardStep
<1>3. Heard => QuietIsAnnounced
  BY DEF Heard, QuietIsAnnounced
<1> QED
  BY <1>1, <1>2, <1>3, PTL DEF KSpec

\* Every unit lands in the focused buffer or is refused, a pair as one character in the
\* buffer its first half came to, and a broken pair takes no character with it.
THEOREM EveryUnitLands == KSpec => UnitsLand
<1> DEFINE paired == Head(posted) = Low /\ before # <<>> /\ before[1] = High
           Landed ==
             posted # <<>> =>
               /\ Head(posted) = High => focus' = focus
               /\ Head(posted) # High => Lands(IF paired THEN Astral ELSE Head(posted))
               /\ paired => focus = before[2]
<1>1. KInit => Waits
  BY DEF KInit, Waits, HalfBefore
<1>2. Waits /\ [KNext]_kvars => Waits'
  BY WaitsStep
<1>3. KInv /\ Waits /\ [KNext]_kvars => [Landed]_kvars
  <2> SUFFICES ASSUME KInv, Waits, KNext, posted # <<>>
               PROVE  Landed
    OBVIOUS
  <2>1. CharHigh \/ CharRest
    BY DEF KNext, KeyDown, KeyUp, Post
  <2>2. paired => high /\ focus = before[2]
    BY Zenon DEF Waits, HalfBefore
  <2>3. CASE CharHigh
    BY <2>2, <2>3 DEF CharHigh, fvars
  <2>4. CASE CharRest
    <3>1. Lands(Codepoint(Head(posted)))
      BY <2>4, TypedLands DEF CharRest
    <3>2. Codepoint(Head(posted)) = IF paired THEN Astral ELSE Head(posted)
      BY Zenon DEF Codepoint, Waits, HalfBefore
    <3> QED
      BY <2>2, <2>4, <3>1, <3>2 DEF CharRest
  <2> QED
    BY <2>1, <2>3, <2>4
<1> QED
  BY <1>1, <1>2, <1>3, KeysKeepTheForm, PTL DEF KSpec, UnitsLand

\* Tab moves the focus even when the commit is refused, and nothing but Tab moves it.
THEOREM TabAlwaysMoves == KSpec => TabMoves
<1> DEFINE Moves ==
             ActivePage = "page" /\ Len(ir.fields) > 1
               => (focus'.at # focus.at <=> \E k \in {"Tab", "ShiftTab"} : KeyDown(k))
<1>1. KInv /\ [KNext]_kvars => [Moves]_kvars
  <2> SUFFICES ASSUME KInv, KNext, ActivePage = "page", Len(ir.fields) > 1
               PROVE  focus'.at # focus.at <=> \E k \in {"Tab", "ShiftTab"} : KeyDown(k)
    OBVIOUS
  <2>1. ASSUME NEW k \in {"Tab", "ShiftTab"}, KeyDown(k)
        PROVE  focus'.at # focus.at
    <3>1. k \in Key /\ ViewerOnKey(k)
      BY <2>1 DEF Key, FormKey, KeyDown
    <3> QED
      BY <3>1, KeyFacts
  <2>2. ASSUME NEW k \in Key, KeyDown(k), focus'.at # focus.at
        PROVE  k \in {"Tab", "ShiftTab"}
    BY <2>2, KeyFacts DEF KeyDown
  <2>3. ASSUME CharRest PROVE focus'.at = focus.at
    BY <2>3, TypeFacts DEF CharRest
  <2>4. \/ \E k \in Key : KeyDown(k)
        \/ CharRest \/ focus' = focus
    BY DEF KNext, KeyUp, Post, CharHigh, fvars
  <2>5. ASSUME focus'.at # focus.at PROVE \E k \in {"Tab", "ShiftTab"} : KeyDown(k)
    <3>1. PICK k \in Key : KeyDown(k)
      BY <2>3, <2>4, <2>5
    <3> QED
      BY <2>2, <2>5, <3>1
  <2> QED
    BY <2>1, <2>5
<1> QED
  BY <1>1, KeysKeepTheForm, PTL DEF KSpec, TabMoves

\* No key and no unit breaks the rules of a field.
THEOREM LegalAtTheKeyboard == KSpec => []ValuesLegal
BY KeysKeepTheForm, FormValues, PTL DEF KInv

=============================================================================
