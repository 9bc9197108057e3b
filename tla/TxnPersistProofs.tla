-------------------------- MODULE TxnPersistProofs --------------------------
(***************************************************************************)
(* Proofs about the log over several sessions, for every form, every log   *)
(* another program may have written, every budget and every rounding.      *)
(*                                                                         *)
(* The two stacks of a log are two paths that end at the present document: *)
(* the undo stack leads to it from the document that was opened, the redo  *)
(* stack, read backwards, leads to it from somewhere.  What a command does *)
(* to the annotations and what it does to the form are followed apart:     *)
(* the annotations start empty whatever form is opened, so their paths     *)
(* survive in every log of this program; those of the form survive only    *)
(* as long as the same form is opened.                                     *)
(***************************************************************************)
EXTENDS TxnPersist, TxnLogLemmas

Log == [undo : Seq(Command), redo : Seq(Command)]
AnnotTypes == {"ADD_ANNOT", "MOVE", "DELETE"}
AnnotsOf(d) == ToSet(d.annots)
RoundedAnnots(A) == {[id |-> a.id, rect |-> Round[a.rect]] : a \in A}

\* c leads from annotations A to annotations B; from form F to form G.
AnnotLink(c, A, B) ==
  IF c.type \in AnnotTypes
    THEN /\ c.id \in ValidId
         /\ Links(c, [annots |-> A, fields |-> <<>>], [annots |-> B, fields |-> <<>>])
    ELSE A = B
FieldLink(c, F, G) ==
  IF c.type \in AnnotTypes
    THEN F = G
    ELSE Links(c, [annots |-> {}, fields |-> F], [annots |-> {}, fields |-> G])

AnnotLinks ==
  {l \in Command \X (SUBSET Annot) \X (SUBSET Annot) : AnnotLink(l[1], l[2], l[3])}
FieldLinks ==
  {l \in Command \X Seq(Field) \X Seq(Field) : FieldLink(l[1], l[2], l[3])}
Back(R) == {<<l[1], l[3], l[2]>> : l \in R}

\* The commands s lead from a member of S to p, by links of R.
Path(R, S, s, p) ==
  \E h : /\ h[1] \in S
         /\ h[Len(s) + 1] = p
         /\ \A k \in 1..Len(s) : <<s[k], h[k], h[k + 1]>> \in R

-----------------------------------------------------------------------------
(* Paths.                                                                  *)

\* Without commands a path stays where it starts.
LEMMA PathEmpty ==
  ASSUME NEW R, NEW S, NEW p
  PROVE  Path(R, S, <<>>, p) <=> p \in S
<1>1. Len(<<>>) = 0 /\ 1..0 = {}
  OBVIOUS
<1>2. ASSUME Path(R, S, <<>>, p)
      PROVE  p \in S
  BY <1>1, <1>2 DEF Path
<1>3. ASSUME p \in S
      PROVE  Path(R, S, <<>>, p)
  <2> DEFINE h == [k \in {1} |-> p]
  <2>1. h[1] = p
    OBVIOUS
  <2>2. h[1] \in S /\ h[Len(<<>>) + 1] = p /\ \A k \in 1..Len(<<>>) : <<<<>>[k], h[k], h[k + 1]>> \in R
    BY <1>1, <1>3, <2>1
  <2> HIDE DEF h
  <2>3. QED
    BY <2>2 DEF Path
<1>4. QED
  BY <1>2, <1>3

\* Pushing a command that leads on from the end of a path lengthens the path.
LEMMA PathPush ==
  ASSUME NEW R, NEW S, NEW C, NEW s \in Seq(C), NEW c \in C, NEW p, NEW q,
         Path(R, S, s, p), <<c, p, q>> \in R
  PROVE  Path(R, S, Append(s, c), q)
<1> DEFINE n == Len(s)
           t == Append(s, c)
<1>1. PICK h : /\ h[1] \in S
               /\ h[n + 1] = p
               /\ \A k \in 1..n : <<s[k], h[k], h[k + 1]>> \in R
  BY DEF Path
<1> DEFINE g == [k \in 1..(n + 2) |-> IF k = n + 2 THEN q ELSE h[k]]
<1>2. n \in Nat /\ Len(t) = n + 1 /\ t[n + 1] = c /\ \A k \in 1..n : t[k] = s[k]
  OBVIOUS
<1> HIDE DEF n, t
<1>3. /\ g[n + 2] = q
      /\ \A k \in 1..(n + 1) : g[k] = h[k]
      /\ 1 \in 1..(n + 1) /\ n + 1 \in 1..(n + 1)
  BY <1>2
<1> HIDE DEF g
<1>4. ASSUME NEW k \in 1..(n + 1)
      PROVE  <<t[k], g[k], g[k + 1]>> \in R
  <2>1. CASE k = n + 1
    <3>1. k + 1 = n + 2
      BY <1>2, <2>1
    <3>2. QED
      BY <1>1, <1>2, <1>3, <2>1, <3>1
  <2>2. CASE k \in 1..n
    <3>1. k \in 1..(n + 1) /\ k + 1 \in 1..(n + 1)
      BY <1>2, <2>2
    <3>2. t[k] = s[k] /\ g[k] = h[k] /\ g[k + 1] = h[k + 1]
      BY <1>2, <1>3, <2>2, <3>1
    <3>3. QED
      BY <1>1, <2>2, <3>2
  <2>3. QED
    BY <1>2, <2>1, <2>2
<1>5. g[1] \in S /\ g[Len(t) + 1] = q
  <2>1. Len(t) + 1 = n + 2
    BY <1>2
  <2>2. QED
    BY <1>1, <1>3, <2>1
<1>6. Path(R, S, t, q)
  BY <1>2, <1>4, <1>5 DEF Path
<1>7. QED
  BY <1>6 DEF t

\* Popping a command takes back the last link.
LEMMA PathPop ==
  ASSUME NEW R, NEW S, NEW C, NEW s \in Seq(C), s # <<>>, NEW q, Path(R, S, s, q)
  PROVE  \E p : <<Last(s), p, q>> \in R /\ Path(R, S, Front(s), p)
<1> DEFINE n == Len(s)
           t == Front(s)
<1>1. PICK h : /\ h[1] \in S
               /\ h[n + 1] = q
               /\ \A k \in 1..n : <<s[k], h[k], h[k + 1]>> \in R
  BY DEF Path
<1>2. /\ n \in Nat \ {0} /\ Len(t) = n - 1
      /\ \A k \in 1..(n - 1) : t[k] = s[k]
      /\ Last(s) = s[n]
  BY FrontFacts DEF Last
<1> HIDE DEF n, t
<1>3. <<Last(s), h[n], q>> \in R
  BY <1>1, <1>2
<1>4. Len(t) + 1 = n /\ \A k \in 1..Len(t) : k \in 1..n /\ t[k] = s[k]
  BY <1>2
<1>5. \A k \in 1..Len(t) : <<t[k], h[k], h[k + 1]>> \in R
  BY <1>1, <1>4
<1>6. Path(R, S, t, h[n])
  BY <1>1, <1>4, <1>5 DEF Path
<1>7. QED
  BY <1>3, <1>6 DEF t

\* Taking the first command off a path moves its start along the first link.
LEMMA PathHead ==
  ASSUME NEW R, NEW C, NEW s \in Seq(C), s # <<>>, NEW p, NEW e, Path(R, {p}, s, e)
  PROVE  \E q : <<Head(s), p, q>> \in R /\ Path(R, {q}, Tail(s), e)
<1> DEFINE n == Len(s)
           t == Tail(s)
<1>1. PICK h : /\ h[1] = p
               /\ h[n + 1] = e
               /\ \A k \in 1..n : <<s[k], h[k], h[k + 1]>> \in R
  BY DEF Path
<1>2. /\ n \in Nat \ {0} /\ Len(t) = n - 1
      /\ \A k \in 1..(n - 1) : t[k] = s[k + 1]
      /\ Head(s) = s[1]
  OBVIOUS
<1> HIDE DEF n, t
<1> DEFINE g == [k \in 1..n |-> h[k + 1]]
<1>3. 1 \in 1..n /\ n \in 1..n /\ Len(t) + 1 = n
  BY <1>2
<1>4. g[1] = h[2] /\ g[n] = h[n + 1]
  <2>1. 1 + 1 = 2
    OBVIOUS
  <2>2. QED
    BY <1>3, <2>1
<1>5. \A k \in 1..Len(t) : <<t[k], g[k], g[k + 1]>> \in R
  <2>1. ASSUME NEW k \in 1..Len(t)
        PROVE  <<t[k], g[k], g[k + 1]>> \in R
    <3>1. k \in 1..n /\ k + 1 \in 1..n /\ k \in 1..(n - 1)
      BY <1>2
    <3>2. g[k] = h[k + 1] /\ g[k + 1] = h[k + 1 + 1] /\ t[k] = s[k + 1]
      BY <1>2, <3>1
    <3>3. QED
      BY <1>1, <3>1, <3>2
  <2>2. QED
    BY <2>1
<1> HIDE DEF g
<1>6. Path(R, {h[2]}, t, e)
  <2>1. g[1] \in {h[2]} /\ g[Len(t) + 1] = e
    BY <1>1, <1>3, <1>4
  <2>2. QED
    BY <1>5, <2>1 DEF Path
<1>7. <<Head(s), p, h[2]>> \in R
  <2>1. <<s[1], h[1], h[1 + 1]>> \in R /\ 1 + 1 = 2
    BY <1>1, <1>3
  <2>2. QED
    BY <1>1, <1>2, <2>1
<1>8. QED
  BY <1>6, <1>7 DEF t

\* A path whose places and commands are mapped so that links stay links.
LEMMA PathMap ==
  ASSUME NEW R, NEW Q, NEW S, NEW T, NEW s, NEW t, NEW g, NEW p,
         Len(s) \in Nat, Len(t) = Len(s),
         \A k \in 1..Len(s) : \A A, B :
           <<s[k], A, B>> \in R => <<t[k], g[A], g[B]>> \in Q,
         \A x \in S : g[x] \in T,
         Path(R, S, s, p)
  PROVE  Path(Q, T, t, g[p])
<1> DEFINE n == Len(s)
<1>1. PICK h : /\ h[1] \in S
               /\ h[n + 1] = p
               /\ \A k \in 1..n : <<s[k], h[k], h[k + 1]>> \in R
  BY DEF Path
<1> DEFINE f == [k \in 1..(n + 1) |-> g[h[k]]]
<1>2. n \in Nat /\ Len(t) = n
  OBVIOUS
<1>3. \A k \in 1..n : \A A, B : <<s[k], A, B>> \in R => <<t[k], g[A], g[B]>> \in Q
  OBVIOUS
<1> HIDE DEF n
<1>4. 1 \in 1..(n + 1) /\ n + 1 \in 1..(n + 1)
      /\ \A k \in 1..n : k \in 1..(n + 1) /\ k + 1 \in 1..(n + 1)
  BY <1>2
<1>5. \A k \in 1..(n + 1) : f[k] = g[h[k]]
  OBVIOUS
<1> HIDE DEF f
<1>6. f[1] \in T /\ f[n + 1] = g[p]
  BY <1>1, <1>4, <1>5
<1>7. ASSUME NEW k \in 1..n
      PROVE  <<t[k], f[k], f[k + 1]>> \in Q
  <2>1. f[k] = g[h[k]] /\ f[k + 1] = g[h[k + 1]]
    BY <1>4, <1>5
  <2>2. <<t[k], g[h[k]], g[h[k + 1]]>> \in Q
    BY Zenon, <1>1, <1>3
  <2>3. QED
    BY <2>1, <2>2
<1>8. f[Len(t) + 1] = g[p] /\ \A k \in 1..Len(t) : <<t[k], f[k], f[k + 1]>> \in Q
  BY Zenon, <1>2, <1>6, <1>7
<1>9. \E w : /\ w[1] \in T
             /\ w[Len(t) + 1] = g[p]
             /\ \A k \in 1..Len(t) : <<t[k], w[k], w[k + 1]>> \in Q
  BY Zenon, <1>6, <1>8
<1>10. QED
  BY Zenon, <1>9 DEF Path

-----------------------------------------------------------------------------
(* Links.                                                                  *)

\* What the members of AnnotLinks and FieldLinks are.
LEMMA LinkFacts ==
  ASSUME NEW c, NEW A, NEW B
  PROVE  /\ <<c, A, B>> \in AnnotLinks <=>
              /\ c \in Command /\ A \in SUBSET Annot /\ B \in SUBSET Annot
              /\ AnnotLink(c, A, B)
         /\ <<c, A, B>> \in FieldLinks <=>
              /\ c \in Command /\ A \in Seq(Field) /\ B \in Seq(Field)
              /\ FieldLink(c, A, B)
BY DEF AnnotLinks, FieldLinks

\* Reversed links are links.
LEMMA BackFacts ==
  ASSUME NEW c, NEW A, NEW B
  PROVE  /\ <<c, A, B>> \in Back(AnnotLinks) <=> <<c, B, A>> \in AnnotLinks
         /\ <<c, A, B>> \in Back(FieldLinks) <=> <<c, B, A>> \in FieldLinks
<1>1. ASSUME NEW R, NEW X, R \subseteq Command \X X \X X
      PROVE  <<c, A, B>> \in Back(R) <=> <<c, B, A>> \in R
  <2>1. ASSUME <<c, A, B>> \in Back(R)
        PROVE  <<c, B, A>> \in R
    <3>1. PICK l \in R : <<c, A, B>> = <<l[1], l[3], l[2]>>
      BY <2>1 DEF Back
    <3>2. l = <<l[1], l[2], l[3]>>
      BY <1>1
    <3>3. QED
      BY <3>1, <3>2
  <2>2. ASSUME <<c, B, A>> \in R
        PROVE  <<c, A, B>> \in Back(R)
    <3> DEFINE l == <<c, B, A>>
    <3>1. l \in R /\ <<c, A, B>> = <<l[1], l[3], l[2]>>
      BY <2>2
    <3>2. QED
      BY <3>1 DEF Back
  <2>3. QED
    BY <2>1, <2>2
<1>2. /\ AnnotLinks \subseteq Command \X (SUBSET Annot) \X (SUBSET Annot)
      /\ FieldLinks \subseteq Command \X Seq(Field) \X Seq(Field)
  BY DEF AnnotLinks, FieldLinks
<1>3. QED
  BY <1>1, <1>2

\* A command leads from one content to another exactly if it does so for the
\* annotations and for the form.
LEMMA LinkParts ==
  ASSUME NEW c \in Command, NEW p \in Content, NEW q \in Content
  PROVE  (Links(c, p, q) /\ (c.type \in AnnotTypes => c.id \in ValidId)) <=>
           /\ <<c, p.annots, q.annots>> \in AnnotLinks
           /\ <<c, p.fields, q.fields>> \in FieldLinks
<1> DEFINE A == p.annots
           B == q.annots
           F == p.fields
           G == q.fields
<1>1. /\ A \in SUBSET Annot /\ B \in SUBSET Annot /\ F \in Seq(Field) /\ G \in Seq(Field)
      /\ p = [annots |-> A, fields |-> F] /\ q = [annots |-> B, fields |-> G]
  BY DEF Content
<1> HIDE DEF A, B, F, G
<1>2. SUFFICES (Links(c, p, q) /\ (c.type \in AnnotTypes => c.id \in ValidId)) <=>
                 AnnotLink(c, A, B) /\ FieldLink(c, F, G)
  BY <1>1, <1>2, LinkFacts DEF A, B, F, G
<1> DEFINE a == [annots |-> A, fields |-> <<>>]
           b == [annots |-> B, fields |-> <<>>]
           f == [annots |-> {}, fields |-> F]
           g == [annots |-> {}, fields |-> G]
<1>3. CASE c.type = "ADD_ANNOT"
  <2>1. Links(c, p, q) <=>
          /\ Without(p, c.id) = p.annots
          /\ q = [annots |-> p.annots \cup {[id |-> c.id, rect |-> c.after]}, fields |-> p.fields]
    BY <1>3, AddIs
  <2>2. Links(c, a, b) <=>
          /\ Without(a, c.id) = a.annots
          /\ b = [annots |-> a.annots \cup {[id |-> c.id, rect |-> c.after]}, fields |-> a.fields]
    BY <1>3, AddIs
  <2>3. QED
    BY <1>1, <1>3, <2>1, <2>2 DEF AnnotLink, FieldLink, AnnotTypes, Without
<1>4. CASE c.type = "MOVE"
  <2>1. Links(c, p, q) <=>
          /\ Holds(p, c.id, c.before)
          /\ q = [annots |-> Without(p, c.id) \cup {[id |-> c.id, rect |-> c.after]},
                  fields |-> p.fields]
    BY <1>4, MoveIs
  <2>2. Links(c, a, b) <=>
          /\ Holds(a, c.id, c.before)
          /\ b = [annots |-> Without(a, c.id) \cup {[id |-> c.id, rect |-> c.after]},
                  fields |-> a.fields]
    BY <1>4, MoveIs
  <2>3. QED
    BY <1>1, <1>4, <2>1, <2>2 DEF AnnotLink, FieldLink, AnnotTypes, Without, Holds
<1>5. CASE c.type = "DELETE"
  <2>1. Links(c, p, q) <=>
          Holds(p, c.id, c.before) /\ q = [annots |-> Without(p, c.id), fields |-> p.fields]
    BY <1>5, DeleteIs
  <2>2. Links(c, a, b) <=>
          Holds(a, c.id, c.before) /\ b = [annots |-> Without(a, c.id), fields |-> a.fields]
    BY <1>5, DeleteIs
  <2>3. QED
    BY <1>1, <1>5, <2>1, <2>2 DEF AnnotLink, FieldLink, AnnotTypes, Without, Holds
<1>6. CASE c.type = "FORM_SET"
  <2> DEFINE Set(x, y) ==
               \E i \in 1..Len(x) :
                 /\ x[i] = [name |-> c.name, value |-> c.old]
                 /\ \A j \in 1..(i - 1) : x[j].name # c.name
                 /\ y = [x EXCEPT ![i] = [name |-> c.name, value |-> c.new]]
  <2>1. Links(c, p, q) <=> A = B /\ Set(F, G)
    <3>1. p.fields = F /\ p.annots = A /\ \A x : q = [annots |-> A, fields |-> x] <=> A = B /\ G = x
      BY <1>1
    <3>2. Links(c, p, q) <=>
            \E i \in 1..Len(F) :
              /\ F[i] = [name |-> c.name, value |-> c.old]
              /\ \A j \in 1..(i - 1) : F[j].name # c.name
              /\ q = [annots |-> A,
                      fields |-> [F EXCEPT ![i] = [name |-> c.name, value |-> c.new]]]
      BY <1>6, <3>1, SetIs
    <3>3. QED
      BY Zenon, <3>1, <3>2
  <2>2. Links(c, f, g) <=> Set(F, G)
    <3>1. f.fields = F /\ \A x : g = [annots |-> f.annots, fields |-> x] <=> G = x
      BY <1>1
    <3> HIDE DEF f, g
    <3>2. Links(c, f, g) <=>
            \E i \in 1..Len(F) :
              /\ F[i] = [name |-> c.name, value |-> c.old]
              /\ \A j \in 1..(i - 1) : F[j].name # c.name
              /\ g = [annots |-> f.annots,
                      fields |-> [F EXCEPT ![i] = [name |-> c.name, value |-> c.new]]]
      BY <1>6, <3>1, SetIs
    <3>3. QED
      BY Zenon, <3>1, <3>2
  <2>3. c.type \notin AnnotTypes
    BY <1>6 DEF AnnotTypes
  <2> HIDE DEF Set, a, b
  <2>4. (AnnotLink(c, A, B) <=> A = B) /\ (FieldLink(c, F, G) <=> Links(c, f, g))
    BY Zenon, <2>3 DEF AnnotLink, FieldLink
  <2>5. QED
    BY Zenon, <2>1, <2>2, <2>3, <2>4
<1>7. CASE c.type = "FORM_FLATTEN"
  <2>1. Links(c, p, q) <=> c.fields = p.fields /\ q = [annots |-> p.annots, fields |-> <<>>]
    BY <1>7, FlattenIs
  <2>2. Links(c, f, g) <=> c.fields = f.fields /\ g = [annots |-> f.annots, fields |-> <<>>]
    <3> HIDE DEF f, g
    <3>1. QED
      BY <1>7, FlattenIs
  <2>3. c.type \notin AnnotTypes
    BY <1>7 DEF AnnotTypes
  <2>4. /\ Links(c, p, q) <=> c.fields = F /\ A = B /\ G = <<>>
        /\ Links(c, f, g) <=> c.fields = F /\ G = <<>>
    <3>1. /\ p.fields = F /\ p.annots = A /\ f.fields = F
          /\ q = [annots |-> A, fields |-> <<>>] <=> A = B /\ G = <<>>
          /\ g = [annots |-> f.annots, fields |-> <<>>] <=> G = <<>>
      BY <1>1
    <3> HIDE DEF f, g
    <3>2. QED
      BY Zenon, <2>1, <2>2, <3>1
  <2> HIDE DEF a, b
  <2>5. (AnnotLink(c, A, B) <=> A = B) /\ (FieldLink(c, F, G) <=> Links(c, f, g))
    BY Zenon, <2>3 DEF AnnotLink, FieldLink
  <2>6. QED
    BY Zenon, <2>3, <2>4, <2>5
<1>8. QED
  BY <1>3, <1>4, <1>5, <1>6, <1>7, CommandFacts

\* The content of a document by its two parts.
LEMMA PartsOf ==
  ASSUME NEW d \in Doc
  PROVE  /\ ContentOf(d) \in Content
         /\ ContentOf(d).annots = AnnotsOf(d)
         /\ ContentOf(d).fields = d.fields
         /\ AnnotsOf(d) \in SUBSET Annot
         /\ d.fields \in Seq(Field)
BY DEF ContentOf, AnnotsOf, Content, Doc, ToSet

\* A command on annotations leads from one content to another whatever the form is.
LEMMA AnnotOnly ==
  ASSUME NEW c \in Command, c.type \in AnnotTypes, NEW A, NEW B, <<c, A, B>> \in AnnotLinks,
         NEW F \in Seq(Field)
  PROVE  /\ Links(c, [annots |-> A, fields |-> F], [annots |-> B, fields |-> F])
         /\ [annots |-> A, fields |-> F] \in Content
         /\ [annots |-> B, fields |-> F] \in Content
         /\ c.id \in ValidId
<1> DEFINE p == [annots |-> A, fields |-> F]
           q == [annots |-> B, fields |-> F]
<1>1. p \in Content /\ q \in Content
  BY LinkFacts DEF Content
<1>2. <<c, F, F>> \in FieldLinks
  BY LinkFacts DEF FieldLink
<1>3. p.annots = A /\ q.annots = B /\ p.fields = F /\ q.fields = F
  OBVIOUS
<1> HIDE DEF p, q
<1>4. Links(c, p, q) /\ (c.type \in AnnotTypes => c.id \in ValidId)
  BY <1>1, <1>2, <1>3, LinkParts
<1>5. QED
  BY <1>1, <1>4 DEF p, q

\* A command on the form leaves the annotations alone.
LEMMA FormOnly ==
  ASSUME NEW c \in Command, c.type \notin AnnotTypes, NEW A, NEW B, <<c, A, B>> \in AnnotLinks
  PROVE  A = B
BY LinkFacts DEF AnnotLink

\* On the type of a command that is not about annotations.
LEMMA OtherTypes ==
  ASSUME NEW c \in Command, c.type \notin AnnotTypes
  PROVE  c.type \in {"FORM_SET", "FORM_FLATTEN"}
BY CommandFacts DEF AnnotTypes

-----------------------------------------------------------------------------
(* What the calls do to documents, whoever wrote the commands.             *)

\* Writing one place of a sequence, or a place it does not have, gives a sequence.
LEMMA WriteFacts ==
  ASSUME NEW S, NEW s \in Seq(S), NEW i, NEW e \in S
  PROVE  [s EXCEPT ![i] = e] \in Seq(S)
<1> DEFINE t == [s EXCEPT ![i] = e]
<1>1. s \in [1..Len(s) -> S] /\ Len(s) \in Nat
  OBVIOUS
<1>2. t \in [1..Len(s) -> S]
  BY <1>1
<1> HIDE DEF t
<1>3. t \in Seq(S)
  BY <1>1, <1>2
<1>4. QED
  BY <1>3 DEF t

\* A search that fails finds index 0, and removing there removes nothing: every
\* mutation of a document gives a document.
LEMMA AddsTyped ==
  ASSUME NEW d \in Doc, NEW id \in AnnotId, NEW rect \in Rect
  PROVE  /\ AnnotInsert(d, id, rect) \in Doc
         /\ AnnotRemove(d, id) \in Doc
         /\ SetRect(d, id, rect) \in Doc
<1>1. d.annots \in Seq(Annot) /\ d.fields \in Seq(Field)
  BY DEF Doc
<1>2. [id |-> id, rect |-> rect] \in Annot
  BY DEF Annot
<1>3. AnnotInsert(d, id, rect) \in Doc
  <2>1. Append(d.annots, [id |-> id, rect |-> rect]) \in Seq(Annot)
    BY <1>1, <1>2
  <2>2. QED
    BY <1>1, <2>1 DEF AnnotInsert, Doc
<1>4. AnnotRemove(d, id) \in Doc
  <2> DEFINE s == d.annots
             i == AnnotIndex(d, id)
             u == SubSeq(s, 1, i - 1)
             v == SubSeq(s, i + 1, Len(s))
  <2>1. i \in 0..Len(s) /\ s \in Seq(Annot) /\ Len(s) \in Nat
    BY <1>1, AnnotIndexFinds
  <2> HIDE DEF s, i
  <2>2. u \in Seq(Annot) /\ v \in Seq(Annot)
    BY <2>1
  <2> HIDE DEF u, v
  <2>3. u \o v \in Seq(Annot)
    BY <2>2
  <2>4. RemoveAt(s, i) \in Seq(Annot)
    BY <2>3 DEF RemoveAt, u, v
  <2>5. QED
    BY <1>1, <2>4 DEF AnnotRemove, Doc, s, i
<1>5. SetRect(d, id, rect) \in Doc
  <2>1. [d.annots EXCEPT ![AnnotIndex(d, id)] = [id |-> id, rect |-> rect]] \in Seq(Annot)
    BY <1>1, <1>2, WriteFacts
  <2>2. QED
    BY <1>1, <2>1 DEF SetRect, Doc
<1>6. QED
  BY <1>3, <1>4, <1>5

\* The same for the form.
LEMMA FieldsTyped ==
  ASSUME NEW d \in Doc
  PROVE  /\ \A name \in FieldName, value \in Value : SetValue(d, name, value) \in Doc
         /\ \A fields \in Seq(Field) : SetFields(d, fields) \in Doc
<1>1. d.annots \in Seq(Annot) /\ d.fields \in Seq(Field)
  BY DEF Doc
<1>2. ASSUME NEW name \in FieldName, NEW value \in Value
      PROVE  SetValue(d, name, value) \in Doc
  <2>1. [name |-> name, value |-> value] \in Field
    BY DEF Field
  <2>2. [d.fields EXCEPT ![FieldIndex(d, name)] = [name |-> name, value |-> value]] \in Seq(Field)
    BY <1>1, <2>1, WriteFacts
  <2>3. QED
    BY <1>1, <2>2 DEF SetValue, Doc
<1>3. \A fields \in Seq(Field) : SetFields(d, fields) \in Doc
  BY <1>1 DEF SetFields, Doc
<1>4. QED
  BY <1>2, <1>3

\* Performing and reversing a command gives a document, whoever wrote the command.
LEMMA MovesTyped ==
  ASSUME NEW d \in Doc, NEW c \in Command
  PROVE  Forward(d, c) \in Doc /\ Backward(d, c) \in Doc
<1>1. <<>> \in Seq(Field)
  OBVIOUS
<1>2. CASE c.type = "ADD_ANNOT"
  <2>1. c.id \in AnnotId /\ c.after \in Rect
    BY <1>2, CommandFacts
  <2>2. AnnotInsert(d, c.id, c.after) \in Doc /\ AnnotRemove(d, c.id) \in Doc
    BY <2>1, AddsTyped
  <2>3. QED
    BY <1>2, <2>2, AddIs
<1>3. CASE c.type = "MOVE"
  <2>1. c.id \in AnnotId /\ c.after \in Rect /\ c.before \in Rect
    BY <1>3, CommandFacts
  <2>2. SetRect(d, c.id, c.after) \in Doc /\ SetRect(d, c.id, c.before) \in Doc
    BY <2>1, AddsTyped
  <2>3. QED
    BY <1>3, <2>2, MoveIs
<1>4. CASE c.type = "DELETE"
  <2>1. c.id \in AnnotId /\ c.before \in Rect
    BY <1>4, CommandFacts
  <2>2. AnnotInsert(d, c.id, c.before) \in Doc /\ AnnotRemove(d, c.id) \in Doc
    BY <2>1, AddsTyped
  <2>3. QED
    BY <1>4, <2>2, DeleteIs
<1>5. CASE c.type = "FORM_SET"
  <2>1. c.name \in FieldName /\ c.old \in Value /\ c.new \in Value
    BY <1>5, CommandFacts
  <2>2. SetValue(d, c.name, c.new) \in Doc /\ SetValue(d, c.name, c.old) \in Doc
    BY Zenon, <2>1, FieldsTyped
  <2>3. QED
    BY Zenon, <1>5, <2>2 DEF Forward, Backward
<1>6. CASE c.type = "FORM_FLATTEN"
  <2>1. c.fields \in Seq(Field)
    BY <1>6, CommandFacts
  <2>2. SetFields(d, <<>>) \in Doc /\ SetFields(d, c.fields) \in Doc
    BY <1>1, <2>1, FieldsTyped
  <2>3. QED
    BY <1>6, <2>2, FlattenIs
<1>7. QED
  BY <1>2, <1>3, <1>4, <1>5, <1>6, CommandFacts

\* The request made from a command that was read.
LEMMA RequestOf ==
  ASSUME NEW c \in Command
  PROVE  /\ AsRequest(c) \in Request
         /\ AsRequest(c).type = c.type
         /\ c.type \in {"ADD_ANNOT", "MOVE"} =>
              AsRequest(c) = [type |-> c.type, id |-> c.id, after |-> c.after]
         /\ c.type = "DELETE" => AsRequest(c) = [type |-> "DELETE", id |-> c.id]
         /\ c.type = "FORM_SET" => AsRequest(c) = [type |-> "FORM_SET", name |-> c.name, new |-> c.new]
         /\ c.type = "FORM_FLATTEN" => AsRequest(c) = [type |-> "FORM_FLATTEN"]
<1>1. CASE c.type \in {"ADD_ANNOT", "MOVE"}
  <2>1. AsRequest(c) = [type |-> c.type, id |-> c.id, after |-> c.after]
    BY <1>1 DEF AsRequest
  <2>2. c.id \in AnnotId /\ c.after \in Rect
    BY <1>1, CommandFacts
  <2>3. QED
    BY <1>1, <2>1, <2>2 DEF Request
<1>2. CASE c.type = "DELETE"
  <2>1. AsRequest(c) = [type |-> "DELETE", id |-> c.id]
    BY <1>2 DEF AsRequest
  <2>2. c.id \in AnnotId
    BY <1>2, CommandFacts
  <2>3. QED
    BY <1>2, <2>1, <2>2 DEF Request
<1>3. CASE c.type = "FORM_SET"
  <2>1. AsRequest(c) = [type |-> "FORM_SET", name |-> c.name, new |-> c.new]
    BY <1>3 DEF AsRequest
  <2>2. c.name \in FieldName /\ c.new \in Value
    BY <1>3, CommandFacts
  <2>3. QED
    BY <1>3, <2>1, <2>2 DEF Request
<1>4. CASE c.type = "FORM_FLATTEN"
  <2>1. AsRequest(c) = [type |-> "FORM_FLATTEN"]
    BY <1>4 DEF AsRequest
  <2>2. QED
    BY <1>4, <2>1 DEF Request
<1>5. QED
  BY <1>1, <1>2, <1>3, <1>4, CommandFacts

\* What is captured for a request asks for the same when it is read again.
LEMMA RequestKept ==
  ASSUME NEW d \in Doc, NEW r \in Request, Applicable(d, r)
  PROVE  AsRequest(Captured(d, r)) = r
<1> DEFINE c == Captured(d, r)
<1>1. c \in Command /\ c.type = r.type
  BY CapturedTyped
<1>2. CASE r.type = "ADD_ANNOT"
  <2>1. c = [type |-> "ADD_ANNOT", id |-> r.id, after |-> r.after]
    BY <1>2, AddIs
  <2>2. r = [type |-> r.type, id |-> r.id, after |-> r.after]
    BY <1>2 DEF Request
  <2>3. c.id = r.id /\ c.after = r.after
    BY <2>1
  <2> HIDE DEF c
  <2>4. AsRequest(c) = r
    BY <1>1, <1>2, <2>2, <2>3, RequestOf
  <2>5. QED
    BY <2>4 DEF c
<1>3. CASE r.type = "MOVE"
  <2>1. c = [type |-> "MOVE", id |-> r.id, before |-> d.annots[AnnotIndex(d, r.id)].rect,
             after |-> r.after]
    BY <1>3, MoveIs
  <2>2. r = [type |-> r.type, id |-> r.id, after |-> r.after]
    BY <1>3 DEF Request
  <2>3. c.id = r.id /\ c.after = r.after
    BY <2>1
  <2> HIDE DEF c
  <2>4. AsRequest(c) = r
    BY <1>1, <1>3, <2>2, <2>3, RequestOf
  <2>5. QED
    BY <2>4 DEF c
<1>4. CASE r.type = "DELETE"
  <2>1. c = [type |-> "DELETE", id |-> r.id, before |-> d.annots[AnnotIndex(d, r.id)].rect]
    BY <1>4, DeleteIs
  <2>2. r = [type |-> "DELETE", id |-> r.id]
    BY <1>4 DEF Request
  <2>3. c.id = r.id
    BY <2>1
  <2> HIDE DEF c
  <2>4. AsRequest(c) = r
    BY <1>1, <1>4, <2>2, <2>3, RequestOf
  <2>5. QED
    BY <2>4 DEF c
<1>5. CASE r.type = "FORM_SET"
  <2>1. c = [type |-> "FORM_SET", name |-> r.name,
             old |-> d.fields[FieldIndex(d, r.name)].value, new |-> r.new]
    BY Zenon, <1>5 DEF Captured
  <2>2. r = [type |-> "FORM_SET", name |-> r.name, new |-> r.new]
    BY <1>5 DEF Request
  <2>3. c.name = r.name /\ c.new = r.new
    BY <2>1
  <2> HIDE DEF c
  <2>4. AsRequest(c) = r
    BY <1>1, <1>5, <2>2, <2>3, RequestOf
  <2>5. QED
    BY <2>4 DEF c
<1>6. CASE r.type = "FORM_FLATTEN"
  <2>1. r = [type |-> "FORM_FLATTEN"]
    BY <1>6 DEF Request
  <2> HIDE DEF c
  <2>2. AsRequest(c) = r
    BY <1>1, <1>6, <2>1, RequestOf
  <2>3. QED
    BY <2>2 DEF c
<1>7. QED
  BY <1>2, <1>3, <1>4, <1>5, <1>6, CapturedTyped

-----------------------------------------------------------------------------
(* What the calls do to documents whose ids are distinct.                  *)

\* pc_txn_apply logs a command that leads from the document to the next one.
LEMMA LoggedLinks ==
  ASSUME NEW d \in Doc, IdsDistinct(d), NEW r \in Request, Applicable(d, r)
  PROVE  LET c == Captured(d, r)
             e == Forward(d, c)
         IN  /\ c \in Command /\ e \in Doc /\ IdsDistinct(e)
             /\ <<c, AnnotsOf(d), AnnotsOf(e)>> \in AnnotLinks
             /\ <<c, d.fields, e.fields>> \in FieldLinks
<1> DEFINE c == Captured(d, r)
           e == Forward(d, c)
<1>1. c \in Command /\ \E q : Links(c, ContentOf(d), q)
  BY CapturedLinks
<1>2. c.type \in AnnotTypes => c.id \in ValidId
  <2>1. CASE r.type = "ADD_ANNOT"
    <3>1. c = [type |-> "ADD_ANNOT", id |-> r.id, after |-> r.after]
      BY <2>1, AddIs
    <3>2. r.id \in ValidId
      BY <2>1 DEF Applicable
    <3>3. QED
      BY <3>1, <3>2
  <2>2. CASE r.type = "MOVE"
    <3>1. c = [type |-> "MOVE", id |-> r.id, before |-> d.annots[AnnotIndex(d, r.id)].rect,
               after |-> r.after]
      BY <2>2, MoveIs
    <3>2. r.id \in ValidId
      BY <2>2 DEF Applicable
    <3>3. QED
      BY <3>1, <3>2
  <2>3. CASE r.type = "DELETE"
    <3>1. c = [type |-> "DELETE", id |-> r.id, before |-> d.annots[AnnotIndex(d, r.id)].rect]
      BY <2>3, DeleteIs
    <3>2. r.id \in ValidId
      BY <2>3 DEF Applicable
    <3>3. QED
      BY <3>1, <3>2
  <2>4. QED
    BY <2>1, <2>2, <2>3, CapturedTyped DEF AnnotTypes
<1> HIDE DEF c
<1>3. e \in Doc /\ IdsDistinct(e) /\ Links(c, ContentOf(d), ContentOf(e))
  BY <1>1, ForwardLinks
<1> HIDE DEF e
<1>4. /\ <<c, ContentOf(d).annots, ContentOf(e).annots>> \in AnnotLinks
      /\ <<c, ContentOf(d).fields, ContentOf(e).fields>> \in FieldLinks
  BY <1>1, <1>2, <1>3, PartsOf, LinkParts
<1>5. QED
  BY <1>1, <1>3, <1>4, PartsOf DEF c, e

\* Applying and reversing again gives a document with the same content.
LEMMA AppliedAndReversed ==
  ASSUME NEW d \in Doc, IdsDistinct(d), NEW r \in Request, Applicable(d, r)
  PROVE  LET c == Captured(d, r)
             e == Backward(Forward(d, c), c)
         IN  e \in Doc /\ IdsDistinct(e) /\ ContentOf(e) = ContentOf(d)
<1> DEFINE c == Captured(d, r)
           b == Forward(d, c)
<1>1. c \in Command /\ \E q : Links(c, ContentOf(d), q)
  BY CapturedLinks
<1> HIDE DEF c
<1>2. b \in Doc /\ IdsDistinct(b) /\ Links(c, ContentOf(d), ContentOf(b))
  BY <1>1, ForwardLinks
<1> HIDE DEF b
<1>3. ContentOf(d) \in Content
  BY PartsOf
<1>4. /\ Backward(b, c) \in Doc /\ IdsDistinct(Backward(b, c))
      /\ ContentOf(Backward(b, c)) = ContentOf(d)
  BY <1>1, <1>2, <1>3, BackwardLinks
<1>5. QED
  BY <1>4 DEF b, c

\* A command that can be performed moves the annotations along its link, even where
\* its effect on the form is not the one it had when it was logged.
LEMMA ForwardAnnots ==
  ASSUME NEW d \in Doc, IdsDistinct(d), NEW c \in Command, NEW B,
         <<c, AnnotsOf(d), B>> \in AnnotLinks
  PROVE  /\ CanForward(d, c) =>
              IdsDistinct(Forward(d, c)) /\ AnnotsOf(Forward(d, c)) = B
         /\ ~CanForward(d, c) => B = AnnotsOf(d)
<1> DEFINE A == AnnotsOf(d)
           F == d.fields
           p == [annots |-> A, fields |-> F]
           q == [annots |-> B, fields |-> F]
<1>1. ContentOf(d) = p /\ F \in Seq(Field)
  BY PartsOf DEF ContentOf
<1>2. CASE c.type \in AnnotTypes
  <2>1. Links(c, ContentOf(d), q)
    BY <1>1, <1>2, AnnotOnly
  <2>2. CanForward(d, c) /\ IdsDistinct(Forward(d, c)) /\ ContentOf(Forward(d, c)) = q
    BY <2>1, ForwardLinks
  <2>3. AnnotsOf(Forward(d, c)) = B
    BY <2>2 DEF ContentOf, AnnotsOf
  <2>4. QED
    BY <2>2, <2>3
<1>3. CASE c.type \notin AnnotTypes
  <2>1. A = B
    BY <1>3, FormOnly
  <2>2. Forward(d, c).annots = d.annots
    BY <1>3, OtherTypes DEF Forward, SetValue, SetFields
  <2>3. QED
    BY <2>1, <2>2 DEF IdsDistinct, AnnotsOf
<1>4. QED
  BY <1>2, <1>3

\* And a command that can be reversed moves them back.
LEMMA BackwardAnnots ==
  ASSUME NEW d \in Doc, IdsDistinct(d), NEW c \in Command, NEW A,
         <<c, A, AnnotsOf(d)>> \in AnnotLinks
  PROVE  /\ CanBackward(d, c) =>
              IdsDistinct(Backward(d, c)) /\ AnnotsOf(Backward(d, c)) = A
         /\ ~CanBackward(d, c) => A = AnnotsOf(d)
<1> DEFINE B == AnnotsOf(d)
           F == d.fields
           p == [annots |-> A, fields |-> F]
           q == [annots |-> B, fields |-> F]
<1>1. ContentOf(d) = q /\ F \in Seq(Field)
  BY PartsOf DEF ContentOf
<1>2. CASE c.type \in AnnotTypes
  <2>1. Links(c, p, ContentOf(d)) /\ p \in Content
    BY <1>1, <1>2, AnnotOnly
  <2> HIDE DEF p
  <2>2. CanBackward(d, c) /\ IdsDistinct(Backward(d, c)) /\ ContentOf(Backward(d, c)) = p
    BY <2>1, BackwardLinks
  <2>3. AnnotsOf(Backward(d, c)) = A
    BY <2>2 DEF ContentOf, AnnotsOf, p
  <2>4. QED
    BY <2>2, <2>3
<1>3. CASE c.type \notin AnnotTypes
  <2>1. A = B
    BY <1>3, FormOnly
  <2>2. Backward(d, c).annots = d.annots
    BY <1>3, OtherTypes DEF Backward, SetValue, SetFields
  <2>3. QED
    BY <2>1, <2>2 DEF IdsDistinct, AnnotsOf
<1>4. QED
  BY <1>2, <1>3

\* On a document the command leads from, a replay applies it and captures it exactly as
\* it was logged, the overwritten rectangle or value included.
LEMMA RecapturedIs ==
  ASSUME NEW d \in Doc, IdsDistinct(d), NEW c \in Command, NEW q, Links(c, ContentOf(d), q),
         c.type \in AnnotTypes => c.id \in ValidId
  PROVE  Applicable(d, AsRequest(c)) /\ Captured(d, AsRequest(c)) = c
<1> DEFINE r == AsRequest(c)
           p == ContentOf(d)
           i == AnnotIndex(d, c.id)
<1>1. r.type = c.type
  BY RequestOf
<1>2. CASE c.type = "ADD_ANNOT"
  <2>1. r = [type |-> "ADD_ANNOT", id |-> c.id, after |-> c.after]
    BY <1>2, RequestOf
  <2>2. r.id = c.id /\ r.after = c.after
    BY <2>1
  <2>3. Without(p, c.id) = p.annots
    BY <1>2, AddIs
  <2>4. i = 0 /\ c.id \in ValidId
    BY <1>2, <2>3, AbsentIs DEF AnnotTypes
  <2>5. c = [type |-> "ADD_ANNOT", id |-> c.id, after |-> c.after]
    BY <1>2 DEF Command
  <2> HIDE DEF r
  <2>6. /\ Applicable(d, r)
        /\ Captured(d, r) = [type |-> "ADD_ANNOT", id |-> c.id, after |-> c.after]
    BY <1>1, <1>2, <2>2, <2>4, AddIs
  <2>7. QED
    BY <2>5, <2>6 DEF r
<1>3. CASE c.type = "MOVE"
  <2>1. r = [type |-> "MOVE", id |-> c.id, after |-> c.after]
    BY <1>3, RequestOf
  <2>2. r.id = c.id /\ r.after = c.after
    BY <2>1
  <2>3. Holds(p, c.id, c.before)
    BY <1>3, MoveIs
  <2>4. i # 0 /\ d.annots[i].rect = c.before /\ c.id \in ValidId
    BY <1>3, <2>3, PresentIs DEF AnnotTypes
  <2>5. c = [type |-> "MOVE", id |-> c.id, before |-> c.before, after |-> c.after]
    BY <1>3 DEF Command
  <2> HIDE DEF r
  <2>6. /\ Applicable(d, r)
        /\ Captured(d, r) = [type |-> "MOVE", id |-> c.id, before |-> c.before, after |-> c.after]
    BY <1>1, <1>3, <2>2, <2>4, MoveIs
  <2>7. QED
    BY <2>5, <2>6 DEF r
<1>4. CASE c.type = "DELETE"
  <2>1. r = [type |-> "DELETE", id |-> c.id]
    BY <1>4, RequestOf
  <2>2. r.id = c.id
    BY <2>1
  <2>3. Holds(p, c.id, c.before)
    BY <1>4, DeleteIs
  <2>4. i # 0 /\ d.annots[i].rect = c.before /\ c.id \in ValidId
    BY <1>4, <2>3, PresentIs DEF AnnotTypes
  <2>5. c = [type |-> "DELETE", id |-> c.id, before |-> c.before]
    BY <1>4 DEF Command
  <2> HIDE DEF r
  <2>6. /\ Applicable(d, r)
        /\ Captured(d, r) = [type |-> "DELETE", id |-> c.id, before |-> c.before]
    BY <1>1, <1>4, <2>2, <2>4, DeleteIs
  <2>7. QED
    BY <2>5, <2>6 DEF r
<1>5. CASE c.type = "FORM_SET"
  <2>1. r = [type |-> "FORM_SET", name |-> c.name, new |-> c.new]
    BY <1>5, RequestOf
  <2>2. r.name = c.name /\ r.new = c.new
    BY <2>1
  <2>3. PICK k \in 1..Len(p.fields) :
          /\ p.fields[k] = [name |-> c.name, value |-> c.old]
          /\ \A j \in 1..(k - 1) : p.fields[j].name # c.name
    BY Zenon, <1>5 DEF Links
  <2>4. k \in 1..Len(d.fields) /\ d.fields[k].name = c.name /\ d.fields[k].value = c.old
        /\ \A j \in 1..(k - 1) : d.fields[j].name # c.name
    BY <2>3, PartsOf
  <2>5. FieldIndex(d, c.name) = k /\ k # 0
    BY <2>4, FieldIndexIs
  <2>6. c = [type |-> "FORM_SET", name |-> c.name, old |-> c.old, new |-> c.new]
    BY <1>5 DEF Command
  <2> HIDE DEF r
  <2>7. Applicable(d, r)
    <3>1. FieldIndex(d, r.name) # 0
      BY <2>2, <2>5
    <3>2. QED
      BY Zenon, <1>1, <1>5, <3>1 DEF Applicable
  <2>8. Captured(d, r) = [type |-> "FORM_SET", name |-> r.name,
                          old |-> d.fields[FieldIndex(d, r.name)].value, new |-> r.new]
    BY Zenon, <1>1, <1>5 DEF Captured
  <2>9. Captured(d, r) = c
    BY <2>2, <2>4, <2>5, <2>6, <2>8
  <2>10. QED
    BY <2>7, <2>9 DEF r
<1>6. CASE c.type = "FORM_FLATTEN"
  <2>1. c.fields = d.fields
    BY <1>6, FlattenIs, PartsOf
  <2>2. c = [type |-> "FORM_FLATTEN", fields |-> c.fields]
    BY <1>6 DEF Command
  <2> HIDE DEF r
  <2>3. Applicable(d, r) /\ Captured(d, r) = [type |-> "FORM_FLATTEN", fields |-> d.fields]
    BY <1>1, <1>6, FlattenIs
  <2>4. QED
    BY <2>1, <2>2, <2>3 DEF r
<1>7. QED
  BY <1>2, <1>3, <1>4, <1>5, <1>6, CommandFacts

\* A command leads from given annotations to one set of annotations only.
LEMMA LinkDetermines ==
  ASSUME NEW c \in Command, NEW A, NEW B, NEW D,
         <<c, A, B>> \in AnnotLinks, <<c, A, D>> \in AnnotLinks
  PROVE  B = D
<1>1. CASE c.type \in AnnotTypes
  <2> DEFINE p == [annots |-> A, fields |-> <<>>]
             x == [annots |-> B, fields |-> <<>>]
             y == [annots |-> D, fields |-> <<>>]
  <2>1. Links(c, p, x) /\ Links(c, p, y)
    BY <1>1, LinkFacts DEF AnnotLink
  <2> HIDE DEF p, x, y
  <2>2. x = y
    <3> DEFINE n == {[id |-> c.id, rect |-> c.after]}
    <3>1. CASE c.type = "ADD_ANNOT"
      <4>1. /\ x = [annots |-> p.annots \cup n, fields |-> p.fields]
            /\ y = [annots |-> p.annots \cup n, fields |-> p.fields]
        BY Zenon, <2>1, <3>1 DEF Links
      <4>2. QED
        BY Zenon, <4>1
    <3>2. CASE c.type = "MOVE"
      <4>1. /\ x = [annots |-> Without(p, c.id) \cup n, fields |-> p.fields]
            /\ y = [annots |-> Without(p, c.id) \cup n, fields |-> p.fields]
        BY Zenon, <2>1, <3>2 DEF Links
      <4>2. QED
        BY Zenon, <4>1
    <3>3. CASE c.type = "DELETE"
      BY <2>1, <3>3, DeleteIs
    <3>4. QED
      BY <1>1, <3>1, <3>2, <3>3 DEF AnnotTypes
  <2>3. QED
    BY <2>2 DEF x, y
<1>2. CASE c.type \notin AnnotTypes
  BY <1>2, FormOnly
<1>3. QED
  BY <1>1, <1>2

\* A replayed command moves the annotations along the link of the command that was read,
\* and what it leaves on the undo stack has the same link.
LEMMA ReplayAnnots ==
  ASSUME NEW d \in Doc, IdsDistinct(d), NEW c \in Command, NEW B,
         <<c, AnnotsOf(d), B>> \in AnnotLinks, Applicable(d, AsRequest(c))
  PROVE  LET k == Captured(d, AsRequest(c))
         IN  /\ AnnotsOf(Forward(d, k)) = B
             /\ <<k, AnnotsOf(d), B>> \in AnnotLinks
<1> DEFINE r == AsRequest(c)
           k == Captured(d, r)
           e == Forward(d, k)
           A == AnnotsOf(d)
<1>1. r \in Request /\ r.type = c.type
  BY RequestOf
<1> HIDE DEF r
<1>2. k \in Command /\ k.type = c.type
  BY <1>1, CapturedTyped DEF r
<1>3. <<k, A, AnnotsOf(e)>> \in AnnotLinks
  BY <1>1, LoggedLinks DEF r
<1> HIDE DEF k, e
<1>4. CASE c.type \in AnnotTypes
  <2>1. ContentOf(d) = [annots |-> A, fields |-> d.fields] /\ d.fields \in Seq(Field)
    BY PartsOf DEF ContentOf
  <2>2. Links(c, ContentOf(d), [annots |-> B, fields |-> d.fields]) /\ c.id \in ValidId
    BY <1>4, <2>1, AnnotOnly
  <2>3. k = c
    BY <2>2, RecapturedIs DEF k, r
  <2>4. AnnotsOf(e) = B
    BY <1>3, <2>3, LinkDetermines
  <2>5. QED
    BY <1>3, <2>4 DEF k, e, r
<1>5. CASE c.type \notin AnnotTypes
  <2>1. A = B
    BY <1>5, FormOnly
  <2>2. A = AnnotsOf(e)
    BY <1>2, <1>3, <1>5, FormOnly
  <2>3. QED
    BY <1>3, <2>1, <2>2 DEF k, e, r
<1>6. QED
  BY <1>4, <1>5

-----------------------------------------------------------------------------
(* Saving.                                                                 *)

\* A command that is saved keeps its type, its request but for the rounding, and its
\* effect on the form.
LEMMA RoundedTyped ==
  ASSUME NEW c \in Command
  PROVE  /\ Rounded(c) \in Command
         /\ Rounded(c).type = c.type
         /\ c.type \notin AnnotTypes => Rounded(c) = c
         /\ c.type \in AnnotTypes => Rounded(c).id = c.id
         /\ c.type \in {"ADD_ANNOT", "MOVE"} => Rounded(c).after = Round[c.after]
         /\ c.type \in {"MOVE", "DELETE"} => Rounded(c).before = Round[c.before]
<1>1. Round \in [Rect -> Rect]
  BY RoundAssumption
<1>2. CASE c.type = "ADD_ANNOT"
  <2>1. c = [type |-> "ADD_ANNOT", id |-> c.id, after |-> c.after]
        /\ c.id \in AnnotId /\ c.after \in Rect
    BY <1>2 DEF Command
  <2>2. Rounded(c) = [c EXCEPT !.after = Round[@]]
    BY <1>2 DEF Rounded
  <2>3. Rounded(c) = [type |-> "ADD_ANNOT", id |-> c.id, after |-> Round[c.after]]
    BY <2>1, <2>2
  <2>4. QED
    BY <1>1, <1>2, <2>1, <2>3 DEF Command, AnnotTypes
<1>3. CASE c.type = "MOVE"
  <2>1. PICK id \in AnnotId, x \in Rect, y \in Rect :
          c = [type |-> "MOVE", id |-> id, before |-> x, after |-> y]
    BY <1>3 DEF Command
  <2>2. Rounded(c) = [c EXCEPT !.before = Round[@], !.after = Round[@]]
    BY <1>3 DEF Rounded
  <2>3. Rounded(c) = [type |-> "MOVE", id |-> id, before |-> Round[x], after |-> Round[y]]
    BY <2>1, <2>2
  <2>4. QED
    BY <1>1, <1>3, <2>1, <2>3 DEF Command, AnnotTypes
<1>4. CASE c.type = "DELETE"
  <2>1. c = [type |-> "DELETE", id |-> c.id, before |-> c.before]
        /\ c.id \in AnnotId /\ c.before \in Rect
    BY <1>4 DEF Command
  <2>2. Rounded(c) = [c EXCEPT !.before = Round[@]]
    BY <1>4 DEF Rounded
  <2>3. Rounded(c) = [type |-> "DELETE", id |-> c.id, before |-> Round[c.before]]
    BY <2>1, <2>2
  <2>4. QED
    BY <1>1, <1>4, <2>1, <2>3 DEF Command, AnnotTypes
<1>5. CASE c.type \in {"FORM_SET", "FORM_FLATTEN"}
  BY <1>5 DEF Rounded, AnnotTypes
<1>6. QED
  BY <1>2, <1>3, <1>4, <1>5, CommandFacts

\* Rounding a union.
LEMMA RoundedUnion ==
  ASSUME NEW A, NEW B
  PROVE  RoundedAnnots(A \cup B) = RoundedAnnots(A) \cup RoundedAnnots(B)
BY DEF RoundedAnnots

\* Rounding one annotation.
LEMMA RoundedOne ==
  ASSUME NEW id, NEW rect
  PROVE  RoundedAnnots({[id |-> id, rect |-> rect]}) = {[id |-> id, rect |-> Round[rect]]}
BY DEF RoundedAnnots

\* Rounding the annotations with an id, and those without it.
LEMMA RoundedFilter ==
  ASSUME NEW A, NEW id
  PROVE  /\ RoundedAnnots({e \in A : e.id = id}) = {e \in RoundedAnnots(A) : e.id = id}
         /\ RoundedAnnots({e \in A : e.id # id}) = {e \in RoundedAnnots(A) : e.id # id}
BY DEF RoundedAnnots

\* Rounding maps links of the annotations to links.
LEMMA RoundedLinks ==
  ASSUME NEW c, NEW A, NEW B, <<c, A, B>> \in AnnotLinks
  PROVE  <<Rounded(c), RoundedAnnots(A), RoundedAnnots(B)>> \in AnnotLinks
<1> DEFINE k == Rounded(c)
           X == RoundedAnnots(A)
           Y == RoundedAnnots(B)
           a == [annots |-> A, fields |-> <<>>]
           b == [annots |-> B, fields |-> <<>>]
           x == [annots |-> X, fields |-> <<>>]
           y == [annots |-> Y, fields |-> <<>>]
<1>1. c \in Command /\ A \in SUBSET Annot /\ B \in SUBSET Annot /\ AnnotLink(c, A, B)
  BY LinkFacts
<1>2. k \in Command /\ k.type = c.type /\ (c.type \in AnnotTypes => k.id = c.id)
  BY <1>1, RoundedTyped
<1>3. X \in SUBSET Annot /\ Y \in SUBSET Annot
  BY <1>1, RoundAssumption DEF RoundedAnnots, Annot
<1>4. /\ RoundedAnnots({e \in A : e.id = c.id}) = {e \in X : e.id = c.id}
      /\ RoundedAnnots({e \in A : e.id # c.id}) = {e \in X : e.id # c.id}
  <2>1. \A id : /\ RoundedAnnots({e \in A : e.id = id}) = {e \in RoundedAnnots(A) : e.id = id}
                /\ RoundedAnnots({e \in A : e.id # id}) = {e \in RoundedAnnots(A) : e.id # id}
    BY RoundedFilter
  <2>2. QED
    BY Zenon, <2>1
<1> HIDE DEF k, X, Y
<1>5. CASE c.type = "ADD_ANNOT"
  <2>1. Links(c, a, b) /\ c.id \in ValidId /\ k.after = Round[c.after]
    BY <1>1, <1>5, RoundedTyped DEF AnnotLink, AnnotTypes, k
  <2>2. {e \in A : e.id # c.id} = A /\ B = A \cup {[id |-> c.id, rect |-> c.after]}
    BY <1>5, <2>1, AddIs DEF Without
  <2>3. {e \in X : e.id # k.id} = X /\ Y = X \cup {[id |-> k.id, rect |-> k.after]}
    <3>1. k.id = c.id
      BY <1>2, <1>5 DEF AnnotTypes
    <3>2. {e \in X : e.id # c.id} = X
      BY <1>4, <2>2 DEF X
    <3>3. Y = X \cup RoundedAnnots({[id |-> c.id, rect |-> c.after]})
      BY <2>2, RoundedUnion DEF X, Y
    <3>4. Y = X \cup {[id |-> c.id, rect |-> Round[c.after]]}
      BY Zenon, <3>3, RoundedOne
    <3>5. QED
      BY Zenon, <2>1, <3>1, <3>2, <3>4
  <2>4. Links(k, x, y)
    BY <1>2, <1>5, <2>3, AddIs DEF Without
  <2>5. QED
    BY <1>2, <1>3, <1>5, <2>1, <2>4, LinkFacts DEF AnnotLink, AnnotTypes, k, X, Y
<1>6. CASE c.type = "MOVE"
  <2>1. Links(c, a, b) /\ c.id \in ValidId /\ k.after = Round[c.after] /\ k.before = Round[c.before]
    BY <1>1, <1>6, RoundedTyped DEF AnnotLink, AnnotTypes, k
  <2>2. /\ {e \in A : e.id = c.id} = {[id |-> c.id, rect |-> c.before]}
        /\ B = {e \in A : e.id # c.id} \cup {[id |-> c.id, rect |-> c.after]}
    BY <1>6, <2>1, MoveIs DEF Without, Holds
  <2>3. /\ {e \in X : e.id = k.id} = {[id |-> k.id, rect |-> k.before]}
        /\ Y = {e \in X : e.id # k.id} \cup {[id |-> k.id, rect |-> k.after]}
    <3>1. k.id = c.id
      BY <1>2, <1>6 DEF AnnotTypes
    <3>2. {e \in X : e.id = c.id} = {[id |-> c.id, rect |-> Round[c.before]]}
      BY Zenon, <1>4, <2>2, RoundedOne
    <3>3. Y = {e \in X : e.id # c.id} \cup RoundedAnnots({[id |-> c.id, rect |-> c.after]})
      <4>1. Y = RoundedAnnots({e \in A : e.id # c.id} \cup {[id |-> c.id, rect |-> c.after]})
        BY <2>2 DEF Y
      <4>2. QED
        BY Zenon, <1>4, <4>1, RoundedUnion
    <3>4. Y = {e \in X : e.id # c.id} \cup {[id |-> c.id, rect |-> Round[c.after]]}
      BY Zenon, <3>3, RoundedOne
    <3>5. QED
      BY Zenon, <2>1, <3>1, <3>2, <3>4
  <2>4. Links(k, x, y)
    BY <1>2, <1>6, <2>3, MoveIs DEF Without, Holds
  <2>5. QED
    BY <1>2, <1>3, <1>6, <2>1, <2>4, LinkFacts DEF AnnotLink, AnnotTypes, k, X, Y
<1>7. CASE c.type = "DELETE"
  <2>1. Links(c, a, b) /\ c.id \in ValidId /\ k.before = Round[c.before]
    BY <1>1, <1>7, RoundedTyped DEF AnnotLink, AnnotTypes, k
  <2>2. /\ {e \in A : e.id = c.id} = {[id |-> c.id, rect |-> c.before]}
        /\ B = {e \in A : e.id # c.id}
    BY <1>7, <2>1, DeleteIs DEF Without, Holds
  <2>3. /\ {e \in X : e.id = k.id} = {[id |-> k.id, rect |-> k.before]}
        /\ Y = {e \in X : e.id # k.id}
    <3>1. k.id = c.id
      BY <1>2, <1>7 DEF AnnotTypes
    <3>2. {e \in X : e.id = c.id} = {[id |-> c.id, rect |-> Round[c.before]]}
      BY Zenon, <1>4, <2>2, RoundedOne
    <3>3. Y = {e \in X : e.id # c.id}
      BY <1>4, <2>2 DEF Y
    <3>4. QED
      BY Zenon, <2>1, <3>1, <3>2, <3>3
  <2>4. Links(k, x, y)
    BY <1>2, <1>7, <2>3, DeleteIs DEF Without, Holds
  <2>5. QED
    BY <1>2, <1>3, <1>7, <2>1, <2>4, LinkFacts DEF AnnotLink, AnnotTypes, k, X, Y
<1>8. CASE c.type \notin AnnotTypes
  <2>1. A = B
    BY <1>1, <1>8, FormOnly
  <2>2. QED
    BY <1>2, <1>3, <1>8, <2>1, LinkFacts DEF AnnotLink, k, X, Y
<1>9. QED
  BY <1>5, <1>6, <1>7, <1>8 DEF AnnotTypes

\* And it does not touch those of the form.
LEMMA RoundedForm ==
  ASSUME NEW c, NEW F, NEW G, <<c, F, G>> \in FieldLinks
  PROVE  <<Rounded(c), F, G>> \in FieldLinks
<1>1. c \in Command /\ F \in Seq(Field) /\ G \in Seq(Field) /\ FieldLink(c, F, G)
  BY LinkFacts
<1>2. Rounded(c) \in Command /\ Rounded(c).type = c.type
  BY <1>1, RoundedTyped
<1>3. CASE c.type \in AnnotTypes
  <2>1. F = G
    BY <1>1, <1>3 DEF FieldLink
  <2>2. FieldLink(Rounded(c), F, G)
    BY <1>2, <1>3, <2>1 DEF FieldLink
  <2>3. QED
    BY <1>1, <1>2, <2>2, LinkFacts
<1>4. CASE c.type \notin AnnotTypes
  <2>1. Rounded(c) = c
    BY <1>1, <1>4, RoundedTyped
  <2>2. QED
    BY <2>1
<1>5. QED
  BY <1>3, <1>4

-----------------------------------------------------------------------------
(* The inductive invariant.                                                *)

Origin == [own : BOOLEAN, form : SUBSET Seq(Field)]

PersistTypeOK ==
  /\ ir \in Doc
  /\ undo \in Seq(Command) /\ redo \in Seq(Command) /\ todo \in Seq(Command)
  /\ file \in Log /\ loading \in Log
  /\ undo_bytes \in Nat /\ lost \in Nat
  /\ phase \in {"live", "loading", "failed"}
  /\ origin \in Origin
  /\ kept \in [origin : Origin, ir : Doc]

\* The byte count is the size of the undo stack and of what was popped from it and lost.
Counted == undo_bytes = CmdBytes * (Len(undo) + lost)

\* While a log is rebuilt, the undo stack asks for what its first commands asked for, and
\* the others are still to do.
Replaying ==
  phase = "loading" =>
    /\ Len(loading.undo) = Len(undo) + Len(todo)
    /\ \A k \in 1..Len(todo) : todo[k] = loading.undo[Len(undo) + k]
    /\ \A k \in 1..Len(undo) :
         /\ AsRequest(undo[k]) = AsRequest(loading.undo[k])
         /\ undo[k].type = "FORM_FLATTEN" => undo[k] = loading.undo[k]

\* One form at most is the origin of a log, and only of a log of this program.
OneForm(o) ==
  /\ \A x, y \in o.form : x = y
  /\ o.form # {} => o.own

WithinCeilings(n) ==
  /\ MaxTiles > 0 => n <= MaxTiles
  /\ MaxBytes > 0 => CmdBytes * n <= MaxBytes

\* Two stacks meet at p: the commands u lead there from S by links of R, and the commands
\* r, read backwards, from T.
Meet(R, S, T, u, r, p) == Path(R, S, u, p) /\ Path(Back(R), T, r, p)

\* The stacks u and r meet at the annotations A, and fit the budget.
AnnotsMeet(u, r, A) ==
  /\ Meet(AnnotLinks, {{}}, SUBSET Annot, u, r, A)
  /\ WithinCeilings(Len(u) + Len(r))

\* The stacks u and r meet at the form F, the undo stack coming from the form opened.
FormsMeet(forms, u, r, F) == Meet(FieldLinks, forms, Seq(Field), u, r, F)

OwnFile == kept.origin.own => AnnotsMeet(file.undo, file.redo, RoundedAnnots(AnnotsOf(kept.ir)))

OwnSession ==
  origin.own =>
    /\ IdsDistinct(ir)
    /\ phase = "live" => AnnotsMeet(undo, redo, AnnotsOf(ir))
    /\ phase = "loading" =>
         /\ loading = file /\ kept.origin.own
         /\ Path(AnnotLinks, {{}}, undo, AnnotsOf(ir))
         /\ Path(AnnotLinks, {AnnotsOf(ir)}, todo, RoundedAnnots(AnnotsOf(kept.ir)))

SteadyFile ==
  kept.origin.form # {} => FormsMeet(kept.origin.form, file.undo, file.redo, kept.ir.fields)

SteadySession ==
  Steady =>
    /\ phase # "failed" /\ lost = 0
    /\ phase = "live" => FormsMeet(origin.form, undo, redo, ir.fields)
    /\ phase = "loading" =>
         /\ kept.origin.form # {}
         /\ Path(FieldLinks, origin.form, undo, ir.fields)
         /\ Path(FieldLinks, {ir.fields}, todo, kept.ir.fields)
         /\ \A k \in 1..Len(undo) : undo[k] = loading.undo[k]

\* What holds of any log, whoever wrote it, and what holds of the logs of this program.
LogInv == PersistTypeOK /\ Counted /\ Replaying
OriginInv == OneForm(origin) /\ OneForm(kept.origin)
OwnInv == OriginInv /\ OwnFile /\ OwnSession
SteadyInv == SteadyFile /\ SteadySession
PersistInv == LogInv /\ OwnInv /\ SteadyInv

-----------------------------------------------------------------------------
(* Whoever wrote the log: types, bytes and requests.                       *)

\* The bytes of one command more.
LEMMA BytesOf ==
  ASSUME NEW n \in Nat
  PROVE  CmdBytes * n \in Nat /\ CmdBytes * (n + 1) = CmdBytes * n + CmdBytes
BY BudgetAssumption, NatTimesNat

\* Popping and pushing a stack of commands.
LEMMA StackFacts ==
  ASSUME NEW s \in Seq(Command)
  PROVE  /\ Len(s) \in Nat
         /\ \A c \in Command :
              /\ Append(s, c) \in Seq(Command) /\ Len(Append(s, c)) = Len(s) + 1
              /\ Append(s, c)[Len(s) + 1] = c
              /\ \A k \in 1..Len(s) : Append(s, c)[k] = s[k]
         /\ s # <<>> =>
              /\ Front(s) \in Seq(Command) /\ Len(Front(s)) + 1 = Len(s)
              /\ Last(s) \in Command
              /\ Tail(s) \in Seq(Command) /\ Len(Tail(s)) + 1 = Len(s)
              /\ Head(s) \in Command /\ Head(s) = s[1]
              /\ \A k \in 1..Len(Tail(s)) : Tail(s)[k] = s[k + 1]
<1>1. Len(s) \in Nat
  OBVIOUS
<1>2. ASSUME NEW c \in Command
      PROVE  /\ Append(s, c) \in Seq(Command) /\ Len(Append(s, c)) = Len(s) + 1
             /\ Append(s, c)[Len(s) + 1] = c
             /\ \A k \in 1..Len(s) : Append(s, c)[k] = s[k]
  BY AppendProperties
<1>3. ASSUME s # <<>>
      PROVE  /\ Front(s) \in Seq(Command) /\ Len(Front(s)) + 1 = Len(s)
             /\ Last(s) \in Command
             /\ Tail(s) \in Seq(Command) /\ Len(Tail(s)) + 1 = Len(s)
             /\ Head(s) \in Command /\ Head(s) = s[1]
             /\ \A k \in 1..Len(Tail(s)) : Tail(s)[k] = s[k + 1]
  <2>1. /\ Front(s) \in Seq(Command) /\ Len(Front(s)) = Len(s) - 1
        /\ Last(s) \in Command
    BY <1>3, FrontFacts
  <2>2. /\ Tail(s) \in Seq(Command) /\ Len(Tail(s)) = Len(s) - 1 /\ Len(s) # 0
        /\ Head(s) \in Command /\ Head(s) = s[1]
        /\ \A k \in 1..Len(Tail(s)) : Tail(s)[k] = s[k + 1]
    BY <1>3
  <2>3. QED
    BY <1>1, <2>1, <2>2
<1>4. QED
  BY <1>1, <1>2, <1>3

\* A saved stack is the stack, rounded.
LEMMA WrittenFacts ==
  ASSUME NEW s \in Seq(Command)
  PROVE  /\ Written(s) \in Seq(Command)
         /\ Len(Written(s)) = Len(s)
         /\ \A k \in 1..Len(s) : Written(s)[k] = Rounded(s[k])
<1>1. \A k \in 1..Len(s) : Rounded(s[k]) \in Command
  BY RoundedTyped
<1>2. Len(s) \in Nat
  OBVIOUS
<1>3. QED
  BY <1>1, <1>2 DEF Written

\* pc_txn_apply in a session.
LEMMA ApplyKeeps ==
  ASSUME LogInv, phase = "live", NEW r \in Request, Apply(r),
         UNCHANGED <<lost, disk, load, origin>>
  PROVE  LogInv'
<1>1. PersistTypeOK /\ undo_bytes = CmdBytes * (Len(undo) + lost)
  BY DEF LogInv, Counted
<1>2. /\ ir \in Doc /\ undo \in Seq(Command) /\ lost \in Nat /\ undo_bytes \in Nat
      /\ Len(undo) \in Nat
      /\ UNCHANGED <<file, kept, loading, todo, phase, lost, origin>>
  BY <1>1 DEF PersistTypeOK, disk, load
<1>3. Replaying'
  BY <1>2 DEF Replaying
<1>4. CASE ApplyRefused(r)
  BY <1>1, <1>2, <1>3, <1>4 DEF ApplyRefused, LogInv, PersistTypeOK, Counted
<1>5. CASE ApplyOverBudget(r)
  <2>1. /\ Applicable(ir, r) /\ UNCHANGED <<undo, redo, undo_bytes>>
        /\ ir' = Backward(Forward(ir, Captured(ir, r)), Captured(ir, r))
    BY <1>5 DEF ApplyOverBudget
  <2>2. ir' \in Doc
    BY <1>2, <2>1, CapturedTyped, MovesTyped
  <2>3. QED
    BY <1>1, <1>2, <1>3, <2>1, <2>2 DEF LogInv, PersistTypeOK, Counted
<1>6. CASE ApplyLogged(r)
  <2> DEFINE c == Captured(ir, r)
             n == Len(undo) + lost
  <2>1. /\ Applicable(ir, r) /\ ir' = Forward(ir, c)
        /\ undo' = Append(undo, c) /\ redo' = <<>>
        /\ undo_bytes' = undo_bytes + CmdBytes
    BY <1>6 DEF ApplyLogged
  <2>2. c \in Command
    BY <1>2, <2>1, CapturedTyped
  <2> HIDE DEF c
  <2>3. ir' \in Doc /\ undo' \in Seq(Command) /\ Len(undo') = Len(undo) + 1
        /\ redo' \in Seq(Command)
    BY <1>2, <2>1, <2>2, MovesTyped, StackFacts
  <2>4. n \in Nat /\ Len(undo') + lost' = n + 1
    BY <1>2, <2>3
  <2>5. undo_bytes' = CmdBytes * (n + 1) /\ undo_bytes' \in Nat
    <3>1. CmdBytes * (n + 1) = CmdBytes * n + CmdBytes
      BY <2>4, BytesOf
    <3>2. PICK b \in Nat : b = CmdBytes * n
      BY <2>4, BytesOf
    <3>3. undo_bytes = b
      BY <1>1, <3>2
    <3>4. undo_bytes' = b + CmdBytes /\ b + CmdBytes \in Nat
      BY <2>1, <3>3, BudgetAssumption
    <3>5. QED
      BY <3>1, <3>2, <3>4
  <2>6. PersistTypeOK'
    BY <1>1, <1>2, <2>3, <2>5 DEF PersistTypeOK
  <2>7. Counted'
    BY <2>4, <2>5 DEF Counted
  <2>8. QED
    BY <1>3, <2>6, <2>7 DEF LogInv
<1>7. QED
  BY <1>4, <1>5, <1>6 DEF Apply

\* pc_txn_undo and pc_txn_redo in a session: a command lost from the undo stack leaves
\* its bytes behind.
LEMMA UndoRedoKeeps ==
  ASSUME LogInv, phase = "live", UNCHANGED <<disk, load, origin>>,
         \/ (UndoEmpty \/ UndoDone \/ Redo) /\ UNCHANGED lost
         \/ UndoLost /\ lost' = lost + 1
  PROVE  LogInv'
<1>1. PersistTypeOK /\ undo_bytes = CmdBytes * (Len(undo) + lost)
  BY DEF LogInv, Counted
<1>2. /\ ir \in Doc /\ undo \in Seq(Command) /\ redo \in Seq(Command)
      /\ lost \in Nat /\ undo_bytes \in Nat
      /\ Len(undo) \in Nat
      /\ UNCHANGED <<file, kept, loading, todo, phase, origin>>
  BY <1>1 DEF PersistTypeOK, disk, load
<1>3. Replaying'
  BY <1>2 DEF Replaying
<1>4. CASE (UndoEmpty \/ RedoEmpty) /\ UNCHANGED lost
  BY <1>1, <1>2, <1>3, <1>4 DEF UndoEmpty, RedoEmpty, LogInv, PersistTypeOK, Counted
<1>5. CASE UndoLost /\ lost' = lost + 1
  <2>1. undo # <<>> /\ undo' = Front(undo) /\ UNCHANGED <<ir, redo, undo_bytes>>
    BY <1>5 DEF UndoLost
  <2>2. undo' \in Seq(Command) /\ Len(undo') + 1 = Len(undo)
    BY <1>2, <2>1, StackFacts
  <2>3. PersistTypeOK'
    BY <1>1, <1>2, <1>5, <2>1, <2>2 DEF PersistTypeOK
  <2>4. Len(undo') + lost' = Len(undo) + lost
    <3>1. PICK n \in Nat : n = Len(undo')
      BY <2>2
    <3>2. QED
      BY <1>2, <1>5, <2>2, <3>1
  <2>5. Counted'
    BY <1>1, <2>1, <2>4 DEF Counted
  <2>6. QED
    BY <1>3, <2>3, <2>5 DEF LogInv
<1>6. CASE UndoDone /\ UNCHANGED lost
  <2> DEFINE c == Last(undo)
  <2>1. /\ undo # <<>> /\ ir' = Backward(ir, c) /\ undo' = Front(undo)
        /\ redo' = Append(redo, c) /\ undo_bytes' = undo_bytes - CmdBytes
    BY <1>6 DEF UndoDone
  <2>2. /\ undo' \in Seq(Command) /\ Len(undo') + 1 = Len(undo) /\ c \in Command
    BY <1>2, <2>1, StackFacts
  <2> HIDE DEF c
  <2>3. ir' \in Doc /\ redo' \in Seq(Command)
    BY <1>2, <2>1, <2>2, MovesTyped, StackFacts
  <2>4. PICK n \in Nat : n = Len(undo') + lost' /\ Len(undo) + lost = n + 1
    <3>1. PICK k \in Nat : k = Len(undo')
      BY <2>2
    <3>2. k + lost \in Nat /\ k + lost = Len(undo') + lost' /\ Len(undo) + lost = k + lost + 1
      BY <1>2, <1>6, <2>2, <3>1
    <3>3. QED
      BY <3>2
  <2>5. undo_bytes' = CmdBytes * n /\ undo_bytes' \in Nat
    <3>1. CmdBytes * n \in Nat /\ undo_bytes = CmdBytes * n + CmdBytes
      BY <1>1, <2>4, BytesOf
    <3>2. PICK b \in Nat : b = CmdBytes * n
      BY <3>1
    <3>3. QED
      BY <2>1, <3>1, <3>2, BudgetAssumption
  <2>6. PersistTypeOK'
    BY <1>1, <1>2, <1>6, <2>2, <2>3, <2>5 DEF PersistTypeOK
  <2>7. Counted'
    BY <2>4, <2>5 DEF Counted
  <2>8. QED
    BY <1>3, <2>6, <2>7 DEF LogInv
<1>7. CASE RedoLost /\ UNCHANGED lost
  <2>1. redo # <<>> /\ redo' = Front(redo) /\ UNCHANGED <<ir, undo, undo_bytes>>
    BY <1>7 DEF RedoLost
  <2>2. redo' \in Seq(Command)
    BY <1>2, <2>1, StackFacts
  <2>3. QED
    BY <1>1, <1>2, <1>3, <1>7, <2>1, <2>2 DEF LogInv, PersistTypeOK, Counted
<1>8. CASE RedoDone /\ UNCHANGED lost
  <2> DEFINE c == Last(redo)
             n == Len(undo) + lost
  <2>1. /\ redo # <<>> /\ ir' = Forward(ir, c) /\ redo' = Front(redo)
        /\ undo' = Append(undo, c) /\ undo_bytes' = undo_bytes + CmdBytes
    BY <1>8 DEF RedoDone
  <2>2. redo' \in Seq(Command) /\ c \in Command
    BY <1>2, <2>1, StackFacts
  <2> HIDE DEF c
  <2>3. ir' \in Doc /\ undo' \in Seq(Command) /\ Len(undo') = Len(undo) + 1
    BY <1>2, <2>1, <2>2, MovesTyped, StackFacts
  <2>4. n \in Nat /\ Len(undo') + lost' = n + 1
    BY <1>2, <1>8, <2>3
  <2>5. undo_bytes' = CmdBytes * (n + 1) /\ undo_bytes' \in Nat
    <3>1. CmdBytes * (n + 1) = CmdBytes * n + CmdBytes
      BY <2>4, BytesOf
    <3>2. PICK b \in Nat : b = CmdBytes * n
      BY <2>4, BytesOf
    <3>3. undo_bytes = b
      BY <1>1, <3>2
    <3>4. undo_bytes' = b + CmdBytes /\ b + CmdBytes \in Nat
      BY <2>1, <3>3, BudgetAssumption
    <3>5. QED
      BY <3>1, <3>2, <3>4
  <2>6. PersistTypeOK'
    BY <1>1, <1>2, <1>8, <2>2, <2>3, <2>5 DEF PersistTypeOK
  <2>7. Counted'
    BY <2>4, <2>5 DEF Counted
  <2>8. QED
    BY <1>3, <2>6, <2>7 DEF LogInv
<1>9. QED
  BY <1>4, <1>5, <1>6, <1>7, <1>8 DEF Redo

\* Saving and opening.
LEMMA SaveOpenKeeps ==
  ASSUME LogInv,
         \/ Save \/ SaveTooLarge
         \/ \E form \in FileForms : OpenNew(form) \/ LoadOwn(form)
         \/ \E form \in FileForms, log \in ForeignLogs : LoadForeign(form, log)
  PROVE  LogInv'
<1>1. PersistTypeOK /\ Counted
  BY DEF LogInv
<1>2. CASE Save
  <2>1. /\ phase = "live" /\ UNCHANGED <<ir, undo, redo, undo_bytes, loading, todo, phase, lost, origin>>
        /\ file' = [undo |-> Written(undo), redo |-> Written(redo)]
        /\ kept' = [origin |-> origin, ir |-> ir]
    BY <1>2 DEF Save, load
  <2>2. file' \in Log /\ kept' \in [origin : Origin, ir : Doc]
    BY <1>1, <2>1, WrittenFacts DEF PersistTypeOK, Log
  <2>3. QED
    BY <1>1, <2>1, <2>2 DEF LogInv, PersistTypeOK, Counted, Replaying
<1>3. CASE SaveTooLarge
  BY <1>1, <1>3 DEF SaveTooLarge, disk, load, LogInv, PersistTypeOK, Counted, Replaying
<1>4. ASSUME NEW form \in FileForms, Open(form)
      PROVE  /\ ir' \in Doc /\ ir' = [annots |-> <<>>, fields |-> form] /\ form \in Seq(Field)
             /\ undo' = <<>> /\ redo' = <<>> /\ undo_bytes' = 0 /\ lost' = 0
             /\ UNCHANGED <<file, kept>>
             /\ Counted'
             /\ undo' \in Seq(Command) /\ redo' \in Seq(Command)
             /\ undo_bytes' \in Nat /\ lost' \in Nat
             /\ file' \in Log /\ kept' \in [origin : Origin, ir : Doc]
  <2>1. /\ ir' = [annots |-> <<>>, fields |-> form]
        /\ undo' = <<>> /\ redo' = <<>> /\ undo_bytes' = 0 /\ lost' = 0
        /\ UNCHANGED <<file, kept>>
    BY <1>4 DEF Open, disk
  <2>2. form \in Seq(Field) /\ ir' \in Doc
    BY <2>1, FormsAssumption DEF Doc
  <2>3. Len(undo') = 0 /\ CmdBytes * (0 + 0) = 0
    BY <2>1, BudgetAssumption
  <2>4. Counted'
    BY <2>1, <2>3 DEF Counted
  <2>5. undo' \in Seq(Command) /\ redo' \in Seq(Command) /\ undo_bytes' \in Nat /\ lost' \in Nat
    BY <2>1
  <2>6. file' \in Log /\ kept' \in [origin : Origin, ir : Doc]
    BY <1>1, <2>1 DEF PersistTypeOK
  <2>7. QED
    BY <2>1, <2>2, <2>4, <2>5, <2>6
<1>5. ASSUME NEW form \in FileForms, OpenNew(form)
      PROVE  LogInv'
  <2>1. Open(form) /\ phase' = "live" /\ UNCHANGED <<loading, todo>>
        /\ origin' = [own |-> TRUE, form |-> {form}]
    BY <1>5 DEF OpenNew
  <2>2. origin' \in Origin
    BY <1>4, <2>1 DEF Origin
  <2>3. /\ todo' \in Seq(Command)
        /\ loading' \in Log /\ phase' \in {"live", "loading", "failed"}
    BY <1>1, <2>1 DEF PersistTypeOK
  <2>4. QED
    BY <1>4, <2>1, <2>2, <2>3 DEF LogInv, PersistTypeOK, Replaying
<1>6. ASSUME NEW form \in FileForms, NEW log \in Log, Load(form, log), origin' \in Origin
      PROVE  LogInv'
  <2>1. Open(form) /\ loading' = log /\ todo' = log.undo /\ phase' = "loading"
    BY <1>6 DEF Load
  <2>2. log.undo \in Seq(Command) /\ log.redo \in Seq(Command)
    BY DEF Log
  <2>3. PersistTypeOK'
    <3>1. /\ todo' \in Seq(Command)
          /\ loading' \in Log /\ phase' \in {"live", "loading", "failed"}
      BY <2>1, <2>2
    <3>2. QED
      BY <1>4, <1>6, <2>1, <3>1 DEF PersistTypeOK
  <2>4. Replaying'
    <3>1. undo' = <<>> /\ Len(undo') = 0
      BY <1>4, <2>1
    <3>2. Len(loading'.undo) = Len(undo') + Len(todo')
      BY <2>1, <2>2, <3>1
    <3>3. \A k \in 1..Len(todo') : todo'[k] = loading'.undo[Len(undo') + k]
      BY <2>1, <2>2, <3>1
    <3>4. 1..Len(undo') = {}
      BY <3>1
    <3>5. QED
      BY <3>2, <3>3, <3>4 DEF Replaying
  <2>5. QED
    BY <1>4, <2>1, <2>3, <2>4 DEF LogInv
<1>7. ASSUME NEW form \in FileForms, LoadOwn(form)
      PROVE  LogInv'
  <2>1. Load(form, file) /\ origin' = [own |-> kept.origin.own, form |-> kept.origin.form \cap {form}]
    BY <1>7 DEF LoadOwn
  <2>2. file \in Log /\ origin' \in Origin
    BY <1>1, <2>1 DEF PersistTypeOK, Origin
  <2>3. QED
    BY <1>6, <2>1, <2>2
<1>8. ASSUME NEW form \in FileForms, NEW log \in ForeignLogs, LoadForeign(form, log)
      PROVE  LogInv'
  <2>1. Load(form, log) /\ origin' = [own |-> FALSE, form |-> {}]
    BY <1>8 DEF LoadForeign
  <2>2. log \in Log /\ origin' \in Origin
    BY <2>1, LogsAssumption DEF Log, Origin
  <2>3. QED
    BY <1>6, <2>1, <2>2
<1>9. QED
  BY <1>2, <1>3, <1>5, <1>7, <1>8

\* A turn of the loop of a replay moves one command from the list to the stack.
LEMMA ReplayKeeps ==
  ASSUME LogInv, Replay
  PROVE  LogInv'
<1> DEFINE c == Head(todo)
           r == AsRequest(c)
           d == Captured(ir, r)
           e == Restored(c)
           n == Len(undo) + lost
<1>1. PersistTypeOK /\ undo_bytes = CmdBytes * (Len(undo) + lost) /\ Replaying
  BY DEF LogInv, Counted
<1>2. /\ phase = "loading" /\ todo # <<>> /\ Applicable(ir, r)
      /\ ir' = Forward(ir, d) /\ undo' = Append(undo, e)
      /\ undo_bytes' = undo_bytes + CmdBytes /\ todo' = Tail(todo)
      /\ UNCHANGED <<redo, loading, phase, file, kept, lost, origin>>
  BY DEF Replay, disk
<1>3. /\ ir \in Doc /\ undo \in Seq(Command) /\ todo \in Seq(Command) /\ lost \in Nat
      /\ loading.undo \in Seq(Command)
  BY <1>1 DEF PersistTypeOK, Log
<1>4. /\ c \in Command /\ c = todo[1] /\ Len(undo) \in Nat /\ Len(todo) \in Nat
      /\ todo' \in Seq(Command) /\ Len(todo') + 1 = Len(todo)
      /\ \A k \in 1..Len(todo') : todo'[k] = todo[k + 1]
  BY <1>2, <1>3, StackFacts
<1>5. r \in Request /\ r.type = c.type
  BY <1>4, RequestOf
<1>6. d \in Command
  BY <1>2, <1>3, <1>5, CapturedTyped
<1>7. /\ e \in Command /\ AsRequest(e) = AsRequest(c)
      /\ e.type = "FORM_FLATTEN" => e = c
  <2>1. CASE c.type = "FORM_FLATTEN"
    BY <1>4, <2>1 DEF Restored
  <2>2. CASE c.type # "FORM_FLATTEN"
    <3>1. e = d
      BY <2>2 DEF Restored
    <3>2. AsRequest(d) = r
      BY <1>2, <1>3, <1>5, RequestKept
    <3>3. d.type = c.type
      BY <1>5, <1>6, <3>2, RequestOf
    <3>4. QED
      BY <1>6, <2>2, <3>1, <3>2, <3>3
  <2>3. QED
    BY <2>1, <2>2
<1> HIDE DEF c, r, d, e
<1>8. /\ undo' \in Seq(Command) /\ Len(undo') = Len(undo) + 1
      /\ undo'[Len(undo) + 1] = e
      /\ \A k \in 1..Len(undo) : undo'[k] = undo[k]
      /\ ir' \in Doc
  BY <1>2, <1>3, <1>6, <1>7, MovesTyped, StackFacts
<1>9. n \in Nat /\ Len(undo') + lost' = n + 1
  BY <1>2, <1>3, <1>4, <1>8
<1>10. undo_bytes' = CmdBytes * (n + 1) /\ undo_bytes' \in Nat
  <2>1. CmdBytes * (n + 1) = CmdBytes * n + CmdBytes
    BY <1>9, BytesOf
  <2>2. PICK b \in Nat : b = CmdBytes * n
    BY <1>9, BytesOf
  <2>3. undo_bytes' = b + CmdBytes /\ b + CmdBytes \in Nat
    BY <1>1, <1>2, <2>2, BudgetAssumption
  <2>4. QED
    BY <2>1, <2>2, <2>3
<1>11. PersistTypeOK'
  BY <1>1, <1>2, <1>4, <1>8, <1>10 DEF PersistTypeOK
<1>12. Counted'
  BY <1>9, <1>10 DEF Counted
<1>13. Replaying'
  <2> DEFINE m == Len(undo)
             l == loading.undo
  <2>1. /\ Len(l) = m + Len(todo)
        /\ \A k \in 1..Len(todo) : todo[k] = l[m + k]
        /\ \A k \in 1..m : AsRequest(undo[k]) = AsRequest(l[k])
                           /\ (undo[k].type = "FORM_FLATTEN" => undo[k] = l[k])
    BY <1>1, <1>2 DEF Replaying
  <2>2. PICK t \in Nat : t = Len(todo')
    BY <1>4, StackFacts
  <2>3. m \in Nat /\ Len(todo) = t + 1
    BY <1>4, <2>2
  <2>4. Len(l) = Len(undo') + Len(todo')
    BY <1>8, <2>1, <2>2, <2>3
  <2>5. \A k \in 1..t : todo'[k] = l[Len(undo') + k]
    <3>1. \A k \in 1..t : k + 1 \in 1..Len(todo) /\ m + (k + 1) = (m + 1) + k
      BY <2>3
    <3>2. QED
      BY <1>4, <1>8, <2>1, <2>2, <3>1
  <2>6. c = l[m + 1]
    BY <1>4, <2>1, <2>3
  <2>7. ASSUME NEW k \in 1..(m + 1)
        PROVE  AsRequest(undo'[k]) = AsRequest(l[k])
               /\ (undo'[k].type = "FORM_FLATTEN" => undo'[k] = l[k])
    <3>1. CASE k = m + 1
      BY <1>7, <1>8, <2>6, <3>1
    <3>2. CASE k \in 1..m
      BY <1>8, <2>1, <3>2
    <3>3. QED
      BY <2>3, <3>1, <3>2
  <2>8. Len(undo') = m + 1 /\ loading' = loading
    BY <1>2, <1>8
  <2>9. QED
    BY <2>2, <2>4, <2>5, <2>7, <2>8 DEF Replaying
<1>14. QED
  BY <1>11, <1>12, <1>13 DEF LogInv

\* The end of a replay, good or bad.
LEMMA ReplayOverKeeps ==
  ASSUME LogInv, ReplayFails \/ ReplayEnds
  PROVE  LogInv'
<1>1. PersistTypeOK /\ Counted
  BY DEF LogInv
<1>2. EmptyLog \in Log /\ <<>> \in Seq(Command)
  BY DEF EmptyLog, Log
<1>3. CASE ReplayEnds
  <2>1. /\ redo' = loading.redo /\ loading' = EmptyLog /\ phase' = "live"
        /\ UNCHANGED <<ir, undo, undo_bytes, todo, file, kept, lost, origin>>
    BY <1>3 DEF ReplayEnds, disk
  <2>2. redo' \in Seq(Command)
    BY <1>1, <2>1 DEF PersistTypeOK, Log
  <2>3. PersistTypeOK'
    BY <1>1, <1>2, <2>1, <2>2 DEF PersistTypeOK
  <2>4. QED
    BY <1>1, <2>1, <2>3 DEF LogInv, Counted, Replaying
<1>4. CASE ReplayFails
  <2> DEFINE r == AsRequest(Head(todo))
  <2>1. /\ todo # <<>> /\ (ApplyRefused(r) \/ ApplyOverBudget(r))
        /\ loading' = EmptyLog /\ todo' = <<>> /\ phase' = "failed"
        /\ UNCHANGED <<file, kept, lost, origin>>
    BY <1>4 DEF ReplayFails, disk
  <2>2. r \in Request /\ ir \in Doc
    BY <1>1, <2>1, StackFacts, RequestOf DEF PersistTypeOK
  <2> HIDE DEF r
  <2>3. UNCHANGED <<undo, redo, undo_bytes>> /\ ir' \in Doc
    <3>1. CASE ApplyRefused(r)
      BY <2>2, <3>1 DEF ApplyRefused
    <3>2. CASE ApplyOverBudget(r)
      <4>1. /\ Applicable(ir, r) /\ UNCHANGED <<undo, redo, undo_bytes>>
            /\ ir' = Backward(Forward(ir, Captured(ir, r)), Captured(ir, r))
        BY <3>2 DEF ApplyOverBudget
      <4>2. QED
        BY <2>2, <4>1, CapturedTyped, MovesTyped
    <3>3. QED
      BY <2>1, <3>1, <3>2
  <2>4. PersistTypeOK'
    BY <1>1, <1>2, <2>1, <2>3 DEF PersistTypeOK
  <2>5. QED
    BY <1>1, <2>1, <2>3, <2>4 DEF LogInv, Counted, Replaying
<1>5. QED
  BY <1>3, <1>4

\* The first session.
LEMMA LogInvInit == PInit => LogInv
<1>1. SUFFICES ASSUME PInit PROVE LogInv
  OBVIOUS
<1>2. /\ ir = [annots |-> <<>>, fields |-> InitFields]
      /\ undo = <<>> /\ redo = <<>> /\ undo_bytes = 0
      /\ file = EmptyLog /\ loading = EmptyLog /\ todo = <<>> /\ phase = "live" /\ lost = 0
      /\ origin = [own |-> TRUE, form |-> {InitFields}]
      /\ kept = [origin |-> origin, ir |-> ir]
  BY <1>1 DEF PInit, Init
<1>3. EmptyLog \in Log /\ <<>> \in Seq(Command)
  BY DEF EmptyLog, Log
<1>4. ir \in Doc /\ origin \in Origin
  BY <1>2, FormAssumption DEF Doc, Origin
<1>5. PersistTypeOK
  BY <1>2, <1>3, <1>4 DEF PersistTypeOK
<1>6. Counted
  <2>1. Len(undo) + lost = 0
    BY <1>2
  <2>2. QED
    BY <1>2, <2>1, BudgetAssumption DEF Counted
<1>7. QED
  BY <1>2, <1>5, <1>6 DEF LogInv, Replaying

\* No step breaks what holds of every log.
LEMMA LogInvStep == LogInv /\ [PNext]_pvars => LogInv'
<1>1. SUFFICES ASSUME LogInv, [PNext]_pvars PROVE LogInv'
  OBVIOUS
<1>2. CASE Call
  <2>1. phase = "live" /\ UNCHANGED <<disk, load, origin>>
    BY <1>2 DEF Call
  <2>2. CASE \E r \in Request : Apply(r) /\ UNCHANGED lost
    BY <1>1, <2>1, <2>2, ApplyKeeps
  <2>3. CASE \/ (UndoEmpty \/ UndoDone \/ Redo) /\ UNCHANGED lost
             \/ UndoLost /\ lost' = lost + 1
    BY <1>1, <2>1, <2>3, UndoRedoKeeps
  <2>4. QED
    BY <1>2, <2>2, <2>3 DEF Call
<1>3. CASE UNCHANGED pvars
  BY <1>1, <1>3 DEF pvars, vars, disk, load, LogInv, PersistTypeOK, Counted, Replaying
<1>4. QED
  BY <1>1, <1>2, <1>3, SaveOpenKeeps, ReplayKeeps, ReplayOverKeeps DEF PNext

\* TxnPersist's types, the account of the bytes, and what a log under reconstruction
\* stands for, in every session of any history.
THEOREM LogIsSound == PSpec => []LogInv
<1>1. QED
  BY LogInvInit, LogInvStep, PTL DEF PSpec

\* What a replay has applied, on whatever form and whoever wrote the log, asks for the
\* changes of the log's first commands, and its flattens restore the fields that were
\* removed when it was recorded: of all commands, or of those before the one refused.
THEOREM LogRequestsSurvive == PSpec => RequestsSurvive
<1> DEFINE Same(k) == /\ AsRequest(undo'[k]) = AsRequest(loading.undo[k])
                      /\ undo'[k].type = "FORM_FLATTEN" => undo'[k] = loading.undo[k]
           Applied == /\ Len(undo') = Len(loading.undo) - Len(todo)
                      /\ ReplayEnds => Len(undo') = Len(loading.undo)
                      /\ ReplayFails => Head(todo) = loading.undo[Len(undo') + 1]
                      /\ \A k \in 1..Len(undo') : Same(k)
<1>1. LogInv /\ [PNext]_pvars => [ReplayEnds \/ ReplayFails => Applied]_pvars
  <2>1. SUFFICES ASSUME LogInv, ReplayEnds \/ ReplayFails
        PROVE  Applied
    OBVIOUS
  <2>2. phase = "loading" /\ undo' = undo
    BY <2>1 DEF ReplayEnds, ReplayFails, ApplyRefused, ApplyOverBudget
  <2>3. /\ Len(loading.undo) = Len(undo) + Len(todo)
        /\ \A k \in 1..Len(todo) : todo[k] = loading.undo[Len(undo) + k]
        /\ \A k \in 1..Len(undo) :
             /\ AsRequest(undo[k]) = AsRequest(loading.undo[k])
             /\ undo[k].type = "FORM_FLATTEN" => undo[k] = loading.undo[k]
    BY <2>1, <2>2 DEF LogInv, Replaying
  <2>4. todo \in Seq(Command) /\ Len(undo) \in Nat /\ Len(todo) \in Nat
    BY <2>1 DEF LogInv, PersistTypeOK
  <2>5. Len(undo') = Len(loading.undo) - Len(todo)
    BY <2>2, <2>3, <2>4
  <2>6. ReplayEnds => Len(undo') = Len(loading.undo)
    BY <2>2, <2>3, <2>4 DEF ReplayEnds
  <2>7. ASSUME ReplayFails PROVE Head(todo) = loading.undo[Len(undo') + 1]
    <3>1. todo # <<>>
      BY <2>7 DEF ReplayFails
    <3>2. Head(todo) = todo[1] /\ 1 \in 1..Len(todo)
      BY <2>4, <3>1
    <3>3. QED
      BY <2>2, <2>3, <3>2
  <2>8. QED
    BY <2>2, <2>3, <2>5, <2>6, <2>7
<1>2. QED
  BY <1>1, LogIsSound, PTL DEF PSpec, RequestsSurvive

-----------------------------------------------------------------------------

(* Stacks that meet.                                                       *)

\* The links are triples, so that reversing them twice is harmless.
LEMMA BackOf ==
  ASSUME NEW C, NEW X, NEW R \in SUBSET (C \X X \X X), NEW c, NEW p, NEW q
  PROVE  /\ <<c, p, q>> \in Back(R) <=> <<c, q, p>> \in R
         /\ <<c, p, q>> \in R => c \in C /\ p \in X /\ q \in X
<1>1. ASSUME <<c, p, q>> \in Back(R)
      PROVE  <<c, q, p>> \in R
  <2>1. PICK l \in R : <<c, p, q>> = <<l[1], l[3], l[2]>>
    BY <1>1 DEF Back
  <2>2. PICK a \in C, b \in X, d \in X : l = <<a, b, d>>
    BY <2>1
  <2>3. l = <<c, q, p>>
    BY <2>1, <2>2
  <2>4. QED
    BY <2>1, <2>3
<1>2. ASSUME <<c, q, p>> \in R
      PROVE  <<c, p, q>> \in Back(R)
  <2> DEFINE l == <<c, q, p>>
  <2>1. l \in R /\ <<c, p, q>> = <<l[1], l[3], l[2]>>
    BY <1>2
  <2> HIDE DEF l
  <2>2. QED
    BY <2>1 DEF Back
<1>3. <<c, p, q>> \in R => c \in C /\ p \in X /\ q \in X
  OBVIOUS
<1>4. QED
  BY <1>1, <1>2, <1>3

\* A command that leads on from where the stacks meet makes the redo stack void.
LEMMA MeetPush ==
  ASSUME NEW C, NEW X, NEW R \in SUBSET (C \X X \X X), NEW S, NEW u \in Seq(C), NEW r,
         NEW c, NEW p, NEW q, Meet(R, S, X, u, r, p), <<c, p, q>> \in R
  PROVE  Meet(R, S, X, Append(u, c), <<>>, q)
<1>1. c \in C /\ q \in X
  BY BackOf
<1>2. Path(R, S, Append(u, c), q)
  <2>1. Path(R, S, u, p)
    BY DEF Meet
  <2>2. QED
    BY <1>1, <2>1, PathPush
<1>3. Path(Back(R), X, <<>>, q)
  BY <1>1, PathEmpty
<1>4. QED
  BY <1>2, <1>3 DEF Meet

\* Undoing moves the last command to the other stack, and the stacks meet where it came
\* from.
LEMMA MeetUndo ==
  ASSUME NEW C, NEW X, NEW R \in SUBSET (C \X X \X X), NEW S, NEW u \in Seq(C),
         NEW r \in Seq(C), NEW q, Meet(R, S, X, u, r, q), u # <<>>
  PROVE  \E p : /\ <<Last(u), p, q>> \in R
                /\ Meet(R, S, X, Front(u), Append(r, Last(u)), p)
                /\ p = q => Meet(R, S, X, Front(u), r, q)
<1>1. Path(R, S, u, q) /\ Path(Back(R), X, r, q)
  BY DEF Meet
<1>2. PICK p : <<Last(u), p, q>> \in R /\ Path(R, S, Front(u), p)
  BY <1>1, PathPop
<1>3. Last(u) \in C /\ <<Last(u), q, p>> \in Back(R)
  BY <1>2, BackOf
<1>4. Path(Back(R), X, Append(r, Last(u)), p)
  BY <1>1, <1>3, PathPush
<1>5. QED
  BY <1>1, <1>2, <1>4 DEF Meet

\* Redoing moves it back.
LEMMA MeetRedo ==
  ASSUME NEW C, NEW X, NEW R \in SUBSET (C \X X \X X), NEW S, NEW u \in Seq(C),
         NEW r \in Seq(C), NEW p, Meet(R, S, X, u, r, p), r # <<>>
  PROVE  \E q : /\ <<Last(r), p, q>> \in R
                /\ Meet(R, S, X, Append(u, Last(r)), Front(r), q)
                /\ p = q => Meet(R, S, X, u, Front(r), p)
<1>1. Path(R, S, u, p) /\ Path(Back(R), X, r, p)
  BY DEF Meet
<1>2. PICK q : <<Last(r), q, p>> \in Back(R) /\ Path(Back(R), X, Front(r), q)
  BY <1>1, PathPop
<1> DEFINE c == Last(r)
<1> HIDE DEF c
<1>3. c \in C /\ <<c, p, q>> \in R
  <2>1. <<c, p, q>> \in R
    BY <1>2, BackOf DEF c
  <2>2. QED
    BY <2>1, BackOf
<1>4. Path(R, S, Append(u, c), q)
  BY <1>1, <1>3, PathPush
<1>5. QED
  BY <1>1, <1>2, <1>3, <1>4 DEF Meet, c

\* The two kinds of links are triples.
LEMMA LinkSets ==
  /\ AnnotLinks \in SUBSET (Command \X (SUBSET Annot) \X (SUBSET Annot))
  /\ FieldLinks \in SUBSET (Command \X Seq(Field) \X Seq(Field))
BY DEF AnnotLinks, FieldLinks

\* A log that fits the budget fits it when it is shorter.
LEMMA CeilingsShrink ==
  ASSUME NEW m \in Nat, NEW k \in Nat, WithinCeilings(m + k)
  PROVE  WithinCeilings(m)
<1>1. CmdBytes * (m + k) = CmdBytes * m + CmdBytes * k
  BY BudgetAssumption
<1>2. PICK a \in Nat : a = CmdBytes * m
  BY BytesOf
<1>3. PICK b \in Nat : b = CmdBytes * k
  BY BytesOf
<1>4. MaxBytes > 0 => a + b <= MaxBytes
  BY <1>1, <1>2, <1>3 DEF WithinCeilings
<1>5. MaxTiles > 0 => m + k <= MaxTiles
  BY DEF WithinCeilings
<1>6. QED
  BY <1>2, <1>4, <1>5, BudgetAssumption DEF WithinCeilings

\* A command that pc_txn_apply accepts fits the budget.
LEMMA PushFits ==
  ASSUME LogInv, ~OverBudget
  PROVE  WithinCeilings(Len(undo) + 1)
<1>1. /\ undo_bytes = CmdBytes * (Len(undo) + lost) /\ lost \in Nat /\ undo_bytes \in Nat
      /\ Len(undo) \in Nat
  BY DEF LogInv, PersistTypeOK, Counted
<1> DEFINE n == Len(undo)
<1>2. CmdBytes * (n + lost) = CmdBytes * n + CmdBytes * lost
  BY <1>1, BudgetAssumption
<1>3. PICK a \in Nat : a = CmdBytes * n
  BY <1>1, BytesOf
<1>4. PICK b \in Nat : b = CmdBytes * lost
  BY <1>1, BytesOf
<1>5. CmdBytes * (n + 1) = a + CmdBytes
  BY <1>1, <1>3, BytesOf
<1>6. undo_bytes = a + b
  BY <1>1, <1>2, <1>3, <1>4
<1>7. /\ MaxTiles > 0 => n < MaxTiles
      /\ MaxBytes > 0 => a + b + CmdBytes <= MaxBytes
  BY <1>1, <1>6, BudgetAssumption DEF OverBudget
<1>8. MaxBytes > 0 => CmdBytes * (n + 1) <= MaxBytes
  BY <1>5, <1>7, BudgetAssumption
<1>9. MaxTiles > 0 => n + 1 <= MaxTiles
  BY <1>1, <1>7, BudgetAssumption
<1>10. QED
  BY <1>8, <1>9 DEF WithinCeilings

-----------------------------------------------------------------------------
(* The logs of this program: ids and ceilings.                             *)

\* What the ids and annotations of a session of this program are while it is live.
LiveAnnots == IdsDistinct(ir) /\ AnnotsMeet(undo, redo, AnnotsOf(ir))

\* A call on the log keeps them.
LEMMA CallMeets ==
  ASSUME LogInv, LiveAnnots, Call
  PROVE  LiveAnnots'
<1>1. /\ ir \in Doc /\ undo \in Seq(Command) /\ redo \in Seq(Command)
      /\ Len(undo) \in Nat /\ Len(redo) \in Nat
      /\ IdsDistinct(ir)
      /\ Meet(AnnotLinks, {{}}, SUBSET Annot, undo, redo, AnnotsOf(ir))
      /\ WithinCeilings(Len(undo) + Len(redo))
  BY DEF LogInv, PersistTypeOK, LiveAnnots, AnnotsMeet
<1>2. ASSUME UNCHANGED <<ir, undo, redo>>
      PROVE  LiveAnnots'
  BY <1>2 DEF LiveAnnots
<1>3. ASSUME NEW r \in Request, ApplyOverBudget(r)
      PROVE  LiveAnnots'
  <2>1. /\ Applicable(ir, r) /\ UNCHANGED <<undo, redo>>
        /\ ir' = Backward(Forward(ir, Captured(ir, r)), Captured(ir, r))
    BY <1>3 DEF ApplyOverBudget
  <2>2. ir' \in Doc /\ IdsDistinct(ir') /\ ContentOf(ir') = ContentOf(ir)
    BY <1>1, <2>1, AppliedAndReversed
  <2>3. AnnotsOf(ir') = AnnotsOf(ir)
    BY <1>1, <2>2, PartsOf
  <2>4. QED
    BY <1>1, <2>1, <2>2, <2>3 DEF LiveAnnots, AnnotsMeet
<1>4. ASSUME NEW r \in Request, ApplyLogged(r)
      PROVE  LiveAnnots'
  <2> DEFINE c == Captured(ir, r)
  <2>1. /\ Applicable(ir, r) /\ ~OverBudget /\ ir' = Forward(ir, c)
        /\ undo' = Append(undo, c) /\ redo' = <<>>
    BY <1>4 DEF ApplyLogged
  <2>2. /\ c \in Command /\ IdsDistinct(Forward(ir, c))
        /\ <<c, AnnotsOf(ir), AnnotsOf(Forward(ir, c))>> \in AnnotLinks
    BY <1>1, <2>1, LoggedLinks
  <2> HIDE DEF c
  <2>3. IdsDistinct(ir') /\ <<c, AnnotsOf(ir), AnnotsOf(ir')>> \in AnnotLinks
    BY <2>1, <2>2
  <2>4. Meet(AnnotLinks, {{}}, SUBSET Annot, undo', redo', AnnotsOf(ir'))
    BY <1>1, <2>1, <2>3, LinkSets, MeetPush
  <2>5. Len(undo') = Len(undo) + 1 /\ Len(redo') = 0
    BY <1>1, <2>1, <2>2, StackFacts
  <2>6. Len(undo') + Len(redo') = Len(undo) + 1
    BY <1>1, <2>5
  <2>7. WithinCeilings(Len(undo') + Len(redo'))
    BY <2>1, <2>6, PushFits
  <2>8. QED
    BY <2>3, <2>4, <2>7 DEF LiveAnnots, AnnotsMeet
<1>5. ASSUME UndoDone \/ UndoLost
      PROVE  LiveAnnots'
  <2> DEFINE c == Last(undo)
  <2>1. undo # <<>> /\ undo' = Front(undo) /\ c \in Command
    BY <1>1, <1>5, StackFacts DEF UndoDone, UndoLost
  <2>2. PICK A : /\ <<c, A, AnnotsOf(ir)>> \in AnnotLinks
                 /\ Meet(AnnotLinks, {{}}, SUBSET Annot, Front(undo), Append(redo, c), A)
                 /\ A = AnnotsOf(ir) =>
                      Meet(AnnotLinks, {{}}, SUBSET Annot, Front(undo), redo, AnnotsOf(ir))
    BY <1>1, <2>1, LinkSets, MeetUndo
  <2>3. PICK n \in Nat : n = Len(undo') /\ Len(undo) = n + 1
    BY <1>1, <2>1, StackFacts
  <2>4. CASE UndoDone
    <3>1. CanBackward(ir, c) /\ ir' = Backward(ir, c) /\ redo' = Append(redo, c)
      BY <2>4 DEF UndoDone
    <3>2. IdsDistinct(ir') /\ AnnotsOf(ir') = A
      BY <1>1, <2>1, <2>2, <3>1, BackwardAnnots
    <3>3. Len(redo') = Len(redo) + 1
      BY <1>1, <2>1, <3>1, StackFacts
    <3>4. Len(undo') + Len(redo') = Len(undo) + Len(redo)
      BY <1>1, <2>3, <3>3
    <3>5. QED
      BY <1>1, <2>1, <2>2, <3>1, <3>2, <3>4 DEF LiveAnnots, AnnotsMeet
  <2>5. CASE UndoLost
    <3>1. ~CanBackward(ir, c) /\ ir' = ir /\ redo' = redo
      BY <2>5 DEF UndoLost
    <3>2. A = AnnotsOf(ir)
      BY <1>1, <2>1, <2>2, <3>1, BackwardAnnots
    <3>3. n + Len(redo) \in Nat /\ Len(undo) + Len(redo) = (n + Len(redo)) + 1
      BY <1>1, <2>3
    <3>4. WithinCeilings(n + Len(redo))
      BY <1>1, <3>3, CeilingsShrink
    <3>5. QED
      BY <1>1, <2>1, <2>2, <2>3, <3>1, <3>2, <3>4 DEF LiveAnnots, AnnotsMeet
  <2>6. QED
    BY <1>5, <2>4, <2>5
<1>6. ASSUME RedoDone \/ RedoLost
      PROVE  LiveAnnots'
  <2> DEFINE c == Last(redo)
  <2>1. redo # <<>> /\ redo' = Front(redo) /\ c \in Command
    BY <1>1, <1>6, StackFacts DEF RedoDone, RedoLost
  <2>2. PICK B : /\ <<c, AnnotsOf(ir), B>> \in AnnotLinks
                 /\ Meet(AnnotLinks, {{}}, SUBSET Annot, Append(undo, c), Front(redo), B)
                 /\ AnnotsOf(ir) = B =>
                      Meet(AnnotLinks, {{}}, SUBSET Annot, undo, Front(redo), AnnotsOf(ir))
    BY <1>1, <2>1, LinkSets, MeetRedo
  <2>3. PICK n \in Nat : n = Len(redo') /\ Len(redo) = n + 1
    BY <1>1, <2>1, StackFacts
  <2>4. CASE RedoDone
    <3>1. CanForward(ir, c) /\ ir' = Forward(ir, c) /\ undo' = Append(undo, c)
      BY <2>4 DEF RedoDone
    <3>2. IdsDistinct(ir') /\ AnnotsOf(ir') = B
      BY <1>1, <2>1, <2>2, <3>1, ForwardAnnots
    <3>3. Len(undo') = Len(undo) + 1
      BY <1>1, <2>1, <3>1, StackFacts
    <3>4. Len(undo') + Len(redo') = Len(undo) + Len(redo)
      BY <1>1, <2>3, <3>3
    <3>5. QED
      BY <1>1, <2>1, <2>2, <3>1, <3>2, <3>4 DEF LiveAnnots, AnnotsMeet
  <2>5. CASE RedoLost
    <3>1. ~CanForward(ir, c) /\ ir' = ir /\ undo' = undo
      BY <2>5 DEF RedoLost
    <3>2. AnnotsOf(ir) = B
      BY <1>1, <2>1, <2>2, <3>1, ForwardAnnots
    <3>3. Len(undo) + n \in Nat /\ Len(undo) + Len(redo) = (Len(undo) + n) + 1
      BY <1>1, <2>3
    <3>4. WithinCeilings(Len(undo) + n)
      BY <1>1, <3>3, CeilingsShrink
    <3>5. QED
      BY <1>1, <2>1, <2>2, <2>3, <3>1, <3>2, <3>4 DEF LiveAnnots, AnnotsMeet
  <2>6. QED
    BY <1>6, <2>4, <2>5
<1>7. QED
  BY <1>2, <1>3, <1>4, <1>5, <1>6
    DEF Call, Apply, ApplyRefused, UndoEmpty, Redo, RedoEmpty

\* Saving a log maps its paths to those of the rounded document.
LEMMA SavedMeets ==
  ASSUME NEW u \in Seq(Command), NEW r \in Seq(Command), NEW A, AnnotsMeet(u, r, A)
  PROVE  AnnotsMeet(Written(u), Written(r), RoundedAnnots(A))
<1> DEFINE g == [X \in SUBSET Annot |-> RoundedAnnots(X)]
<1>1. /\ Path(AnnotLinks, {{}}, u, A) /\ Path(Back(AnnotLinks), SUBSET Annot, r, A)
      /\ WithinCeilings(Len(u) + Len(r))
  BY DEF AnnotsMeet, Meet
<1>2. \A X \in SUBSET Annot : g[X] = RoundedAnnots(X)
  OBVIOUS
<1> HIDE DEF g
<1>3. \A X \in SUBSET Annot : RoundedAnnots(X) \in SUBSET Annot
  BY RoundAssumption DEF RoundedAnnots, Annot
<1>4. \A c, X, Y : <<c, X, Y>> \in AnnotLinks => <<Rounded(c), g[X], g[Y]>> \in AnnotLinks
  <2>1. SUFFICES ASSUME NEW c, NEW X, NEW Y, <<c, X, Y>> \in AnnotLinks
                 PROVE  <<Rounded(c), g[X], g[Y]>> \in AnnotLinks
    OBVIOUS
  <2>2. X \in SUBSET Annot /\ Y \in SUBSET Annot
    BY <2>1, LinkFacts
  <2>3. <<Rounded(c), RoundedAnnots(X), RoundedAnnots(Y)>> \in AnnotLinks
    BY <2>1, RoundedLinks
  <2>4. QED
    BY <1>2, <2>2, <2>3
<1>5. /\ \A k \in 1..Len(u) : Written(u)[k] = Rounded(u[k])
      /\ \A k \in 1..Len(r) : Written(r)[k] = Rounded(r[k])
      /\ Len(Written(u)) = Len(u) /\ Len(Written(r)) = Len(r)
      /\ Len(u) \in Nat /\ Len(r) \in Nat
  BY WrittenFacts
<1>6. A \in SUBSET Annot
  <2>1. CASE r = <<>>
    BY <1>1, <2>1, PathEmpty
  <2>2. CASE r # <<>>
    <3>1. PICK p : <<Last(r), p, A>> \in Back(AnnotLinks)
      BY <1>1, <2>2, PathPop
    <3>2. <<Last(r), A, p>> \in AnnotLinks
      BY <3>1, BackFacts
    <3>3. QED
      BY <3>2, LinkFacts
  <2>3. QED
    BY <2>1, <2>2
<1>7. Path(AnnotLinks, {{}}, Written(u), g[A])
  <2>1. \A k \in 1..Len(u) : \A X, Y :
          <<u[k], X, Y>> \in AnnotLinks => <<Written(u)[k], g[X], g[Y]>> \in AnnotLinks
    BY <1>4, <1>5
  <2>2. g[{}] \in {{}}
    BY <1>2 DEF RoundedAnnots
  <2>3. QED
    BY <1>1, <1>5, <2>1, <2>2, PathMap
<1>8. Path(Back(AnnotLinks), SUBSET Annot, Written(r), g[A])
  <2>1. \A k \in 1..Len(r) : \A X, Y :
          <<r[k], X, Y>> \in Back(AnnotLinks) =>
            <<Written(r)[k], g[X], g[Y]>> \in Back(AnnotLinks)
    BY <1>4, <1>5, BackFacts
  <2>2. \A X \in SUBSET Annot : g[X] \in SUBSET Annot
    BY <1>2, <1>3
  <2>3. QED
    BY <1>1, <1>5, <2>1, <2>2, PathMap
<1>9. QED
  BY <1>1, <1>2, <1>5, <1>6, <1>7, <1>8 DEF AnnotsMeet, Meet

\* Nothing fits.
LEMMA NothingMeets ==
  /\ AnnotsMeet(<<>>, <<>>, {})
  /\ RoundedAnnots({}) = {}
  /\ \A F : AnnotsOf([annots |-> <<>>, fields |-> F]) = {}
            /\ IdsDistinct([annots |-> <<>>, fields |-> F])
<1>1. Path(AnnotLinks, {{}}, <<>>, {}) /\ Path(Back(AnnotLinks), SUBSET Annot, <<>>, {})
  BY PathEmpty
<1>2. WithinCeilings(Len(<<>>) + Len(<<>>))
  <2>1. Len(<<>>) + Len(<<>>) = 0 /\ CmdBytes * 0 = 0
    BY BudgetAssumption
  <2>2. QED
    BY <2>1, BudgetAssumption DEF WithinCeilings
<1>3. RoundedAnnots({}) = {}
  BY DEF RoundedAnnots
<1>4. ASSUME NEW F
      PROVE  AnnotsOf([annots |-> <<>>, fields |-> F]) = {}
             /\ IdsDistinct([annots |-> <<>>, fields |-> F])
  BY DEF AnnotsOf, ToSet, IdsDistinct
<1>5. QED
  BY <1>1, <1>2, <1>3, <1>4 DEF AnnotsMeet, Meet

\* A replayed command goes along its path, from the commands to do to those done.
LEMMA ReplayMeets ==
  ASSUME LogInv, Replay, IdsDistinct(ir), NEW E,
         Path(AnnotLinks, {{}}, undo, AnnotsOf(ir)),
         Path(AnnotLinks, {AnnotsOf(ir)}, todo, E)
  PROVE  /\ IdsDistinct(ir')
         /\ Path(AnnotLinks, {{}}, undo', AnnotsOf(ir'))
         /\ Path(AnnotLinks, {AnnotsOf(ir')}, todo', E)
<1> DEFINE c == Head(todo)
           r == AsRequest(c)
           d == Captured(ir, r)
           e == Restored(c)
<1>1. /\ todo # <<>> /\ Applicable(ir, r)
      /\ ir' = Forward(ir, d) /\ undo' = Append(undo, e) /\ todo' = Tail(todo)
  BY DEF Replay
<1>2. ir \in Doc /\ undo \in Seq(Command) /\ todo \in Seq(Command)
  BY DEF LogInv, PersistTypeOK
<1>3. c \in Command /\ r \in Request /\ e \in {c, d}
  BY <1>1, <1>2, StackFacts, RequestOf DEF Restored
<1>4. PICK B : <<c, AnnotsOf(ir), B>> \in AnnotLinks /\ Path(AnnotLinks, {B}, Tail(todo), E)
  BY <1>1, <1>2, PathHead
<1>5. AnnotsOf(Forward(ir, d)) = B /\ <<d, AnnotsOf(ir), B>> \in AnnotLinks
  BY <1>1, <1>2, <1>3, <1>4, ReplayAnnots
<1>6. IdsDistinct(Forward(ir, d))
  BY <1>1, <1>2, <1>3, LoggedLinks
<1> HIDE DEF c, r, d, e
<1>7. <<e, AnnotsOf(ir), B>> \in AnnotLinks /\ e \in Command
  BY <1>3, <1>4, <1>5, LinkFacts
<1>8. Path(AnnotLinks, {{}}, Append(undo, e), B)
  BY <1>2, <1>7, PathPush
<1>9. QED
  BY <1>1, <1>4, <1>5, <1>6, <1>8

\* The parts of the invariant a step that is no part of a session leaves alone.
LEMMA OwnInvInit == PInit => OwnInv
<1>1. SUFFICES ASSUME PInit PROVE OwnInv
  OBVIOUS
<1>2. /\ ir = [annots |-> <<>>, fields |-> InitFields]
      /\ undo = <<>> /\ redo = <<>>
      /\ file = [undo |-> <<>>, redo |-> <<>>] /\ phase = "live"
      /\ origin = [own |-> TRUE, form |-> {InitFields}]
      /\ kept = [origin |-> origin, ir |-> ir]
  BY <1>1 DEF PInit, Init, EmptyLog
<1>3. AnnotsOf(ir) = {} /\ IdsDistinct(ir)
  BY <1>2, NothingMeets
<1>4. OriginInv
  BY <1>2 DEF OriginInv, OneForm
<1>5. OwnFile
  BY <1>2, <1>3, NothingMeets DEF OwnFile
<1>6. OwnSession
  BY <1>2, <1>3, NothingMeets DEF OwnSession
<1>7. QED
  BY <1>4, <1>5, <1>6 DEF OwnInv

\* Where a log comes from.
LEMMA OriginStep == OriginInv /\ [PNext]_pvars => OriginInv'
<1>1. SUFFICES ASSUME OriginInv, [PNext]_pvars PROVE OriginInv'
  OBVIOUS
<1>2. OneForm(origin) /\ OneForm(kept.origin)
  BY <1>1 DEF OriginInv
<1>3. ASSUME UNCHANGED <<origin, kept>>
      PROVE  OriginInv'
  BY <1>2, <1>3 DEF OriginInv
<1>4. CASE Save
  <2>1. origin' = origin /\ kept'.origin = origin
    BY <1>4 DEF Save
  <2>2. QED
    BY <1>2, <2>1 DEF OriginInv
<1>5. ASSUME NEW form \in FileForms, OpenNew(form) \/ LoadOwn(form)
      PROVE  OriginInv'
  <2>1. /\ kept' = kept
        /\ \/ origin' = [own |-> TRUE, form |-> {form}]
           \/ origin' = [own |-> kept.origin.own, form |-> kept.origin.form \cap {form}]
    BY <1>5 DEF OpenNew, LoadOwn, Load, Open, disk
  <2>2. OneForm(origin')
    BY <1>2, <2>1 DEF OneForm
  <2>3. QED
    BY <1>2, <2>1, <2>2 DEF OriginInv
<1>6. ASSUME NEW form, NEW log, LoadForeign(form, log)
      PROVE  OriginInv'
  <2>1. kept' = kept /\ origin' = [own |-> FALSE, form |-> {}]
    BY <1>6 DEF LoadForeign, Load, Open, disk
  <2>2. OneForm(origin')
    BY <2>1 DEF OneForm
  <2>3. QED
    BY <1>2, <2>1, <2>2 DEF OriginInv
<1>7. QED
  BY <1>1, <1>3, <1>4, <1>5, <1>6
    DEF PNext, pvars, disk, Call, SaveTooLarge, Replay, ReplayFails, ReplayEnds

\* What is on disk after a save is what the session held, rounded.
LEMMA OwnFileStep == LogInv /\ OwnInv /\ [PNext]_pvars => OwnFile'
<1>1. SUFFICES ASSUME LogInv, OwnInv, [PNext]_pvars PROVE OwnFile'
  OBVIOUS
<1>2. ASSUME UNCHANGED <<file, kept>>
      PROVE  OwnFile'
  BY <1>1, <1>2 DEF OwnInv, OwnFile
<1>3. CASE Save
  <2>1. /\ phase = "live" /\ file' = [undo |-> Written(undo), redo |-> Written(redo)]
        /\ kept' = [origin |-> origin, ir |-> ir]
    BY <1>3 DEF Save
  <2>2. undo \in Seq(Command) /\ redo \in Seq(Command)
    BY <1>1 DEF LogInv, PersistTypeOK
  <2>3. origin.own => AnnotsMeet(undo, redo, AnnotsOf(ir))
    BY <1>1, <2>1 DEF OwnInv, OwnSession
  <2>4. origin.own => AnnotsMeet(Written(undo), Written(redo), RoundedAnnots(AnnotsOf(ir)))
    BY <2>2, <2>3, SavedMeets
  <2>5. /\ kept'.origin = origin /\ kept'.ir = ir
        /\ file'.undo = Written(undo) /\ file'.redo = Written(redo)
    BY <2>1
  <2>6. QED
    BY <2>4, <2>5 DEF OwnFile
<1>4. QED
  BY <1>1, <1>2, <1>3
    DEF PNext, pvars, disk, Call, SaveTooLarge, OpenNew, LoadOwn, LoadForeign, Load, Open,
        Replay, ReplayFails, ReplayEnds

\* What a session of this program holds.
LEMMA OwnSessionStep == LogInv /\ OwnInv /\ [PNext]_pvars => OwnSession'
<1>1. SUFFICES ASSUME LogInv, OwnInv, [PNext]_pvars, origin'.own PROVE OwnSession'
  BY DEF OwnSession
<1>2. ASSUME UNCHANGED <<ir, undo, redo, todo, loading, phase, origin, file, kept>>
      PROVE  OwnSession'
  BY <1>1, <1>2 DEF OwnInv, OwnSession
<1>3. CASE Call
  <2>1. /\ phase = "live" /\ phase' = "live" /\ origin' = origin
    BY <1>3 DEF Call, load
  <2>2. LiveAnnots
    BY <1>1, <2>1 DEF OwnInv, OwnSession, LiveAnnots
  <2>3. LiveAnnots'
    BY <1>1, <1>3, <2>2, CallMeets
  <2>4. QED
    BY <2>1, <2>3 DEF OwnSession, LiveAnnots
<1>4. CASE Save
  <2>1. /\ phase = "live"
        /\ UNCHANGED <<ir, undo, redo, phase, origin>>
    BY <1>4 DEF Save, load
  <2>2. QED
    BY <1>1, <2>1 DEF OwnInv, OwnSession
<1>5. ASSUME NEW form, Open(form)
      PROVE  /\ IdsDistinct(ir') /\ AnnotsOf(ir') = {} /\ undo' = <<>> /\ redo' = <<>>
             /\ UNCHANGED <<file, kept>>
  <2>1. /\ ir' = [annots |-> <<>>, fields |-> form] /\ undo' = <<>> /\ redo' = <<>>
        /\ UNCHANGED <<file, kept>>
    BY <1>5 DEF Open, disk
  <2>2. QED
    BY <2>1, NothingMeets
<1>6. ASSUME NEW form \in FileForms, OpenNew(form)
      PROVE  OwnSession'
  <2>1. Open(form) /\ phase' = "live"
    BY <1>6 DEF OpenNew
  <2>2. QED
    BY <1>5, <2>1, NothingMeets DEF OwnSession
<1>7. ASSUME NEW form \in FileForms, LoadOwn(form)
      PROVE  OwnSession'
  <2>1. /\ Open(form) /\ phase' = "loading" /\ loading' = file /\ todo' = file.undo
        /\ kept.origin.own
    BY <1>1, <1>7 DEF LoadOwn, Load
  <2>2. Path(AnnotLinks, {{}}, file.undo, RoundedAnnots(AnnotsOf(kept.ir)))
    BY <1>1, <2>1 DEF OwnInv, OwnFile, AnnotsMeet, Meet
  <2>3. Path(AnnotLinks, {{}}, <<>>, {})
    BY PathEmpty
  <2>4. QED
    BY <1>5, <2>1, <2>2, <2>3 DEF OwnSession
<1>8. ASSUME NEW form, NEW log, LoadForeign(form, log)
      PROVE  OwnSession'
  BY <1>1, <1>8 DEF LoadForeign
<1>9. CASE Replay
  <2>1. phase = "loading" /\ UNCHANGED <<phase, loading, file, kept, origin>>
    BY <1>9 DEF Replay, disk
  <2>2. /\ IdsDistinct(ir) /\ loading = file /\ kept.origin.own
        /\ Path(AnnotLinks, {{}}, undo, AnnotsOf(ir))
        /\ Path(AnnotLinks, {AnnotsOf(ir)}, todo, RoundedAnnots(AnnotsOf(kept.ir)))
    BY <1>1, <2>1 DEF OwnInv, OwnSession
  <2>3. /\ IdsDistinct(ir')
        /\ Path(AnnotLinks, {{}}, undo', AnnotsOf(ir'))
        /\ Path(AnnotLinks, {AnnotsOf(ir')}, todo', RoundedAnnots(AnnotsOf(kept.ir)))
    BY <1>1, <1>9, <2>2, ReplayMeets
  <2>4. QED
    BY <2>1, <2>2, <2>3 DEF OwnSession
<1>10. CASE ReplayFails
  <2> DEFINE r == AsRequest(Head(todo))
  <2>1. /\ todo # <<>> /\ (ApplyRefused(r) \/ ApplyOverBudget(r))
        /\ phase' = "failed" /\ phase = "loading" /\ origin' = origin
    BY <1>10 DEF ReplayFails
  <2>2. ir \in Doc /\ IdsDistinct(ir) /\ r \in Request
    BY <1>1, <2>1, StackFacts, RequestOf DEF LogInv, PersistTypeOK, OwnInv, OwnSession
  <2> HIDE DEF r
  <2>3. IdsDistinct(ir')
    <3>1. CASE ApplyRefused(r)
      BY <2>2, <3>1 DEF ApplyRefused
    <3>2. CASE ApplyOverBudget(r)
      <4>1. /\ Applicable(ir, r)
            /\ ir' = Backward(Forward(ir, Captured(ir, r)), Captured(ir, r))
        BY <3>2 DEF ApplyOverBudget
      <4>2. QED
        BY <2>2, <4>1, AppliedAndReversed
    <3>3. QED
      BY <2>1, <3>1, <3>2
  <2>4. QED
    BY <2>1, <2>3 DEF OwnSession
<1>11. CASE ReplayEnds
  <2> DEFINE E == RoundedAnnots(AnnotsOf(kept.ir))
  <2>1. /\ phase = "loading" /\ todo = <<>> /\ redo' = loading.redo /\ phase' = "live"
        /\ UNCHANGED <<ir, undo, origin>>
    BY <1>11 DEF ReplayEnds
  <2>2. /\ IdsDistinct(ir) /\ loading = file /\ kept.origin.own
        /\ Path(AnnotLinks, {{}}, undo, AnnotsOf(ir))
        /\ Path(AnnotLinks, {AnnotsOf(ir)}, <<>>, E)
    BY <1>1, <2>1 DEF OwnInv, OwnSession
  <2>3. AnnotsOf(ir) = E
    BY <2>2, PathEmpty
  <2>4. /\ Path(Back(AnnotLinks), SUBSET Annot, file.redo, E)
        /\ WithinCeilings(Len(file.undo) + Len(file.redo))
    BY <1>1, <2>2 DEF OwnInv, OwnFile, AnnotsMeet, Meet
  <2>5. Len(undo) = Len(file.undo)
    <3>1. Len(file.undo) = Len(undo) + Len(todo)
      BY <1>1, <2>1, <2>2 DEF LogInv, Replaying
    <3>2. Len(undo) \in Nat /\ Len(todo) = 0
      BY <1>1, <2>1 DEF LogInv, PersistTypeOK
    <3>3. QED
      BY <3>1, <3>2
  <2>6. AnnotsMeet(undo, file.redo, AnnotsOf(ir))
    BY <2>2, <2>3, <2>4, <2>5 DEF AnnotsMeet, Meet
  <2>7. QED
    BY <2>1, <2>2, <2>6 DEF OwnSession
<1>12. QED
  BY <1>1, <1>2, <1>3, <1>4, <1>6, <1>7, <1>8, <1>9, <1>10, <1>11
    DEF PNext, pvars, vars, disk, load, SaveTooLarge

\* The logs of this program keep the ids unique and the ceilings, in any history of
\* sessions and whatever forms the later documents have.
THEOREM OwnLogsSafe == PSpec => []OwnLogsAreSafe
<1>1. PInit => LogInv /\ OwnInv
  BY LogInvInit, OwnInvInit
<1>2. LogInv /\ OwnInv /\ [PNext]_pvars => (LogInv /\ OwnInv)'
  BY LogInvStep, OriginStep, OwnFileStep, OwnSessionStep DEF OwnInv
<1>3. LogInv /\ OwnInv => OwnLogsAreSafe
  BY DEF OwnInv, OwnSession, AnnotsMeet, WithinCeilings, OwnLogsAreSafe
<1>4. QED
  BY <1>1, <1>2, <1>3, PTL DEF PSpec

-----------------------------------------------------------------------------

(* The same form in every session: the form is followed as well.           *)

\* A command that leads on for the annotations and for the form leads on for the content.
LEMMA JoinLinks ==
  ASSUME NEW c, NEW A, NEW B, NEW F, NEW G,
         <<c, A, B>> \in AnnotLinks, <<c, F, G>> \in FieldLinks
  PROVE  LET p == [annots |-> A, fields |-> F]
             q == [annots |-> B, fields |-> G]
         IN  /\ c \in Command /\ p \in Content /\ q \in Content
             /\ Links(c, p, q)
             /\ c.type \in AnnotTypes => c.id \in ValidId
<1> DEFINE p == [annots |-> A, fields |-> F]
           q == [annots |-> B, fields |-> G]
<1>1. /\ c \in Command /\ A \in SUBSET Annot /\ B \in SUBSET Annot
      /\ F \in Seq(Field) /\ G \in Seq(Field)
  BY LinkFacts
<1>2. /\ p \in Content /\ p.annots = A /\ p.fields = F
      /\ q \in Content /\ q.annots = B /\ q.fields = G
  BY <1>1 DEF Content
<1> HIDE DEF p, q
<1>3. Links(c, p, q) /\ (c.type \in AnnotTypes => c.id \in ValidId)
  BY <1>1, <1>2, LinkParts
<1>4. QED
  BY <1>1, <1>2, <1>3 DEF p, q

\* A command that leads to the document can be undone.
LEMMA UndoJoined ==
  ASSUME NEW d \in Doc, IdsDistinct(d), NEW c, NEW A, NEW F,
         <<c, A, AnnotsOf(d)>> \in AnnotLinks, <<c, F, d.fields>> \in FieldLinks
  PROVE  CanBackward(d, c) /\ Backward(d, c).fields = F
<1> DEFINE p == [annots |-> A, fields |-> F]
<1>1. ContentOf(d) = [annots |-> AnnotsOf(d), fields |-> d.fields]
  BY DEF ContentOf, AnnotsOf
<1>2. c \in Command /\ p \in Content /\ Links(c, p, ContentOf(d))
  BY <1>1, JoinLinks
<1>3. p.fields = F
  OBVIOUS
<1> HIDE DEF p
<1>4. CanBackward(d, c) /\ Backward(d, c) \in Doc /\ ContentOf(Backward(d, c)) = p
  BY <1>2, BackwardLinks
<1>5. Backward(d, c).fields = p.fields
  BY <1>4, PartsOf
<1>6. QED
  BY <1>3, <1>4, <1>5

\* A command that leads on from the document can be performed.
LEMMA RedoJoined ==
  ASSUME NEW d \in Doc, IdsDistinct(d), NEW c, NEW B, NEW G,
         <<c, AnnotsOf(d), B>> \in AnnotLinks, <<c, d.fields, G>> \in FieldLinks
  PROVE  /\ CanForward(d, c) /\ Forward(d, c).fields = G
         /\ Applicable(d, AsRequest(c)) /\ Captured(d, AsRequest(c)) = c
<1> DEFINE q == [annots |-> B, fields |-> G]
<1>1. ContentOf(d) = [annots |-> AnnotsOf(d), fields |-> d.fields]
  BY DEF ContentOf, AnnotsOf
<1>2. /\ c \in Command /\ Links(c, ContentOf(d), q)
      /\ c.type \in AnnotTypes => c.id \in ValidId
  BY <1>1, JoinLinks
<1>3. q.fields = G
  OBVIOUS
<1> HIDE DEF q
<1>4. CanForward(d, c) /\ Forward(d, c) \in Doc /\ ContentOf(Forward(d, c)) = q
  BY <1>2, ForwardLinks
<1>5. Forward(d, c).fields = q.fields
  BY <1>4, PartsOf
<1>6. Applicable(d, AsRequest(c)) /\ Captured(d, AsRequest(c)) = c
  BY <1>2, RecapturedIs
<1>7. QED
  BY <1>3, <1>4, <1>5, <1>6

\* The form of a session that lost nothing.
LiveForms == lost = 0 /\ FormsMeet(origin.form, undo, redo, ir.fields)

\* The last commands of both stacks fit the document.
LEMMA LastFits ==
  ASSUME LogInv, LiveAnnots, LiveForms
  PROVE  /\ undo # <<>> => CanBackward(ir, Last(undo))
         /\ redo # <<>> => CanForward(ir, Last(redo))
<1>1. /\ ir \in Doc /\ undo \in Seq(Command) /\ redo \in Seq(Command) /\ IdsDistinct(ir)
      /\ Meet(AnnotLinks, {{}}, SUBSET Annot, undo, redo, AnnotsOf(ir))
      /\ Meet(FieldLinks, origin.form, Seq(Field), undo, redo, ir.fields)
  BY DEF LogInv, PersistTypeOK, LiveAnnots, AnnotsMeet, LiveForms, FormsMeet
<1>2. ASSUME undo # <<>>
      PROVE  CanBackward(ir, Last(undo))
  <2>1. PICK A : <<Last(undo), A, AnnotsOf(ir)>> \in AnnotLinks
    BY <1>1, <1>2, LinkSets, MeetUndo
  <2>2. PICK F : <<Last(undo), F, ir.fields>> \in FieldLinks
    BY <1>1, <1>2, LinkSets, MeetUndo
  <2>3. QED
    BY <1>1, <2>1, <2>2, UndoJoined
<1>3. ASSUME redo # <<>>
      PROVE  CanForward(ir, Last(redo))
  <2>1. PICK B : <<Last(redo), AnnotsOf(ir), B>> \in AnnotLinks
    BY <1>1, <1>3, LinkSets, MeetRedo
  <2>2. PICK G : <<Last(redo), ir.fields, G>> \in FieldLinks
    BY <1>1, <1>3, LinkSets, MeetRedo
  <2>3. QED
    BY <1>1, <2>1, <2>2, RedoJoined
<1>4. QED
  BY <1>2, <1>3

\* A call on such a log loses nothing.
LEMMA CallForms ==
  ASSUME LogInv, LiveAnnots, LiveForms, Call
  PROVE  LiveForms'
<1> DEFINE forms == origin.form
<1>1. /\ ir \in Doc /\ undo \in Seq(Command) /\ redo \in Seq(Command) /\ IdsDistinct(ir)
      /\ Meet(AnnotLinks, {{}}, SUBSET Annot, undo, redo, AnnotsOf(ir))
      /\ Meet(FieldLinks, forms, Seq(Field), undo, redo, ir.fields)
      /\ lost = 0
  BY DEF LogInv, PersistTypeOK, LiveAnnots, AnnotsMeet, LiveForms, FormsMeet
<1>2. ~UndoLost /\ ~RedoLost
  BY LastFits DEF UndoLost, RedoLost
<1>3. lost' = 0 /\ origin'.form = forms
  BY <1>1, <1>2 DEF Call
<1> HIDE DEF forms
<1>4. ASSUME UNCHANGED <<ir, undo, redo>>
      PROVE  LiveForms'
  BY <1>1, <1>3, <1>4 DEF LiveForms, FormsMeet
<1>5. ASSUME NEW r \in Request, ApplyOverBudget(r)
      PROVE  LiveForms'
  <2>1. /\ Applicable(ir, r) /\ UNCHANGED <<undo, redo>>
        /\ ir' = Backward(Forward(ir, Captured(ir, r)), Captured(ir, r))
    BY <1>5 DEF ApplyOverBudget
  <2>2. ir' \in Doc /\ ContentOf(ir') = ContentOf(ir)
    BY <1>1, <2>1, AppliedAndReversed
  <2>3. ir'.fields = ir.fields
    BY <1>1, <2>2, PartsOf
  <2>4. QED
    BY <1>1, <1>3, <2>1, <2>3 DEF LiveForms, FormsMeet
<1>6. ASSUME NEW r \in Request, ApplyLogged(r)
      PROVE  LiveForms'
  <2> DEFINE c == Captured(ir, r)
  <2>1. /\ Applicable(ir, r) /\ ir' = Forward(ir, c)
        /\ undo' = Append(undo, c) /\ redo' = <<>>
    BY <1>6 DEF ApplyLogged
  <2>2. <<c, ir.fields, Forward(ir, c).fields>> \in FieldLinks
    BY <1>1, <2>1, LoggedLinks
  <2> HIDE DEF c
  <2>3. Meet(FieldLinks, forms, Seq(Field), Append(undo, c), <<>>, Forward(ir, c).fields)
    BY <1>1, <2>2, LinkSets, MeetPush
  <2>4. QED
    BY <1>3, <2>1, <2>3 DEF LiveForms, FormsMeet
<1>7. ASSUME UndoDone
      PROVE  LiveForms'
  <2> DEFINE c == Last(undo)
  <2>1. undo # <<>> /\ ir' = Backward(ir, c) /\ undo' = Front(undo) /\ redo' = Append(redo, c)
    BY <1>7 DEF UndoDone
  <2>2. PICK A : <<c, A, AnnotsOf(ir)>> \in AnnotLinks
    BY <1>1, <2>1, LinkSets, MeetUndo
  <2>3. PICK F : /\ <<c, F, ir.fields>> \in FieldLinks
                 /\ Meet(FieldLinks, forms, Seq(Field), Front(undo), Append(redo, c), F)
    BY <1>1, <2>1, LinkSets, MeetUndo
  <2>4. Backward(ir, c).fields = F
    BY <1>1, <2>2, <2>3, UndoJoined
  <2>5. QED
    BY <1>3, <2>1, <2>3, <2>4 DEF LiveForms, FormsMeet
<1>8. ASSUME RedoDone
      PROVE  LiveForms'
  <2> DEFINE c == Last(redo)
  <2>1. redo # <<>> /\ ir' = Forward(ir, c) /\ redo' = Front(redo) /\ undo' = Append(undo, c)
    BY <1>8 DEF RedoDone
  <2>2. PICK B : <<c, AnnotsOf(ir), B>> \in AnnotLinks
    BY <1>1, <2>1, LinkSets, MeetRedo
  <2>3. PICK G : /\ <<c, ir.fields, G>> \in FieldLinks
                 /\ Meet(FieldLinks, forms, Seq(Field), Append(undo, c), Front(redo), G)
    <3>1. /\ undo \in Seq(Command) /\ redo \in Seq(Command) /\ redo # <<>>
          /\ Meet(FieldLinks, forms, Seq(Field), undo, redo, ir.fields)
      BY <1>1, <2>1
    <3>2. FieldLinks \in SUBSET (Command \X Seq(Field) \X Seq(Field))
      BY LinkSets
    <3>3. \E q : /\ <<Last(redo), ir.fields, q>> \in FieldLinks
                 /\ Meet(FieldLinks, forms, Seq(Field), Append(undo, Last(redo)), Front(redo), q)
                 /\ ir.fields = q =>
                      Meet(FieldLinks, forms, Seq(Field), undo, Front(redo), ir.fields)
      BY <3>1, <3>2, MeetRedo
    <3>4. QED
      BY <3>3
  <2>4. Forward(ir, c).fields = G
    BY <1>1, <2>2, <2>3, RedoJoined
  <2>5. QED
    BY <1>3, <2>1, <2>3, <2>4 DEF LiveForms, FormsMeet
<1>9. QED
  BY <1>2, <1>4, <1>5, <1>6, <1>7, <1>8
    DEF Call, Apply, ApplyRefused, UndoEmpty, Redo, RedoEmpty

\* Saving keeps the paths of the form as they are.
LEMMA SavedForms ==
  ASSUME NEW forms \in SUBSET Seq(Field), NEW u \in Seq(Command), NEW r \in Seq(Command),
         NEW F \in Seq(Field), FormsMeet(forms, u, r, F)
  PROVE  FormsMeet(forms, Written(u), Written(r), F)
<1> DEFINE g == [X \in Seq(Field) |-> X]
<1>1. Path(FieldLinks, forms, u, F) /\ Path(Back(FieldLinks), Seq(Field), r, F)
  BY DEF FormsMeet, Meet
<1>2. \A X \in Seq(Field) : g[X] = X
  OBVIOUS
<1> HIDE DEF g
<1>3. \A c, X, Y : <<c, X, Y>> \in FieldLinks => <<Rounded(c), g[X], g[Y]>> \in FieldLinks
  <2>1. SUFFICES ASSUME NEW c, NEW X, NEW Y, <<c, X, Y>> \in FieldLinks
                 PROVE  <<Rounded(c), g[X], g[Y]>> \in FieldLinks
    OBVIOUS
  <2>2. X \in Seq(Field) /\ Y \in Seq(Field)
    BY <2>1, LinkFacts
  <2>3. <<Rounded(c), X, Y>> \in FieldLinks
    BY <2>1, RoundedForm
  <2>4. QED
    BY <1>2, <2>2, <2>3
<1>4. /\ \A k \in 1..Len(u) : Written(u)[k] = Rounded(u[k])
      /\ \A k \in 1..Len(r) : Written(r)[k] = Rounded(r[k])
      /\ Len(Written(u)) = Len(u) /\ Len(Written(r)) = Len(r)
      /\ Len(u) \in Nat /\ Len(r) \in Nat
  BY WrittenFacts
<1>5. Path(FieldLinks, forms, Written(u), g[F])
  <2>1. \A k \in 1..Len(u) : \A X, Y :
          <<u[k], X, Y>> \in FieldLinks => <<Written(u)[k], g[X], g[Y]>> \in FieldLinks
    BY <1>3, <1>4
  <2>2. \A X \in forms : g[X] \in forms
    BY <1>2
  <2>3. QED
    BY <1>1, <1>4, <2>1, <2>2, PathMap
<1>6. Path(Back(FieldLinks), Seq(Field), Written(r), g[F])
  <2>1. \A k \in 1..Len(r) : \A X, Y :
          <<r[k], X, Y>> \in Back(FieldLinks) =>
            <<Written(r)[k], g[X], g[Y]>> \in Back(FieldLinks)
    BY <1>3, <1>4, BackFacts
  <2>2. \A X \in Seq(Field) : g[X] \in Seq(Field)
    BY <1>2
  <2>3. QED
    BY <1>1, <1>4, <2>1, <2>2, PathMap
<1>7. g[F] = F
  BY <1>2
<1>8. QED
  BY <1>5, <1>6, <1>7 DEF FormsMeet, Meet

\* A replay of a log that fits the budget never exceeds it.
LEMMA ReplayFits ==
  ASSUME LogInv, phase = "loading", todo # <<>>, lost = 0, NEW m \in Nat,
         WithinCeilings(Len(loading.undo) + m)
  PROVE  ~OverBudget
<1>1. /\ undo_bytes = CmdBytes * (Len(undo) + lost) /\ Len(undo) \in Nat
      /\ todo \in Seq(Command)
      /\ Len(loading.undo) = Len(undo) + Len(todo)
  BY DEF LogInv, PersistTypeOK, Counted, Replaying
<1> DEFINE n == Len(undo)
<1>2. PICK t \in Nat : t + 1 = Len(todo)
  BY <1>1, StackFacts
<1>3. Len(loading.undo) + m = (n + 1) + (t + m) /\ n + 1 \in Nat /\ t + m \in Nat
  BY <1>1, <1>2
<1>4. WithinCeilings(n + 1)
  BY <1>3, CeilingsShrink
<1>5. CmdBytes * (n + 1) = CmdBytes * n + CmdBytes
  BY <1>1, BytesOf
<1>6. undo_bytes = CmdBytes * n
  BY <1>1
<1>7. PICK a \in Nat : a = CmdBytes * n
  BY <1>1, BytesOf
<1>8. /\ MaxTiles > 0 => n + 1 <= MaxTiles
      /\ MaxBytes > 0 => a + CmdBytes <= MaxBytes
  BY <1>4, <1>5, <1>7 DEF WithinCeilings
<1>9. QED
  BY <1>1, <1>6, <1>7, <1>8, BudgetAssumption DEF OverBudget

\* The first session opened one form.
LEMMA SteadyInvInit == PInit => SteadyInv
<1>1. SUFFICES ASSUME PInit PROVE SteadyInv
  OBVIOUS
<1>2. /\ ir.fields = InitFields /\ undo = <<>> /\ redo = <<>>
      /\ file.undo = <<>> /\ file.redo = <<>> /\ phase = "live" /\ lost = 0
      /\ origin.form = {InitFields} /\ kept.origin.form = {InitFields}
      /\ kept.ir.fields = InitFields
  BY <1>1 DEF PInit, Init, EmptyLog
<1>3. FormsMeet({InitFields}, <<>>, <<>>, InitFields)
  BY FormAssumption, PathEmpty DEF FormsMeet, Meet
<1>4. QED
  BY <1>2, <1>3 DEF SteadyInv, SteadyFile, SteadySession

\* What is on disk after a save.
LEMMA SteadyFileStep == PersistInv /\ [PNext]_pvars => SteadyFile'
<1>1. SUFFICES ASSUME PersistInv, [PNext]_pvars PROVE SteadyFile'
  OBVIOUS
<1>2. ASSUME UNCHANGED <<file, kept>>
      PROVE  SteadyFile'
  BY <1>1, <1>2 DEF PersistInv, SteadyInv, SteadyFile
<1>3. CASE Save
  <2>1. /\ phase = "live" /\ file' = [undo |-> Written(undo), redo |-> Written(redo)]
        /\ kept' = [origin |-> origin, ir |-> ir]
    BY <1>3 DEF Save
  <2>2. /\ undo \in Seq(Command) /\ redo \in Seq(Command)
        /\ origin.form \in SUBSET Seq(Field) /\ ir.fields \in Seq(Field)
    BY <1>1 DEF PersistInv, LogInv, PersistTypeOK, Origin, Doc
  <2>3. origin.form # {} => FormsMeet(origin.form, undo, redo, ir.fields)
    BY <1>1, <2>1 DEF PersistInv, SteadyInv, SteadySession, Steady
  <2>4. origin.form # {} => FormsMeet(origin.form, Written(undo), Written(redo), ir.fields)
    BY <2>2, <2>3, SavedForms
  <2>5. /\ kept'.origin = origin /\ kept'.ir = ir
        /\ file'.undo = Written(undo) /\ file'.redo = Written(redo)
    BY <2>1
  <2>6. QED
    BY <2>4, <2>5 DEF SteadyFile
<1>4. QED
  BY <1>1, <1>2, <1>3
    DEF PNext, pvars, disk, Call, SaveTooLarge, OpenNew, LoadOwn, LoadForeign, Load, Open,
        Replay, ReplayFails, ReplayEnds

\* Where a steady log is being rebuilt, the next command can be applied as it was logged.
LEMMA NextReplays ==
  ASSUME PersistInv, Steady, phase = "loading", todo # <<>>
  PROVE  LET c == Head(todo)
         IN  /\ c \in Command
             /\ Applicable(ir, AsRequest(c)) /\ Captured(ir, AsRequest(c)) = c
             /\ ~OverBudget
             /\ \E G : /\ <<c, ir.fields, G>> \in FieldLinks
                       /\ Forward(ir, c).fields = G
                       /\ Path(FieldLinks, {G}, Tail(todo), kept.ir.fields)
<1> DEFINE c == Head(todo)
<1>1. /\ LogInv /\ OwnFile /\ origin.own
      /\ ir \in Doc /\ todo \in Seq(Command) /\ file.redo \in Seq(Command)
  BY DEF PersistInv, OwnInv, OriginInv, OneForm, Steady, LogInv, PersistTypeOK, Log
<1>2. /\ IdsDistinct(ir) /\ loading = file /\ kept.origin.own
      /\ Path(AnnotLinks, {AnnotsOf(ir)}, todo, RoundedAnnots(AnnotsOf(kept.ir)))
  BY <1>1 DEF PersistInv, OwnInv, OwnSession
<1>3. lost = 0 /\ Path(FieldLinks, {ir.fields}, todo, kept.ir.fields)
  BY DEF PersistInv, SteadyInv, SteadySession
<1>4. c \in Command
  BY <1>1, StackFacts
<1>5. PICK B : <<c, AnnotsOf(ir), B>> \in AnnotLinks
  BY <1>1, <1>2, PathHead
<1>6. PICK G : <<c, ir.fields, G>> \in FieldLinks /\ Path(FieldLinks, {G}, Tail(todo), kept.ir.fields)
  BY <1>1, <1>3, PathHead
<1>7. /\ Forward(ir, c).fields = G
      /\ Applicable(ir, AsRequest(c)) /\ Captured(ir, AsRequest(c)) = c
  BY <1>1, <1>2, <1>5, <1>6, RedoJoined
<1>8. ~OverBudget
  <2>1. WithinCeilings(Len(file.undo) + Len(file.redo))
    BY <1>1, <1>2 DEF OwnFile, AnnotsMeet
  <2>2. WithinCeilings(Len(loading.undo) + Len(file.redo))
    BY <1>2, <2>1
  <2>3. Len(file.redo) \in Nat
    BY <1>1
  <2>4. QED
    BY <1>1, <1>3, <2>2, <2>3, ReplayFits
<1>9. QED
  BY <1>4, <1>6, <1>7, <1>8

\* What a session holds whose log always met the same form.
LEMMA SteadySessionStep == PersistInv /\ [PNext]_pvars => SteadySession'
<1>1. SUFFICES ASSUME PersistInv, [PNext]_pvars, Steady' PROVE SteadySession'
  BY DEF SteadySession
<1>2. ASSUME UNCHANGED <<ir, undo, redo, todo, loading, phase, lost, origin, file, kept>>
      PROVE  SteadySession'
  BY <1>1, <1>2 DEF PersistInv, SteadyInv, SteadySession, Steady
<1>3. CASE Call
  <2>1. /\ phase = "live" /\ phase' = "live" /\ origin' = origin
    BY <1>3 DEF Call, load
  <2>2. Steady /\ origin.own
    BY <1>1, <2>1 DEF Steady, PersistInv, OwnInv, OriginInv, OneForm
  <2>3. LogInv /\ LiveAnnots /\ LiveForms
    BY <1>1, <2>1, <2>2 DEF PersistInv, OwnInv, OwnSession, LiveAnnots, SteadyInv,
                            SteadySession, LiveForms
  <2>4. LiveForms'
    BY <1>3, <2>3, CallForms
  <2>5. QED
    BY <2>1, <2>4 DEF SteadySession, LiveForms
<1>4. CASE Save
  <2>1. phase = "live" /\ UNCHANGED <<ir, undo, redo, phase, lost, origin>>
    BY <1>4 DEF Save, load
  <2>2. QED
    BY <1>1, <2>1 DEF PersistInv, SteadyInv, SteadySession, Steady
<1>5. ASSUME NEW form \in FileForms, Open(form)
      PROVE  /\ ir'.fields = form /\ form \in Seq(Field) /\ undo' = <<>> /\ redo' = <<>>
             /\ lost' = 0 /\ UNCHANGED <<file, kept>>
  BY <1>5, FormsAssumption DEF Open, disk
<1>6. ASSUME NEW form \in FileForms, OpenNew(form)
      PROVE  SteadySession'
  <2>1. Open(form) /\ phase' = "live" /\ origin'.form = {form}
    BY <1>6 DEF OpenNew
  <2>2. FormsMeet({form}, <<>>, <<>>, form)
    BY <1>5, <2>1, PathEmpty DEF FormsMeet, Meet
  <2>3. QED
    BY <1>5, <2>1, <2>2 DEF SteadySession
<1>7. ASSUME NEW form \in FileForms, LoadOwn(form)
      PROVE  SteadySession'
  <2>1. /\ Open(form) /\ phase' = "loading" /\ loading' = file /\ todo' = file.undo
        /\ origin'.form = kept.origin.form \cap {form}
    BY <1>7 DEF LoadOwn, Load
  <2>2. form \in kept.origin.form
    BY <1>1, <2>1 DEF Steady
  <2>3. kept.origin.form = {form} /\ origin'.form = {form}
    BY <1>1, <2>1, <2>2 DEF PersistInv, OwnInv, OriginInv, OneForm
  <2>4. Path(FieldLinks, {form}, file.undo, kept.ir.fields)
    BY <1>1, <2>3 DEF PersistInv, SteadyInv, SteadyFile, FormsMeet, Meet
  <2>5. Path(FieldLinks, {form}, <<>>, form)
    BY PathEmpty
  <2>6. 1..Len(<<>>) = {}
    OBVIOUS
  <2>7. QED
    BY <1>5, <2>1, <2>3, <2>4, <2>5, <2>6 DEF SteadySession
<1>8. ASSUME NEW form, NEW log, LoadForeign(form, log)
      PROVE  SteadySession'
  BY <1>1, <1>8 DEF LoadForeign, Steady
<1>9. CASE Replay
  <2> DEFINE c == Head(todo)
  <2>1. /\ phase = "loading" /\ todo # <<>>
        /\ ir' = Forward(ir, Captured(ir, AsRequest(c))) /\ undo' = Append(undo, Restored(c))
        /\ todo' = Tail(todo)
        /\ UNCHANGED <<phase, loading, file, kept, origin, lost>>
    BY <1>9 DEF Replay, disk
  <2>2. Steady
    BY <1>1, <2>1 DEF Steady
  <2>3. /\ lost = 0 /\ kept.origin.form # {}
        /\ Path(FieldLinks, origin.form, undo, ir.fields)
        /\ \A k \in 1..Len(undo) : undo[k] = loading.undo[k]
    BY <1>1, <2>1, <2>2 DEF PersistInv, SteadyInv, SteadySession
  <2>4. /\ c \in Command /\ Captured(ir, AsRequest(c)) = c
        /\ \E G : /\ <<c, ir.fields, G>> \in FieldLinks
                  /\ Forward(ir, c).fields = G
                  /\ Path(FieldLinks, {G}, Tail(todo), kept.ir.fields)
    BY <1>1, <2>1, <2>2, NextReplays
  <2>5. PICK G : /\ <<c, ir.fields, G>> \in FieldLinks
                 /\ Forward(ir, c).fields = G
                 /\ Path(FieldLinks, {G}, Tail(todo), kept.ir.fields)
    BY <2>4
  <2>6. Restored(c) = c
    BY <2>4 DEF Restored
  <2>7. /\ undo \in Seq(Command) /\ todo \in Seq(Command)
        /\ Len(loading.undo) = Len(undo) + Len(todo)
        /\ \A k \in 1..Len(todo) : todo[k] = loading.undo[Len(undo) + k]
    BY <1>1, <2>1 DEF PersistInv, LogInv, PersistTypeOK, Replaying
  <2>8. c = loading.undo[Len(undo) + 1]
    BY <2>1, <2>7
  <2> HIDE DEF c
  <2>9. /\ Len(undo') = Len(undo) + 1 /\ undo'[Len(undo) + 1] = c
        /\ \A k \in 1..Len(undo) : undo'[k] = undo[k]
        /\ Len(undo) \in Nat
    BY <2>1, <2>4, <2>6, <2>7, StackFacts
  <2>10. \A k \in 1..Len(undo') : undo'[k] = loading'.undo[k]
    BY <2>1, <2>3, <2>8, <2>9
  <2>11. Path(FieldLinks, origin.form, Append(undo, c), G)
    BY <2>3, <2>4, <2>5, <2>7, PathPush
  <2>12. ir'.fields = G /\ undo' = Append(undo, c)
    BY <2>1, <2>4, <2>5, <2>6
  <2>13. QED
    BY <2>1, <2>3, <2>5, <2>10, <2>11, <2>12 DEF SteadySession
<1>10. CASE ReplayFails
  <2>1. /\ phase = "loading" /\ todo # <<>> /\ origin' = origin
        /\ ApplyRefused(AsRequest(Head(todo))) \/ ApplyOverBudget(AsRequest(Head(todo)))
    BY <1>10 DEF ReplayFails
  <2>2. Steady
    BY <1>1, <2>1 DEF Steady
  <2>3. Applicable(ir, AsRequest(Head(todo))) /\ ~OverBudget
    BY <1>1, <2>1, <2>2, NextReplays
  <2>4. QED
    BY <2>1, <2>3 DEF ApplyRefused, ApplyOverBudget
<1>11. CASE ReplayEnds
  <2>1. /\ phase = "loading" /\ todo = <<>> /\ redo' = loading.redo /\ phase' = "live"
        /\ UNCHANGED <<ir, undo, origin, lost>>
    BY <1>11 DEF ReplayEnds
  <2>2. Steady /\ origin.own
    BY <1>1, <2>1 DEF Steady, PersistInv, OwnInv, OriginInv, OneForm
  <2>3. /\ lost = 0 /\ kept.origin.form # {}
        /\ Path(FieldLinks, origin.form, undo, ir.fields)
        /\ Path(FieldLinks, {ir.fields}, <<>>, kept.ir.fields)
    BY <1>1, <2>1, <2>2 DEF PersistInv, SteadyInv, SteadySession
  <2>4. loading = file /\ ir.fields = kept.ir.fields
    BY <1>1, <2>1, <2>2, <2>3, PathEmpty DEF PersistInv, OwnInv, OwnSession
  <2>5. Path(Back(FieldLinks), Seq(Field), file.redo, kept.ir.fields)
    BY <1>1, <2>3 DEF PersistInv, SteadyInv, SteadyFile, FormsMeet, Meet
  <2>6. QED
    BY <2>1, <2>3, <2>4, <2>5 DEF SteadySession, FormsMeet, Meet
<1>12. QED
  BY <1>1, <1>2, <1>3, <1>4, <1>6, <1>7, <1>8, <1>9, <1>10, <1>11
    DEF PNext, pvars, vars, disk, load, SaveTooLarge

-----------------------------------------------------------------------------

\* The whole invariant.
THEOREM LogPersists == PSpec => []PersistInv
<1>1. PInit => PersistInv
  BY LogInvInit, OwnInvInit, SteadyInvInit DEF PersistInv
<1>2. PersistInv /\ [PNext]_pvars => PersistInv'
  BY LogInvStep, OriginStep, OwnFileStep, OwnSessionStep, SteadyFileStep, SteadySessionStep
    DEF PersistInv, OwnInv, SteadyInv
<1>3. QED
  BY <1>1, <1>2, PTL DEF PSpec

\* As long as the same form is opened, a saved log can be rebuilt and every undo and redo
\* works afterwards, those of the commands loaded unseen included.
THEOREM SteadyLogs == PSpec => []SteadyLogsWork
<1>1. PersistInv => SteadyLogsWork
  <2>1. SUFFICES ASSUME PersistInv, Steady
                 PROVE  /\ phase # "failed" /\ lost = 0
                        /\ phase = "live" =>
                             /\ undo # <<>> => CanBackward(ir, Last(undo))
                             /\ redo # <<>> => CanForward(ir, Last(redo))
    BY DEF SteadyLogsWork
  <2>2. phase # "failed" /\ lost = 0
    BY <2>1 DEF PersistInv, SteadyInv, SteadySession
  <2>3. ASSUME phase = "live"
        PROVE  LogInv /\ LiveAnnots /\ LiveForms
    BY <2>1, <2>3 DEF PersistInv, OwnInv, OriginInv, OneForm, OwnSession, LiveAnnots, Steady,
                      SteadyInv, SteadySession, LiveForms
  <2>4. QED
    BY <2>2, <2>3, LastFits
<1>2. QED
  BY <1>1, LogPersists, PTL

\* Rounding twice is rounding once.
LEMMA RoundedTwice ==
  ASSUME NEW A \in SUBSET Annot
  PROVE  RoundedAnnots(RoundedAnnots(A)) = RoundedAnnots(A)
<1>1. \A a \in A : Round[Round[a.rect]] = Round[a.rect]
  BY RoundAssumption DEF Annot
<1>2. QED
  BY <1>1 DEF RoundedAnnots

\* And rebuilding it gives back both stacks, and the content up to the rounding.
THEOREM SteadyLogsRestore == PSpec => SteadyReplayRestores
<1>1. PersistInv /\ [PNext]_pvars =>
        [ReplayEnds /\ Steady =>
           /\ undo' = file.undo
           /\ redo' = file.redo
           /\ RoundedContent(ir') = RoundedContent(kept.ir)]_pvars
  <2>1. SUFFICES ASSUME PersistInv, ReplayEnds, Steady
                 PROVE  /\ undo' = file.undo
                        /\ redo' = file.redo
                        /\ RoundedContent(ir') = RoundedContent(kept.ir)
    OBVIOUS
  <2>2. /\ phase = "loading" /\ todo = <<>> /\ redo' = loading.redo
        /\ UNCHANGED <<ir, undo>>
    BY <2>1 DEF ReplayEnds
  <2>3. /\ loading = file
        /\ Path(AnnotLinks, {AnnotsOf(ir)}, <<>>, RoundedAnnots(AnnotsOf(kept.ir)))
    BY <2>1, <2>2 DEF PersistInv, OwnInv, OriginInv, OneForm, OwnSession, Steady
  <2>4. /\ Path(FieldLinks, {ir.fields}, <<>>, kept.ir.fields)
        /\ \A k \in 1..Len(undo) : undo[k] = loading.undo[k]
    BY <2>1, <2>2 DEF PersistInv, SteadyInv, SteadySession
  <2>5. undo = file.undo
    <3>1. /\ undo \in Seq(Command) /\ file.undo \in Seq(Command) /\ todo \in Seq(Command)
          /\ Len(file.undo) = Len(undo) + Len(todo)
      BY <2>1, <2>2, <2>3 DEF PersistInv, LogInv, PersistTypeOK, Log, Replaying
    <3>2. Len(todo) = 0 /\ Len(undo) \in Nat
      BY <2>2, <3>1
    <3>3. Len(file.undo) = Len(undo)
      BY <3>1, <3>2
    <3>4. QED
      BY <2>3, <2>4, <3>1, <3>3, SeqEqual
  <2>6. AnnotsOf(ir) = RoundedAnnots(AnnotsOf(kept.ir)) /\ ir.fields = kept.ir.fields
    BY <2>3, <2>4, PathEmpty
  <2>7. kept.ir \in Doc
    BY <2>1 DEF PersistInv, LogInv, PersistTypeOK
  <2>8. AnnotsOf(kept.ir) \in SUBSET Annot
    BY <2>7, PartsOf
  <2>9. RoundedAnnots(AnnotsOf(ir)) = RoundedAnnots(AnnotsOf(kept.ir))
    BY <2>6, <2>8, RoundedTwice
  <2>10. \A d : RoundedContent(d) = [annots |-> RoundedAnnots(AnnotsOf(d)), fields |-> d.fields]
    BY DEF RoundedContent, RoundedAnnots, AnnotsOf
  <2>11. RoundedContent(ir) = RoundedContent(kept.ir)
    BY <2>6, <2>9, <2>10
  <2>12. QED
    BY <2>2, <2>3, <2>5, <2>11
<1>2. QED
  BY <1>1, LogPersists, PTL DEF PSpec, SteadyReplayRestores

=============================================================================
