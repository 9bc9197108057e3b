---------------------------- MODULE TxnLogLemmas ----------------------------
(***************************************************************************)
(* Facts about the operators of the transaction log that the proofs about  *)
(* the log, its persistence and the form rest on: what the lookups return, *)
(* what the IR primitives do to the content, and that a command which      *)
(* leads from one content to another can be performed on any document of   *)
(* the first and reversed on any document of the second.                   *)
(***************************************************************************)
EXTENDS TxnContent, FiniteSetTheorems, SequenceTheorems, TLAPS

-----------------------------------------------------------------------------
(* Arithmetic.                                                             *)

\* A product of natural numbers is one.
LEMMA NatTimesNat ==
  ASSUME NEW a \in Nat, NEW b \in Nat
  PROVE  a * b \in Nat
OBVIOUS

-----------------------------------------------------------------------------
(* Lookup.                                                                 *)

\* A nonempty set of natural numbers has a least element, and Min names it.
LEMMA MinOfNats ==
  ASSUME NEW S \in SUBSET Nat, S # {}
  PROVE  /\ Min(S) \in S
         /\ \A j \in S : Min(S) <= j
<1> DEFINE Below(n) == {x \in S : x <= n}
           T == {Below(n) : n \in S}
<1>1. T \subseteq FiniteSubsetsOf(S)
  <2> SUFFICES ASSUME NEW n \in S
               PROVE  Below(n) \in FiniteSubsetsOf(S)
    OBVIOUS
  <2>1. IsFiniteSet(Below(n))
    <3>1. Below(n) \in SUBSET Nat /\ n \in Nat /\ \A x \in Below(n) : x <= n
      OBVIOUS
    <3> HIDE DEF Below
    <3>2. QED
      BY <3>1, FS_BoundedSetOfNaturals
  <2>2. QED
    BY <2>1 DEF FiniteSubsetsOf
<1>2. T # {}
  OBVIOUS
<1>3. PICK U \in T : \A V \in T : ~(<<V, U>> \in StrictSubsetOrdering(S))
  <2> HIDE DEF T
  <2>1. QED
    BY <1>1, <1>2, WFMin, FS_StrictSubsetOrderingWellFounded
<1>4. PICK m \in S : U = Below(m)
  BY <1>3
<1>5. ASSUME NEW j \in S
      PROVE  m <= j
  <2>1. SUFFICES ASSUME j < m
                 PROVE  FALSE
    BY <2>1
  <2>2. Below(j) \in T /\ Below(j) \in SUBSET S /\ Below(m) \in SUBSET S
    OBVIOUS
  <2>3. \A x \in S : x <= j => x <= m
    BY <2>1, S \subseteq Nat, j \in Nat, m \in Nat
  <2>4. m \in Below(m) /\ m \notin Below(j)
    BY <2>1
  <2>5. Below(j) \subseteq Below(m)
    BY <2>3
  <2> HIDE DEF Below, T
  <2>6. <<Below(j), Below(m)>> \in StrictSubsetOrdering(S)
    BY <2>2, <2>4, <2>5 DEF StrictSubsetOrdering
  <2>7. QED
    BY <2>2, <2>6, <1>3, <1>4
<1>6. QED
  BY <1>5 DEF Min

\* find_annotation: 0 exactly when no annotation has the id, the first match
\* otherwise.
LEMMA AnnotIndexFinds ==
  ASSUME NEW d \in Doc, NEW id
  PROVE  /\ AnnotIndex(d, id) \in 0..Len(d.annots)
         /\ AnnotIndex(d, id) = 0 <=> \A k \in 1..Len(d.annots) : d.annots[k].id # id
         /\ AnnotIndex(d, id) # 0 => d.annots[AnnotIndex(d, id)].id = id
<1> DEFINE I == {i \in 1..Len(d.annots) : d.annots[i].id = id}
<1>1. I \in SUBSET Nat
  BY DEF Doc
<1>2. AnnotIndex(d, id) = IF I # {} THEN Min(I) ELSE 0
  BY DEF AnnotIndex, SelectInSeq
<1>3. I # {} => Min(I) \in I
  BY <1>1, MinOfNats
<1>4. QED
  BY <1>2, <1>3 DEF Doc

\* ir_form_field_find: the same for fields, whose names may repeat, whatever they hold.
LEMMA FieldIndexMatches ==
  ASSUME NEW d, NEW name, Len(d.fields) \in Nat
  PROVE  /\ FieldIndex(d, name) \in 0..Len(d.fields)
         /\ FieldIndex(d, name) = 0 <=> \A k \in 1..Len(d.fields) : d.fields[k].name # name
         /\ FieldIndex(d, name) # 0 =>
              /\ d.fields[FieldIndex(d, name)].name = name
              /\ \A k \in 1..(FieldIndex(d, name) - 1) : d.fields[k].name # name
<1> DEFINE I == {i \in 1..Len(d.fields) : d.fields[i].name = name}
<1>1. I \in SUBSET Nat
  OBVIOUS
<1>2. FieldIndex(d, name) = IF I # {} THEN Min(I) ELSE 0
  BY DEF FieldIndex, SelectInSeq
<1>3. I # {} => Min(I) \in I /\ \A j \in I : Min(I) <= j
  BY <1>1, MinOfNats
<1>4. \A k \in Nat : k \in I <=> k \in 1..Len(d.fields) /\ d.fields[k].name = name
  OBVIOUS
<1>5. Len(d.fields) \in Nat
  OBVIOUS
<1> HIDE DEF I
<1>6. CASE I = {}
  BY <1>2, <1>4, <1>5, <1>6
<1>7. CASE I # {}
  <2>1. FieldIndex(d, name) \in I /\ \A j \in I : FieldIndex(d, name) <= j
    BY <1>2, <1>3, <1>7
  <2> DEFINE n == FieldIndex(d, name)
  <2>2. n \in 1..Len(d.fields) /\ d.fields[n].name = name
    BY <2>1, <1>1, <1>4
  <2>3. ASSUME NEW k \in 1..(n - 1), d.fields[k].name = name
        PROVE  FALSE
    <3>1. k \in 1..Len(d.fields) /\ k \in Nat /\ n \in Nat /\ k < n
      BY <2>2, <1>5
    <3> HIDE DEF n
    <3>2. QED
      BY <3>1, <2>1, <2>3, <1>4 DEF n
  <2>4. QED
    BY <2>2, <2>3, <1>5
<1>8. QED
  BY <1>6, <1>7

\* The same for a document of the log.
LEMMA FieldIndexFinds ==
  ASSUME NEW d \in Doc, NEW name
  PROVE  /\ FieldIndex(d, name) \in 0..Len(d.fields)
         /\ FieldIndex(d, name) = 0 <=> \A k \in 1..Len(d.fields) : d.fields[k].name # name
         /\ FieldIndex(d, name) # 0 =>
              /\ d.fields[FieldIndex(d, name)].name = name
              /\ \A k \in 1..(FieldIndex(d, name) - 1) : d.fields[k].name # name
BY FieldIndexMatches DEF Doc

\* An index that is the first with the name is the one ir_form_field_find returns.
LEMMA FieldIndexIs ==
  ASSUME NEW d \in Doc, NEW name, NEW i \in 1..Len(d.fields),
         d.fields[i].name = name,
         \A k \in 1..(i - 1) : d.fields[k].name # name
  PROVE  FieldIndex(d, name) = i
<1>1. FieldIndex(d, name) # 0
  BY FieldIndexFinds
<1> DEFINE n == FieldIndex(d, name)
<1>2. /\ n \in 1..Len(d.fields)
      /\ d.fields[n].name = name
      /\ \A k \in 1..(n - 1) : d.fields[k].name # name
  BY <1>1, FieldIndexFinds
<1>3. ~(n < i) /\ ~(i < n)
  BY <1>2 DEF Doc
<1>4. QED
  BY <1>2, <1>3 DEF Doc

-----------------------------------------------------------------------------
(* Sequences.                                                              *)

\* Removing one element shortens the sequence by one and shifts the rest down.
LEMMA RemoveAtFacts ==
  ASSUME NEW S, NEW s \in Seq(S), NEW i \in 1..Len(s)
  PROVE  /\ RemoveAt(s, i) \in Seq(S)
         /\ Len(RemoveAt(s, i)) = Len(s) - 1
         /\ \A k \in 1..(Len(s) - 1) :
              RemoveAt(s, i)[k] = IF k < i THEN s[k] ELSE s[k + 1]
<1> DEFINE u == SubSeq(s, 1, i - 1)
           v == SubSeq(s, i + 1, Len(s))
<1>1. i \in Nat /\ Len(s) \in Nat /\ 1 <= i /\ i <= Len(s)
  OBVIOUS
<1>2. /\ u \in Seq(S) /\ Len(u) = i - 1
      /\ \A k \in 1..(i - 1) : u[k] = s[k]
  BY <1>1
<1>3. /\ v \in Seq(S) /\ Len(v) = Len(s) - i
      /\ \A k \in 1..(Len(s) - i) : v[k] = s[k + i]
  BY <1>1
<1>4. RemoveAt(s, i) = u \o v
  BY DEF RemoveAt
<1> HIDE DEF u, v
<1>5. /\ u \o v \in Seq(S)
      /\ Len(u \o v) = Len(u) + Len(v)
      /\ \A k \in 1..(Len(u) + Len(v)) :
           (u \o v)[k] = IF k <= Len(u) THEN u[k] ELSE v[k - Len(u)]
  BY <1>2, <1>3, ConcatProperties
<1>6. ASSUME NEW k \in 1..(Len(s) - 1)
      PROVE  (u \o v)[k] = IF k < i THEN s[k] ELSE s[k + 1]
  <2>1. (u \o v)[k] = IF k <= i - 1 THEN u[k] ELSE v[k - (i - 1)]
    <3>1. Len(u) = i - 1 /\ k \in 1..(Len(u) + Len(v))
      BY <1>1, <1>2, <1>3
    <3>2. (u \o v)[k] = IF k <= Len(u) THEN u[k] ELSE v[k - Len(u)]
      BY <1>5, <3>1
    <3>3. QED
      BY <3>1, <3>2
  <2>2. CASE k < i
    <3>1. k <= i - 1 /\ k \in 1..(i - 1)
      BY <1>1, <2>2
    <3>2. u[k] = s[k]
      BY <1>2, <3>1
    <3>3. QED
      BY <2>1, <2>2, <3>1, <3>2
  <2>3. CASE ~(k < i)
    <3>1. k - (i - 1) \in 1..(Len(s) - i) /\ (k - (i - 1)) + i = k + 1
      BY <1>1, <2>3
    <3>2. v[k - (i - 1)] = s[k + 1]
      BY <1>3, <3>1
    <3>3. QED
      BY <1>1, <2>1, <2>3, <3>2
  <2>4. QED
    BY <2>2, <2>3
<1>7. QED
  BY <1>1, <1>2, <1>3, <1>4, <1>5, <1>6

\* Popping the last element.
LEMMA FrontFacts ==
  ASSUME NEW S, NEW s \in Seq(S), s # <<>>
  PROVE  /\ Front(s) \in Seq(S)
         /\ Len(Front(s)) = Len(s) - 1
         /\ Len(s) \in Nat \ {0}
         /\ Last(s) \in S
         /\ \A k \in 1..(Len(s) - 1) : Front(s)[k] = s[k]
<1>1. Len(s) \in Nat /\ Len(s) # 0
  OBVIOUS
<1>2. Last(s) \in S
  BY <1>1 DEF Last
<1>3. \A k \in 1..(Len(s) - 1) : s[k] \in S
  BY <1>1
<1> DEFINE n == Len(s) - 1
<1>4. n \in Nat
  BY <1>1
<1>5. Front(s) = SubSeq(s, 1, n)
  BY DEF Front
<1> HIDE DEF n
<1>6. /\ SubSeq(s, 1, n) \in Seq(S)
      /\ Len(SubSeq(s, 1, n)) = IF 1 <= n THEN n - 1 + 1 ELSE 0
      /\ \A k \in 1..(n - 1 + 1) : SubSeq(s, 1, n)[k] = s[1 + k - 1]
  BY <1>3, <1>4, SubSeqProperties DEF n
<1>7. Len(SubSeq(s, 1, n)) = n /\ \A k \in 1..n : SubSeq(s, 1, n)[k] = s[k]
  BY <1>4, <1>6
<1>8. Front(s) \in Seq(S) /\ Len(Front(s)) = n /\ \A k \in 1..n : Front(s)[k] = s[k]
  BY <1>5, <1>6, <1>7
<1>9. QED
  BY <1>1, <1>2, <1>8 DEF n

\* Cutting a sequence and appending to it.
LEMMA CutFacts ==
  ASSUME NEW S, NEW s \in Seq(S), NEW n \in 1..Len(s), NEW e \in S
  PROVE  LET t == Append(SubSeq(s, 1, n), e)
         IN  /\ t \in Seq(S)
             /\ Len(t) = n + 1
             /\ \A k \in 1..n : t[k] = s[k]
             /\ t[n + 1] = e
<1> DEFINE u == SubSeq(s, 1, n)
<1>1. n \in Nat /\ 1 <= n /\ n <= Len(s) /\ Len(s) \in Nat
  OBVIOUS
<1>2. u \in Seq(S) /\ Len(u) = n /\ \A k \in 1..n : u[k] = s[k]
  BY <1>1
<1> HIDE DEF u
<1>3. /\ Append(u, e) \in Seq(S)
      /\ Len(Append(u, e)) = n + 1
      /\ \A k \in 1..n : Append(u, e)[k] = u[k]
      /\ Append(u, e)[n + 1] = e
  BY <1>2, AppendProperties
<1>4. QED
  BY <1>2, <1>3 DEF u

-----------------------------------------------------------------------------
(* What the IR primitives do to the content.                               *)

\* The content of a document, as membership facts the leaves can use.
LEMMA ContentFacts ==
  ASSUME NEW d \in Doc
  PROVE  /\ ContentOf(d) \in Content
         /\ ContentOf(d).fields = d.fields
         /\ ContentOf(d) = [annots |-> ContentOf(d).annots, fields |-> d.fields]
         /\ \A a : a \in ContentOf(d).annots <=> \E k \in 1..Len(d.annots) : d.annots[k] = a
BY DEF Doc, Content, ContentOf, ToSet

\* Inserting an annotation whose id is free adds it to the content.
LEMMA InsertContent ==
  ASSUME NEW d \in Doc, IdsDistinct(d), NEW id \in AnnotId, NEW rect \in Rect,
         Without(ContentOf(d), id) = ContentOf(d).annots
  PROVE  /\ AnnotInsert(d, id, rect) \in Doc
         /\ IdsDistinct(AnnotInsert(d, id, rect))
         /\ ContentOf(AnnotInsert(d, id, rect)) =
              [annots |-> ContentOf(d).annots \cup {[id |-> id, rect |-> rect]},
               fields |-> d.fields]
<1> DEFINE n == [id |-> id, rect |-> rect]
           e == AnnotInsert(d, id, rect)
           s == d.annots
           t == e.annots
<1>1. /\ n \in Annot
      /\ s \in Seq(Annot)
      /\ e = [annots |-> Append(s, n), fields |-> d.fields]
      /\ n.id = id
  BY DEF Doc, Annot, AnnotInsert
<1>2. e \in Doc /\ e.fields = d.fields
  BY <1>1 DEF Doc
<1>3. /\ Len(t) = Len(s) + 1
      /\ \A k \in 1..Len(s) : t[k] = s[k]
      /\ t[Len(s) + 1] = n
      /\ Len(s) \in Nat
  BY <1>1, AppendProperties
<1>4. \A k \in 1..Len(s) : s[k].id # id
  BY ContentFacts DEF Without
<1>5. \A a : a \in ContentOf(e).annots <=> \E k \in 1..Len(t) : t[k] = a
  BY <1>2, ContentFacts
<1>6. \A a : a \in ContentOf(d).annots <=> \E k \in 1..Len(s) : s[k] = a
  BY ContentFacts
<1>7. ContentOf(e) = [annots |-> ContentOf(e).annots, fields |-> d.fields]
  BY <1>2, ContentFacts
<1>8. \A j, k \in 1..Len(s) : s[j].id = s[k].id => j = k
  BY DEF IdsDistinct
<1> HIDE DEF e, s, t, n
<1>9. \A j, k \in 1..Len(t) : t[j].id = t[k].id => j = k
  BY <1>1, <1>3, <1>4, <1>8
<1>10. ContentOf(e).annots = ContentOf(d).annots \cup {n}
  <2>1. \A a : a \in ContentOf(e).annots <=> a \in ContentOf(d).annots \/ a = n
    BY <1>3, <1>5, <1>6
  <2>2. QED
    BY <2>1
<1>11. QED
  BY <1>2, <1>7, <1>9, <1>10 DEF e, t, n, IdsDistinct

\* Removing an annotation that is there takes exactly it out of the content.
LEMMA RemoveContent ==
  ASSUME NEW d \in Doc, IdsDistinct(d), NEW id, AnnotIndex(d, id) # 0
  PROVE  /\ AnnotRemove(d, id) \in Doc
         /\ IdsDistinct(AnnotRemove(d, id))
         /\ ContentOf(AnnotRemove(d, id)) =
              [annots |-> Without(ContentOf(d), id), fields |-> d.fields]
<1> DEFINE i == AnnotIndex(d, id)
           s == d.annots
           e == AnnotRemove(d, id)
           t == e.annots
<1>1. s \in Seq(Annot) /\ i \in 1..Len(s) /\ s[i].id = id /\ Len(s) \in Nat
  BY AnnotIndexFinds DEF Doc
<1>2. e = [annots |-> RemoveAt(s, i), fields |-> d.fields]
  BY DEF AnnotRemove
<1>3. /\ t \in Seq(Annot)
      /\ Len(t) = Len(s) - 1
      /\ \A k \in 1..(Len(s) - 1) : t[k] = IF k < i THEN s[k] ELSE s[k + 1]
  <2> HIDE DEF s, i, e
  <2>1. t = RemoveAt(s, i)
    BY <1>2
  <2>2. QED
    BY <2>1, <1>1, RemoveAtFacts
<1>4. e \in Doc /\ e.fields = d.fields
  BY <1>2, <1>3 DEF Doc
<1>5. \A a : a \in ContentOf(e).annots <=> \E k \in 1..Len(t) : t[k] = a
  BY <1>4, ContentFacts
<1>6. \A a : a \in ContentOf(d).annots <=> \E k \in 1..Len(s) : s[k] = a
  BY ContentFacts
<1>7. ContentOf(e) = [annots |-> ContentOf(e).annots, fields |-> d.fields]
  BY <1>4, ContentFacts
<1>8. \A j, k \in 1..Len(s) : s[j].id = s[k].id => j = k
  BY DEF IdsDistinct
<1> HIDE DEF i, s, e, t
<1>9. \A j, k \in 1..Len(t) : t[j].id = t[k].id => j = k
  <2> DEFINE place(j) == IF j < i THEN j ELSE j + 1
  <2>1. \A j \in 1..Len(t) : place(j) \in 1..Len(s)
    BY <1>1, <1>3
  <2>2. \A j \in 1..Len(t) : t[j] = s[place(j)]
    BY <1>3
  <2>3. \A j, k \in 1..Len(t) : place(j) = place(k) => j = k
    BY <1>1, <1>3
  <2> HIDE DEF place
  <2>4. QED
    BY <1>8, <2>1, <2>2, <2>3
<1>10. \A j \in 1..Len(t) : \E k \in 1..Len(s) : k # i /\ t[j] = s[k]
  BY <1>1, <1>3
<1>11. ASSUME NEW k \in 1..Len(s), k # i
       PROVE  \E j \in 1..Len(t) : t[j] = s[k]
  <2>1. CASE k < i
    BY <1>1, <1>3, <2>1
  <2>2. CASE k > i
    <3>1. k - 1 \in 1..Len(t) /\ t[k - 1] = s[k]
      BY <1>1, <1>3, <2>2
    <3>2. QED
      BY <3>1
  <2>3. QED
    BY <1>1, <1>11, <2>1, <2>2
<1>12. \A k \in 1..Len(s) : k # i <=> s[k].id # id
  BY <1>1, <1>8
<1>13. ContentOf(e).annots = Without(ContentOf(d), id)
  <2>1. \A a : a \in ContentOf(e).annots <=> a \in ContentOf(d).annots /\ a.id # id
    <3>1. ASSUME NEW a, a \in ContentOf(e).annots
          PROVE  a \in ContentOf(d).annots /\ a.id # id
      <4>1. PICK j \in 1..Len(t) : t[j] = a
        BY <1>5, <3>1
      <4>2. PICK k \in 1..Len(s) : k # i /\ t[j] = s[k]
        BY <1>10
      <4>3. QED
        BY <4>1, <4>2, <1>6, <1>12
    <3>2. ASSUME NEW a, a \in ContentOf(d).annots, a.id # id
          PROVE  a \in ContentOf(e).annots
      <4>1. PICK k \in 1..Len(s) : s[k] = a
        BY <1>6, <3>2
      <4>2. PICK j \in 1..Len(t) : t[j] = s[k]
        BY <1>11, <1>12, <3>2, <4>1
      <4>3. QED
        BY <4>1, <4>2, <1>5
    <3>3. QED
      BY <3>1, <3>2
  <2>2. QED
    BY <2>1 DEF Without
<1>14. QED
  BY <1>4, <1>7, <1>9, <1>13 DEF e, t, IdsDistinct

\* Moving an annotation that is there replaces exactly it.
LEMMA SetRectContent ==
  ASSUME NEW d \in Doc, IdsDistinct(d), NEW id \in AnnotId, NEW rect \in Rect,
         AnnotIndex(d, id) # 0
  PROVE  /\ SetRect(d, id, rect) \in Doc
         /\ IdsDistinct(SetRect(d, id, rect))
         /\ ContentOf(SetRect(d, id, rect)) =
              [annots |-> Without(ContentOf(d), id) \cup {[id |-> id, rect |-> rect]},
               fields |-> d.fields]
<1> DEFINE i == AnnotIndex(d, id)
           n == [id |-> id, rect |-> rect]
           s == d.annots
           e == SetRect(d, id, rect)
           t == e.annots
<1>1. s \in Seq(Annot) /\ i \in 1..Len(s) /\ s[i].id = id /\ Len(s) \in Nat
  BY AnnotIndexFinds DEF Doc
<1>2. n \in Annot /\ n.id = id
  BY DEF Annot
<1>3. e = [annots |-> [s EXCEPT ![i] = n], fields |-> d.fields]
  BY DEF SetRect
<1>4. /\ t \in Seq(Annot)
      /\ Len(t) = Len(s)
      /\ \A k \in 1..Len(s) : t[k] = IF k = i THEN n ELSE s[k]
  <2> HIDE DEF s, i, n, e
  <2>1. t = [s EXCEPT ![i] = n]
    BY <1>3
  <2>2. QED
    BY <2>1, <1>1, <1>2
<1>5. e \in Doc /\ e.fields = d.fields
  BY <1>3, <1>4 DEF Doc
<1>6. \A a : a \in ContentOf(e).annots <=> \E k \in 1..Len(t) : t[k] = a
  BY <1>5, ContentFacts
<1>7. \A a : a \in ContentOf(d).annots <=> \E k \in 1..Len(s) : s[k] = a
  BY ContentFacts
<1>8. ContentOf(e) = [annots |-> ContentOf(e).annots, fields |-> d.fields]
  BY <1>5, ContentFacts
<1>9. \A j, k \in 1..Len(s) : s[j].id = s[k].id => j = k
  BY DEF IdsDistinct
<1> HIDE DEF i, n, s, e, t
<1>10. \A j, k \in 1..Len(t) : t[j].id = t[k].id => j = k
  BY <1>1, <1>2, <1>4, <1>9
<1>11. \A k \in 1..Len(s) : k # i <=> s[k].id # id
  BY <1>1, <1>9
<1>12. ContentOf(e).annots = Without(ContentOf(d), id) \cup {n}
  <2>1. \A a : a \in ContentOf(e).annots <=> (a \in ContentOf(d).annots /\ a.id # id) \/ a = n
    BY <1>1, <1>4, <1>6, <1>7, <1>11
  <2>2. QED
    BY <2>1 DEF Without
<1>13. QED
  BY <1>5, <1>8, <1>10, <1>12 DEF e, t, n, IdsDistinct

\* Setting the value of a field changes the first field of that name alone.
LEMMA SetValueContent ==
  ASSUME NEW d \in Doc, IdsDistinct(d), NEW i \in 1..Len(d.fields),
         NEW name \in FieldName, NEW value \in Value,
         FieldIndex(d, name) = i
  PROVE  /\ SetValue(d, name, value) \in Doc
         /\ IdsDistinct(SetValue(d, name, value))
         /\ ContentOf(SetValue(d, name, value)) =
              [annots |-> ContentOf(d).annots,
               fields |-> [d.fields EXCEPT ![i] = [name |-> name, value |-> value]]]
<1>1. [name |-> name, value |-> value] \in Field /\ d.fields \in Seq(Field)
  BY DEF Field, Doc
<1>2. [d.fields EXCEPT ![i] = [name |-> name, value |-> value]] \in Seq(Field)
  BY <1>1
<1>3. SetValue(d, name, value) =
        [annots |-> d.annots,
         fields |-> [d.fields EXCEPT ![i] = [name |-> name, value |-> value]]]
  BY DEF SetValue
<1>4. QED
  BY <1>2, <1>3 DEF Doc, IdsDistinct, ContentOf

\* Replacing the whole field array leaves the annotations alone.
LEMMA SetFieldsContent ==
  ASSUME NEW d \in Doc, IdsDistinct(d), NEW fields \in Seq(Field)
  PROVE  /\ SetFields(d, fields) \in Doc
         /\ IdsDistinct(SetFields(d, fields))
         /\ ContentOf(SetFields(d, fields)) =
              [annots |-> ContentOf(d).annots, fields |-> fields]
BY DEF SetFields, Doc, IdsDistinct, ContentOf

\* An id is absent from the document exactly when the content has no such annotation.
LEMMA AbsentIs ==
  ASSUME NEW d \in Doc, NEW id
  PROVE  AnnotIndex(d, id) = 0 <=> Without(ContentOf(d), id) = ContentOf(d).annots
<1>1. \A a : a \in ContentOf(d).annots <=> \E k \in 1..Len(d.annots) : d.annots[k] = a
  BY ContentFacts
<1>2. AnnotIndex(d, id) = 0 <=> \A a \in ContentOf(d).annots : a.id # id
  BY <1>1, AnnotIndexFinds
<1>3. QED
  BY <1>2 DEF Without

\* An id that is present stands for one annotation of the content, the one
\* find_annotation returns.
LEMMA PresentIs ==
  ASSUME NEW d \in Doc, IdsDistinct(d), NEW id, NEW rect
  PROVE  Holds(ContentOf(d), id, rect) <=>
           /\ AnnotIndex(d, id) # 0
           /\ d.annots[AnnotIndex(d, id)].rect = rect
<1> DEFINE i == AnnotIndex(d, id)
           s == d.annots
           A == ContentOf(d).annots
<1>1. \A a : a \in A <=> \E k \in 1..Len(s) : s[k] = a
  BY ContentFacts
<1>2. /\ i \in 0..Len(s)
      /\ i = 0 <=> \A k \in 1..Len(s) : s[k].id # id
      /\ i # 0 => s[i].id = id
      /\ Len(s) \in Nat
  BY AnnotIndexFinds DEF Doc
<1>3. \A j, k \in 1..Len(s) : s[j].id = s[k].id => j = k
  BY DEF IdsDistinct
<1>4. ASSUME NEW k \in 1..Len(s)
      PROVE  s[k] = [id |-> s[k].id, rect |-> s[k].rect]
  <2>1. s[k] \in Annot
    BY DEF Doc
  <2>2. QED
    BY <2>1 DEF Annot
<1>5. Holds(ContentOf(d), id, rect) <=> {a \in A : a.id = id} = {[id |-> id, rect |-> rect]}
  BY DEF Holds
<1> HIDE DEF i, s, A
<1>6. CASE i = 0
  <2>1. \A a \in A : a.id # id
    BY <1>1, <1>2, <1>6
  <2>2. QED
    BY <1>5, <1>6, <2>1 DEF i
<1>7. CASE i # 0
  <2>1. i \in 1..Len(s) /\ s[i] = [id |-> id, rect |-> s[i].rect]
    BY <1>2, <1>4, <1>7
  <2>2. {a \in A : a.id = id} = {s[i]}
    <3>1. s[i] \in A
      BY <1>1, <2>1
    <3>2. \A a \in A : a.id = id => a = s[i]
      BY <1>1, <1>2, <1>3, <1>7, <2>1
    <3>3. QED
      BY <1>2, <1>7, <3>1, <3>2
  <2>3. s[i] = [id |-> id, rect |-> rect] <=> s[i].rect = rect
    BY <2>1
  <2>4. QED
    BY <1>5, <1>7, <2>2, <2>3 DEF i, s
<1>8. QED
  BY <1>6, <1>7

-----------------------------------------------------------------------------
(* What the definitions by cases say of each type of command.              *)

\* A request or a command of type ADD_ANNOT.
LEMMA AddIs ==
  ASSUME NEW d, NEW r, NEW p, NEW q, r.type = "ADD_ANNOT"
  PROVE  /\ (Applicable(d, r) <=> r.id \in ValidId /\ AnnotIndex(d, r.id) = 0)
         /\ Captured(d, r) = [type |-> "ADD_ANNOT", id |-> r.id, after |-> r.after]
         /\ (CanForward(d, r) <=> TRUE)
         /\ Forward(d, r) = AnnotInsert(d, r.id, r.after)
         /\ (CanBackward(d, r) <=> AnnotIndex(d, r.id) # 0)
         /\ Backward(d, r) = AnnotRemove(d, r.id)
         /\ (Links(r, p, q) <=>
           /\ Without(p, r.id) = p.annots
           /\ q = [annots |-> p.annots \cup {[id |-> r.id, rect |-> r.after]},
                   fields |-> p.fields])
BY Zenon DEF Applicable, Captured, CanForward, Forward, CanBackward, Backward, Links

\* A request or a command of type MOVE.
LEMMA MoveIs ==
  ASSUME NEW d, NEW r, NEW p, NEW q, r.type = "MOVE"
  PROVE  /\ (Applicable(d, r) <=> r.id \in ValidId /\ AnnotIndex(d, r.id) # 0)
         /\ Captured(d, r) = [type |-> "MOVE", id |-> r.id,
                           before |-> d.annots[AnnotIndex(d, r.id)].rect, after |-> r.after]
         /\ (CanForward(d, r) <=> AnnotIndex(d, r.id) # 0)
         /\ Forward(d, r) = SetRect(d, r.id, r.after)
         /\ (CanBackward(d, r) <=> AnnotIndex(d, r.id) # 0)
         /\ Backward(d, r) = SetRect(d, r.id, r.before)
         /\ (Links(r, p, q) <=>
           /\ Holds(p, r.id, r.before)
           /\ q = [annots |-> Without(p, r.id) \cup {[id |-> r.id, rect |-> r.after]},
                   fields |-> p.fields])
BY Zenon DEF Applicable, Captured, CanForward, Forward, CanBackward, Backward, Links

\* A request or a command of type DELETE.
LEMMA DeleteIs ==
  ASSUME NEW d, NEW r, NEW p, NEW q, r.type = "DELETE"
  PROVE  /\ (Applicable(d, r) <=> r.id \in ValidId /\ AnnotIndex(d, r.id) # 0)
         /\ Captured(d, r) = [type |-> "DELETE", id |-> r.id,
                           before |-> d.annots[AnnotIndex(d, r.id)].rect]
         /\ (CanForward(d, r) <=> AnnotIndex(d, r.id) # 0)
         /\ Forward(d, r) = AnnotRemove(d, r.id)
         /\ (CanBackward(d, r) <=> TRUE)
         /\ Backward(d, r) = AnnotInsert(d, r.id, r.before)
         /\ (Links(r, p, q) <=>
           /\ Holds(p, r.id, r.before)
           /\ q = [annots |-> Without(p, r.id), fields |-> p.fields])
BY Zenon DEF Applicable, Captured, CanForward, Forward, CanBackward, Backward, Links

\* A request or a command of type FORM_SET.
LEMMA SetIs ==
  ASSUME NEW d, NEW r, NEW p, NEW q, r.type = "FORM_SET"
  PROVE  /\ (Applicable(d, r) <=> FieldIndex(d, r.name) # 0)
         /\ Captured(d, r) = [type |-> "FORM_SET", name |-> r.name,
                           old |-> d.fields[FieldIndex(d, r.name)].value, new |-> r.new]
         /\ (CanForward(d, r) <=> FieldIndex(d, r.name) # 0)
         /\ Forward(d, r) = SetValue(d, r.name, r.new)
         /\ (CanBackward(d, r) <=> FieldIndex(d, r.name) # 0)
         /\ Backward(d, r) = SetValue(d, r.name, r.old)
         /\ (Links(r, p, q) <=>
           \E i \in 1..Len(p.fields) :
             /\ p.fields[i] = [name |-> r.name, value |-> r.old]
             /\ \A j \in 1..(i - 1) : p.fields[j].name # r.name
             /\ q = [annots |-> p.annots,
                     fields |-> [p.fields EXCEPT ![i] = [name |-> r.name, value |-> r.new]]])
BY Zenon DEF Applicable, Captured, CanForward, Forward, CanBackward, Backward, Links

\* A request or a command of type FORM_FLATTEN.
LEMMA FlattenIs ==
  ASSUME NEW d, NEW r, NEW p, NEW q, r.type = "FORM_FLATTEN"
  PROVE  /\ (Applicable(d, r) <=> TRUE)
         /\ Captured(d, r) = [type |-> "FORM_FLATTEN", fields |-> d.fields]
         /\ (CanForward(d, r) <=> TRUE)
         /\ Forward(d, r) = SetFields(d, <<>>)
         /\ (CanBackward(d, r) <=> d.fields = <<>>)
         /\ Backward(d, r) = SetFields(d, r.fields)
         /\ (Links(r, p, q) <=>
           /\ r.fields = p.fields
           /\ q = [annots |-> p.annots, fields |-> <<>>])
BY Zenon DEF Applicable, Captured, CanForward, Forward, CanBackward, Backward, Links

-----------------------------------------------------------------------------
(* Commands and links.                                                     *)

\* The members of a logged command have their types.
LEMMA CommandFacts ==
  ASSUME NEW c \in Command
  PROVE  /\ c.type \in {"ADD_ANNOT", "MOVE", "DELETE", "FORM_SET", "FORM_FLATTEN"}
         /\ c.type \in {"ADD_ANNOT", "MOVE", "DELETE"} => c.id \in AnnotId
         /\ c.type \in {"ADD_ANNOT", "MOVE"} => c.after \in Rect
         /\ c.type \in {"MOVE", "DELETE"} => c.before \in Rect
         /\ c.type = "FORM_SET" => c.name \in FieldName /\ c.old \in Value /\ c.new \in Value
         /\ c.type = "FORM_FLATTEN" => c.fields \in Seq(Field)
BY DEF Command

\* What pc_txn_apply logs is a command of the same type, whatever document it finds.
LEMMA CapturedTyped ==
  ASSUME NEW d \in Doc, NEW r \in Request, Applicable(d, r)
  PROVE  /\ Captured(d, r) \in Command
         /\ Captured(d, r).type = r.type
         /\ r.type \in {"ADD_ANNOT", "MOVE", "DELETE", "FORM_SET", "FORM_FLATTEN"}
<1> DEFINE c == Captured(d, r)
           i == AnnotIndex(d, r.id)
           k == FieldIndex(d, r.name)
<1>1. ValidId \subseteq AnnotId /\ d.fields \in Seq(Field)
  BY IdAssumption DEF Doc
<1>2. ASSUME i # 0
      PROVE  d.annots[i].rect \in Rect
  <2>1. i \in 1..Len(d.annots) /\ d.annots \in Seq(Annot)
    BY <1>2, AnnotIndexFinds DEF Doc
  <2>2. d.annots[i] \in Annot
    BY <2>1
  <2>3. QED
    BY <2>2 DEF Annot
<1>3. CASE r.type = "ADD_ANNOT"
  <2>1. c = [type |-> "ADD_ANNOT", id |-> r.id, after |-> r.after]
    BY <1>3, AddIs
  <2>2. r.id \in AnnotId /\ r.after \in Rect
    BY <1>3 DEF Request
  <2>3. QED
    BY <1>3, <2>1, <2>2 DEF Command
<1>4. CASE r.type = "MOVE"
  <2>1. /\ c = [type |-> "MOVE", id |-> r.id, before |-> d.annots[i].rect, after |-> r.after]
        /\ i # 0
    BY <1>4, MoveIs
  <2>2. r.id \in AnnotId /\ r.after \in Rect
    BY <1>4 DEF Request
  <2>3. QED
    BY <1>2, <1>4, <2>1, <2>2 DEF Command
<1>5. CASE r.type = "DELETE"
  <2>1. c = [type |-> "DELETE", id |-> r.id, before |-> d.annots[i].rect] /\ i # 0
    BY <1>5, DeleteIs
  <2>2. r.id \in AnnotId
    BY <1>5 DEF Request
  <2>3. QED
    BY <1>2, <1>5, <2>1, <2>2 DEF Command
<1>6. CASE r.type = "FORM_SET"
  <2>1. c = [type |-> "FORM_SET", name |-> r.name, old |-> d.fields[k].value, new |-> r.new]
    BY Zenon, <1>6 DEF Captured
  <2>2. k # 0
    BY Zenon, <1>6 DEF Applicable
  <2>3. k \in 1..Len(d.fields)
    BY <2>2, FieldIndexFinds DEF Doc
  <2>4. d.fields[k] \in Field
    BY <1>1, <2>3
  <2>5. r.name \in FieldName /\ r.new \in Value /\ d.fields[k].value \in Value
    BY <1>6, <2>4 DEF Request, Field
  <2>6. QED
    BY <1>6, <2>1, <2>5 DEF Command
<1>7. CASE r.type = "FORM_FLATTEN"
  <2>1. c = [type |-> "FORM_FLATTEN", fields |-> d.fields]
    BY <1>7, FlattenIs
  <2>2. QED
    BY <1>1, <1>7, <2>1 DEF Command
<1>8. r.type \in {"ADD_ANNOT", "MOVE", "DELETE", "FORM_SET", "FORM_FLATTEN"}
  BY DEF Request
<1>9. QED
  BY <1>3, <1>4, <1>5, <1>6, <1>7, <1>8

\* If ids are distinct, it leads on from the content it found.
LEMMA CapturedLinks ==
  ASSUME NEW d \in Doc, IdsDistinct(d), NEW r \in Request, Applicable(d, r)
  PROVE  /\ Captured(d, r) \in Command
         /\ \E q : Links(Captured(d, r), ContentOf(d), q)
<1> DEFINE c == Captured(d, r)
           p == ContentOf(d)
           i == AnnotIndex(d, r.id)
           k == FieldIndex(d, r.name)
           n == [id |-> c.id, rect |-> c.after]
<1>1. p.fields = d.fields /\ d.fields \in Seq(Field)
  BY ContentFacts DEF Doc
<1>2. SUFFICES \E q : Links(c, p, q)
  BY CapturedTyped
<1>3. CASE r.type = "ADD_ANNOT"
  <2>1. c = [type |-> "ADD_ANNOT", id |-> r.id, after |-> r.after] /\ i = 0
    BY <1>3, AddIs
  <2>2. Without(p, c.id) = p.annots /\ c.type = "ADD_ANNOT"
    BY <2>1, AbsentIs
  <2> HIDE DEF c, p
  <2>3. Links(c, p, [annots |-> p.annots \cup {n}, fields |-> p.fields])
    BY <2>2, AddIs
  <2>4. QED
    BY <2>3
<1>4. CASE r.type = "MOVE"
  <2>1. /\ c = [type |-> "MOVE", id |-> r.id, before |-> d.annots[i].rect, after |-> r.after]
        /\ i # 0
    BY <1>4, MoveIs
  <2>2. Holds(p, c.id, c.before) /\ c.type = "MOVE"
    BY <2>1, PresentIs
  <2> HIDE DEF c, p
  <2>3. Links(c, p, [annots |-> Without(p, c.id) \cup {n}, fields |-> p.fields])
    BY <2>2, MoveIs
  <2>4. QED
    BY <2>3
<1>5. CASE r.type = "DELETE"
  <2>1. c = [type |-> "DELETE", id |-> r.id, before |-> d.annots[i].rect] /\ i # 0
    BY <1>5, DeleteIs
  <2>2. Holds(p, c.id, c.before) /\ c.type = "DELETE"
    BY <2>1, PresentIs
  <2> HIDE DEF c, p
  <2>3. Links(c, p, [annots |-> Without(p, c.id), fields |-> p.fields])
    BY <2>2, DeleteIs
  <2>4. QED
    BY <2>3
<1>6. CASE r.type = "FORM_SET"
  <2>1. c = [type |-> "FORM_SET", name |-> r.name, old |-> d.fields[k].value, new |-> r.new]
    BY Zenon, <1>6 DEF Captured
  <2>2. k # 0
    BY Zenon, <1>6 DEF Applicable
  <2>3. /\ k \in 1..Len(d.fields)
        /\ d.fields[k].name = r.name
        /\ \A j \in 1..(k - 1) : d.fields[j].name # r.name
    BY <2>2, FieldIndexFinds DEF Doc
  <2>4. d.fields[k] \in Field
    BY <1>1, <2>3
  <2>5. d.fields[k] = [name |-> r.name, value |-> d.fields[k].value]
    BY <2>3, <2>4 DEF Field
  <2> HIDE DEF p, k
  <2>6. /\ k \in 1..Len(p.fields)
        /\ p.fields[k] = [name |-> c.name, value |-> c.old]
        /\ \A j \in 1..(k - 1) : p.fields[j].name # c.name
        /\ c.type = "FORM_SET"
    <3>1. c.type = "FORM_SET" /\ c.name = r.name /\ c.old = d.fields[k].value
      BY <2>1
    <3> HIDE DEF c
    <3>2. QED
      BY Zenon, <1>1, <2>3, <2>5, <3>1
  <2> HIDE DEF c
  <2>7. Links(c, p, [annots |-> p.annots,
                     fields |-> [p.fields EXCEPT ![k] = [name |-> c.name, value |-> c.new]]])
    BY Zenon, <2>6, SetIs
  <2>8. QED
    BY <2>7
<1>7. CASE r.type = "FORM_FLATTEN"
  <2>1. c = [type |-> "FORM_FLATTEN", fields |-> d.fields]
    BY <1>7, FlattenIs
  <2>2. c.type = "FORM_FLATTEN" /\ c.fields = p.fields
    BY <1>1, <2>1
  <2> HIDE DEF c, p
  <2>3. Links(c, p, [annots |-> p.annots, fields |-> <<>>])
    BY <2>2, FlattenIs
  <2>4. QED
    BY <2>3
<1>8. QED
  BY <1>3, <1>4, <1>5, <1>6, <1>7, CapturedTyped

\* A command that leads from p to q can be performed on any document whose content
\* is p, and its content is then q.
LEMMA ForwardLinks ==
  ASSUME NEW d \in Doc, IdsDistinct(d), NEW c \in Command, NEW q,
         Links(c, ContentOf(d), q)
  PROVE  /\ CanForward(d, c)
         /\ Forward(d, c) \in Doc
         /\ IdsDistinct(Forward(d, c))
         /\ ContentOf(Forward(d, c)) = q
<1> DEFINE p == ContentOf(d)
<1>1. p.fields = d.fields
  BY ContentFacts
<1>2. CASE c.type = "ADD_ANNOT"
  <2>1. /\ Without(p, c.id) = p.annots
        /\ q = [annots |-> p.annots \cup {[id |-> c.id, rect |-> c.after]}, fields |-> p.fields]
    BY <1>2, AddIs
  <2>2. CanForward(d, c) /\ Forward(d, c) = AnnotInsert(d, c.id, c.after)
    BY <1>2, AddIs
  <2>3. c.id \in AnnotId /\ c.after \in Rect
    BY <1>2, CommandFacts
  <2>4. /\ AnnotInsert(d, c.id, c.after) \in Doc
        /\ IdsDistinct(AnnotInsert(d, c.id, c.after))
        /\ ContentOf(AnnotInsert(d, c.id, c.after)) =
             [annots |-> ContentOf(d).annots \cup {[id |-> c.id, rect |-> c.after]}, fields |-> d.fields]
    BY <1>1, <2>1, <2>3, InsertContent
  <2>5. ContentOf(AnnotInsert(d, c.id, c.after)) = q
    BY <1>1, <2>1, <2>3, <2>4
  <2>6. QED
    BY <2>2, <2>4, <2>5
<1>3. CASE c.type = "MOVE"
  <2>1. /\ Holds(p, c.id, c.before)
        /\ q = [annots |-> Without(p, c.id) \cup {[id |-> c.id, rect |-> c.after]},
                fields |-> p.fields]
    BY <1>3, MoveIs
  <2>2. AnnotIndex(d, c.id) # 0
    BY <2>1, PresentIs
  <2>3. CanForward(d, c) /\ Forward(d, c) = SetRect(d, c.id, c.after)
    BY <1>3, <2>2, MoveIs
  <2>4. c.id \in AnnotId /\ c.after \in Rect
    BY <1>3, CommandFacts
  <2>5. /\ SetRect(d, c.id, c.after) \in Doc
        /\ IdsDistinct(SetRect(d, c.id, c.after))
        /\ ContentOf(SetRect(d, c.id, c.after)) =
             [annots |-> Without(ContentOf(d), c.id) \cup {[id |-> c.id, rect |-> c.after]}, fields |-> d.fields]
    BY <1>1, <2>1, <2>2, <2>4, SetRectContent
  <2>6. ContentOf(SetRect(d, c.id, c.after)) = q
    BY <1>1, <2>1, <2>2, <2>4, <2>5
  <2>7. QED
    BY <2>3, <2>5, <2>6
<1>4. CASE c.type = "DELETE"
  <2>1. Holds(p, c.id, c.before) /\ q = [annots |-> Without(p, c.id), fields |-> p.fields]
    BY <1>4, DeleteIs
  <2>2. AnnotIndex(d, c.id) # 0
    BY <2>1, PresentIs
  <2>3. CanForward(d, c) /\ Forward(d, c) = AnnotRemove(d, c.id)
    BY <1>4, <2>2, DeleteIs
  <2>4. /\ AnnotRemove(d, c.id) \in Doc
        /\ IdsDistinct(AnnotRemove(d, c.id))
        /\ ContentOf(AnnotRemove(d, c.id)) =
             [annots |-> Without(ContentOf(d), c.id), fields |-> d.fields]
    BY <2>2, RemoveContent
  <2>5. ContentOf(AnnotRemove(d, c.id)) = q
    BY <1>1, <2>1, <2>4
  <2>6. QED
    BY <2>3, <2>4, <2>5
<1>5. CASE c.type = "FORM_SET"
  <2>1. PICK i \in 1..Len(p.fields) :
          /\ p.fields[i] = [name |-> c.name, value |-> c.old]
          /\ \A j \in 1..(i - 1) : p.fields[j].name # c.name
          /\ q = [annots |-> p.annots,
                  fields |-> [p.fields EXCEPT ![i] = [name |-> c.name, value |-> c.new]]]
    BY Zenon, <1>5 DEF Links
  <2>2. i \in 1..Len(d.fields) /\ d.fields[i].name = c.name
        /\ \A j \in 1..(i - 1) : d.fields[j].name # c.name
    BY <1>1, <2>1
  <2>3. FieldIndex(d, c.name) = i
    BY <2>2, FieldIndexIs
  <2>4. i # 0
    BY <2>2
  <2>5. CanForward(d, c) /\ Forward(d, c) = SetValue(d, c.name, c.new)
    BY <1>5, <2>3, <2>4, SetIs
  <2>6. c.name \in FieldName /\ c.new \in Value
    BY <1>5, CommandFacts
  <2>7. /\ SetValue(d, c.name, c.new) \in Doc
        /\ IdsDistinct(SetValue(d, c.name, c.new))
        /\ ContentOf(SetValue(d, c.name, c.new)) =
             [annots |-> p.annots,
              fields |-> [d.fields EXCEPT ![i] = [name |-> c.name, value |-> c.new]]]
    BY <2>2, <2>3, <2>6, SetValueContent
  <2>8. QED
    BY <1>1, <2>1, <2>5, <2>7
<1>6. CASE c.type = "FORM_FLATTEN"
  <2>1. q = [annots |-> p.annots, fields |-> <<>>]
    BY <1>6, FlattenIs
  <2>2. CanForward(d, c) /\ Forward(d, c) = SetFields(d, <<>>)
    BY <1>6, FlattenIs
  <2>3. <<>> \in Seq(Field)
    OBVIOUS
  <2>4. /\ SetFields(d, <<>>) \in Doc
        /\ IdsDistinct(SetFields(d, <<>>))
        /\ ContentOf(SetFields(d, <<>>)) = q
    BY <2>1, <2>3, SetFieldsContent
  <2>5. QED
    BY <2>2, <2>4
<1>7. QED
  BY <1>2, <1>3, <1>4, <1>5, <1>6, CommandFacts

\* And it can be reversed on any document whose content is q, which gives p again.
LEMMA BackwardLinks ==
  ASSUME NEW d \in Doc, IdsDistinct(d), NEW c \in Command, NEW p \in Content,
         Links(c, p, ContentOf(d))
  PROVE  /\ CanBackward(d, c)
         /\ Backward(d, c) \in Doc
         /\ IdsDistinct(Backward(d, c))
         /\ ContentOf(Backward(d, c)) = p
<1> DEFINE q == ContentOf(d)
<1>1. /\ q.fields = d.fields
      /\ p = [annots |-> p.annots, fields |-> p.fields]
      /\ p.fields \in Seq(Field)
      /\ \A a \in p.annots : a = [id |-> a.id, rect |-> a.rect]
  BY ContentFacts DEF Content, Annot
<1>2. CASE c.type = "ADD_ANNOT"
  <2> DEFINE n == [id |-> c.id, rect |-> c.after]
  <2>1. Without(p, c.id) = p.annots /\ q = [annots |-> p.annots \cup {n}, fields |-> p.fields]
    BY <1>2, AddIs
  <2>2. q.annots = p.annots \cup {n} /\ q.fields = p.fields
    BY <2>1
  <2>3. Without(q, c.id) = p.annots
    BY <2>1, <2>2 DEF Without
  <2>4. Holds(q, c.id, c.after)
    BY <2>1, <2>2 DEF Without, Holds
  <2>5. AnnotIndex(d, c.id) # 0
    BY <2>4, PresentIs
  <2>6. CanBackward(d, c) /\ Backward(d, c) = AnnotRemove(d, c.id)
    BY <1>2, <2>5, AddIs
  <2>7. /\ AnnotRemove(d, c.id) \in Doc
        /\ IdsDistinct(AnnotRemove(d, c.id))
        /\ ContentOf(AnnotRemove(d, c.id)) =
             [annots |-> Without(ContentOf(d), c.id), fields |-> d.fields]
    BY <2>5, RemoveContent
  <2>8. ContentOf(AnnotRemove(d, c.id)) = p
    BY <1>1, <2>2, <2>3, <2>7
  <2>9. QED
    BY <2>6, <2>7, <2>8
<1>3. CASE c.type = "MOVE"
  <2> DEFINE n == [id |-> c.id, rect |-> c.after]
             m == [id |-> c.id, rect |-> c.before]
  <2>1. Holds(p, c.id, c.before)
        /\ q = [annots |-> Without(p, c.id) \cup {n}, fields |-> p.fields]
    BY <1>3, MoveIs
  <2>2. q.annots = Without(p, c.id) \cup {n} /\ q.fields = p.fields
    BY <2>1
  <2>3. Without(q, c.id) \cup {m} = p.annots
    BY <2>1, <2>2 DEF Without, Holds
  <2>4. Holds(q, c.id, c.after)
    BY <2>2 DEF Without, Holds
  <2>5. AnnotIndex(d, c.id) # 0
    BY <2>4, PresentIs
  <2>6. CanBackward(d, c) /\ Backward(d, c) = SetRect(d, c.id, c.before)
    BY <1>3, <2>5, MoveIs
  <2>7. c.id \in AnnotId /\ c.before \in Rect
    BY <1>3, CommandFacts
  <2>8. /\ SetRect(d, c.id, c.before) \in Doc
        /\ IdsDistinct(SetRect(d, c.id, c.before))
        /\ ContentOf(SetRect(d, c.id, c.before)) =
             [annots |-> Without(ContentOf(d), c.id) \cup {[id |-> c.id, rect |-> c.before]}, fields |-> d.fields]
    BY <2>5, <2>7, SetRectContent
  <2>9. ContentOf(SetRect(d, c.id, c.before)) = p
    BY <1>1, <2>2, <2>3, <2>8
  <2>10. QED
    BY <2>6, <2>8, <2>9
<1>4. CASE c.type = "DELETE"
  <2> DEFINE m == [id |-> c.id, rect |-> c.before]
  <2>1. Holds(p, c.id, c.before) /\ q = [annots |-> Without(p, c.id), fields |-> p.fields]
    BY <1>4, DeleteIs
  <2>2. q.annots = Without(p, c.id) /\ q.fields = p.fields
    BY <2>1
  <2>3. Without(q, c.id) = q.annots
    BY <2>2 DEF Without
  <2>4. q.annots \cup {m} = p.annots
    BY <2>1, <2>2 DEF Without, Holds
  <2>5. CanBackward(d, c) /\ Backward(d, c) = AnnotInsert(d, c.id, c.before)
    BY <1>4, DeleteIs
  <2>6. c.id \in AnnotId /\ c.before \in Rect
    BY <1>4, CommandFacts
  <2>7. /\ AnnotInsert(d, c.id, c.before) \in Doc
        /\ IdsDistinct(AnnotInsert(d, c.id, c.before))
        /\ ContentOf(AnnotInsert(d, c.id, c.before)) =
             [annots |-> ContentOf(d).annots \cup {[id |-> c.id, rect |-> c.before]}, fields |-> d.fields]
    BY <2>3, <2>6, InsertContent
  <2>8. ContentOf(AnnotInsert(d, c.id, c.before)) = p
    BY <1>1, <2>2, <2>4, <2>7
  <2>9. QED
    BY <2>5, <2>7, <2>8
<1>5. CASE c.type = "FORM_SET"
  <2>1. PICK i \in 1..Len(p.fields) :
          /\ p.fields[i] = [name |-> c.name, value |-> c.old]
          /\ \A j \in 1..(i - 1) : p.fields[j].name # c.name
          /\ q = [annots |-> p.annots,
                  fields |-> [p.fields EXCEPT ![i] = [name |-> c.name, value |-> c.new]]]
    BY Zenon, <1>5 DEF Links
  <2> DEFINE new == [name |-> c.name, value |-> c.new]
             old == [name |-> c.name, value |-> c.old]
             F == d.fields
             G == p.fields
  <2>2. q.annots = p.annots /\ F = [G EXCEPT ![i] = new] /\ i \in 1..Len(G) /\ G[i] = old
    BY <1>1, <2>1
  <2>3. c.name \in FieldName /\ c.old \in Value /\ old \in Field /\ new \in Field /\ new.name = c.name
    BY <1>5, CommandFacts DEF Field
  <2>4. G \in Seq(Field)
    BY <1>1
  <2>5. \A j \in 1..(i - 1) : G[j].name # c.name
    BY <2>1
  <2> HIDE DEF F, G, new, old
  <2>6. /\ Len(F) = Len(G)
        /\ F[i] = new
        /\ \A j \in 1..Len(G) : j # i => F[j] = G[j]
    BY <2>2, <2>3, <2>4
  <2>7. i \in 1..Len(F) /\ F[i].name = c.name /\ \A j \in 1..(i - 1) : F[j].name # c.name
    BY <2>2, <2>3, <2>4, <2>5, <2>6
  <2>8. FieldIndex(d, c.name) = i
    BY <2>7, FieldIndexIs DEF F
  <2>9. [F EXCEPT ![i] = old] = G
    <3>1. /\ [F EXCEPT ![i] = old] \in Seq(Field)
          /\ Len([F EXCEPT ![i] = old]) = Len(G)
          /\ \A j \in 1..Len(G) : [F EXCEPT ![i] = old][j] = G[j]
      BY <2>2, <2>3, <2>4, <2>6
    <3>2. QED
      BY <2>4, <3>1, SeqEqual
  <2>10. i # 0
    BY <2>7
  <2>11. CanBackward(d, c) /\ Backward(d, c) = SetValue(d, c.name, c.old)
    BY <1>5, <2>8, <2>10, SetIs
  <2>12. /\ SetValue(d, c.name, c.old) \in Doc
         /\ IdsDistinct(SetValue(d, c.name, c.old))
         /\ ContentOf(SetValue(d, c.name, c.old)) =
              [annots |-> q.annots, fields |-> [F EXCEPT ![i] = old]]
    BY <2>3, <2>7, <2>8, SetValueContent DEF F, old
  <2>13. QED
    BY <1>1, <2>2, <2>9, <2>11, <2>12 DEF G
<1>6. CASE c.type = "FORM_FLATTEN"
  <2>1. c.fields = p.fields /\ q = [annots |-> p.annots, fields |-> <<>>]
    BY <1>6, FlattenIs
  <2>2. d.fields = <<>> /\ q.annots = p.annots
    BY <1>1, <2>1
  <2>3. CanBackward(d, c) /\ Backward(d, c) = SetFields(d, c.fields)
    BY <1>6, <2>2, FlattenIs
  <2>4. /\ SetFields(d, c.fields) \in Doc
        /\ IdsDistinct(SetFields(d, c.fields))
        /\ ContentOf(SetFields(d, c.fields)) = p
    BY <1>1, <2>1, <2>2, SetFieldsContent
  <2>5. QED
    BY <2>3, <2>4
<1>7. QED
  BY <1>2, <1>3, <1>4, <1>5, <1>6, CommandFacts

=============================================================================
