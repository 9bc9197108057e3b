---------------------------- MODULE EngineProofs ----------------------------
(* Proofs about Engine and EngineUse: on every path through every command,    *)
(* what is taken is given back in order, and the exit code tells the state of *)
(* the output, whichever call fails and however many fields the form has.     *)
(*                                                                            *)
(* A path is followed by marks: for each step what is held before it and how  *)
(* far the output is.  The marks of two functions join where one ends and the *)
(* other begins, so each function is looked at once, for all its callers.     *)
(*                                                                            *)
(* The last part is about CommandRun: the reader of the log that a replay     *)
(* reads keeps count of its nodes and makes of a text what it means by the    *)
(* grammar of JSON, for texts of every length and depth.                      *)
EXTENDS CommandRun, JsonMeaning, FiniteSetsExt, WellFoundedInduction, FiniteSetTheorems, SequenceTheorems, TLAPS

-----------------------------------------------------------------------------
(* Numbers.                                                                   *)

\* A set of natural numbers has a least one.
LEMMA MinOfNats ==
  ASSUME NEW S, S \subseteq Nat, S # {}
  PROVE  Min(S) \in S /\ \A y \in S : Min(S) <= y
<1> DEFINE Below(n) == {x \in S : x <= n}
           T == {Below(n) : n \in S}
<1>1. T \subseteq FiniteSubsetsOf(S)
  <2> SUFFICES ASSUME NEW n \in S
               PROVE  Below(n) \in FiniteSubsetsOf(S)
    OBVIOUS
  <2>1. IsFiniteSet(Below(n))
    <3>1. Below(n) \in SUBSET Nat /\ n \in Nat /\ \A x \in Below(n) : x <= n
      OBVIOUS
    <3> HIDE DEF Below
    <3>2. QED
      BY <3>1, FS_BoundedSetOfNaturals
  <2>2. QED
    BY <2>1 DEF FiniteSubsetsOf
<1>2. T # {}
  OBVIOUS
<1>3. PICK U \in T : \A V \in T : ~(<<V, U>> \in StrictSubsetOrdering(S))
  <2> HIDE DEF T
  <2>1. QED
    BY <1>1, <1>2, WFMin, FS_StrictSubsetOrderingWellFounded
<1>4. PICK m \in S : U = Below(m)
  BY <1>3
<1>5. ASSUME NEW j \in S
      PROVE  m <= j
  <2>1. SUFFICES ASSUME j < m
                 PROVE  FALSE
    BY <2>1
  <2>2. Below(j) \in T /\ Below(j) \in SUBSET S /\ Below(m) \in SUBSET S
    OBVIOUS
  <2>3. \A x \in S : x <= j => x <= m
    BY <2>1, S \subseteq Nat, j \in Nat, m \in Nat
  <2>4. m \in Below(m) /\ m \notin Below(j)
    BY <2>1
  <2>5. Below(j) \subseteq Below(m)
    BY <2>3
  <2> HIDE DEF Below, T
  <2>6. <<Below(j), Below(m)>> \in StrictSubsetOrdering(S)
    BY <2>2, <2>4, <2>5 DEF StrictSubsetOrdering
  <2>7. QED
    BY <2>2, <2>6, <1>3, <1>4
<1>6. QED
  BY <1>5 DEF Min

\* Induction along the numbers from one to another: a set that has the first
\* and with each of them the next has them all.
LEMMA Climb ==
  ASSUME NEW S, NEW lo \in Nat, NEW n \in Nat, lo \in S,
         \A k \in lo .. n - 1 : k \in S => k + 1 \in S
  PROVE  \A k \in lo .. n : k \in S
<1> DEFINE Bad == {k \in lo .. n : k \notin S}
           m == Min(Bad)
<1>1. SUFFICES ASSUME Bad # {} PROVE FALSE
  OBVIOUS
<1>2. Bad \subseteq Nat
  OBVIOUS
<1>3. m \in Bad /\ \A y \in Bad : m <= y
  <2> HIDE DEF Bad
  <2> QED
    BY <1>1, <1>2, MinOfNats
<1> HIDE DEF m
<1>4. m \in lo .. n /\ m \notin S /\ m # lo
  BY <1>3
<1>5. m - 1 \in lo .. n - 1 /\ m - 1 \in lo .. n /\ (m - 1) + 1 = m
  BY <1>4
<1>6. m - 1 \notin Bad
  BY <1>3, <1>5
<1> QED
  BY <1>4, <1>5, <1>6

-----------------------------------------------------------------------------
(* Paths and their marks.                                                     *)

\* what can be held
Names == Resources \cup {FieldNames[i] : i \in DOMAIN FieldNames}
                   \cup {FieldValues[i] : i \in DOMAIN FieldValues}

\* A mark: the resources held and whether the output was not yet created, is
\* being written or closed; the path may have come to its end.
Marks == [live : SUBSET Names, out : {"no", "partial", "done", "dead"}]
At(held, o) == [live |-> held, out |-> o]
Dead == At({}, "dead")
Moments == {"no", "partial", "done"}

Ons == Names \cup {0, 1, 2}
Clearing == [op : {"drop", "free", "exit"}, on : Ons, fail : {<<>>}, loses : {{}}]
Doing ==
  [op : {"get", "take", "create", "call", "write", "drop", "free", "close", "saved", "parse",
         "exit"},
   on : Ons, fail : Seq(Clearing), loses : SUBSET (Names \ {"replaced"})]

\* what a step makes of a mark
After(s, a) ==
  CASE s.op \in {"get", "take", "parse"} -> At(a.live \cup {s.on}, a.out)
    [] s.op = "create" -> At(a.live \cup {s.on}, "partial")
    [] s.op \in {"drop", "free"} -> At(a.live \ {s.on}, a.out)
    [] s.op \in {"close", "saved"} -> At(a.live \ {s.on}, "done")
    [] s.op = "exit" -> Dead
    [] OTHER -> a

\* what the exit code of command c says of the output
CodeTells(code, o, c) ==
  /\ code \in {0, 1, 2}
  /\ code = 0 => o = "done" \/ c.out = "stdout"
  /\ code = 2 => o = "no"

\* nothing is held without what it depends on, but for what is lost
Closed(held, lostOnes) == \A x \in held \ lostOnes : Needs(x) \subseteq held

\* a step that may be taken at a mark, when lostOnes are stranded
May(s, a, lostOnes, c) ==
  /\ Closed(a.live, lostOnes)
  /\ s.op \in {"call", "write", "drop", "close", "saved"} => s.on \in a.live
  /\ s.op = "create" => a.out = "no" /\ s.on = "output"
  /\ s.op = "exit" => a.live = lostOnes /\ CodeTells(s.on, a.out, c)
  /\ s.op = "free" => s.on = "irFields"
  /\ s.op = "parse" => s.on = "root" /\ s.loses = {}
  /\ s.op # "exit" => s.on \in Names \ {"replaced"}

\* Steps of type T lead along the marks from a to b, each as one of R
Path(p, a, b, T, R) ==
  /\ p \in Seq(T)
  /\ \E m \in [1 .. Len(p) + 1 -> Marks] :
       /\ m[1] = a /\ m[Len(p) + 1] = b
       /\ \A i \in 1 .. Len(p) : <<p[i], m[i], m[i + 1]>> \in R

\* the steps of a path back; after the exit nothing is asked
ClearStep(s, a, b, lostOnes, c) ==
  \/ a = Dead /\ b = Dead
  \/ a.out # "dead" /\ May(s, a, lostOnes, c) /\ b = After(s, a)
Clears(lostOnes, c) ==
  {x \in Clearing \X Marks \X Marks : ClearStep(x[1], x[2], x[3], lostOnes, c)}
Clear(c, p, a, b) == Path(p, a, b, Clearing, Clears({}, c))

\* a path back from a, to an exit where just lostOnes are held
Backs(f, a, lostOnes, c) == Path(f, a, Dead, Clearing, Clears(lostOnes, c))
Back(f, held, o, c) == o \in Moments /\ Backs(f, At(held, o), {}, c)

\* the steps of a command: the failure of each is followed by a path back
DoesStep(s, a, b, c) ==
  /\ ClearStep(s, a, b, {}, c)
  /\ (a # Dead /\ s.op \in {"get", "call", "create", "write", "parse"}) =>
       Backs(s.fail, a, s.loses, c)
Does(c) == {x \in Doing \X Marks \X Marks : DoesStep(x[1], x[2], x[3], c)}
Seg(c, p, a, b) == Path(p, a, b, Doing, Does(c))

\* A path of no steps.
LEMMA PathNone ==
  ASSUME NEW T, NEW R, NEW a \in Marks
  PROVE  Path(<<>>, a, a, T, R)
<1> DEFINE m == [i \in 1 .. 1 |-> a]
<1>1. m \in [1 .. Len(<<>>) + 1 -> Marks] /\ m[1] = a /\ m[Len(<<>>) + 1] = a
  OBVIOUS
<1>2. \A i \in 1 .. Len(<<>>) : <<(<<>>)[i], m[i], m[i + 1]>> \in R
  OBVIOUS
<1>3. <<>> \in Seq(T)
  OBVIOUS
<1> HIDE DEF m
<1> QED
  BY <1>1, <1>2, <1>3 DEF Path

\* A path of one step.
LEMMA PathOne ==
  ASSUME NEW T, NEW R, NEW s \in T, NEW a \in Marks, NEW b \in Marks, <<s, a, b>> \in R
  PROVE  Path(<<s>>, a, b, T, R)
<1> DEFINE p == <<s>>
           m == [i \in 1 .. 2 |-> IF i = 1 THEN a ELSE b]
<1>1. p \in Seq(T) /\ Len(p) = 1 /\ p[1] = s
  OBVIOUS
<1>2. m \in [1 .. 2 -> Marks] /\ m[1] = a /\ m[2] = b
  OBVIOUS
<1> HIDE DEF p, m
<1>3. m \in [1 .. Len(p) + 1 -> Marks] /\ m[1] = a /\ m[Len(p) + 1] = b
  BY <1>1, <1>2
<1>4. \A i \in 1 .. Len(p) : i = 1
  BY <1>1
<1>5. \A i \in 1 .. Len(p) : <<p[i], m[i], m[i + 1]>> \in R
  BY <1>1, <1>2, <1>4
<1>6. Path(p, a, b, T, R)
  BY <1>1, <1>3, <1>5 DEF Path
<1> QED
  BY <1>6 DEF p

\* Two paths join where one ends and the other begins.
LEMMA PathJoins ==
  ASSUME NEW T, NEW R, NEW p, NEW q, NEW a, NEW b, NEW d,
         Path(p, a, b, T, R), Path(q, b, d, T, R)
  PROVE  Path(p \o q, a, d, T, R)
<1>1. p \in Seq(T) /\ q \in Seq(T)
  BY DEF Path
<1>2. /\ p \o q \in Seq(T) /\ Len(p \o q) = Len(p) + Len(q)
      /\ \A i \in 1 .. Len(p) + Len(q) :
           (p \o q)[i] = IF i <= Len(p) THEN p[i] ELSE q[i - Len(p)]
  BY <1>1, ConcatProperties
<1>3. Len(p) \in Nat /\ Len(q) \in Nat
  BY <1>1
<1>4. PICK m \in [1 .. Len(p) + 1 -> Marks] :
        /\ m[1] = a /\ m[Len(p) + 1] = b
        /\ \A i \in 1 .. Len(p) : <<p[i], m[i], m[i + 1]>> \in R
  BY DEF Path
<1>5. PICK n \in [1 .. Len(q) + 1 -> Marks] :
        /\ n[1] = b /\ n[Len(q) + 1] = d
        /\ \A i \in 1 .. Len(q) : <<q[i], n[i], n[i + 1]>> \in R
  BY DEF Path
<1> DEFINE k == Len(p)
           l == Len(q)
           r == p \o q
           u == [i \in 1 .. k + l + 1 |-> IF i <= k THEN m[i] ELSE n[i - k]]
<1> HIDE DEF k, l, r
<1>6. /\ k \in Nat /\ l \in Nat /\ m \in [1 .. k + 1 -> Marks] /\ n \in [1 .. l + 1 -> Marks]
      /\ m[k + 1] = b /\ n[l + 1] = d
      /\ \A i \in 1 .. k + l : r[i] = IF i <= k THEN p[i] ELSE q[i - k]
      /\ Len(r) = k + l /\ r \in Seq(T)
  BY <1>2, <1>3, <1>4, <1>5 DEF k, l, r
<1>7. u \in [1 .. k + l + 1 -> Marks]
  <2> SUFFICES ASSUME NEW i \in 1 .. k + l + 1
               PROVE  (IF i <= k THEN m[i] ELSE n[i - k]) \in Marks
    OBVIOUS
  <2>1. i <= k => i \in 1 .. k + 1
    BY <1>6
  <2>2. ~(i <= k) => i - k \in 1 .. l + 1
    BY <1>6
  <2> QED
    BY <1>6, <2>1, <2>2
<1>8. \A i \in 1 .. k + l + 1 : u[i] = IF i <= k THEN m[i] ELSE n[i - k]
  OBVIOUS
<1> HIDE DEF u
<1>9. u[1] = a
  <2>1. 1 \in 1 .. k + l + 1 /\ (k = 0 \/ 1 <= k)
    BY <1>6
  <2>2. CASE k = 0
    <3>1. u[1] = n[1] /\ m[1] = b
      BY <1>6, <1>8, <2>1, <2>2
    <3> QED
      BY <1>4, <1>5, <3>1
  <2>3. CASE 1 <= k
    BY <1>4, <1>8, <2>1, <2>3
  <2> QED
    BY <2>1, <2>2, <2>3
<1>10. u[k + l + 1] = d
  <2>1. k + l + 1 \in 1 .. k + l + 1 /\ ~(k + l + 1 <= k) /\ (k + l + 1) - k = l + 1
    BY <1>6
  <2> QED
    BY <1>6, <1>8, <2>1
<1>11. ASSUME NEW i \in 1 .. k + l
       PROVE  <<r[i], u[i], u[i + 1]>> \in R
  <2>1. i \in 1 .. k + l + 1 /\ i + 1 \in 1 .. k + l + 1
    BY <1>6
  <2>2. CASE i < k
    <3>1. i \in 1 .. k /\ i <= k /\ i + 1 <= k
      BY <1>6, <2>2
    <3>2. r[i] = p[i] /\ u[i] = m[i] /\ u[i + 1] = m[i + 1]
      BY <1>6, <1>8, <2>1, <3>1
    <3> QED
      BY <1>4, <3>1, <3>2 DEF k
  <2>3. CASE i = k
    <3>1. i \in 1 .. k /\ i <= k /\ ~(i + 1 <= k) /\ (i + 1) - k = 1
      BY <1>6, <2>3
    <3>2. r[i] = p[i] /\ u[i] = m[i] /\ u[i + 1] = n[1]
      BY <1>6, <1>8, <2>1, <3>1
    <3>3. n[1] = m[i + 1]
      BY <1>5, <1>6, <2>3
    <3> QED
      BY <1>4, <3>1, <3>2, <3>3 DEF k
  <2>4. CASE i > k
    <3>1. i - k \in 1 .. l /\ ~(i <= k) /\ ~(i + 1 <= k) /\ (i + 1) - k = (i - k) + 1
      BY <1>6, <2>4
    <3>2. r[i] = q[i - k] /\ u[i] = n[i - k] /\ u[i + 1] = n[(i - k) + 1]
      BY <1>6, <1>8, <2>1, <3>1
    <3> QED
      BY <1>5, <3>1, <3>2 DEF l
  <2> QED
    BY <1>6, <2>2, <2>3, <2>4
<1>12. /\ u \in [1 .. Len(r) + 1 -> Marks] /\ u[1] = a /\ u[Len(r) + 1] = d
       /\ \A i \in 1 .. Len(r) : <<r[i], u[i], u[i + 1]>> \in R
  BY <1>6, <1>7, <1>9, <1>10, <1>11
<1>13. Path(r, a, d, T, R)
  BY <1>6, <1>12 DEF Path
<1> QED
  BY <1>13 DEF r

\* A path begins with its first step and goes on with the others.
LEMMA PathTail ==
  ASSUME NEW T, NEW R, NEW p, NEW a, NEW b, Path(p, a, b, T, R), p # <<>>
  PROVE  /\ Head(p) \in T /\ a \in Marks
         /\ \E d \in Marks : <<Head(p), a, d>> \in R /\ Path(Tail(p), d, b, T, R)
<1>1. p \in Seq(T)
  BY DEF Path
<1>2. PICK m \in [1 .. Len(p) + 1 -> Marks] :
        /\ m[1] = a /\ m[Len(p) + 1] = b
        /\ \A i \in 1 .. Len(p) : <<p[i], m[i], m[i + 1]>> \in R
  BY DEF Path
<1> DEFINE k == Len(p)
           q == Tail(p)
           n == [i \in 1 .. (k - 1) + 1 |-> m[i + 1]]
<1>3. k \in Nat /\ k >= 1 /\ Head(p) = p[1] /\ Head(p) \in T
  BY <1>1
<1>4. q \in Seq(T) /\ Len(q) = k - 1 /\ \A i \in 1 .. k - 1 : q[i] = p[i + 1]
  BY <1>1, <1>3
<1>5. n \in [1 .. (k - 1) + 1 -> Marks] /\ n[1] = m[2] /\ n[(k - 1) + 1] = b
  BY <1>2, <1>3
<1>6. \A i \in 1 .. k - 1 : <<q[i], n[i], n[i + 1]>> \in R
  <2> SUFFICES ASSUME NEW i \in 1 .. k - 1
               PROVE  <<q[i], n[i], n[i + 1]>> \in R
    OBVIOUS
  <2>1. /\ i + 1 \in 1 .. Len(p) /\ i \in 1 .. (k - 1) + 1 /\ i + 1 \in 1 .. (k - 1) + 1
    BY <1>3
  <2>2. q[i] = p[i + 1] /\ n[i] = m[i + 1] /\ n[i + 1] = m[(i + 1) + 1]
    BY <1>4, <2>1
  <2> QED
    BY <1>2, <2>1, <2>2
<1> HIDE DEF n, q
<1>7. Path(q, m[2], b, T, R)
  BY <1>4, <1>5, <1>6 DEF Path
<1>8. <<Head(p), a, m[2]>> \in R /\ m[2] \in Marks /\ a \in Marks
  <2>1. 1 \in 1 .. Len(p) /\ 1 + 1 = 2 /\ 2 \in 1 .. Len(p) + 1 /\ 1 \in 1 .. Len(p) + 1
    BY <1>3
  <2> QED
    BY <1>2, <1>3, <2>1
<1> QED
  BY <1>3, <1>7, <1>8 DEF q

\* A path between two marks that differ has a step.
LEMMA PathMoves ==
  ASSUME NEW T, NEW R, NEW p, NEW a, NEW b, Path(p, a, b, T, R), a # b
  PROVE  p # <<>>
BY DEF Path

\* A path of some steps is one of more.
LEMMA PathGrows ==
  ASSUME NEW T, NEW R, NEW T2, NEW R2, T \subseteq T2, R \subseteq R2,
         NEW p, NEW a, NEW b, Path(p, a, b, T, R)
  PROVE  Path(p, a, b, T2, R2)
<1>1. p \in Seq(T2)
  BY DEF Path
<1> QED
  BY <1>1 DEF Path

-----------------------------------------------------------------------------
(* Steps.                                                                     *)

\* A mark of what is held at some moment.
LEMMA MarkFacts ==
  ASSUME NEW held \in SUBSET Names, NEW o \in Moments
  PROVE  /\ At(held, o) \in Marks /\ At(held, o).live = held /\ At(held, o).out = o
         /\ At(held, o) # Dead /\ o # "dead"
         /\ Dead \in Marks /\ Dead.live = {} /\ Dead.out = "dead"
BY DEF At, Dead, Marks, Moments

\* What is back on a path is on a path of a command too.
LEMMA ClearIsSeg ==
  ASSUME NEW c, NEW p, NEW a, NEW b, Clear(c, p, a, b)
  PROVE  Seg(c, p, a, b)
<1>1. Clearing \subseteq Doing
  <2>1. <<>> \in Seq(Clearing) /\ {} \in SUBSET (Names \ {"replaced"})
    OBVIOUS
  <2> QED
    BY <2>1 DEF Clearing, Doing
<1>2. Clears({}, c) \subseteq Does(c)
  <2> SUFFICES ASSUME NEW x \in Clears({}, c)
               PROVE  x \in Does(c)
    OBVIOUS
  <2>1. x \in Clearing \X Marks \X Marks /\ ClearStep(x[1], x[2], x[3], {}, c)
    BY DEF Clears
  <2>2. x[1] \in Clearing /\ x \in Doing \X Marks \X Marks
    BY <1>1, <2>1
  <2>3. x[1].op \notin {"get", "call", "create", "write", "parse"}
    BY <2>2 DEF Clearing
  <2>4. DoesStep(x[1], x[2], x[3], c)
    BY <2>1, <2>3 DEF DoesStep
  <2> QED
    BY <2>2, <2>4 DEF Does
<1> QED
  BY <1>1, <1>2, PathGrows DEF Clear, Seg

\* After the exit the rest of a path does not matter.
LEMMA DeadGoesOn ==
  ASSUME NEW c, NEW p \in Seq(Doing)
  PROVE  Seg(c, p, Dead, Dead)
<1> DEFINE m == [i \in 1 .. Len(p) + 1 |-> Dead]
<1>0. Dead \in Marks
  BY DEF Dead, At, Marks
<1>1. Len(p) \in Nat
  OBVIOUS
<1>2. m \in [1 .. Len(p) + 1 -> Marks] /\ m[1] = Dead /\ m[Len(p) + 1] = Dead
  BY <1>0, <1>1
<1>3. \A i \in 1 .. Len(p) : m[i] = Dead /\ m[i + 1] = Dead /\ p[i] \in Doing
  BY <1>1
<1> HIDE DEF m
<1>4. ASSUME NEW i \in 1 .. Len(p)
      PROVE  <<p[i], m[i], m[i + 1]>> \in Does(c)
  <2> DEFINE x == <<p[i], Dead, Dead>>
  <2>1. x \in Doing \X Marks \X Marks /\ x[1] = p[i] /\ x[2] = Dead /\ x[3] = Dead
    BY <1>0, <1>3
  <2> HIDE DEF x
  <2>2. DoesStep(x[1], x[2], x[3], c)
    BY <2>1 DEF DoesStep, ClearStep
  <2>3. x \in Does(c)
    BY <2>1, <2>2 DEF Does
  <2> QED
    BY <1>3, <2>3 DEF x
<1> QED
  BY <1>2, <1>4 DEF Seg, Path

\* One step of a path back.
LEMMA ClearOne ==
  ASSUME NEW c, NEW lostOnes, NEW s \in Clearing, NEW a \in Marks, NEW b \in Marks,
         a.out # "dead", May(s, a, lostOnes, c), b = After(s, a)
  PROVE  Path(<<s>>, a, b, Clearing, Clears(lostOnes, c))
<1> DEFINE x == <<s, a, b>>
<1>1. x \in Clearing \X Marks \X Marks /\ x[1] = s /\ x[2] = a /\ x[3] = b
  OBVIOUS
<1> HIDE DEF x
<1>2. ClearStep(x[1], x[2], x[3], lostOnes, c)
  BY <1>1 DEF ClearStep
<1>3. x \in Clears(lostOnes, c)
  BY <1>1, <1>2 DEF Clears
<1> QED
  BY <1>3, PathOne DEF x

\* One step of a command.
LEMMA SegOne ==
  ASSUME NEW c, NEW s \in Doing, NEW a \in Marks, NEW b \in Marks,
         a.out # "dead", May(s, a, {}, c), b = After(s, a),
         s.op \in {"get", "call", "create", "write", "parse"} => Backs(s.fail, a, s.loses, c)
  PROVE  Seg(c, <<s>>, a, b)
<1> DEFINE x == <<s, a, b>>
<1>1. x \in Doing \X Marks \X Marks /\ x[1] = s /\ x[2] = a /\ x[3] = b
  OBVIOUS
<1> HIDE DEF x
<1>2. DoesStep(x[1], x[2], x[3], c)
  BY <1>1 DEF ClearStep, DoesStep
<1>3. x \in Does(c)
  BY <1>1, <1>2 DEF Does
<1> QED
  BY <1>3, PathOne DEF x, Seg

\* Where a path back begins nothing is held without what it depends on.
LEMMA BacksFacts ==
  ASSUME NEW c, NEW f, NEW a, NEW lostOnes, Backs(f, a, lostOnes, c), a.out # "dead"
  PROVE  a \in Marks /\ Closed(a.live, lostOnes) /\ f \in Seq(Clearing)
<1>1. a # Dead
  BY DEF Dead, At
<1>2. f # <<>> /\ f \in Seq(Clearing)
  BY <1>1, PathMoves DEF Backs, Path
<1>3. PICK d \in Marks : a \in Marks /\ <<Head(f), a, d>> \in Clears(lostOnes, c)
  BY <1>2, PathTail DEF Backs
<1>4. ClearStep(Head(f), a, d, lostOnes, c)
  BY <1>3 DEF Clears
<1>5. Closed(a.live, lostOnes)
  BY <1>1, <1>4 DEF ClearStep, May
<1> QED
  BY <1>2, <1>3, <1>5

\* What a path back starts from: resources that need nothing beyond themselves,
\* and moments of the output.
LEMMA BackFacts ==
  ASSUME NEW c, NEW f, NEW held, NEW o, Back(f, held, o, c)
  PROVE  /\ held \in SUBSET Names /\ o \in Moments /\ Closed(held, {})
         /\ f \in Seq(Clearing) /\ Backs(f, At(held, o), {}, c)
<1>1. o \in Moments /\ Backs(f, At(held, o), {}, c)
  BY DEF Back
<1>2. At(held, o).out # "dead" /\ At(held, o).live = held
  BY <1>1 DEF At, Moments
<1>3. At(held, o) \in Marks /\ Closed(At(held, o).live, {}) /\ f \in Seq(Clearing)
  BY <1>1, <1>2, BacksFacts
<1>4. held \in SUBSET Names
  BY <1>2, <1>3 DEF Marks
<1> QED
  BY <1>1, <1>2, <1>3, <1>4

\* What is taken with all it depends on.
LEMMA ClosedGrows ==
  ASSUME NEW held, NEW x, Closed(held, {}), Needs(x) \subseteq held
  PROVE  Closed(held \cup {x}, {})
BY DEF Closed

\* An exit with nothing held.
LEMMA BackExit ==
  ASSUME NEW c, NEW code \in {1, 2}, NEW o \in Moments, code = 2 => o = "no"
  PROVE  Back(Exit(code), {}, o, c)
<1> DEFINE s == [op |-> "exit", on |-> code, fail |-> <<>>, loses |-> {}]
           a == At({}, o)
<1>1. Exit(code) = <<s>>
  BY DEF Exit, Step
<1>2. s \in Clearing
  BY DEF Clearing, Ons
<1>3. a \in Marks /\ Dead \in Marks /\ a.live = {} /\ a.out = o /\ o # "dead"
  BY MarkFacts
<1> HIDE DEF a
<1>4. May(s, a, {}, c)
  BY <1>3 DEF May, Closed, CodeTells
<1>5. Dead = After(s, a)
  BY DEF After
<1> HIDE DEF s
<1>6. Path(<<s>>, a, Dead, Clearing, Clears({}, c))
  BY <1>2, <1>3, <1>4, <1>5, ClearOne
<1> QED
  BY <1>1, <1>6 DEF Back, Backs, a

\* What nothing held depends on is given back.
LEMMA ClearDrop ==
  ASSUME NEW c, NEW held \in SUBSET Names, NEW x \in Names \ {"replaced"}, NEW o \in Moments,
         Closed(held, {}), Needs(x) \subseteq held, x \notin held
  PROVE  Clear(c, Drop(x), At(held \cup {x}, o), At(held, o))
<1> DEFINE s == [op |-> "drop", on |-> x, fail |-> <<>>, loses |-> {}]
           a == At(held \cup {x}, o)
           b == At(held, o)
<1>1. Drop(x) = <<s>>
  BY DEF Drop, Step
<1>2. s \in Clearing
  BY DEF Clearing, Ons
<1>3. /\ a \in Marks /\ a.live = held \cup {x} /\ a.out = o /\ o # "dead"
      /\ b \in Marks /\ b.live = held /\ b.out = o
  BY MarkFacts
<1>4. b = After(s, a)
  <2>1. (held \cup {x}) \ {x} = held
    OBVIOUS
  <2> QED
    BY <1>3, <2>1 DEF After
<1> HIDE DEF a, b
<1>5. May(s, a, {}, c)
  <2>1. Closed(a.live, {})
    BY <1>3, ClosedGrows
  <2> QED
    BY <1>3, <2>1 DEF May
<1> HIDE DEF s
<1>6. Path(<<s>>, a, b, Clearing, Clears({}, c))
  BY <1>2, <1>3, <1>4, <1>5, ClearOne
<1> QED
  BY <1>1, <1>6 DEF Clear, a, b

\* A path back from where another begins.
LEMMA BackJoins ==
  ASSUME NEW c, NEW p, NEW f, NEW held, NEW more, NEW o,
         Clear(c, p, At(more, o), At(held, o)), Back(f, held, o, c)
  PROVE  Back(p \o f, more, o, c)
BY PathJoins DEF Clear, Back, Backs

\* A path back may first give back what nothing else needs.
LEMMA BackDrop ==
  ASSUME NEW c, NEW f, NEW held, NEW o, NEW x \in Names \ {"replaced"},
         Back(f, held, o, c), Needs(x) \subseteq held, x \notin held
  PROVE  Back(Drop(x) \o f, held \cup {x}, o, c)
BY BackFacts, ClearDrop, BackJoins

\* After an exception a path back also ends what it had lost before, and leaves
\* just that.
LEMMA Strands ==
  ASSUME NEW c, NEW f, NEW held, NEW o, Back(f, held, o, c),
         NEW X \in SUBSET (Names \ {"irFields"}), X \cap held = {}
  PROVE  Backs(f, At(held \cup X, o), X, c)
<1>1. /\ held \in SUBSET Names /\ o \in Moments /\ f \in Seq(Clearing)
      /\ Backs(f, At(held, o), {}, c)
  BY BackFacts
<1>2. PICK m \in [1 .. Len(f) + 1 -> Marks] :
        /\ m[1] = At(held, o) /\ m[Len(f) + 1] = Dead
        /\ \A i \in 1 .. Len(f) : <<f[i], m[i], m[i + 1]>> \in Clears({}, c)
  BY <1>1 DEF Backs, Path
<1>3. Len(f) \in Nat /\ Dead \in Marks /\ Dead.live = {} /\ Dead.out = "dead"
  BY <1>1, MarkFacts
<1>4. ASSUME NEW i \in 1 .. Len(f)
      PROVE  /\ f[i] \in Clearing /\ m[i] \in Marks /\ m[i + 1] \in Marks
             /\ ClearStep(f[i], m[i], m[i + 1], {}, c)
  <2> DEFINE x == <<f[i], m[i], m[i + 1]>>
  <2>1. x \in Clears({}, c) /\ x[1] = f[i] /\ x[2] = m[i] /\ x[3] = m[i + 1]
    BY <1>2
  <2> HIDE DEF x
  <2> QED
    BY <2>1 DEF Clears
<1> DEFINE In == {i \in 1 .. Len(f) + 1 : m[i].live \subseteq held}
<1>5. \A i \in 1 .. Len(f) + 1 : i \in In
  <2>1. 1 \in In
    <3>1. m[1].live = held /\ 1 \in 1 .. Len(f) + 1
      BY <1>1, <1>2, <1>3, MarkFacts
    <3> QED
      BY <3>1
  <2>2. ASSUME NEW i \in 1 .. (Len(f) + 1) - 1, i \in In
        PROVE  i + 1 \in In
    <3>1. i \in 1 .. Len(f) /\ i + 1 \in 1 .. Len(f) + 1 /\ m[i].live \subseteq held
      BY <1>3, <2>2
    <3>2. m[i + 1].live \subseteq held
      <4>1. CASE m[i + 1] = Dead
        BY <1>3, <4>1
      <4>2. CASE m[i + 1] # Dead
        <5>1. m[i + 1] = After(f[i], m[i]) /\ f[i].op \in {"drop", "free"}
          BY <1>4, <3>1, <4>2 DEF ClearStep, After, Clearing
        <5>2. m[i + 1].live = m[i].live \ {f[i].on}
          BY <5>1 DEF After, At
        <5> QED
          BY <3>1, <5>2
      <4> QED
        BY <4>1, <4>2
    <3> QED
      BY <3>1, <3>2
  <2>3. Len(f) + 1 \in Nat /\ 1 \in Nat
    BY <1>3
  <2> HIDE DEF In
  <2>4. \A i \in 1 .. (Len(f) + 1) - 1 : i \in In => i + 1 \in In
    BY <2>2
  <2> QED
    BY <2>1, <2>3, <2>4, Climb
<1> DEFINE With(a) == IF a.out = "dead" THEN Dead ELSE At(a.live \cup X, a.out)
           n == [i \in 1 .. Len(f) + 1 |-> With(m[i])]
<1>6. \A a \in Marks : With(a) \in Marks
  BY <1>3 DEF Marks, At
<1>7. ASSUME NEW i \in 1 .. Len(f)
      PROVE  ClearStep(f[i], With(m[i]), With(m[i + 1]), X, c)
  <2>1. m[i] \in Marks /\ m[i + 1] \in Marks /\ f[i] \in Clearing /\ m[i].live \subseteq held
    BY <1>3, <1>4, <1>5
  <2>2. CASE m[i] = Dead /\ m[i + 1] = Dead
    BY <1>3, <2>2 DEF ClearStep
  <2>3. CASE /\ m[i].out # "dead" /\ May(f[i], m[i], {}, c) /\ m[i + 1] = After(f[i], m[i])
    <3> DEFINE s == f[i]
               a == m[i]
               b == At(a.live \cup X, a.out)
    <3>1. With(a) = b /\ b.live = a.live \cup X /\ b.out = a.out
      BY <2>3 DEF At
    <3>2. s \in Clearing /\ a \in Marks /\ a.live \subseteq held /\ a.out # "dead"
      BY <2>1, <2>3
    <3>3. May(s, b, X, c)
      <4>1. Closed(b.live, X)
        BY <2>3, <3>1 DEF May, Closed
      <4>2. s.op = "exit" => b.live = X /\ CodeTells(s.on, b.out, c)
        BY <2>3, <3>1 DEF May
      <4>3. s.op \in {"drop", "free", "exit"}
        BY <3>2 DEF Clearing
      <4> QED
        BY <2>3, <3>1, <4>1, <4>2, <4>3 DEF May
    <3>4. With(m[i + 1]) = After(s, b)
      <4>1. CASE s.op = "exit"
        <5>1. m[i + 1] = Dead /\ After(s, b) = Dead
          BY <2>3, <4>1 DEF After
        <5> QED
          BY <1>3, <5>1
      <4>2. CASE s.op \in {"drop", "free"}
        <5>1. m[i + 1] = At(a.live \ {s.on}, a.out) /\ After(s, b) = At(b.live \ {s.on}, b.out)
          BY <2>3, <4>2 DEF After
        <5>2. s.on \notin X
          <6>1. s.op = "drop" => s.on \in held
            BY <2>3, <3>2 DEF May
          <6>2. s.op = "free" => s.on = "irFields"
            BY <2>3 DEF May
          <6> QED
            BY <4>2, <6>1, <6>2
        <5>3. (a.live \cup X) \ {s.on} = (a.live \ {s.on}) \cup X
          BY <5>2
        <5>4. m[i + 1].live = a.live \ {s.on} /\ m[i + 1].out = a.out
          BY <5>1 DEF At
        <5> QED
          BY <3>1, <3>2, <5>1, <5>3, <5>4
      <4> QED
        BY <3>2, <4>1, <4>2 DEF Clearing
    <3> QED
      BY <3>1, <3>2, <3>3, <3>4 DEF ClearStep
  <2> QED
    BY <1>4, <2>2, <2>3 DEF ClearStep
<1>8. n \in [1 .. Len(f) + 1 -> Marks] /\ \A i \in 1 .. Len(f) + 1 : n[i] = With(m[i])
  BY <1>6
<1>9. n[1] = At(held \cup X, o) /\ n[Len(f) + 1] = Dead
  <2>1. 1 \in 1 .. Len(f) + 1 /\ Len(f) + 1 \in 1 .. Len(f) + 1
    BY <1>3
  <2>2. n[1] = With(At(held, o)) /\ n[Len(f) + 1] = With(Dead)
    BY <1>2, <1>8, <2>1
  <2>3. At(held, o).live = held /\ At(held, o).out = o /\ o # "dead"
    BY <1>1, MarkFacts
  <2> QED
    BY <1>3, <2>2, <2>3
<1>10. ASSUME NEW i \in 1 .. Len(f)
       PROVE  <<f[i], n[i], n[i + 1]>> \in Clears(X, c)
  <2> DEFINE x == <<f[i], n[i], n[i + 1]>>
  <2>1. i \in 1 .. Len(f) + 1 /\ i + 1 \in 1 .. Len(f) + 1
    BY <1>3
  <2>2. n[i] = With(m[i]) /\ n[i + 1] = With(m[i + 1]) /\ n[i] \in Marks /\ n[i + 1] \in Marks
    BY <1>8, <2>1
  <2>3. x \in Clearing \X Marks \X Marks /\ x[1] = f[i] /\ x[2] = n[i] /\ x[3] = n[i + 1]
    BY <1>4, <2>2
  <2>4. ClearStep(f[i], n[i], n[i + 1], X, c)
    BY <1>7, <2>2
  <2> HIDE DEF x
  <2>5. x \in Clears(X, c)
    BY <2>3, <2>4 DEF Clears
  <2> QED
    BY <2>5 DEF x
<1> HIDE DEF n, With, In
<1> QED
  BY <1>1, <1>8, <1>9, <1>10 DEF Backs, Path

-----------------------------------------------------------------------------
(* What a command does, step by step.                                         *)

\* A command's steps lead from a to b, unless they lead to the exit before.
Leads(c, p, a, b) == Seg(c, p, a, b) \/ Seg(c, p, a, Dead)

\* What is done after the exit does not matter.
LEMMA LeadsJoins ==
  ASSUME NEW c, NEW p, NEW q, NEW a, NEW b, NEW d, Leads(c, p, a, b), Leads(c, q, b, d)
  PROVE  Leads(c, p \o q, a, d)
<1>1. q \in Seq(Doing)
  BY DEF Leads, Seg, Path
<1>2. CASE Seg(c, p, a, Dead)
  <2>1. Seg(c, q, Dead, Dead)
    BY <1>1, DeadGoesOn
  <2> QED
    BY <1>2, <2>1, PathJoins DEF Leads, Seg
<1>3. CASE Seg(c, p, a, b)
  BY <1>3, PathJoins DEF Leads, Seg
<1> QED
  BY <1>2, <1>3 DEF Leads

\* No step at all.
LEMMA LeadsNone ==
  ASSUME NEW c, NEW held \in SUBSET Names, NEW o \in Moments
  PROVE  Leads(c, <<>>, At(held, o), At(held, o))
BY MarkFacts, PathNone DEF Leads, Seg

\* A call that is not there fails: only its path back is taken.
LEMMA LeadsBack ==
  ASSUME NEW c, NEW f, NEW held, NEW o, NEW b, Back(f, held, o, c)
  PROVE  Leads(c, f, At(held, o), b)
<1>1. Clear(c, f, At(held, o), Dead)
  BY DEF Back, Backs, Clear
<1> QED
  BY <1>1, ClearIsSeg DEF Leads

\* A step whose failure loses X.
LEMMA LeadsStep ==
  ASSUME NEW c, NEW op \in {"get", "call", "write", "parse"}, NEW x \in Names \ {"replaced"},
         NEW f, NEW held, NEW o \in Moments, NEW X \in SUBSET (Names \ {"replaced"}),
         Closed(held, {}), Backs(f, At(held, o), X, c),
         op \in {"call", "write"} => x \in held, op = "parse" => x = "root" /\ X = {}
  PROVE  Leads(c, Step(op, x, f, X), At(held, o),
               At(IF op \in {"get", "parse"} THEN held \cup {x} ELSE held, o))
<1> DEFINE s == [op |-> op, on |-> x, fail |-> f, loses |-> X]
           a == At(held, o)
           after == IF op \in {"get", "parse"} THEN held \cup {x} ELSE held
           b == At(after, o)
<1>1. Step(op, x, f, X) = <<s>>
  BY DEF Step
<1>2. a.out = o /\ a.live = held /\ o # "dead"
  BY DEF At, Moments
<1>3. a \in Marks /\ f \in Seq(Clearing)
  BY <1>2, BacksFacts
<1>4. held \in SUBSET Names
  BY <1>2, <1>3 DEF Marks
<1>5. after \in SUBSET Names
  BY <1>4
<1> HIDE DEF after
<1>6. b \in Marks
  BY <1>5, MarkFacts
<1>7. s \in Doing
  BY <1>3 DEF Doing, Ons
<1>8. s.op = op /\ s.on = x /\ s.fail = f /\ s.loses = X
  OBVIOUS
<1>9. b = After(s, a)
  <2>1. CASE op \in {"get", "parse"}
    <3>1. after = held \cup {x}
      BY <2>1 DEF after
    <3> QED
      BY <1>2, <1>8, <2>1, <3>1 DEF After
  <2>2. CASE op \in {"call", "write"}
    <3>1. after = held
      BY <2>2 DEF after
    <3> QED
      BY <1>2, <1>8, <2>2, <3>1 DEF After
  <2> QED
    BY <2>1, <2>2
<1> HIDE DEF s
<1>10. May(s, a, {}, c)
  BY <1>2, <1>8 DEF May
<1> HIDE DEF a, b
<1>11. Seg(c, <<s>>, a, b)
  BY <1>2, <1>3, <1>6, <1>7, <1>8, <1>9, <1>10, SegOne DEF a
<1> QED
  BY <1>1, <1>11 DEF Leads, a, b, after

\* A resource is asked for: with it the path goes on, without it there is a
\* path back.
LEMMA LeadsGet ==
  ASSUME NEW c, NEW x \in Names \ {"replaced"}, NEW f, NEW held, NEW o, Back(f, held, o, c)
  PROVE  Leads(c, Get(x, f), At(held, o), At(held \cup {x}, o))
<1>1. Leads(c, Step("get", x, f, {}), At(held, o),
            At(IF "get" \in {"get", "parse"} THEN held \cup {x} ELSE held, o))
  BY BackFacts, LeadsStep
<1> QED
  BY <1>1 DEF Get

\* A call on a resource that is held succeeds, or there is a path back.
LEMMA LeadsCall ==
  ASSUME NEW c, NEW x \in Names \ {"replaced"}, NEW f, NEW held, NEW o, Back(f, held, o, c),
         x \in held
  PROVE  Leads(c, Call(x, f), At(held, o), At(held, o))
<1>1. Leads(c, Step("call", x, f, {}), At(held, o),
            At(IF "call" \in {"get", "parse"} THEN held \cup {x} ELSE held, o))
  BY BackFacts, LeadsStep
<1> QED
  BY <1>1 DEF Call

\* The output is written, or there is a path back.
LEMMA LeadsWrite ==
  ASSUME NEW c, NEW f, NEW held, NEW o, Back(f, held, o, c), "output" \in held
  PROVE  Leads(c, Step("write", "output", f, {}), At(held, o), At(held, o))
<1>1. Leads(c, Step("write", "output", f, {}), At(held, o),
            At(IF "write" \in {"get", "parse"} THEN held \cup {"output"} ELSE held, o))
  <2>1. "output" \in Names \ {"replaced"}
    BY DEF Names, Resources
  <2> QED
    BY <2>1, BackFacts, LeadsStep
<1> QED
  BY <1>1

\* A log is read and its root held, or there is a path back.
LEMMA LeadsParse ==
  ASSUME NEW c, NEW f, NEW held, NEW o, Back(f, held, o, c)
  PROVE  Leads(c, Step("parse", "root", f, {}), At(held, o), At(held \cup {"root"}, o))
<1>1. Leads(c, Step("parse", "root", f, {}), At(held, o),
            At(IF "parse" \in {"get", "parse"} THEN held \cup {"root"} ELSE held, o))
  <2>1. "root" \in Names \ {"replaced"}
    BY DEF Names, Resources
  <2> QED
    BY <2>1, BackFacts, LeadsStep
<1> QED
  BY <1>1

\* An exception loses X, and the path back begins where X was not taken yet.
LEMMA LeadsThrows ==
  ASSUME NEW c, NEW x \in Names \ {"replaced"}, NEW f, NEW held, NEW o, Back(f, held, o, c),
         NEW X \in SUBSET (Names \ {"replaced", "irFields"}), X \cap held = {},
         x \in held \cup X,
         Closed(held \cup X, {})
  PROVE  Leads(c, Throws(x, f, X), At(held \cup X, o), At(held \cup X, o))
<1>1. /\ o \in Moments /\ X \in SUBSET (Names \ {"replaced"})
      /\ Backs(f, At(held \cup X, o), X, c)
  BY BackFacts, Strands
<1>2. Leads(c, Step("call", x, f, X), At(held \cup X, o),
            At(IF "call" \in {"get", "parse"} THEN (held \cup X) \cup {x} ELSE held \cup X, o))
  BY <1>1, LeadsStep
<1> QED
  BY <1>2 DEF Throws

\* A step that cannot fail and is not a way back.
LEMMA LeadsSure ==
  ASSUME NEW c, NEW op \in {"take", "free", "close", "saved"}, NEW x \in Names \ {"replaced"},
         NEW held \in SUBSET Names, NEW o \in Moments, Closed(held, {}),
         op = "free" => x = "irFields", op \in {"close", "saved"} => x \in held
  PROVE  Leads(c, Step(op, x, <<>>, {}), At(held, o),
               After([op |-> op, on |-> x, fail |-> <<>>, loses |-> {}], At(held, o)))
<1> DEFINE s == [op |-> op, on |-> x, fail |-> <<>>, loses |-> {}]
           a == At(held, o)
           b == After(s, a)
<1>1. Step(op, x, <<>>, {}) = <<s>>
  BY DEF Step
<1>2. a \in Marks /\ a.out = o /\ a.live = held /\ o # "dead"
  BY MarkFacts
<1>3. s \in Doing
  <2>1. <<>> \in Seq(Clearing) /\ {} \in SUBSET (Names \ {"replaced"})
    OBVIOUS
  <2> QED
    BY <2>1 DEF Doing, Ons
<1>4. s.op = op /\ s.on = x
  OBVIOUS
<1> HIDE DEF s
<1>5. b \in Marks
  BY <1>2, <1>4 DEF After, Marks, At
<1>6. May(s, a, {}, c)
  BY <1>2, <1>4 DEF May
<1> HIDE DEF a, b
<1>7. Seg(c, <<s>>, a, b)
  BY <1>2, <1>3, <1>4, <1>5, <1>6, SegOne DEF b
<1> QED
  BY <1>1, <1>7 DEF Leads, a, b, s

\* A resource is taken where nothing can fail.
LEMMA LeadsTake ==
  ASSUME NEW c, NEW x \in Names \ {"replaced"}, NEW held \in SUBSET Names, NEW o \in Moments,
         Closed(held, {})
  PROVE  Leads(c, Step("take", x, <<>>, {}), At(held, o), At(held \cup {x}, o))
<1> DEFINE s == [op |-> "take", on |-> x, fail |-> <<>>, loses |-> {}]
<1>1. After(s, At(held, o)) = At(held \cup {x}, o)
  BY MarkFacts DEF After
<1>2. Leads(c, Step("take", x, <<>>, {}), At(held, o), After(s, At(held, o)))
  BY LeadsSure
<1> QED
  BY <1>1, <1>2

\* The output is closed, by fclose or by pdf_save_document.
LEMMA LeadsClose ==
  ASSUME NEW c, NEW op \in {"close", "saved"}, NEW held \in SUBSET Names, NEW o \in Moments,
         Closed(held, {}), "output" \notin held
  PROVE  Leads(c, Step(op, "output", <<>>, {}), At(held \cup {"output"}, o), At(held, "done"))
<1> DEFINE s == [op |-> op, on |-> "output", fail |-> <<>>, loses |-> {}]
           more == held \cup {"output"}
<1>1. (held \cup {"output"}) \ {"output"} = held
  OBVIOUS
<1>2. more \in SUBSET Names /\ Closed(more, {})
  BY ClosedGrows DEF Needs, Names, Resources
<1>3. After(s, At(more, o)) = At(held, "done")
  BY <1>1, <1>2, MarkFacts DEF After
<1>4. Leads(c, Step(op, "output", <<>>, {}), At(more, o), After(s, At(more, o)))
  <2>1. "output" \in more /\ "output" \in Names \ {"replaced"} /\ op # "free"
    BY DEF Names, Resources
  <2> HIDE DEF more
  <2> QED
    BY <1>2, <2>1, LeadsSure
<1> QED
  BY <1>3, <1>4

\* pc_doc_close frees the fields that may not be there.
LEMMA LeadsFree ==
  ASSUME NEW c, NEW held \in SUBSET Names, NEW o \in Moments, Closed(held, {})
  PROVE  Leads(c, Step("free", "irFields", <<>>, {}), At(held, o), At(held \ {"irFields"}, o))
<1> DEFINE s == [op |-> "free", on |-> "irFields", fail |-> <<>>, loses |-> {}]
<1>1. After(s, At(held, o)) = At(held \ {"irFields"}, o)
  BY MarkFacts DEF After
<1>2. Leads(c, Step("free", "irFields", <<>>, {}), At(held, o), After(s, At(held, o)))
  BY LeadsSure DEF Names, Resources
<1> QED
  BY <1>1, <1>2

\* The output is created, and what it was is lost.
LEMMA LeadsCreate ==
  ASSUME NEW c, NEW f, NEW held, Back(f, held, "no", c)
  PROVE  Leads(c, Step("create", "output", f, {}), At(held, "no"),
               At(held \cup {"output"}, "partial"))
<1> DEFINE s == [op |-> "create", on |-> "output", fail |-> f, loses |-> {}]
           a == At(held, "no")
           b == At(held \cup {"output"}, "partial")
<1>1. Step("create", "output", f, {}) = <<s>>
  BY DEF Step
<1>2. /\ held \in SUBSET Names /\ Closed(held, {}) /\ f \in Seq(Clearing)
      /\ Backs(f, At(held, "no"), {}, c)
  BY BackFacts
<1>3. a \in Marks /\ b \in Marks /\ a.live = held /\ a.out = "no"
  <2>1. "no" \in Moments /\ "partial" \in Moments /\ held \cup {"output"} \in SUBSET Names
    BY <1>2 DEF Moments, Names, Resources
  <2> QED
    BY <1>2, <2>1, MarkFacts
<1>4. s \in Doing
  BY <1>2 DEF Doing, Ons, Names, Resources
<1>5. s.op = "create" /\ s.on = "output" /\ s.fail = f /\ s.loses = {}
  OBVIOUS
<1> HIDE DEF s
<1>6. b = After(s, a)
  BY <1>3, <1>5 DEF After
<1>7. May(s, a, {}, c)
  BY <1>2, <1>3, <1>5 DEF May, Names, Resources
<1>8. s.op \in {"get", "call", "create", "write", "parse"} => Backs(s.fail, a, s.loses, c)
  BY <1>2, <1>5
<1> HIDE DEF a, b
<1>9. Seg(c, <<s>>, a, b)
  BY <1>3, <1>4, <1>6, <1>7, <1>8, SegOne
<1> QED
  BY <1>1, <1>9 DEF Leads, a, b

\* A resource is given back that nothing else needs.
LEMMA LeadsDrop ==
  ASSUME NEW c, NEW held \in SUBSET Names, NEW x \in Names \ {"replaced"}, NEW o \in Moments,
         Closed(held, {}), Needs(x) \subseteq held, x \notin held
  PROVE  Leads(c, Drop(x), At(held \cup {x}, o), At(held, o))
BY ClearDrop, ClearIsSeg DEF Leads

\* A command's last step.
LEMMA LeadsExit ==
  ASSUME NEW c, NEW o \in Moments, o = "done" \/ c.out = "stdout"
  PROVE  Leads(c, Exit(0), At({}, o), Dead)
<1> DEFINE s == [op |-> "exit", on |-> 0, fail |-> <<>>, loses |-> {}]
           a == At({}, o)
<1>1. Exit(0) = <<s>>
  BY DEF Exit, Step
<1>2. s \in Clearing
  BY DEF Clearing, Ons
<1>3. a \in Marks /\ Dead \in Marks /\ a.live = {} /\ a.out = o /\ o # "dead"
  BY MarkFacts
<1> HIDE DEF a
<1>4. May(s, a, {}, c)
  BY <1>3 DEF May, Closed, CodeTells
<1>5. Dead = After(s, a)
  BY DEF After
<1> HIDE DEF s
<1>6. Path(<<s>>, a, Dead, Clearing, Clears({}, c))
  BY <1>2, <1>3, <1>4, <1>5, ClearOne
<1> QED
  BY <1>1, <1>6, ClearIsSeg DEF Clear, Leads, a

\* Several things are given back, each before what it depends on.
LEMMA DropAllClears ==
  ASSUME NEW c, NEW xs \in Seq(Names \ {"replaced"}), NEW held \in SUBSET Names,
         NEW o \in Moments, Closed(held, {}),
         \A i, j \in 1 .. Len(xs) : xs[i] = xs[j] => i = j,
         \A i \in 1 .. Len(xs) :
           /\ xs[i] \notin held
           /\ Needs(xs[i]) \subseteq held \cup {xs[j] : j \in i + 1 .. Len(xs)}
  PROVE  Clear(c, DropAll(xs), At(held \cup {xs[j] : j \in 1 .. Len(xs)}, o), At(held, o))
<1> DEFINE n == Len(xs)
           p == DropAll(xs)
           Rest(i) == {xs[j] : j \in i .. n}
           m == [i \in 1 .. n + 1 |-> At(held \cup Rest(i), o)]
<1>1. n \in Nat /\ DOMAIN xs = 1 .. n /\ \A i \in 1 .. n : xs[i] \in Names \ {"replaced"}
  OBVIOUS
<1>2. ASSUME NEW i \in 1 .. n
      PROVE  p[i] = [op |-> "drop", on |-> xs[i], fail |-> <<>>, loses |-> {}] /\ p[i] \in Clearing
  <2>1. p[i] = [op |-> "drop", on |-> xs[i], fail |-> <<>>, loses |-> {}]
    BY <1>1 DEF DropAll, Drop, Step
  <2> QED
    BY <1>1, <2>1 DEF Clearing, Ons
<1>3. p \in Seq(Clearing) /\ Len(p) = n
  <2>1. p = [i \in 1 .. n |-> p[i]]
    BY <1>1 DEF DropAll
  <2> HIDE DEF p, n
  <2> QED
    BY <1>1, <1>2, <2>1
<1>4. ASSUME NEW i \in 1 .. n + 1
      PROVE  /\ m[i] = At(held \cup Rest(i), o) /\ m[i] \in Marks
             /\ m[i].live = held \cup Rest(i) /\ m[i].out = o /\ o # "dead"
  <2>1. held \cup Rest(i) \in SUBSET Names
    BY <1>1
  <2>2. m[i] = At(held \cup Rest(i), o)
    OBVIOUS
  <2> DEFINE L == held \cup Rest(i)
  <2> HIDE DEF m, L
  <2>3. At(L, o) \in Marks /\ At(L, o).live = L /\ At(L, o).out = o /\ o # "dead"
    BY <2>1, MarkFacts DEF L
  <2> QED
    BY <2>2, <2>3 DEF L
<1>5. ASSUME NEW i \in 1 .. n
      PROVE  Rest(i) = Rest(i + 1) \cup {xs[i]} /\ xs[i] \notin held \cup Rest(i + 1)
  <2>1. i .. n = (i + 1 .. n) \cup {i} /\ i \notin i + 1 .. n
    BY <1>1
  <2>2. xs[i] \notin Rest(i + 1)
    BY <1>1, <2>1
  <2> QED
    BY <2>1, <2>2
<1>6. ASSUME NEW i \in 1 .. n
      PROVE  Closed(held \cup Rest(i), {})
  <2> SUFFICES ASSUME NEW x \in held \cup Rest(i)
               PROVE  Needs(x) \subseteq held \cup Rest(i)
    BY DEF Closed
  <2>1. CASE x \in held
    BY <2>1 DEF Closed
  <2>2. CASE x \in Rest(i)
    <3>1. PICK j \in i .. n : x = xs[j]
      BY <2>2
    <3>2. j \in 1 .. n /\ j + 1 .. n \subseteq i .. n
      BY <1>1, <3>1
    <3>3. Needs(x) \subseteq held \cup Rest(j + 1)
      BY <3>1, <3>2
    <3> QED
      BY <3>2, <3>3
  <2> QED
    BY <2>1, <2>2
<1> HIDE DEF m, Rest, p
<1>7. ASSUME NEW i \in 1 .. n
      PROVE  <<p[i], m[i], m[i + 1]>> \in Clears({}, c)
  <2> DEFINE s == p[i]
             x == <<s, m[i], m[i + 1]>>
  <2>1. i \in 1 .. n + 1 /\ i + 1 \in 1 .. n + 1
    BY <1>1
  <2>2. s.op = "drop" /\ s.on = xs[i] /\ s \in Clearing /\ s.on \in Names \ {"replaced"}
    <3>1. /\ s = [op |-> "drop", on |-> xs[i], fail |-> <<>>, loses |-> {}]
          /\ s \in Clearing /\ xs[i] \in Names \ {"replaced"}
      BY <1>1, <1>2
    <3> HIDE DEF s
    <3> QED
      BY <3>1
  <2> HIDE DEF s
  <2>3. m[i].live \ {s.on} = held \cup Rest(i + 1) /\ s.on \in m[i].live
    <3>1. m[i].live = held \cup Rest(i)
      BY <1>4, <2>1
    <3>2. Rest(i) = Rest(i + 1) \cup {xs[i]} /\ xs[i] \notin held \cup Rest(i + 1)
      BY <1>5
    <3> QED
      BY <2>2, <3>1, <3>2
  <2>4. m[i + 1] = After(s, m[i])
    BY <1>4, <2>1, <2>2, <2>3 DEF After
  <2>5. Closed(m[i].live, {})
    BY <1>4, <1>6, <2>1
  <2>6. May(s, m[i], {}, c)
    BY <2>2, <2>3, <2>5 DEF May
  <2>7. x \in Clearing \X Marks \X Marks /\ x[1] = s /\ x[2] = m[i] /\ x[3] = m[i + 1]
    BY <1>4, <2>1, <2>2
  <2>8. m[i].out # "dead"
    BY <1>4, <2>1
  <2>9. ClearStep(s, m[i], m[i + 1], {}, c)
    BY <2>4, <2>6, <2>8 DEF ClearStep
  <2> HIDE DEF x
  <2>10. x \in Clears({}, c)
    BY <2>7, <2>9 DEF Clears
  <2> QED
    BY <2>10 DEF x, s
<1>8. m \in [1 .. Len(p) + 1 -> Marks]
  BY <1>3, <1>4 DEF m
<1>9. m[1] = At(held \cup Rest(1), o) /\ m[Len(p) + 1] = At(held, o)
  <2>1. 1 \in 1 .. n + 1 /\ n + 1 \in 1 .. n + 1 /\ n + 1 .. n = {}
    BY <1>1
  <2>2. held \cup Rest(n + 1) = held
    BY <2>1 DEF Rest
  <2> QED
    BY <1>3, <1>4, <2>1, <2>2
<1>10. Clear(c, p, At(held \cup Rest(1), o), At(held, o))
  BY <1>3, <1>7, <1>8, <1>9 DEF Clear, Path
<1> QED
  BY <1>10 DEF p, Rest

\* Paths back join too.
LEMMA ClearJoins ==
  ASSUME NEW c, NEW p, NEW q, NEW a, NEW b, NEW d, Clear(c, p, a, b), Clear(c, q, b, d)
  PROVE  Clear(c, p \o q, a, d)
BY PathJoins DEF Clear

\* A way back that is taken when all went well.
LEMMA LeadsClear ==
  ASSUME NEW c, NEW p, NEW a, NEW b, Clear(c, p, a, b)
  PROVE  Leads(c, p, a, b)
BY ClearIsSeg DEF Leads

-----------------------------------------------------------------------------
(* The engine's functions, each from where its callers are when they call it. *)

Backends == {"null", "mupdf"}
Opened(backend) ==
  IF backend = "null" THEN {"wrapper"} ELSE {"locks", "context", "document", "wrapper"}
Paged(backend) ==
  Opened(backend) \cup (IF backend = "null" THEN {"pageWrapper"} ELSE {"page", "pageWrapper"})

\* The set of an open document, and of one with a page.
LEMMA OpenedFacts ==
  ASSUME NEW b \in Backends
  PROVE  /\ Opened(b) \in SUBSET Names /\ Closed(Opened(b), {})
         /\ Paged(b) \in SUBSET Names /\ Closed(Paged(b), {})
         /\ Closed({}, {})
BY DEF Backends, Opened, Paged, Closed, Needs, Names, Resources

\* doc_open
LEMMA OpenLeads ==
  ASSUME NEW c, NEW b \in Backends, NEW f, Back(f, {}, "no", c)
  PROVE  Leads(c, DocOpen(b, f), At({}, "no"), At(Opened(b), "no"))
<1>1. CASE b = "null"
  <2>1. "wrapper" \in Names \ {"replaced"} /\ {} \cup {"wrapper"} = Opened(b)
    BY <1>1 DEF Names, Resources, Opened
  <2>2. Leads(c, Get("wrapper", f), At({}, "no"), At({} \cup {"wrapper"}, "no"))
    BY <2>1, LeadsGet
  <2>3. DocOpen(b, f) = Get("wrapper", f)
    BY <1>1 DEF DocOpen
  <2> QED
    BY <2>1, <2>2, <2>3
<1>2. CASE b = "mupdf"
  <2> DEFINE L1 == {"locks"}
             L2 == {"locks", "context"}
             L3 == {"locks", "context", "document"}
             f1 == Drop("locks") \o f
             f2 == Drop("context") \o Drop("locks") \o f
             f3 == Drop("document") \o f2
  <2>1. /\ "locks" \in Names \ {"replaced"} /\ "context" \in Names \ {"replaced"}
        /\ "document" \in Names \ {"replaced"} /\ "wrapper" \in Names \ {"replaced"}
    BY DEF Names, Resources
  <2>2. /\ {} \cup {"locks"} = L1 /\ L1 \cup {"context"} = L2 /\ L2 \cup {"document"} = L3
        /\ L3 \cup {"wrapper"} = Opened(b)
    BY <1>2 DEF Opened
  <2>3. /\ Needs("locks") \subseteq {} /\ Needs("context") \subseteq L1
        /\ Needs("document") \subseteq L2
        /\ "context" \notin L1 /\ "document" \notin L2
    BY DEF Needs
  <2> HIDE DEF L1, L2, L3
  <2>4. Back(f1, L1, "no", c)
    BY <2>1, <2>2, <2>3, BackDrop
  <2>5. Back(f2, L2, "no", c)
    <3>1. Clear(c, Drop("locks"), At(L1, "no"), At({}, "no"))
      BY <2>1, <2>2, <2>3, BackFacts, ClearDrop
    <3>2. Clear(c, Drop("context"), At(L2, "no"), At(L1, "no"))
      BY <2>1, <2>2, <2>3, <2>4, BackFacts, ClearDrop
    <3>3. Clear(c, Drop("context") \o Drop("locks"), At(L2, "no"), At({}, "no"))
      BY <3>1, <3>2, ClearJoins
    <3> QED
      BY <3>3, BackJoins
  <2> HIDE DEF f1, f2
  <2>6. Back(f3, L3, "no", c)
    BY <2>1, <2>2, <2>3, <2>5, BackDrop
  <2> HIDE DEF f3
  <2>7. /\ Leads(c, Get("locks", f), At({}, "no"), At(L1, "no"))
        /\ Leads(c, Get("context", f1), At(L1, "no"), At(L2, "no"))
    BY <2>1, <2>2, <2>4, LeadsGet
  <2>8. /\ Leads(c, Get("document", f2), At(L2, "no"), At(L3, "no"))
        /\ Leads(c, Get("wrapper", f3), At(L3, "no"), At(Opened(b), "no"))
    BY <2>1, <2>2, <2>5, <2>6, LeadsGet
  <2>9. Leads(c, Get("locks", f) \o Get("context", f1), At({}, "no"), At(L2, "no"))
    BY <2>7, LeadsJoins
  <2>10. Leads(c, Get("locks", f) \o Get("context", f1) \o Get("document", f2),
               At({}, "no"), At(L3, "no"))
    BY <2>8, <2>9, LeadsJoins
  <2>11. Leads(c, Get("locks", f) \o Get("context", f1) \o Get("document", f2)
                  \o Get("wrapper", f3), At({}, "no"), At(Opened(b), "no"))
    BY <2>8, <2>10, LeadsJoins
  <2>12. DocOpen(b, f) = Get("locks", f) \o Get("context", f1) \o Get("document", f2)
                         \o Get("wrapper", f3)
    BY <1>2 DEF DocOpen, f1, f2, f3
  <2> QED
    BY <2>11, <2>12
<1> QED
  BY <1>1, <1>2 DEF Backends

\* doc_close
LEMMA CloseClears ==
  ASSUME NEW c, NEW b \in Backends, NEW o \in Moments
  PROVE  Clear(c, DocClose(b), At(Opened(b), o), At({}, o))
<1>0. {} \in SUBSET Names /\ Closed({}, {})
  BY OpenedFacts
<1>1. CASE b = "null"
  <2>1. /\ "wrapper" \in Names \ {"replaced"} /\ {} \cup {"wrapper"} = Opened(b)
        /\ Needs("wrapper") \subseteq {}
    BY <1>1 DEF Names, Resources, Opened, Needs
  <2>2. Clear(c, Drop("wrapper"), At({} \cup {"wrapper"}, o), At({}, o))
    BY <1>0, <2>1, ClearDrop
  <2> QED
    BY <1>1, <2>1, <2>2 DEF DocClose
<1>2. CASE b = "mupdf"
  <2> DEFINE xs == <<"document", "context", "locks", "wrapper">>
  <2>1. xs \in Seq(Names \ {"replaced"}) /\ Len(xs) = 4
    BY DEF Names, Resources
  <2>2. xs[1] = "document" /\ xs[2] = "context" /\ xs[3] = "locks" /\ xs[4] = "wrapper"
    OBVIOUS
  <2>3. {xs[j] : j \in 1 .. 4} = Opened(b)
    BY <1>2, <2>2 DEF Opened
  <2> HIDE DEF xs
  <2>4. \A i \in 1 .. 4 : i = 1 \/ i = 2 \/ i = 3 \/ i = 4
    OBVIOUS
  <2>5. \A i, j \in 1 .. Len(xs) : xs[i] = xs[j] => i = j
    BY <2>1, <2>2, <2>4
  <2>6. \A i \in 1 .. Len(xs) : Needs(xs[i]) \subseteq {} \cup {xs[j] : j \in i + 1 .. Len(xs)}
    BY <2>1, <2>2, <2>4 DEF Needs
  <2>7. Clear(c, DropAll(xs), At({} \cup {xs[j] : j \in 1 .. Len(xs)}, o), At({}, o))
    BY <1>0, <2>1, <2>5, <2>6, DropAllClears
  <2>8. {} \cup {xs[j] : j \in 1 .. Len(xs)} = Opened(b)
    BY <2>1, <2>3
  <2> QED
    BY <1>2, <2>7, <2>8 DEF DocClose, xs
<1> QED
  BY <1>1, <1>2 DEF Backends

\* doc_page_count and the check of the index
LEMMA InRangeLeads ==
  ASSUME NEW c, NEW b \in Backends, NEW f, Back(f, Opened(b), "no", c)
  PROVE  Leads(c, PageInRange(b, f), At(Opened(b), "no"), At(Opened(b), "no"))
<1> DEFINE x == IF b = "null" THEN "wrapper" ELSE "document"
<1>1. x \in Names \ {"replaced"} /\ x \in Opened(b)
  BY DEF Names, Resources, Opened
<1>2. PageInRange(b, f) = Call(x, f)
  BY DEF PageInRange
<1> HIDE DEF x
<1> QED
  BY <1>1, <1>2, LeadsCall

\* page_get_box
LEMMA BoxLeads ==
  ASSUME NEW c, NEW b \in Backends, NEW f, Back(f, Opened(b), "no", c)
  PROVE  Leads(c, PageBox(b, f), At(Opened(b), "no"), At(Opened(b), "no"))
<1>0. Opened(b) \in SUBSET Names /\ Closed(Opened(b), {}) /\ "no" \in Moments
  BY OpenedFacts DEF Moments
<1>1. CASE b = "null"
  BY <1>0, <1>1, LeadsNone DEF PageBox
<1>2. CASE b = "mupdf"
  <2> DEFINE L == Opened(b)
             M == Opened(b) \cup {"boxPage"}
  <2>1. /\ "boxPage" \in Names \ {"replaced"} /\ "boxPage" \notin Opened(b)
        /\ Needs("boxPage") \subseteq Opened(b)
    BY <1>2 DEF Names, Resources, Opened, Needs
  <2>2. /\ {"boxPage"} \in SUBSET (Names \ {"replaced", "irFields"}) /\ {"boxPage"} \cap Opened(b) = {}
        /\ "boxPage" \in Opened(b) \cup {"boxPage"}
    BY <2>1
  <2>3. Closed(M, {})
    BY <1>0, <2>1, ClosedGrows
  <2> HIDE DEF L, M
  <2>4. Leads(c, PageInRange(b, f), At(L, "no"), At(L, "no"))
    BY InRangeLeads DEF L
  <2>5. Leads(c, Get("boxPage", f), At(L, "no"), At(M, "no"))
    BY <2>1, LeadsGet DEF L, M
  <2>6. Leads(c, Throws("boxPage", f, {"boxPage"}), At(M, "no"), At(M, "no"))
    <3>1. Closed(Opened(b) \cup {"boxPage"}, {})
      BY <2>3 DEF M
    <3> QED
      BY <2>1, <2>2, <3>1, LeadsThrows DEF M
  <2>7. Leads(c, Drop("boxPage"), At(M, "no"), At(L, "no"))
    BY <1>0, <2>1, LeadsDrop DEF L, M
  <2>8. Leads(c, PageInRange(b, f) \o Get("boxPage", f), At(L, "no"), At(M, "no"))
    BY <2>4, <2>5, LeadsJoins
  <2>9. Leads(c, PageInRange(b, f) \o Get("boxPage", f)
                 \o Throws("boxPage", f, {"boxPage"}), At(L, "no"), At(M, "no"))
    BY <2>6, <2>8, LeadsJoins
  <2>10. Leads(c, PageInRange(b, f) \o Get("boxPage", f)
                  \o Throws("boxPage", f, {"boxPage"}) \o Drop("boxPage"),
               At(L, "no"), At(L, "no"))
    BY <2>7, <2>9, LeadsJoins
  <2> QED
    BY <1>2, <2>10 DEF PageBox, L
<1> QED
  BY <1>1, <1>2 DEF Backends

\* page_get
LEMMA PageLeads ==
  ASSUME NEW c, NEW b \in Backends, NEW f, Back(f, Opened(b), "no", c)
  PROVE  Leads(c, PageGet(b, f), At(Opened(b), "no"), At(Paged(b), "no"))
<1>0. Opened(b) \in SUBSET Names /\ Closed(Opened(b), {}) /\ Closed(Paged(b), {})
  BY OpenedFacts
<1>1. CASE b = "null"
  <2>1. "pageWrapper" \in Names \ {"replaced"} /\ Opened(b) \cup {"pageWrapper"} = Paged(b)
    BY <1>1 DEF Names, Resources, Paged
  <2>2. Leads(c, Get("pageWrapper", f), At(Opened(b), "no"),
              At(Opened(b) \cup {"pageWrapper"}, "no"))
    BY <2>1, LeadsGet
  <2> QED
    BY <1>1, <2>1, <2>2 DEF PageGet
<1>2. CASE b = "mupdf"
  <2> DEFINE L == Opened(b)
             M == Opened(b) \cup {"page"}
             P == Paged(b)
             X == {"page", "pageWrapper"}
             f1 == Drop("page") \o f
  <2>1. /\ "page" \in Names \ {"replaced"} /\ "pageWrapper" \in Names \ {"replaced"}
        /\ "page" \notin L /\ "pageWrapper" \notin L /\ Needs("page") \subseteq L
        /\ M \cup {"pageWrapper"} = P /\ L \cup X = P
    BY <1>2 DEF Names, Resources, Opened, Paged, Needs
  <2>2. X \in SUBSET (Names \ {"replaced", "irFields"}) /\ X \cap L = {} /\ "page" \in L \cup X
    BY <2>1
  <2>3. L \cup {"page"} = M
    OBVIOUS
  <2>4. /\ Leads(c, PageInRange(b, f), At(L, "no"), At(L, "no"))
        /\ Back(f, L, "no", c) /\ Closed(P, {})
    BY <1>0, InRangeLeads
  <2> HIDE DEF L, M, P, X
  <2>5. Leads(c, Get("page", f), At(L, "no"), At(M, "no"))
    BY <2>1, <2>3, <2>4, LeadsGet
  <2>6. Back(f1, M, "no", c)
    BY <2>1, <2>3, <2>4, BackDrop
  <2> HIDE DEF f1
  <2>7. Leads(c, Get("pageWrapper", f1), At(M, "no"), At(P, "no"))
    BY <2>1, <2>6, LeadsGet
  <2>8. Leads(c, Throws("page", f, X), At(P, "no"), At(P, "no"))
    <3>1. Closed(L \cup X, {})
      BY <2>1, <2>4
    <3>2. Leads(c, Throws("page", f, X), At(L \cup X, "no"), At(L \cup X, "no"))
      BY <2>1, <2>2, <2>4, <3>1, LeadsThrows
    <3> QED
      BY <2>1, <3>2
  <2>9. Leads(c, PageInRange(b, f) \o Get("page", f), At(L, "no"), At(M, "no"))
    BY <2>4, <2>5, LeadsJoins
  <2>10. Leads(c, PageInRange(b, f) \o Get("page", f) \o Get("pageWrapper", f1),
               At(L, "no"), At(P, "no"))
    BY <2>7, <2>9, LeadsJoins
  <2>11. Leads(c, PageInRange(b, f) \o Get("page", f) \o Get("pageWrapper", f1)
                  \o Throws("page", f, X), At(L, "no"), At(P, "no"))
    BY <2>8, <2>10, LeadsJoins
  <2>12. PageGet(b, f) = PageInRange(b, f) \o Get("page", f) \o Get("pageWrapper", f1)
                         \o Throws("page", f, X)
    BY <1>2 DEF PageGet, X, f1
  <2> QED
    BY <2>11, <2>12 DEF L, P
<1> QED
  BY <1>1, <1>2 DEF Backends

\* Two things that nothing depends on are given back.
LEMMA DropTwo ==
  ASSUME NEW c, NEW held \in SUBSET Names, NEW o \in Moments, Closed(held, {}),
         NEW x \in Names \ {"replaced"}, NEW y \in Names \ {"replaced"}, x # y,
         x \notin held, y \notin held, Needs(x) \subseteq held, Needs(y) \subseteq held
  PROVE  Clear(c, DropAll(<<x, y>>), At(held \cup {x, y}, o), At(held, o))
<1> DEFINE xs == <<x, y>>
<1>1. xs \in Seq(Names \ {"replaced"}) /\ Len(xs) = 2 /\ xs[1] = x /\ xs[2] = y
  OBVIOUS
<1> HIDE DEF xs
<1>2. {xs[j] : j \in 1 .. Len(xs)} = {x, y}
  BY <1>1
<1>3. \A i \in 1 .. Len(xs) : i = 1 \/ i = 2
  BY <1>1
<1>4. \A i, j \in 1 .. Len(xs) : xs[i] = xs[j] => i = j
  BY <1>1, <1>3
<1>5. \A i \in 1 .. Len(xs) :
        /\ xs[i] \notin held
        /\ Needs(xs[i]) \subseteq held \cup {xs[j] : j \in i + 1 .. Len(xs)}
  BY <1>1, <1>3
<1>6. Clear(c, DropAll(xs), At(held \cup {xs[j] : j \in 1 .. Len(xs)}, o), At(held, o))
  BY <1>1, <1>4, <1>5, DropAllClears
<1> QED
  BY <1>2, <1>6 DEF xs

\* page_free
LEMMA PageClears ==
  ASSUME NEW c, NEW b \in Backends, NEW o \in Moments
  PROVE  Clear(c, PageFree(b), At(Paged(b), o), At(Opened(b), o))
<1>0. Opened(b) \in SUBSET Names /\ Closed(Opened(b), {})
  BY OpenedFacts
<1>1. CASE b = "null"
  <2>1. /\ "pageWrapper" \in Names \ {"replaced"} /\ Opened(b) \cup {"pageWrapper"} = Paged(b)
        /\ "pageWrapper" \notin Opened(b) /\ Needs("pageWrapper") \subseteq Opened(b)
    BY <1>1 DEF Names, Resources, Paged, Opened, Needs
  <2>2. Clear(c, Drop("pageWrapper"), At(Opened(b) \cup {"pageWrapper"}, o), At(Opened(b), o))
    BY <1>0, <2>1, ClearDrop
  <2> QED
    BY <1>1, <2>1, <2>2 DEF PageFree
<1>2. CASE b = "mupdf"
  <2>1. /\ "page" \in Names \ {"replaced"} /\ "pageWrapper" \in Names \ {"replaced"}
        /\ "page" \notin Opened(b) /\ "pageWrapper" \notin Opened(b)
        /\ Needs("page") \subseteq Opened(b) /\ Needs("pageWrapper") \subseteq Opened(b)
        /\ "page" # "pageWrapper" /\ Opened(b) \cup {"page", "pageWrapper"} = Paged(b)
    BY <1>2 DEF Names, Resources, Opened, Paged, Needs
  <2>2. Clear(c, DropAll(<<"page", "pageWrapper">>),
              At(Opened(b) \cup {"page", "pageWrapper"}, o), At(Opened(b), o))
    BY <1>0, <2>1, DropTwo
  <2> QED
    BY <1>2, <2>1, <2>2 DEF PageFree
<1> QED
  BY <1>1, <1>2 DEF Backends

\* page_render
LEMMA RenderLeads ==
  ASSUME NEW c, NEW b \in Backends, NEW f, Back(f, Paged(b), "no", c)
  PROVE  Leads(c, PageRender(b, f), At(Paged(b), "no"), At(Paged(b) \cup {"samples"}, "no"))
<1>0. /\ Paged(b) \in SUBSET Names /\ Closed(Paged(b), {}) /\ "no" \in Moments
      /\ "samples" \in Names \ {"replaced"} /\ "samples" \notin Paged(b)
  BY OpenedFacts DEF Moments, Names, Resources, Opened, Paged
<1>1. CASE b = "null"
  BY <1>0, <1>1, LeadsGet DEF PageRender
<1>2. CASE b = "mupdf"
  <2> DEFINE P == Paged(b)
             P1 == Paged(b) \cup {"pix"}
             P2 == Paged(b) \cup {"pix", "device"}
             P3 == Paged(b) \cup {"pix", "samples"}
             P4 == Paged(b) \cup {"samples"}
             f1 == Drop("pix") \o f
             f2 == Drop("device") \o f1
  <2>1. /\ "pix" \in Names \ {"replaced"} /\ "device" \in Names \ {"replaced"}
        /\ "page" \in Names \ {"replaced"} /\ "page" \in P /\ "page" \in P2
        /\ "pix" \notin P /\ "device" \notin P1 /\ "pix" \notin P4
        /\ Needs("pix") \subseteq P /\ Needs("pix") \subseteq P4 /\ Needs("device") \subseteq P1
        /\ Needs("samples") \subseteq P
    BY <1>2 DEF Names, Resources, Opened, Paged, Needs
  <2>2. /\ P \cup {"pix"} = P1 /\ P1 \cup {"device"} = P2 /\ P1 \cup {"samples"} = P3
        /\ P4 \cup {"pix"} = P3 /\ P \cup {"samples"} = P4
    OBVIOUS
  <2>3. P \in SUBSET Names /\ Closed(P, {}) /\ Back(f, P, "no", c)
    BY <1>0
  <2> HIDE DEF P, P1, P2, P3, P4
  <2>4. Back(f1, P1, "no", c)
    BY <2>1, <2>2, <2>3, BackDrop
  <2>5. Back(f2, P2, "no", c)
    <3> HIDE DEF f1
    <3> QED
      BY <2>1, <2>2, <2>4, BackDrop
  <2> HIDE DEF f1, f2
  <2>6. Closed(P1, {}) /\ P1 \in SUBSET Names /\ Closed(P4, {}) /\ P4 \in SUBSET Names
    <3>1. Closed(P4, {}) /\ P4 \in SUBSET Names
      BY <1>0, <2>1, <2>2, <2>3, ClosedGrows
    <3> QED
      BY <2>4, <3>1, BackFacts
  <2>7. /\ Leads(c, Call("page", f), At(P, "no"), At(P, "no"))
        /\ Leads(c, Get("pix", f), At(P, "no"), At(P1, "no"))
    BY <2>1, <2>2, <2>3, LeadsCall, LeadsGet
  <2>8. Leads(c, Get("device", f1), At(P1, "no"), At(P2, "no"))
    BY <2>1, <2>2, <2>4, LeadsGet
  <2>9. Leads(c, Throws("page", f2, {}), At(P2, "no"), At(P2, "no"))
    <3>1. Leads(c, Call("page", f2), At(P2, "no"), At(P2, "no"))
      BY <2>1, <2>5, LeadsCall
    <3> QED
      BY <3>1 DEF Throws, Call
  <2>10. Leads(c, Drop("device"), At(P2, "no"), At(P1, "no"))
    BY <1>0, <2>1, <2>2, <2>6, LeadsDrop
  <2>11. Leads(c, Get("samples", f1), At(P1, "no"), At(P3, "no"))
    BY <1>0, <2>2, <2>4, LeadsGet
  <2>12. Leads(c, Drop("pix"), At(P3, "no"), At(P4, "no"))
    BY <1>0, <2>1, <2>2, <2>6, LeadsDrop
  <2>13. Leads(c, Call("page", f) \o Get("pix", f), At(P, "no"), At(P1, "no"))
    BY <2>7, LeadsJoins
  <2>14. Leads(c, Call("page", f) \o Get("pix", f) \o Get("device", f1), At(P, "no"), At(P2, "no"))
    BY <2>8, <2>13, LeadsJoins
  <2>15. Leads(c, Call("page", f) \o Get("pix", f) \o Get("device", f1)
                  \o Throws("page", f2, {}), At(P, "no"), At(P2, "no"))
    BY <2>9, <2>14, LeadsJoins
  <2>16. Leads(c, Call("page", f) \o Get("pix", f) \o Get("device", f1)
                  \o Throws("page", f2, {}) \o Drop("device"), At(P, "no"), At(P1, "no"))
    BY <2>10, <2>15, LeadsJoins
  <2>17. Leads(c, Call("page", f) \o Get("pix", f) \o Get("device", f1)
                  \o Throws("page", f2, {}) \o Drop("device") \o Get("samples", f1),
               At(P, "no"), At(P3, "no"))
    BY <2>11, <2>16, LeadsJoins
  <2>18. Leads(c, Call("page", f) \o Get("pix", f) \o Get("device", f1)
                  \o Throws("page", f2, {}) \o Drop("device") \o Get("samples", f1)
                  \o Drop("pix"), At(P, "no"), At(P4, "no"))
    BY <2>12, <2>17, LeadsJoins
  <2>19. PageRender(b, f) = Call("page", f) \o Get("pix", f) \o Get("device", f1)
                            \o Throws("page", f2, {}) \o Drop("device") \o Get("samples", f1)
                            \o Drop("pix")
    BY <1>2 DEF PageRender, f1, f2
  <2> QED
    BY <2>18, <2>19 DEF P, P4
<1> QED
  BY <1>1, <1>2 DEF Backends

\* pc_pixmap_free
LEMMA PixmapClears ==
  ASSUME NEW c, NEW b \in Backends, NEW o \in Moments
  PROVE  Clear(c, PixmapFree, At(Paged(b) \cup {"samples"}, o), At(Paged(b), o))
<1>1. /\ Paged(b) \in SUBSET Names /\ Closed(Paged(b), {})
      /\ "samples" \in Names \ {"replaced"} /\ "samples" \notin Paged(b)
      /\ Needs("samples") \subseteq Paged(b)
  BY OpenedFacts DEF Names, Resources, Opened, Paged, Needs
<1> QED
  BY <1>1, ClearDrop DEF PixmapFree

\* page_text_layout; the null backend has no text
LEMMA TextLeads ==
  ASSUME NEW c, NEW b \in Backends, NEW f, Back(f, Paged(b), "no", c)
  PROVE  Leads(c, TextLayout(b, f), At(Paged(b), "no"),
               At(Paged(b) \cup {"utf8", "boxes"}, "no"))
<1>1. CASE b = "null"
  BY <1>1, LeadsBack DEF TextLayout
<1>2. CASE b = "mupdf"
  <2> DEFINE P == Paged(b)
             P1 == Paged(b) \cup {"stext"}
             P2 == Paged(b) \cup {"stext", "utf8"}
             P3 == Paged(b) \cup {"stext", "utf8", "boxes"}
             P4 == Paged(b) \cup {"utf8", "boxes"}
             f1 == Drop("stext") \o f
             f2 == Drop("utf8") \o f1
  <2>1. /\ "stext" \in Names \ {"replaced"} /\ "utf8" \in Names \ {"replaced"}
        /\ "boxes" \in Names \ {"replaced"} /\ "stext" \notin P /\ "utf8" \notin P1
        /\ Needs("stext") \subseteq P /\ Needs("stext") \subseteq P4 /\ "stext" \notin P4
        /\ Needs("utf8") \subseteq P1 /\ Needs("utf8") \subseteq P
        /\ Needs("boxes") \subseteq P \cup {"utf8"}
    BY <1>2 DEF Names, Resources, Opened, Paged, Needs
  <2>2. /\ P \cup {"stext"} = P1 /\ P1 \cup {"utf8"} = P2 /\ P2 \cup {"boxes"} = P3
        /\ P4 \cup {"stext"} = P3 /\ P \cup {"utf8"} \cup {"boxes"} = P4
    OBVIOUS
  <2>3. P \in SUBSET Names /\ Closed(P, {}) /\ Back(f, P, "no", c) /\ "no" \in Moments
    BY OpenedFacts DEF Moments
  <2> HIDE DEF P, P1, P2, P3, P4
  <2>4. Back(f1, P1, "no", c)
    BY <2>1, <2>2, <2>3, BackDrop
  <2>5. Back(f2, P2, "no", c)
    <3> HIDE DEF f1
    <3> QED
      BY <2>1, <2>2, <2>4, BackDrop
  <2> HIDE DEF f1, f2
  <2>6. Closed(P4, {}) /\ P4 \in SUBSET Names
    <3>1. Closed(P \cup {"utf8"}, {})
      BY <2>1, <2>3, ClosedGrows
    <3> QED
      BY <2>1, <2>2, <2>3, <3>1, ClosedGrows
  <2>7. Leads(c, Get("stext", f), At(P, "no"), At(P1, "no"))
    BY <2>1, <2>2, <2>3, LeadsGet
  <2>8. Leads(c, Get("utf8", f1), At(P1, "no"), At(P2, "no"))
    BY <2>1, <2>2, <2>4, LeadsGet
  <2>9. Leads(c, Get("boxes", f2), At(P2, "no"), At(P3, "no"))
    BY <2>1, <2>2, <2>5, LeadsGet
  <2>10. Leads(c, Drop("stext"), At(P3, "no"), At(P4, "no"))
    BY <2>1, <2>2, <2>3, <2>6, LeadsDrop
  <2>11. Leads(c, Get("stext", f) \o Get("utf8", f1), At(P, "no"), At(P2, "no"))
    BY <2>7, <2>8, LeadsJoins
  <2>12. Leads(c, Get("stext", f) \o Get("utf8", f1) \o Get("boxes", f2),
               At(P, "no"), At(P3, "no"))
    BY <2>9, <2>11, LeadsJoins
  <2>13. Leads(c, Get("stext", f) \o Get("utf8", f1) \o Get("boxes", f2) \o Drop("stext"),
               At(P, "no"), At(P4, "no"))
    BY <2>10, <2>12, LeadsJoins
  <2>14. TextLayout(b, f) = Get("stext", f) \o Get("utf8", f1) \o Get("boxes", f2) \o Drop("stext")
    BY <1>2 DEF TextLayout, f1, f2
  <2> QED
    BY <2>13, <2>14 DEF P, P4
<1> QED
  BY <1>1, <1>2 DEF Backends

\* page_text_layout_free
LEMMA TextClears ==
  ASSUME NEW c, NEW b \in Backends, NEW o \in Moments
  PROVE  Clear(c, TextLayoutFree, At(Paged(b) \cup {"utf8", "boxes"}, o), At(Paged(b), o))
<1>1. /\ Paged(b) \in SUBSET Names /\ Closed(Paged(b), {})
      /\ "utf8" \in Names \ {"replaced"} /\ "boxes" \in Names \ {"replaced"}
      /\ "utf8" \notin Paged(b) /\ "boxes" \notin Paged(b) /\ "utf8" # "boxes"
      /\ Needs("utf8") \subseteq Paged(b) /\ Needs("boxes") \subseteq Paged(b)
  BY OpenedFacts DEF Names, Resources, Opened, Paged, Needs
<1> QED
  BY <1>1, DropTwo DEF TextLayoutFree

-----------------------------------------------------------------------------
(* The output and the document IR.                                            *)

\* a way back from wherever the output is
BackAnywhere(f, held, c) == \A o \in Moments : Back(f, held, o, c)

\* how far the output is once it is written
Written(c) == IF c.out = "stdout" THEN "no" ELSE "done"

\* The output is created, written and closed.
LEMMA FileLeads ==
  ASSUME NEW c, NEW checked \in BOOLEAN, NEW f, NEW held, BackAnywhere(f, held, c),
         "output" \notin held
  PROVE  Leads(c, ToFile(c, checked, f), At(held, "no"), At(held, Written(c)))
<1>0. /\ Back(f, held, "no", c) /\ Back(f, held, "partial", c)
      /\ held \in SUBSET Names /\ Closed(held, {})
      /\ "no" \in Moments /\ "partial" \in Moments
  <2>1. "no" \in Moments /\ "partial" \in Moments
    BY DEF Moments
  <2> QED
    BY <2>1, BackFacts DEF BackAnywhere
<1>1. CASE c.out = "stdout"
  BY <1>0, <1>1, LeadsNone DEF ToFile, Written
<1>2. CASE c.out # "stdout"
  <2> DEFINE M == held \cup {"output"}
             f1 == Drop("output") \o f
             write == IF checked THEN Step("write", "output", f1, {}) ELSE <<>>
  <2>1. /\ "output" \in Names \ {"replaced"} /\ Needs("output") \subseteq held
        /\ "output" \in M /\ held \cup {"output"} = M
    BY DEF Names, Resources, Needs
  <2>2. M \in SUBSET Names
    BY <1>0, <2>1
  <2> HIDE DEF M
  <2>3. Leads(c, Step("create", "output", f, {}), At(held, "no"), At(M, "partial"))
    BY <1>0, <2>1, LeadsCreate
  <2>4. Leads(c, write, At(M, "partial"), At(M, "partial"))
    <3>1. CASE checked
      <4>1. Back(f1, M, "partial", c)
        BY <1>0, <2>1, BackDrop
      <4> HIDE DEF f1
      <4>2. Leads(c, Step("write", "output", f1, {}), At(M, "partial"), At(M, "partial"))
        BY <2>1, <4>1, LeadsWrite
      <4> QED
        BY <3>1, <4>2
    <3>2. CASE ~checked
      BY <1>0, <2>2, <3>2, LeadsNone
    <3> QED
      BY <3>1, <3>2
  <2> HIDE DEF write
  <2>5. Leads(c, Step("close", "output", <<>>, {}), At(M, "partial"), At(held, "done"))
    BY <1>0, <2>1, LeadsClose
  <2>6. Leads(c, Step("create", "output", f, {}) \o write, At(held, "no"), At(M, "partial"))
    BY <2>3, <2>4, LeadsJoins
  <2>7. Leads(c, Step("create", "output", f, {}) \o write \o Step("close", "output", <<>>, {}),
              At(held, "no"), At(held, "done"))
    BY <2>5, <2>6, LeadsJoins
  <2> QED
    BY <1>2, <2>7 DEF ToFile, Written, write
<1> QED
  BY <1>1, <1>2

\* pdf_save_document, called by form_flatten
LEMMA FlattenLeads ==
  ASSUME NEW c, NEW b \in Backends, NEW f, NEW held, BackAnywhere(f, held, c),
         "output" \notin held, b = "mupdf" => "document" \in held
  PROVE  Leads(c, Flatten(b, f), At(held, "no"), At(held, "done"))
<1>0. /\ Back(f, held, "no", c) /\ Back(f, held, "partial", c)
      /\ held \in SUBSET Names /\ Closed(held, {}) /\ "partial" \in Moments
  <2>1. "no" \in Moments /\ "partial" \in Moments
    BY DEF Moments
  <2> QED
    BY <2>1, BackFacts DEF BackAnywhere
<1>1. CASE b = "null"
  BY <1>0, <1>1, LeadsBack DEF Flatten
<1>2. CASE b = "mupdf"
  <2> DEFINE M == held \cup {"output"}
             f1 == Drop("output") \o f
  <2>1. /\ "output" \in Names \ {"replaced"} /\ Needs("output") \subseteq held
        /\ "output" \in M /\ held \cup {"output"} = M
        /\ "document" \in Names \ {"replaced"} /\ "document" \in held
    BY <1>2 DEF Names, Resources, Needs
  <2> HIDE DEF M
  <2>2. Back(f1, M, "partial", c)
    BY <1>0, <2>1, BackDrop
  <2> HIDE DEF f1
  <2>3. Leads(c, Call("document", f), At(held, "no"), At(held, "no"))
    BY <1>0, <2>1, LeadsCall
  <2>4. Leads(c, Step("create", "output", f, {}), At(held, "no"), At(M, "partial"))
    BY <1>0, <2>1, LeadsCreate
  <2>5. Leads(c, Step("write", "output", f1, {}), At(M, "partial"), At(M, "partial"))
    BY <2>1, <2>2, LeadsWrite
  <2>6. Leads(c, Step("saved", "output", <<>>, {}), At(M, "partial"), At(held, "done"))
    BY <1>0, <2>1, LeadsClose
  <2>7. Leads(c, Call("document", f) \o Step("create", "output", f, {}), At(held, "no"),
              At(M, "partial"))
    BY <2>3, <2>4, LeadsJoins
  <2>8. Leads(c, Call("document", f) \o Step("create", "output", f, {})
                 \o Step("write", "output", f1, {}), At(held, "no"), At(M, "partial"))
    BY <2>5, <2>7, LeadsJoins
  <2>9. Leads(c, Call("document", f) \o Step("create", "output", f, {})
                 \o Step("write", "output", f1, {}) \o Step("saved", "output", <<>>, {}),
              At(held, "no"), At(held, "done"))
    BY <2>6, <2>8, LeadsJoins
  <2> QED
    BY <1>2, <2>9 DEF Flatten, f1
<1> QED
  BY <1>1, <1>2 DEF Backends

-----------------------------------------------------------------------------
(* The copies of the form's fields.                                           *)

Fields == Len(FieldNames)

\* Every copy is an allocation of its own and nothing else.
LEMMA FieldFacts ==
  /\ Fields \in Nat /\ FieldNames \in Seq(STRING) /\ FieldValues \in Seq(STRING)
  /\ Len(FieldValues) = Fields
  /\ \A i \in 1 .. Fields : /\ FieldNames[i] \in Names \ Resources
                            /\ FieldValues[i] \in Names \ Resources
  /\ \A i, j \in 1 .. Fields : /\ FieldNames[i] = FieldNames[j] => i = j
                               /\ FieldValues[i] = FieldValues[j] => i = j
                               /\ FieldNames[i] # FieldValues[j]
<1> DEFINE copies == FieldNames \o FieldValues
<1>1. FieldNames \in Seq(STRING) /\ FieldValues \in Seq(STRING) /\ Len(FieldValues) = Fields
  BY FieldsAssumption DEF Fields
<1>2. Fields \in Nat /\ DOMAIN FieldNames = 1 .. Fields /\ DOMAIN FieldValues = 1 .. Fields
  BY <1>1 DEF Fields
<1>3. /\ Len(copies) = Fields + Fields /\ copies \in Seq(STRING)
      /\ \A i \in 1 .. Fields + Fields :
           copies[i] = IF i <= Fields THEN FieldNames[i] ELSE FieldValues[i - Fields]
  BY <1>1, ConcatProperties DEF Fields
<1>4. DOMAIN copies = 1 .. Fields + Fields
  <2> HIDE DEF copies
  <2> QED
    BY <1>2, <1>3
<1>5. /\ \A i \in DOMAIN copies : copies[i] \notin Resources
      /\ \A i, j \in DOMAIN copies : copies[i] = copies[j] => i = j
  BY FieldsAssumption
<1> HIDE DEF copies
<1>6. ASSUME NEW i \in 1 .. Fields
      PROVE  /\ i \in DOMAIN copies /\ copies[i] = FieldNames[i]
             /\ i + Fields \in DOMAIN copies /\ copies[i + Fields] = FieldValues[i]
  <2>1. /\ i \in 1 .. Fields + Fields /\ i + Fields \in 1 .. Fields + Fields
        /\ i <= Fields /\ ~(i + Fields <= Fields) /\ (i + Fields) - Fields = i
    BY <1>2
  <2> QED
    BY <1>3, <1>4, <2>1
<1>7. ASSUME NEW i \in 1 .. Fields
      PROVE  FieldNames[i] \in Names \ Resources /\ FieldValues[i] \in Names \ Resources
  BY <1>2, <1>5, <1>6 DEF Names
<1>8. ASSUME NEW i \in 1 .. Fields, NEW j \in 1 .. Fields
      PROVE  /\ FieldNames[i] = FieldNames[j] => i = j
             /\ FieldValues[i] = FieldValues[j] => i = j
             /\ FieldNames[i] # FieldValues[j]
  <2>1. FieldNames[i] = FieldNames[j] => i = j
    BY <1>5, <1>6
  <2>2. FieldValues[i] = FieldValues[j] => i + Fields = j + Fields
    BY <1>5, <1>6
  <2>3. FieldNames[i] = FieldValues[j] => i = j + Fields
    BY <1>5, <1>6
  <2>4. (i + Fields = j + Fields => i = j) /\ i # j + Fields
    BY <1>2
  <2> QED
    BY <2>1, <2>2, <2>3, <2>4
<1> QED
  BY <1>1, <1>2, <1>7, <1>8

\* The copies of the first n fields, in the order they are given back.
LEMMA CopiedFacts ==
  ASSUME NEW n \in 0 .. Fields
  PROVE  LET xs == Append(Copied(n), "items")
         IN  /\ xs \in Seq(Names \ {"replaced"}) /\ Len(xs) = n + n + 1
             /\ \A k \in 1 .. n : xs[k] = FieldNames[k] /\ xs[n + k] = FieldValues[k]
             /\ xs[n + n + 1] = "items"
             /\ Kept(n) = {xs[k] : k \in 1 .. Len(xs)}
<1> DEFINE a == SubSeq(FieldNames, 1, n)
           b == SubSeq(FieldValues, 1, n)
           ab == Copied(n)
           xs == Append(Copied(n), "items")
           T == Names \ {"replaced"}
<1>0. "items" \in T
  BY DEF Names, Resources
<1>1. n \in Nat /\ n <= Fields /\ Fields \in Nat
  BY FieldFacts
<1>2. /\ a = [k \in 1 .. n |-> FieldNames[k]] /\ b = [k \in 1 .. n |-> FieldValues[k]]
  <2>1. \A k \in 1 .. n : k \in 1 .. Fields
    BY <1>1
  <2>2. /\ FieldNames \in Seq(STRING) /\ FieldValues \in Seq(STRING)
        /\ Len(FieldNames) = Fields /\ Len(FieldValues) = Fields
    BY FieldFacts DEF Fields
  <2> QED
    BY <1>1, <2>1, <2>2
<1>3. \A k \in 1 .. n : FieldNames[k] \in T /\ FieldValues[k] \in T
  <2>1. \A k \in 1 .. n : k \in 1 .. Fields
    BY <1>1
  <2>2. "replaced" \in Resources
    BY DEF Resources
  <2> QED
    BY <2>1, <2>2, FieldFacts
<1> HIDE DEF a, b, T
<1>4. a \in Seq(T) /\ b \in Seq(T) /\ Len(a) = n /\ Len(b) = n
  <2>1. a \in [1 .. n -> T] /\ b \in [1 .. n -> T]
    BY <1>2, <1>3
  <2> QED
    BY <1>1, <2>1
<1>5. ab = a \o b
  BY DEF Copied, a, b
<1>6. /\ ab \in Seq(T) /\ Len(ab) = n + n
      /\ \A k \in 1 .. n + n : ab[k] = IF k <= n THEN a[k] ELSE b[k - n]
  <2>1. /\ a \o b \in Seq(T) /\ Len(a \o b) = Len(a) + Len(b)
        /\ \A k \in 1 .. Len(a) + Len(b) :
             (a \o b)[k] = IF k <= Len(a) THEN a[k] ELSE b[k - Len(a)]
    BY <1>4, ConcatProperties
  <2> QED
    BY <1>4, <1>5, <2>1
<1> HIDE DEF ab
<1>7. /\ xs \in Seq(T) /\ Len(xs) = n + n + 1 /\ xs[n + n + 1] = "items"
      /\ \A k \in 1 .. n + n : xs[k] = ab[k]
  <2>1. xs = Append(ab, "items")
    BY DEF ab
  <2> HIDE DEF xs
  <2> QED
    BY <1>0, <1>1, <1>6, <2>1
<1>8. ASSUME NEW k \in 1 .. n
      PROVE  xs[k] = FieldNames[k] /\ xs[n + k] = FieldValues[k]
  <2>1. k \in 1 .. n + n /\ n + k \in 1 .. n + n /\ k <= n /\ ~(n + k <= n) /\ (n + k) - n = k
    BY <1>1
  <2>2. ab[k] = a[k] /\ ab[n + k] = b[k]
    BY <1>6, <2>1
  <2> HIDE DEF xs
  <2> QED
    BY <1>2, <1>7, <2>1, <2>2
<1>9. Kept(n) = {xs[k] : k \in 1 .. Len(xs)}
  <2>1. DOMAIN ab = 1 .. n + n
    BY <1>1, <1>6
  <2>2. Kept(n) = {"items"} \cup {ab[k] : k \in 1 .. n + n}
    BY <2>1 DEF Kept, ab
  <2>3. 1 .. Len(xs) = (1 .. n + n) \cup {n + n + 1}
    <3> HIDE DEF xs
    <3> QED
      BY <1>1, <1>7
  <2> HIDE DEF xs
  <2> QED
    BY <1>7, <2>2, <2>3
<1> QED
  BY <1>7, <1>8, <1>9 DEF T

\* What is kept of the first n fields.
LEMMA KeptFacts ==
  ASSUME NEW n \in 0 .. Fields
  PROVE  /\ Kept(n) = {"items"} \cup {FieldNames[k] : k \in 1 .. n}
                                \cup {FieldValues[k] : k \in 1 .. n}
         /\ Kept(n) \in SUBSET (Names \ {"replaced", "irFields"})
         /\ Kept(n) \cap (Resources \ {"items"}) = {}
         /\ \A x \in Kept(n) : Needs(x) = {}
<1> DEFINE xs == Append(Copied(n), "items")
<1>1. n \in Nat /\ n <= Fields /\ Fields \in Nat
  BY FieldFacts
<1>2. /\ Len(xs) = n + n + 1 /\ xs[n + n + 1] = "items"
      /\ \A k \in 1 .. n : xs[k] = FieldNames[k] /\ xs[n + k] = FieldValues[k]
      /\ Kept(n) = {xs[k] : k \in 1 .. Len(xs)}
  BY CopiedFacts
<1> HIDE DEF xs
<1>3. Kept(n) = {"items"} \cup {FieldNames[k] : k \in 1 .. n} \cup {FieldValues[k] : k \in 1 .. n}
  <2>1. ASSUME NEW k \in 1 .. Len(xs)
        PROVE  xs[k] \in {"items"} \cup {FieldNames[l] : l \in 1 .. n}
                                   \cup {FieldValues[l] : l \in 1 .. n}
    <3>1. k \in 1 .. n \/ k = n + n + 1 \/ (k - n \in 1 .. n /\ n + (k - n) = k)
      BY <1>1, <1>2
    <3> QED
      BY <1>2, <3>1
  <2>2. n + n + 1 \in 1 .. Len(xs) /\ \A k \in 1 .. n : k \in 1 .. Len(xs) /\ n + k \in 1 .. Len(xs)
    BY <1>1, <1>2
  <2> QED
    BY <1>2, <2>1, <2>2
<1>4. \A k \in 1 .. n : FieldNames[k] \in Names \ Resources /\ FieldValues[k] \in Names \ Resources
  <2>1. \A k \in 1 .. n : k \in 1 .. Fields
    BY <1>1
  <2> QED
    BY <2>1, FieldFacts
<1>5. "items" \in Names /\ "items" \in Resources /\ Needs("items") = {}
      /\ {"replaced", "irFields"} \subseteq Resources \ {"items"}
  BY DEF Names, Resources, Needs
<1>6. \A x \in Names \ Resources : Needs(x) = {}
  BY DEF Needs, Resources
<1> QED
  BY <1>3, <1>4, <1>5, <1>6

\* form_list_free of the first n fields
LEMMA FieldsClear ==
  ASSUME NEW c, NEW n \in 0 .. Fields, NEW held \in SUBSET (Resources \ {"items"}),
         NEW o \in Moments, Closed(held, {})
  PROVE  Clear(c, FreeFields(n), At(held \cup Kept(n), o), At(held, o))
<1> DEFINE xs == Append(Copied(n), "items")
<1>1. n \in Nat /\ n <= Fields /\ Fields \in Nat
  BY FieldFacts
<1>2. /\ Len(xs) = n + n + 1 /\ xs[n + n + 1] = "items" /\ xs \in Seq(Names \ {"replaced"})
      /\ \A k \in 1 .. n : xs[k] = FieldNames[k] /\ xs[n + k] = FieldValues[k]
      /\ Kept(n) = {xs[k] : k \in 1 .. Len(xs)}
  BY CopiedFacts
<1>3. FreeFields(n) = DropAll(xs)
  BY DEF FreeFields
<1> HIDE DEF xs
<1>4. ASSUME NEW i \in 1 .. Len(xs)
      PROVE  xs[i] \notin held /\ Needs(xs[i]) = {}
  BY <1>2, KeptFacts
<1>5. ASSUME NEW i \in 1 .. Len(xs), NEW j \in 1 .. Len(xs), xs[i] = xs[j]
      PROVE  i = j
  <2>1. ASSUME NEW k \in 1 .. Len(xs)
        PROVE  \/ k \in 1 .. n /\ xs[k] = FieldNames[k]
               \/ k = n + n + 1 /\ xs[k] = "items"
               \/ k - n \in 1 .. n /\ xs[k] = FieldValues[k - n]
    <3>1. k \in 1 .. n \/ k = n + n + 1 \/ (k - n \in 1 .. n /\ n + (k - n) = k)
      BY <1>1, <1>2
    <3>2. CASE k - n \in 1 .. n /\ n + (k - n) = k
      <4>1. xs[n + (k - n)] = FieldValues[k - n]
        BY <1>2, <3>2
      <4> QED
        BY <3>2, <4>1
    <3> QED
      BY <1>2, <3>1, <3>2
  <2>2. "items" \in Resources
    BY DEF Resources
  <2>3. \A k \in 1 .. n : k \in 1 .. Fields
    BY <1>1
  <2>4. \A k \in 1 .. n : FieldNames[k] # "items" /\ FieldValues[k] # "items"
    BY <2>2, <2>3, FieldFacts
  <2>6. \A k, l \in 1 .. n : FieldNames[k] = FieldNames[l] => k = l
    BY <2>3, FieldFacts
  <2>7. \A k, l \in 1 .. n : FieldValues[k] = FieldValues[l] => k = l
    BY <2>3, FieldFacts
  <2>8. \A k, l \in 1 .. n : FieldNames[k] # FieldValues[l]
    BY <2>3, FieldFacts
  <2>5. \/ i \in 1 .. n /\ j \in 1 .. n /\ i = j
        \/ i = n + n + 1 /\ j = n + n + 1
        \/ i - n \in 1 .. n /\ j - n \in 1 .. n /\ i - n = j - n
    <3>0. \/ j \in 1 .. n /\ xs[j] = FieldNames[j]
          \/ j = n + n + 1 /\ xs[j] = "items"
          \/ j - n \in 1 .. n /\ xs[j] = FieldValues[j - n]
      BY <2>1
    <3>1. CASE i \in 1 .. n /\ xs[i] = FieldNames[i]
      <4>1. CASE j \in 1 .. n /\ xs[j] = FieldNames[j]
        <5>1. FieldNames[i] = FieldNames[j]
          BY <1>5, <3>1, <4>1
        <5> QED
          BY Zenon, <2>6, <3>1, <4>1, <5>1
      <4>2. CASE j = n + n + 1 /\ xs[j] = "items"
        BY <1>5, <2>4, <3>1, <4>2
      <4>3. CASE j - n \in 1 .. n /\ xs[j] = FieldValues[j - n]
        <5>1. FieldNames[i] = FieldValues[j - n]
          BY <1>5, <3>1, <4>3
        <5> QED
          BY Zenon, <2>8, <3>1, <4>3, <5>1
      <4> QED
        BY <3>0, <4>1, <4>2, <4>3
    <3>2. CASE i = n + n + 1 /\ xs[i] = "items"
      <4>1. CASE j \in 1 .. n /\ xs[j] = FieldNames[j]
        BY <1>5, <2>4, <3>2, <4>1
      <4>2. CASE j = n + n + 1 /\ xs[j] = "items"
        BY <1>5, <2>4, <3>2, <4>2
      <4>3. CASE j - n \in 1 .. n /\ xs[j] = FieldValues[j - n]
        BY <1>5, <2>4, <3>2, <4>3
      <4> QED
        BY <3>0, <4>1, <4>2, <4>3
    <3>3. CASE i - n \in 1 .. n /\ xs[i] = FieldValues[i - n]
      <4>1. CASE j \in 1 .. n /\ xs[j] = FieldNames[j]
        <5>1. FieldNames[j] = FieldValues[i - n]
          BY <1>5, <3>3, <4>1
        <5> QED
          BY Zenon, <2>8, <3>3, <4>1, <5>1
      <4>2. CASE j = n + n + 1 /\ xs[j] = "items"
        BY <1>5, <2>4, <3>3, <4>2
      <4>3. CASE j - n \in 1 .. n /\ xs[j] = FieldValues[j - n]
        <5>1. FieldValues[i - n] = FieldValues[j - n]
          BY <1>5, <3>3, <4>3
        <5> QED
          BY Zenon, <2>7, <3>3, <4>3, <5>1
      <4> QED
        BY <3>0, <4>1, <4>2, <4>3
    <3> QED
      BY <2>1, <3>1, <3>2, <3>3
  <2> QED
    BY <1>1, <1>2, <2>5
<1>6. held \in SUBSET Names
  BY DEF Names
<1>7. Clear(c, DropAll(xs), At(held \cup {xs[j] : j \in 1 .. Len(xs)}, o), At(held, o))
  BY <1>2, <1>4, <1>5, <1>6, DropAllClears
<1> QED
  BY <1>2, <1>3, <1>7

\* One field is copied out.
LEMMA CopyLeads ==
  ASSUME NEW c, NEW f, NEW held \in SUBSET (Resources \ {"items"}), "document" \in held,
         Back(f, held, "no", c), NEW i \in 1 .. Fields
  PROVE  Leads(c, CopyField(i, f), At(held \cup Kept(i - 1), "no"), At(held \cup Kept(i), "no"))
<1> DEFINE K == Kept(i - 1)
           N == Kept(i - 1) \cup {FieldNames[i]}
           V == Kept(i)
           g == FreeFields(i - 1) \o f
<1>1. /\ i - 1 \in 0 .. Fields /\ i \in 0 .. Fields /\ i \in Nat
      /\ 1 .. i = (1 .. i - 1) \cup {i} /\ i \notin 1 .. i - 1 /\ 1 .. i \subseteq 1 .. Fields
  BY FieldFacts
<1>2. /\ K = {"items"} \cup {FieldNames[k] : k \in 1 .. i - 1}
                       \cup {FieldValues[k] : k \in 1 .. i - 1}
      /\ K \in SUBSET (Names \ {"replaced", "irFields"})
      /\ K \cap (Resources \ {"items"}) = {} /\ \A x \in K : Needs(x) = {}
  BY <1>1, KeptFacts
<1>3. /\ V = {"items"} \cup {FieldNames[k] : k \in 1 .. i} \cup {FieldValues[k] : k \in 1 .. i}
      /\ V \in SUBSET (Names \ {"replaced", "irFields"})
      /\ V \cap (Resources \ {"items"}) = {} /\ \A x \in V : Needs(x) = {}
  BY <1>1, KeptFacts
<1> HIDE DEF K, V
<1>4. V = K \cup {FieldNames[i]} \cup {FieldValues[i]}
  BY <1>1, <1>2, <1>3
<1>5. N = K \cup {FieldNames[i]} /\ V = N \cup {FieldValues[i]}
  BY <1>4 DEF K
<1> HIDE DEF N
<1>6. /\ N \in SUBSET (Names \ {"replaced", "irFields"}) /\ N \cap held = {}
      /\ K \cap held = {} /\ V \cap held = {} /\ K \subseteq N /\ N \subseteq V
      /\ \A x \in N : Needs(x) = {}
  BY <1>2, <1>3, <1>5
<1>7. held \in SUBSET Names /\ Closed(held, {}) /\ "no" \in Moments
  BY BackFacts DEF Moments
<1>8. \A X \in SUBSET V : Closed(held \cup X, {}) /\ held \cup X \in SUBSET Names
  BY <1>3, <1>7 DEF Closed
<1>9. Back(g, held \cup K, "no", c)
  <2>1. Clear(c, FreeFields(i - 1), At(held \cup K, "no"), At(held, "no"))
    BY <1>1, <1>7, FieldsClear DEF K
  <2> QED
    BY <2>1, BackJoins
<1> HIDE DEF g
<1>10. /\ FieldNames[i] \in Names \ {"replaced", "irFields"} /\ FieldNames[i] \notin held
       /\ FieldValues[i] \in Names \ {"replaced", "irFields"} /\ FieldNames[i] \notin K
       /\ "document" \in Names \ {"replaced"}
  <2>1. FieldNames[i] \notin Resources /\ FieldNames[i] \in V /\ FieldValues[i] \in V
    BY <1>4, FieldFacts
  <2>2. FieldNames[i] \notin K
    <3>1. "items" \in Resources
      BY DEF Resources
    <3>2. \A k \in 1 .. i - 1 : FieldNames[k] # FieldNames[i] /\ FieldValues[k] # FieldNames[i]
      BY <1>1, FieldFacts
    <3> QED
      BY <1>2, <2>1, <3>1, <3>2
  <2> QED
    BY <1>3, <2>1, <2>2 DEF Names, Resources
<1>11. Leads(c, Throws("document", f, K), At(held \cup K, "no"), At(held \cup K, "no"))
  <2>1. Closed(held \cup K, {}) /\ K \in SUBSET (Names \ {"replaced", "irFields"}) /\ "document" \in held \cup K
    BY <1>2, <1>6, <1>8
  <2> QED
    BY <1>6, <1>10, <2>1, LeadsThrows
<1>12. Leads(c, Get(FieldNames[i], g), At(held \cup K, "no"), At(held \cup N, "no"))
  <2>1. (held \cup K) \cup {FieldNames[i]} = held \cup N
    BY <1>5
  <2>2. Leads(c, Get(FieldNames[i], g), At(held \cup K, "no"),
              At((held \cup K) \cup {FieldNames[i]}, "no"))
    BY <1>9, <1>10, LeadsGet
  <2> QED
    BY <2>1, <2>2
<1>13. Leads(c, Throws("document", f, N), At(held \cup N, "no"), At(held \cup N, "no"))
  <2>1. Closed(held \cup N, {}) /\ N \in SUBSET (Names \ {"replaced", "irFields"}) /\ "document" \in held \cup N
    BY <1>6, <1>8
  <2> QED
    BY <1>6, <1>10, <2>1, LeadsThrows
<1>14. Leads(c, Step("get", FieldValues[i], g, {FieldNames[i]}),
             At(held \cup N, "no"), At(held \cup V, "no"))
  <2> DEFINE M == held \cup N
  <2>1. (held \cup K) \cup {FieldNames[i]} = M
    BY <1>5
  <2>2. Backs(g, At(M, "no"), {FieldNames[i]}, c)
    <3>1. {FieldNames[i]} \in SUBSET (Names \ {"irFields"}) /\ {FieldNames[i]} \cap (held \cup K) = {}
      BY <1>10
    <3> QED
      BY <1>9, <2>1, <3>1, Strands
  <2>3. Closed(M, {}) /\ {FieldNames[i]} \in SUBSET (Names \ {"replaced"})
    BY <1>6, <1>8, <1>10
  <2>4. FieldValues[i] \in Names \ {"replaced"}
    BY <1>10
  <2>5. M \cup {FieldValues[i]} = held \cup V
    BY <1>5
  <2> HIDE DEF M
  <2>6. Leads(c, Step("get", FieldValues[i], g, {FieldNames[i]}), At(M, "no"),
              At(IF "get" \in {"get", "parse"} THEN M \cup {FieldValues[i]} ELSE M, "no"))
    BY <1>7, <2>2, <2>3, <2>4, LeadsStep
  <2> QED
    BY <2>5, <2>6 DEF M
<1>15. Leads(c, Throws("document", f, V), At(held \cup V, "no"), At(held \cup V, "no"))
  <2>1. Closed(held \cup V, {}) /\ V \in SUBSET (Names \ {"replaced", "irFields"}) /\ "document" \in held \cup V
    BY <1>3, <1>8
  <2> QED
    BY <1>6, <1>10, <2>1, LeadsThrows
<1>16. Leads(c, Throws("document", f, K) \o Get(FieldNames[i], g),
             At(held \cup K, "no"), At(held \cup N, "no"))
  BY <1>11, <1>12, LeadsJoins
<1>17. Leads(c, Throws("document", f, K) \o Get(FieldNames[i], g) \o Throws("document", f, N),
             At(held \cup K, "no"), At(held \cup N, "no"))
  BY <1>13, <1>16, LeadsJoins
<1>18. Leads(c, Throws("document", f, K) \o Get(FieldNames[i], g) \o Throws("document", f, N)
                \o Step("get", FieldValues[i], g, {FieldNames[i]}),
             At(held \cup K, "no"), At(held \cup V, "no"))
  BY <1>14, <1>17, LeadsJoins
<1>19. Leads(c, Throws("document", f, K) \o Get(FieldNames[i], g) \o Throws("document", f, N)
                \o Step("get", FieldValues[i], g, {FieldNames[i]}) \o Throws("document", f, V),
             At(held \cup K, "no"), At(held \cup V, "no"))
  BY <1>15, <1>18, LeadsJoins
<1>20. CopyField(i, f) =
         Throws("document", f, K) \o Get(FieldNames[i], g) \o Throws("document", f, N)
         \o Step("get", FieldValues[i], g, {FieldNames[i]}) \o Throws("document", f, V)
  BY DEF CopyField, K, N, V, g
<1> QED
  BY <1>19, <1>20 DEF K, V

\* The fields are copied out one after the other.
LEMMA CopiesExist ==
  ASSUME NEW f, \A i \in 1 .. Fields : CopyField(i, f) \in Seq(Doing)
  PROVE  \E g \in [0 .. Fields -> Seq(Doing)] : \A i \in 0 .. Fields :
           g[i] = IF i = 0 THEN <<>> ELSE g[i - 1] \o CopyField(i, f)
<1> DEFINE Copies(m, g) == \A i \in 0 .. m :
             g[i] = IF i = 0 THEN <<>> ELSE g[i - 1] \o CopyField(i, f)
           S == {m \in Nat : \E g \in [0 .. m -> Seq(Doing)] : Copies(m, g)}
<1>0. Fields \in Nat
  BY FieldFacts
<1>1. 0 \in S
  <2> DEFINE g == [i \in 0 .. 0 |-> <<>>]
  <2>1. g \in [0 .. 0 -> Seq(Doing)] /\ \A i \in 0 .. 0 : i = 0 /\ g[i] = <<>>
    OBVIOUS
  <2> HIDE DEF g
  <2>2. Copies(0, g)
    BY <2>1
  <2> QED
    BY <2>1, <2>2
<1>2. ASSUME NEW k \in 0 .. Fields - 1, k \in S
      PROVE  k + 1 \in S
  <2> DEFINE m == k + 1
  <2>1. k \in Nat /\ m \in Nat /\ m \in 1 .. Fields /\ m # 0 /\ m - 1 = k /\ k \in 0 .. k
    BY <1>0
  <2>2. PICK g \in [0 .. k -> Seq(Doing)] : Copies(k, g)
    BY <1>2
  <2> DEFINE last == g[k] \o CopyField(m, f)
             h == [i \in 0 .. m |-> IF i = m THEN last ELSE g[i]]
  <2>3. last \in Seq(Doing)
    <3>1. g[k] \in Seq(Doing) /\ CopyField(m, f) \in Seq(Doing)
      BY <2>1, <2>2
    <3> QED
      BY <3>1, ConcatProperties
  <2>4. \A i \in 0 .. m : i = m \/ (i \in 0 .. k /\ i # m)
    BY <2>1
  <2>5. h \in [0 .. m -> Seq(Doing)]
    <3> HIDE DEF last
    <3> QED
      BY <2>2, <2>3, <2>4
  <2>6. h[m] = last /\ \A i \in 0 .. k : h[i] = g[i]
    <3>1. \A i \in 0 .. k : i \in 0 .. m /\ i # m
      BY <2>1
    <3>2. m \in 0 .. m
      BY <2>1
    <3> HIDE DEF last
    <3> QED
      BY <3>1, <3>2
  <2> HIDE DEF h
  <2>7. Copies(m, h)
    <3> SUFFICES ASSUME NEW i \in 0 .. m
                 PROVE  h[i] = IF i = 0 THEN <<>> ELSE h[i - 1] \o CopyField(i, f)
      OBVIOUS
    <3>1. CASE i = m
      BY <2>1, <2>6, <3>1
    <3>2. CASE i # m
      <4>1. i \in 0 .. k
        BY <2>4, <3>2
      <4>2. h[i] = g[i] /\ (i # 0 => i - 1 \in 0 .. k)
        BY <2>1, <2>6, <4>1
      <4>3. g[i] = IF i = 0 THEN <<>> ELSE g[i - 1] \o CopyField(i, f)
        BY <2>2, <4>1
      <4> QED
        BY <2>6, <4>2, <4>3
    <3> QED
      BY <3>1, <3>2
  <2> HIDE DEF m, Copies
  <2>8. m \in S
    BY <2>1, <2>5, <2>7
  <2> QED
    BY <2>8 DEF m
<1>3. \A k \in 0 .. Fields : k \in S
  <2>1. 0 \in Nat
    OBVIOUS
  <2> HIDE DEF S
  <2>2. \A k \in 0 .. Fields - 1 : k \in S => k + 1 \in S
    BY <1>2
  <2> QED
    BY <1>0, <1>1, <2>1, <2>2, Climb
<1>4. Fields \in S
  <2>1. Fields \in 0 .. Fields
    BY <1>0
  <2> HIDE DEF S
  <2> QED
    BY <1>3, <2>1
<1> QED
  BY <1>4

\* form_list_fields; the null backend has no form
LEMMA ListLeads ==
  ASSUME NEW c, NEW b \in Backends, NEW f, NEW held \in SUBSET (Resources \ {"items"}),
         b = "mupdf" => "document" \in held, Back(f, held, "no", c)
  PROVE  Leads(c, ListFields(b, f), At(held, "no"), At(held \cup Kept(Fields), "no"))
<1>1. CASE b = "null"
  BY <1>1, LeadsBack DEF ListFields
<1>2. CASE b = "mupdf"
  <2> DEFINE n == Fields
             F(g) == [i \in 0 .. n |-> IF i = 0 THEN <<>> ELSE g[i - 1] \o CopyField(i, f)]
             copies == CHOOSE g : g = F(g)
             A(i) == At(held \cup Kept(i), "no")
             end == FreeFields(n) \o f
  <2>0. n \in Nat /\ "document" \in held
    BY <1>2, FieldFacts
  <2>1. ListFields(b, f) = Call("document", f) \o Step("take", "items", <<>>, {}) \o copies[n]
                           \o Call("items", end)
    BY <1>2, Zenon DEF ListFields, Fields
  <2>2. \A i \in 1 .. n : Leads(c, CopyField(i, f), A(i - 1), A(i))
    BY <2>0, CopyLeads
  <2>3. \A i \in 1 .. n : CopyField(i, f) \in Seq(Doing)
    BY <2>2 DEF Leads, Seg, Path
  <2>4. PICK g \in [0 .. n -> Seq(Doing)] : \A i \in 0 .. n :
          g[i] = IF i = 0 THEN <<>> ELSE g[i - 1] \o CopyField(i, f)
    BY <2>3, CopiesExist
  <2>5. g = F(g)
    BY <2>4
  <2>6. copies = F(copies)
    <3> HIDE DEF F
    <3> QED
      BY <2>5
  <2> HIDE DEF copies
  <2>7. \A i \in 0 .. n : copies[i] = IF i = 0 THEN <<>> ELSE copies[i - 1] \o CopyField(i, f)
    BY <2>6
  <2>8. "no" \in Moments /\ held \in SUBSET Names /\ Closed(held, {})
    BY BackFacts DEF Moments
  <2>9. /\ Kept(0) = {"items"} /\ Closed(held \cup {"items"}, {})
        /\ "items" \in Names \ {"replaced"} /\ "document" \in Names \ {"replaced"}
    <3>1. 0 \in 0 .. Fields /\ 1 .. 0 = {}
      BY <2>0
    <3>2. Kept(0) = {"items"}
      BY <3>1, KeptFacts
    <3>3. Needs("items") \subseteq held
      BY DEF Needs
    <3> QED
      BY <2>8, <3>2, <3>3, ClosedGrows DEF Names, Resources
  <2> DEFINE S == {i \in Nat : Leads(c, copies[i], A(0), A(i))}
  <2>10. 0 \in S
    <3>1. copies[0] = <<>>
      BY <2>0, <2>7
    <3>2. held \cup Kept(0) \in SUBSET Names
      BY <2>8, <2>9
    <3>3. Leads(c, <<>>, A(0), A(0))
      BY <2>8, <3>2, LeadsNone
    <3> QED
      BY <3>1, <3>3
  <2>11. ASSUME NEW k \in 0 .. n - 1, k \in S
         PROVE  k + 1 \in S
    <3>1. k + 1 \in 1 .. n /\ k + 1 \in 0 .. n /\ (k + 1) - 1 = k /\ k + 1 # 0 /\ k + 1 \in Nat
      BY <2>0
    <3>2. copies[k + 1] = copies[k] \o CopyField(k + 1, f)
      BY <2>7, <3>1
    <3> HIDE DEF A
    <3>3. Leads(c, copies[k], A(0), A(k)) /\ Leads(c, CopyField(k + 1, f), A(k), A(k + 1))
      BY <2>2, <2>11, <3>1
    <3>4. Leads(c, copies[k] \o CopyField(k + 1, f), A(0), A(k + 1))
      BY <3>3, LeadsJoins
    <3> QED
      BY <3>1, <3>2, <3>4
  <2>12. Leads(c, copies[n], A(0), A(n))
    <3>1. n \in 0 .. n /\ 0 \in Nat
      BY <2>0
    <3> HIDE DEF S
    <3>2. \A k \in 0 .. n - 1 : k \in S => k + 1 \in S
      BY <2>11
    <3>3. n \in S
      BY <2>0, <2>10, <3>1, <3>2, Climb
    <3> QED
      BY <3>3 DEF S
  <2>13. Leads(c, Call("document", f), At(held, "no"), At(held, "no"))
    BY <2>0, <2>9, LeadsCall
  <2>14. Leads(c, Step("take", "items", <<>>, {}), At(held, "no"), A(0))
    <3>1. Leads(c, Step("take", "items", <<>>, {}), At(held, "no"), At(held \cup {"items"}, "no"))
      BY <2>8, <2>9, LeadsTake
    <3> QED
      BY <2>9, <3>1
  <2>15. Leads(c, Call("items", end), A(n), A(n))
    <3>1. n \in 0 .. Fields /\ "items" \in Kept(n)
      BY <2>0, KeptFacts
    <3>2. Clear(c, FreeFields(n), A(n), At(held, "no"))
      BY <2>8, <3>1, FieldsClear
    <3>3. Back(end, held \cup Kept(n), "no", c)
      BY <3>2, BackJoins
    <3> HIDE DEF end
    <3> QED
      BY <2>9, <3>1, <3>3, LeadsCall
  <2> HIDE DEF A, end
  <2>16. Leads(c, Call("document", f) \o Step("take", "items", <<>>, {}), At(held, "no"), A(0))
    BY <2>13, <2>14, LeadsJoins
  <2>17. Leads(c, Call("document", f) \o Step("take", "items", <<>>, {}) \o copies[n],
               At(held, "no"), A(n))
    BY <2>12, <2>16, LeadsJoins
  <2>18. Leads(c, Call("document", f) \o Step("take", "items", <<>>, {}) \o copies[n]
                  \o Call("items", end), At(held, "no"), A(n))
    BY <2>15, <2>17, LeadsJoins
  <2> QED
    BY <2>1, <2>18 DEF A
<1> QED
  BY <1>1, <1>2 DEF Backends

\* form_list_free
LEMMA ListClears ==
  ASSUME NEW c, NEW b, NEW held \in SUBSET (Resources \ {"items"}), NEW o \in Moments,
         Closed(held, {})
  PROVE  Clear(c, ListFree(b), At(held \cup Kept(Fields), o), At(held, o))
<1>1. Fields \in 0 .. Fields
  BY FieldFacts
<1> QED
  BY <1>1, FieldsClear DEF ListFree, Fields

\* pc_doc_close frees the fields, loaded or not.
LEMMA FreeClears ==
  ASSUME NEW c, NEW held \in SUBSET Names, NEW o \in Moments, Closed(held, {})
  PROVE  Clear(c, Step("free", "irFields", <<>>, {}), At(held, o), At(held \ {"irFields"}, o))
<1> DEFINE s == [op |-> "free", on |-> "irFields", fail |-> <<>>, loses |-> {}]
           a == At(held, o)
           b == At(held \ {"irFields"}, o)
<1>1. Step("free", "irFields", <<>>, {}) = <<s>>
  BY DEF Step
<1>2. "irFields" \in Names \ {"replaced"}
  BY DEF Names, Resources
<1>3. s \in Clearing /\ s.op = "free" /\ s.on = "irFields"
  BY <1>2 DEF Clearing, Ons
<1> HIDE DEF s
<1>4. a \in Marks /\ a.live = held /\ a.out = o /\ o # "dead" /\ b \in Marks
  BY MarkFacts
<1>5. b = After(s, a)
  BY <1>3, <1>4 DEF After
<1> HIDE DEF a, b
<1>6. May(s, a, {}, c)
  BY <1>2, <1>3, <1>4 DEF May
<1>7. Path(<<s>>, a, b, Clearing, Clears({}, c))
  BY <1>3, <1>4, <1>5, <1>6, ClearOne
<1> QED
  BY <1>1, <1>7 DEF Clear, a, b

\* pc_doc_open
LEMMA IrOpenLeads ==
  ASSUME NEW c, NEW f, NEW held, Back(f, held, "no", c),
         held \cap {"nullDoc", "irBoxes", "irDoc"} = {}
  PROVE  Leads(c, IrOpen(f), At(held, "no"), At(held \cup {"irBoxes", "irDoc"}, "no"))
<1> DEFINE L1 == held \cup {"nullDoc"}
           L2 == held \cup {"nullDoc", "irBoxes"}
           L3 == held \cup {"irBoxes"}
           L4 == held \cup {"irBoxes", "irDoc"}
           f1 == Drop("nullDoc") \o f
           f2 == Drop("irBoxes") \o f
<1>1. /\ "nullDoc" \in Names \ {"replaced"} /\ "irBoxes" \in Names \ {"replaced"}
      /\ "irDoc" \in Names \ {"replaced"} /\ "nullDoc" \notin held /\ "irBoxes" \notin held
      /\ "nullDoc" \notin L3
      /\ \A L : Needs("nullDoc") \subseteq L /\ Needs("irBoxes") \subseteq L
  BY DEF Names, Resources, Needs
<1>2. /\ held \cup {"nullDoc"} = L1 /\ L1 \cup {"irBoxes"} = L2 /\ L3 \cup {"nullDoc"} = L2
      /\ held \cup {"irBoxes"} = L3 /\ L3 \cup {"irDoc"} = L4
  OBVIOUS
<1>3. "no" \in Moments /\ held \in SUBSET Names /\ Closed(held, {})
  BY BackFacts DEF Moments
<1> HIDE DEF L1, L2, L3, L4
<1>4. Back(f1, L1, "no", c) /\ Back(f2, L3, "no", c)
  BY <1>1, <1>2, BackDrop
<1> HIDE DEF f1, f2
<1>5. Closed(L3, {}) /\ L3 \in SUBSET Names
  BY <1>4, BackFacts
<1>6. Leads(c, Get("nullDoc", f), At(held, "no"), At(L1, "no"))
  BY <1>1, <1>2, LeadsGet
<1>7. Leads(c, Get("irBoxes", f1), At(L1, "no"), At(L2, "no"))
  BY <1>1, <1>2, <1>4, LeadsGet
<1>8. Leads(c, Drop("nullDoc"), At(L2, "no"), At(L3, "no"))
  BY <1>1, <1>2, <1>3, <1>5, LeadsDrop
<1>9. Leads(c, Get("irDoc", f2), At(L3, "no"), At(L4, "no"))
  BY <1>1, <1>2, <1>4, LeadsGet
<1>10. Leads(c, Get("nullDoc", f) \o Get("irBoxes", f1), At(held, "no"), At(L2, "no"))
  BY <1>6, <1>7, LeadsJoins
<1>11. Leads(c, Get("nullDoc", f) \o Get("irBoxes", f1) \o Drop("nullDoc"),
             At(held, "no"), At(L3, "no"))
  BY <1>8, <1>10, LeadsJoins
<1>12. Leads(c, Get("nullDoc", f) \o Get("irBoxes", f1) \o Drop("nullDoc") \o Get("irDoc", f2),
             At(held, "no"), At(L4, "no"))
  BY <1>9, <1>11, LeadsJoins
<1> QED
  BY <1>12 DEF IrOpen, L4, f1, f2

\* pc_doc_close
LEMMA IrCloseClears ==
  ASSUME NEW c, NEW held \in SUBSET Names, NEW o \in Moments, Closed(held, {}),
         held \cap {"irBoxes", "irDoc", "irFields"} = {}, NEW X \in SUBSET {"irFields"}
  PROVE  Clear(c, IrClose, At(held \cup {"irBoxes", "irDoc"} \cup X, o), At(held, o))
<1> DEFINE L0 == held \cup {"irBoxes", "irDoc"} \cup X
           L1 == held \cup {"irDoc"} \cup X
           L2 == held \cup {"irDoc"}
<1>1. /\ "irBoxes" \in Names \ {"replaced"} /\ "irDoc" \in Names \ {"replaced"}
      /\ "irFields" \in Names
      /\ Needs("irBoxes") = {} /\ Needs("irDoc") = {} /\ Needs("irFields") = {}
  BY DEF Names, Resources, Needs
<1>2. /\ L1 \cup {"irBoxes"} = L0 /\ L1 \ {"irFields"} = L2 /\ held \cup {"irDoc"} = L2
      /\ "irBoxes" \notin L1 /\ "irDoc" \notin held
  OBVIOUS
<1>3. L1 \in SUBSET Names /\ Closed(L1, {})
  BY <1>1 DEF Closed
<1> HIDE DEF L0, L1, L2
<1>4. Clear(c, Drop("irBoxes"), At(L0, o), At(L1, o))
  BY <1>1, <1>2, <1>3, ClearDrop
<1>5. Clear(c, Step("free", "irFields", <<>>, {}), At(L1, o), At(L2, o))
  BY <1>2, <1>3, FreeClears
<1>6. Clear(c, Drop("irDoc"), At(L2, o), At(held, o))
  BY <1>1, <1>2, ClearDrop
<1>7. Clear(c, Drop("irBoxes") \o Step("free", "irFields", <<>>, {}), At(L0, o), At(L2, o))
  BY <1>4, <1>5, ClearJoins
<1>8. Clear(c, Drop("irBoxes") \o Step("free", "irFields", <<>>, {}) \o Drop("irDoc"),
            At(L0, o), At(held, o))
  BY <1>6, <1>7, ClearJoins
<1> QED
  BY <1>8 DEF IrClose, L0

\* pc_form_ir_load_from_backend
LEMMA IrLoadLeads ==
  ASSUME NEW c, NEW b \in Backends, NEW f,
         NEW held \in SUBSET (Resources \ {"items", "irFields"}),
         b = "mupdf" => "document" \in held, Back(f, held, "no", c)
  PROVE  Leads(c, IrLoad(b, f), At(held, "no"), At(held \cup {"irFields"}, "no"))
<1> DEFINE K == Kept(Fields)
           more == held \cup {"irFields"}
           f1 == ListFree(b) \o f
           all == held \cup K \cup {"irFields"}
<1>1. /\ "irFields" \in Names \ {"replaced"} /\ Needs("irFields") \subseteq held
      /\ more \in SUBSET (Resources \ {"items"}) /\ held \in SUBSET (Resources \ {"items"})
  BY DEF Names, Resources, Needs
<1>2. "no" \in Moments /\ Closed(held, {})
  BY BackFacts DEF Moments
<1>3. Closed(more, {})
  BY <1>1, <1>2, ClosedGrows
<1>4. more \cup K = all /\ (held \cup K) \cup {"irFields"} = all
  OBVIOUS
<1> HIDE DEF K, more, all
<1>5. Leads(c, ListFields(b, f), At(held, "no"), At(held \cup K, "no"))
  BY <1>1, ListLeads DEF K
<1>6. Clear(c, ListFree(b), At(held \cup K, "no"), At(held, "no"))
  BY <1>1, <1>2, ListClears DEF K
<1>7. Back(f1, held \cup K, "no", c)
  BY <1>6, BackJoins
<1> HIDE DEF f1
<1>8. Leads(c, Get("irFields", f1), At(held \cup K, "no"), At(all, "no"))
  BY <1>1, <1>4, <1>7, LeadsGet
<1>9. Leads(c, ListFree(b), At(all, "no"), At(more, "no"))
  <2>1. Clear(c, ListFree(b), At(more \cup K, "no"), At(more, "no"))
    BY <1>1, <1>2, <1>3, ListClears DEF K
  <2> QED
    BY <1>4, <2>1, LeadsClear
<1>10. Leads(c, ListFields(b, f) \o Get("irFields", f1), At(held, "no"), At(all, "no"))
  BY <1>5, <1>8, LeadsJoins
<1>11. Leads(c, ListFields(b, f) \o Get("irFields", f1) \o ListFree(b),
             At(held, "no"), At(more, "no"))
  BY <1>9, <1>10, LeadsJoins
<1> QED
  BY <1>11 DEF IrLoad, f1, more

-----------------------------------------------------------------------------
(* The commands.                                                              *)

\* what is given back wherever the output is
Frees(c, p, held) == \A o \in Moments : Clear(c, p, At(held, o), At({}, o))

\* What is given back and an exit that is not 0.
LEMMA Gives ==
  ASSUME NEW c, NEW p, NEW held, Frees(c, p, held)
  PROVE  /\ BackAnywhere(p \o Exit(1), held, c)
         /\ Back(p \o Exit(1), held, "no", c) /\ Back(p \o Exit(2), held, "no", c)
<1>1. \A o \in Moments : Back(Exit(1), {}, o, c)
  BY BackExit
<1>2. BackAnywhere(p \o Exit(1), held, c)
  BY <1>1, BackJoins DEF BackAnywhere, Frees
<1>3. "no" \in Moments
  BY DEF Moments
<1>4. Back(Exit(2), {}, "no", c)
  BY <1>3, BackExit
<1> QED
  BY <1>2, <1>3, <1>4, BackJoins DEF BackAnywhere, Frees

\* More is given back before.
LEMMA FreesMore ==
  ASSUME NEW c, NEW p, NEW q, NEW held, NEW more, Frees(c, q, held),
         \A o \in Moments : Clear(c, p, At(more, o), At(held, o))
  PROVE  Frees(c, p \o q, more)
BY ClearJoins DEF Frees

\* A clean-up may begin with a resource that nothing else needs.
LEMMA FreesDrop ==
  ASSUME NEW c, NEW q, NEW held \in SUBSET Names, Closed(held, {}), Frees(c, q, held),
         NEW x \in Names \ {"replaced"}, x \notin held, Needs(x) \subseteq held
  PROVE  Frees(c, Drop(x) \o q, held \cup {x})
BY ClearDrop, FreesMore

\* The open document and the page are given back.
LEMMA ShutFrees ==
  ASSUME NEW c, NEW b \in Backends
  PROVE  Frees(c, DocClose(b), Opened(b)) /\ Frees(c, PageFree(b) \o DocClose(b), Paged(b))
<1>1. Frees(c, DocClose(b), Opened(b))
  BY CloseClears DEF Frees
<1>2. \A o \in Moments : Clear(c, PageFree(b), At(Paged(b), o), At(Opened(b), o))
  BY PageClears
<1> QED
  BY <1>1, <1>2, FreesMore

\* tynypdf-cli render
LEMMA RenderEnds ==
  ASSUME NEW c \in Commands
  PROVE  Leads(c, Render(c), At({}, "no"), Dead)
<1> DEFINE b == c.backend
           O == Opened(b)
           P == Paged(b)
           M == Paged(b) \cup {"samples"}
           close == DocClose(b)
           shut == PageFree(b) \o close
           w == Written(c)
           p1 == DocOpen(b, Exit(1))
           p2 == PageInRange(b, close \o Exit(2))
           p3 == PageGet(b, close \o Exit(1))
           p4 == PageRender(b, shut \o Exit(1))
           p5 == ToFile(c, TRUE, PixmapFree \o shut \o Exit(1))
<1>0. b \in Backends
  BY DEF Commands, Backends
<1>1. w \in Moments /\ "no" \in Moments /\ (w = "done" \/ c.out = "stdout")
  BY DEF Written, Moments
<1>2. Frees(c, close, O) /\ Frees(c, shut, P)
  BY <1>0, ShutFrees
<1>3. \A o \in Moments : Clear(c, PixmapFree, At(M, o), At(P, o))
  BY <1>0, PixmapClears
<1>4. "output" \notin M
  BY DEF Paged, Opened
<1> HIDE DEF O, P, M, shut, w, close
<1>5. Frees(c, PixmapFree \o shut, M)
  BY <1>2, <1>3, FreesMore
<1>6. Leads(c, p1, At({}, "no"), At(O, "no"))
  <2>1. Back(Exit(1), {}, "no", c)
    BY <1>1, BackExit
  <2> QED
    BY <1>0, <2>1, OpenLeads DEF O
<1>7. Leads(c, p2, At(O, "no"), At(O, "no"))
  BY <1>0, <1>2, Gives, InRangeLeads DEF O
<1>8. Leads(c, p3, At(O, "no"), At(P, "no"))
  BY <1>0, <1>2, Gives, PageLeads DEF O, P
<1>9. Leads(c, p4, At(P, "no"), At(M, "no"))
  BY <1>0, <1>2, Gives, RenderLeads DEF P, M
<1>10. Leads(c, p5, At(M, "no"), At(M, w))
  <2>1. BackAnywhere(PixmapFree \o shut \o Exit(1), M, c)
    BY <1>5, Gives
  <2> QED
    BY <1>4, <2>1, FileLeads DEF w
<1>11. Leads(c, PixmapFree, At(M, w), At(P, w)) /\ Leads(c, shut, At(P, w), At({}, w))
  BY <1>1, <1>2, <1>3, LeadsClear DEF Frees
<1>12. Leads(c, Exit(0), At({}, w), Dead)
  BY <1>1, LeadsExit
<1> HIDE DEF p1, p2, p3, p4, p5, b
<1>13. Leads(c, p1 \o p2, At({}, "no"), At(O, "no"))
  BY <1>6, <1>7, LeadsJoins
<1>14. Leads(c, p1 \o p2 \o p3, At({}, "no"), At(P, "no"))
  BY <1>8, <1>13, LeadsJoins
<1>15. Leads(c, p1 \o p2 \o p3 \o p4, At({}, "no"), At(M, "no"))
  BY <1>9, <1>14, LeadsJoins
<1>16. Leads(c, p1 \o p2 \o p3 \o p4 \o p5, At({}, "no"), At(M, w))
  BY <1>10, <1>15, LeadsJoins
<1>17. Leads(c, p1 \o p2 \o p3 \o p4 \o p5 \o PixmapFree, At({}, "no"), At(P, w))
  BY <1>11, <1>16, LeadsJoins
<1>18. Leads(c, p1 \o p2 \o p3 \o p4 \o p5 \o PixmapFree \o shut, At({}, "no"), At({}, w))
  BY <1>11, <1>17, LeadsJoins
<1>19. Leads(c, p1 \o p2 \o p3 \o p4 \o p5 \o PixmapFree \o shut \o Exit(0), At({}, "no"), Dead)
  BY <1>12, <1>18, LeadsJoins
<1>20. Render(c) = p1 \o p2 \o p3 \o p4 \o p5 \o PixmapFree \o shut \o Exit(0)
  BY DEF Render, p1, p2, p3, p4, p5, shut, close, b
<1> QED
  BY <1>19, <1>20

\* tynypdf-cli forms list
LEMMA ListEnds ==
  ASSUME NEW c \in Commands, c.out = "stdout"
  PROVE  Leads(c, List(c), At({}, "no"), Dead)
<1> DEFINE b == c.backend
           O == Opened(b)
           M == Opened(b) \cup Kept(Fields)
           close == DocClose(b)
           p1 == DocOpen(b, Exit(1))
           p2 == ListFields(b, close \o Exit(1))
           p3 == ListFree(b)
<1>0. b \in Backends /\ "no" \in Moments
  BY DEF Commands, Backends, Moments
<1>1. O \in SUBSET (Resources \ {"items"}) /\ (b = "mupdf" => "document" \in O) /\ Closed(O, {})
  BY <1>0, OpenedFacts DEF Opened, Resources
<1>2. Frees(c, close, O)
  BY <1>0, ShutFrees
<1> HIDE DEF O, M, close
<1>3. Leads(c, p1, At({}, "no"), At(O, "no"))
  <2>1. Back(Exit(1), {}, "no", c)
    BY <1>0, BackExit
  <2> QED
    BY <1>0, <2>1, OpenLeads DEF O
<1>4. Leads(c, p2, At(O, "no"), At(M, "no"))
  <2>1. Back(close \o Exit(1), O, "no", c)
    BY <1>2, Gives
  <2> QED
    BY <1>0, <1>1, <2>1, ListLeads DEF M, O
<1>5. Leads(c, p3, At(M, "no"), At(O, "no"))
  <2>1. Clear(c, p3, At(O \cup Kept(Fields), "no"), At(O, "no"))
    BY <1>0, <1>1, ListClears
  <2> QED
    BY <2>1, LeadsClear DEF M, O
<1>6. Leads(c, close, At(O, "no"), At({}, "no"))
  BY <1>0, <1>2, LeadsClear DEF Frees
<1>7. Leads(c, Exit(0), At({}, "no"), Dead)
  BY <1>0, LeadsExit
<1> HIDE DEF p1, p2, p3, b
<1>8. Leads(c, p1 \o p2, At({}, "no"), At(M, "no"))
  BY <1>3, <1>4, LeadsJoins
<1>9. Leads(c, p1 \o p2 \o p3, At({}, "no"), At(O, "no"))
  BY <1>5, <1>8, LeadsJoins
<1>10. Leads(c, p1 \o p2 \o p3 \o close, At({}, "no"), At({}, "no"))
  BY <1>6, <1>9, LeadsJoins
<1>11. Leads(c, p1 \o p2 \o p3 \o close \o Exit(0), At({}, "no"), Dead)
  BY <1>7, <1>10, LeadsJoins
<1> QED
  BY <1>11 DEF List, p1, p2, p3, close, b

\* what is held with a form loaded, and with a transaction over it
Formed(backend) == Opened(backend) \cup {"irBoxes", "irDoc"} \cup {"irFields"}
Started(backend) == Formed(backend) \cup {"txn"}

\* The document IR is given back before the document.
LEMMA FormFrees ==
  ASSUME NEW c \in Commands
  PROVE  /\ Frees(c, IrClose \o DocClose(c.backend), Opened(c.backend) \cup {"irBoxes", "irDoc"})
         /\ Frees(c, IrClose \o DocClose(c.backend), Formed(c.backend))
         /\ Frees(c, FormShut(c), Started(c.backend))
         /\ Started(c.backend) \in SUBSET Names /\ Closed(Started(c.backend), {})
         /\ c.backend \in Backends
<1> DEFINE b == c.backend
           O == Opened(b)
           I == Opened(b) \cup {"irBoxes", "irDoc"}
           F == Formed(b)
           T == Started(b)
           close == DocClose(b)
<1>0. b \in Backends
  BY DEF Commands, Backends
<1>1. /\ O \in SUBSET Names /\ Closed(O, {}) /\ O \cap {"irBoxes", "irDoc", "irFields", "txn"} = {}
  BY <1>0, OpenedFacts DEF Opened
<1>2. Frees(c, close, O)
  BY <1>0, ShutFrees
<1>3. /\ F \in SUBSET Names /\ "txn" \in Names \ {"replaced"} /\ "txn" \notin F
      /\ Needs("txn") \subseteq F
  BY <1>1 DEF Formed, Names, Resources, Needs
<1>4. I \cup {} = I /\ I \cup {"irFields"} = F /\ F \cup {"txn"} = T
  BY DEF Formed, Started
<1>5. Closed(F, {})
  BY <1>1 DEF Formed, Closed, Needs
<1>6. Closed(T, {}) /\ T \in SUBSET Names
  BY <1>3, <1>4, <1>5, ClosedGrows
<1> HIDE DEF O, F, T, close
<1>7. ASSUME NEW X \in SUBSET {"irFields"}, NEW o \in Moments
      PROVE  Clear(c, IrClose, At(O \cup {"irBoxes", "irDoc"} \cup X, o), At(O, o))
  BY <1>1, IrCloseClears
<1>8. \A o \in Moments : /\ Clear(c, IrClose, At(I, o), At(O, o))
                         /\ Clear(c, IrClose, At(F, o), At(O, o))
  <2>1. {} \in SUBSET {"irFields"} /\ {"irFields"} \in SUBSET {"irFields"}
    OBVIOUS
  <2>2. I = O \cup {"irBoxes", "irDoc"}
    BY DEF O
  <2> HIDE DEF I
  <2> QED
    BY <1>4, <1>7, <2>1, <2>2
<1> HIDE DEF I
<1>9. Frees(c, IrClose \o close, I) /\ Frees(c, IrClose \o close, F)
  BY <1>2, <1>8, FreesMore
<1>10. Frees(c, FormShut(c), T)
  <2>1. \A o \in Moments : Clear(c, Drop("txn"), At(T, o), At(F, o))
    BY <1>3, <1>4, <1>5, ClearDrop
  <2>2. \A o \in Moments : Clear(c, Drop("txn") \o IrClose, At(T, o), At(O, o))
    BY <1>8, <2>1, ClearJoins
  <2>3. Frees(c, Drop("txn") \o IrClose \o close, T)
    BY <1>2, <2>2, FreesMore
  <2> QED
    BY <2>3 DEF FormShut, close
<1> QED
  BY <1>0, <1>6, <1>9, <1>10 DEF I, F, T, close

\* flatten and fill begin alike
LEMMA FormLeads ==
  ASSUME NEW c \in Commands
  PROVE  Leads(c, FormOpen(c), At({}, "no"), At(Started(c.backend), "no"))
<1> DEFINE b == c.backend
           O == Opened(b)
           I == Opened(b) \cup {"irBoxes", "irDoc"}
           F == Formed(b)
           T == Started(b)
           close == DocClose(b)
           shut == IrClose \o close
           p1 == DocOpen(b, Exit(1))
           p2 == IrOpen(close \o Exit(1))
           p3 == IrLoad(b, shut \o Exit(1))
           p4 == Get("txn", shut \o Exit(1))
<1>0. b \in Backends /\ "no" \in Moments
  BY DEF Commands, Backends, Moments
<1>1. Frees(c, close, O) /\ Frees(c, shut, I) /\ Frees(c, shut, F)
  BY <1>0, ShutFrees, FormFrees
<1>2. /\ O \cap {"nullDoc", "irBoxes", "irDoc"} = {}
      /\ I \in SUBSET (Resources \ {"items", "irFields"})
      /\ (b = "mupdf" => "document" \in I) /\ "txn" \in Names \ {"replaced"}
      /\ I \cup {"irFields"} = F /\ F \cup {"txn"} = T /\ O \cup {"irBoxes", "irDoc"} = I
  BY <1>0 DEF Opened, Formed, Started, Names, Resources
<1> HIDE DEF O, I, F, T, close, shut
<1>3. Leads(c, p1, At({}, "no"), At(O, "no"))
  <2>1. Back(Exit(1), {}, "no", c)
    BY <1>0, BackExit
  <2> QED
    BY <1>0, <2>1, OpenLeads DEF O
<1>4. Leads(c, p2, At(O, "no"), At(I, "no"))
  <2>1. Back(close \o Exit(1), O, "no", c)
    BY <1>1, Gives
  <2> QED
    BY <1>2, <2>1, IrOpenLeads
<1>5. Leads(c, p3, At(I, "no"), At(F, "no"))
  <2>1. Back(shut \o Exit(1), I, "no", c)
    BY <1>1, Gives
  <2> QED
    BY <1>0, <1>2, <2>1, IrLoadLeads
<1>6. Leads(c, p4, At(F, "no"), At(T, "no"))
  <2>1. Back(shut \o Exit(1), F, "no", c)
    BY <1>1, Gives
  <2> QED
    BY <1>2, <2>1, LeadsGet
<1> HIDE DEF p1, p2, p3, p4, b
<1>7. Leads(c, p1 \o p2, At({}, "no"), At(I, "no"))
  BY <1>3, <1>4, LeadsJoins
<1>8. Leads(c, p1 \o p2 \o p3, At({}, "no"), At(F, "no"))
  BY <1>5, <1>7, LeadsJoins
<1>9. Leads(c, p1 \o p2 \o p3 \o p4, At({}, "no"), At(T, "no"))
  BY <1>6, <1>8, LeadsJoins
<1> QED
  BY <1>9 DEF FormOpen, p1, p2, p3, p4, shut, close, b, T

\* tynypdf-cli forms flatten
LEMMA FlattenEnds ==
  ASSUME NEW c \in Commands
  PROVE  Leads(c, FlattenForm(c), At({}, "no"), Dead)
<1> DEFINE b == c.backend
           T == Started(b)
           shut == FormShut(c)
           f == shut \o Exit(1)
           p1 == FormOpen(c)
           p2 == Flatten(b, f)
           p3 == Call("txn", f)
<1>0. "no" \in Moments /\ "done" \in Moments /\ b \in Backends /\ Frees(c, shut, T)
  BY FormFrees DEF Moments
<1>1. /\ "output" \notin T /\ (b = "mupdf" => "document" \in T) /\ "txn" \in T
      /\ "txn" \in Names \ {"replaced"}
  BY <1>0 DEF Started, Formed, Opened, Names, Resources
<1> HIDE DEF T, shut
<1>2. BackAnywhere(f, T, c)
  BY <1>0, Gives
<1> HIDE DEF f
<1>3. Leads(c, p1, At({}, "no"), At(T, "no"))
  BY FormLeads DEF T
<1>4. Leads(c, p2, At(T, "no"), At(T, "done"))
  BY <1>0, <1>1, <1>2, FlattenLeads
<1>5. Leads(c, p3, At(T, "done"), At(T, "done"))
  <2>1. Back(f, T, "done", c)
    BY <1>0, <1>2 DEF BackAnywhere
  <2> QED
    BY <1>1, <2>1, LeadsCall
<1>6. Leads(c, shut, At(T, "done"), At({}, "done"))
  BY <1>0, LeadsClear DEF Frees
<1>7. Leads(c, Exit(0), At({}, "done"), Dead)
  BY <1>0, LeadsExit
<1> HIDE DEF p1, p2, p3, b
<1>8. Leads(c, p1 \o p2, At({}, "no"), At(T, "done"))
  BY <1>3, <1>4, LeadsJoins
<1>9. Leads(c, p1 \o p2 \o p3, At({}, "no"), At(T, "done"))
  BY <1>5, <1>8, LeadsJoins
<1>10. Leads(c, p1 \o p2 \o p3 \o shut, At({}, "no"), At({}, "done"))
  BY <1>6, <1>9, LeadsJoins
<1>11. Leads(c, p1 \o p2 \o p3 \o shut \o Exit(0), At({}, "no"), Dead)
  BY <1>7, <1>10, LeadsJoins
<1> QED
  BY <1>11 DEF FlattenForm, p1, p2, p3, shut, f, b

\* tynypdf-cli forms fill
LEMMA FillEnds ==
  ASSUME NEW c \in Commands
  PROVE  Leads(c, Fill(c), At({}, "no"), Dead)
<1> DEFINE T == Started(c.backend)
           M == Started(c.backend) \cup {"fdf"}
           w == Written(c)
           shut == FormShut(c)
           f == shut \o Exit(1)
           p1 == FormOpen(c)
           p2 == Call("txn", f)
           p3 == Get("fdf", f)
           p4 == ToFile(c, FALSE, Drop("fdf") \o f)
<1>0. /\ c.backend \in Backends /\ Frees(c, shut, T) /\ T \in SUBSET Names /\ Closed(T, {})
  BY FormFrees
<1>1. /\ "fdf" \notin T /\ "txn" \in T /\ "output" \notin M /\ T \cup {"fdf"} = M
      /\ "txn" \in Names \ {"replaced"} /\ "fdf" \in Names \ {"replaced"}
      /\ Needs("fdf") \subseteq T
  BY <1>0 DEF Started, Formed, Opened, Names, Resources, Needs
<1>2. w \in Moments /\ "no" \in Moments /\ (w = "done" \/ c.out = "stdout")
  BY DEF Written, Moments
<1> HIDE DEF T, M, shut, w
<1>3. BackAnywhere(f, T, c)
  BY <1>0, Gives
<1> HIDE DEF f
<1>4. Leads(c, p1, At({}, "no"), At(T, "no"))
  BY FormLeads DEF T
<1>5. Back(f, T, "no", c)
  BY <1>2, <1>3 DEF BackAnywhere
<1>6. Leads(c, p2, At(T, "no"), At(T, "no")) /\ Leads(c, p3, At(T, "no"), At(M, "no"))
  BY <1>1, <1>5, LeadsCall, LeadsGet
<1>7. Leads(c, p4, At(M, "no"), At(M, w))
  <2>1. BackAnywhere(Drop("fdf") \o f, M, c)
    BY <1>1, <1>3, BackDrop DEF BackAnywhere
  <2> QED
    BY <1>1, <2>1, FileLeads DEF w
<1>8. Leads(c, Drop("fdf"), At(M, w), At(T, w))
  BY <1>0, <1>1, <1>2, LeadsDrop
<1>9. Leads(c, shut, At(T, w), At({}, w)) /\ Leads(c, Exit(0), At({}, w), Dead)
  BY <1>0, <1>2, LeadsClear, LeadsExit DEF Frees
<1> HIDE DEF p1, p2, p3, p4
<1>10. Leads(c, p1 \o p2, At({}, "no"), At(T, "no"))
  BY <1>4, <1>6, LeadsJoins
<1>11. Leads(c, p1 \o p2 \o p3, At({}, "no"), At(M, "no"))
  BY <1>6, <1>10, LeadsJoins
<1>12. Leads(c, p1 \o p2 \o p3 \o p4, At({}, "no"), At(M, w))
  BY <1>7, <1>11, LeadsJoins
<1>13. Leads(c, p1 \o p2 \o p3 \o p4 \o Drop("fdf"), At({}, "no"), At(T, w))
  BY <1>8, <1>12, LeadsJoins
<1>14. Leads(c, p1 \o p2 \o p3 \o p4 \o Drop("fdf") \o shut, At({}, "no"), At({}, w))
  BY <1>9, <1>13, LeadsJoins
<1>15. Leads(c, p1 \o p2 \o p3 \o p4 \o Drop("fdf") \o shut \o Exit(0), At({}, "no"), Dead)
  BY <1>9, <1>14, LeadsJoins
<1> QED
  BY <1>15 DEF Fill, p1, p2, p3, p4, shut, f

\* viewer_on_click
LEMMA ClickEnds ==
  ASSUME NEW c \in Commands, c.out = "stdout"
  PROVE  Leads(c, Click(c), At({}, "no"), Dead)
<1> DEFINE b == c.backend
           O == Opened(b)
           P == Paged(b)
           M == Paged(b) \cup {"utf8", "boxes"}
           close == DocClose(b)
           f == close \o Exit(1)
           freed == PageFree(b) \o f
           p1 == DocOpen(b, Exit(1))
           p2 == PageBox(b, f)
           p3 == PageGet(b, f)
           p4 == TextLayout(b, freed)
<1>0. b \in Backends /\ "no" \in Moments
  BY DEF Commands, Backends, Moments
<1>1. Frees(c, close, O)
  BY <1>0, ShutFrees
<1>2. /\ Clear(c, PageFree(b), At(P, "no"), At(O, "no"))
      /\ Clear(c, TextLayoutFree, At(M, "no"), At(P, "no"))
  BY <1>0, PageClears, TextClears
<1> HIDE DEF O, P, M, close
<1>3. Back(f, O, "no", c)
  BY <1>1, Gives
<1>4. Back(freed, P, "no", c)
  BY <1>2, <1>3, BackJoins
<1> HIDE DEF f, freed
<1>5. Leads(c, p1, At({}, "no"), At(O, "no"))
  <2>1. Back(Exit(1), {}, "no", c)
    BY <1>0, BackExit
  <2> QED
    BY <1>0, <2>1, OpenLeads DEF O
<1>6. Leads(c, p2, At(O, "no"), At(O, "no")) /\ Leads(c, p3, At(O, "no"), At(P, "no"))
  BY <1>0, <1>3, BoxLeads, PageLeads DEF O, P
<1>7. Leads(c, p4, At(P, "no"), At(M, "no"))
  BY <1>0, <1>4, TextLeads DEF P, M
<1>8. /\ Leads(c, TextLayoutFree, At(M, "no"), At(P, "no"))
      /\ Leads(c, PageFree(b), At(P, "no"), At(O, "no"))
      /\ Leads(c, close, At(O, "no"), At({}, "no"))
  BY <1>0, <1>1, <1>2, LeadsClear DEF Frees
<1>9. Leads(c, Exit(0), At({}, "no"), Dead)
  BY <1>0, LeadsExit
<1> HIDE DEF p1, p2, p3, p4, b
<1>10. Leads(c, p1 \o p2, At({}, "no"), At(O, "no"))
  BY <1>5, <1>6, LeadsJoins
<1>11. Leads(c, p1 \o p2 \o p3, At({}, "no"), At(P, "no"))
  BY <1>6, <1>10, LeadsJoins
<1>12. Leads(c, p1 \o p2 \o p3 \o p4, At({}, "no"), At(M, "no"))
  BY <1>7, <1>11, LeadsJoins
<1>13. Leads(c, p1 \o p2 \o p3 \o p4 \o TextLayoutFree, At({}, "no"), At(P, "no"))
  BY <1>8, <1>12, LeadsJoins
<1>14. Leads(c, p1 \o p2 \o p3 \o p4 \o TextLayoutFree \o PageFree(b), At({}, "no"), At(O, "no"))
  BY <1>8, <1>13, LeadsJoins
<1>15. Leads(c, p1 \o p2 \o p3 \o p4 \o TextLayoutFree \o PageFree(b) \o close,
             At({}, "no"), At({}, "no"))
  BY <1>8, <1>14, LeadsJoins
<1>16. Leads(c, p1 \o p2 \o p3 \o p4 \o TextLayoutFree \o PageFree(b) \o close \o Exit(0),
             At({}, "no"), Dead)
  BY <1>9, <1>15, LeadsJoins
<1> QED
  BY <1>16 DEF Click, p1, p2, p3, p4, freed, f, close, b

\* tynypdf-cli txn replay
LEMMA ReplayEnds ==
  ASSUME NEW c \in Commands
  PROVE  Leads(c, Replay(c), At({}, "no"), Dead)
<1> DEFINE G == {"log"}
           GJ == {"log", "json"}
           J == {"json"}
           D == {"irBoxes", "irDoc"}
           I == {"json", "irBoxes", "irDoc"}
           R == {"json", "irBoxes", "irDoc", "root"}
           T == {"json", "irBoxes", "irDoc", "root", "txn"}
           U == {"json", "irBoxes", "irDoc", "txn"}
           V == {"irBoxes", "irDoc", "txn"}
           W == {"irBoxes", "irDoc", "txn", "outJson"}
           X == {"irBoxes", "irDoc", "outJson"}
           Y == {"outJson"}
           w == Written(c)
           shut == IrClose \o Exit(1)
           noFile == Drop("json") \o Exit(1)
           noLog == Drop("json") \o shut
           p1 == Get("log", Exit(1))
           p2 == Get("json", Drop("log") \o Exit(1))
           p3 == Call("json", noFile)
           p4 == IrOpen(noFile)
           p5 == Step("parse", "root", noLog, {})
           p6 == Get("txn", Drop("root") \o noLog)
           p7 == Call("txn", Drop("txn") \o Drop("root") \o noLog)
           p8 == Get("outJson", Drop("txn") \o shut)
           p9 == ToFile(c, TRUE, Drop("outJson") \o Exit(1))
<1>1. /\ "log" \in Names \ {"replaced"} /\ "json" \in Names \ {"replaced"}
      /\ "root" \in Names \ {"replaced"} /\ "txn" \in Names \ {"replaced"}
      /\ "outJson" \in Names \ {"replaced"}
  BY DEF Names, Resources
<1>2. /\ \A L : /\ Needs("log") \subseteq L /\ Needs("json") \subseteq L
                /\ Needs("root") \subseteq L /\ Needs("outJson") \subseteq L
      /\ Needs("txn") \subseteq D /\ Needs("txn") \subseteq R /\ Needs("txn") \subseteq I
      /\ Needs("txn") \subseteq X
  BY DEF Needs
<1>3. /\ {} \cup {"log"} = G /\ G \cup {"json"} = GJ /\ J \cup {"log"} = GJ
      /\ {} \cup {"json"} = J /\ J \cup {"irBoxes", "irDoc"} = I /\ D \cup {"json"} = I
      /\ I \cup {"root"} = R /\ R \cup {"txn"} = T /\ U \cup {"root"} = T /\ V \cup {"json"} = U
      /\ V \cup {"outJson"} = W /\ X \cup {"txn"} = W /\ {} \cup {"outJson"} = Y
      /\ D \cup {"txn"} = V /\ I \cup {"txn"} = U
      /\ {} \cup {"irBoxes", "irDoc"} \cup {} = D /\ Y \cup {"irBoxes", "irDoc"} \cup {} = X
  OBVIOUS
<1>4. /\ "log" \notin J /\ "json" \notin D /\ "root" \notin I /\ "txn" \notin R
      /\ "root" \notin U /\ "json" \notin V /\ "txn" \notin X /\ "txn" \notin D
      /\ "json" \in J /\ "txn" \in T /\ "output" \notin Y
      /\ J \cap {"nullDoc", "irBoxes", "irDoc"} = {}
      /\ Y \cap {"irBoxes", "irDoc", "irFields"} = {}
  OBVIOUS
<1>5. /\ J \in SUBSET Names /\ Closed(J, {}) /\ U \in SUBSET Names /\ Closed(U, {})
      /\ V \in SUBSET Names /\ Closed(V, {}) /\ X \in SUBSET Names /\ Closed(X, {})
      /\ Y \in SUBSET Names /\ Closed(Y, {}) /\ {} \in SUBSET Names /\ Closed({}, {})
      /\ R \in SUBSET Names /\ Closed(R, {}) /\ I \in SUBSET Names /\ Closed(I, {})
  BY DEF Names, Resources, Closed, Needs
<1>6. w \in Moments /\ "no" \in Moments /\ (w = "done" \/ c.out = "stdout")
  BY DEF Written, Moments
<1> HIDE DEF G, GJ, J, D, I, R, T, U, V, W, X, Y, w
<1>7. \A o \in Moments : /\ Clear(c, IrClose, At(D, o), At({}, o))
                         /\ Clear(c, IrClose, At(X, o), At(Y, o))
  <2>1. {} \in SUBSET {"irFields"} /\ {} \cap {"irBoxes", "irDoc", "irFields"} = {}
    OBVIOUS
  <2> QED
    BY <1>3, <1>4, <1>5, <2>1, IrCloseClears
<1>8. Back(Exit(1), {}, "no", c)
  BY <1>6, BackExit
<1>9. Back(shut, D, "no", c)
  BY <1>6, <1>7, <1>8, BackJoins
<1>10. Back(noFile, J, "no", c) /\ Back(Drop("log") \o Exit(1), G, "no", c)
  <2>1. "json" \notin {} /\ "log" \notin {}
    OBVIOUS
  <2> QED
    BY <1>1, <1>2, <1>3, <1>8, <2>1, BackDrop
<1> HIDE DEF shut, noFile
<1>11. Back(noLog, I, "no", c) /\ Back(Drop("txn") \o shut, V, "no", c)
  BY <1>1, <1>2, <1>3, <1>4, <1>9, BackDrop
<1> HIDE DEF noLog
<1>12. Back(Drop("root") \o noLog, R, "no", c)
  BY <1>1, <1>2, <1>3, <1>4, <1>11, BackDrop
<1>13. Back(Drop("txn") \o Drop("root") \o noLog, T, "no", c)
  <2>1. Clear(c, Drop("txn"), At(T, "no"), At(R, "no"))
    BY <1>1, <1>2, <1>3, <1>4, <1>5, <1>6, ClearDrop
  <2>2. Clear(c, Drop("root"), At(R, "no"), At(I, "no"))
    BY <1>1, <1>2, <1>3, <1>4, <1>5, <1>6, ClearDrop
  <2>3. Clear(c, Drop("txn") \o Drop("root"), At(T, "no"), At(I, "no"))
    BY <2>1, <2>2, ClearJoins
  <2> QED
    BY <1>11, <2>3, BackJoins
<1>14. /\ Leads(c, p1, At({}, "no"), At(G, "no")) /\ Leads(c, p2, At(G, "no"), At(GJ, "no"))
  BY <1>1, <1>3, <1>8, <1>10, LeadsGet
<1>15. Leads(c, Drop("log"), At(GJ, "no"), At(J, "no"))
  BY <1>1, <1>2, <1>3, <1>4, <1>5, <1>6, LeadsDrop
<1>16. Leads(c, p3, At(J, "no"), At(J, "no"))
  BY <1>1, <1>4, <1>10, LeadsCall
<1>17. Leads(c, p4, At(J, "no"), At(I, "no"))
  BY <1>3, <1>4, <1>10, IrOpenLeads
<1>18. Leads(c, p5, At(I, "no"), At(R, "no"))
  BY <1>3, <1>11, LeadsParse
<1>19. Leads(c, p6, At(R, "no"), At(T, "no"))
  BY <1>1, <1>3, <1>12, LeadsGet
<1>20. Leads(c, p7, At(T, "no"), At(T, "no"))
  BY <1>1, <1>4, <1>13, LeadsCall
<1>21. Leads(c, Drop("root"), At(T, "no"), At(U, "no"))
  BY <1>1, <1>2, <1>3, <1>4, <1>5, <1>6, LeadsDrop
<1>22. Leads(c, Drop("json"), At(U, "no"), At(V, "no"))
  BY <1>1, <1>2, <1>3, <1>4, <1>5, <1>6, LeadsDrop
<1>23. Leads(c, p8, At(V, "no"), At(W, "no"))
  BY <1>1, <1>3, <1>11, LeadsGet
<1>24. Leads(c, Drop("txn"), At(W, "no"), At(X, "no"))
  BY <1>1, <1>2, <1>3, <1>4, <1>5, <1>6, LeadsDrop
<1>25. Leads(c, IrClose, At(X, "no"), At(Y, "no"))
  BY <1>6, <1>7, LeadsClear
<1>26. Leads(c, p9, At(Y, "no"), At(Y, w))
  <2>1. "outJson" \notin {}
    OBVIOUS
  <2>2. \A o \in Moments : Back(Exit(1), {}, o, c)
    BY BackExit
  <2>3. BackAnywhere(Drop("outJson") \o Exit(1), Y, c)
    BY <1>1, <1>2, <1>3, <2>1, <2>2, BackDrop DEF BackAnywhere
  <2> QED
    BY <1>4, <2>3, FileLeads DEF w
<1>27. Leads(c, Drop("outJson"), At(Y, w), At({}, w))
  <2>1. "outJson" \notin {}
    OBVIOUS
  <2> QED
    BY <1>1, <1>2, <1>3, <1>5, <1>6, <2>1, LeadsDrop
<1>28. Leads(c, Exit(0), At({}, w), Dead)
  BY <1>6, LeadsExit
<1> HIDE DEF p1, p2, p3, p4, p5, p6, p7, p8, p9
<1>29. Leads(c, p1 \o p2, At({}, "no"), At(GJ, "no"))
  BY <1>14, LeadsJoins
<1>30. Leads(c, p1 \o p2 \o Drop("log"), At({}, "no"), At(J, "no"))
  BY <1>15, <1>29, LeadsJoins
<1>31. Leads(c, p1 \o p2 \o Drop("log") \o p3, At({}, "no"), At(J, "no"))
  BY <1>16, <1>30, LeadsJoins
<1>32. Leads(c, p1 \o p2 \o Drop("log") \o p3 \o p4, At({}, "no"), At(I, "no"))
  BY <1>17, <1>31, LeadsJoins
<1>33. Leads(c, p1 \o p2 \o Drop("log") \o p3 \o p4 \o p5, At({}, "no"), At(R, "no"))
  BY <1>18, <1>32, LeadsJoins
<1> DEFINE q == p1 \o p2 \o Drop("log") \o p3 \o p4 \o p5
<1>34. Leads(c, q, At({}, "no"), At(R, "no"))
  BY <1>33
<1> HIDE DEF q
<1>35. Leads(c, q \o p6, At({}, "no"), At(T, "no"))
  BY <1>19, <1>34, LeadsJoins
<1>36. Leads(c, q \o p6 \o p7, At({}, "no"), At(T, "no"))
  BY <1>20, <1>35, LeadsJoins
<1>37. Leads(c, q \o p6 \o p7 \o Drop("root"), At({}, "no"), At(U, "no"))
  BY <1>21, <1>36, LeadsJoins
<1>38. Leads(c, q \o p6 \o p7 \o Drop("root") \o Drop("json"), At({}, "no"), At(V, "no"))
  BY <1>22, <1>37, LeadsJoins
<1> DEFINE r == q \o p6 \o p7 \o Drop("root") \o Drop("json")
<1>39. Leads(c, r, At({}, "no"), At(V, "no"))
  BY <1>38
<1> HIDE DEF r
<1>40. Leads(c, r \o p8, At({}, "no"), At(W, "no"))
  BY <1>23, <1>39, LeadsJoins
<1>41. Leads(c, r \o p8 \o Drop("txn"), At({}, "no"), At(X, "no"))
  BY <1>24, <1>40, LeadsJoins
<1>42. Leads(c, r \o p8 \o Drop("txn") \o IrClose, At({}, "no"), At(Y, "no"))
  BY <1>25, <1>41, LeadsJoins
<1>43. Leads(c, r \o p8 \o Drop("txn") \o IrClose \o p9, At({}, "no"), At(Y, w))
  BY <1>26, <1>42, LeadsJoins
<1>44. Leads(c, r \o p8 \o Drop("txn") \o IrClose \o p9 \o Drop("outJson"),
             At({}, "no"), At({}, w))
  BY <1>27, <1>43, LeadsJoins
<1>45. Leads(c, r \o p8 \o Drop("txn") \o IrClose \o p9 \o Drop("outJson") \o Exit(0),
             At({}, "no"), Dead)
  BY <1>28, <1>44, LeadsJoins
<1>46. Replay(c) = r \o p8 \o Drop("txn") \o IrClose \o p9 \o Drop("outJson") \o Exit(0)
  BY DEF Replay, r, q, p1, p2, p3, p4, p5, p6, p7, p8, p9, noLog, noFile, shut
<1> QED
  BY <1>45, <1>46

\* Every command leads from nothing held to its exit.
LEMMA EveryCommandEnds ==
  ASSUME NEW c \in Commands, Legal(c)
  PROVE  Seg(c, Program(c), At({}, "no"), Dead)
<1>1. c.name \in {"render", "list", "fill", "flatten", "replay", "click"}
  BY DEF Commands
<1>2. c.name \in {"list", "click"} => c.out = "stdout"
  BY DEF Legal
<1>3. Leads(c, Program(c), At({}, "no"), Dead)
  <2>1. CASE c.name = "render"
    BY <2>1, RenderEnds DEF Program
  <2>2. CASE c.name = "list"
    BY <1>2, <2>2, ListEnds DEF Program
  <2>3. CASE c.name = "fill"
    BY <2>3, FillEnds DEF Program
  <2>4. CASE c.name = "flatten"
    BY <2>4, FlattenEnds DEF Program
  <2>5. CASE c.name = "replay"
    BY <2>5, ReplayEnds DEF Program
  <2>6. CASE c.name = "click"
    BY <1>2, <2>6, ClickEnds DEF Program
  <2> QED
    BY <1>1, <2>1, <2>2, <2>3, <2>4, <2>5, <2>6
<1> QED
  BY <1>3 DEF Leads

-----------------------------------------------------------------------------
(* A run of a program.                                                        *)

Untouched == [f \in Outputs |-> IF f = "input" THEN "pdf" ELSE "none"]

\* the nodes of a member that was replaced follow no path
Held == live \ {"replaced"}
Lost == stranded \ {"replaced"}

\* the files are as far as the mark says
Told(o) == /\ o = "no" => files = Untouched
           /\ o = "done" => files[cmd.out] = "whole" \/ unnoticed

\* on the way through the command nothing is lost yet; on a way back just what
\* is stranded will be left
Ahead(o) == \/ Lost = {} /\ Seg(cmd, todo, At(Held, o), Dead)
            \/ Backs(todo, At(Held, o), Lost, cmd)

EngineInv ==
  /\ cmd \in Commands
  /\ files \in [Outputs -> {"none", "pdf", "partial", "whole"}] /\ unnoticed \in BOOLEAN
  /\ live \in SUBSET Names /\ stranded \in SUBSET Names
  /\ "replaced" \in live <=> "replaced" \in stranded
  /\ cmd.out # "input" => files["input"] = "pdf"
  /\ exit = -1 => \E o \in Moments : Told(o) /\ Ahead(o)
  /\ exit # -1 => /\ live = stranded
                  /\ exit = 0 => cmd.out = "stdout" \/ files[cmd.out] = "whole" \/ unnoticed
                  /\ exit = 2 => files = Untouched

\* The next step of a run, what it may do and what remains after it.
LEMMA NextStep ==
  ASSUME EngineInv, NEW o \in Moments, Ahead(o)
  PROVE  /\ At(Held, o) \in Marks /\ May(Now, At(Held, o), Lost, cmd)
         /\ Now.op = "exit" \/ After(Now, At(Held, o)).out # "dead"
         /\ \/ /\ Lost = {} /\ Now \in Doing
               /\ Seg(cmd, Tail(todo), After(Now, At(Held, o)), Dead)
               /\ Now.op \in {"get", "call", "create", "write", "parse"} =>
                    Backs(Now.fail, At(Held, o), Now.loses, cmd)
            \/ /\ Now \in Clearing
               /\ Backs(Tail(todo), After(Now, At(Held, o)), Lost, cmd)
<1> DEFINE a == At(Held, o)
           s == Now
<1>1. Held \in SUBSET Names
  BY DEF EngineInv, Held
<1>2. a \in Marks /\ a # Dead /\ a.live = Held /\ a.out = o /\ o # "dead"
  BY <1>1, MarkFacts
<1> HIDE DEF a
<1>3. CASE Lost = {} /\ Seg(cmd, todo, a, Dead)
  <2>1. todo # <<>>
    BY <1>2, <1>3, PathMoves DEF Seg
  <2>2. PICK d \in Marks : /\ s \in Doing /\ <<s, a, d>> \in Does(cmd)
                           /\ Path(Tail(todo), d, Dead, Doing, Does(cmd))
    BY <1>3, <2>1, PathTail DEF Seg, Now
  <2> DEFINE x == <<s, a, d>>
  <2>3. x[1] = s /\ x[2] = a /\ x[3] = d /\ x \in Does(cmd)
    BY <2>2
  <2> HIDE DEF x
  <2>4. DoesStep(s, a, d, cmd)
    BY <2>3 DEF Does
  <2>5. May(s, a, {}, cmd) /\ d = After(s, a)
    BY <1>2, <2>4 DEF DoesStep, ClearStep
  <2>6. s.op \in {"get", "call", "create", "write", "parse"} => Backs(s.fail, a, s.loses, cmd)
    BY <1>2, <2>4 DEF DoesStep
  <2>7. s.op = "exit" \/ d.out # "dead"
    BY <1>2, <2>5 DEF After, At
  <2> QED
    BY <1>2, <1>3, <2>2, <2>5, <2>6, <2>7 DEF Seg, a
<1>4. CASE Backs(todo, a, Lost, cmd)
  <2>1. todo # <<>>
    BY <1>2, <1>4, PathMoves DEF Backs
  <2>2. PICK d \in Marks : /\ s \in Clearing /\ <<s, a, d>> \in Clears(Lost, cmd)
                           /\ Path(Tail(todo), d, Dead, Clearing, Clears(Lost, cmd))
    BY <1>4, <2>1, PathTail DEF Backs, Now
  <2> DEFINE x == <<s, a, d>>
  <2>3. x[1] = s /\ x[2] = a /\ x[3] = d /\ x \in Clears(Lost, cmd)
    BY <2>2
  <2> HIDE DEF x
  <2>4. ClearStep(s, a, d, Lost, cmd)
    BY <2>3 DEF Clears
  <2>5. May(s, a, Lost, cmd) /\ d = After(s, a)
    BY <1>2, <2>4 DEF ClearStep
  <2>6. s.op = "exit" \/ d.out # "dead"
    BY <1>2, <2>5 DEF After, At
  <2> QED
    BY <1>2, <2>2, <2>5, <2>6 DEF Backs, a
<1> QED
  BY <1>3, <1>4 DEF Ahead, a

\* Whatever a program does next, the invariant holds: the steps that remain
\* lead to an exit with nothing held but what is lost.
LEMMA EngineStep ==
  ASSUME EngineInv, [Next]_vars
  PROVE  EngineInv'
<1>1. CASE UNCHANGED vars
  BY <1>1 DEF vars, EngineInv, Told, Ahead, Held, Lost, Now
<1>2. CASE Next
  <2>0. exit = -1
    BY <1>2 DEF Next, Works, Takes, Returns, Fails, Parsed, GivesBack, Closes, Exits, Is
  <2>1. PICK o \in Moments : Told(o) /\ Ahead(o)
    BY <2>0 DEF EngineInv
  <2> DEFINE a == At(Held, o)
             s == Now
             d == After(s, a)
  <2>2. /\ cmd \in Commands /\ unnoticed \in BOOLEAN
        /\ files \in [Outputs -> {"none", "pdf", "partial", "whole"}]
        /\ live \in SUBSET Names /\ stranded \in SUBSET Names
        /\ "replaced" \in live <=> "replaced" \in stranded
        /\ cmd.out # "input" => files["input"] = "pdf"
    BY DEF EngineInv
  <2>3. /\ May(s, a, Lost, cmd)
        /\ \/ /\ Lost = {} /\ s \in Doing /\ Seg(cmd, Tail(todo), d, Dead)
              /\ s.op \in {"get", "call", "create", "write", "parse"} =>
                   Backs(s.fail, a, s.loses, cmd)
           \/ s \in Clearing /\ Backs(Tail(todo), d, Lost, cmd)
    BY <2>1, NextStep
  <2>4. a.live = Held /\ a.out = o /\ o # "dead"
    BY DEF At, Moments
  <2>5. cmd.out \in Outputs /\ "input" \in Outputs
    BY <2>2 DEF Commands, Outputs
  <2>6. s.op # "exit" => s.on \in Names \ {"replaced"}
    BY <2>3 DEF May
  <2> HIDE DEF a, d, s
  <2>7. CASE Takes
    <3>1. /\ s.op \in {"get", "take", "create"} /\ todo' = Tail(todo)
          /\ cmd' = cmd /\ stranded' = stranded /\ live' = live \cup {s.on}
          /\ exit' = exit /\ unnoticed' = unnoticed
          /\ IF s.op = "create" THEN Output("partial") ELSE UNCHANGED files
      BY <2>7 DEF Takes, Is, GoesOn, s
    <3>2. Lost = {} /\ Seg(cmd, Tail(todo), d, Dead)
      BY <2>3, <3>1 DEF Clearing
    <3>3. PICK next \in Moments : next = IF s.op = "create" THEN "partial" ELSE o
      BY DEF Moments
    <3>4. Held' = Held \cup {s.on} /\ Lost' = Lost
      BY <2>6, <3>1 DEF Held, Lost
    <3>5. d = At(Held', next)
      BY <2>4, <3>1, <3>4, <3>3 DEF After, d
    <3>6. Ahead(next)'
      BY <3>1, <3>2, <3>4, <3>5 DEF Ahead
    <3>7. /\ files' \in [Outputs -> {"none", "pdf", "partial", "whole"}]
          /\ cmd'.out # "input" => files'["input"] = "pdf"
          /\ Told(next)'
      <4>1. CASE s.op = "create"
        BY <2>2, <2>5, <3>1, <3>3, <4>1 DEF Output, Told
      <4>2. CASE s.op # "create"
        BY <2>1, <2>2, <3>1, <3>3, <4>2 DEF Told
      <4> QED
        BY <4>1, <4>2
    <3>8. /\ live' \in SUBSET Names /\ stranded' \in SUBSET Names
          /\ "replaced" \in live' <=> "replaced" \in stranded'
      BY <2>2, <2>6, <3>1
    <3> QED
      BY <2>0, <2>2, <3>1, <3>4, <3>6, <3>7, <3>8 DEF EngineInv
  <2>8. CASE Returns
    <3>1. /\ s.op \in {"call", "write"} /\ todo' = Tail(todo)
          /\ cmd' = cmd /\ stranded' = stranded /\ live' = live /\ files' = files
          /\ exit' = exit /\ unnoticed' = unnoticed
      BY <2>8 DEF Returns, Is, GoesOn, s
    <3>2. Lost = {} /\ Seg(cmd, Tail(todo), d, Dead)
      BY <2>3, <3>1 DEF Clearing
    <3>3. Held' = Held /\ Lost' = Lost /\ d = a
      BY <3>1 DEF Held, Lost, After, d
    <3>4. Ahead(o)' /\ Told(o)'
      BY <2>1, <3>1, <3>2, <3>3 DEF Ahead, Told, a
    <3> QED
      BY <2>0, <2>2, <3>1, <3>4 DEF EngineInv
  <2>9. CASE Fails
    <3>1. /\ s.op \in {"get", "call", "create", "write"} /\ todo' = s.fail
          /\ cmd' = cmd /\ stranded' = stranded \cup s.loses /\ live' = live
          /\ files' = files /\ exit' = exit /\ unnoticed' = unnoticed
      BY <2>9 DEF Fails, Is, s
    <3>2. Lost = {} /\ s \in Doing /\ Backs(s.fail, a, s.loses, cmd)
      BY <2>3, <3>1 DEF Clearing
    <3>3. s.loses \in SUBSET (Names \ {"replaced"})
      BY <3>2 DEF Doing
    <3>4. Held' = Held /\ Lost' = s.loses
      BY <3>1, <3>2, <3>3 DEF Held, Lost
    <3>5. Ahead(o)' /\ Told(o)'
      BY <2>1, <3>1, <3>2, <3>4 DEF Ahead, Told, a
    <3>6. /\ stranded' \in SUBSET Names
          /\ "replaced" \in live' <=> "replaced" \in stranded'
      BY <2>2, <3>1, <3>3
    <3> QED
      BY <2>0, <2>2, <3>1, <3>5, <3>6 DEF EngineInv
  <2>10. CASE \E isLog, replaces \in BOOLEAN : Parsed(isLog, replaces)
    <3>1. PICK isLog \in BOOLEAN, replaces \in BOOLEAN : Parsed(isLog, replaces)
      BY <2>10
    <3> DEFINE replaced == IF replaces THEN {"replaced"} ELSE {}
               root == IF isLog THEN {"root"} ELSE {}
    <3>2. /\ s.op = "parse" /\ todo' = IF isLog THEN Tail(todo) ELSE s.fail
          /\ live' = live \cup replaced \cup root /\ stranded' = stranded \cup replaced
          /\ cmd' = cmd /\ files' = files /\ exit' = exit /\ unnoticed' = unnoticed
      BY <3>1 DEF Parsed, Is, s
    <3>3. /\ Lost = {} /\ Seg(cmd, Tail(todo), d, Dead) /\ Backs(s.fail, a, s.loses, cmd)
      BY <2>3, <3>2 DEF Clearing
    <3>4. s.on = "root" /\ s.loses = {} /\ "root" # "replaced" /\ "replaced" \in Names
          /\ "root" \in Names
      BY <2>3, <3>2 DEF May, Names, Resources
    <3>5. /\ Lost' = {} /\ Held' = Held \cup root
          /\ live' \in SUBSET Names /\ stranded' \in SUBSET Names
          /\ "replaced" \in live' <=> "replaced" \in stranded'
      BY <2>2, <3>2, <3>3, <3>4 DEF Held, Lost
    <3>6. Ahead(o)'
      <4>1. CASE isLog
        <5>1. d = At(Held', o) /\ todo' = Tail(todo)
          BY <2>4, <3>2, <3>4, <3>5, <4>1 DEF After, d
        <5> QED
          BY <3>2, <3>3, <3>5, <5>1 DEF Ahead
      <4>2. CASE ~isLog
        <5>1. a = At(Held', o) /\ todo' = s.fail /\ Lost' = s.loses
          BY <3>2, <3>4, <3>5, <4>2 DEF a
        <5> QED
          BY <3>2, <3>3, <5>1 DEF Ahead
      <4> QED
        BY <4>1, <4>2
    <3>7. Told(o)'
      BY <2>1, <3>2 DEF Told
    <3> HIDE DEF replaced, root
    <3> QED
      BY <2>0, <2>2, <3>2, <3>5, <3>6, <3>7 DEF EngineInv
  <2>11. CASE GivesBack
    <3>1. /\ s.op \in {"drop", "free"} /\ todo' = Tail(todo)
          /\ cmd' = cmd /\ stranded' = stranded /\ live' = live \ {s.on} /\ files' = files
          /\ exit' = exit /\ unnoticed' = unnoticed
      BY <2>11 DEF GivesBack, Is, GoesOn, s
    <3>2. Held' = Held \ {s.on} /\ Lost' = Lost
      BY <3>1 DEF Held, Lost
    <3>3. d = At(Held', o)
      BY <2>4, <3>1, <3>2 DEF After, d
    <3>4. Ahead(o)' /\ Told(o)'
      BY <2>1, <2>3, <3>1, <3>2, <3>3 DEF Ahead, Told
    <3>5. /\ live' \in SUBSET Names /\ stranded' \in SUBSET Names
          /\ "replaced" \in live' <=> "replaced" \in stranded'
      BY <2>2, <2>6, <3>1
    <3> QED
      BY <2>0, <2>2, <3>1, <3>4, <3>5 DEF EngineInv
  <2>12. CASE Closes
    <3>1. /\ s.op \in {"close", "saved"} /\ todo' = Tail(todo)
          /\ cmd' = cmd /\ stranded' = stranded /\ live' = live \ {s.on} /\ exit' = exit
          /\ \/ Output("whole") /\ unnoticed' = unnoticed
             \/ unnoticed' = TRUE /\ files' = files
      BY <2>12 DEF Closes, Is, GoesOn, s
    <3>2. Lost = {} /\ Seg(cmd, Tail(todo), d, Dead)
      BY <2>3, <3>1 DEF Clearing
    <3>3. Held' = Held \ {s.on} /\ Lost' = Lost /\ "done" \in Moments
      BY <3>1 DEF Held, Lost, Moments
    <3>4. d = At(Held', "done")
      BY <2>4, <3>1, <3>3 DEF After, d
    <3>5. Ahead("done")'
      BY <3>1, <3>2, <3>3, <3>4 DEF Ahead
    <3>6. /\ files' \in [Outputs -> {"none", "pdf", "partial", "whole"}] /\ unnoticed' \in BOOLEAN
          /\ cmd'.out # "input" => files'["input"] = "pdf"
          /\ Told("done")'
      BY <2>2, <2>5, <3>1 DEF Output, Told
    <3>7. /\ live' \in SUBSET Names /\ stranded' \in SUBSET Names
          /\ "replaced" \in live' <=> "replaced" \in stranded'
      BY <2>2, <2>6, <3>1
    <3> QED
      BY <2>0, <2>2, <3>1, <3>3, <3>5, <3>6, <3>7 DEF EngineInv
  <2>13. CASE Exits
    <3>1. /\ s.op = "exit" /\ exit' = s.on /\ cmd' = cmd /\ stranded' = stranded
          /\ live' = live /\ files' = files /\ unnoticed' = unnoticed
      BY <2>13 DEF Exits, Is, s
    <3>2. Held = Lost /\ CodeTells(s.on, o, cmd)
      BY <2>3, <2>4, <3>1 DEF May
    <3>3. live' = stranded'
      BY <2>2, <3>1, <3>2 DEF Held, Lost
    <3>4. /\ exit' \in {0, 1, 2}
          /\ exit' = 0 => cmd.out = "stdout" \/ files[cmd.out] = "whole" \/ unnoticed
          /\ exit' = 2 => files = Untouched
      BY <2>1, <3>1, <3>2 DEF CodeTells, Told
    <3>5. exit' # -1
      BY <3>4
    <3> QED
      BY <2>2, <3>1, <3>3, <3>4, <3>5 DEF EngineInv, Untouched
  <2> QED
    BY <1>2, <2>7, <2>8, <2>9, <2>10, <2>11, <2>12, <2>13 DEF Next, Works
<1> QED
  BY <1>1, <1>2

\* A program begins before its first step.
LEMMA EngineInit ==
  ASSUME Init
  PROVE  EngineInv
<1>1. cmd \in Commands /\ Legal(cmd) /\ todo = Program(cmd) /\ live = {} /\ stranded = {}
      /\ files = Untouched /\ exit = -1 /\ unnoticed = FALSE
  BY DEF Init, Untouched
<1>2. Held = {} /\ Lost = {} /\ "no" \in Moments
  BY <1>1 DEF Held, Lost, Moments
<1>3. Ahead("no")
  BY <1>1, <1>2, EveryCommandEnds DEF Ahead
<1>4. Told("no")
  BY <1>1 DEF Told
<1>5. /\ files \in [Outputs -> {"none", "pdf", "partial", "whole"}]
      /\ files["input"] = "pdf"
  BY <1>1 DEF Untouched, Outputs
<1> QED
  BY <1>1, <1>2, <1>3, <1>4, <1>5 DEF EngineInv

\* Every way on from where a program is leads to its exit.
LEMMA EngineHolds == Spec => []EngineInv
<1>1. Init => EngineInv
  BY EngineInit
<1>2. EngineInv /\ [Next]_vars => EngineInv'
  BY EngineStep
<1> QED
  BY <1>1, <1>2, PTL DEF Spec

\* Whichever call fails, and however many fields the form has, what the program
\* took has been given back when it exits, except what an exception or a
\* forgetful clean-up stranded (mupdf_backend.cc) and the members of a log that
\* later ones replaced.
THEOREM AllIsReleased == Spec => []ReleasedAtExit
<1>1. EngineInv => ReleasedAtExit
  BY DEF EngineInv, ReleasedAtExit
<1> QED
  BY <1>1, EngineHolds, PTL

\* On no path is anything given back before what depends on it, or used or
\* given back when it is not there.
THEOREM NothingIsOutlived == Spec => []NothingOutlives
<1>1. EngineInv => NothingOutlives
  <2> SUFFICES ASSUME EngineInv
               PROVE  NothingOutlives
    OBVIOUS
  <2>1. CASE exit # -1
    BY <2>1 DEF EngineInv, NothingOutlives
  <2>2. CASE exit = -1
    <3>1. PICK o \in Moments : Ahead(o)
      BY <2>2 DEF EngineInv
    <3>2. May(Now, At(Held, o), Lost, cmd)
      BY <3>1, NextStep
    <3>3. At(Held, o).live = Held
      BY DEF At
    <3>4. Closed(Held, Lost) /\ (Now.op \in {"call", "write", "drop", "close", "saved"} =>
                                   Now.on \in Held)
      BY <3>2, <3>3 DEF May
    <3>5. \A x \in live \ stranded : x \in Held \ Lost
      BY DEF EngineInv, Held, Lost
    <3>6. Held \subseteq live
      BY DEF Held
    <3> QED
      BY <3>4, <3>5, <3>6 DEF Closed, NothingOutlives
  <2> QED
    BY <2>1, <2>2
<1> QED
  BY <1>1, EngineHolds, PTL

\* A program that exits with 0 leaves its output whole, unless bytes were lost
\* where nobody looks (fclose, and fwrite in forms fill); no program touches its
\* input unless it is told to, and one that exits with 2 has written nothing.
THEOREM ExitIsTrue == Spec => []ExitTells
<1>1. EngineInv => ExitTells
  BY DEF EngineInv, ExitTells, Untouched
<1> QED
  BY <1>1, EngineHolds, PTL

-----------------------------------------------------------------------------
(* Sums.                                                                      *)

\* The recursion of Total has a solution.
LEMMA SumsExist ==
  ASSUME NEW t \in Seq(Nat)
  PROVE  \E g \in [0 .. Len(t) -> Nat] : \A i \in 0 .. Len(t) :
           g[i] = IF i = 0 THEN 0 ELSE g[i - 1] + t[i]
<1> DEFINE Sums(m, g) == \A i \in 0 .. m : g[i] = IF i = 0 THEN 0 ELSE g[i - 1] + t[i]
           S == {m \in Nat : \E g \in [0 .. m -> Nat] : Sums(m, g)}
<1>0. Len(t) \in Nat /\ \A i \in 1 .. Len(t) : t[i] \in Nat
  OBVIOUS
<1>1. 0 \in S
  <2> DEFINE g == [i \in 0 .. 0 |-> 0]
  <2>1. g \in [0 .. 0 -> Nat] /\ \A i \in 0 .. 0 : i = 0 /\ g[i] = 0
    OBVIOUS
  <2> HIDE DEF g
  <2>2. Sums(0, g)
    BY <2>1
  <2> QED
    BY <2>1, <2>2
<1>2. ASSUME NEW k \in 0 .. Len(t) - 1, k \in S
      PROVE  k + 1 \in S
  <2> DEFINE m == k + 1
  <2>1. k \in Nat /\ m \in Nat /\ m \in 1 .. Len(t) /\ m # 0 /\ m - 1 = k /\ k \in 0 .. k
    BY <1>0
  <2>2. PICK g \in [0 .. k -> Nat] : Sums(k, g)
    BY <1>2
  <2> DEFINE h == [i \in 0 .. m |-> IF i = m THEN g[k] + t[m] ELSE g[i]]
  <2>3. g[k] + t[m] \in Nat
    BY <1>0, <2>1, <2>2
  <2>4. \A i \in 0 .. m : i = m \/ (i \in 0 .. k /\ i # m)
    BY <2>1
  <2>5. h \in [0 .. m -> Nat]
    BY <2>2, <2>3, <2>4
  <2>6. h[m] = g[k] + t[m] /\ \A i \in 0 .. k : h[i] = g[i]
    BY <2>1
  <2> HIDE DEF h
  <2>7. Sums(m, h)
    <3> SUFFICES ASSUME NEW i \in 0 .. m
                 PROVE  h[i] = IF i = 0 THEN 0 ELSE h[i - 1] + t[i]
      OBVIOUS
    <3>1. CASE i = m
      BY <2>1, <2>6, <3>1
    <3>2. CASE i # m
      <4>1. i \in 0 .. k
        BY <2>4, <3>2
      <4>2. h[i] = g[i] /\ (i # 0 => i - 1 \in 0 .. k)
        BY <2>1, <2>6, <4>1
      <4>3. g[i] = IF i = 0 THEN 0 ELSE g[i - 1] + t[i]
        BY <2>2, <4>1
      <4> QED
        BY <2>6, <4>2, <4>3
    <3> QED
      BY <3>1, <3>2
  <2> HIDE DEF m, Sums
  <2>8. m \in S
    BY <2>1, <2>5, <2>7
  <2> QED
    BY <2>8 DEF m
<1>3. \A k \in 0 .. Len(t) : k \in S
  <2>1. 0 \in Nat
    OBVIOUS
  <2> HIDE DEF S
  <2>2. \A k \in 0 .. Len(t) - 1 : k \in S => k + 1 \in S
    BY <1>2
  <2> QED
    BY <1>0, <1>1, <2>1, <2>2, Climb
<1>4. Len(t) \in S
  <2>1. Len(t) \in 0 .. Len(t)
    BY <1>0
  <2> HIDE DEF S
  <2> QED
    BY <1>3, <2>1
<1> QED
  BY <1>4

\* So Total is the last of the sums of the first numbers.
LEMMA TotalIs ==
  ASSUME NEW t \in Seq(Nat)
  PROVE  \E g \in [0 .. Len(t) -> Nat] :
           /\ g[0] = 0 /\ \A i \in 1 .. Len(t) : g[i] = g[i - 1] + t[i]
           /\ Total(t) = g[Len(t)]
<1> DEFINE n == Len(t)
           F(g) == [i \in 0 .. n |-> IF i = 0 THEN 0 ELSE g[i - 1] + t[i]]
           sum == CHOOSE g : g = F(g)
<1>0. n \in Nat /\ 0 \in 0 .. n /\ n \in 0 .. n /\ 1 .. n \subseteq 0 .. n
  OBVIOUS
<1>1. Total(t) = sum[n]
  BY Zenon DEF Total
<1>2. PICK g \in [0 .. n -> Nat] : \A i \in 0 .. n : g[i] = IF i = 0 THEN 0 ELSE g[i - 1] + t[i]
  BY SumsExist
<1>3. g = F(g)
  BY <1>2
<1>4. sum = F(sum)
  <2> HIDE DEF F
  <2> QED
    BY <1>3
<1> HIDE DEF sum, n
<1>5. \A i \in 0 .. n : sum[i] = IF i = 0 THEN 0 ELSE sum[i - 1] + t[i]
  BY <1>4
<1>6. DOMAIN sum = 0 .. n /\ sum = [i \in 0 .. n |-> sum[i]]
  BY <1>4
<1> DEFINE S == {i \in Nat : sum[i] \in Nat}
<1>7. 0 \in S
  BY <1>0, <1>5
<1>8. ASSUME NEW k \in 0 .. n - 1, k \in S
      PROVE  k + 1 \in S
  <2>1. k \in Nat /\ k + 1 \in 0 .. n /\ k + 1 # 0 /\ (k + 1) - 1 = k /\ k + 1 \in 1 .. n
    BY <1>0
  <2>2. sum[k + 1] = sum[k] + t[k + 1] /\ t[k + 1] \in Nat
    BY <1>5, <2>1 DEF n
  <2> QED
    BY <1>8, <2>1, <2>2
<1>9. \A k \in 0 .. n : k \in S
  <2> HIDE DEF S
  <2>1. 0 \in Nat
    OBVIOUS
  <2> QED
    BY <1>0, <1>7, <1>8, <2>1, Climb
<1>10. sum \in [0 .. n -> Nat]
  BY <1>6, <1>9
<1>11. \A i \in 1 .. n : sum[i] = sum[i - 1] + t[i]
  BY <1>0, <1>5
<1> QED
  BY <1>0, <1>1, <1>5, <1>10, <1>11 DEF n

\* g are the sums of the first of n numbers t
SumsUp(g, t, n) == g[0] = 0 /\ \A i \in 1 .. n : g[i] = g[i - 1] + t[i]

\* Two ways to sum up the same numbers agree.
LEMMA SumsAgree ==
  ASSUME NEW n \in Nat, NEW t, NEW g, NEW h, SumsUp(g, t, n), SumsUp(h, t, n)
  PROVE  g[n] = h[n]
<1> DEFINE S == {i \in Nat : g[i] = h[i]}
<1>1. 0 \in S /\ 0 \in Nat
  BY DEF SumsUp
<1>2. ASSUME NEW k \in 0 .. n - 1, k \in S
      PROVE  k + 1 \in S
  <2>1. k + 1 \in Nat /\ k + 1 \in 1 .. n /\ (k + 1) - 1 = k
    OBVIOUS
  <2> QED
    BY <1>2, <2>1 DEF SumsUp
<1>3. \A k \in 0 .. n : k \in S
  <2> HIDE DEF S
  <2> QED
    BY <1>1, <1>2, Climb
<1> QED
  BY <1>3

\* One number more.
LEMMA TotalAppend ==
  ASSUME NEW t \in Seq(Nat), NEW x \in Nat
  PROVE  Append(t, x) \in Seq(Nat) /\ Total(t) \in Nat /\ Total(Append(t, x)) = Total(t) + x
<1> DEFINE u == Append(t, x)
           n == Len(t)
<1>1. /\ n \in Nat /\ u \in Seq(Nat) /\ Len(u) = n + 1 /\ u[n + 1] = x
      /\ \A i \in 1 .. n : u[i] = t[i] /\ t[i] \in Nat
  OBVIOUS
<1> HIDE DEF u
<1>2. PICK g \in [0 .. n -> Nat] : /\ g[0] = 0 /\ \A i \in 1 .. n : g[i] = g[i - 1] + t[i]
                                   /\ Total(t) = g[n]
  BY TotalIs
<1>3. PICK h \in [0 .. n + 1 -> Nat] :
        /\ h[0] = 0 /\ \A i \in 1 .. n + 1 : h[i] = h[i - 1] + u[i]
        /\ Total(u) = h[n + 1]
  BY <1>1, TotalIs
<1> HIDE DEF n
<1>4. \A i \in 1 .. n : h[i] = h[i - 1] + u[i]
  BY <1>1, <1>3
<1>5. g[n] = h[n]
  <2>1. \A i \in 1 .. n : h[i] = h[i - 1] + t[i]
    BY <1>1, <1>4
  <2>2. SumsUp(g, t, n) /\ SumsUp(h, t, n)
    BY <1>2, <1>3, <2>1 DEF SumsUp
  <2> QED
    BY <1>1, <2>2, SumsAgree
<1>6. h[n + 1] = h[n] + x
  <2>1. n + 1 \in 1 .. n + 1 /\ (n + 1) - 1 = n
    BY <1>1
  <2> QED
    BY <1>1, <1>3, <2>1
<1>7. g[n] \in Nat
  BY <1>1, <1>2
<1> QED
  BY <1>1, <1>2, <1>3, <1>5, <1>6, <1>7 DEF u

\* One number changed.
LEMMA TotalChange ==
  ASSUME NEW t \in Seq(Nat), NEW u \in Seq(Nat), Len(u) = Len(t), NEW p \in 1 .. Len(t),
         \A i \in 1 .. Len(t) : i # p => u[i] = t[i]
  PROVE  Total(u) = Total(t) - t[p] + u[p]
<1> DEFINE n == Len(t)
<1>1. n \in Nat /\ p \in 1 .. n /\ \A i \in 1 .. n : t[i] \in Nat /\ u[i] \in Nat
  OBVIOUS
<1>2. PICK g \in [0 .. n -> Nat] : /\ g[0] = 0 /\ \A i \in 1 .. n : g[i] = g[i - 1] + t[i]
                                   /\ Total(t) = g[n]
  BY TotalIs
<1>3. PICK h \in [0 .. n -> Nat] : /\ h[0] = 0 /\ \A i \in 1 .. n : h[i] = h[i - 1] + u[i]
                                   /\ Total(u) = h[n]
  BY TotalIs
<1> DEFINE S == {i \in Nat : h[i] = g[i] + (IF i < p THEN 0 ELSE u[p] - t[p])}
<1> HIDE DEF n
<1>4. 0 \in S /\ 0 \in Nat
  BY <1>1, <1>2, <1>3
<1>5. ASSUME NEW k \in 0 .. n - 1, k \in S
      PROVE  k + 1 \in S
  <2> DEFINE m == k + 1
  <2>1. k \in 0 .. n /\ m \in Nat /\ m \in 1 .. n /\ m \in 0 .. n /\ m - 1 = k
    BY <1>1
  <2>2. h[m] = h[k] + u[m] /\ g[m] = g[k] + t[m]
    BY <1>2, <1>3, <2>1
  <2>3. g[k] \in Nat /\ h[k] \in Nat /\ t[m] \in Nat /\ u[m] \in Nat /\ t[p] \in Nat /\ u[p] \in Nat
    BY <1>1, <1>2, <1>3, <2>1
  <2>4. h[k] = g[k] + (IF k < p THEN 0 ELSE u[p] - t[p])
    BY <1>5
  <2>5. m # p => u[m] = t[m]
    BY <2>1 DEF n
  <2> HIDE DEF m
  <2>6. CASE m = p
    <3>1. k < p /\ ~(m < p)
      BY <2>1, <2>6
    <3>2. h[m] = g[m] + (u[p] - t[p])
      BY <2>2, <2>3, <2>4, <2>6, <3>1
    <3> QED
      BY <2>1, <3>1, <3>2 DEF m
  <2>7. CASE m # p
    <3>1. k < p <=> m < p
      BY <1>1, <2>1, <2>7
    <3> DEFINE d == IF m < p THEN 0 ELSE u[p] - t[p]
    <3>2. d \in Int /\ h[k] = g[k] + d
      BY <2>3, <2>4, <3>1
    <3> HIDE DEF d
    <3>3. h[m] = g[m] + d
      BY <2>2, <2>3, <2>5, <2>7, <3>2
    <3> QED
      BY <2>1, <3>3 DEF m, d
  <2> QED
    BY <2>6, <2>7
<1>6. n \in S
  <2>1. n \in 0 .. n
    BY <1>1
  <2> HIDE DEF S
  <2> QED
    BY <1>1, <1>4, <1>5, <2>1, Climb
<1>7. g[n] \in Nat /\ t[p] \in Nat /\ u[p] \in Nat /\ ~(n < p)
  BY <1>1, <1>2
<1>8. h[n] = g[n] + (u[p] - t[p])
  BY <1>6, <1>7
<1> HIDE DEF S
<1> QED
  BY <1>2, <1>3, <1>7, <1>8

\* Nothing sums up to nothing.
LEMMA TotalNone ==
  ASSUME NEW t \in Seq(Nat), \A i \in 1 .. Len(t) : t[i] = 0
  PROVE  Total(t) = 0
<1>1. PICK g \in [0 .. Len(t) -> Nat] :
        /\ g[0] = 0 /\ \A i \in 1 .. Len(t) : g[i] = g[i - 1] + t[i]
        /\ Total(t) = g[Len(t)]
  BY TotalIs
<1> DEFINE h == [i \in 0 .. Len(t) |-> 0]
<1>2. Len(t) \in Nat /\ \A i \in 1 .. Len(t) : t[i] = t[i] /\ t[i] \in Nat
  OBVIOUS
<1>3. h[0] = 0 /\ h[Len(t)] = 0 /\ \A i \in 1 .. Len(t) : h[i] = h[i - 1] + t[i]
  <2>1. \A i \in 1 .. Len(t) : i \in 0 .. Len(t) /\ i - 1 \in 0 .. Len(t)
    BY <1>2
  <2> QED
    BY <1>2, <2>1
<1> HIDE DEF h
<1>4. g[Len(t)] = h[Len(t)]
  <2>1. SumsUp(g, t, Len(t)) /\ SumsUp(h, t, Len(t))
    BY <1>1, <1>3 DEF SumsUp
  <2> QED
    BY <1>2, <2>1, SumsAgree
<1> QED
  BY <1>1, <1>3, <1>4

-----------------------------------------------------------------------------
(* The values that the reader makes, and its calls in progress.               *)

Sized(v) == v.size \in Nat \ {0}
IsList(v) ==
  /\ v.kind = "[" /\ v = Array(v.items) /\ Sized(v)
  /\ \E S : v.items \in Seq(S)
  /\ \A i \in DOMAIN v.items : Sized(v.items[i])
IsMap(v) ==
  /\ v.kind = "{" /\ v = Object(v.members) /\ Sized(v)
  /\ DOMAIN v.members \subseteq Keys
  /\ \A k \in DOMAIN v.members : Sized(v.members[k])

\* A sequence with one more element, and what its elements are.
LEMMA OneMore ==
  ASSUME NEW S, NEW s \in Seq(S), NEW x
  PROVE  /\ Append(s, x) \in Seq(S \cup {x}) /\ Len(Append(s, x)) = Len(s) + 1
         /\ Len(s) \in Nat /\ DOMAIN s = 1 .. Len(s)
         /\ DOMAIN Append(s, x) = 1 .. Len(s) + 1
         /\ Append(s, x)[Len(s) + 1] = x
         /\ \A i \in 1 .. Len(s) : Append(s, x)[i] = s[i]
<1>1. s \in Seq(S \cup {x}) /\ x \in S \cup {x}
  OBVIOUS
<1> QED
  BY <1>1

\* An empty list and an empty map are one node.
LEMMA EmptyIs ==
  /\ IsList(Empty("[")) /\ Empty("[").size = 1
  /\ IsMap(Empty("{")) /\ Empty("{").size = 1
<1>1. Empty("[") = Array(<<>>) /\ Empty("{") = Object(<<>>)
  BY DEF Empty
<1>2. Total([i \in DOMAIN <<>> |-> <<>>[i].size]) = 0
  <2> DEFINE t == [i \in DOMAIN <<>> |-> <<>>[i].size]
  <2>1. t \in Seq(Nat) /\ Len(t) = 0
    OBVIOUS
  <2> HIDE DEF t
  <2>2. \A i \in 1 .. Len(t) : t[i] = 0
    BY <2>1
  <2>3. Total(t) = 0
    BY <2>1, <2>2, TotalNone
  <2> QED
    BY <2>3 DEF t
<1>3. Total([i \in DOMAIN Strings |->
               IF Strings[i] \in DOMAIN <<>> THEN <<>>[Strings[i]].size ELSE 0]) = 0
  <2> DEFINE t == [i \in DOMAIN Strings |->
                     IF Strings[i] \in DOMAIN <<>> THEN <<>>[Strings[i]].size ELSE 0]
  <2>1. DOMAIN Strings = 1 .. Len(Strings) /\ Len(Strings) \in Nat
    BY StringsAssumption
  <2>2. \A i \in DOMAIN Strings : t[i] = 0
    OBVIOUS
  <2>3. t \in Seq(Nat) /\ Len(t) = Len(Strings)
    <3>1. t \in [1 .. Len(Strings) -> Nat]
      BY <2>1, <2>2
    <3> HIDE DEF t
    <3> QED
      BY <2>1, <3>1
  <2> HIDE DEF t
  <2>4. Total(t) = 0
    BY <2>1, <2>2, <2>3, TotalNone
  <2> QED
    BY <2>4 DEF t
<1>4. /\ Array(<<>>).kind = "[" /\ Array(<<>>).items = <<>> /\ Array(<<>>).size = 1
      /\ Object(<<>>).kind = "{" /\ Object(<<>>).members = <<>> /\ Object(<<>>).size = 1
  BY <1>2, <1>3 DEF Array, Object
<1>5. <<>> \in Seq({}) /\ DOMAIN <<>> = {} /\ 1 \in Nat \ {0}
  OBVIOUS
<1>6. ASSUME NEW a, a = Array(<<>>)
      PROVE  IsList(a)
  <2>1. a.kind = "[" /\ a.items = <<>> /\ a.size = 1 /\ a = Array(a.items)
    BY <1>4, <1>6
  <2> QED
    BY <1>5, <2>1 DEF IsList, Sized
<1>7. ASSUME NEW a, a = Object(<<>>)
      PROVE  IsMap(a)
  <2>1. a.kind = "{" /\ a.members = <<>> /\ a.size = 1 /\ a = Object(a.members)
    BY <1>4, <1>7
  <2> QED
    BY <1>5, <2>1 DEF IsMap, Sized
<1> QED
  BY <1>1, <1>4, <1>6, <1>7

\* A list with one more item has the nodes of both.
LEMMA ListGrows ==
  ASSUME NEW v, IsList(v), NEW x, Sized(x)
  PROVE  /\ IsList(Array(Append(v.items, x)))
         /\ Array(Append(v.items, x)).size = v.size + x.size
<1> DEFINE w == Array(Append(v.items, x))
           s == v.items
           t == [i \in DOMAIN s |-> s[i].size]
           u == [i \in DOMAIN Append(s, x) |-> Append(s, x)[i].size]
<1>1. PICK S : s \in Seq(S)
  BY DEF IsList
<1>2. /\ Append(s, x) \in Seq(S \cup {x})
      /\ Len(s) \in Nat /\ DOMAIN s = 1 .. Len(s) /\ DOMAIN Append(s, x) = 1 .. Len(s) + 1
      /\ Append(s, x)[Len(s) + 1] = x /\ \A i \in 1 .. Len(s) : Append(s, x)[i] = s[i]
  BY <1>1, OneMore
<1>3. v = Array(s) /\ v.size \in Nat /\ x.size \in Nat /\ \A i \in DOMAIN s : Sized(s[i])
  BY DEF IsList, Sized
<1>4. v.size = 1 + Total(t)
  BY <1>3 DEF Array
<1>5. w.size = 1 + Total(u) /\ w.kind = "[" /\ w.items = Append(s, x)
  BY DEF Array
<1> DEFINE p == Append(s, x)
<1> HIDE DEF w, s, p
<1>6. t \in Seq(Nat) /\ Len(t) = Len(s) /\ \A i \in 1 .. Len(s) : t[i] = s[i].size
  <2>1. t \in [1 .. Len(s) -> Nat]
    BY <1>2, <1>3 DEF Sized
  <2> QED
    BY <1>2, <2>1
<1>7. u = Append(t, x.size)
  <2>1. DOMAIN u = 1 .. Len(s) + 1 /\ u[Len(s) + 1] = x.size
        /\ \A i \in 1 .. Len(s) : u[i] = s[i].size
    BY <1>2
  <2> HIDE DEF t, u
  <2>2. /\ Append(t, x.size) = [i \in 1 .. Len(s) + 1 |-> IF i = Len(s) + 1 THEN x.size ELSE t[i]]
    BY <1>2, <1>3, <1>6
  <2>3. u = [i \in 1 .. Len(s) + 1 |-> u[i]]
    BY <2>1 DEF u
  <2>4. \A i \in 1 .. Len(s) + 1 : i = Len(s) + 1 \/ i \in 1 .. Len(s)
    BY <1>2
  <2> QED
    BY <1>6, <2>1, <2>2, <2>3, <2>4
<1> HIDE DEF t, u
<1>8. Total(t) \in Nat /\ Total(u) = Total(t) + x.size
  BY <1>3, <1>6, <1>7, TotalAppend
<1>9. w.size = v.size + x.size
  <2>1. w.size = 1 + Total(u)
    BY <1>5
  <2>2. x.size \in Nat
    BY <1>3
  <2> QED
    BY <1>4, <1>8, <2>1, <2>2
<1>10. Sized(w)
  BY <1>3, <1>9 DEF IsList, Sized
<1>11. w = Array(w.items)
  BY <1>5 DEF w, s
<1>12. \A i \in DOMAIN w.items : Sized(w.items[i])
  <2>1. \A i \in 1 .. Len(s) + 1 : i = Len(s) + 1 \/ i \in 1 .. Len(s)
    BY <1>2
  <2> QED
    BY <1>2, <1>3, <1>5, <2>1
<1>13. IsList(w)
  BY <1>2, <1>5, <1>10, <1>11, <1>12 DEF IsList
<1> QED
  BY <1>9, <1>13 DEF w, s

\* A map with a member put in has the nodes of both, less those of the member
\* that it replaces.
LEMMA MapGrows ==
  ASSUME NEW v, IsMap(v), NEW x, Sized(x), NEW key \in Keys
  PROVE  LET w == Object([k \in DOMAIN v.members \cup {key} |->
                            IF k = key THEN x ELSE v.members[k]])
             old == IF key \in DOMAIN v.members THEN v.members[key].size ELSE 0
         IN  IsMap(w) /\ old \in Nat /\ w.size = v.size + x.size - old
<1> DEFINE f == v.members
           g == [k \in DOMAIN f \cup {key} |-> IF k = key THEN x ELSE f[k]]
           w == Object(g)
           old == IF key \in DOMAIN f THEN f[key].size ELSE 0
           t == [i \in DOMAIN Strings |-> IF Strings[i] \in DOMAIN f THEN f[Strings[i]].size ELSE 0]
           u == [i \in DOMAIN Strings |-> IF Strings[i] \in DOMAIN g THEN g[Strings[i]].size ELSE 0]
<1>1. /\ v = Object(f) /\ v.size \in Nat /\ x.size \in Nat \ {0} /\ DOMAIN f \subseteq Keys
      /\ \A k \in DOMAIN f : f[k].size \in Nat \ {0}
  BY DEF IsMap, Sized
<1>2. v.size = 1 + Total(t)
  <2>1. Object(f).size = 1 + Total(t)
    BY DEF Object
  <2> QED
    BY <1>1, <2>1
<1>3. w.size = 1 + Total(u) /\ w.kind = "{" /\ w.members = g
  BY DEF Object
<1>4. PICK p \in DOMAIN Strings : Strings[p] = key
  BY DEF Keys
<1>5. /\ DOMAIN Strings = 1 .. Len(Strings) /\ Len(Strings) \in Nat
      /\ \A i, j \in DOMAIN Strings : Strings[i] = Strings[j] => i = j
  BY StringsAssumption
<1>6. DOMAIN g = DOMAIN f \cup {key} /\ g[key] = x /\ \A k \in DOMAIN f : k # key => g[k] = f[k]
  OBVIOUS
<1> HIDE DEF f, g, w
<1>7. t \in Seq(Nat) /\ Len(t) = Len(Strings)
  <2>1. t \in [1 .. Len(Strings) -> Nat]
    BY <1>1, <1>5
  <2> HIDE DEF t
  <2> QED
    BY <1>5, <2>1
<1>8. u \in Seq(Nat) /\ Len(u) = Len(Strings)
  <2>1. \A k \in DOMAIN g : g[k].size \in Nat
    BY <1>1, <1>6
  <2>2. u \in [1 .. Len(Strings) -> Nat]
    BY <1>5, <2>1
  <2> HIDE DEF u
  <2> QED
    BY <1>5, <2>2
<1>9. t[p] = old /\ u[p] = x.size /\ old \in Nat
  BY <1>1, <1>4, <1>6
<1>10. ASSUME NEW i \in 1 .. Len(Strings), i # p
       PROVE  u[i] = t[i]
  <2>1. i \in DOMAIN Strings /\ Strings[i] # key
    BY <1>4, <1>5, <1>10
  <2>2. Strings[i] \in DOMAIN g <=> Strings[i] \in DOMAIN f
    BY <1>6, <2>1
  <2> QED
    BY <1>6, <2>1, <2>2
<1> HIDE DEF t, u, old
<1>11. Total(u) = Total(t) - t[p] + u[p]
  BY <1>4, <1>5, <1>7, <1>8, <1>10, TotalChange
<1>12. Total(t) \in Nat /\ Total(u) \in Nat
  BY <1>1, <1>7, <1>8, TotalAppend
<1>13. w.size = v.size + x.size - old
  <2>1. w.size = 1 + Total(u)
    BY <1>3
  <2>2. x.size \in Nat
    BY <1>1
  <2> QED
    BY <1>2, <1>9, <1>11, <1>12, <2>1, <2>2
<1>14. w.size \in Nat \ {0}
  <2>1. w.size = 1 + Total(u)
    BY <1>3
  <2> QED
    BY <1>12, <2>1
<1>15. \A k \in DOMAIN g : g[k].size \in Nat \ {0}
  BY <1>1, <1>6
<1>16. IsMap(w)
  BY <1>1, <1>3, <1>6, <1>14, <1>15 DEF IsMap, Sized, w
<1> QED
  BY <1>9, <1>13, <1>16 DEF w, g, f, old

\* a string at token i of text t is the key of a member
Member(t, i) == t[i] \in Keys /\ (IF i + 1 <= Len(t) THEN t[i + 1] ELSE "end") = ":"
Repeats(t) ==
  \E i, j \in DOMAIN t : i < j /\ t[i] = t[j] /\ Member(t, i) /\ Member(t, j)

\* A call in progress: a list or a map and, in a map, the key of the value that
\* is read next.
Frame(f) ==
  /\ f = [value |-> f.value, key |-> f.key]
  /\ \/ IsList(f.value) /\ f.key = NoKey
     \/ IsMap(f.value) /\ f.key \in Keys \cup {NoKey}
Waits(f) == IsMap(f.value) => f.key # NoKey

\* the keys of a map were read before token p, one before the other
KeysBefore(t, v, p) ==
  \A k \in DOMAIN v.members : \E i \in DOMAIN t : i < p /\ t[i] = k /\ Member(t, i)
KeysRead(t, f, p) ==
  IsMap(f.value) =>
    IF f.key = NoKey THEN KeysBefore(t, f.value, p)
    ELSE \E q \in DOMAIN t : q < p /\ t[q] = f.key /\ Member(t, q) /\ KeysBefore(t, f.value, q)

\* calls that wait for a value
Stack(t, o, p) ==
  /\ \E S : o \in Seq(S)
  /\ \A i \in 1 .. Len(o) : Frame(o[i]) /\ KeysRead(t, o[i], p) /\ Waits(o[i])

\* the nodes of the calls
InFrames(o) == Total([i \in DOMAIN o |-> o[i].value.size + KeyNodes(o[i])])

\* only the innermost call can be at the head of its loop
Calls ==
  IF mode = "loop"
  THEN /\ Inside /\ \E S : open \in Seq(S)
       /\ Frame(Top) /\ Top.key = NoKey /\ KeysRead(text, Top, pos)
       /\ Stack(text, Outer, pos)
  ELSE Stack(text, open, pos)

Given == IF mode \in {"got", "accepted"} THEN got.size ELSE 0

JsonInv ==
  /\ text \in Seq(STRING) /\ pos \in Nat \ {0} /\ nodes \in Int /\ lost \in Nat /\ Sized(got)
  /\ mode \in {"value", "loop", "got", "failed", "accepted", "rejected"}
  /\ Calls
  /\ nodes = lost + InFrames(open) + Given
  /\ lost > 0 => Repeats(text)

\* The nodes of a call, and of the value in it.
LEMMA FrameFacts ==
  ASSUME NEW f, Frame(f)
  PROVE  /\ f.value.size \in Nat \ {0} /\ KeyNodes(f) \in {0, 1}
         /\ f.value.kind \in {"[", "{"} /\ (f.key = NoKey => KeyNodes(f) = 0)
         /\ f.value.kind = "[" <=> IsList(f.value) /\ f.key = NoKey
         /\ f.value.kind = "{" <=> IsMap(f.value)
BY DEF Frame, IsList, IsMap, Sized, KeyNodes

\* The parts of a sequence with one more element.
LEMMA PartsOf ==
  ASSUME NEW o, NEW f, \E S : o \in Seq(S)
  PROVE  /\ Append(o, f) # <<>> /\ Append(o, f)[Len(Append(o, f))] = f
         /\ SubSeq(Append(o, f), 1, Len(Append(o, f)) - 1) = o
         /\ \E S : Append(o, f) \in Seq(S)
<1>1. PICK S : o \in Seq(S)
  OBVIOUS
<1> DEFINE a == Append(o, f)
<1>2. a \in Seq(S \cup {f}) /\ Len(a) = Len(o) + 1 /\ Len(o) \in Nat /\ a[Len(o) + 1] = f
      /\ \A i \in 1 .. Len(o) : a[i] = o[i]
  BY <1>1, OneMore
<1> HIDE DEF a
<1>3. (Len(o) + 1) - 1 = Len(o)
  BY <1>2
<1>4. SubSeq(a, 1, Len(o)) = o
  <2>1. SubSeq(a, 1, Len(o)) = [i \in 1 .. Len(o) |-> a[i]]
    BY <1>2, SubSeqProperties
  <2>2. o = [i \in 1 .. Len(o) |-> o[i]]
    BY <1>1
  <2> QED
    BY <1>2, <2>1, <2>2
<1>5. a # <<>>
  BY <1>2
<1> QED
  BY <1>2, <1>3, <1>4, <1>5 DEF a

\* A sequence is its front and its last element.
LEMMA PartsMake ==
  ASSUME NEW o, \E S : o \in Seq(S), o # <<>>
  PROVE  LET p == SubSeq(o, 1, Len(o) - 1)
         IN  /\ o = Append(p, o[Len(o)]) /\ \E S : p \in Seq(S)
             /\ Len(o) \in Nat \ {0} /\ Len(p) = Len(o) - 1
             /\ \A i \in 1 .. Len(p) : p[i] = o[i]
<1>1. PICK S : o \in Seq(S)
  OBVIOUS
<1>2. Len(o) \in Nat \ {0} /\ DOMAIN o = 1 .. Len(o) /\ \A i \in 1 .. Len(o) : o[i] \in S
  BY <1>1
<1> DEFINE n == Len(o) - 1
           p == SubSeq(o, 1, n)
           x == o[Len(o)]
<1>3. n \in Nat /\ n + 1 = Len(o) /\ \A i \in 1 .. n : i \in 1 .. Len(o)
  BY <1>2
<1>4. p = [i \in 1 .. n |-> o[i]] /\ p \in Seq(S) /\ Len(p) = n
  <2> HIDE DEF n
  <2>1. p = [i \in 1 .. n |-> o[i]]
    BY <1>1, <1>2, <1>3
  <2>2. p \in [1 .. n -> S]
    BY <1>2, <1>3, <2>1
  <2> HIDE DEF p
  <2> QED
    BY <1>3, <2>1, <2>2
<1> HIDE DEF p, n, x
<1>5. /\ Append(p, x) \in Seq(S \cup {x}) /\ Len(Append(p, x)) = n + 1
      /\ Append(p, x)[n + 1] = x /\ \A i \in 1 .. n : Append(p, x)[i] = p[i]
  <2>1. p \in Seq(S) /\ Len(p) = n
    BY <1>4
  <2> QED
    BY <2>1, OneMore
<1>6. Append(p, x) = o
  <2> DEFINE a == Append(p, x)
  <2>0. a \in Seq(S \cup {x}) /\ Len(a) = n + 1 /\ a[n + 1] = o[n + 1]
        /\ \A i \in 1 .. n : a[i] = p[i]
    BY <1>3, <1>5 DEF x
  <2> HIDE DEF a
  <2>1. a = [i \in 1 .. n + 1 |-> a[i]]
    BY <2>0
  <2>2. o = [i \in 1 .. n + 1 |-> o[i]]
    BY <1>1, <1>2, <1>3
  <2>3. \A i \in 1 .. n + 1 : i = n + 1 \/ i \in 1 .. n
    BY <1>3
  <2>4. \A i \in 1 .. n + 1 : a[i] = o[i]
    BY <1>4, <2>0, <2>3
  <2>5. a = o
    BY <2>1, <2>2, <2>4
  <2> QED
    BY <2>5 DEF a
<1>7. \A i \in 1 .. Len(p) : p[i] = o[i]
  BY <1>4
<1> QED
  BY <1>2, <1>3, <1>4, <1>6, <1>7 DEF p, n, x

\* One call more has the nodes of its value and of its key.
LEMMA FramesGrow ==
  ASSUME NEW o, \E S : o \in Seq(S), \A i \in 1 .. Len(o) : Frame(o[i]), NEW f, Frame(f)
  PROVE  /\ InFrames(o) \in Nat
         /\ InFrames(Append(o, f)) = InFrames(o) + f.value.size + KeyNodes(f)
<1> DEFINE w(e) == e.value.size + KeyNodes(e)
           a == Append(o, f)
           t == [i \in DOMAIN o |-> w(o[i])]
           u == [i \in DOMAIN a |-> w(a[i])]
<1>1. PICK S : o \in Seq(S)
  OBVIOUS
<1>2. /\ a \in Seq(S \cup {f}) /\ Len(o) \in Nat /\ DOMAIN o = 1 .. Len(o)
      /\ DOMAIN a = 1 .. Len(o) + 1
      /\ a[Len(o) + 1] = f /\ \A i \in 1 .. Len(o) : a[i] = o[i]
  BY <1>1, OneMore
<1>3. w(f) \in Nat /\ \A i \in 1 .. Len(o) : w(o[i]) \in Nat
  <2>1. ASSUME NEW e, Frame(e)
        PROVE  w(e) \in Nat
    <3>1. e.value.size \in Nat /\ KeyNodes(e) \in {0, 1}
      BY <2>1, FrameFacts
    <3> QED
      BY <3>1
  <2> HIDE DEF w
  <2> QED
    BY <2>1
<1> HIDE DEF w, a
<1>4. t \in Seq(Nat) /\ Len(t) = Len(o) /\ \A i \in 1 .. Len(o) : t[i] = w(o[i])
  <2>1. t \in [1 .. Len(o) -> Nat]
    BY <1>2, <1>3
  <2> QED
    BY <1>2, <2>1
<1>5. u = Append(t, w(f))
  <2>1. u = [i \in 1 .. Len(o) + 1 |-> u[i]] /\ u[Len(o) + 1] = w(f)
        /\ \A i \in 1 .. Len(o) : u[i] = w(o[i])
    BY <1>2
  <2> HIDE DEF t, u
  <2> DEFINE b == Append(t, w(f))
  <2>2. /\ b \in Seq(Nat \cup {w(f)}) /\ Len(b) = Len(o) + 1 /\ b[Len(o) + 1] = w(f)
        /\ \A i \in 1 .. Len(o) : b[i] = t[i]
    BY <1>4, OneMore
  <2> HIDE DEF b
  <2>3. b = [i \in 1 .. Len(o) + 1 |-> b[i]]
    BY <2>2
  <2>4. \A i \in 1 .. Len(o) + 1 : i = Len(o) + 1 \/ i \in 1 .. Len(o)
    BY <1>2
  <2>5. \A i \in 1 .. Len(o) + 1 : u[i] = b[i]
    BY <1>4, <2>1, <2>2, <2>4
  <2>6. u = b
    BY <2>1, <2>3, <2>5
  <2> QED
    BY <2>6 DEF b
<1>6. InFrames(o) = Total(t) /\ InFrames(a) = Total(u)
  BY DEF InFrames, w
<1> HIDE DEF t, u
<1>7. Total(t) \in Nat /\ Total(u) = Total(t) + w(f)
  BY <1>3, <1>4, <1>5, TotalAppend
<1>8. f.value.size \in Nat /\ KeyNodes(f) \in Nat
  <2>1. f.value.size \in Nat /\ KeyNodes(f) \in {0, 1}
    BY FrameFacts
  <2> QED
    BY <2>1
<1> QED
  BY <1>6, <1>7, <1>8 DEF w, a

\* A call that waits is put on the others.
LEMMA StackPush ==
  ASSUME NEW t, NEW o, NEW p, Stack(t, o, p), NEW f, Frame(f), KeysRead(t, f, p), Waits(f)
  PROVE  Stack(t, Append(o, f), p)
<1>1. PICK S : o \in Seq(S)
  BY DEF Stack
<1> DEFINE a == Append(o, f)
<1>2. a \in Seq(S \cup {f}) /\ Len(a) = Len(o) + 1 /\ Len(o) \in Nat /\ a[Len(o) + 1] = f
      /\ \A i \in 1 .. Len(o) : a[i] = o[i]
  BY <1>1, OneMore
<1> HIDE DEF a
<1>3. \A i \in 1 .. Len(a) : i = Len(o) + 1 \/ i \in 1 .. Len(o)
  BY <1>2
<1>4. \A i \in 1 .. Len(a) : Frame(a[i]) /\ KeysRead(t, a[i], p) /\ Waits(a[i])
  BY <1>2, <1>3 DEF Stack
<1>5. Stack(t, a, p)
  BY <1>2, <1>4 DEF Stack
<1> QED
  BY <1>5 DEF a

\* The innermost of the calls that wait, and the others.
LEMMA StackPop ==
  ASSUME NEW t, NEW o, NEW p, Stack(t, o, p), o # <<>>
  PROVE  LET q == SubSeq(o, 1, Len(o) - 1)
             f == o[Len(o)]
         IN  /\ Stack(t, q, p) /\ Frame(f) /\ KeysRead(t, f, p) /\ Waits(f)
             /\ InFrames(q) \in Nat
             /\ InFrames(o) = InFrames(q) + f.value.size + KeyNodes(f)
<1> DEFINE q == SubSeq(o, 1, Len(o) - 1)
           f == o[Len(o)]
<1>1. \E S : o \in Seq(S)
  BY DEF Stack
<1>2. /\ o = Append(q, f) /\ \E S : q \in Seq(S)
      /\ Len(o) \in Nat \ {0} /\ Len(q) = Len(o) - 1
      /\ \A i \in 1 .. Len(q) : q[i] = o[i]
  BY <1>1, PartsMake
<1>3. Len(o) \in 1 .. Len(o) /\ \A i \in 1 .. Len(q) : i \in 1 .. Len(o)
  BY <1>2
<1> HIDE DEF q
<1>4. Frame(f) /\ KeysRead(t, f, p) /\ Waits(f)
  BY <1>3 DEF Stack
<1>5. Stack(t, q, p)
  <2>1. \A i \in 1 .. Len(q) : Frame(q[i]) /\ KeysRead(t, q[i], p) /\ Waits(q[i])
    BY <1>2, <1>3 DEF Stack
  <2> QED
    BY <1>2, <2>1 DEF Stack
<1> HIDE DEF f
<1>6. \A i \in 1 .. Len(q) : Frame(q[i])
  BY <1>5 DEF Stack
<1>7. InFrames(q) \in Nat /\ InFrames(Append(q, f)) = InFrames(q) + f.value.size + KeyNodes(f)
  BY <1>2, <1>4, <1>6, FramesGrow
<1> QED
  BY <1>2, <1>4, <1>5, <1>7 DEF q, f

\* What was read before a token was read before the later ones.
LEMMA ReadEarlier ==
  ASSUME NEW t \in Seq(STRING), NEW f, NEW p \in Nat, NEW r \in Nat, p <= r, KeysRead(t, f, p)
  PROVE  KeysRead(t, f, r)
<1>1. \A i \in DOMAIN t : i \in Nat /\ (i < p => i < r)
  OBVIOUS
<1> QED
  BY <1>1 DEF KeysRead, KeysBefore

\* The same of the calls that wait.
LEMMA StackLater ==
  ASSUME NEW t \in Seq(STRING), NEW o, NEW p \in Nat, NEW r \in Nat, p <= r, Stack(t, o, p)
  PROVE  Stack(t, o, r)
<1>1. \A i \in 1 .. Len(o) : KeysRead(t, o[i], r)
  BY ReadEarlier DEF Stack
<1> QED
  BY <1>1 DEF Stack

\* The call at the head of its loop, and the others.
LEMMA LoopFacts ==
  ASSUME JsonInv, mode = "loop"
  PROVE  /\ Frame(Top) /\ Top.key = NoKey /\ KeysRead(text, Top, pos) /\ Stack(text, Outer, pos)
         /\ InFrames(Outer) \in Nat /\ InFrames(open) = InFrames(Outer) + Top.value.size
<1>1. /\ open # <<>> /\ \E S : open \in Seq(S)
      /\ Frame(Top) /\ Top.key = NoKey /\ KeysRead(text, Top, pos) /\ Stack(text, Outer, pos)
  BY DEF JsonInv, Calls, Inside
<1>2. open = Append(Outer, Top) /\ \E S : Outer \in Seq(S)
  BY <1>1, PartsMake DEF Outer, Top
<1>3. \A i \in 1 .. Len(Outer) : Frame(Outer[i])
  BY <1>1 DEF Stack
<1>4. /\ InFrames(Outer) \in Nat
      /\ InFrames(Append(Outer, Top)) = InFrames(Outer) + Top.value.size + KeyNodes(Top)
  BY <1>1, <1>2, <1>3, FramesGrow
<1>5. KeyNodes(Top) = 0 /\ Top.value.size \in Nat
  <2>1. KeyNodes(Top) = 0 /\ Top.value.size \in Nat \ {0}
    BY <1>1, FrameFacts
  <2> QED
    BY <2>1
<1>6. InFrames(open) = InFrames(Outer) + Top.value.size + KeyNodes(Top)
  BY <1>2, <1>4
<1> QED
  BY <1>1, <1>4, <1>5, <1>6

\* The call that waits for a value, and the others.
LEMMA WaitFacts ==
  ASSUME JsonInv, mode # "loop", Inside
  PROVE  /\ Frame(Top) /\ Waits(Top) /\ KeysRead(text, Top, pos) /\ Stack(text, Outer, pos)
         /\ InFrames(Outer) \in Nat
         /\ InFrames(open) = InFrames(Outer) + Top.value.size + KeyNodes(Top)
<1>1. open # <<>> /\ Stack(text, open, pos)
  BY DEF JsonInv, Calls, Inside
<1> QED
  BY <1>1, StackPop DEF Outer, Top

\* The nodes of the calls, whatever comes next.
LEMMA InFramesNat ==
  ASSUME JsonInv
  PROVE  InFrames(open) \in Nat
<1>1. CASE mode = "loop"
  <2>1. Top.value.size \in Nat \ {0}
    BY <1>1, LoopFacts, FrameFacts
  <2> QED
    BY <1>1, <2>1, LoopFacts
<1>2. CASE mode # "loop"
  <2>1. /\ \E S : open \in Seq(S)
        /\ \A i \in 1 .. Len(open) : Frame(open[i])
    BY <1>2 DEF JsonInv, Calls, Stack
  <2>2. Frame([value |-> Empty("["), key |-> NoKey])
    BY EmptyIs DEF Frame
  <2> QED
    BY <2>1, <2>2, FramesGrow
<1> QED
  BY <1>1, <1>2

\* A scalar is one node.
LEMMA ParseScalarStep ==
  ASSUME JsonInv, ParseScalar
  PROVE  JsonInv'
<1>1. /\ mode = "value" /\ got'.size = 1 /\ pos' = pos + 1 /\ mode' = "got"
      /\ nodes' = nodes + 1 /\ text' = text /\ open' = open /\ lost' = lost
  BY DEF ParseScalar, Scalar
<1>2. text \in Seq(STRING) /\ pos \in Nat \ {0} /\ nodes \in Int /\ lost \in Nat
      /\ (lost > 0 => Repeats(text))
  BY DEF JsonInv
<1>3. Sized(got)' /\ pos' \in Nat \ {0} /\ pos <= pos'
  BY <1>1, <1>2 DEF Sized
<1>4. Stack(text, open, pos)
  BY <1>1 DEF JsonInv, Calls
<1>5. Stack(text, open, pos')
  BY <1>2, <1>3, <1>4, StackLater
<1>6. Calls'
  BY <1>1, <1>5 DEF Calls
<1>7. nodes' = lost' + InFrames(open)' + Given'
  <2>1. nodes = lost + InFrames(open) + 0
    BY <1>1 DEF JsonInv, Given
  <2>2. Given' = 1
    BY <1>1 DEF Given
  <2>3. InFrames(open)' = InFrames(open)
    BY <1>1 DEF InFrames, KeyNodes
  <2> QED
    BY <1>1, <1>2, <2>1, <2>2, <2>3, InFramesNat
<1> QED
  BY <1>1, <1>2, <1>3, <1>6, <1>7 DEF JsonInv

\* An empty list or map is one node, and so is one that is begun.
LEMMA ParseOpenStep ==
  ASSUME JsonInv, ParseOpen
  PROVE  JsonInv'
<1>1. /\ mode = "value" /\ Here \in {"{", "["} /\ nodes' = nodes + 1
      /\ text' = text /\ lost' = lost
  BY DEF ParseOpen
<1>2. text \in Seq(STRING) /\ pos \in Nat \ {0} /\ nodes \in Int /\ lost \in Nat /\ Sized(got)
      /\ (lost > 0 => Repeats(text)) /\ Stack(text, open, pos) /\ InFrames(open) \in Nat
  BY <1>1, InFramesNat DEF JsonInv, Calls
<1>3. /\ IsList(Empty(Here)) \/ IsMap(Empty(Here))
      /\ Empty(Here).size = 1 /\ Sized(Empty(Here))
      /\ IsMap(Empty(Here)) => DOMAIN Empty(Here).members = {}
  <2>1. CASE Here = "["
    BY <2>1, EmptyIs DEF IsList, IsMap
  <2>2. CASE Here = "{"
    <3>1. Empty("{").members = <<>>
      BY DEF Empty, Object
    <3>2. DOMAIN <<>> = {}
      OBVIOUS
    <3>3. DOMAIN Empty("{").members = {}
      BY Zenon, <3>1, <3>2
    <3> QED
      BY <2>2, <3>3, EmptyIs DEF IsMap
  <2> QED
    BY <1>1, <2>1, <2>2
<1>4. nodes = lost + InFrames(open)
  <2>1. nodes = lost + InFrames(open) + 0
    BY <1>1 DEF JsonInv, Given
  <2>2. lost \in Nat /\ InFrames(open) \in Nat
    BY <1>2
  <2> QED
    BY <2>1, <2>2
<1>7. text' \in Seq(STRING) /\ nodes' \in Int /\ lost' \in Nat /\ (lost' > 0 => Repeats(text'))
  <2>1. text \in Seq(STRING) /\ lost \in Nat /\ (lost > 0 => Repeats(text))
    BY DEF JsonInv
  <2>2. nodes \in Int
    BY DEF JsonInv
  <2>3. text' \in Seq(STRING) /\ lost' \in Nat /\ (lost' > 0 => Repeats(text'))
    BY <1>1, <2>1
  <2>4. nodes' \in Int
    <3>1. nodes' = nodes + 1
      BY <1>1
    <3> QED
      BY <2>2, <3>1
  <2> QED
    BY <2>3, <2>4
<1>5. CASE Token(pos + 1) = Closer(Here)
  <2>1. got' = Empty(Here) /\ pos' = pos + 2 /\ mode' = "got" /\ open' = open
    BY <1>5 DEF ParseOpen
  <2>2. pos' \in Nat \ {0} /\ pos' \in Nat /\ pos <= pos' /\ Sized(got)'
    BY <1>2, <1>3, <2>1 DEF Sized
  <2>3. Stack(text, open, pos')
    BY <1>2, <2>2, StackLater
  <2>4. Calls'
    BY <1>1, <2>1, <2>3 DEF Calls
  <2>5. nodes' = lost' + InFrames(open)' + Given'
    <3>1. Given' = 1
      BY <1>3, <2>1 DEF Given
    <3>2. InFrames(open)' = InFrames(open)
      BY <2>1 DEF InFrames, KeyNodes
    <3> QED
      BY <1>1, <1>2, <1>4, <3>1, <3>2
  <2> QED
    BY <1>7, <2>1, <2>2, <2>4, <2>5 DEF JsonInv
<1>6. CASE Token(pos + 1) # Closer(Here)
  <2> DEFINE f == [value |-> Empty(Here), key |-> NoKey]
  <2>1. open' = Append(open, f) /\ pos' = pos + 1 /\ mode' = "loop" /\ got' = got
    BY <1>6 DEF ParseOpen
  <2>2. pos' \in Nat \ {0} /\ pos' \in Nat /\ pos <= pos' /\ Sized(got)'
    BY <1>2, <2>1 DEF Sized
  <2>3. Frame(f) /\ f.key = NoKey /\ f.value.size = 1 /\ KeyNodes(f) = 0
    BY <1>3 DEF Frame, KeyNodes
  <2>4. KeysRead(text, f, pos')
    BY <1>3 DEF KeysRead, KeysBefore
  <2>5. Stack(text, open, pos') /\ (\E S : open \in Seq(S))
        /\ \A i \in 1 .. Len(open) : Frame(open[i])
    <3>1. Stack(text, open, pos')
      BY <1>2, <2>2, StackLater
    <3> QED
      BY <3>1 DEF Stack
  <2> HIDE DEF f
  <2>6. Top' = f /\ Outer' = open /\ Inside' /\ \E S : open' \in Seq(S)
    BY <2>1, <2>5, PartsOf DEF Top, Outer, Inside
  <2>7. Calls'
    BY <1>1, <2>1, <2>3, <2>4, <2>5, <2>6 DEF Calls
  <2>8. nodes' = lost' + InFrames(open)' + Given'
    <3>1. InFrames(Append(open, f)) = InFrames(open) + f.value.size + KeyNodes(f)
      BY <2>3, <2>5, FramesGrow
    <3>2. InFrames(open)' = InFrames(Append(open, f))
      BY <2>1 DEF InFrames, KeyNodes
    <3>3. Given' = 0
      BY <2>1 DEF Given
    <3>4. InFrames(Append(open, f)) = InFrames(open) + 1 + 0
      BY <2>3, <3>1
    <3>5. lost \in Nat /\ InFrames(open) \in Nat /\ nodes' = nodes + 1 /\ lost' = lost
      BY <1>1, <1>2
    <3> QED
      BY <1>4, <3>2, <3>3, <3>4, <3>5
  <2> QED
    BY <1>7, <2>1, <2>2, <2>7, <2>8 DEF JsonInv
<1> QED
  BY <1>5, <1>6

\* A value that cannot be read has no nodes; an item is asked for.
LEMMA NoValueStep ==
  ASSUME JsonInv, NoValue \/ NextItem
  PROVE  JsonInv'
<1>1. /\ text' = text /\ pos' = pos /\ open' = open /\ got' = got /\ nodes' = nodes /\ lost' = lost
      /\ mode \in {"value", "loop"} /\ mode' \in {"failed", "value"}
  BY DEF NoValue, NextItem
<1>2. Stack(text, open, pos)
  <2>1. CASE mode = "value"
    BY <2>1 DEF JsonInv, Calls
  <2>2. CASE mode = "loop"
    <3>1. open # <<>> /\ \E S : open \in Seq(S)
      BY <2>2 DEF JsonInv, Calls, Inside
    <3>2. open = Append(Outer, Top)
      BY <3>1, PartsMake DEF Outer, Top
    <3>3. Top.value.kind = "["
      BY <2>2 DEF NoValue, NextItem
    <3>4. Frame(Top) /\ KeysRead(text, Top, pos) /\ Waits(Top) /\ Stack(text, Outer, pos)
      BY <2>2, <3>3, LoopFacts DEF Waits, IsMap
    <3> QED
      BY <3>2, <3>4, StackPush
  <2> QED
    BY <1>1, <2>1, <2>2
<1>3. Calls'
  BY <1>1, <1>2 DEF Calls
<1>4. Given' = Given /\ InFrames(open)' = InFrames(open)
  BY <1>1 DEF Given, InFrames, KeyNodes
<1> QED
  BY <1>1, <1>3, <1>4 DEF JsonInv, Sized

\* At the end of the text the innermost call returns what it has.
LEMMA LoopEndsStep ==
  ASSUME JsonInv, LoopEnds
  PROVE  JsonInv'
<1>1. /\ mode = "loop" /\ got' = Top.value /\ open' = Outer /\ mode' = "got"
      /\ text' = text /\ pos' = pos /\ nodes' = nodes /\ lost' = lost
  BY DEF LoopEnds
<1>2. /\ Frame(Top) /\ Stack(text, Outer, pos) /\ Top.value.size \in Nat \ {0}
      /\ InFrames(Outer) \in Nat /\ InFrames(open) = InFrames(Outer) + Top.value.size
  BY <1>1, LoopFacts, FrameFacts
<1>3. Calls' /\ Sized(got)'
  BY <1>1, <1>2 DEF Calls, Sized
<1>4. nodes' = lost' + InFrames(open)' + Given'
  <2>1. nodes = lost + InFrames(open) + 0
    BY <1>1 DEF JsonInv, Given
  <2>2. Given' = Top.value.size
    BY <1>1 DEF Given
  <2>3. InFrames(open)' = InFrames(Outer)
    BY <1>1 DEF InFrames, KeyNodes
  <2>4. lost \in Nat /\ Top.value.size \in Nat
    BY <1>2 DEF JsonInv
  <2> QED
    BY <1>1, <1>2, <2>1, <2>2, <2>3, <2>4
<1> QED
  BY <1>1, <1>3, <1>4 DEF JsonInv

\* A call whose map has its next key: the value of that member is read next.
LEMMA NextMemberStep ==
  ASSUME JsonInv, NextMember
  PROVE  JsonInv'
<1> DEFINE f == [Top EXCEPT !.key = Here]
<1>1. /\ mode = "loop" /\ Top.value.kind = "{" /\ Here \in Keys /\ Token(pos + 1) = ":"
      /\ open' = Append(Outer, f) /\ pos' = pos + 2 /\ mode' = "value"
      /\ text' = text /\ got' = got /\ lost' = lost
  BY DEF NextMember, HasKey
<1>2. nodes' = nodes + 1
  BY DEF NextMember
<1>3. text \in Seq(STRING) /\ pos \in Nat \ {0} /\ lost \in Nat /\ Sized(got)
      /\ (lost > 0 => Repeats(text))
  BY DEF JsonInv
<1>4. pos' \in Nat \ {0} /\ pos' \in Nat /\ pos \in Nat /\ pos <= pos' /\ pos < pos'
  <2>1. pos' = pos + 2 /\ pos \in Nat
    BY <1>1, <1>3
  <2> QED
    BY <2>1
<1>5. /\ Frame(Top) /\ Top.key = NoKey /\ KeysRead(text, Top, pos) /\ Stack(text, Outer, pos)
      /\ InFrames(Outer) \in Nat /\ InFrames(open) = InFrames(Outer) + Top.value.size
  BY <1>1, LoopFacts
<1>6. pos \in DOMAIN text /\ text[pos] = Here /\ Member(text, pos)
  <2>1. Here # "end"
    BY <1>1, MarksAssumption
  <2>2. pos <= Len(text) /\ text[pos] = Here
    BY <2>1 DEF Here, Token
  <2>3. pos \in DOMAIN text
    BY <1>3, <2>2
  <2> QED
    BY <1>1, <2>2, <2>3 DEF Member, Token
<1>7. IsMap(Top.value)
  BY <1>1, <1>5, FrameFacts
<1>8. f = [value |-> Top.value, key |-> Here]
  BY <1>5 DEF Frame
<1>9. Here # NoKey
  BY <1>1, MarksAssumption
<1> HIDE DEF f
<1>10. Frame(f) /\ Waits(f) /\ f.value = Top.value /\ KeyNodes(f) = 1
  BY <1>1, <1>7, <1>8, <1>9 DEF Frame, Waits, KeyNodes
<1>11. KeysRead(text, f, pos')
  <2>1. KeysBefore(text, Top.value, pos)
    BY <1>5, <1>7 DEF KeysRead
  <2>2. f.key = Here /\ f.value = Top.value
    BY <1>8
  <2> QED
    BY <1>4, <1>6, <1>9, <2>1, <2>2 DEF KeysRead
<1>12. Stack(text, Outer, pos')
  BY <1>3, <1>4, <1>5, StackLater
<1>13. Calls'
  <2>1. Stack(text, Append(Outer, f), pos')
    BY <1>10, <1>11, <1>12, StackPush
  <2> QED
    BY <1>1, <2>1 DEF Calls
<1>14. nodes' = lost' + InFrames(open)' + Given'
  <2>1. nodes = lost + InFrames(open) + 0
    BY <1>1 DEF JsonInv, Given
  <2>2. Given' = 0
    BY <1>1 DEF Given
  <2>3. InFrames(open)' = InFrames(Append(Outer, f))
    BY <1>1 DEF InFrames, KeyNodes
  <2>4. InFrames(Append(Outer, f)) = InFrames(Outer) + Top.value.size + 1
    <3>1. (\E S : Outer \in Seq(S)) /\ \A i \in 1 .. Len(Outer) : Frame(Outer[i])
      BY <1>5 DEF Stack
    <3>2. InFrames(Append(Outer, f)) = InFrames(Outer) + f.value.size + KeyNodes(f)
      BY <1>10, <3>1, FramesGrow
    <3> QED
      BY <1>10, <3>2
  <2>5. Top.value.size \in Nat /\ InFrames(Outer) \in Nat /\ lost \in Nat
    <3>1. Top.value.size \in Nat \ {0}
      BY <1>5, FrameFacts
    <3> QED
      BY <1>3, <1>5, <3>1
  <2>6. InFrames(open) = InFrames(Outer) + Top.value.size /\ lost' = lost
    BY <1>1, <1>5
  <2> QED
    BY <1>2, <2>1, <2>2, <2>3, <2>4, <2>5, <2>6
<1>15. nodes' \in Int
  <2>1. nodes \in Int
    BY DEF JsonInv
  <2> QED
    BY <1>2, <2>1
<1> QED
  BY <1>1, <1>3, <1>4, <1>13, <1>14, <1>15 DEF JsonInv, Sized

\* A call that finds no key where one must be frees its map.
LEMMA NoMemberStep ==
  ASSUME JsonInv, NoMember
  PROVE  JsonInv'
<1>1. /\ mode = "loop" /\ open' = Outer /\ mode' = "failed"
      /\ text' = text /\ pos' = pos /\ got' = got /\ lost' = lost
  BY DEF NoMember
<1>2. nodes' = nodes - Top.value.size
  BY DEF NoMember
<1>3. /\ Frame(Top) /\ Stack(text, Outer, pos)
      /\ InFrames(Outer) \in Nat /\ InFrames(open) = InFrames(Outer) + Top.value.size
  BY <1>1, LoopFacts
<1>4. Calls'
  BY <1>1, <1>3 DEF Calls
<1>5. Top.value.size \in Nat
  <2>1. Top.value.size \in Nat \ {0}
    BY <1>3, FrameFacts
  <2> QED
    BY <2>1
<1>6. nodes' = lost' + InFrames(open)' + Given' /\ nodes' \in Int
  <2>1. nodes = lost + InFrames(open) + 0 /\ nodes \in Int /\ lost \in Nat
    BY <1>1 DEF JsonInv, Given
  <2>2. Given' = 0
    BY <1>1 DEF Given
  <2>3. InFrames(open)' = InFrames(Outer)
    BY <1>1 DEF InFrames, KeyNodes
  <2>4. InFrames(open) = InFrames(Outer) + Top.value.size /\ lost' = lost /\ InFrames(Outer) \in Nat
    BY <1>1, <1>3
  <2> QED
    BY <1>2, <1>5, <2>1, <2>2, <2>3, <2>4
<1> QED
  BY <1>1, <1>4, <1>6 DEF JsonInv, Sized

\* What a call has once the value that it waited for is stored: the nodes of
\* both, less those of the member that the value replaces, and that member's key
\* was in the text before.
LEMMA StoredFacts ==
  ASSUME JsonInv, mode = "got", Inside
  PROVE  LET v == Stored(Top.value)
         IN  /\ IsList(v) \/ IsMap(v)
             /\ Forgotten(Top.value) \in Nat
             /\ v.size = Top.value.size + got.size - Forgotten(Top.value)
             /\ Forgotten(Top.value) > 0 => Repeats(text)
             /\ KeysRead(text, [value |-> v, key |-> NoKey], pos)
<1> DEFINE v == Stored(Top.value)
           f == [value |-> v, key |-> NoKey]
<1>1. /\ Frame(Top) /\ Waits(Top) /\ KeysRead(text, Top, pos)
  BY WaitFacts
<1>2. Sized(got) /\ text \in Seq(STRING) /\ pos \in Nat
  BY DEF JsonInv
<1>3. Top.value.size \in Nat /\ got.size \in Nat
  <2>1. Top.value.size \in Nat \ {0}
    BY <1>1, FrameFacts
  <2> QED
    BY <1>2, <2>1 DEF Sized
<1>4. CASE IsList(Top.value)
  <2>1. Top.value.kind = "["
    BY <1>4 DEF IsList
  <2>2. v = Array(Append(Top.value.items, got)) /\ Forgotten(Top.value) = 0
    BY <2>1 DEF Stored, Forgotten
  <2>3. IsList(v) /\ v.size = Top.value.size + got.size
    BY <1>2, <1>4, <2>2, ListGrows
  <2> HIDE DEF v
  <2>4. KeysRead(text, f, pos)
    BY <2>3 DEF KeysRead, IsList, IsMap
  <2>5. v.size = Top.value.size + got.size - Forgotten(Top.value)
    BY <1>3, <2>2, <2>3
  <2> QED
    BY <2>2, <2>3, <2>4, <2>5 DEF v
<1>5. CASE IsMap(Top.value)
  <2> DEFINE key == Top.key
             m == Top.value.members
  <2>1. Top.value.kind = "{" /\ key \in Keys /\ key # NoKey
    BY <1>1, <1>5 DEF Frame, Waits, IsMap, IsList
  <2> DEFINE g == [k \in DOMAIN m \cup {key} |-> IF k = key THEN got ELSE m[k]]
             old == IF key \in DOMAIN m THEN m[key].size ELSE 0
  <2>2. v = Object(g) /\ Forgotten(Top.value) = old
    BY <2>1 DEF Stored, Forgotten
  <2>3. IsMap(v) /\ Forgotten(Top.value) \in Nat
        /\ v.size = Top.value.size + got.size - Forgotten(Top.value)
    <3>1. IsMap(Object(g)) /\ old \in Nat /\ Object(g).size = Top.value.size + got.size - old
      BY Zenon, <1>2, <1>5, <2>1, MapGrows
    <3> HIDE DEF v, g, old
    <3> QED
      BY <2>2, <3>1
  <2>4. v.members = g
    <3> HIDE DEF v, g
    <3> QED
      BY <2>2 DEF Object
  <2>5. DOMAIN v.members = DOMAIN m \cup {key}
    BY <2>4
  <2>6. PICK q \in DOMAIN text : q < pos /\ text[q] = key /\ Member(text, q)
                                 /\ KeysBefore(text, Top.value, q)
    BY <1>1, <1>5, <2>1 DEF KeysRead
  <2> HIDE DEF v, m, key, g
  <2>7. KeysBefore(text, v, pos)
    <3> SUFFICES ASSUME NEW k \in DOMAIN v.members
                 PROVE  \E i \in DOMAIN text : i < pos /\ text[i] = k /\ Member(text, i)
      BY DEF KeysBefore
    <3>1. CASE k = key
      BY <2>6, <3>1
    <3>2. CASE k # key
      <4>1. k \in DOMAIN m
        BY <2>5, <3>2
      <4>2. PICK i \in DOMAIN text : i < q /\ text[i] = k /\ Member(text, i)
        BY <2>6, <4>1 DEF KeysBefore, m
      <4>3. i \in Nat /\ q \in Nat
        BY <1>2
      <4>4. i < pos
        BY <1>2, <2>6, <4>2, <4>3
      <4> QED
        BY <4>2, <4>4
    <3> QED
      BY <3>1, <3>2
  <2>8. ASSUME Forgotten(Top.value) > 0
        PROVE  Repeats(text)
    <3>1. key \in DOMAIN m
      BY <2>2, <2>8 DEF old
    <3>2. PICK i \in DOMAIN text : i < q /\ text[i] = key /\ Member(text, i)
      BY <2>6, <3>1 DEF KeysBefore, m
    <3> QED
      BY <2>6, <3>2 DEF Repeats
  <2>9. KeysRead(text, f, pos)
    BY <2>7 DEF KeysRead
  <2> QED
    BY <2>3, <2>8, <2>9 DEF v
<1> QED
  BY <1>1, <1>4, <1>5 DEF Frame

\* The value goes into the list or map that waited for it, which is done, goes
\* on, or is freed with it.
LEMMA StoreStep ==
  ASSUME JsonInv, Store
  PROVE  JsonInv'
<1> DEFINE v == Stored(Top.value)
           f == [value |-> v, key |-> NoKey]
           d == Forgotten(Top.value)
<1>1. mode = "got" /\ Inside /\ text' = text
  BY DEF Store
<1>2. lost' = lost + d
  BY DEF Store
<1>3. /\ Frame(Top) /\ Stack(text, Outer, pos) /\ InFrames(Outer) \in Nat
      /\ InFrames(open) = InFrames(Outer) + Top.value.size + KeyNodes(Top)
  BY <1>1, WaitFacts
<1>4. /\ IsList(v) \/ IsMap(v)
      /\ d \in Nat /\ v.size = Top.value.size + got.size - d
      /\ d > 0 => Repeats(text)
      /\ KeysRead(text, f, pos)
  BY <1>1, StoredFacts
<1>5. \/ /\ got' = v /\ open' = Outer /\ pos' = pos + 1 /\ mode' = mode
         /\ nodes' = nodes - KeyNodes(Top)
      \/ /\ open' = Append(Outer, f) /\ pos' = pos + 1 /\ mode' = "loop" /\ got' = got
         /\ nodes' = nodes - KeyNodes(Top)
      \/ /\ open' = Outer /\ mode' = "failed" /\ got' = got /\ pos' = pos
         /\ nodes' = nodes - KeyNodes(Top) - v.size
  BY DEF Store
<1> HIDE DEF v, d
<1>6. text \in Seq(STRING) /\ pos \in Nat \ {0} /\ pos \in Nat /\ Sized(got)
  BY DEF JsonInv
<1>7. lost \in Nat /\ (lost > 0 => Repeats(text))
  BY DEF JsonInv
<1>8. lost' \in Nat /\ (lost' > 0 => Repeats(text'))
  <2>1. d \in Nat /\ (d > 0 => Repeats(text))
    BY <1>4
  <2>2. lost' \in Nat /\ (lost' > 0 => lost > 0 \/ d > 0)
    BY <1>2, <1>7, <2>1
  <2>3. lost' > 0 => Repeats(text)
    BY <1>7, <2>1, <2>2
  <2> QED
    BY <1>1, <2>2, <2>3
<1> DEFINE a == Top.value.size
           g == got.size
           n == KeyNodes(Top)
           w == v.size
           c == InFrames(Outer)
<1>9. a \in Nat /\ g \in Nat /\ n \in Nat /\ w \in Nat
  <2>1. a \in Nat \ {0} /\ n \in {0, 1}
    BY <1>3, FrameFacts
  <2>2. g \in Nat \ {0} /\ w \in Nat \ {0}
    BY <1>4, <1>6 DEF Sized, IsList, IsMap
  <2> HIDE DEF a, g, n, w
  <2> QED
    BY <2>1, <2>2
<1>10. nodes = lost + (c + a + n) + g
  BY <1>1, <1>3 DEF JsonInv, Given
<1>11. w = a + g - d /\ d \in Nat /\ c \in Nat
  BY <1>3, <1>4
<1> HIDE DEF a, g, n, w, c
<1>12. nodes - n = lost' + c + w /\ nodes - n - w = lost' + c /\ nodes - n \in Int /\ nodes - n - w \in Int
  BY <1>2, <1>7, <1>9, <1>10, <1>11
<1>13. Frame(f) /\ f.value = v /\ f.key = NoKey /\ KeyNodes(f) = 0
  BY <1>4 DEF Frame, KeyNodes
<1> HIDE DEF f
<1>14. InFrames(Append(Outer, f)) = c + w
  <2>1. (\E S : Outer \in Seq(S)) /\ \A i \in 1 .. Len(Outer) : Frame(Outer[i])
    BY <1>3 DEF Stack
  <2>2. InFrames(Append(Outer, f)) = c + f.value.size + KeyNodes(f)
    BY <1>13, <2>1, FramesGrow DEF c
  <2>3. InFrames(Append(Outer, f)) = c + w + 0
    BY <1>13, <2>2 DEF w
  <2> QED
    BY <1>9, <1>11, <2>3
<1>15. CASE got' = v /\ open' = Outer /\ pos' = pos + 1 /\ mode' = mode /\ nodes' = nodes - n
  <2>1. pos' \in Nat /\ pos' \in Nat \ {0} /\ pos <= pos'
    BY <1>6, <1>15
  <2>2. Stack(text, Outer, pos')
    BY <1>3, <1>6, <2>1, StackLater
  <2>3. Calls' /\ Sized(got)'
    BY <1>1, <1>4, <1>15, <2>2 DEF Calls, Sized, IsList, IsMap
  <2>4. InFrames(open)' = c /\ Given' = w
    BY <1>1, <1>15 DEF InFrames, KeyNodes, Given, c, w
  <2>5. nodes' = lost' + InFrames(open)' + Given' /\ nodes' \in Int
    BY <1>12, <1>15, <2>4
  <2>6. mode' \in {"value", "loop", "got", "failed", "accepted", "rejected"} /\ text' \in Seq(STRING)
    BY <1>1, <1>6, <1>15
  <2> QED
    BY <1>8, <2>1, <2>3, <2>5, <2>6 DEF JsonInv
<1>16. CASE open' = Append(Outer, f) /\ pos' = pos + 1 /\ mode' = "loop" /\ got' = got /\ nodes' = nodes - n
  <2>1. pos' \in Nat /\ pos' \in Nat \ {0} /\ pos <= pos'
    BY <1>6, <1>16
  <2>2. Stack(text, Outer, pos') /\ \E S : Outer \in Seq(S)
    BY <1>3, <1>6, <2>1, StackLater DEF Stack
  <2>3. KeysRead(text, f, pos')
    BY <1>4, <1>6, <2>1, ReadEarlier DEF f
  <2>4. Top' = f /\ Outer' = Outer /\ Inside' /\ \E S : open' \in Seq(S)
    BY <1>16, <2>2, PartsOf DEF Top, Outer, Inside
  <2>5. Calls' /\ Sized(got)'
    BY <1>1, <1>6, <1>13, <1>16, <2>2, <2>3, <2>4 DEF Calls, Sized
  <2>6. InFrames(open)' = c + w /\ Given' = 0
    <3>1. InFrames(open)' = InFrames(Append(Outer, f))
      BY <1>16 DEF InFrames, KeyNodes
    <3> QED
      BY <1>14, <1>16, <3>1 DEF Given
  <2>7. nodes' = lost' + InFrames(open)' + Given' /\ nodes' \in Int
    <3>1. nodes' = nodes - n /\ lost' \in Nat
      BY <1>8, <1>16
    <3> QED
      BY <1>9, <1>11, <1>12, <2>6, <3>1
  <2>8. mode' \in {"value", "loop", "got", "failed", "accepted", "rejected"} /\ text' \in Seq(STRING)
    BY <1>1, <1>6, <1>16
  <2> QED
    BY <1>8, <2>1, <2>5, <2>7, <2>8 DEF JsonInv
<1>17. CASE open' = Outer /\ mode' = "failed" /\ got' = got /\ pos' = pos /\ nodes' = nodes - n - w
  <2>1. Calls' /\ Sized(got)' /\ pos' \in Nat \ {0}
    BY <1>1, <1>3, <1>6, <1>17 DEF Calls, Sized
  <2>2. InFrames(open)' = c /\ Given' = 0
    BY <1>17 DEF InFrames, KeyNodes, Given, c
  <2>3. nodes' = lost' + InFrames(open)' + Given' /\ nodes' \in Int
    <3>1. nodes' = nodes - n - w /\ lost' \in Nat
      BY <1>8, <1>17
    <3> QED
      BY <1>11, <1>12, <2>2, <3>1
  <2>4. mode' \in {"value", "loop", "got", "failed", "accepted", "rejected"} /\ text' \in Seq(STRING)
    BY <1>1, <1>6, <1>17
  <2> QED
    BY <1>8, <2>1, <2>3, <2>4 DEF JsonInv
<1> QED
  BY <1>5, <1>15, <1>16, <1>17 DEF f, n, w

\* A call that fails takes its value, and the key it waited for, with it.
LEMMA UnwindStep ==
  ASSUME JsonInv, Unwind
  PROVE  JsonInv'
<1>1. /\ mode = "failed" /\ Inside /\ open' = Outer
      /\ text' = text /\ pos' = pos /\ got' = got /\ mode' = mode /\ lost' = lost
  BY DEF Unwind
<1>2. nodes' = nodes - Top.value.size - KeyNodes(Top)
  BY DEF Unwind
<1>3. /\ Frame(Top) /\ Stack(text, Outer, pos) /\ InFrames(Outer) \in Nat
      /\ InFrames(open) = InFrames(Outer) + Top.value.size + KeyNodes(Top)
  BY <1>1, WaitFacts
<1>4. Calls'
  BY <1>1, <1>3 DEF Calls
<1>5. Top.value.size \in Nat /\ KeyNodes(Top) \in Nat
  <2>1. Top.value.size \in Nat \ {0} /\ KeyNodes(Top) \in {0, 1}
    BY <1>3, FrameFacts
  <2> QED
    BY <2>1
<1>6. nodes' = lost' + InFrames(open)' + Given' /\ nodes' \in Int
  <2>1. nodes = lost + InFrames(open) + 0 /\ nodes \in Int /\ lost \in Nat
    BY <1>1 DEF JsonInv, Given
  <2>2. Given' = 0
    BY <1>1 DEF Given
  <2>3. InFrames(open)' = InFrames(Outer)
    BY <1>1 DEF InFrames, KeyNodes
  <2>4. InFrames(open) = InFrames(Outer) + Top.value.size + KeyNodes(Top)
        /\ lost' = lost /\ InFrames(Outer) \in Nat
    BY <1>1, <1>3
  <2> QED
    BY <1>2, <1>5, <2>1, <2>2, <2>3, <2>4
<1> QED
  BY <1>1, <1>4, <1>6 DEF JsonInv, Sized

\* The end of the reader: a value is given to the caller, or freed.
LEMMA EndStep ==
  ASSUME JsonInv, Accept \/ Reject
  PROVE  JsonInv'
<1>1. /\ mode \in {"got", "failed"} /\ mode' \in {"accepted", "rejected"}
      /\ text' = text /\ pos' = pos /\ open' = open /\ got' = got /\ lost' = lost
  BY DEF Accept, Reject
<1>2. Calls'
  BY <1>1 DEF JsonInv, Calls
<1>3. InFrames(open)' = InFrames(open)
  BY <1>1 DEF InFrames, KeyNodes
<1>4. lost \in Nat /\ got.size \in Nat /\ InFrames(open) \in Nat /\ nodes \in Int
  BY InFramesNat DEF JsonInv, Sized
<1>5. nodes' = lost' + InFrames(open)' + Given' /\ nodes' \in Int
  <2>1. CASE Accept
    <3>1. nodes' = nodes /\ Given' = Given
      BY <2>1 DEF Accept, Given
    <3>2. nodes = lost + InFrames(open) + Given
      BY DEF JsonInv
    <3> QED
      BY <1>1, <1>3, <1>4, <3>1, <3>2
  <2>2. CASE Reject /\ mode = "failed"
    <3>1. nodes' = nodes /\ Given' = 0 /\ Given = 0
      BY <2>2 DEF Reject, Given
    <3>2. nodes = lost + InFrames(open) + Given
      BY DEF JsonInv
    <3> QED
      BY <1>1, <1>3, <1>4, <3>1, <3>2
  <2>3. CASE Reject /\ mode = "got"
    <3>1. nodes' = nodes - got.size /\ Given' = 0 /\ Given = got.size
      BY <2>3 DEF Reject, Given
    <3>2. nodes = lost + InFrames(open) + Given
      BY DEF JsonInv
    <3>3. lost' = lost
      BY <1>1
    <3> QED
      BY <1>3, <1>4, <3>1, <3>2, <3>3
  <2> QED
    BY <1>1, <2>1, <2>2, <2>3
<1> QED
  BY <1>1, <1>2, <1>5 DEF JsonInv, Sized

\* Every step of the reader keeps count.
LEMMA JsonStep ==
  ASSUME JsonInv, JsonNext
  PROVE  JsonInv'
BY ParseScalarStep, ParseOpenStep, NoValueStep, LoopEndsStep, NextMemberStep, NoMemberStep,
   StoreStep, UnwindStep, EndStep DEF JsonNext

\* Before the first token nothing is read.
LEMMA JsonInitInv ==
  ASSUME NEW texts, texts \subseteq Seq(STRING), JsonInit(texts)
  PROVE  JsonInv
<1>1. /\ text \in Seq(STRING) /\ pos = 1 /\ open = <<>> /\ got = Array(<<>>)
      /\ mode = "value" /\ nodes = 0 /\ lost = 0
  BY DEF JsonInit
<1>2. Sized(got)
  BY <1>1, EmptyIs DEF Empty, IsList
<1>3. Stack(text, open, pos)
  <2>1. open \in Seq({}) /\ Len(open) = 0
    BY <1>1
  <2> QED
    BY <2>1 DEF Stack
<1>4. InFrames(open) = 0
  <2> DEFINE t == [i \in DOMAIN open |-> open[i].value.size + KeyNodes(open[i])]
  <2>1. t \in Seq(Nat) /\ Len(t) = 0
    BY <1>1
  <2> HIDE DEF t
  <2>2. \A i \in 1 .. Len(t) : t[i] = 0
    BY <2>1
  <2>3. Total(t) = 0
    BY <2>1, <2>2, TotalNone
  <2> QED
    BY <2>3 DEF t, InFrames
<1>5. nodes = lost + InFrames(open) + Given
  BY <1>1, <1>4 DEF Given
<1> QED
  BY <1>1, <1>2, <1>3, <1>5 DEF JsonInv, Calls

-----------------------------------------------------------------------------
(* The grammar.                                                               *)

\* g are the phrases of the last 0, 1, ... m tokens of a text
Stages(g, t, lax, m) ==
  /\ g = [n \in 0 .. m |-> g[n]]
  /\ g[0] = AtEnd(t, lax) /\ \A n \in 1 .. m : g[n] = From(t, Len(t) + 1 - n, g[n - 1])

\* The recursion of Phrases has a solution.
LEMMA StagesExist ==
  ASSUME NEW t \in Seq(STRING), NEW lax
  PROVE  \E g : Stages(g, t, lax, Len(t))
<1> DEFINE S == {m \in Nat : \E g : Stages(g, t, lax, m)}
<1>0. Len(t) \in Nat /\ 0 \in Nat
  OBVIOUS
<1>1. 0 \in S
  <2> DEFINE g == [n \in 0 .. 0 |-> AtEnd(t, lax)]
  <2>1. g = [n \in 0 .. 0 |-> g[n]] /\ g[0] = AtEnd(t, lax) /\ 1 .. 0 = {}
    OBVIOUS
  <2> HIDE DEF g
  <2>2. Stages(g, t, lax, 0)
    BY <2>1 DEF Stages
  <2> QED
    BY <2>2
<1>2. ASSUME NEW k \in 0 .. Len(t) - 1, k \in S
      PROVE  k + 1 \in S
  <2> DEFINE m == k + 1
  <2>1. k \in Nat /\ m \in Nat /\ m # 0 /\ m - 1 = k /\ 0 \in 0 .. k /\ k \in 0 .. k
    BY <1>0
  <2>2. PICK g : Stages(g, t, lax, k)
    BY <1>2
  <2> DEFINE h == [n \in 0 .. m |-> IF n = m THEN From(t, Len(t) + 1 - m, g[k]) ELSE g[n]]
  <2>3. \A n \in 1 .. m : n = m \/ (n \in 1 .. k /\ n # m /\ n - 1 \in 0 .. k /\ n - 1 # m)
    BY <2>1
  <2>4. m \in 0 .. m /\ 0 # m /\ \A n \in 0 .. k : n \in 0 .. m /\ n # m
    BY <2>1
  <2>5. h[m] = From(t, Len(t) + 1 - m, g[k]) /\ h = [n \in 0 .. m |-> h[n]]
        /\ \A n \in 0 .. k : h[n] = g[n]
    BY <2>4
  <2> HIDE DEF h, m
  <2>6. \A n \in 1 .. k : n \in 0 .. k
    BY <2>1
  <2>7. \A n \in 1 .. m : h[n] = From(t, Len(t) + 1 - n, h[n - 1])
    <3> SUFFICES ASSUME NEW n \in 1 .. m
                 PROVE  h[n] = From(t, Len(t) + 1 - n, h[n - 1])
      OBVIOUS
    <3>1. CASE n = m
      BY <2>1, <2>5, <3>1
    <3>2. CASE n # m
      <4>1. n \in 1 .. k /\ n - 1 \in 0 .. k
        BY <2>3, <3>2
      <4>2. g[n] = From(t, Len(t) + 1 - n, g[n - 1])
        BY <2>2, <4>1 DEF Stages
      <4> QED
        BY <2>5, <2>6, <4>1, <4>2
    <3> QED
      BY <3>1, <3>2
  <2>8. h[0] = AtEnd(t, lax)
    BY <2>1, <2>2, <2>5 DEF Stages
  <2>9. Stages(h, t, lax, m)
    BY <2>5, <2>7, <2>8 DEF Stages
  <2> QED
    BY <2>1, <2>9 DEF m
<1>3. \A k \in 0 .. Len(t) : k \in S
  <2> HIDE DEF S
  <2> QED
    BY <1>0, <1>1, <1>2, Climb
<1> QED
  BY <1>0, <1>3

\* So Phrases is the last of the stages.
LEMMA PhrasesAre ==
  ASSUME NEW t \in Seq(STRING), NEW lax
  PROVE  \E g : Stages(g, t, lax, Len(t)) /\ Phrases(t, lax) = g[Len(t)]
<1> DEFINE N == Len(t)
           F(g) == [n \in 0 .. N |-> IF n = 0 THEN AtEnd(t, lax) ELSE From(t, N + 1 - n, g[n - 1])]
           last == CHOOSE g : g = F(g)
<1>1. Phrases(t, lax) = last[N]
  BY Zenon DEF Phrases
<1>2. PICK g : Stages(g, t, lax, N)
  BY StagesExist
<1>3. N \in Nat
  OBVIOUS
<1> HIDE DEF N
<1>4. g = F(g)
  <2>1. \A n \in 0 .. N : n = 0 \/ (n \in 1 .. N /\ n # 0)
    BY <1>3
  <2>2. \A n \in 0 .. N : g[n] = IF n = 0 THEN AtEnd(t, lax) ELSE From(t, N + 1 - n, g[n - 1])
    BY <1>2, <2>1 DEF Stages, N
  <2>3. g = [n \in 0 .. N |-> g[n]]
    BY <1>2 DEF Stages
  <2> QED
    BY <2>2, <2>3
<1>5. last = F(last)
  <2> HIDE DEF F
  <2> QED
    BY <1>4
<1> HIDE DEF last
<1>6. Stages(last, t, lax, N)
  <2>1. last = [n \in 0 .. N |-> last[n]]
    <3>1. DOMAIN last = 0 .. N
      BY <1>5
    <3>2. last = [n \in DOMAIN last |-> last[n]]
      BY <1>5
    <3> QED
      BY <3>1, <3>2
  <2>2. 0 \in 0 .. N /\ \A n \in 1 .. N : n \in 0 .. N /\ n # 0
    BY <1>3
  <2>3. \A n \in 0 .. N : last[n] = IF n = 0 THEN AtEnd(t, lax) ELSE From(t, N + 1 - n, last[n - 1])
    BY <1>5
  <2> QED
    BY <2>1, <2>2, <2>3 DEF Stages, N
<1> QED
  BY <1>1, <1>6 DEF N

\* What a phrase can be in a text of n tokens.
Fits(p, n) ==
  /\ p.is \in {"value", "{", "["} /\ p.from \in 1 .. n + 1 /\ p.to \in p.from .. n + 1
  /\ p = Phrase(p.is, p.from, p.to, p.means)
  /\ p.is = "value" => p.to > p.from
  /\ p.is = "[" => \E S : p.means \in Seq(S)
  /\ p.is = "{" => p.means = [k \in DOMAIN p.means |-> p.means[k]]

\* The phrases from one token on are new, and fit.
LEMMA FromFits ==
  ASSUME NEW t \in Seq(STRING), NEW i \in 1 .. Len(t), NEW later, \A p \in later : Fits(p, Len(t))
  PROVE  /\ \A p \in Values(t, i, later) : Fits(p, Len(t)) /\ p.from = i /\ p.is = "value"
         /\ \A ps : (\A p \in ps : Fits(p, Len(t))) =>
              \A kind \in {"{", "["} : \A p \in Rests(kind, t, i, ps) :
                Fits(p, Len(t)) /\ p.from = i /\ p.is = kind
<1> DEFINE n == Len(t)
<1>1. n \in Nat /\ i \in 1 .. n + 1 /\ i + 1 \in i .. n + 1 /\ i + 1 > i /\ i \in Nat
  OBVIOUS
<1>0. \A p \in later : Fits(p, n)
  OBVIOUS
<1> HIDE DEF n
<1>2. ASSUME NEW p \in Values(t, i, later)
      PROVE  Fits(p, n) /\ p.from = i /\ p.is = "value"
  <2>1. CASE p \in {Phrase("value", i, i + 1, Scalar(token)) : token \in {t[i]} \cap (Keys \cup Others)}
    <3>1. p = Phrase("value", i, i + 1, Scalar(t[i]))
      BY <2>1
    <3> QED
      BY <1>1, <3>1 DEF Fits, Phrase
  <2>2. ASSUME NEW kind \in {t[i]} \cap {"{", "["}, Mark(t, i + 1) = Closer(kind),
               p = Phrase("value", i, i + 2, Whole(kind, <<>>))
        PROVE  Fits(p, n) /\ p.from = i /\ p.is = "value"
    <3>1. i + 1 <= n
      BY <2>2 DEF Mark, Closer, n
    <3>2. i + 2 \in i .. n + 1 /\ i + 2 > i
      BY <1>1, <3>1
    <3> QED
      BY <1>1, <2>2, <3>2 DEF Fits, Phrase
  <2>3. ASSUME NEW kind \in {t[i]} \cap {"{", "["}, NEW q \in Begins(later, kind, i + 1),
               p = Phrase("value", i, q.to, Whole(kind, q.means))
        PROVE  Fits(p, n) /\ p.from = i /\ p.is = "value"
    <3>1. q.from = i + 1 /\ q.to \in q.from .. n + 1
      BY <1>0, <2>3 DEF Begins, Fits
    <3>2. q.to \in i .. n + 1 /\ q.to > i
      BY <1>1, <3>1
    <3> QED
      BY <1>1, <2>3, <3>2 DEF Fits, Phrase
  <2> QED
    BY <2>1, <2>2, <2>3 DEF Values
<1>3. ASSUME NEW ps, \A p \in ps : Fits(p, n), NEW kind, kind \in {"{", "["},
             NEW p \in Rests(kind, t, i, ps)
      PROVE  Fits(p, n) /\ p.from = i /\ p.is = kind
  <2>1. PICK e \in Elements(kind, t, i, ps) :
          p \in IF Mark(t, e.to) = Closer(kind)
                THEN {Phrase(kind, i, e.to + 1, Sole(kind, t[i], e.means))}
                ELSE IF Mark(t, e.to) = ","
                THEN {Phrase(kind, i, q.to, Join(kind, Sole(kind, t[i], e.means), q.means)) :
                      q \in Begins(ps, kind, e.to + 1)}
                ELSE {}
    BY <1>3 DEF Rests
  <2>2. e \in ps /\ e.is = "value" /\ e.from \in {i, i + 2}
    BY <2>1 DEF Elements, Begins
  <2>3. e.to \in Nat /\ e.to > i /\ e.to <= n + 1
    <3>1. e.from \in Nat /\ e.from >= i
      BY <1>1, <2>2
    <3>2. e.to \in e.from .. n + 1 /\ e.to > e.from
      BY <1>3, <2>2 DEF Fits
    <3> QED
      BY <1>1, <3>1, <3>2
  <2>4. /\ kind = "[" => \E S : Sole(kind, t[i], e.means) \in Seq(S)
        /\ kind = "{" => Sole(kind, t[i], e.means)
                         = [k \in DOMAIN Sole(kind, t[i], e.means) |-> Sole(kind, t[i], e.means)[k]]
    <3>1. <<e.means>> \in Seq({e.means})
      OBVIOUS
    <3> DEFINE f == [k \in {t[i]} |-> e.means]
    <3>2. f = [k \in DOMAIN f |-> f[k]]
      OBVIOUS
    <3>3. kind = "[" => Sole(kind, t[i], e.means) = <<e.means>>
      BY DEF Sole
    <3>4. kind = "{" => Sole(kind, t[i], e.means) = f
      BY DEF Sole
    <3> HIDE DEF f
    <3> QED
      BY <3>1, <3>2, <3>3, <3>4
  <2>5. CASE Mark(t, e.to) = Closer(kind)
    <3>1. e.to <= n
      BY <1>3, <2>5 DEF Mark, Closer, n
    <3>2. p = Phrase(kind, i, e.to + 1, Sole(kind, t[i], e.means))
      BY <2>1, <2>5
    <3>3. e.to + 1 \in i .. n + 1
      BY <1>1, <2>3, <3>1
    <3> QED
      BY <1>1, <1>3, <2>4, <3>2, <3>3 DEF Fits, Phrase
  <2>6. CASE Mark(t, e.to) # Closer(kind)
    <3>1. PICK q \in Begins(ps, kind, e.to + 1) :
            p = Phrase(kind, i, q.to, Join(kind, Sole(kind, t[i], e.means), q.means))
      BY <2>1, <2>6
    <3>2. Fits(q, n) /\ q.is = kind /\ q.from = e.to + 1
      BY <1>3, <3>1 DEF Begins
    <3>3. q.to \in i .. n + 1
      <4>1. q.to \in q.from .. n + 1
        BY <3>2 DEF Fits
      <4> QED
        BY <1>1, <2>3, <3>2, <4>1
    <3> DEFINE a == Sole(kind, t[i], e.means)
    <3>4. kind = "[" => \E S : Join(kind, a, q.means) \in Seq(S)
      <4> SUFFICES ASSUME kind = "["
                   PROVE  \E S : Join(kind, a, q.means) \in Seq(S)
        OBVIOUS
      <4>1. PICK A : a \in Seq(A)
        BY <2>4
      <4>2. PICK B : q.means \in Seq(B)
        BY <3>2 DEF Fits
      <4> HIDE DEF a
      <4>3. a \in Seq(A \cup B) /\ q.means \in Seq(A \cup B)
        BY <4>1, <4>2
      <4>4. a \o q.means \in Seq(A \cup B)
        BY <4>3
      <4> QED
        BY <4>4 DEF Join
    <3>5. kind = "{" => Join(kind, a, q.means) = [k \in DOMAIN Join(kind, a, q.means) |->
                                                  Join(kind, a, q.means)[k]]
      BY DEF Join
    <3> HIDE DEF a
    <3> QED
      BY <1>1, <1>3, <3>1, <3>3, <3>4, <3>5 DEF Fits, Phrase, a
  <2> QED
    BY <2>5, <2>6
<1> QED
  BY <1>2, <1>3 DEF n

\* What a text means from a token on is made of what it means from later ones.
LEMMA FromAre ==
  ASSUME NEW t \in Seq(STRING), NEW i \in 1 .. Len(t), NEW P, \A p \in P : Fits(p, Len(t)),
         {p \in P : p.from >= i} = From(t, i, {p \in P : p.from > i})
  PROVE  /\ Begins(P, "value", i) = Values(t, i, P)
         /\ \A kind \in {"{", "["} : Begins(P, kind, i) = Rests(kind, t, i, P)
<1> DEFINE n == Len(t)
           L == {p \in P : p.from > i}
           V == Values(t, i, L)
           ps == L \cup V
<1>0. n \in Nat /\ i \in Nat /\ i + 1 > i /\ i + 2 > i /\ \A p \in P : p.from \in Nat /\ p.to \in Nat
  <2>1. \A p \in P : p.from \in 1 .. Len(t) + 1 /\ p.to \in p.from .. Len(t) + 1
    BY DEF Fits
  <2>2. n \in Nat /\ i \in Nat
    OBVIOUS
  <2> HIDE DEF n
  <2>3. \A p \in P : p.from \in Nat
    BY <2>1
  <2> QED
    BY <2>1, <2>2, <2>3
<1>1. \A is, j : j > i => Begins(L, is, j) = Begins(P, is, j)
  BY DEF Begins
<1>2. V = Values(t, i, P)
  <2>1. \A kind : Begins(L, kind, i + 1) = Begins(P, kind, i + 1)
    BY <1>0, <1>1
  <2> HIDE DEF L
  <2> QED
    BY <2>1 DEF Values
<1>3. /\ \A p \in V : Fits(p, n) /\ p.from = i /\ p.is = "value"
      /\ \A p \in ps : Fits(p, n)
      /\ \A kind \in {"{", "["} : \A p \in Rests(kind, t, i, ps) :
           Fits(p, n) /\ p.from = i /\ p.is = kind
  <2>1. \A p \in L : Fits(p, Len(t))
    OBVIOUS
  <2> HIDE DEF L
  <2>2. \A p \in V : Fits(p, n) /\ p.from = i /\ p.is = "value"
    BY <2>1, FromFits
  <2> HIDE DEF V
  <2>3. \A p \in ps : Fits(p, n)
    BY <2>1, <2>2
  <2> HIDE DEF ps
  <2>4. \A kind \in {"{", "["} : \A p \in Rests(kind, t, i, ps) :
          Fits(p, n) /\ p.from = i /\ p.is = kind
    BY Zenon, <2>1, <2>3, FromFits
  <2> QED
    BY <2>2, <2>3, <2>4
<1>4. {p \in P : p.from >= i} = ps \cup Rests("{", t, i, ps) \cup Rests("[", t, i, ps)
  BY DEF From
<1> HIDE DEF n, V
<1>5. V \subseteq P /\ L \subseteq P
  BY <1>4
<1>6. ASSUME NEW p \in P, p.from = i
      PROVE  p \in V \/ p \in Rests("{", t, i, ps) \/ p \in Rests("[", t, i, ps)
  <2>1. p.from >= i /\ ~(p.from > i)
    BY <1>0, <1>6
  <2>2. p \in ps \cup Rests("{", t, i, ps) \cup Rests("[", t, i, ps) /\ p \notin L
    BY <1>4, <2>1
  <2> QED
    BY <2>2
<1>7. Begins(P, "value", i) = V
  <2>1. ASSUME NEW p \in Begins(P, "value", i)
        PROVE  p \in V
    <3>1. p \in P /\ p.from = i /\ p.is = "value"
      BY DEF Begins
    <3> HIDE DEF ps
    <3> QED
      BY <1>3, <1>6, <3>1
  <2>2. ASSUME NEW p \in V
        PROVE  p \in Begins(P, "value", i)
    BY <1>3, <1>5 DEF Begins
  <2> QED
    BY <2>1, <2>2
<1>8. /\ Begins(ps, "value", i) = Begins(P, "value", i)
      /\ \A is, j : j > i => Begins(ps, is, j) = Begins(P, is, j)
  <2>1. \A p \in ps : p \in P
    BY <1>5
  <2>2. \A p \in P : p.from > i => p \in ps
    OBVIOUS
  <2> HIDE DEF ps
  <2>3. \A is, j : j > i => Begins(ps, is, j) = Begins(P, is, j)
    BY <2>1, <2>2 DEF Begins
  <2>4. \A p \in V : p \in ps
    BY DEF ps
  <2>5. Begins(ps, "value", i) = Begins(P, "value", i)
    <3>1. \A p \in Begins(P, "value", i) : p \in ps /\ p.is = "value" /\ p.from = i
      BY <1>7, <2>4 DEF Begins
    <3> QED
      BY <2>1, <3>1 DEF Begins
  <2> QED
    BY <2>3, <2>5
<1> HIDE DEF ps
<1>9. ASSUME NEW kind, kind \in {"{", "["}
      PROVE  Rests(kind, t, i, ps) = Rests(kind, t, i, P)
  <2>1. Elements(kind, t, i, ps) = Elements(kind, t, i, P)
    <3>1. Begins(ps, "value", i + 2) = Begins(P, "value", i + 2)
      BY <1>0, <1>8
    <3> QED
      BY <1>8, <3>1 DEF Elements
  <2> DEFINE C(e, Q) == {Phrase(kind, i, p.to, Join(kind, Sole(kind, t[i], e.means), p.means)) :
                         p \in Begins(Q, kind, e.to + 1)}
  <2>2. ASSUME NEW e \in Elements(kind, t, i, P)
        PROVE  C(e, ps) = C(e, P)
    <3>1. e \in P /\ e.is = "value" /\ e.from \in {i, i + 2}
      BY DEF Elements, Begins
    <3>2. e.to > e.from
      BY <3>1 DEF Fits
    <3>3. e.from = i \/ e.from = i + 2
      BY <3>1
    <3>4. e.to \in Nat /\ e.from \in Nat
      BY <1>0, <3>1
    <3>5. \A a, b \in Nat : b > a /\ (a = i \/ a = i + 2) => b + 1 > i
      BY <1>0
    <3>6. e.to + 1 > i
      BY Zenon, <3>2, <3>3, <3>4, <3>5
    <3>7. Begins(ps, kind, e.to + 1) = Begins(P, kind, e.to + 1)
      BY <1>8, <3>6
    <3> QED
      BY <3>7
  <2> DEFINE F(e, Q) == IF Mark(t, e.to) = Closer(kind)
                        THEN {Phrase(kind, i, e.to + 1, Sole(kind, t[i], e.means))}
                        ELSE IF Mark(t, e.to) = "," THEN C(e, Q) ELSE {}
  <2>3. /\ Rests(kind, t, i, ps) = UNION {F(e, ps) : e \in Elements(kind, t, i, ps)}
        /\ Rests(kind, t, i, P) = UNION {F(e, P) : e \in Elements(kind, t, i, P)}
    BY Zenon DEF Rests
  <2> HIDE DEF C
  <2>4. \A e \in Elements(kind, t, i, P) : F(e, ps) = F(e, P)
    BY <2>2
  <2> HIDE DEF F
  <2> DEFINE E == Elements(kind, t, i, P)
  <2> HIDE DEF E
  <2>5. {F(e, ps) : e \in E} = {F(e, P) : e \in E}
    BY <2>4 DEF E
  <2> QED
    BY <2>1, <2>3, <2>5 DEF E
<1>10. ASSUME NEW kind, kind \in {"{", "["}
       PROVE  Begins(P, kind, i) = Rests(kind, t, i, ps)
  <2>1. ASSUME NEW p \in Begins(P, kind, i)
        PROVE  p \in Rests(kind, t, i, ps)
    <3>1. p \in P /\ p.from = i /\ p.is = kind /\ kind # "value"
      BY <1>10 DEF Begins
    <3> QED
      BY <1>3, <1>10, <1>6, <3>1
  <2>2. ASSUME NEW p \in Rests(kind, t, i, ps)
        PROVE  p \in Begins(P, kind, i)
    BY <1>3, <1>4, <1>10 DEF Begins
  <2> QED
    BY <2>1, <2>2
<1> QED
  BY <1>2, <1>7, <1>9, <1>10

\* The phrases of a text satisfy the grammar.
LEMMA Grammar ==
  ASSUME NEW t \in Seq(STRING), NEW lax
  PROVE  /\ \A p \in Phrases(t, lax) : Fits(p, Len(t))
         /\ \A i \in 1 .. Len(t) :
              /\ Begins(Phrases(t, lax), "value", i) = Values(t, i, Phrases(t, lax))
              /\ \A kind \in {"{", "["} :
                   Begins(Phrases(t, lax), kind, i) = Rests(kind, t, i, Phrases(t, lax))
         /\ {p \in Phrases(t, lax) : p.from = Len(t) + 1} = AtEnd(t, lax)
<1> DEFINE n == Len(t)
           P == Phrases(t, lax)
<1>0. n \in Nat /\ n + 1 \in 1 .. n + 1 /\ 0 \in Nat
  OBVIOUS
<1>1. PICK g : Stages(g, t, lax, n) /\ P = g[n]
  BY PhrasesAre
<1>2. g[0] = AtEnd(t, lax) /\ \A k \in 1 .. n : g[k] = From(t, n + 1 - k, g[k - 1])
  BY <1>1 DEF Stages
<1>3. \A p \in AtEnd(t, lax) : Fits(p, n) /\ p.from = n + 1
  <2>1. n + 1 \in n + 1 .. n + 1
    <3> HIDE DEF n
    <3> QED
      BY <1>0
  <2>2. <<>> \in Seq({})
    OBVIOUS
  <2>3. DOMAIN <<>> = {}
    OBVIOUS
  <2>4. <<>> = [k \in DOMAIN <<>> |-> <<>>[k]]
    <3>1. <<>> \in [1 .. 0 -> {}] /\ 1 .. 0 = DOMAIN <<>>
      BY <2>2
    <3> QED
      BY <3>1
  <2> SUFFICES ASSUME NEW kind, kind \in {"{", "["}
               PROVE  /\ Fits(Phrase(kind, n + 1, n + 1, <<>>), n)
                      /\ Phrase(kind, n + 1, n + 1, <<>>).from = n + 1
    BY DEF AtEnd
  <2> HIDE DEF n
  <2> QED
    BY <1>0, <2>1, <2>2, <2>4 DEF Fits, Phrase
<1> DEFINE S == {k \in Nat : \A p \in g[k] : Fits(p, n) /\ p.from >= n + 1 - k}
<1>4. ASSUME NEW k \in 0 .. n - 1, k \in S
      PROVE  /\ k + 1 \in S /\ g[k] \subseteq g[k + 1]
             /\ \A p \in g[k + 1] : p \in g[k] \/ p.from = n - k
  <2> DEFINE i == n - k
  <2>1. i \in 1 .. Len(t) /\ k + 1 \in 1 .. n /\ (k + 1) - 1 = k /\ n + 1 - (k + 1) = i /\ k \in Nat
        /\ k + 1 \in Nat /\ n + 1 - k > i /\ i \in Nat
    BY <1>0
  <2>2. g[k + 1] = From(t, i, g[k])
    BY <1>2, <2>1
  <2> HIDE DEF i
  <2>3. \A p \in g[k] : Fits(p, Len(t)) /\ p.from >= n + 1 - k
    BY <1>4
  <2>11. i \in 1 .. Len(t) /\ \A p \in g[k] : Fits(p, Len(t))
    BY <2>1, <2>3
  <2> DEFINE later == g[k]
  <2> HIDE DEF later, n
  <2>12. \A p \in later : Fits(p, Len(t))
    BY <2>11 DEF later
  <2>4. \A p \in Values(t, i, later) : Fits(p, Len(t)) /\ p.from = i
    BY <2>11, <2>12, FromFits
  <2> DEFINE ps == later \cup Values(t, i, later)
  <2>5. \A p \in ps : Fits(p, Len(t))
    BY <2>12, <2>4
  <2> HIDE DEF ps
  <2>6. \A kind \in {"{", "["} : \A p \in Rests(kind, t, i, ps) : Fits(p, Len(t)) /\ p.from = i
    <3>1. \A qs : (\A p \in qs : Fits(p, Len(t))) =>
                   \A kind \in {"{", "["} : \A p \in Rests(kind, t, i, qs) :
                     Fits(p, Len(t)) /\ p.from = i /\ p.is = kind
      BY <2>11, <2>12, FromFits
    <3> QED
      BY Zenon, <2>5, <3>1
  <2>7. g[k + 1] = ps \cup Rests("{", t, i, ps) \cup Rests("[", t, i, ps)
    BY <2>2 DEF From, ps, later
  <2>8. g[k] \subseteq g[k + 1]
    BY <2>7 DEF ps, later
  <2>9. \A p \in g[k + 1] : Fits(p, n) /\ (p \in g[k] \/ p.from = i)
    <3>1. \A p \in ps : p \in g[k] \/ p.from = i
      BY <2>4 DEF ps, later
    <3> QED
      BY <2>5, <2>6, <2>7, <3>1 DEF n
  <2>10. ASSUME NEW p \in g[k + 1]
         PROVE  p.from >= n + 1 - (k + 1)
    <3> HIDE DEF n
    <3>1. p.from = i \/ (p.from >= n + 1 - k /\ p.from \in Nat)
      <4>1. Fits(p, n) => p.from \in Nat
        <5>1. Fits(p, n) => p.from \in 1 .. n + 1
          BY DEF Fits
        <5> QED
          BY <1>0, <5>1
      <4> QED
        BY <2>3, <2>9, <4>1
    <3> QED
      BY <1>0, <2>1, <3>1 DEF i
  <2> HIDE DEF n
  <2> QED
    BY <2>1, <2>8, <2>9, <2>10 DEF i
<1>5. \A k \in 0 .. n : k \in S
  <2>1. 0 \in S
    <3>1. \A p \in g[0] : Fits(p, n) /\ p.from = n + 1
      BY <1>2, <1>3
    <3> HIDE DEF n
    <3> QED
      BY <1>0, <3>1
  <2> HIDE DEF S, n
  <2> QED
    BY <1>0, <1>4, <2>1, Climb
<1>6. ASSUME NEW k \in 0 .. n
      PROVE  {p \in P : p.from >= n + 1 - k} = g[k]
  <2> DEFINE T == {m \in Nat : {p \in g[m] : p.from >= n + 1 - k} = g[k]}
  <2>1. k \in Nat /\ k \in T
    <3> HIDE DEF n
    <3> QED
      BY <1>5, <1>0
  <2>2. ASSUME NEW m \in k .. n - 1, m \in T
        PROVE  m + 1 \in T
    <3> HIDE DEF n
    <3>1. m \in 0 .. n - 1 /\ m + 1 \in Nat /\ ~(n - m >= n + 1 - k) /\ m \in 0 .. n
      BY <1>0, <2>1
    <3>2. m \in S
      BY <1>5, <3>1
    <3> HIDE DEF S
    <3>3. g[m] \subseteq g[m + 1] /\ \A p \in g[m + 1] : p \in g[m] \/ p.from = n - m
      BY <1>4, <3>1, <3>2
    <3>4. \A p \in g[m + 1] : p.from >= n + 1 - k => p \in g[m]
      BY <3>1, <3>3
    <3>5. {p \in g[m + 1] : p.from >= n + 1 - k} = {p \in g[m] : p.from >= n + 1 - k}
      BY <3>3, <3>4
    <3> QED
      BY <2>2, <3>1, <3>5
  <2>3. n \in T
    <3>1. n \in k .. n
      BY <1>0
    <3> HIDE DEF T, n
    <3> QED
      BY <1>0, <2>1, <2>2, <3>1, Climb
  <2> QED
    BY <1>1, <2>3
<1>7. \A p \in P : Fits(p, n)
  <2>1. n \in 0 .. n
    BY <1>0
  <2> HIDE DEF n
  <2> QED
    BY <1>1, <1>5, <2>1
<1>8. ASSUME NEW i \in 1 .. n
      PROVE  {p \in P : p.from >= i} = From(t, i, {p \in P : p.from > i})
  <2> DEFINE k == n + 1 - i
  <2> HIDE DEF n
  <2>1. k \in 1 .. n /\ k \in 0 .. n /\ k - 1 \in 0 .. n /\ n + 1 - k = i /\ n + 1 - (k - 1) = i + 1
    BY <1>0
  <2> HIDE DEF k
  <2>2. g[k] = From(t, i, g[k - 1])
    BY <1>2, <2>1
  <2>3. {p \in P : p.from >= i} = g[k] /\ {p \in P : p.from >= i + 1} = g[k - 1]
    BY <1>6, <2>1
  <2>4. \A p \in P : p.from \in Nat
    <3>1. \A p \in P : p.from \in 1 .. n + 1
      BY <1>7 DEF Fits
    <3> QED
      BY <1>0, <3>1
  <2>5. {p \in P : p.from >= i + 1} = {p \in P : p.from > i}
    BY <2>4
  <2> QED
    BY <2>2, <2>3, <2>5
<1>9. {p \in P : p.from = n + 1} = AtEnd(t, lax)
  <2> HIDE DEF n
  <2>1. {p \in P : p.from >= n + 1 - 0} = AtEnd(t, lax)
    BY <1>0, <1>2, <1>6
  <2>2. \A p \in P : p.from >= n + 1 - 0 <=> p.from = n + 1
    <3>1. \A p \in P : p.from \in 1 .. n + 1
      BY <1>7 DEF Fits
    <3> QED
      BY <1>0, <3>1
  <2> QED
    BY <2>1, <2>2
<1> HIDE DEF P
<1>10. \A i \in 1 .. Len(t) : /\ Begins(P, "value", i) = Values(t, i, P)
                              /\ \A kind \in {"{", "["} : Begins(P, kind, i) = Rests(kind, t, i, P)
  BY <1>7, <1>8, FromAre
<1> QED
  BY <1>7, <1>9, <1>10 DEF P

-----------------------------------------------------------------------------
(* What the reader may take for granted of the grammar.                       *)

Reads(t, is, i, j, m) == Phrase(is, i, j, m) \in Phrases(t, TRUE)

\* an element at token i, read up to token k
Element(t, kind, i, k, x) ==
  IF kind = "[" THEN Reads(t, "value", i, k, x)
  ELSE t[i] \in Keys /\ Mark(t, i + 1) = ":" /\ Reads(t, "value", i + 2, k, x)

\* the rest behind an element
Ends(t, kind, key, k, x, j, m) ==
  IF Mark(t, k) = Closer(kind) THEN j = k + 1 /\ m = Sole(kind, key, x)
  ELSE Mark(t, k) = "," /\ \E r : Reads(t, kind, k + 1, j, r) /\ m = Join(kind, Sole(kind, key, x), r)

\* A phrase is what it is made of.
LEMMA PhraseIs ==
  /\ \A is, i, j, m : /\ Phrase(is, i, j, m).is = is /\ Phrase(is, i, j, m).from = i
                      /\ Phrase(is, i, j, m).to = j /\ Phrase(is, i, j, m).means = m
  /\ \A is, i, j, m, js, k, l, x :
       Phrase(is, i, j, m) = Phrase(js, k, l, x) <=> is = js /\ i = k /\ j = l /\ m = x
BY DEF Phrase

\* What a phrase of a text is like.
LEMMA ReadsFit ==
  ASSUME NEW t \in Seq(STRING), NEW is, NEW i, NEW j, NEW m, Reads(t, is, i, j, m)
  PROVE  /\ i \in 1 .. Len(t) + 1 /\ j \in i .. Len(t) + 1 /\ (is = "value" => j > i)
         /\ is = "[" => \E S : m \in Seq(S)
         /\ is = "{" => m = [k \in DOMAIN m |-> m[k]]
<1>1. Fits(Phrase(is, i, j, m), Len(t))
  BY Grammar DEF Reads
<1> DEFINE p == Phrase(is, i, j, m)
           n == Len(t)
<1>2. p.is = is /\ p.from = i /\ p.to = j /\ p.means = m
  BY DEF Phrase
<1> HIDE DEF p, n
<1>3. /\ p.from \in 1 .. n + 1 /\ p.to \in p.from .. n + 1
      /\ p.is = "value" => p.to > p.from
      /\ p.is = "[" => \E S : p.means \in Seq(S)
      /\ p.is = "{" => p.means = [k \in DOMAIN p.means |-> p.means[k]]
  BY Zenon, <1>1 DEF Fits, p, n
<1> QED
  BY <1>2, <1>3 DEF n

\* a scalar, an empty bracket, or a bracket and the rest in it
ValueFrom(t, i, j, w) ==
  \/ t[i] \in Keys \cup Others /\ j = i + 1 /\ w = Scalar(t[i])
  \/ /\ t[i] \in {"{", "["}
     /\ IF Mark(t, i + 1) = Closer(t[i]) THEN j = i + 2 /\ w = Whole(t[i], <<>>)
        ELSE \E m : Reads(t, t[i], i + 1, j, m) /\ w = Whole(t[i], m)

\* A value is one of these.
LEMMA ValueAt ==
  ASSUME NEW t \in Seq(STRING), NEW i \in 1 .. Len(t), NEW j, NEW w
  PROVE  Reads(t, "value", i, j, w) <=> ValueFrom(t, i, j, w)
<1> DEFINE P == Phrases(t, TRUE)
           p == Phrase("value", i, j, w)
<1>1. Begins(P, "value", i) = Values(t, i, P) /\ \A q \in P : Fits(q, Len(t))
  BY Grammar
<1> HIDE DEF P
<1>2. Reads(t, "value", i, j, w) <=> p \in Values(t, i, P)
  <2>1. Reads(t, "value", i, j, w) <=> p \in P
    BY DEF Reads, P
  <2>2. p.is = "value" /\ p.from = i
    BY PhraseIs
  <2> HIDE DEF p
  <2>3. p \in P <=> p \in Begins(P, "value", i)
    BY <2>2 DEF Begins
  <2> QED
    BY <1>1, <2>1, <2>3
<1>3. p \in {Phrase("value", i, i + 1, Scalar(token)) : token \in {t[i]} \cap (Keys \cup Others)}
      <=> t[i] \in Keys \cup Others /\ j = i + 1 /\ w = Scalar(t[i])
  BY PhraseIs
<1> DEFINE A(kind) == IF Mark(t, i + 1) = Closer(kind)
                      THEN {Phrase("value", i, i + 2, Whole(kind, <<>>))}
                      ELSE {Phrase("value", i, q.to, Whole(kind, q.means)) :
                            q \in Begins(P, kind, i + 1)}
<1>4. ASSUME NEW kind
      PROVE  p \in A(kind) <=>
               IF Mark(t, i + 1) = Closer(kind) THEN j = i + 2 /\ w = Whole(kind, <<>>)
               ELSE \E m : Reads(t, kind, i + 1, j, m) /\ w = Whole(kind, m)
  <2>1. CASE Mark(t, i + 1) = Closer(kind)
    BY <2>1, PhraseIs
  <2>2. CASE Mark(t, i + 1) # Closer(kind)
    <3>1. ASSUME NEW q \in Begins(P, kind, i + 1), p = Phrase("value", i, q.to, Whole(kind, q.means))
          PROVE  \E m : Reads(t, kind, i + 1, j, m) /\ w = Whole(kind, m)
      <4>1. q = Phrase(kind, i + 1, q.to, q.means) /\ q \in P
        <5>1. q \in P /\ q.is = kind /\ q.from = i + 1
          BY <3>1 DEF Begins
        <5>2. q = Phrase(q.is, q.from, q.to, q.means)
          BY <1>1, <5>1 DEF Fits
        <5> QED
          BY <5>1, <5>2
      <4>2. j = q.to /\ w = Whole(kind, q.means)
        BY <3>1 DEF Phrase
      <4>3. Reads(t, kind, i + 1, j, q.means)
        BY Zenon, <4>1, <4>2 DEF Reads, P
      <4> QED
        BY Zenon, <4>2, <4>3
    <3>2. ASSUME NEW m, Reads(t, kind, i + 1, j, m), w = Whole(kind, m)
          PROVE  \E q \in Begins(P, kind, i + 1) : p = Phrase("value", i, q.to, Whole(kind, q.means))
      <4> DEFINE q == Phrase(kind, i + 1, j, m)
      <4>1. q \in P /\ q.is = kind /\ q.from = i + 1 /\ q.to = j /\ q.means = m
        <5>1. q \in P
          BY <3>2 DEF Reads, P
        <5> QED
          BY <5>1 DEF Phrase
      <4> HIDE DEF q
      <4>2. q \in Begins(P, kind, i + 1)
        BY <4>1 DEF Begins
      <4> QED
        BY Zenon, <3>2, <4>1, <4>2
    <3>3. A(kind) = {Phrase("value", i, q.to, Whole(kind, q.means)) : q \in Begins(P, kind, i + 1)}
      BY <2>2
    <3> HIDE DEF A, p
    <3>4. p \in A(kind) <=>
            \E q \in Begins(P, kind, i + 1) : p = Phrase("value", i, q.to, Whole(kind, q.means))
      BY <3>3
    <3> QED
      BY Zenon, <2>2, <3>1, <3>2, <3>4
  <2> QED
    BY <2>1, <2>2
<1>5. p \in Values(t, i, P) <=>
        \/ p \in {Phrase("value", i, i + 1, Scalar(token)) : token \in {t[i]} \cap (Keys \cup Others)}
        \/ \E kind \in {t[i]} \cap {"{", "["} : p \in A(kind)
  <2>1. Values(t, i, P) =
          {Phrase("value", i, i + 1, Scalar(token)) : token \in {t[i]} \cap (Keys \cup Others)}
          \cup UNION {A(kind) : kind \in {t[i]} \cap {"{", "["}}
    BY Zenon DEF Values
  <2> HIDE DEF A, p
  <2> QED
    BY <2>1
<1> HIDE DEF A, p
<1>6. (\E kind \in {t[i]} \cap {"{", "["} : p \in A(kind)) <=> t[i] \in {"{", "["} /\ p \in A(t[i])
  OBVIOUS
<1> QED
  BY Zenon, <1>2, <1>3, <1>4, <1>5, <1>6 DEF ValueFrom

\* Nothing begins behind the end, and there only what is left out of a lax text.
LEMMA ReadsEnd ==
  ASSUME NEW t \in Seq(STRING), NEW j, NEW m
  PROVE  /\ ~Reads(t, "value", Len(t) + 1, j, m)
         /\ \A kind \in {"{", "["} :
              Reads(t, kind, Len(t) + 1, j, m) <=> j = Len(t) + 1 /\ m = <<>>
<1> DEFINE P == Phrases(t, TRUE)
           n == Len(t)
<1>1. {p \in P : p.from = n + 1} = AtEnd(t, TRUE)
  BY Grammar
<1>2. AtEnd(t, TRUE) = {Phrase(kind, n + 1, n + 1, <<>>) : kind \in {"{", "["}}
  BY DEF AtEnd
<1> HIDE DEF P, n
<1>3. ASSUME NEW is
      PROVE  Reads(t, is, n + 1, j, m) <=> is \in {"{", "["} /\ j = n + 1 /\ m = <<>>
  <2> DEFINE p == Phrase(is, n + 1, j, m)
  <2>1. Reads(t, is, n + 1, j, m) <=> p \in {q \in P : q.from = n + 1}
    <3>1. Reads(t, is, n + 1, j, m) <=> p \in P
      BY DEF Reads, P
    <3>2. p.from = n + 1
      BY DEF Phrase
    <3> HIDE DEF p
    <3> QED
      BY <3>1, <3>2
  <2>2. p \in AtEnd(t, TRUE) <=> is \in {"{", "["} /\ j = n + 1 /\ m = <<>>
    <3>1. \A kind : p = Phrase(kind, n + 1, n + 1, <<>>)
                    <=> is = kind /\ j = n + 1 /\ m = <<>>
      BY DEF Phrase
    <3> HIDE DEF p
    <3>2. p \in AtEnd(t, TRUE) <=> \E kind \in {"{", "["} : p = Phrase(kind, n + 1, n + 1, <<>>)
      BY <1>2
    <3> QED
      BY <3>1, <3>2
  <2> QED
    BY <1>1, <2>1, <2>2
<1>4. "value" \notin {"{", "["}
  OBVIOUS
<1> QED
  BY Zenon, <1>3, <1>4 DEF n

\* What begins at a token is what is read there.
LEMMA BeginsAre ==
  ASSUME NEW t \in Seq(STRING), NEW is, NEW l
  PROVE  LET B == Begins(Phrases(t, TRUE), is, l)
         IN  /\ \A k, x : Reads(t, is, l, k, x) => \E q \in B : q.to = k /\ q.means = x
             /\ \A q \in B : Reads(t, is, l, q.to, q.means)
<1> DEFINE P == Phrases(t, TRUE)
           B == Begins(P, is, l)
<1>1. \A q \in P : q = Phrase(q.is, q.from, q.to, q.means)
  <2>1. \A q \in P : Fits(q, Len(t))
    BY Grammar
  <2> HIDE DEF P
  <2> QED
    BY <2>1 DEF Fits
<1> HIDE DEF P
<1>2. ASSUME NEW k, NEW x, Reads(t, is, l, k, x)
      PROVE  \E q \in B : q.to = k /\ q.means = x
  <2> DEFINE q == Phrase(is, l, k, x)
  <2>1. q.is = is /\ q.from = l /\ q.to = k /\ q.means = x
    BY DEF Phrase
  <2>2. q \in P
    BY <1>2 DEF Reads, P
  <2> HIDE DEF q
  <2>3. q \in B
    BY <2>1, <2>2 DEF Begins
  <2> QED
    BY <2>1, <2>3
<1>3. ASSUME NEW q \in B
      PROVE  Reads(t, is, l, q.to, q.means)
  <2>1. q \in P /\ q.is = is /\ q.from = l
    BY DEF Begins
  <2>2. q = Phrase(q.is, q.from, q.to, q.means)
    BY <1>1, <2>1
  <2>3. Phrase(is, l, q.to, q.means) \in P
    BY <2>1, <2>2
  <2> QED
    BY <2>3 DEF Reads, P
<1> QED
  BY <1>2, <1>3 DEF P

\* The elements at a token.
LEMMA ElementsAre ==
  ASSUME NEW t \in Seq(STRING), NEW kind, NEW i
  PROVE  LET E == Elements(kind, t, i, Phrases(t, TRUE))
         IN  /\ \A k, x : Element(t, kind, i, k, x) => \E e \in E : e.to = k /\ e.means = x
             /\ \A e \in E : Element(t, kind, i, e.to, e.means)
<1> DEFINE P == Phrases(t, TRUE)
           E == Elements(kind, t, i, P)
<1> HIDE DEF P
<1>1. ASSUME NEW l
      PROVE  /\ \A k, x : Reads(t, "value", l, k, x) =>
                            \E q \in Begins(P, "value", l) : q.to = k /\ q.means = x
             /\ \A q \in Begins(P, "value", l) : Reads(t, "value", l, q.to, q.means)
  BY BeginsAre DEF P
<1> SUFFICES /\ \A k, x : Element(t, kind, i, k, x) => \E e \in E : e.to = k /\ e.means = x
             /\ \A e \in E : Element(t, kind, i, e.to, e.means)
  BY DEF P
<1>2. CASE kind = "["
  <2>1. E = Begins(P, "value", i)
    BY <1>2 DEF Elements
  <2>2. \A k, x : Element(t, kind, i, k, x) <=> Reads(t, "value", i, k, x)
    BY <1>2 DEF Element
  <2> HIDE DEF E
  <2> QED
    BY <1>1, <2>1, <2>2
<1>3. CASE kind # "[" /\ t[i] \in Keys /\ Mark(t, i + 1) = ":"
  <2>1. E = Begins(P, "value", i + 2)
    BY <1>3 DEF Elements
  <2>2. \A k, x : Element(t, kind, i, k, x) <=> Reads(t, "value", i + 2, k, x)
    BY <1>3 DEF Element
  <2> HIDE DEF E
  <2> QED
    BY <1>1, <2>1, <2>2
<1>4. CASE kind # "[" /\ ~(t[i] \in Keys /\ Mark(t, i + 1) = ":")
  <2>1. E = {}
    BY <1>4 DEF Elements
  <2>2. \A k, x : ~Element(t, kind, i, k, x)
    BY <1>4 DEF Element
  <2> HIDE DEF E
  <2> QED
    BY <2>1, <2>2
<1> QED
  BY <1>2, <1>3, <1>4

\* What is behind an element.
LEMMA BehindIs ==
  ASSUME NEW t \in Seq(STRING), NEW kind, NEW i, NEW j, NEW m, NEW e
  PROVE  Phrase(kind, i, j, m) \in
           (IF Mark(t, e.to) = Closer(kind) THEN {Phrase(kind, i, e.to + 1, Sole(kind, t[i], e.means))}
            ELSE IF Mark(t, e.to) = ","
            THEN {Phrase(kind, i, q.to, Join(kind, Sole(kind, t[i], e.means), q.means)) :
                  q \in Begins(Phrases(t, TRUE), kind, e.to + 1)}
            ELSE {})
         <=> Ends(t, kind, t[i], e.to, e.means, j, m)
<1> DEFINE P == Phrases(t, TRUE)
           p == Phrase(kind, i, j, m)
           S == Sole(kind, t[i], e.means)
           B == Begins(P, kind, e.to + 1)
           C == {Phrase(kind, i, q.to, Join(kind, S, q.means)) : q \in B}
<1>0. /\ \A k, x : Reads(t, kind, e.to + 1, k, x) => \E q \in B : q.to = k /\ q.means = x
      /\ \A q \in B : Reads(t, kind, e.to + 1, q.to, q.means)
  BY BeginsAre
<1> HIDE DEF P
<1>1. CASE Mark(t, e.to) = Closer(kind)
  <2>1. p = Phrase(kind, i, e.to + 1, S) <=> j = e.to + 1 /\ m = S
    BY DEF Phrase
  <2> HIDE DEF p
  <2>2. p \in {Phrase(kind, i, e.to + 1, S)} <=> Ends(t, kind, t[i], e.to, e.means, j, m)
    BY <1>1, <2>1 DEF Ends
  <2> QED
    BY <1>1, <2>2 DEF p
<1>2. CASE Mark(t, e.to) # Closer(kind) /\ Mark(t, e.to) # ","
  BY <1>2 DEF Ends
<1>3. CASE Mark(t, e.to) # Closer(kind) /\ Mark(t, e.to) = ","
  <2>1. ASSUME NEW q
        PROVE  p = Phrase(kind, i, q.to, Join(kind, S, q.means))
               <=> j = q.to /\ m = Join(kind, S, q.means)
    BY DEF Phrase
  <2> HIDE DEF p, S
  <2>2. ASSUME NEW r, Reads(t, kind, e.to + 1, j, r), m = Join(kind, S, r)
        PROVE  \E q \in B : j = q.to /\ m = Join(kind, S, q.means)
    <3> HIDE DEF B
    <3>1. PICK q \in B : q.to = j /\ q.means = r
      BY <1>0, <2>2
    <3> QED
      BY <2>2, <3>1
  <2>3. ASSUME NEW q \in B
        PROVE  Reads(t, kind, e.to + 1, q.to, q.means)
    BY <1>0
  <2> HIDE DEF B
  <2>4. p \in C <=> \E q \in B : p = Phrase(kind, i, q.to, Join(kind, S, q.means))
    OBVIOUS
  <2> HIDE DEF C
  <2>5. p \in C <=> \E r : Reads(t, kind, e.to + 1, j, r) /\ m = Join(kind, S, r)
    BY <2>1, <2>2, <2>3, <2>4
  <2>6. p \in C <=> Ends(t, kind, t[i], e.to, e.means, j, m)
    BY <1>3, <2>5 DEF Ends, S
  <2> QED
    BY <1>3, <2>6 DEF p, C, B, S, P
<1> QED
  BY <1>1, <1>2, <1>3

\* A rest is an element and what is behind it.
LEMMA RestAt ==
  ASSUME NEW t \in Seq(STRING), NEW i \in 1 .. Len(t), NEW kind \in {"{", "["},
         NEW j, NEW m
  PROVE  Reads(t, kind, i, j, m) <=>
           \E k, x : Element(t, kind, i, k, x) /\ Ends(t, kind, t[i], k, x, j, m)
<1> DEFINE P == Phrases(t, TRUE)
           p == Phrase(kind, i, j, m)
           E == Elements(kind, t, i, P)
           F(e) == IF Mark(t, e.to) = Closer(kind) THEN {Phrase(kind, i, e.to + 1, Sole(kind, t[i], e.means))}
                   ELSE IF Mark(t, e.to) = ","
                   THEN {Phrase(kind, i, q.to, Join(kind, Sole(kind, t[i], e.means), q.means)) :
                         q \in Begins(P, kind, e.to + 1)}
                   ELSE {}
<1>1. Begins(P, kind, i) = Rests(kind, t, i, P)
  BY Grammar
<1>2. Rests(kind, t, i, P) = UNION {F(e) : e \in E}
  BY Zenon DEF Rests
<1>3. ASSUME NEW e
      PROVE  p \in F(e) <=> Ends(t, kind, t[i], e.to, e.means, j, m)
  BY Zenon, BehindIs
<1>4. /\ \A k, x : Element(t, kind, i, k, x) => \E e \in E : e.to = k /\ e.means = x
      /\ \A e \in E : Element(t, kind, i, e.to, e.means)
  BY Zenon, ElementsAre
<1> HIDE DEF P
<1>5. Reads(t, kind, i, j, m) <=> \E e \in E : p \in F(e)
  <2>1. Reads(t, kind, i, j, m) <=> p \in P
    BY DEF Reads, P
  <2>2. p.is = kind /\ p.from = i
    BY DEF Phrase
  <2> HIDE DEF p, E, F
  <2>3. p \in P <=> p \in Begins(P, kind, i)
    BY <2>2 DEF Begins
  <2> QED
    BY <1>1, <1>2, <2>1, <2>3
<1> HIDE DEF E, F, p
<1>6. ASSUME NEW k, NEW x, Element(t, kind, i, k, x), Ends(t, kind, t[i], k, x, j, m)
      PROVE  \E e \in E : p \in F(e)
  <2>1. PICK e \in E : e.to = k /\ e.means = x
    BY Zenon, <1>4, <1>6
  <2>2. Ends(t, kind, t[i], e.to, e.means, j, m)
    BY <1>6, <2>1
  <2> QED
    BY Zenon, <1>3, <2>1, <2>2
<1> QED
  BY Zenon, <1>3, <1>4, <1>5, <1>6

-----------------------------------------------------------------------------
(* What is in a value, and what it becomes with more.                         *)

Contents(v) == IF v.kind = "[" THEN v.items ELSE v.members
Made(v, m) == Whole(v.kind, Join(v.kind, Contents(v), m))

\* The empty sequence has no elements.
LEMMA EmptyDomain == DOMAIN <<>> = {}
  OBVIOUS

\* It is the function that nothing is in the domain of.
LEMMA EmptyIsFunction == <<>> = [k \in DOMAIN <<>> |-> <<>>[k]]
<1>1. <<>> \in Seq({})
  OBVIOUS
<1>2. <<>> \in [1 .. 0 -> {}] /\ 1 .. 0 = DOMAIN <<>>
  BY <1>1
<1> QED
  BY <1>2

\* A value is made of what is in it.
LEMMA MadeIs ==
  ASSUME NEW kind, kind \in {"{", "["}, NEW a
  PROVE  Whole(kind, a).kind = kind /\ Contents(Whole(kind, a)) = a
BY DEF Whole, Contents, Object, Array

\* Parts are joined in their order, however they are grouped.
LEMMA JoinMore ==
  ASSUME NEW kind, NEW a, NEW b, NEW c,
         kind = "[" => \E S : a \in Seq(S) /\ b \in Seq(S) /\ c \in Seq(S)
  PROVE  Join(kind, a, Join(kind, b, c)) = Join(kind, Join(kind, a, b), c)
<1>1. CASE kind = "["
  <2>1. PICK S : a \in Seq(S) /\ b \in Seq(S) /\ c \in Seq(S)
    BY <1>1
  <2>2. (a \o b) \o c = a \o (b \o c)
    BY <2>1, ConcatAssociative
  <2> QED
    BY <1>1, <2>2 DEF Join
<1>2. CASE kind # "["
  <2> DEFINE D == DOMAIN a \cup DOMAIN b \cup DOMAIN c
             f == [k \in DOMAIN b \cup DOMAIN c |-> IF k \in DOMAIN c THEN c[k] ELSE b[k]]
             g == [k \in DOMAIN a \cup DOMAIN b |-> IF k \in DOMAIN b THEN b[k] ELSE a[k]]
             h == [k \in D |-> IF k \in DOMAIN c THEN c[k] ELSE IF k \in DOMAIN b THEN b[k] ELSE a[k]]
  <2>1. Join(kind, b, c) = f /\ Join(kind, a, b) = g
    BY <1>2 DEF Join
  <2>2. DOMAIN f = DOMAIN b \cup DOMAIN c /\ DOMAIN g = DOMAIN a \cup DOMAIN b
        /\ (\A k \in DOMAIN f : f[k] = IF k \in DOMAIN c THEN c[k] ELSE b[k])
        /\ \A k \in DOMAIN g : g[k] = IF k \in DOMAIN b THEN b[k] ELSE a[k]
    OBVIOUS
  <2> HIDE DEF f, g
  <2>3. Join(kind, a, f) = [k \in DOMAIN a \cup DOMAIN f |-> IF k \in DOMAIN f THEN f[k] ELSE a[k]]
        /\ Join(kind, g, c) = [k \in DOMAIN g \cup DOMAIN c |-> IF k \in DOMAIN c THEN c[k] ELSE g[k]]
    BY <1>2 DEF Join
  <2>4. [k \in DOMAIN a \cup DOMAIN f |-> IF k \in DOMAIN f THEN f[k] ELSE a[k]] = h
    BY <2>2
  <2>5. [k \in DOMAIN g \cup DOMAIN c |-> IF k \in DOMAIN c THEN c[k] ELSE g[k]] = h
    BY <2>2
  <2> QED
    BY <2>1, <2>3, <2>4, <2>5
<1> QED
  BY <1>1, <1>2

\* Nothing before parts leaves them as they are.
LEMMA JoinFirst ==
  ASSUME NEW kind, NEW m,
         kind = "[" => \E S : m \in Seq(S), kind # "[" => m = [k \in DOMAIN m |-> m[k]]
  PROVE  Join(kind, <<>>, m) = m
<1>1. CASE kind = "["
  <2>1. PICK S : m \in Seq(S)
    BY <1>1
  <2>2. <<>> \o m = m
    BY Zenon, <2>1, ConcatEmptySeq
  <2> QED
    BY <1>1, <2>2 DEF Join
<1>2. CASE kind # "["
  <2>1. DOMAIN <<>> = {}
    BY Zenon, EmptyDomain
  <2>2. Join(kind, <<>>, m) = [k \in DOMAIN <<>> \cup DOMAIN m |->
                               IF k \in DOMAIN m THEN m[k] ELSE <<>>[k]]
    BY <1>2 DEF Join
  <2>3. DOMAIN <<>> \cup DOMAIN m = DOMAIN m
    BY <2>1
  <2>4. [k \in DOMAIN <<>> \cup DOMAIN m |-> IF k \in DOMAIN m THEN m[k] ELSE <<>>[k]]
        = [k \in DOMAIN m |-> m[k]]
    BY <2>3
  <2> QED
    BY <1>2, <2>2, <2>4
<1> QED
  BY <1>1, <1>2

\* Nothing behind joined parts leaves them as they are.
LEMMA JoinLast ==
  ASSUME NEW kind, NEW a, NEW b,
         kind = "[" => \E S : a \in Seq(S) /\ b \in Seq(S)
  PROVE  Join(kind, Join(kind, a, b), <<>>) = Join(kind, a, b)
<1>1. CASE kind = "["
  <2>1. PICK S : a \in Seq(S) /\ b \in Seq(S)
    BY <1>1
  <2>2. a \o b \in Seq(S)
    BY Zenon, <2>1, ConcatProperties
  <2> DEFINE c == a \o b
  <2> HIDE DEF c
  <2>3. c \in Seq(S)
    BY <2>2 DEF c
  <2>4. c \o <<>> = c
    BY Zenon, <2>3, ConcatEmptySeq
  <2> QED
    BY <1>1, <2>4 DEF Join, c
<1>2. CASE kind # "["
  <2> DEFINE g == [k \in DOMAIN a \cup DOMAIN b |-> IF k \in DOMAIN b THEN b[k] ELSE a[k]]
  <2>1. Join(kind, a, b) = g
    BY <1>2 DEF Join
  <2>2. g = [k \in DOMAIN g |-> g[k]]
    OBVIOUS
  <2>6. DOMAIN <<>> = {}
    BY Zenon, EmptyDomain
  <2> HIDE DEF g
  <2>3. Join(kind, g, <<>>) = [k \in DOMAIN g \cup DOMAIN <<>> |->
                               IF k \in DOMAIN <<>> THEN <<>>[k] ELSE g[k]]
    BY <1>2 DEF Join
  <2>4. DOMAIN g \cup DOMAIN <<>> = DOMAIN g /\ \A k : k \notin DOMAIN <<>>
    BY <2>6
  <2>5. [k \in DOMAIN g \cup DOMAIN <<>> |-> IF k \in DOMAIN <<>> THEN <<>>[k] ELSE g[k]]
        = [k \in DOMAIN g |-> g[k]]
    BY <2>4
  <2> QED
    BY <2>1, <2>2, <2>3, <2>5
<1> QED
  BY <1>1, <1>2

-----------------------------------------------------------------------------
(* The reader follows the grammar.                                            *)

\* The value at token i is f's with the value at token s and what is behind it.
Awaits(t, f, i, s) ==
  \A j, w : Reads(t, "value", i, j, w) <=>
              \E k, x, m : /\ Reads(t, "value", s, k, x)
                           /\ Ends(t, f.value.kind, f.key, k, x, j, m)
                           /\ w = Made(f.value, m)

\* The value at token i is v with the elements from token p on.
Loops(t, v, i, p) ==
  /\ Made(v, <<>>) = v
  /\ \A j, w : Reads(t, "value", i, j, w) <=> \E m : Reads(t, v.kind, p, j, m) /\ w = Made(v, m)

\* Every call awaits the value of the next one; b has the tokens where their
\* values begin.
Chain(t, o, b) == \A n \in 1 .. Len(o) : Awaits(t, o[n], b[n], b[n + 1])

Only(t, i, p, v) == \A j, w : Reads(t, "value", i, j, w) <=> j = p /\ w = v
Nothing(t, i) == \A j, w : ~Reads(t, "value", i, j, w)

\* what is known of the value at token i that the innermost call waits for
Found(i) ==
  /\ mode = "value" => i = pos
  /\ mode \in {"got", "accepted"} => Only(text, i, pos, got)
  /\ mode = "failed" => Nothing(text, i)
  /\ mode = "accepted" => pos = Len(text) + 1 /\ ~Inside
  /\ mode = "rejected" => ~Inside /\ \A w : ~Reads(text, "value", i, Len(text) + 1, w)

Follows(b) ==
  /\ b[1] = 1
  /\ IF mode = "loop" THEN Chain(text, Outer, b) /\ Loops(text, Top.value, b[Len(open)], pos)
     ELSE Chain(text, open, b) /\ Found(b[Len(open) + 1])

GrammarInv ==
  /\ text \in Seq(STRING \ {"end"}) /\ pos \in 1 .. Len(text) + 1
  /\ \E b : Follows(b)

\* Calls that wait, and one more.
LEMMA ChainPush ==
  ASSUME NEW t, NEW o, \E S : o \in Seq(S), NEW b, NEW f, Chain(t, o, b),
         Awaits(t, f, b[Len(o) + 1], b[Len(o) + 2])
  PROVE  Chain(t, Append(o, f), b)
<1>1. PICK S : o \in Seq(S)
  OBVIOUS
<1> DEFINE a == Append(o, f)
<1>2. Len(a) = Len(o) + 1 /\ Len(o) \in Nat /\ a[Len(o) + 1] = f /\ \A i \in 1 .. Len(o) : a[i] = o[i]
  BY <1>1, OneMore
<1> HIDE DEF a
<1>3. \A i \in 1 .. Len(a) : i = Len(o) + 1 \/ i \in 1 .. Len(o)
  BY <1>2
<1>4. (Len(o) + 1) + 1 = Len(o) + 2
  BY <1>2
<1>5. ASSUME NEW i \in 1 .. Len(a)
      PROVE  Awaits(t, a[i], b[i], b[i + 1])
  <2>1. CASE i = Len(o) + 1
    BY <1>2, <1>4, <2>1
  <2>2. CASE i \in 1 .. Len(o)
    <3>1. Awaits(t, o[i], b[i], b[i + 1])
      BY <2>2 DEF Chain
    <3> QED
      BY <1>2, <2>2, <3>1
  <2> QED
    BY <1>3, <2>1, <2>2
<1>6. Chain(t, a, b)
  BY <1>5 DEF Chain
<1> QED
  BY <1>6 DEF a

\* The innermost of the calls that wait, and the others.
LEMMA ChainPop ==
  ASSUME NEW t, NEW o, \E S : o \in Seq(S), NEW b, o # <<>>, Chain(t, o, b)
  PROVE  LET q == SubSeq(o, 1, Len(o) - 1)
         IN  /\ Chain(t, q, b) /\ Awaits(t, o[Len(o)], b[Len(q) + 1], b[Len(o) + 1])
             /\ Len(q) + 1 = Len(o)
<1> DEFINE q == SubSeq(o, 1, Len(o) - 1)
<1>1. /\ Len(o) \in Nat \ {0} /\ Len(q) = Len(o) - 1 /\ \A i \in 1 .. Len(q) : q[i] = o[i]
  BY PartsMake
<1> HIDE DEF q
<1>2. Len(o) \in 1 .. Len(o) /\ Len(q) + 1 = Len(o) /\ \A i \in 1 .. Len(q) : i \in 1 .. Len(o)
  BY <1>1
<1>3. Awaits(t, o[Len(o)], b[Len(o)], b[Len(o) + 1])
  BY <1>2 DEF Chain
<1>4. Chain(t, q, b)
  <2> SUFFICES ASSUME NEW i \in 1 .. Len(q)
               PROVE  Awaits(t, q[i], b[i], b[i + 1])
    BY DEF Chain
  <2>1. i \in 1 .. Len(o) /\ q[i] = o[i]
    BY <1>1, <1>2
  <2>2. Awaits(t, o[i], b[i], b[i + 1])
    BY <2>1 DEF Chain
  <2> QED
    BY <2>1, <2>2
<1> QED
  BY <1>2, <1>3, <1>4 DEF q

\* c has what b has for n calls and the value that they await, whose first
\* element begins at token s
Extends(c, b, n, s) == c[1] = b[1] /\ c[n + 1] = b[n + 1] /\ c[n + 2] = s

\* Where a value begins that is not awaited yet.
LEMMA ChainSame ==
  ASSUME NEW t, NEW o, \E S : o \in Seq(S), NEW b, NEW s \in Nat, Chain(t, o, b)
  PROVE  \E c : Chain(t, o, c) /\ Extends(c, b, Len(o), s)
<1> DEFINE n == Len(o) + 2
           c == [i \in Nat |-> IF i = n THEN s ELSE b[i]]
<1>1. Len(o) \in Nat
  OBVIOUS
<1>2. c[n] = s /\ \A i \in 1 .. Len(o) + 1 : c[i] = b[i]
  <2>1. n \in Nat /\ \A i \in 1 .. Len(o) + 1 : i \in Nat /\ i # n
    BY <1>1
  <2> HIDE DEF n
  <2> QED
    BY <2>1
<1> HIDE DEF c
<1>3. 1 \in 1 .. Len(o) + 1 /\ Len(o) + 1 \in 1 .. Len(o) + 1
      /\ \A i \in 1 .. Len(o) : i \in 1 .. Len(o) + 1 /\ i + 1 \in 1 .. Len(o) + 1
  BY <1>1
<1>4. ASSUME NEW i \in 1 .. Len(o)
      PROVE  Awaits(t, o[i], c[i], c[i + 1])
  <2>1. Awaits(t, o[i], b[i], b[i + 1])
    BY DEF Chain
  <2>2. c[i] = b[i] /\ c[i + 1] = b[i + 1]
    BY <1>2, <1>3
  <2> QED
    BY <2>1, <2>2
<1>5. Chain(t, o, c)
  BY <1>4 DEF Chain
<1>6. Extends(c, b, Len(o), s)
  BY <1>2, <1>3 DEF Extends
<1> QED
  BY <1>5, <1>6

\* The token where the reader is.
LEMMA HereIs ==
  ASSUME GrammarInv
  PROVE  /\ text \in Seq(STRING) /\ Len(text) \in Nat /\ pos \in Nat
         /\ \A i : Token(i) = Mark(text, i)
         /\ Here = "end" => pos = Len(text) + 1
         /\ Here # "end" => pos \in 1 .. Len(text) /\ Here = text[pos] /\ pos + 1 \in 1 .. Len(text) + 1
         /\ Token(pos + 1) # "end" => pos \in 1 .. Len(text) /\ pos + 2 \in 1 .. Len(text) + 1
<1>1. text \in Seq(STRING \ {"end"}) /\ pos \in 1 .. Len(text) + 1
  BY DEF GrammarInv
<1>2. text \in Seq(STRING) /\ Len(text) \in Nat /\ pos \in Nat
  <2>1. \A t \in Seq(STRING \ {"end"}) : t \in Seq(STRING) /\ Len(t) \in Nat
    OBVIOUS
  <2> QED
    BY <1>1, <2>1
<1>3. \A i \in 1 .. Len(text) : text[i] # "end"
  BY <1>1
<1> DEFINE n == Len(text)
<1> HIDE DEF n
<1>4. n \in Nat /\ pos \in 1 .. n + 1
  BY <1>1, <1>2 DEF n
<1>5. /\ pos <= n => pos \in 1 .. n /\ pos + 1 \in 1 .. n + 1
      /\ ~(pos <= n) => pos = n + 1
      /\ pos + 1 <= n => pos \in 1 .. n /\ pos + 2 \in 1 .. n + 1
  BY <1>4
<1>6. \A i : Token(i) = Mark(text, i)
  BY DEF Token, Mark
<1>7. (pos <= n => Here = text[pos] /\ Here # "end") /\ (~(pos <= n) => Here = "end")
  BY <1>3, <1>5 DEF Here, Token, n
<1>8. ~(pos + 1 <= n) => Token(pos + 1) = "end"
  BY DEF Token, n
<1> QED
  BY <1>2, <1>5, <1>6, <1>7, <1>8 DEF n

\* Marks and scalars are told apart.
LEMMA MarksDiffer ==
  \A token \in Keys \cup Others : token \notin {"{", "}", "[", "]", ":", ",", "end"}
BY MarksAssumption

\* Nothing begins where the reader finds no value; a scalar is one token.
LEMMA ValueHere ==
  ASSUME GrammarInv, NEW j, NEW w
  PROVE  Reads(text, "value", pos, j, w) <=>
           \/ Here \in Keys \cup Others /\ j = pos + 1 /\ w = Scalar(Here)
           \/ /\ Here \in {"{", "["}
              /\ IF Token(pos + 1) = Closer(Here) THEN j = pos + 2 /\ w = Whole(Here, <<>>)
                 ELSE \E m : Reads(text, Here, pos + 1, j, m) /\ w = Whole(Here, m)
<1>1. CASE Here = "end"
  <2>1. pos = Len(text) + 1
    BY <1>1, HereIs
  <2>2. ~Reads(text, "value", Len(text) + 1, j, w)
    BY HereIs, ReadsEnd
  <2>3. Here \notin Keys \cup Others /\ Here \notin {"{", "["}
    BY <1>1, MarksDiffer
  <2> QED
    BY <2>1, <2>2, <2>3
<1>2. CASE Here # "end"
  <2>1. pos \in 1 .. Len(text) /\ text[pos] = Here /\ text \in Seq(STRING)
        /\ Token(pos + 1) = Mark(text, pos + 1)
    BY <1>2, HereIs
  <2>2. Reads(text, "value", pos, j, w) <=> ValueFrom(text, pos, j, w)
    BY <2>1, ValueAt
  <2> QED
    BY <2>1, <2>2 DEF ValueFrom
<1> QED
  BY <1>1, <1>2

\* The calls are the innermost one and the others.
LEMMA CallsSplit ==
  ASSUME JsonInv, Inside
  PROVE  /\ open = Append(Outer, Top) /\ \E S : Outer \in Seq(S)
         /\ Len(Outer) \in Nat /\ Len(open) = Len(Outer) + 1 /\ Frame(Top)
         /\ Top.value.kind \in {"{", "["} /\ Top.value = Whole(Top.value.kind, Contents(Top.value))
<1>1. /\ \E S : open \in Seq(S)
      /\ Frame(Top)
  BY LoopFacts, WaitFacts DEF JsonInv, Calls, Stack
<1>2. /\ open = Append(Outer, Top) /\ \E S : Outer \in Seq(S)
      /\ Len(open) \in Nat \ {0} /\ Len(Outer) = Len(open) - 1
  BY <1>1, PartsMake DEF Outer, Top, Inside
<1>3. Len(Outer) \in Nat /\ Len(open) = Len(Outer) + 1
  BY <1>2
<1>4. Top.value.kind \in {"{", "["} /\ Top.value = Whole(Top.value.kind, Contents(Top.value))
  <2>1. IsList(Top.value) \/ IsMap(Top.value)
    BY <1>1 DEF Frame
  <2> QED
    BY <2>1 DEF IsList, IsMap, Whole, Contents
<1> QED
  BY <1>1, <1>2, <1>3, <1>4

\* What the reader is about to read begins at the next token.
LEMMA FollowsScalar ==
  ASSUME JsonInv, GrammarInv, ParseScalar
  PROVE  GrammarInv'
<1>1. /\ mode = "value" /\ Here \in Keys \cup Others
      /\ got' = Scalar(Here) /\ pos' = pos + 1 /\ mode' = "got" /\ text' = text /\ open' = open
  BY DEF ParseScalar
<1>2. PICK b : Follows(b)
  BY DEF GrammarInv
<1>3. Chain(text, open, b) /\ b[Len(open) + 1] = pos /\ b[1] = 1
  BY <1>1, <1>2 DEF Follows, Found
<1>4. Here # "end" /\ Here \notin {"{", "["}
  BY <1>1, MarksDiffer
<1>5. Only(text, pos, pos + 1, Scalar(Here))
  <2> SUFFICES ASSUME NEW j, NEW w
               PROVE  Reads(text, "value", pos, j, w) <=> j = pos + 1 /\ w = Scalar(Here)
    BY DEF Only
  <2>1. Reads(text, "value", pos, j, w) <=>
           \/ Here \in Keys \cup Others /\ j = pos + 1 /\ w = Scalar(Here)
           \/ /\ Here \in {"{", "["}
              /\ IF Token(pos + 1) = Closer(Here) THEN j = pos + 2 /\ w = Whole(Here, <<>>)
                 ELSE \E m : Reads(text, Here, pos + 1, j, m) /\ w = Whole(Here, m)
    BY ValueHere
  <2> QED
    BY Zenon, <1>1, <1>4, <2>1
<1>6. pos + 1 \in 1 .. Len(text) + 1
  BY <1>4, HereIs
<1>7. Follows(b)'
  BY <1>1, <1>3, <1>5 DEF Follows, Found
<1> QED
  BY <1>1, <1>6, <1>7 DEF GrammarInv

\* An empty bracket is read at once; otherwise its elements are.
LEMMA FollowsOpen ==
  ASSUME JsonInv, GrammarInv, ParseOpen
  PROVE  GrammarInv'
<1>1. mode = "value" /\ Here \in {"{", "["} /\ text' = text
  BY DEF ParseOpen
<1>2. PICK b : Follows(b)
  BY DEF GrammarInv
<1>3. Chain(text, open, b) /\ b[Len(open) + 1] = pos /\ b[1] = 1
  BY <1>1, <1>2 DEF Follows, Found
<1>4. Here \notin Keys \cup Others /\ Here # "end"
  BY <1>1, MarksDiffer
<1>5. Empty(Here) = Whole(Here, <<>>)
  BY <1>1 DEF Empty, Whole
<1>6. CASE Token(pos + 1) = Closer(Here)
  <2>1. got' = Empty(Here) /\ pos' = pos + 2 /\ mode' = "got" /\ open' = open
    BY <1>6 DEF ParseOpen
  <2>2. Only(text, pos, pos + 2, Whole(Here, <<>>))
    BY <1>1, <1>4, <1>6, ValueHere DEF Only
  <2>3. pos + 2 \in 1 .. Len(text) + 1
    BY <1>6, HereIs DEF Closer
  <2>4. Follows(b)'
    BY <1>1, <1>3, <1>5, <2>1, <2>2 DEF Follows, Found
  <2> QED
    BY <1>1, <2>1, <2>3, <2>4 DEF GrammarInv
<1>7. CASE Token(pos + 1) # Closer(Here)
  <2> DEFINE f == [value |-> Empty(Here), key |-> NoKey]
             v == Empty(Here)
  <2>1. open' = Append(open, f) /\ pos' = pos + 1 /\ mode' = "loop"
    BY <1>7 DEF ParseOpen
  <2>2. \E S : open \in Seq(S)
    BY <1>1 DEF JsonInv, Calls, Stack
  <2>3. Top' = f /\ Outer' = open /\ Len(open') = Len(open) + 1
    <3>1. Append(open, f)[Len(Append(open, f))] = f
          /\ SubSeq(Append(open, f), 1, Len(Append(open, f)) - 1) = open
      BY <2>2, PartsOf
    <3>2. Len(Append(open, f)) = Len(open) + 1
      BY <2>2, OneMore
    <3> QED
      BY <2>1, <3>1, <3>2 DEF Top, Outer
  <2>4. f.value = v /\ v = Whole(Here, <<>>) /\ v.kind = Here /\ Contents(v) = <<>>
    <3>1. v = Whole(Here, <<>>)
      BY <1>5
    <3>2. Whole(Here, <<>>).kind = Here /\ Contents(Whole(Here, <<>>)) = <<>>
      BY <1>1, MadeIs
    <3> QED
      BY <3>1, <3>2
  <2> HIDE DEF v
  <2>5. ASSUME NEW m, Here = "[" => \E S : m \in Seq(S),
               Here = "{" => m = [k \in DOMAIN m |-> m[k]]
        PROVE  Made(v, m) = Whole(Here, m)
    <3>1. Join(Here, <<>>, m) = m
      BY <1>1, <2>5, JoinFirst
    <3> QED
      BY <2>4, <3>1 DEF Made
  <2>6. Made(v, <<>>) = v
    <3>1. <<>> \in Seq({})
      OBVIOUS
    <3>2. <<>> = [k \in DOMAIN <<>> |-> <<>>[k]]
      BY EmptyIsFunction
    <3> QED
      BY <2>4, <2>5, <3>1, <3>2
  <2>7. ASSUME NEW j, NEW w
        PROVE  Reads(text, "value", pos, j, w) <=>
                 \E m : Reads(text, Here, pos + 1, j, m) /\ w = Made(v, m)
    <3>1. Reads(text, "value", pos, j, w) <=>
            \E m : Reads(text, Here, pos + 1, j, m) /\ w = Whole(Here, m)
      BY <1>1, <1>4, <1>7, ValueHere
    <3>2. ASSUME NEW m, Reads(text, Here, pos + 1, j, m)
          PROVE  Made(v, m) = Whole(Here, m)
      <4>1. /\ Here = "[" => \E S : m \in Seq(S)
            /\ Here = "{" => m = [k \in DOMAIN m |-> m[k]]
        BY <3>2, HereIs, ReadsFit
      <4> QED
        BY <2>5, <4>1
    <3> QED
      BY <3>1, <3>2
  <2>8. Loops(text, v, pos, pos + 1)
    BY <2>4, <2>6, <2>7 DEF Loops
  <2>9. pos + 1 \in 1 .. Len(text) + 1
    BY <1>4, HereIs
  <2>10. Follows(b)'
    BY <1>1, <1>3, <2>1, <2>3, <2>4, <2>8 DEF Follows
  <2> QED
    BY <1>1, <2>1, <2>9, <2>10 DEF GrammarInv
<1> QED
  BY <1>6, <1>7

\* Where there is no value nothing is read; at the head of a list an item is.
LEMMA FollowsNone ==
  ASSUME JsonInv, GrammarInv, NoValue
  PROVE  GrammarInv'
<1>1. /\ mode = "value" /\ Here \notin Keys \cup Others \cup {"{", "["}
      /\ mode' = "failed" /\ text' = text /\ pos' = pos /\ open' = open
  BY DEF NoValue
<1>2. PICK b : Follows(b)
  BY DEF GrammarInv
<1>3. Chain(text, open, b) /\ b[Len(open) + 1] = pos /\ b[1] = 1
  BY <1>1, <1>2 DEF Follows, Found
<1>4. Nothing(text, pos)
  BY <1>1, ValueHere DEF Nothing
<1>5. Follows(b)'
  BY <1>1, <1>3, <1>4 DEF Follows, Found
<1> QED
  BY <1>1, <1>5 DEF GrammarInv

\* With the end of the text a bracket ends.
LEMMA FollowsEnd ==
  ASSUME JsonInv, GrammarInv, LoopEnds
  PROVE  GrammarInv'
<1>1. /\ mode = "loop" /\ Here = "end" /\ got' = Top.value /\ open' = Outer /\ mode' = "got"
      /\ text' = text /\ pos' = pos
  BY DEF LoopEnds
<1>2. PICK b : Follows(b)
  BY DEF GrammarInv
<1>3. Inside
  BY <1>1 DEF JsonInv, Calls
<1>4. /\ Len(open) = Len(Outer) + 1 /\ Top.value.kind \in {"{", "["}
  BY <1>3, CallsSplit
<1>5. /\ Chain(text, Outer, b) /\ Loops(text, Top.value, b[Len(Outer) + 1], pos)
      /\ b[1] = 1
  BY <1>1, <1>2, <1>4 DEF Follows
<1>6. pos = Len(text) + 1 /\ text \in Seq(STRING)
  BY <1>1, HereIs
<1>7. Only(text, b[Len(Outer) + 1], pos, Top.value)
  <2> SUFFICES ASSUME NEW j, NEW w
               PROVE  Reads(text, "value", b[Len(Outer) + 1], j, w) <=> j = pos /\ w = Top.value
    BY DEF Only
  <2>1. ASSUME NEW m
        PROVE  Reads(text, Top.value.kind, pos, j, m) <=> j = pos /\ m = <<>>
    <3>1. Reads(text, Top.value.kind, Len(text) + 1, j, m) <=> j = Len(text) + 1 /\ m = <<>>
      BY <1>4, <1>6, ReadsEnd
    <3> QED
      BY <1>6, <3>1
  <2>2. Made(Top.value, <<>>) = Top.value
    BY <1>5 DEF Loops
  <2>3. Reads(text, "value", b[Len(Outer) + 1], j, w) <=>
          \E m : Reads(text, Top.value.kind, pos, j, m) /\ w = Made(Top.value, m)
    BY <1>5 DEF Loops
  <2> QED
    BY <2>1, <2>2, <2>3
<1>8. Follows(b)'
  BY <1>1, <1>5, <1>7 DEF Follows, Found
<1> QED
  BY <1>1, <1>8 DEF GrammarInv

\* The key of a list's items is none of its elements' matter.
LEMMA EndsAre ==
  ASSUME NEW t, NEW kind, NEW a, NEW c, kind = "[" \/ a = c, NEW k, NEW x, NEW j, NEW m
  PROVE  Ends(t, kind, a, k, x, j, m) <=> Ends(t, kind, c, k, x, j, m)
<1>1. Sole(kind, a, x) = Sole(kind, c, x)
  BY DEF Sole
<1> QED
  BY <1>1 DEF Ends

\* the next token begins an element of f, whose value begins at token s
Finds(f, s) ==
  /\ Here # "end" /\ f.value.kind \in {"{", "["} /\ (f.value.kind = "[" \/ f.key = Here)
  /\ \A k, x : Element(text, f.value.kind, pos, k, x) <=> Reads(text, "value", s, k, x)

\* A call at the head of its loop that finds an element awaits its value.
LEMMA LoopAwaits ==
  ASSUME GrammarInv, NEW f, NEW s, Finds(f, s), NEW i, Loops(text, f.value, i, pos)
  PROVE  Awaits(text, f, i, s)
<1> DEFINE kind == f.value.kind
           v == f.value
<1>1. pos \in 1 .. Len(text) /\ Here = text[pos] /\ text \in Seq(STRING) /\ kind \in {"{", "["}
      /\ (kind = "[" \/ f.key = text[pos])
  BY HereIs DEF Finds
<1>2. \A k, x : Element(text, kind, pos, k, x) <=> Reads(text, "value", s, k, x)
  BY DEF Finds
<1>3. \A j, w : Reads(text, "value", i, j, w) <=> \E m : Reads(text, kind, pos, j, m) /\ w = Made(v, m)
  BY DEF Loops
<1> HIDE DEF kind, v
<1>4. ASSUME NEW j, NEW m
      PROVE  Reads(text, kind, pos, j, m) <=>
               \E k, x : Element(text, kind, pos, k, x) /\ Ends(text, kind, text[pos], k, x, j, m)
  BY <1>1, RestAt
<1>5. ASSUME NEW j, NEW m, NEW k, NEW x
      PROVE  Ends(text, kind, text[pos], k, x, j, m) <=> Ends(text, kind, f.key, k, x, j, m)
  BY <1>1, EndsAre
<1>6. ASSUME NEW j, NEW w
      PROVE  Reads(text, "value", i, j, w) <=>
               \E k, x, m : /\ Reads(text, "value", s, k, x)
                            /\ Ends(text, kind, f.key, k, x, j, m)
                            /\ w = Made(v, m)
  <2>1. ASSUME Reads(text, "value", i, j, w)
        PROVE  \E k, x, m : /\ Reads(text, "value", s, k, x)
                            /\ Ends(text, kind, f.key, k, x, j, m)
                            /\ w = Made(v, m)
    <3>1. PICK m : Reads(text, kind, pos, j, m) /\ w = Made(v, m)
      BY Zenon, <1>3, <2>1
    <3>2. PICK k, x : Element(text, kind, pos, k, x) /\ Ends(text, kind, text[pos], k, x, j, m)
      BY Zenon, <1>4, <3>1
    <3> QED
      BY Zenon, <1>2, <1>5, <3>1, <3>2
  <2>2. ASSUME NEW k, NEW x, NEW m, Reads(text, "value", s, k, x),
               Ends(text, kind, f.key, k, x, j, m), w = Made(v, m)
        PROVE  Reads(text, "value", i, j, w)
    <3>1. Reads(text, kind, pos, j, m)
      BY Zenon, <1>2, <1>4, <1>5, <2>2
    <3> QED
      BY Zenon, <1>3, <2>2, <3>1
  <2> QED
    BY Zenon, <2>1, <2>2
<1> QED
  BY <1>6 DEF Awaits, kind, v

\* An item, or the value of a member, is read next.
LEMMA FollowsElement ==
  ASSUME JsonInv, GrammarInv, NextItem \/ NextMember
  PROVE  GrammarInv'
<1> DEFINE f == IF Top.value.kind = "[" THEN Top ELSE [Top EXCEPT !.key = Here]
           s == IF Top.value.kind = "[" THEN pos ELSE pos + 2
<1>1. mode = "loop" /\ mode' = "value" /\ text' = text
  BY DEF NextItem, NextMember
<1>2. PICK b : Follows(b)
  BY DEF GrammarInv
<1>3. Inside
  BY <1>1 DEF JsonInv, Calls
<1>4. /\ open = Append(Outer, Top) /\ \E S : Outer \in Seq(S)
      /\ Len(Outer) \in Nat /\ Len(open) = Len(Outer) + 1 /\ Frame(Top)
      /\ Top.value.kind \in {"{", "["}
  BY <1>3, CallsSplit
<1>5. /\ Chain(text, Outer, b) /\ Loops(text, Top.value, b[Len(Outer) + 1], pos)
      /\ b[1] = 1
  BY <1>1, <1>2, <1>4 DEF Follows
<1>6. /\ f.value = Top.value /\ (f.value.kind = "[" \/ f.key = Here)
      /\ open' = Append(Outer, f) /\ pos' = s /\ Here # "end" /\ s \in 1 .. Len(text) + 1 /\ s \in Nat
      /\ \A k, x : Element(text, f.value.kind, pos, k, x) <=> Reads(text, "value", s, k, x)
  <2>1. CASE Top.value.kind = "["
    <3>1. NextItem
      BY <2>1 DEF NextMember
    <3>2. f = Top /\ s = pos
      BY <2>1
    <3>3. Here # "end" /\ pos' = pos /\ open' = open
      BY <3>1 DEF NextItem
    <3>4. \A k, x : Element(text, f.value.kind, pos, k, x) <=> Reads(text, "value", s, k, x)
      BY <2>1, <3>2 DEF Element
    <3>5. pos \in 1 .. Len(text) + 1 /\ pos \in Nat
      BY HereIs DEF GrammarInv
    <3> HIDE DEF f, s
    <3> QED
      BY <1>4, <2>1, <3>2, <3>3, <3>4, <3>5
  <2>2. CASE Top.value.kind # "["
    <3>1. NextMember
      BY <2>2 DEF NextItem
    <3>2. f = [Top EXCEPT !.key = Here] /\ s = pos + 2
      BY <2>2
    <3>3. /\ Here \in Keys /\ Token(pos + 1) = ":" /\ pos' = pos + 2
          /\ open' = Append(Outer, [Top EXCEPT !.key = Here])
      BY <3>1 DEF NextMember, HasKey
    <3>4. f.value = Top.value /\ f.key = Here
      <4>1. Top = [value |-> Top.value, key |-> Top.key]
        BY <1>4 DEF Frame
      <4> QED
        BY <3>2, <4>1
    <3>5. Here # "end"
      BY <3>3, MarksDiffer
    <3>6. text[pos] = Here /\ Mark(text, pos + 1) = ":"
      BY <3>3, <3>5, HereIs
    <3>7. \A k, x : Element(text, f.value.kind, pos, k, x) <=> Reads(text, "value", s, k, x)
      BY <2>2, <3>2, <3>3, <3>4, <3>6 DEF Element
    <3>8. pos + 2 \in 1 .. Len(text) + 1 /\ pos + 2 \in Nat
      <4>1. pos + 2 \in 1 .. Len(text) + 1
        BY <3>3, HereIs
      <4>2. pos \in Nat
        BY HereIs
      <4> QED
        BY <4>1, <4>2
    <3> HIDE DEF f, s
    <3> QED
      BY <3>2, <3>3, <3>4, <3>5, <3>7, <3>8
  <2> QED
    BY <2>1, <2>2
<1> HIDE DEF f, s
<1>7. Awaits(text, f, b[Len(Outer) + 1], s)
  <2>1. Loops(text, f.value, b[Len(Outer) + 1], pos)
    BY <1>5, <1>6
  <2>2. Finds(f, s)
    BY <1>4, <1>6 DEF Finds
  <2> QED
    BY <2>1, <2>2, LoopAwaits
<1>12. s \in Nat
  BY <1>6
<1>13. Len(Outer) \in Nat /\ \E S : Outer \in Seq(S)
  BY <1>4
<1>8. PICK c : Chain(text, Outer, c) /\ Extends(c, b, Len(Outer), s)
  BY <1>5, <1>12, <1>13, ChainSame
<1>9. Chain(text, Append(Outer, f), c)
  BY <1>4, <1>7, <1>8, ChainPush DEF Extends
<1>10. Len(open') + 1 = Len(Outer) + 2
  <2>1. Len(Append(Outer, f)) = Len(Outer) + 1
    BY <1>4, OneMore
  <2>2. Len(open') = Len(Outer) + 1
    BY <1>6, <2>1
  <2> QED
    BY <1>13, <2>2
<1>11. Follows(c)'
  BY <1>1, <1>5, <1>6, <1>8, <1>9, <1>10 DEF Follows, Found, Extends
<1> QED
  BY <1>1, <1>6, <1>11 DEF GrammarInv

\* Where a map has no member no value is read.
LEMMA FollowsNoMember ==
  ASSUME JsonInv, GrammarInv, NoMember
  PROVE  GrammarInv'
<1>1. /\ mode = "loop" /\ Here # "end" /\ Top.value.kind = "{" /\ ~HasKey
      /\ open' = Outer /\ mode' = "failed" /\ text' = text /\ pos' = pos
  BY DEF NoMember
<1>2. PICK b : Follows(b)
  BY DEF GrammarInv
<1>3. Inside
  BY <1>1 DEF JsonInv, Calls
<1>4. /\ Len(open) = Len(Outer) + 1
  BY <1>3, CallsSplit
<1>5. /\ Chain(text, Outer, b) /\ Loops(text, Top.value, b[Len(Outer) + 1], pos)
      /\ b[1] = 1
  BY <1>1, <1>2, <1>4 DEF Follows
<1>6. \A k, x : ~Element(text, "{", pos, k, x)
  <2>1. text[pos] = Here /\ Mark(text, pos + 1) = Token(pos + 1)
    BY <1>1, HereIs
  <2> QED
    BY <1>1, <2>1 DEF HasKey, Element
<1>7. \A j, m : ~Reads(text, "{", pos, j, m)
  <2>1. pos \in 1 .. Len(text) /\ text \in Seq(STRING)
    BY <1>1, HereIs
  <2> SUFFICES ASSUME NEW j, NEW m
               PROVE  ~Reads(text, "{", pos, j, m)
    OBVIOUS
  <2>2. Reads(text, "{", pos, j, m) <=>
          \E k, x : Element(text, "{", pos, k, x) /\ Ends(text, "{", text[pos], k, x, j, m)
    BY <2>1, RestAt
  <2> QED
    BY Zenon, <1>6, <2>2
<1>8. Nothing(text, b[Len(Outer) + 1])
  <2> SUFFICES ASSUME NEW j, NEW w
               PROVE  ~Reads(text, "value", b[Len(Outer) + 1], j, w)
    BY DEF Nothing
  <2>1. Reads(text, "value", b[Len(Outer) + 1], j, w) <=>
          \E m : Reads(text, Top.value.kind, pos, j, m) /\ w = Made(Top.value, m)
    BY <1>5 DEF Loops
  <2> QED
    BY <1>1, <1>7, <2>1
<1>9. Follows(b)'
  BY <1>1, <1>5, <1>8 DEF Follows, Found
<1> QED
  BY <1>1, <1>9 DEF GrammarInv

\* Without its value an element is not read, nor what it is in.
LEMMA FollowsUnwind ==
  ASSUME JsonInv, GrammarInv, Unwind
  PROVE  GrammarInv'
<1>1. /\ mode = "failed" /\ Inside
      /\ open' = Outer /\ mode' = "failed" /\ text' = text /\ pos' = pos
  BY DEF Unwind
<1>2. PICK b : Follows(b)
  BY DEF GrammarInv
<1>3. Chain(text, open, b) /\ Nothing(text, b[Len(open) + 1]) /\ b[1] = 1
  BY <1>1, <1>2 DEF Follows, Found
<1>4. Chain(text, Outer, b) /\ Awaits(text, Top, b[Len(Outer) + 1], b[Len(open) + 1])
  <2>1. \E S : open \in Seq(S)
    BY <1>1 DEF JsonInv, Calls, Stack
  <2> QED
    BY <1>1, <1>3, <2>1, ChainPop DEF Inside, Outer, Top
<1>5. Nothing(text, b[Len(Outer) + 1])
  BY <1>3, <1>4 DEF Nothing, Awaits
<1>6. Follows(b)'
  BY <1>1, <1>3, <1>4, <1>5 DEF Follows, Found
<1> QED
  BY <1>1, <1>6 DEF GrammarInv

\* The text is read with its last token, or not at all.
LEMMA FollowsResult ==
  ASSUME JsonInv, GrammarInv, Accept \/ Reject
  PROVE  GrammarInv'
<1>1. ~Inside /\ open' = open /\ text' = text /\ pos' = pos /\ got' = got
      /\ mode \in {"got", "failed"}
  BY DEF Accept, Reject
<1>2. PICK b : Follows(b)
  BY DEF GrammarInv
<1>3. PICK i : i = b[Len(open) + 1]
  OBVIOUS
<1>6. Chain(text, open, b) /\ Found(i) /\ b[1] = 1
  BY <1>1, <1>2, <1>3 DEF Follows
<1>4. CASE Accept
  <2>1. mode = "got" /\ mode' = "accepted" /\ pos = Len(text) + 1
    BY <1>4, HereIs DEF Accept
  <2>2. Found(i)'
    BY <1>1, <1>6, <2>1 DEF Found, Inside
  <2>3. Follows(b)'
    BY <1>1, <1>3, <1>6, <2>1, <2>2 DEF Follows
  <2> QED
    BY <1>1, <2>3 DEF GrammarInv
<1>5. CASE Reject
  <2>1. mode' = "rejected"
    BY <1>5 DEF Reject
  <2>2. ASSUME NEW w
        PROVE  ~Reads(text, "value", i, Len(text) + 1, w)
    <3>1. CASE mode = "failed"
      BY <1>6, <3>1 DEF Found, Nothing
    <3>2. CASE mode = "got" /\ Here # "end"
      <4>1. Only(text, i, pos, got)
        BY <1>6, <3>2 DEF Found
      <4>2. pos # Len(text) + 1
        <5>1. pos \in 1 .. Len(text) /\ Len(text) \in Nat
          BY <3>2, HereIs
        <5> QED
          BY <5>1
      <4> QED
        BY <4>1, <4>2 DEF Only
    <3> QED
      BY <1>5, <3>1, <3>2 DEF Reject
  <2>3. Found(i)'
    BY <1>1, <2>1, <2>2 DEF Found, Inside
  <2>4. Follows(b)'
    BY <1>1, <1>3, <1>6, <2>1, <2>3 DEF Follows
  <2> QED
    BY <1>1, <2>4 DEF GrammarInv
<1> QED
  BY <1>4, <1>5

\* What a value becomes with one more element is made of what was in it.
LEMMA StoredIs ==
  ASSUME JsonInv, mode = "got", Inside
  PROVE  LET kind == Top.value.kind
             e == Sole(kind, Top.key, got)
             v == Stored(Top.value)
         IN  /\ v = Made(Top.value, e) /\ v.kind = kind
             /\ Contents(v) = Join(kind, Contents(Top.value), e)
             /\ kind = "[" => \E S : Contents(Top.value) \in Seq(S) /\ e \in Seq(S)
<1> DEFINE kind == Top.value.kind
           e == Sole(kind, Top.key, got)
           v == Stored(Top.value)
           a == Contents(Top.value)
<1>1. Frame(Top) /\ kind \in {"{", "["}
  BY CallsSplit
<1>2. CASE kind = "["
  <2>1. IsList(Top.value)
    BY <1>1, <1>2, FrameFacts
  <2>2. PICK S : Top.value.items \in Seq(S)
    BY <2>1 DEF IsList
  <2>3. a = Top.value.items /\ e = <<got>> /\ v = Array(Append(Top.value.items, got))
    BY <1>2 DEF Contents, Sole, Stored
  <2>4. a \in Seq(S \cup {got}) /\ e \in Seq(S \cup {got}) /\ Append(a, got) = a \o e
    <3> HIDE DEF a, e
    <3>1. a \in Seq(S)
      BY <2>2, <2>3
    <3>2. \A s \in Seq(S) : /\ s \in Seq(S \cup {got}) /\ <<got>> \in Seq(S \cup {got})
                            /\ Append(s, got) = s \o <<got>>
      <4> SUFFICES ASSUME NEW s \in Seq(S)
                   PROVE  /\ s \in Seq(S \cup {got}) /\ <<got>> \in Seq(S \cup {got})
                          /\ Append(s, got) = s \o <<got>>
        OBVIOUS
      <4>1. s \in Seq(S \cup {got}) /\ <<got>> \in Seq(S \cup {got}) /\ got \in S \cup {got}
        OBVIOUS
      <4> QED
        BY <4>1, AppendIsConcat
    <3> QED
      BY <2>3, <3>1, <3>2
  <2>5. v = Whole(kind, Join(kind, a, e))
    BY <1>2, <2>3, <2>4 DEF Whole, Join
  <2>6. v.kind = kind /\ Contents(v) = Join(kind, a, e)
    <3> HIDE DEF v, kind, a, e
    <3> QED
      BY <1>1, <2>5, MadeIs
  <2> QED
    BY <2>4, <2>5, <2>6 DEF Made
<1>3. CASE kind = "{"
  <2>1. IsMap(Top.value)
    BY <1>1, <1>3, FrameFacts
  <2> DEFINE m == Top.value.members
             f == [k \in DOMAIN m \cup {Top.key} |-> IF k = Top.key THEN got ELSE m[k]]
  <2>2. a = m /\ e = [k \in {Top.key} |-> got] /\ v = Object(f)
    BY <1>3 DEF Contents, Sole, Stored
  <2>3. Join(kind, a, e) = f
    <3>1. Join(kind, a, e) = [k \in DOMAIN a \cup DOMAIN e |-> IF k \in DOMAIN e THEN e[k] ELSE a[k]]
      BY <1>3 DEF Join
    <3>2. DOMAIN e = {Top.key} /\ e[Top.key] = got
      BY <2>2
    <3> HIDE DEF a, e
    <3>3. [k \in DOMAIN a \cup DOMAIN e |-> IF k \in DOMAIN e THEN e[k] ELSE a[k]] = f
      BY <2>2, <3>2
    <3> QED
      BY <3>1, <3>3
  <2>4. v = Whole(kind, Join(kind, a, e))
    BY <1>3, <2>2, <2>3 DEF Whole
  <2>5. v.kind = kind /\ Contents(v) = Join(kind, a, e)
    <3> HIDE DEF v, kind, a, e
    <3> QED
      BY <1>1, <2>4, MadeIs
  <2> QED
    BY <1>3, <2>4, <2>5 DEF Made
<1> QED
  BY <1>1, <1>2, <1>3

\* An element that was read is followed by its bracket or more elements, or the
\* value is not read.
LEMMA FollowsStore ==
  ASSUME JsonInv, GrammarInv, Store
  PROVE  GrammarInv'
<1> DEFINE kind == Top.value.kind
           e == Sole(kind, Top.key, got)
           v == Stored(Top.value)
           a == Contents(Top.value)
<1>1. mode = "got" /\ Inside /\ text' = text
  BY DEF Store
<1>2. PICK b : Follows(b)
  BY DEF GrammarInv
<1>3. Chain(text, open, b) /\ Only(text, b[Len(open) + 1], pos, got) /\ b[1] = 1
  BY <1>1, <1>2 DEF Follows, Found
<1>4. PICK i : i = b[Len(Outer) + 1]
  OBVIOUS
<1>5. Chain(text, Outer, b) /\ Awaits(text, Top, i, b[Len(open) + 1])
  <2>1. \E S : open \in Seq(S)
    BY <1>1 DEF JsonInv, Calls, Stack
  <2> QED
    BY <1>1, <1>3, <1>4, <2>1, ChainPop DEF Inside, Outer, Top
<1>6. \A j, w : Reads(text, "value", i, j, w) <=>
                  \E m : Ends(text, kind, Top.key, pos, got, j, m) /\ w = Made(Top.value, m)
  BY <1>3, <1>5 DEF Awaits, Only
<1>7. /\ v = Made(Top.value, e) /\ v.kind = kind /\ Contents(v) = Join(kind, a, e)
      /\ kind = "[" => \E S : a \in Seq(S) /\ e \in Seq(S)
  BY <1>1, StoredIs
<1>8. Mark(text, pos) = Here
  BY HereIs DEF Here
<1> HIDE DEF kind, e, v, a
<1>9. CASE Here = Closer(v.kind)
  <2>1. got' = v /\ open' = Outer /\ pos' = pos + 1 /\ mode' = "got"
    BY <1>9 DEF Store, Continues, v, Closer
  <2>2. Only(text, i, pos + 1, v)
    <3>1. \A j, m : Ends(text, kind, Top.key, pos, got, j, m) <=> j = pos + 1 /\ m = e
      BY <1>7, <1>8, <1>9 DEF Ends, e
    <3> QED
      BY <1>6, <1>7, <3>1 DEF Only
  <2>3. pos + 1 \in 1 .. Len(text) + 1
    BY <1>9, HereIs DEF Closer
  <2>4. Follows(b)'
    BY <1>1, <1>3, <1>4, <1>5, <2>1, <2>2 DEF Follows, Found
  <2> QED
    BY <1>1, <2>1, <2>3, <2>4 DEF GrammarInv
<1>10. CASE Here = ","
  <2> DEFINE f == [value |-> v, key |-> NoKey]
  <2>1. open' = Append(Outer, f) /\ pos' = pos + 1 /\ mode' = "loop"
    BY <1>10 DEF Store, Continues, v, Closer
  <2>2. /\ \E S : Outer \in Seq(S)
    BY <1>1, CallsSplit
  <2>3. Top' = f /\ Outer' = Outer /\ Len(open') = Len(Outer) + 1
    <3>1. Append(Outer, f)[Len(Append(Outer, f))] = f
          /\ SubSeq(Append(Outer, f), 1, Len(Append(Outer, f)) - 1) = Outer
      BY <2>2, PartsOf
    <3>2. Len(Append(Outer, f)) = Len(Outer) + 1
      BY <2>2, OneMore
    <3>3. Top' = open'[Len(open')] /\ Outer' = SubSeq(open', 1, Len(open') - 1)
      BY DEF Top, Outer
    <3> HIDE DEF f
    <3> QED
      BY <2>1, <3>1, <3>2, <3>3
  <2>4. Made(v, <<>>) = v
    <3>1. Join(kind, Join(kind, a, e), <<>>) = Join(kind, a, e)
      BY <1>7, JoinLast
    <3>2. Made(v, <<>>) = Whole(kind, Join(kind, a, e))
      BY <1>7, <3>1 DEF Made
    <3>3. v = Whole(kind, Join(kind, a, e))
      BY <1>7 DEF Made, kind, a
    <3> QED
      BY <3>2, <3>3
  <2>5. ASSUME NEW j, NEW r, Reads(text, kind, pos + 1, j, r)
        PROVE  Made(Top.value, Join(kind, e, r)) = Made(v, r)
    <3>1. kind = "[" => \E S : a \in Seq(S) /\ e \in Seq(S) /\ r \in Seq(S)
      <4> SUFFICES ASSUME kind = "["
                   PROVE  \E S : a \in Seq(S) /\ e \in Seq(S) /\ r \in Seq(S)
        OBVIOUS
      <4>1. PICK A : a \in Seq(A) /\ e \in Seq(A)
        BY <1>7
      <4>2. PICK B : r \in Seq(B)
        BY <2>5, HereIs, ReadsFit
      <4>3. a \in Seq(A \cup B) /\ e \in Seq(A \cup B) /\ r \in Seq(A \cup B)
        BY <4>1, <4>2
      <4> QED
        BY <4>3
    <3>2. Join(kind, a, Join(kind, e, r)) = Join(kind, Join(kind, a, e), r)
      BY <3>1, JoinMore
    <3>3. Made(Top.value, Join(kind, e, r)) = Whole(kind, Join(kind, a, Join(kind, e, r)))
      BY DEF Made, kind, a
    <3>4. Made(v, r) = Whole(kind, Join(kind, Join(kind, a, e), r))
      BY <1>7 DEF Made
    <3> QED
      BY <3>2, <3>3, <3>4
  <2>6. Loops(text, v, i, pos + 1)
    <3> SUFFICES ASSUME NEW j, NEW w
                 PROVE  Reads(text, "value", i, j, w) <=>
                          \E r : Reads(text, kind, pos + 1, j, r) /\ w = Made(v, r)
      BY <1>7, <2>4 DEF Loops
    <3>1. \A m : Ends(text, kind, Top.key, pos, got, j, m) <=>
                   \E r : Reads(text, kind, pos + 1, j, r) /\ m = Join(kind, e, r)
      <4>1. Mark(text, pos) = "," /\ "," # Closer(kind)
        BY <1>8, <1>10 DEF Closer
      <4> QED
        BY <4>1 DEF Ends, e
    <3>2. Reads(text, "value", i, j, w) <=>
            \E m : Ends(text, kind, Top.key, pos, got, j, m) /\ w = Made(Top.value, m)
      BY <1>6
    <3>3. ASSUME Reads(text, "value", i, j, w)
          PROVE  \E r : Reads(text, kind, pos + 1, j, r) /\ w = Made(v, r)
      <4>1. PICK m : Ends(text, kind, Top.key, pos, got, j, m) /\ w = Made(Top.value, m)
        BY Zenon, <3>2, <3>3
      <4>2. PICK r : Reads(text, kind, pos + 1, j, r) /\ m = Join(kind, e, r)
        BY Zenon, <3>1, <4>1
      <4>3. Made(Top.value, Join(kind, e, r)) = Made(v, r)
        BY Zenon, <2>5, <4>2
      <4>4. w = Made(v, r)
        BY <4>1, <4>2, <4>3
      <4> QED
        BY Zenon, <4>2, <4>4
    <3>4. ASSUME NEW r, Reads(text, kind, pos + 1, j, r), w = Made(v, r)
          PROVE  Reads(text, "value", i, j, w)
      <4>1. w = Made(Top.value, Join(kind, e, r))
        BY <2>5, <3>4
      <4>2. Ends(text, kind, Top.key, pos, got, j, Join(kind, e, r))
        BY Zenon, <3>1, <3>4
      <4> QED
        BY Zenon, <3>2, <4>1, <4>2
    <3> QED
      BY Zenon, <3>3, <3>4
  <2>7. pos + 1 \in 1 .. Len(text) + 1
    BY <1>10, HereIs
  <2>8. f.value = v
    OBVIOUS
  <2>9. Follows(b)'
    BY <1>1, <1>3, <1>4, <1>5, <2>1, <2>3, <2>6, <2>8 DEF Follows
  <2> QED
    BY <1>1, <2>1, <2>7, <2>9 DEF GrammarInv
<1>11. CASE Here # Closer(v.kind) /\ Here # ","
  <2>1. open' = Outer /\ mode' = "failed" /\ pos' = pos
    BY <1>11 DEF Store, Continues, v
  <2>2. Nothing(text, i)
    <3>1. \A j, m : ~Ends(text, kind, Top.key, pos, got, j, m)
      BY <1>7, <1>8, <1>11 DEF Ends
    <3> QED
      BY <1>6, <3>1 DEF Nothing
  <2>3. Follows(b)'
    BY <1>1, <1>3, <1>4, <1>5, <2>1, <2>2 DEF Follows, Found
  <2> QED
    BY <1>1, <2>1, <2>3 DEF GrammarInv
<1> QED
  BY <1>9, <1>10, <1>11

\* Every step of the reader follows the grammar.
LEMMA GrammarStep ==
  ASSUME JsonInv, GrammarInv, JsonNext
  PROVE  GrammarInv'
BY FollowsScalar, FollowsOpen, FollowsNone, FollowsEnd, FollowsElement, FollowsNoMember,
   FollowsStore, FollowsUnwind, FollowsResult DEF JsonNext

\* Before the first token the text is awaited.
LEMMA GrammarInit ==
  ASSUME NEW texts, texts \subseteq Seq(STRING \ {"end"}), JsonInit(texts)
  PROVE  GrammarInv
<1>1. text \in Seq(STRING \ {"end"}) /\ pos = 1 /\ open = <<>> /\ mode = "value"
  BY DEF JsonInit
<1> DEFINE b == [n \in {1} |-> 1]
<1>2. b[1] = 1
  OBVIOUS
<1> HIDE DEF b
<1>3. Len(open) = 0 /\ Chain(text, open, b)
  <2>1. Len(open) = 0
    BY <1>1
  <2>2. 1 .. Len(open) = {}
    BY <2>1
  <2> QED
    BY <2>1, <2>2 DEF Chain
<1>4. b[Len(open) + 1] = 1
  BY <1>2, <1>3
<1>5. Follows(b)
  BY <1>1, <1>2, <1>3, <1>4 DEF Follows, Found
<1>6. 1 \in 1 .. Len(text) + 1
  <2>1. \A t \in Seq(STRING \ {"end"}) : 1 \in 1 .. Len(t) + 1
    OBVIOUS
  <2> QED
    BY <1>1, <2>1
<1> QED
  BY <1>1, <1>5, <1>6 DEF GrammarInv

-----------------------------------------------------------------------------
(* What is lax about a text.                                                  *)

\* a phrase that the end of the text cuts off
Cut(t, p) ==
  p.to = Len(t) + 1 /\ (p.from = Len(t) + 1 \/ t[Len(t)] \in {"{", "[", ","})

\* p is an empty bracket, or one with the rest in it
Bracket(t, i, later, p) ==
  IF Mark(t, i + 1) = Closer(t[i]) THEN p = Phrase("value", i, i + 2, Whole(t[i], <<>>))
  ELSE \E q \in Begins(later, t[i], i + 1) : p = Phrase("value", i, q.to, Whole(t[i], q.means))

\* p is element e and what is behind it
Behind(kind, t, i, e, ps, p) ==
  IF Mark(t, e.to) = Closer(kind) THEN p = Phrase(kind, i, e.to + 1, Sole(kind, t[i], e.means))
  ELSE /\ Mark(t, e.to) = ","
       /\ \E q \in Begins(ps, kind, e.to + 1) :
            p = Phrase(kind, i, q.to, Join(kind, Sole(kind, t[i], e.means), q.means))

Scalars(t, i) == {Phrase("value", i, i + 1, Scalar(token)) : token \in {t[i]} \cap (Keys \cup Others)}

\* The values at a token.
LEMMA ValuesAre ==
  ASSUME NEW t, NEW i, NEW later, NEW p
  PROVE  p \in Values(t, i, later) <=>
           p \in Scalars(t, i) \/ (t[i] \in {"{", "["} /\ Bracket(t, i, later, p))
<1> DEFINE A(kind) == IF Mark(t, i + 1) = Closer(kind)
                      THEN {Phrase("value", i, i + 2, Whole(kind, <<>>))}
                      ELSE {Phrase("value", i, q.to, Whole(kind, q.means)) :
                            q \in Begins(later, kind, i + 1)}
<1>1. Values(t, i, later) = Scalars(t, i) \cup UNION {A(kind) : kind \in {t[i]} \cap {"{", "["}}
  BY Zenon DEF Values, Scalars
<1>2. p \in A(t[i]) <=> Bracket(t, i, later, p)
  <2>1. CASE Mark(t, i + 1) = Closer(t[i])
    BY <2>1 DEF Bracket
  <2>2. CASE Mark(t, i + 1) # Closer(t[i])
    <3> DEFINE B == Begins(later, t[i], i + 1)
               v(q) == Phrase("value", i, q.to, Whole(t[i], q.means))
    <3>1. A(t[i]) = {v(q) : q \in B}
      BY <2>2
    <3>2. Bracket(t, i, later, p) <=> \E q \in B : p = v(q)
      BY <2>2 DEF Bracket
    <3> HIDE DEF A, B, v
    <3> QED
      BY <3>1, <3>2
  <2> QED
    BY <2>1, <2>2
<1> HIDE DEF A
<1>3. p \in UNION {A(kind) : kind \in {t[i]} \cap {"{", "["}} <=> t[i] \in {"{", "["} /\ p \in A(t[i])
  OBVIOUS
<1> QED
  BY Zenon, <1>1, <1>2, <1>3

\* The rests at a token.
LEMMA RestsAre ==
  ASSUME NEW kind, NEW t, NEW i, NEW ps, NEW p
  PROVE  p \in Rests(kind, t, i, ps) <=> \E e \in Elements(kind, t, i, ps) : Behind(kind, t, i, e, ps, p)
<1> DEFINE C(e) == {Phrase(kind, i, q.to, Join(kind, Sole(kind, t[i], e.means), q.means)) :
                    q \in Begins(ps, kind, e.to + 1)}
           F(e) == IF Mark(t, e.to) = Closer(kind)
                   THEN {Phrase(kind, i, e.to + 1, Sole(kind, t[i], e.means))}
                   ELSE IF Mark(t, e.to) = "," THEN C(e) ELSE {}
           E == Elements(kind, t, i, ps)
<1>1. Rests(kind, t, i, ps) = UNION {F(e) : e \in E}
  BY Zenon DEF Rests
<1>2. ASSUME NEW e
      PROVE  p \in F(e) <=> Behind(kind, t, i, e, ps, p)
  <2>1. p \in C(e) <=> \E q \in Begins(ps, kind, e.to + 1) :
                          p = Phrase(kind, i, q.to, Join(kind, Sole(kind, t[i], e.means), q.means))
    OBVIOUS
  <2> HIDE DEF C
  <2> QED
    BY <2>1 DEF Behind
<1> HIDE DEF F, E
<1>3. p \in UNION {F(e) : e \in E} <=> \E e \in E : p \in F(e)
  OBVIOUS
<1> QED
  BY Zenon, <1>1, <1>2, <1>3 DEF E

\* More phrases make more of them.
LEMMA FromMore ==
  ASSUME NEW t, NEW i, NEW A, NEW B, A \subseteq B
  PROVE  /\ Values(t, i, A) \subseteq Values(t, i, B)
         /\ \A kind : Rests(kind, t, i, A) \subseteq Rests(kind, t, i, B)
<1>1. \A is, j : Begins(A, is, j) \subseteq Begins(B, is, j)
  BY DEF Begins
<1>2. ASSUME NEW p \in Values(t, i, A)
      PROVE  p \in Values(t, i, B)
  <2>1. Bracket(t, i, A, p) => Bracket(t, i, B, p)
    <3>1. Begins(A, t[i], i + 1) \subseteq Begins(B, t[i], i + 1)
      BY <1>1
    <3> QED
      BY <3>1 DEF Bracket
  <2> QED
    BY Zenon, <1>2, <2>1, ValuesAre
<1>3. ASSUME NEW kind, NEW p \in Rests(kind, t, i, A)
      PROVE  p \in Rests(kind, t, i, B)
  <2>1. PICK e \in Elements(kind, t, i, A) : Behind(kind, t, i, e, A, p)
    BY Zenon, <1>3, RestsAre
  <2>2. e \in Elements(kind, t, i, B)
    <3>1. Begins(A, "value", i) \subseteq Begins(B, "value", i)
          /\ Begins(A, "value", i + 2) \subseteq Begins(B, "value", i + 2)
      BY <1>1
    <3> QED
      BY <2>1, <3>1 DEF Elements
  <2>3. Behind(kind, t, i, e, B, p)
    <3>1. Begins(A, kind, e.to + 1) \subseteq Begins(B, kind, e.to + 1)
      BY <1>1
    <3> QED
      BY <2>1, <3>1 DEF Behind
  <2> QED
    BY Zenon, <2>2, <2>3, RestsAre
<1> QED
  BY <1>2, <1>3

\* Of the values and rests that are not cut off there are as many as before.
LEMMA FromCut ==
  ASSUME NEW t \in Seq(STRING), NEW i \in 1 .. Len(t), NEW A, NEW B,
         \A p \in B : Fits(p, Len(t)) /\ (p \in A \/ Cut(t, p))
  PROVE  /\ \A p \in Values(t, i, B) : p \in Values(t, i, A) \/ Cut(t, p)
         /\ \A kind \in {"{", "["} : \A p \in Rests(kind, t, i, B) :
              p \in Rests(kind, t, i, A) \/ Cut(t, p)
<1> DEFINE n == Len(t)
<1>0. n \in Nat /\ i \in 1 .. n
  OBVIOUS
<1>1. \A p \in B : p \in A \/ Cut(t, p)
  OBVIOUS
<1>2. \A is, j : \A q \in Begins(B, is, j) : q.from = j /\ (q \in Begins(A, is, j) \/ Cut(t, q))
  BY <1>1 DEF Begins
<1> HIDE DEF n
<1>3. ASSUME NEW p \in Values(t, i, B)
      PROVE  p \in Values(t, i, A) \/ Cut(t, p)
  <2>1. CASE p \in Scalars(t, i)
    BY Zenon, <2>1, ValuesAre
  <2>2. CASE t[i] \in {"{", "["} /\ Bracket(t, i, B, p)
    <3>1. CASE Mark(t, i + 1) = Closer(t[i])
      <4>1. Bracket(t, i, A, p)
        BY <2>2, <3>1 DEF Bracket
      <4> QED
        BY Zenon, <2>2, <4>1, ValuesAre
    <3>2. CASE Mark(t, i + 1) # Closer(t[i])
      <4>1. PICK q \in Begins(B, t[i], i + 1) : p = Phrase("value", i, q.to, Whole(t[i], q.means))
        BY <2>2, <3>2 DEF Bracket
      <4>2. CASE q \in Begins(A, t[i], i + 1)
        <5>1. Bracket(t, i, A, p)
          BY <3>2, <4>1, <4>2 DEF Bracket
        <5> QED
          BY Zenon, <2>2, <5>1, ValuesAre
      <4>3. CASE Cut(t, q)
        <5>1. q.from = i + 1
          BY Zenon, <1>2, <4>1
        <5>2. q.to = n + 1 /\ (q.from = n + 1 \/ t[n] \in {"{", "[", ","})
          BY <4>3 DEF Cut, n
        <5>3. p.to = n + 1
          BY <4>1, <5>2 DEF Phrase
        <5>4. q.from = n + 1 => i = n
          BY <1>0, <5>1
        <5>5. t[n] \in {"{", "[", ","}
          BY <2>2, <5>2, <5>4
        <5> QED
          BY <5>3, <5>5 DEF Cut, n
      <4> QED
        BY Zenon, <1>2, <4>1, <4>2, <4>3
    <3> QED
      BY <3>1, <3>2
  <2> QED
    BY Zenon, <1>3, <2>1, <2>2, ValuesAre
<1>4. ASSUME NEW kind, kind \in {"{", "["}, NEW p \in Rests(kind, t, i, B)
      PROVE  p \in Rests(kind, t, i, A) \/ Cut(t, p)
  <2>1. PICK e \in Elements(kind, t, i, B) : Behind(kind, t, i, e, B, p)
    BY Zenon, <1>4, RestsAre
  <2>2. e \in B
    BY <2>1 DEF Elements, Begins
  <2>3. Mark(t, e.to) # "end"
    BY <1>4, <2>1 DEF Behind, Closer
  <2>4. e.to \in 1 .. n + 1
    <3>1. e.from \in 1 .. n + 1 /\ e.to \in e.from .. n + 1
      BY <2>2 DEF Fits, n
    <3> HIDE DEF Fits
    <3> QED
      BY <1>0, <3>1
  <2>5. e.to # n + 1
    <3>1. ~(n + 1 <= n)
      BY <1>0
    <3>2. Mark(t, n + 1) = "end"
      BY <3>1 DEF Mark, n
    <3> QED
      BY <2>3, <3>2
  <2>6. e \in Elements(kind, t, i, A)
    <3>1. ~Cut(t, e)
      BY <2>5 DEF Cut, n
    <3> QED
      BY <1>2, <2>1, <3>1 DEF Elements
  <2>7. CASE Behind(kind, t, i, e, A, p)
    BY Zenon, <2>6, <2>7, RestsAre
  <2>8. CASE ~Behind(kind, t, i, e, A, p)
    <3>1. Mark(t, e.to) # Closer(kind)
      BY <2>1, <2>8 DEF Behind
    <3>2. PICK q \in Begins(B, kind, e.to + 1) :
            p = Phrase(kind, i, q.to, Join(kind, Sole(kind, t[i], e.means), q.means))
      BY <2>1, <3>1 DEF Behind
    <3>3. q \notin Begins(A, kind, e.to + 1)
      BY <2>1, <2>8, <3>1, <3>2 DEF Behind
    <3>4. Cut(t, q) /\ q.from = e.to + 1
      BY Zenon, <1>2, <3>2, <3>3
    <3>5. q.to = n + 1 /\ (q.from = n + 1 \/ t[n] \in {"{", "[", ","})
      BY <3>4 DEF Cut, n
    <3>6. p.to = n + 1
      BY <3>2, <3>5 DEF Phrase
    <3>7. q.from = n + 1 => e.to = n
      BY <1>0, <2>4, <3>4
    <3>8. Mark(t, e.to) = ","
      BY <2>1, <3>1 DEF Behind
    <3>9. e.to = n => t[n] = ","
      <4>1. n <= n
        BY <1>0
      <4> QED
        BY <3>8, <4>1 DEF Mark, n
    <3>10. t[n] \in {"{", "[", ","}
      BY <3>5, <3>7, <3>9
    <3> QED
      BY <3>6, <3>10 DEF Cut, n
  <2> QED
    BY <2>7, <2>8
<1> QED
  BY <1>3, <1>4

\* What a lax text reads differently is cut off by its end.
LEMMA LaxIs ==
  ASSUME NEW t \in Seq(STRING)
  PROVE  /\ Phrases(t, FALSE) \subseteq Phrases(t, TRUE)
         /\ \A p \in Phrases(t, TRUE) : Fits(p, Len(t)) /\ (p \in Phrases(t, FALSE) \/ Cut(t, p))
<1> DEFINE n == Len(t)
<1>1. PICK g : Stages(g, t, FALSE, n) /\ Phrases(t, FALSE) = g[n]
  BY PhrasesAre
<1>2. PICK h : Stages(h, t, TRUE, n) /\ Phrases(t, TRUE) = h[n]
  BY PhrasesAre
<1>0. n \in Nat /\ 0 \in Nat
  OBVIOUS
<1> DEFINE Alike(A, B) == A \subseteq B /\ \A p \in B : Fits(p, Len(t)) /\ (p \in A \/ Cut(t, p))
           S == {k \in Nat : Alike(g[k], h[k])}
<1>3. 0 \in S
  <2>1. g[0] = AtEnd(t, FALSE) /\ h[0] = AtEnd(t, TRUE)
    BY <1>1, <1>2 DEF Stages
  <2>2. AtEnd(t, FALSE) = {}
    BY DEF AtEnd
  <2>3. \A p \in AtEnd(t, TRUE) : Fits(p, n)
    BY Grammar
  <2>4. \A p \in AtEnd(t, TRUE) : Cut(t, p)
    <3> SUFFICES ASSUME NEW kind
                 PROVE  Cut(t, Phrase(kind, n + 1, n + 1, <<>>))
      BY DEF AtEnd
    <3> DEFINE p == Phrase(kind, n + 1, n + 1, <<>>)
    <3>1. p.from = n + 1 /\ p.to = n + 1
      BY DEF Phrase
    <3> HIDE DEF p
    <3>2. Cut(t, p)
      BY <3>1 DEF Cut
    <3> QED
      BY <3>2 DEF p
  <2> QED
    BY <1>0, <2>1, <2>2, <2>3, <2>4
<1>4. ASSUME NEW k \in 0 .. n - 1, k \in S
      PROVE  k + 1 \in S
  <2> DEFINE A == g[k]
             B == h[k]
             i == n + 1 - (k + 1)
             C == A \cup Values(t, i, A)
             D == B \cup Values(t, i, B)
  <2>0. i \in 1 .. Len(t) /\ k + 1 \in 1 .. n /\ (k + 1) - 1 = k /\ k + 1 \in Nat
    BY <1>0
  <2>1. g[k + 1] = From(t, i, A) /\ h[k + 1] = From(t, i, B)
    <3> HIDE DEF n, S
    <3>1. /\ g[k + 1] = From(t, n + 1 - (k + 1), g[(k + 1) - 1])
          /\ h[k + 1] = From(t, n + 1 - (k + 1), h[(k + 1) - 1])
      BY <1>1, <1>2, <2>0 DEF Stages, n
    <3> QED
      BY <2>0, <3>1
  <2>2. A \subseteq B /\ \A p \in B : Fits(p, Len(t)) /\ (p \in A \/ Cut(t, p))
    BY <1>4
  <2> HIDE DEF A, B, i, n, S
  <2>3. Values(t, i, A) \subseteq Values(t, i, B)
    BY <2>2, FromMore
  <2>4. \A p \in Values(t, i, B) : Fits(p, Len(t))
    BY <2>0, <2>2, FromFits
  <2>5. \A p \in Values(t, i, B) : p \in Values(t, i, A) \/ Cut(t, p)
    BY <2>0, <2>2, FromCut
  <2>6. C \subseteq D /\ \A p \in D : Fits(p, Len(t)) /\ (p \in C \/ Cut(t, p))
    BY <2>2, <2>3, <2>4, <2>5
  <2> HIDE DEF C, D
  <2>7. \A kind : Rests(kind, t, i, C) \subseteq Rests(kind, t, i, D)
    BY <2>6, FromMore
  <2>8. \A kind \in {"{", "["} : \A p \in Rests(kind, t, i, D) : Fits(p, Len(t))
    <3>1. \A qs : (\A p \in qs : Fits(p, Len(t))) =>
                   \A kind \in {"{", "["} : \A p \in Rests(kind, t, i, qs) :
                     Fits(p, Len(t)) /\ p.from = i /\ p.is = kind
      BY <2>0, <2>2, FromFits
    <3> QED
      BY Zenon, <2>6, <3>1
  <2>9. \A kind \in {"{", "["} : \A p \in Rests(kind, t, i, D) :
          p \in Rests(kind, t, i, C) \/ Cut(t, p)
    <3>1. i \in 1 .. Len(t)
      BY <2>0
    <3>2. \A p \in D : Fits(p, Len(t)) /\ (p \in C \/ Cut(t, p))
      BY <2>6
    <3> QED
      BY Zenon, <3>1, <3>2, FromCut
  <2>10. /\ From(t, i, A) = C \cup Rests("{", t, i, C) \cup Rests("[", t, i, C)
         /\ From(t, i, B) = D \cup Rests("{", t, i, D) \cup Rests("[", t, i, D)
    BY DEF From, C, D
  <2>11. From(t, i, A) \subseteq From(t, i, B)
    BY <2>6, <2>7, <2>10
  <2>12. ASSUME NEW p \in From(t, i, B)
         PROVE  Fits(p, Len(t)) /\ (p \in From(t, i, A) \/ Cut(t, p))
    <3>1. CASE p \in D
      BY <2>6, <2>10, <3>1
    <3>2. ASSUME NEW kind \in {"{", "["}, p \in Rests(kind, t, i, D)
          PROVE  Fits(p, Len(t)) /\ (p \in From(t, i, A) \/ Cut(t, p))
      <4>1. Fits(p, Len(t)) /\ (p \in Rests(kind, t, i, C) \/ Cut(t, p))
        BY Zenon, <2>8, <2>9, <3>2
      <4>2. Rests(kind, t, i, C) \subseteq From(t, i, A)
        BY <2>10
      <4> QED
        BY <4>1, <4>2
    <3> QED
      BY <2>10, <3>1, <3>2
  <2> QED
    BY <2>0, <2>1, <2>11, <2>12 DEF S
<1>5. n \in S
  <2>1. n \in 0 .. n
    BY <1>0
  <2> HIDE DEF S, n
  <2> QED
    BY <1>0, <1>3, <1>4, <2>1, Climb
<1> QED
  BY <1>1, <1>2, <1>5

\* What the reader makes of a text is what it means.
LEMMA MeansAre ==
  ASSUME NEW t \in Seq(STRING), NEW lax
  PROVE  \A w : w \in Means(t, lax) <=> Phrase("value", 1, Len(t) + 1, w) \in Phrases(t, lax)
<1> DEFINE P == Phrases(t, lax)
           n == Len(t)
<1>1. \A p \in P : p = Phrase(p.is, p.from, p.to, p.means)
  <2>1. \A p \in P : Fits(p, Len(t))
    BY Grammar
  <2> HIDE DEF P
  <2> QED
    BY <2>1 DEF Fits
<1>2. Means(t, lax) = {p.means : p \in {q \in Begins(P, "value", 1) : q.to = n + 1}}
  BY DEF Means
<1> HIDE DEF P, n
<1>3. ASSUME NEW w
      PROVE  w \in Means(t, lax) <=> Phrase("value", 1, n + 1, w) \in P
  <2>1. ASSUME w \in Means(t, lax)
        PROVE  Phrase("value", 1, n + 1, w) \in P
    <3>1. PICK p \in Begins(P, "value", 1) : p.to = n + 1 /\ w = p.means
      BY <1>2, <2>1
    <3>2. p \in P /\ p.is = "value" /\ p.from = 1
      BY <3>1 DEF Begins
    <3> QED
      BY <1>1, <3>1, <3>2
  <2>2. ASSUME Phrase("value", 1, n + 1, w) \in P
        PROVE  w \in Means(t, lax)
    <3> DEFINE p == Phrase("value", 1, n + 1, w)
    <3>1. p.is = "value" /\ p.from = 1 /\ p.to = n + 1 /\ p.means = w
      BY DEF Phrase
    <3>2. p \in P
      BY <2>2
    <3> HIDE DEF p
    <3>3. p \in Begins(P, "value", 1)
      BY <3>1, <3>2 DEF Begins
    <3> QED
      BY <1>2, <3>1, <3>3
  <2> QED
    BY <2>1, <2>2
<1> QED
  BY <1>3 DEF P, n

\* A text means what the lax text means, if it does not end with a bracket that
\* opens or with a comma; then it may mean nothing.
LEMMA LaxMeans ==
  ASSUME NEW t \in Seq(STRING)
  PROVE  /\ Json(t) \subseteq Means(t, TRUE)
         /\ Json(t) = Means(t, TRUE) \/ t[Len(t)] \in {"{", "[", ","}
<1> DEFINE p(w) == Phrase("value", 1, Len(t) + 1, w)
<1>1. /\ \A w : w \in Json(t) <=> p(w) \in Phrases(t, FALSE)
      /\ \A w : w \in Means(t, TRUE) <=> p(w) \in Phrases(t, TRUE)
  BY MeansAre DEF Json
<1>2. /\ Phrases(t, FALSE) \subseteq Phrases(t, TRUE)
      /\ \A q \in Phrases(t, TRUE) : Fits(q, Len(t)) /\ (q \in Phrases(t, FALSE) \/ Cut(t, q))
  BY LaxIs
<1>3. ASSUME NEW w, p(w) \in Phrases(t, TRUE), p(w) \notin Phrases(t, FALSE)
      PROVE  t[Len(t)] \in {"{", "[", ","}
  <2>1. Cut(t, p(w)) /\ Fits(p(w), Len(t))
    BY <1>2, <1>3
  <2>2. p(w).is = "value" /\ p(w).from = 1 /\ p(w).to = Len(t) + 1
    BY DEF Phrase
  <2> HIDE DEF p
  <2>3. p(w).to > p(w).from
    BY <2>1, <2>2 DEF Fits
  <2>4. Len(t) + 1 > 1
    BY <2>2, <2>3
  <2>5. 1 # Len(t) + 1
    BY <2>4
  <2> QED
    BY <2>1, <2>2, <2>5 DEF Cut
<1> HIDE DEF p
<1>4. Json(t) \subseteq Means(t, TRUE)
  BY <1>1, <1>2
<1>5. ASSUME Json(t) # Means(t, TRUE)
      PROVE  t[Len(t)] \in {"{", "[", ","}
  <2>1. PICK w : w \in Means(t, TRUE) /\ w \notin Json(t)
    BY <1>4, <1>5
  <2> QED
    BY <1>1, <1>3, <2>1
<1> QED
  BY <1>4, <1>5

-----------------------------------------------------------------------------
(* A run with its log.                                                        *)

\* The reader keeps count in every run: of its texts and of all they come to.
THEOREM ReaderCounts == RSpec => []JsonInv
<1>1. RInit => JsonInv
  <2>1. <<>> \in Seq(STRING)
    OBVIOUS
  <2>2. \A t \in Seq(STRING \ {"end"}) : t \in Seq(STRING)
    OBVIOUS
  <2>3. (IF cmd.name = "replay" THEN Logs ELSE {<<>>}) \subseteq Seq(STRING)
    BY <2>1, <2>2, LogTextsAssumption
  <2> QED
    BY <2>3, JsonInitInv DEF RInit
<1>2. JsonInv /\ [RNext]_<<vars, jvars>> => JsonInv'
  <2> SUFFICES ASSUME JsonInv, [RNext]_<<vars, jvars>>
               PROVE  JsonInv'
    OBVIOUS
  <2>1. CASE jvars' = jvars
    <3>1. /\ text' = text /\ pos' = pos /\ open' = open /\ got' = got /\ mode' = mode
          /\ nodes' = nodes /\ lost' = lost
      BY <2>1 DEF jvars
    <3>2. Calls' /\ Given' = Given /\ InFrames(open)' = InFrames(open)
      BY <3>1 DEF JsonInv, Calls, Given, InFrames, KeyNodes, Top, Outer, Inside
    <3> QED
      BY <3>1, <3>2 DEF JsonInv, Sized
  <2>2. CASE Parses
    BY <2>2, JsonStep DEF Parses
  <2> QED
    BY <2>1, <2>2 DEF RNext, ParsedLog
<1> QED
  BY <1>1, <1>2, PTL DEF RSpec

\* Every node that the reader of the log allocated is in what it returns or on
\* its way there, on every path of a failure, and only a key that comes twice
\* loses one (pc_json_parse), for texts of every length and depth.
THEOREM NodesHold == RSpec => []NodesAccounted
<1>1. JsonInv => NodesAccounted
  <2> SUFFICES ASSUME JsonInv
               PROVE  NodesAccounted
    OBVIOUS
  <2>1. nodes = lost + Total([i \in DOMAIN open |-> open[i].value.size + KeyNodes(open[i])])
                + (IF mode \in {"got", "accepted"} THEN got.size ELSE 0)
    BY DEF JsonInv, InFrames, Given
  <2>2. lost > 0 => \E i, j \in DOMAIN text :
                      /\ i < j /\ text[i] = text[j]
                      /\ text[i] \in Keys /\ Token(i + 1) = ":"
                      /\ text[j] \in Keys /\ Token(j + 1) = ":"
    BY DEF JsonInv, Repeats, Member, Token
  <2> QED
    BY <2>1, <2>2 DEF NodesAccounted
<1> QED
  BY <1>1, ReaderCounts, PTL

\* The reader follows the grammar of JSON in every run.
LEMMA FollowsGrammar == RSpec => []GrammarInv
<1>1. RInit => GrammarInv
  <2>1. <<>> \in Seq(STRING \ {"end"})
    OBVIOUS
  <2>2. (IF cmd.name = "replay" THEN Logs ELSE {<<>>}) \subseteq Seq(STRING \ {"end"})
    BY <2>1, LogTextsAssumption
  <2> QED
    BY <2>2, GrammarInit DEF RInit
<1>2. JsonInv /\ GrammarInv /\ [RNext]_<<vars, jvars>> => GrammarInv'
  <2> SUFFICES ASSUME JsonInv, GrammarInv, [RNext]_<<vars, jvars>>
               PROVE  GrammarInv'
    OBVIOUS
  <2>1. CASE jvars' = jvars
    <3>1. text' = text /\ pos' = pos /\ open' = open /\ got' = got /\ mode' = mode
      BY <2>1 DEF jvars
    <3>2. PICK b : Follows(b)
      BY DEF GrammarInv
    <3>3. Follows(b)'
      BY <3>1, <3>2 DEF Follows, Found, Top, Outer, Inside
    <3> QED
      BY <3>1, <3>3 DEF GrammarInv
  <2>2. CASE Parses
    BY <2>2, GrammarStep DEF Parses
  <2> QED
    BY <2>1, <2>2 DEF RNext, ParsedLog
<1> QED
  BY <1>1, <1>2, ReaderCounts, PTL DEF RSpec

\* A text of any length and depth is accepted as what it means by the grammar of
\* JSON, and rejected only if it means nothing; what is no JSON is accepted only
\* when it ends behind a bracket that opens or a comma (pc_json_parse).
THEOREM ReadsAsMeant == RSpec => []ReadAsMeant
<1>1. ASSUME JsonInv, GrammarInv
      PROVE  ReadAsMeant
  <2>1. text \in Seq(STRING)
    BY <1>1, HereIs
  <2>2. PICK b : Follows(b)
    BY <1>1 DEF GrammarInv
  <2> DEFINE n == Len(text)
  <2>3. \A w : w \in Means(text, TRUE) <=> Reads(text, "value", 1, n + 1, w)
    BY <2>1, MeansAre DEF Reads
  <2>4. /\ Json(text) \subseteq Means(text, TRUE)
        /\ Json(text) = Means(text, TRUE) \/ text[Len(text)] \in {"{", "[", ","}
    BY <2>1, LaxMeans
  <2> HIDE DEF n
  <2>5. mode \in {"accepted", "rejected"} => Found(1)
    <3> SUFFICES ASSUME mode \in {"accepted", "rejected"}
                 PROVE  Found(1)
      OBVIOUS
    <3>1. Found(b[Len(open) + 1]) /\ b[1] = 1
      BY <2>2 DEF Follows
    <3>2. open = <<>>
      BY <3>1 DEF Found, Inside
    <3>3. Len(open) + 1 = 1
      BY <3>2
    <3> QED
      BY <3>1, <3>3
  <2>6. ASSUME mode = "accepted"
        PROVE  /\ Means(text, TRUE) = {got}
               /\ \/ Json(text) = {got}
                  \/ Json(text) = {} /\ text[Len(text)] \in {"{", "[", ","}
    <3>4. Found(1) /\ mode \in {"got", "accepted"}
      BY <2>5, <2>6
    <3>1. Only(text, 1, pos, got) /\ pos = n + 1
      BY <2>6, <3>4 DEF Found, n
    <3>2. \A w : w \in Means(text, TRUE) <=> w = got
      <4>1. \A w : Reads(text, "value", 1, pos, w) <=> w = got
        BY <3>1 DEF Only
      <4> QED
        BY <2>3, <3>1, <4>1
    <3>3. Means(text, TRUE) = {got}
      BY <3>2
    <3> QED
      BY <2>4, <3>3
  <2>7. ASSUME mode = "rejected"
        PROVE  Means(text, TRUE) = {} /\ Json(text) = {}
    <3>1. \A w : ~Reads(text, "value", 1, n + 1, w)
      BY <2>5, <2>7 DEF Found, n
    <3> QED
      BY <2>3, <2>4, <3>1
  <2> QED
    BY <2>6, <2>7 DEF ReadAsMeant
<1> QED
  BY <1>1, ReaderCounts, FollowsGrammar, PTL

\* The reader makes of the log one of the things that EngineUse has it make, so
\* a run with its log is a run of EngineUse (txn replay, pc_txn_from_json).
THEOREM RunsAreRuns == RSpec => Spec
<1>1. RInit => Init
  BY DEF RInit
<1>2. [RNext]_<<vars, jvars>> => [Next]_vars
  <2> SUFFICES ASSUME RNext, vars' # vars
               PROVE  Next
    BY DEF vars
  <2>1. ~Parses
    BY DEF Parses
  <2>2. CASE Works
    BY <2>2 DEF Next
  <2>3. CASE ParsedLog
    <3>1. (mode = "accepted" /\ got.kind = "{") \in BOOLEAN /\ (lost > 0) \in BOOLEAN
      OBVIOUS
    <3> QED
      BY <2>3, <3>1 DEF Next, ParsedLog
  <2> QED
    BY <2>1, <2>2, <2>3 DEF RNext
<1> QED
  BY <1>1, <1>2, PTL DEF RSpec, Spec

\* So with whatever log it replays, a program gives back what it took, nothing is
\* given back too early, and its exit code is true (txn.cc and the reader).
THEOREM RunsAreSafe == RSpec => [](ReleasedAtExit /\ NothingOutlives /\ ExitTells)
BY RunsAreRuns, AllIsReleased, NothingIsOutlived, ExitIsTrue, PTL

=============================================================================
