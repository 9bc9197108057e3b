--------------------------- MODULE CaretKeysProofs --------------------------
(* Proofs about PageText and CaretKeys: what the functions over a page's text *)
(* return for every text, and where the caret and the selection may be,       *)
(* whatever keys, clicks and pages.  A recursive function is shown to exist   *)
(* by its values up to n: a least n without one would have a predecessor.     *)
EXTENDS CaretKeys, WellFoundedInduction, FiniteSetTheorems, TLAPS

Text == Seq(STRING)

-----------------------------------------------------------------------------
(* Numbers.                                                                   *)

\* A set of natural numbers has a least one.
LEMMA MinOfNats ==
  ASSUME NEW S, S \subseteq Nat, S # {}
  PROVE  Min(S) \in S /\ \A y \in S : Min(S) <= y
<1> DEFINE Below(n) == {x \in S : x <= n}
           T == {Below(n) : n \in S}
<1>1. T \subseteq FiniteSubsetsOf(S)
  <2> SUFFICES ASSUME NEW n \in S
               PROVE  Below(n) \in FiniteSubsetsOf(S)
    OBVIOUS
  <2>1. IsFiniteSet(Below(n))
    <3>1. Below(n) \in SUBSET Nat /\ n \in Nat /\ \A x \in Below(n) : x <= n
      OBVIOUS
    <3> HIDE DEF Below
    <3>2. QED
      BY <3>1, FS_BoundedSetOfNaturals
  <2>2. QED
    BY <2>1 DEF FiniteSubsetsOf
<1>2. T # {}
  OBVIOUS
<1>3. PICK U \in T : \A V \in T : ~(<<V, U>> \in StrictSubsetOrdering(S))
  <2> HIDE DEF T
  <2>1. QED
    BY <1>1, <1>2, WFMin, FS_StrictSubsetOrderingWellFounded
<1>4. PICK m \in S : U = Below(m)
  BY <1>3
<1>5. ASSUME NEW j \in S
      PROVE  m <= j
  <2>1. SUFFICES ASSUME j < m
                 PROVE  FALSE
    BY <2>1
  <2>2. Below(j) \in T /\ Below(j) \in SUBSET S /\ Below(m) \in SUBSET S
    OBVIOUS
  <2>3. \A x \in S : x <= j => x <= m
    BY <2>1, S \subseteq Nat, j \in Nat, m \in Nat
  <2>4. m \in Below(m) /\ m \notin Below(j)
    BY <2>1
  <2>5. Below(j) \subseteq Below(m)
    BY <2>3
  <2> HIDE DEF Below, T
  <2>6. <<Below(j), Below(m)>> \in StrictSubsetOrdering(S)
    BY <2>2, <2>4, <2>5 DEF StrictSubsetOrdering
  <2>7. QED
    BY <2>2, <2>6, <1>3, <1>4
<1>6. QED
  BY <1>5 DEF Min

\* And a greatest one when it has a bound.
LEMMA MaxOfNats ==
  ASSUME NEW S, S \subseteq Nat, S # {}, NEW n \in Nat, \A x \in S : x <= n
  PROVE  Max(S) \in S /\ \A y \in S : y <= Max(S)
<1> DEFINE U == {m \in Nat : \A x \in S : x <= m}
           u == Min(U)
<1>1. u \in U /\ \A m \in U : u <= m
  <2>1. U \subseteq Nat /\ U # {}
    OBVIOUS
  <2> HIDE DEF U
  <2> QED
    BY <2>1, MinOfNats
<1>2. u \in Nat /\ \A x \in S : x <= u
  BY <1>1
<1>3. u \in S
  <2> SUFFICES ASSUME u \notin S PROVE FALSE
    OBVIOUS
  <2>0. \A x \in S : x \in Nat
    OBVIOUS
  <2>1. \A x \in S : x \in Nat /\ x <= u /\ x # u
    BY <1>2, <2>0
  <2> HIDE DEF u
  <2>2. PICK z \in S : TRUE
    OBVIOUS
  <2>3. u - 1 \in Nat /\ \A x \in S : x <= u - 1
    BY <1>2, <2>1, <2>2
  <2>4. u - 1 \in U
    BY <2>3
  <2> QED
    BY <1>1, <1>2, <2>4
<1> HIDE DEF U, u
<1>4. \A y \in S : y <= u
  BY <1>2
<1>5. \E x \in S : \A y \in S : x >= y
  BY <1>3, <1>4
<1> DEFINE m == Max(S)
<1>6. m \in S /\ \A y \in S : m >= y
  BY <1>5 DEF Max
<1> QED
  BY <1>6

\* Induction along the numbers from one to another: a set that has the first
\* and with each of them the next has them all.
LEMMA Climb ==
  ASSUME NEW S, NEW lo \in Nat, NEW n \in Nat, lo \in S,
         \A k \in lo .. n - 1 : k \in S => k + 1 \in S
  PROVE  \A k \in lo .. n : k \in S
<1> DEFINE Bad == {k \in lo .. n : k \notin S}
           m == Min(Bad)
<1>1. SUFFICES ASSUME Bad # {} PROVE FALSE
  OBVIOUS
<1>2. Bad \subseteq Nat
  OBVIOUS
<1>3. m \in Bad /\ \A y \in Bad : m <= y
  <2> HIDE DEF Bad
  <2> QED
    BY <1>1, <1>2, MinOfNats
<1> HIDE DEF m
<1>4. m \in lo .. n /\ m \notin S /\ m # lo
  BY <1>3
<1>5. m - 1 \in lo .. n - 1 /\ m - 1 \in lo .. n /\ (m - 1) + 1 = m
  BY <1>4
<1>6. m - 1 \notin Bad
  BY <1>3, <1>5
<1> QED
  BY <1>4, <1>5, <1>6

-----------------------------------------------------------------------------
(* Bytes and clusters.                                                        *)

\* A character has one byte or two.
LEMMA WidthPositive ==
  ASSUME NEW c
  PROVE  Width(c) \in Nat /\ Width(c) >= 1
BY DEF Width

\* The bytes where the first n characters start can be counted.
LEMMA StartUpTo ==
  ASSUME NEW t \in Text, NEW n \in 0 .. Len(t)
  PROVE  \E g \in [1 .. n + 1 -> Nat] :
           g[1] = 0 /\ \A i \in 1 .. n : g[i + 1] = g[i] + Width(t[i])
<1> DEFINE Counted(m, g) == g[1] = 0 /\ \A i \in 1 .. m : g[i + 1] = g[i] + Width(t[i])
           S == {m \in Nat : \E g \in [1 .. m + 1 -> Nat] : Counted(m, g)}
<1>0. Len(t) \in Nat
  BY DEF Text
<1>1. 0 \in S
  <2> DEFINE g == [i \in 1 .. 1 |-> 0]
  <2>1. g \in [1 .. 0 + 1 -> Nat] /\ Counted(0, g)
    OBVIOUS
  <2> HIDE DEF g
  <2> QED
    BY <2>1
<1>2. ASSUME NEW k \in 0 .. n - 1, k \in S
      PROVE  k + 1 \in S
  <2> DEFINE m == k + 1
  <2>1. k \in Nat /\ m \in Nat
    BY <1>0
  <2>2. PICK g \in [1 .. m -> Nat] : Counted(k, g)
    BY <1>2
  <2> DEFINE h == [i \in 1 .. m + 1 |-> IF i = m + 1 THEN g[m] + Width(t[m]) ELSE g[i]]
  <2>4. h \in [1 .. m + 1 -> Nat]
    <3>1. g[m] + Width(t[m]) \in Nat
      BY <2>1, <2>2, WidthPositive
    <3> SUFFICES ASSUME NEW i \in 1 .. m + 1
                 PROVE  (IF i = m + 1 THEN g[m] + Width(t[m]) ELSE g[i]) \in Nat
      OBVIOUS
    <3> QED
      BY <2>1, <2>2, <3>1
  <2>5. h[1] = 0
    BY <2>1, <2>2
  <2>6. ASSUME NEW i \in 1 .. m
        PROVE  h[i + 1] = h[i] + Width(t[i])
    <3>1. CASE i = m
      BY <2>1, <3>1
    <3>2. CASE i # m
      <4>1. i \in 1 .. k /\ i + 1 # m + 1 /\ i # m + 1 /\ i + 1 \in 1 .. m + 1 /\ i \in 1 .. m + 1
        BY <2>1, <3>2
      <4>2. g[i + 1] = g[i] + Width(t[i])
        BY <2>2, <4>1
      <4> QED
        BY <4>1, <4>2
    <3> QED
      BY <3>1, <3>2
  <2>7. Counted(m, h)
    <3> HIDE DEF h
    <3> QED
      BY <2>5, <2>6
  <2> HIDE DEF h, m
  <2>8. m \in S
    BY <2>1, <2>4, <2>7
  <2> QED
    BY <2>8 DEF m
<1>3. \A k \in 0 .. n : k \in S
  <2> HIDE DEF S
  <2> QED
    BY <1>0, <1>1, <1>2, Climb
<1>4. n \in S
  BY <1>0, <1>3
<1> QED
  BY <1>4

\* The bytes where characters start: from 0, each character by its width.
LEMMA StartFacts ==
  ASSUME NEW t \in Text
  PROVE  /\ Start(t) \in [1 .. Len(t) + 1 -> Nat]
         /\ Start(t)[1] = 0
         /\ \A i \in 1 .. Len(t) : Start(t)[i + 1] = Start(t)[i] + Width(t[i])
<1>0. Len(t) \in Nat
  BY DEF Text
<1>1. PICK g \in [1 .. Len(t) + 1 -> Nat] :
        g[1] = 0 /\ \A i \in 1 .. Len(t) : g[i + 1] = g[i] + Width(t[i])
  <2>1. Len(t) \in 0 .. Len(t)
    BY <1>0
  <2> QED
    BY <2>1, StartUpTo
<1> DEFINE F(s) == [i \in 1 .. Len(t) + 1 |-> IF i = 1 THEN 0 ELSE s[i - 1] + Width(t[i - 1])]
<1>2. g = F(g)
  <2>1. ASSUME NEW i \in 1 .. Len(t) + 1
        PROVE  g[i] = IF i = 1 THEN 0 ELSE g[i - 1] + Width(t[i - 1])
    <3>1. CASE i # 1
      <4>1. i - 1 \in 1 .. Len(t) /\ (i - 1) + 1 = i
        BY <1>0, <3>1
      <4>2. g[(i - 1) + 1] = g[i - 1] + Width(t[i - 1])
        BY <1>1, <4>1
      <4> QED
        BY <3>1, <4>1, <4>2
    <3> QED
      BY <1>1, <3>1
  <2> QED
    BY <2>1
<1>3. Start(t) = F(Start(t))
  <2>1. Start(t) = CHOOSE s : s = F(s)
    BY Zenon DEF Start
  <2> HIDE DEF F
  <2> QED
    BY <1>2, <2>1
<1> DEFINE s == Start(t)
<1>4. \A i \in 1 .. Len(t) + 1 : s[i] = IF i = 1 THEN 0 ELSE s[i - 1] + Width(t[i - 1])
  BY <1>3
<1>5. DOMAIN s = 1 .. Len(t) + 1 /\ s = [i \in 1 .. Len(t) + 1 |-> s[i]]
  <2>1. s = F(s)
    BY <1>3
  <2> HIDE DEF s
  <2> QED
    BY <2>1
<1> HIDE DEF s, F
<1>6. s[1] = 0
  BY <1>0, <1>4
<1>7. ASSUME NEW i \in 1 .. Len(t)
      PROVE  s[i + 1] = s[i] + Width(t[i])
  <2>1. i + 1 \in 1 .. Len(t) + 1 /\ i + 1 # 1 /\ (i + 1) - 1 = i
    BY <1>0
  <2> QED
    BY <1>4, <2>1
<1>8. ASSUME NEW i \in 1 .. Len(t) + 1
      PROVE  s[i] = g[i]
  <2> DEFINE S == {j \in Nat : s[j] = g[j]}
  <2>1. 1 \in S
    BY <1>1, <1>6
  <2>2. ASSUME NEW j \in 1 .. (Len(t) + 1) - 1, j \in S
        PROVE  j + 1 \in S
    <3>1. j \in 1 .. Len(t) /\ j + 1 \in Nat
      BY <1>0
    <3>2. s[j + 1] = s[j] + Width(t[j]) /\ g[j + 1] = g[j] + Width(t[j])
      BY <1>1, <1>7, <3>1
    <3> QED
      BY <2>2, <3>1, <3>2
  <2>3. \A j \in 1 .. Len(t) + 1 : j \in S
    <3> HIDE DEF S
    <3>1. Len(t) + 1 \in Nat
      BY <1>0
    <3> QED
      BY <2>1, <2>2, <3>1, Climb
  <2> QED
    BY <2>3
<1>9. s \in [1 .. Len(t) + 1 -> Nat]
  BY <1>5, <1>8
<1> QED
  BY <1>6, <1>7, <1>9 DEF s

\* A later character starts at a later byte.
LEMMA StartIncreases ==
  ASSUME NEW t \in Text, NEW i \in 1 .. Len(t) + 1, NEW j \in 1 .. Len(t) + 1
  PROVE  /\ i <= j => Start(t)[i] <= Start(t)[j]
         /\ i < j => Start(t)[i] < Start(t)[j]
<1>0. Len(t) \in Nat
  BY DEF Text
<1> DEFINE s == Start(t)
           S == {k \in Nat : i < k => s[i] < s[k]}
<1>1. /\ s \in [1 .. Len(t) + 1 -> Nat]
      /\ \A k \in 1 .. Len(t) : s[k + 1] = s[k] + Width(t[k])
  BY StartFacts
<1> HIDE DEF s
<1>2. i \in S
  BY <1>0
<1>3. ASSUME NEW k \in i .. (Len(t) + 1) - 1, k \in S
      PROVE  k + 1 \in S
  <2>1. k \in 1 .. Len(t) /\ k \in 1 .. Len(t) + 1 /\ k + 1 \in Nat /\ (k = i \/ i < k)
    BY <1>0
  <2>2. s[k + 1] = s[k] + Width(t[k]) /\ s[k] \in Nat /\ s[i] \in Nat
    BY <1>1, <2>1
  <2>3. Width(t[k]) \in Nat /\ Width(t[k]) >= 1
    BY WidthPositive
  <2>4. s[i] < s[k + 1]
    BY <1>3, <2>1, <2>2, <2>3
  <2> QED
    BY <2>1, <2>4
<1>4. \A k \in i .. Len(t) + 1 : k \in S
  <2> HIDE DEF S
  <2>1. Len(t) + 1 \in Nat /\ i \in Nat
    BY <1>0
  <2> QED
    BY <1>2, <1>3, <2>1, Climb
<1>5. i < j => s[i] < s[j]
  BY <1>0, <1>4
<1>6. s[i] \in Nat /\ s[j] \in Nat
  BY <1>1
<1>7. i <= j => s[i] <= s[j]
  BY <1>0, <1>5, <1>6
<1> QED
  BY <1>5, <1>7 DEF s

\* The bytes of a text, and of its characters.
LEMMA BytesFacts ==
  ASSUME NEW t \in Text
  PROVE  /\ Len(t) \in Nat /\ Bytes(t) \in Nat
         /\ \A i \in 1 .. Len(t) + 1 : Start(t)[i] \in Nat /\ Start(t)[i] <= Bytes(t)
         /\ \A i \in DOMAIN t : i \in 1 .. Len(t) + 1 /\ i + 1 \in 1 .. Len(t) + 1
<1>1. Len(t) \in Nat /\ DOMAIN t = 1 .. Len(t)
  BY DEF Text
<1>2. Start(t) \in [1 .. Len(t) + 1 -> Nat]
  BY StartFacts
<1>3. Len(t) + 1 \in 1 .. Len(t) + 1
  BY <1>1
<1>4. \A i \in 1 .. Len(t) + 1 : i <= Len(t) + 1
  BY <1>1
<1>5. \A i \in 1 .. Len(t) + 1 : Start(t)[i] \in Nat /\ Start(t)[i] <= Start(t)[Len(t) + 1]
  BY <1>2, <1>3, <1>4, StartIncreases
<1>6. \A i \in DOMAIN t : i \in 1 .. Len(t) + 1 /\ i + 1 \in 1 .. Len(t) + 1
  BY <1>1
<1> QED
  BY <1>1, <1>3, <1>5, <1>6 DEF Bytes

\* The clusters of the first n characters can be found.
LEMMA BaseUpTo ==
  ASSUME NEW t \in Text, NEW n \in 0 .. Len(t)
  PROVE  \E g \in [1 .. n -> Nat] : \A i \in 1 .. n :
           g[i] = IF i > 1 /\ Glues(t[g[i - 1]], t[i]) THEN g[i - 1] ELSE i
<1> DEFINE Based(m, g) == \A i \in 1 .. m :
             g[i] = IF i > 1 /\ Glues(t[g[i - 1]], t[i]) THEN g[i - 1] ELSE i
           S == {m \in Nat : \E g \in [1 .. m -> Nat] : Based(m, g)}
<1>0. Len(t) \in Nat
  BY DEF Text
<1>1. 0 \in S
  <2> DEFINE g == [i \in 1 .. 0 |-> 0]
  <2>1. g \in [1 .. 0 -> Nat] /\ Based(0, g)
    OBVIOUS
  <2> HIDE DEF g
  <2> QED
    BY <2>1
<1>2. ASSUME NEW k \in 0 .. n - 1, k \in S
      PROVE  k + 1 \in S
  <2> DEFINE m == k + 1
  <2>1. k \in Nat /\ m \in Nat
    BY <1>0
  <2>2. PICK g \in [1 .. k -> Nat] : Based(k, g)
    BY <1>2
  <2> DEFINE last == IF m > 1 /\ Glues(t[g[k]], t[m]) THEN g[k] ELSE m
             h == [i \in 1 .. m |-> IF i = m THEN last ELSE g[i]]
  <2>3. last \in Nat
    BY <2>1, <2>2
  <2>4. h \in [1 .. m -> Nat]
    <3> HIDE DEF last
    <3> QED
      BY <2>1, <2>2, <2>3
  <2>5. Based(m, h)
    <3> SUFFICES ASSUME NEW i \in 1 .. m
                 PROVE  h[i] = IF i > 1 /\ Glues(t[h[i - 1]], t[i]) THEN h[i - 1] ELSE i
      OBVIOUS
    <3>1. i > 1 => i - 1 \in 1 .. k /\ i - 1 \in 1 .. m /\ i - 1 # m
      BY <2>1
    <3>2. i > 1 => h[i - 1] = g[i - 1]
      BY <3>1
    <3>3. CASE i = m
      <4>1. h[i] = last /\ i - 1 = k
        BY <2>1, <3>3
      <4> HIDE DEF h
      <4>2. QED
        BY <2>1, <3>2, <3>3, <4>1
    <3>4. CASE i # m
      <4>1. i \in 1 .. k /\ h[i] = g[i]
        BY <2>1, <3>4
      <4>2. g[i] = IF i > 1 /\ Glues(t[g[i - 1]], t[i]) THEN g[i - 1] ELSE i
        BY <2>2, <4>1
      <4> HIDE DEF h
      <4> QED
        BY <3>2, <4>1, <4>2
    <3> QED
      BY <3>3, <3>4
  <2> HIDE DEF h, m
  <2>6. m \in S
    BY <2>1, <2>4, <2>5
  <2> QED
    BY <2>6 DEF m
<1>3. \A k \in 0 .. n : k \in S
  <2> HIDE DEF S
  <2> QED
    BY <1>0, <1>1, <1>2, Climb
<1>4. n \in S
  <2> HIDE DEF S
  <2> QED
    BY <1>0, <1>3
<1> QED
  BY <1>4

\* The character that starts a cluster comes before the others of it.
LEMMA BaseFacts ==
  ASSUME NEW t \in Text
  PROVE  \A i \in DOMAIN t :
           /\ Base(t)[i] \in 1 .. i
           /\ Base(t)[i] = IF i > 1 /\ Glues(t[Base(t)[i - 1]], t[i]) THEN Base(t)[i - 1] ELSE i
<1>0. Len(t) \in Nat /\ DOMAIN t = 1 .. Len(t)
  BY DEF Text
<1> DEFINE F(b) == [i \in DOMAIN t |->
                      IF i > 1 /\ Glues(t[b[i - 1]], t[i]) THEN b[i - 1] ELSE i]
<1>1. PICK g \in [1 .. Len(t) -> Nat] : \A i \in 1 .. Len(t) :
        g[i] = IF i > 1 /\ Glues(t[g[i - 1]], t[i]) THEN g[i - 1] ELSE i
  <2>1. Len(t) \in 0 .. Len(t)
    BY <1>0
  <2> QED
    BY <2>1, BaseUpTo
<1>2. g = F(g)
  BY <1>0, <1>1
<1>3. Base(t) = F(Base(t))
  <2>1. Base(t) = CHOOSE b : b = F(b)
    BY Zenon DEF Base
  <2> HIDE DEF F
  <2> QED
    BY <1>2, <2>1
<1> DEFINE b == Base(t)
<1>4. \A i \in 1 .. Len(t) : b[i] = IF i > 1 /\ Glues(t[b[i - 1]], t[i]) THEN b[i - 1] ELSE i
  BY <1>0, <1>3
<1> HIDE DEF b
<1> DEFINE S == {i \in Nat : i \in 1 .. Len(t) => b[i] \in 1 .. i}
<1>5. ASSUME NEW k \in 1 .. Len(t) - 1, k \in S
      PROVE  k + 1 \in S
  <2>1. k \in 1 .. Len(t) /\ k + 1 \in 1 .. Len(t) /\ (k + 1) - 1 = k /\ k + 1 \in Nat
    BY <1>0
  <2>2. b[k] \in 1 .. k
    BY <1>5, <2>1
  <2>3. b[k + 1] = b[k] \/ b[k + 1] = k + 1
    BY <1>4, <2>1
  <2>4. b[k + 1] \in 1 .. k + 1
    BY <2>1, <2>2, <2>3
  <2> QED
    BY <2>1, <2>4
<1>6. 1 \in S
  BY <1>0, <1>4
<1>7. \A k \in 1 .. Len(t) : k \in S
  <2> HIDE DEF S
  <2> QED
    BY <1>0, <1>5, <1>6, Climb
<1>8. \A i \in 1 .. Len(t) : b[i] \in 1 .. i
  BY <1>7
<1> QED
  BY <1>0, <1>4, <1>8 DEF b

\* The caret stops are bytes of the text.
LEMMA BoundaryFacts ==
  ASSUME NEW t \in Text, NEW b \in Boundaries(t)
  PROVE  b \in Nat /\ b <= Bytes(t)
<1>0. Len(t) \in Nat /\ DOMAIN t = 1 .. Len(t)
  BY DEF Text
<1>1. PICK i \in DOMAIN t : b = Start(t)[Base(t)[i]]
  BY DEF Boundaries
<1>2. Base(t)[i] \in 1 .. Len(t) + 1
  <2>1. Base(t)[i] \in 1 .. i
    BY BaseFacts
  <2> QED
    BY <1>0, <2>1
<1> QED
  BY <1>1, <1>2, BytesFacts

-----------------------------------------------------------------------------
(* The caret.                                                                 *)

\* The bytes where a caret may stand.
Stops(t) == {0, Bytes(t)} \cup Boundaries(t)

\* A key moves the caret to a stop of the text, from wherever it was.
LEMMA TargetIsStop ==
  ASSUME NEW t \in Text, NEW pos \in Nat, NEW key \in Keys
  PROVE  Target(key, t, pos) \in Stops(t) /\ Target(key, t, pos) \in 0 .. Bytes(t)
<1>0. /\ Bytes(t) \in Nat /\ Stops(t) \subseteq Nat
      /\ \A b \in Boundaries(t) : b \in Nat /\ b <= Bytes(t)
      /\ \A b \in Stops(t) : b \in 0 .. Bytes(t)
  BY BytesFacts, BoundaryFacts DEF Stops
<1>1. CaretLeft(t, pos) \in Stops(t)
  <2> DEFINE S == {0} \cup {b \in Boundaries(t) : b < pos}
  <2>1. S \subseteq Nat /\ S # {} /\ (\A x \in S : x <= Bytes(t)) /\ S \subseteq Stops(t)
    BY <1>0 DEF Stops
  <2>2. Max(S) \in S
    <3> HIDE DEF S
    <3> QED
      BY <1>0, <2>1, MaxOfNats
  <2>3. CaretLeft(t, pos) \in {0, Max(S)}
    BY DEF CaretLeft
  <2> HIDE DEF S
  <2> QED
    BY <2>1, <2>2, <2>3 DEF Stops
<1>2. CaretRight(t, pos) \in Stops(t)
  <2> DEFINE S == {Bytes(t)} \cup {b \in Boundaries(t) : b > pos}
  <2>1. S \subseteq Nat /\ S # {} /\ S \subseteq Stops(t)
    BY <1>0 DEF Stops
  <2>2. Min(S) \in S
    <3> HIDE DEF S
    <3> QED
      BY <2>1, MinOfNats
  <2>3. CaretRight(t, pos) \in {Bytes(t), Min(S)}
    BY DEF CaretRight
  <2> HIDE DEF S
  <2> QED
    BY <2>1, <2>2, <2>3 DEF Stops
<1>3. Target(key, t, pos) \in {CaretLeft(t, pos), CaretRight(t, pos), 0, Bytes(t)}
  BY DEF Target, Keys
<1>4. 0 \in Stops(t) /\ Bytes(t) \in Stops(t)
  BY DEF Stops
<1> QED
  BY <1>0, <1>1, <1>2, <1>3, <1>4

\* What the keys and clicks of the caret keep: the caret is at a stop of the
\* page it was placed in, and each text is one.
CaretInv ==
  /\ text \in [Pages -> Text]
  /\ caretPage \in Pages /\ hasCaret \in BOOLEAN /\ caretPos \in Nat
  /\ hasCaret => caretPos \in Stops(text[caretPage])

\* Where a key starts from is a byte number.
LEMMA PositionInNat ==
  ASSUME CaretInv, NEW p \in Pages
  PROVE  Position(p) \in Nat
<1>1. text[p] \in Text /\ caretPos \in Nat
  BY DEF CaretInv
<1>2. Bytes(text[p]) \in Nat
  BY <1>1, BytesFacts
<1>3. Bytes(text[p]) \div 2 \in Nat
  BY <1>2
<1> QED
  BY <1>1, <1>3 DEF Position

\* The texts of the two pages.
LEMMA InitText ==
  ASSUME Init
  PROVE  text \in [Pages -> Text]
<1>1. PICK first \in FirstTexts, other \in OtherTexts : text = <<first, other>>
  BY DEF Init
<1>2. first \in Text /\ other \in Text
  BY TextsAssumption DEF Text
<1>3. text = [p \in 1 .. 2 |-> IF p = 1 THEN first ELSE other]
  BY <1>1
<1>4. Pages = 1 .. 2
  BY DEF Pages
<1> QED
  BY <1>2, <1>3, <1>4

\* The caret starts out and stays at a stop.
LEMMA CaretStep ==
  ASSUME CaretInv, [Next]_vars
  PROVE  CaretInv'
<1>1. ASSUME NEW p \in Pages, NEW key \in Keys, MoveCaret(p, key)
      PROVE  CaretInv'
  <2>1. text[p] \in Text /\ Position(p) \in Nat
    BY PositionInNat DEF CaretInv
  <2>2. caretPos' \in Stops(text[p]) /\ caretPos' \in 0 .. Bytes(text[p])
    BY <1>1, <2>1, TargetIsStop DEF MoveCaret
  <2>3. Bytes(text[p]) \in Nat
    BY <2>1, BytesFacts
  <2> QED
    BY <1>1, <2>2, <2>3 DEF MoveCaret, CaretInv
<1>2. ASSUME UNCHANGED <<text, caretPos, hasCaret, caretPage>>
      PROVE  CaretInv'
  BY <1>2 DEF CaretInv
<1>3. CASE \E p \in Pages : \E i \in Boxes(text[p]) : ClickHits(p, i)
  BY <1>2, <1>3 DEF ClickHits
<1>4. CASE ClickMisses
  BY <1>2, <1>4 DEF ClickMisses
<1>5. ASSUME NEW p \in Pages, NEW key \in Keys, DropSelection(p, key)
      PROVE  CaretInv'
  BY <1>2, <1>5 DEF DropSelection
<1>6. ASSUME NEW p \in Pages, NEW key \in Keys, ExtendSelection(p, key)
      PROVE  CaretInv'
  BY <1>2, <1>6 DEF ExtendSelection
<1>7. CASE UNCHANGED vars
  BY <1>2, <1>7 DEF vars
<1> QED
  BY <1>1, <1>3, <1>4, <1>5, <1>6, <1>7 DEF Next

\* The caret stands between two clusters of the page it was placed in,
\* whatever the texts, the pages and the keys.
THEOREM CaretStays == CSpec => []CaretOnStop
<1>1. Init => CaretInv
  <2> SUFFICES ASSUME Init PROVE CaretInv
    OBVIOUS
  <2>1. text \in [Pages -> Text]
    BY InitText
  <2> QED
    BY <2>1 DEF Init, CaretInv, Pages
<1>2. CaretInv /\ [Next]_vars => CaretInv'
  BY CaretStep
<1>3. CaretInv => CaretOnStop
  BY DEF CaretInv, CaretOnStop, Stops
<1> QED
  BY <1>1, <1>2, <1>3, PTL DEF CSpec

-----------------------------------------------------------------------------
(* The selection.                                                             *)

\* The boxes of a range, or for a range without any at most the box after it.
BoxesFit(t, from, to, boxes) ==
  /\ Meant(t, from, to) # {} => boxes = Meant(t, from, to)
  /\ Meant(t, from, to) = {} =>
       \A i \in boxes : /\ boxes = {i} /\ to <= Start(t)[i]
                        /\ \A j \in Boxes(t) : j < i => Start(t)[j + 1] <= from

\* A box's bytes are in the text, and the boxes are in the order of their bytes.
LEMMA BoxFacts ==
  ASSUME NEW t \in Text
  PROVE  /\ Boxes(t) \subseteq Nat
         /\ \A i \in Boxes(t) : /\ i <= Len(t)
                                /\ Start(t)[i] \in Nat /\ Start(t)[i + 1] \in Nat
                                /\ Start(t)[i] < Start(t)[i + 1] /\ Start(t)[i + 1] <= Bytes(t)
         /\ \A i, j \in Boxes(t) : i < j => Start(t)[i + 1] <= Start(t)[j]
         /\ \A i, j \in Boxes(t) : i <= j => /\ Start(t)[i] <= Start(t)[j]
                                             /\ Start(t)[i + 1] <= Start(t)[j + 1]
<1>1. Len(t) \in Nat /\ DOMAIN t = 1 .. Len(t)
  BY DEF Text
<1>2. \A i \in Boxes(t) : /\ i \in Nat /\ i <= Len(t) /\ i \in 1 .. Len(t) + 1
                          /\ i + 1 \in 1 .. Len(t) + 1 /\ i < i + 1
  BY <1>1 DEF Boxes
<1>3. \A i \in Boxes(t) : /\ Start(t)[i] \in Nat /\ Start(t)[i + 1] \in Nat
                          /\ Start(t)[i + 1] <= Bytes(t)
  BY <1>2, BytesFacts
<1>4. \A i \in Boxes(t) : Start(t)[i] < Start(t)[i + 1]
  BY <1>2, StartIncreases
<1>5. \A i, j \in Boxes(t) : (i < j => i + 1 <= j) /\ (i <= j => i + 1 <= j + 1)
  BY <1>2
<1>6. \A i, j \in Boxes(t) : i < j => Start(t)[i + 1] <= Start(t)[j]
  BY <1>2, <1>5, StartIncreases
<1>7. \A i, j \in Boxes(t) : i <= j => /\ Start(t)[i] <= Start(t)[j]
                                       /\ Start(t)[i + 1] <= Start(t)[j + 1]
  BY <1>2, <1>5, StartIncreases
<1> QED
  BY <1>2, <1>3, <1>4, <1>6, <1>7

\* pc_selection_extend selects the boxes of the bytes; where there is none, the box
\* after one place, or the first box of all when the range ends before it.
LEMMA SelectedFits ==
  ASSUME NEW t \in Text, NEW lo \in Nat, NEW hi \in Nat, lo <= hi
  PROVE  BoxesFit(t, lo, hi, Selected(t, lo, hi))
<1> DEFINE after == {i \in Boxes(t) : Start(t)[i + 1] > lo}
           first == Min(after)
           least == Min(Boxes(t))
           before == {i \in Boxes(t) : Start(t)[i] < hi \/ i = least}
           last == Max(before)
           sel == Selected(t, lo, hi)
           mean == Meant(t, lo, hi)
<1>0. /\ Boxes(t) \subseteq Nat /\ Len(t) \in Nat
      /\ \A i \in Boxes(t) : i <= Len(t)
  BY BoxFacts, BytesFacts
<1>1. sel = IF after = {} \/ (lo < hi /\ last < first) THEN {}
            ELSE IF lo = hi THEN {first} ELSE {i \in Boxes(t) : first <= i /\ i <= last}
  BY DEF Selected
<1>2. mean \subseteq after
  BY DEF Meant
<1>3. CASE after = {}
  <2>1. sel = {} /\ mean = {}
    BY <1>1, <1>2, <1>3
  <2> HIDE DEF sel, mean
  <2>2. /\ ~(mean # {})
        /\ \A i \in sel : FALSE
    BY <2>1
  <2> QED
    BY <2>2 DEF BoxesFit, sel, mean
<1>4. CASE after # {}
  <2>1. first \in after /\ \A i \in after : first <= i
    <3>1. after \subseteq Nat
      BY <1>0
    <3> HIDE DEF after
    <3> QED
      BY <1>4, <3>1, MinOfNats
  <2>2. Boxes(t) # {}
    BY <1>4
  <2>3. least \in Boxes(t) /\ \A i \in Boxes(t) : least <= i
    BY <1>0, <2>2, MinOfNats
  <2>4. last \in before /\ \A i \in before : i <= last
    <3>1. before \subseteq Nat /\ before # {} /\ \A i \in before : i <= Len(t)
      BY <1>0, <2>3
    <3> HIDE DEF before
    <3> QED
      BY <1>0, <3>1, MaxOfNats
  <2> HIDE DEF first, last, least
  <2>5. /\ first \in Boxes(t) /\ first \in Nat /\ Start(t)[first + 1] > lo
        /\ last \in Boxes(t) /\ last \in Nat /\ least \in Nat
    BY <1>0, <2>1, <2>3, <2>4
  <2>6. \A i \in mean : /\ i \in Boxes(t) /\ i \in Nat /\ first <= i /\ i <= last
                        /\ Start(t)[i] < hi /\ Start(t)[i + 1] > lo
    BY <1>0, <2>1, <2>4 DEF Meant
  <2>7. \A j \in Boxes(t) : j < first => Start(t)[j + 1] <= lo
    <3>1. ASSUME NEW j \in Boxes(t), j < first, ~(Start(t)[j + 1] <= lo)
          PROVE  FALSE
      <4>1. Start(t)[j + 1] \in Nat /\ j \in Nat
        BY <1>0, BoxFacts
      <4>2. j \in after
        BY <3>1, <4>1
      <4> HIDE DEF after
      <4> QED
        BY <2>1, <2>5, <3>1, <4>1, <4>2
    <3> QED
      BY <3>1
  <2>8. /\ Start(t)[first] \in Nat /\ Start(t)[first + 1] \in Nat
        /\ Start(t)[last] \in Nat
    BY <2>5, BoxFacts
  \* a box that is selected alone, for a range that has no byte of one
  <2>9. ASSUME mean = {}, sel = {first}, hi <= Start(t)[first]
        PROVE  BoxesFit(t, lo, hi, sel)
    <3> HIDE DEF mean, sel
    <3>1. \A i \in sel : /\ sel = {i} /\ hi <= Start(t)[i]
                        /\ \A j \in Boxes(t) : j < i => Start(t)[j + 1] <= lo
      BY <2>7, <2>9
    <3> QED
      BY <2>9, <3>1 DEF BoxesFit, mean
  <2>10. CASE lo = hi
    <3>1. sel = {first}
      BY <1>1, <1>4, <2>10
    <3>2. ASSUME NEW i \in mean
          PROVE  i = first
      <4>1. /\ i \in Boxes(t) /\ i \in Nat /\ first <= i /\ Start(t)[i] < lo
        BY <2>6, <2>10
      <4>2. first < i => Start(t)[first + 1] <= Start(t)[i]
        BY <2>5, <4>1, BoxFacts
      <4>3. Start(t)[i] \in Nat
        BY <4>1, BoxFacts
      <4> QED
        BY <2>5, <2>8, <4>1, <4>2, <4>3
    <3>3. CASE mean = {}
      <4>1. first \notin mean
        BY <3>3
      <4>2. ~(Start(t)[first] < hi)
        BY <2>5, <2>10, <4>1 DEF Meant
      <4>3. hi <= Start(t)[first]
        BY <2>8, <4>2
      <4> QED
        BY <2>9, <3>1, <3>3, <4>3
    <3>4. CASE mean # {}
      <4>1. mean = {first}
        BY <3>2, <3>4
      <4> HIDE DEF sel, mean
      <4>2. sel = mean /\ mean # {}
        BY <3>1, <4>1
      <4> QED
        BY <4>2 DEF BoxesFit, sel, mean
    <3> QED
      BY <3>3, <3>4
  <2>11. CASE lo < hi /\ last < first
    <3>1. sel = {}
      BY <1>1, <2>11
    <3>2. mean = {}
      <4> HIDE DEF mean
      <4> QED
        BY <2>5, <2>6, <2>11
    <3> HIDE DEF sel, mean
    <3>3. /\ ~(mean # {})
          /\ \A i \in sel : FALSE
      BY <3>1, <3>2
    <3> QED
      BY <3>3 DEF BoxesFit, sel, mean
  <2>12. CASE lo < hi /\ ~(last < first)
    <3>1. /\ sel = {i \in Boxes(t) : first <= i /\ i <= last}
          /\ first <= last
      BY <1>1, <1>4, <2>5, <2>12
    <3>2. mean \subseteq sel /\ first \in sel
      BY <2>5, <2>6, <3>1
    <3>3. CASE Start(t)[last] < hi
      <4>1. ASSUME NEW i \in sel
            PROVE  i \in mean
        <5>1. i \in Boxes(t) /\ first <= i /\ i <= last
          BY <3>1
        <5>2. Start(t)[i] <= Start(t)[last] /\ Start(t)[first + 1] <= Start(t)[i + 1]
          BY <2>5, <5>1, BoxFacts
        <5>3. Start(t)[i] \in Nat /\ Start(t)[i + 1] \in Nat
          BY <5>1, BoxFacts
        <5>4. Start(t)[i] < hi /\ Start(t)[i + 1] > lo
          BY <2>5, <2>8, <3>3, <5>2, <5>3
        <5> QED
          BY <5>1, <5>4 DEF Meant
      <4> HIDE DEF sel, mean
      <4>2. sel = mean /\ mean # {}
        BY <3>2, <4>1
      <4> QED
        BY <4>2 DEF BoxesFit, sel, mean
    <3>4. CASE ~(Start(t)[last] < hi)
      <4>1. last = least
        BY <2>4, <3>4
      <4>2. \A i \in Boxes(t) : last <= i
        BY <2>3, <4>1
      <4>3. first = last
        BY <2>5, <3>1, <4>2
      <4>4. sel = {first}
        <5>1. \A i \in sel : i \in Nat /\ i <= last /\ last <= i
          BY <1>0, <3>1, <4>2
        <5>2. \A i \in sel : i = first
          BY <2>5, <4>3, <5>1
        <5> HIDE DEF sel
        <5> QED
          BY <3>2, <5>2
      <4>5. first \notin mean
        BY <2>6, <3>4, <4>3
      <4>6. mean = {}
        <5> HIDE DEF mean, sel
        <5> QED
          BY <3>2, <4>4, <4>5
      <4>7. hi <= Start(t)[first]
        BY <2>8, <3>4, <4>3
      <4> QED
        BY <2>9, <4>4, <4>6, <4>7
    <3> QED
      BY <3>3, <3>4
  <2> QED
    BY <2>10, <2>11, <2>12
<1> QED
  BY <1>3, <1>4

\* What the keys and clicks of the selection keep: the anchor is in the page it
\* was placed in, and so are the bytes of a selection whose anchor is of its page.
SelectInv ==
  /\ CaretInv
  /\ anchorPage \in Pages /\ anchor \in Nat /\ anchor <= Bytes(text[anchorPage])
  /\ hasSelection =>
       /\ selection.page \in Pages /\ selection.from <= selection.to
       /\ anchorPage = selection.page => selection.to <= Bytes(text[selection.page])

\* A key starts from a byte of the page it is placed in.
LEMMA PositionInText ==
  ASSUME CaretInv, NEW p \in Pages
  PROVE  Position(p) \in Nat /\ Position(p) <= Bytes(text[IF hasCaret THEN caretPage ELSE p])
<1>1. text[p] \in Text /\ text[caretPage] \in Text
  BY DEF CaretInv
<1>2. CASE hasCaret
  <2>1. caretPos \in Stops(text[caretPage])
    BY <1>2 DEF CaretInv
  <2>2. caretPos \in Nat /\ caretPos <= Bytes(text[caretPage])
    BY <1>1, <2>1, BytesFacts, BoundaryFacts DEF Stops
  <2> QED
    BY <1>2, <2>2 DEF Position
<1>3. CASE ~hasCaret
  <2>1. Bytes(text[p]) \in Nat
    BY <1>1, BytesFacts
  <2>2. Bytes(text[p]) \div 2 \in Nat /\ Bytes(text[p]) \div 2 <= Bytes(text[p])
    BY <2>1
  <2> QED
    BY <1>3, <2>2 DEF Position
<1> QED
  BY <1>2, <1>3

\* Shift with a key: the anchor is placed in a page, and the bytes are between.
LEMMA ExtendFits ==
  ASSUME SelectInv, CaretInv', NEW p \in Pages, NEW key \in Keys, ExtendSelection(p, key)
  PROVE  SelectInv'
<1> DEFINE to == Target(key, text[p], Position(p))
           arrow == key \in {"left", "right"}
           lo == Lesser(anchor', to)
           hi == Greater(anchor', to)
<1>1. CaretInv /\ text[p] \in Text /\ Bytes(text[p]) \in Nat
  <2>1. text[p] \in Text
    BY DEF SelectInv, CaretInv
  <2> QED
    BY <2>1, BytesFacts DEF SelectInv
<1>2. to \in Nat /\ to <= Bytes(text[p])
  <2>1. Position(p) \in Nat
    BY <1>1, PositionInNat
  <2>2. to \in 0 .. Bytes(text[p])
    BY <1>1, <2>1, TargetIsStop
  <2> HIDE DEF to
  <2> QED
    BY <1>1, <2>2
<1>3. /\ IF hasSelection THEN UNCHANGED <<anchor, anchorPage>>
         ELSE /\ anchor' = IF arrow THEN Position(p) ELSE to
              /\ anchorPage' = IF arrow /\ hasCaret THEN caretPage ELSE p
      /\ \/ Extended(p, to) /\ UNCHANGED alive
         \/ UNCHANGED <<hasSelection, selection>>
      /\ text' = text
  BY DEF ExtendSelection
<1> HIDE DEF to
<1>4. anchorPage' \in Pages /\ anchor' \in Nat /\ anchor' <= Bytes(text[anchorPage'])
  <2>1. CASE hasSelection
    BY <1>3, <2>1 DEF SelectInv
  <2>2. CASE ~hasSelection /\ arrow
    <3>1. Position(p) \in Nat /\ Position(p) <= Bytes(text[IF hasCaret THEN caretPage ELSE p])
      BY <1>1, PositionInText
    <3>2. caretPage \in Pages
      BY <1>1 DEF CaretInv
    <3>3. anchor' = Position(p) /\ anchorPage' = IF hasCaret THEN caretPage ELSE p
      BY <1>3, <2>2
    <3> QED
      BY <3>1, <3>2, <3>3
  <2>3. CASE ~hasSelection /\ ~arrow
    BY <1>2, <1>3, <2>3
  <2> QED
    BY <2>1, <2>2, <2>3
<1>5. /\ lo \in Nat /\ hi \in Nat /\ lo <= hi
      /\ anchorPage' = p => hi <= Bytes(text[p])
  BY <1>1, <1>2, <1>4 DEF Lesser, Greater
<1>6. Extended(p, to) =>
        \/ /\ hasSelection' = TRUE
           /\ selection'.page = p /\ selection'.from = lo /\ selection'.to = hi
        \/ hasSelection' = FALSE
  BY DEF Extended
<1> HIDE DEF lo, hi
<1>8. CASE Extended(p, to) /\ hasSelection' = TRUE
  <2>1. selection'.page = p /\ selection'.from = lo /\ selection'.to = hi
    BY <1>6, <1>8
  <2> QED
    BY <1>3, <1>4, <1>5, <2>1 DEF SelectInv
<1>9. CASE hasSelection' = FALSE
  BY <1>3, <1>4, <1>9 DEF SelectInv
<1>10. CASE UNCHANGED <<hasSelection, selection>> /\ hasSelection
  <2>1. UNCHANGED <<anchor, anchorPage>>
    BY <1>3, <1>10
  <2> QED
    BY <1>3, <1>4, <1>10, <2>1 DEF SelectInv
<1>11. CASE UNCHANGED <<hasSelection, selection>> /\ ~hasSelection
  BY <1>3, <1>4, <1>11 DEF SelectInv
<1> QED
  BY <1>3, <1>6, <1>8, <1>9, <1>10, <1>11

\* What the keys and clicks of the selection keep, they keep.
LEMMA SelectStep ==
  ASSUME SelectInv, [Next]_vars
  PROVE  SelectInv'
<1>0. CaretInv'
  BY CaretStep DEF SelectInv
<1>1. ASSUME NEW p \in Pages, NEW i \in Boxes(text[p]), ClickHits(p, i)
      PROVE  SelectInv'
  <2>1. text[p] \in Text
    BY DEF SelectInv, CaretInv
  <2>2. /\ Start(text[p])[i] <= Start(text[p])[i + 1]
        /\ Start(text[p])[i + 1] <= Bytes(text[p])
    BY <2>1, BoxFacts
  <2>3. /\ selection'.page = p /\ selection'.from = Start(text[p])[i]
        /\ selection'.to = Start(text[p])[i + 1]
        /\ UNCHANGED <<text, anchor, anchorPage>>
    BY <1>1 DEF ClickHits
  <2> QED
    BY <1>0, <2>2, <2>3 DEF SelectInv
<1>2. ASSUME hasSelection' = FALSE, UNCHANGED <<text, anchor, anchorPage>>
      PROVE  SelectInv'
  BY <1>0, <1>2 DEF SelectInv
<1>3. CASE ClickMisses
  BY <1>2, <1>3 DEF ClickMisses
<1>4. ASSUME NEW p \in Pages, NEW key \in Keys, MoveCaret(p, key)
      PROVE  SelectInv'
  BY <1>2, <1>4 DEF MoveCaret
<1>5. ASSUME NEW p \in Pages, NEW key \in Keys, DropSelection(p, key)
      PROVE  SelectInv'
  BY <1>2, <1>5 DEF DropSelection
<1>6. ASSUME NEW p \in Pages, NEW key \in Keys, ExtendSelection(p, key)
      PROVE  SelectInv'
  BY <1>0, <1>6, ExtendFits
<1>7. CASE UNCHANGED vars
  BY <1>0, <1>7 DEF vars, SelectInv
<1> QED
  BY <1>1, <1>3, <1>4, <1>5, <1>6, <1>7 DEF Next

\* The bytes of a selection are in its page or reach from the other one, and
\* pc_selection_extend selects the boxes of the bytes, whatever the texts.
THEOREM SelectionsSound == CSpec => []SelectionSound
<1>1. Init => SelectInv
  <2> SUFFICES ASSUME Init PROVE SelectInv
    OBVIOUS
  <2>1. text \in [Pages -> Text]
    BY InitText
  <2>2. CaretInv
    BY <2>1 DEF Init, CaretInv, Pages
  <2>3. Bytes(text[1]) \in Nat
    BY <2>1, BytesFacts DEF Pages
  <2> QED
    BY <2>1, <2>2, <2>3 DEF Init, SelectInv, Pages
<1>2. SelectInv /\ [Next]_vars => SelectInv'
  BY SelectStep
<1>3. SelectInv => SelectionSound
  <2> SUFFICES ASSUME SelectInv
               PROVE  SelectionSound
    OBVIOUS
  <2>1. Bytes(text[1]) \in Nat /\ Bytes(text[2]) \in Nat
    BY BytesFacts DEF SelectInv, CaretInv, Pages
  <2>2. ASSUME NEW p \in Pages, NEW lo \in 0 .. Bytes(text[1]) + Bytes(text[2]),
               NEW hi \in 0 .. Bytes(text[1]) + Bytes(text[2]), lo <= hi
        PROVE  BoxesFit(text[p], lo, hi, Selected(text[p], lo, hi))
    <3>1. text[p] \in Text /\ lo \in Nat /\ hi \in Nat
      BY <2>1 DEF SelectInv, CaretInv
    <3> QED
      BY <2>2, <3>1, SelectedFits
  <2> QED
    BY <2>2, Zenon DEF SelectInv, SelectionSound, BoxesFit
<1> QED
  BY <1>1, <1>2, <1>3, PTL DEF CSpec

-----------------------------------------------------------------------------
(* The search.                                                                *)

\* What the search finds from character i on, when next gives the later ones.
FoundFrom(t, q, i, next) ==
  IF i > Len(t) THEN {}
  ELSE IF MatchesAt(t, q, i) THEN {i} \cup next[i + Len(q)] ELSE next[i + 1]

\* A match ends within the text.
LEMMA MatchFacts ==
  ASSUME NEW t \in Text, NEW q \in Text, q # <<>>
  PROVE  /\ Len(t) \in Nat /\ Len(q) \in Nat /\ Len(q) >= 1
         /\ \A i \in Nat : MatchesAt(t, q, i) => i + Len(q) <= Len(t) + 1
<1>1. Len(t) \in Nat /\ Len(q) \in Nat /\ Len(q) >= 1
  BY DEF Text
<1>2. ASSUME NEW i \in Nat, MatchesAt(t, q, i)
      PROVE  i + Len(q) <= Len(t) + 1
  <2>1. i + Len(q) - 1 <= Len(t)
    BY <1>2 DEF MatchesAt
  <2> QED
    BY <1>1, <2>1
<1> QED
  BY <1>1, <1>2

\* What the search finds in the last k characters can be computed.
LEMMA FoundInLast ==
  ASSUME NEW t \in Text, NEW q \in Text, q # <<>>, NEW n \in 0 .. Len(t)
  PROVE  \E g \in [Len(t) + 1 - n .. Len(t) + 1 -> SUBSET Nat] :
           \A i \in Len(t) + 1 - n .. Len(t) + 1 : g[i] = FoundFrom(t, q, i, g)
<1> DEFINE N == Len(t) + 1
           Found(k, g) == \A i \in N - k .. N : g[i] = FoundFrom(t, q, i, g)
           S == {k \in Nat : \E g \in [N - k .. N -> SUBSET Nat] : Found(k, g)}
<1>0. /\ Len(t) \in Nat /\ N \in Nat /\ Len(q) \in Nat /\ Len(q) >= 1
      /\ \A i \in Nat : MatchesAt(t, q, i) => i + Len(q) <= N
  BY MatchFacts
<1>1. 0 \in S
  <2> DEFINE g == [i \in N - 0 .. N |-> {}]
  <2>1. g \in [N - 0 .. N -> SUBSET Nat]
    OBVIOUS
  <2>2. \A i \in N - 0 .. N : i > Len(t) /\ g[i] = {}
    BY <1>0
  <2> HIDE DEF g
  <2>3. Found(0, g)
    BY <2>2 DEF FoundFrom
  <2> QED
    BY <2>1, <2>3
<1>2. ASSUME NEW k \in 0 .. n - 1, k \in S
      PROVE  k + 1 \in S
  <2>1. PICK g \in [N - k .. N -> SUBSET Nat] : Found(k, g)
    BY <1>2
  <2> DEFINE m == N - (k + 1)
             new == FoundFrom(t, q, m, g)
             h == [i \in m .. N |-> IF i = m THEN new ELSE g[i]]
  <2>2. /\ k \in Nat /\ m \in Nat /\ m >= 1 /\ m + 1 = N - k /\ m <= Len(t)
        /\ m + 1 \in N - k .. N
    BY <1>0
  <2>3. MatchesAt(t, q, m) => m + Len(q) \in N - k .. N
    BY <1>0, <2>2
  <2> HIDE DEF m, N
  <2>4. new \in SUBSET Nat
    BY <2>1, <2>2, <2>3 DEF FoundFrom
  <2>5. h \in [m .. N -> SUBSET Nat]
    <3> HIDE DEF new
    <3>1. \A i \in m .. N : i # m => i \in N - k .. N
      BY <1>0, <2>2
    <3> QED
      BY <2>1, <2>4, <3>1
  <2>6. \A i \in N - k .. N : h[i] = g[i]
    <3> HIDE DEF new
    <3>1. \A i \in N - k .. N : i # m /\ i \in m .. N
      BY <1>0, <2>2
    <3> QED
      BY <3>1
  <2>7. ASSUME NEW i \in m .. N
        PROVE  h[i] = FoundFrom(t, q, i, h)
    <3>1. CASE i = m
      <4>1. h[i] = new
        BY <3>1
      <4> HIDE DEF h
      <4> QED
        BY <2>2, <2>3, <2>6, <3>1, <4>1 DEF FoundFrom
    <3>2. CASE i # m
      <4>1. i \in N - k .. N /\ i \in Nat
        BY <1>0, <2>2, <3>2
      <4>2. g[i] = FoundFrom(t, q, i, g)
        BY <2>1, <4>1
      <4>3. i <= Len(t) => i + 1 \in N - k .. N
        BY <1>0, <4>1 DEF N
      <4>4. MatchesAt(t, q, i) => i + Len(q) \in N - k .. N
        BY <1>0, <2>2, <4>1
      <4> HIDE DEF h
      <4>5. h[i] = g[i] /\ (i > Len(t) \/ i <= Len(t))
        BY <1>0, <2>6, <4>1
      <4>6. /\ i <= Len(t) => h[i + 1] = g[i + 1]
            /\ MatchesAt(t, q, i) => h[i + Len(q)] = g[i + Len(q)]
        BY <2>6, <4>3, <4>4
      <4>7. CASE i > Len(t)
        BY <4>2, <4>5, <4>7 DEF FoundFrom
      <4>8. CASE i <= Len(t) /\ ~(i > Len(t))
        BY <4>2, <4>5, <4>6, <4>8 DEF FoundFrom
      <4> QED
        BY <1>0, <4>1, <4>5, <4>7, <4>8
    <3> QED
      BY <3>1, <3>2
  <2> HIDE DEF h
  <2>8. h \in [N - (k + 1) .. N -> SUBSET Nat] /\ Found(k + 1, h)
    BY <2>5, <2>7 DEF m
  <2>9. k + 1 \in Nat
    BY <2>2
  <2> QED
    BY <2>8, <2>9
<1>3. n \in Nat
  BY <1>0
<1>4. \A k \in 0 .. n : k \in S
  <2> HIDE DEF S
  <2> QED
    BY <1>1, <1>2, <1>3, Climb
<1>5. n \in S
  <2> HIDE DEF S
  <2> QED
    BY <1>3, <1>4
<1> QED
  BY <1>5

\* Two characters are so close that matches at both of them overlap.
Near(q, i, j) == i - j < Len(q) /\ j - i < Len(q)

\* What is found from character i on: matches that do not overlap, and one near
\* each other match.
FoundWell(t, q, i, found) ==
  /\ found \subseteq i .. Len(t)
  /\ \A j \in found : MatchesAt(t, q, j)
  /\ \A j, k \in found : Near(q, j, k) => j = k
  /\ \A j \in i .. Len(t) : MatchesAt(t, q, j) => \E k \in found : Near(q, j, k)

\* A search that goes on after a match finds well if the rest is.
LEMMA FoundStep ==
  ASSUME NEW t \in Text, NEW q \in Text, q # <<>>, NEW i \in 1 .. Len(t), NEW next,
         MatchesAt(t, q, i) => FoundWell(t, q, i + Len(q), next[i + Len(q)]),
         ~MatchesAt(t, q, i) => FoundWell(t, q, i + 1, next[i + 1])
  PROVE  FoundWell(t, q, i, FoundFrom(t, q, i, next))
<1> DEFINE found == FoundFrom(t, q, i, next)
<1>0. Len(t) \in Nat /\ Len(q) \in Nat /\ Len(q) >= 1 /\ i \in Nat /\ i <= Len(t)
  BY MatchFacts
<1>1. CASE MatchesAt(t, q, i)
  <2> DEFINE rest == next[i + Len(q)]
  <2>1. found = {i} \cup rest
    BY <1>0, <1>1 DEF FoundFrom
  <2>2. /\ rest \subseteq i + Len(q) .. Len(t)
        /\ \A j \in rest : MatchesAt(t, q, j)
        /\ \A j, k \in rest : Near(q, j, k) => j = k
        /\ \A j \in i + Len(q) .. Len(t) : MatchesAt(t, q, j) => \E k \in rest : Near(q, j, k)
    BY <1>1 DEF FoundWell
  <2> HIDE DEF found, rest
  <2>3. \A j \in rest : j \in Int /\ j >= i + Len(q) /\ j <= Len(t)
    BY <1>0, <2>2
  <2>4. \A j \in rest : ~Near(q, i, j) /\ ~Near(q, j, i)
    BY <1>0, <2>3 DEF Near
  <2>5. \A j, k \in found : Near(q, j, k) => j = k
    BY <2>1, <2>2, <2>4
  <2>6. ASSUME NEW j \in i .. Len(t), MatchesAt(t, q, j)
        PROVE  \E k \in found : Near(q, j, k)
    <3>1. CASE j < i + Len(q)
      <4>1. Near(q, j, i)
        BY <1>0, <3>1 DEF Near
      <4> QED
        BY <2>1, <4>1
    <3>2. CASE ~(j < i + Len(q))
      <4>1. j \in i + Len(q) .. Len(t)
        BY <1>0, <3>2
      <4> QED
        BY <2>1, <2>2, <2>6, <4>1
    <3> QED
      BY <3>1, <3>2
  <2>7. found \subseteq i .. Len(t)
    BY <1>0, <2>1, <2>3
  <2>8. \A j \in found : MatchesAt(t, q, j)
    BY <1>1, <2>1, <2>2
  <2> QED
    BY <2>5, <2>6, <2>7, <2>8 DEF FoundWell, found
<1>2. CASE ~MatchesAt(t, q, i)
  <2>1. found = next[i + 1]
    BY <1>0, <1>2 DEF FoundFrom
  <2>2. FoundWell(t, q, i + 1, found)
    BY <1>2, <2>1
  <2> HIDE DEF found
  <2>3. \A j \in i .. Len(t) : MatchesAt(t, q, j) => j \in i + 1 .. Len(t)
    <3>1. \A j \in i .. Len(t) : j # i => j \in i + 1 .. Len(t)
      BY <1>0
    <3> QED
      BY <1>2, <3>1
  <2>4. found \subseteq i .. Len(t)
    <3>1. i + 1 .. Len(t) \subseteq i .. Len(t)
      BY <1>0
    <3> QED
      BY <2>2, <3>1 DEF FoundWell
  <2> QED
    BY <2>2, <2>3, <2>4 DEF FoundWell, found
<1> QED
  BY <1>1, <1>2

\* The hits of pc_search_page match, do not overlap and leave out no match that
\* does not overlap one of them.
LEMMA HitsWell ==
  ASSUME NEW t \in Text, NEW q \in Text, q # <<>>, Boxes(t) # {}
  PROVE  FoundWell(t, q, 1, Hits(t, q))
<1> DEFINE N == Len(t) + 1
           F(g) == [i \in 1 .. N |->
                      IF i > Len(t) THEN {}
                      ELSE IF MatchesAt(t, q, i) THEN {i} \cup g[i + Len(q)] ELSE g[i + 1]]
           next == CHOOSE g : g = F(g)
<1>0. /\ Len(t) \in Nat /\ N \in Nat /\ Len(q) \in Nat /\ Len(q) >= 1
      /\ \A i \in Nat : MatchesAt(t, q, i) => i + Len(q) <= N
  BY MatchFacts
<1>1. Hits(t, q) = next[1]
  BY Zenon DEF Hits
<1>2. PICK g \in [1 .. N -> SUBSET Nat] : \A i \in 1 .. N : g[i] = FoundFrom(t, q, i, g)
  <2>1. Len(t) \in 0 .. Len(t) /\ Len(t) + 1 - Len(t) = 1
    BY <1>0
  <2>2. \E g \in [Len(t) + 1 - Len(t) .. Len(t) + 1 -> SUBSET Nat] :
          \A i \in Len(t) + 1 - Len(t) .. Len(t) + 1 : g[i] = FoundFrom(t, q, i, g)
    BY <2>1, FoundInLast
  <2> QED
    BY <2>1, <2>2
<1>3. g = F(g)
  BY <1>2 DEF FoundFrom
<1>4. next = F(next)
  <2> HIDE DEF F
  <2> QED
    BY <1>3
<1>5. \A i \in 1 .. N : next[i] = FoundFrom(t, q, i, next)
  <2> HIDE DEF next
  <2>1. \A i \in 1 .. N : next[i] = F(next)[i]
    BY <1>4
  <2> QED
    BY <2>1 DEF FoundFrom
<1> HIDE DEF next, F
<1> DEFINE S == {k \in Nat : \A i \in N - k .. N : i >= 1 => FoundWell(t, q, i, next[i])}
<1>6. 0 \in S
  <2>1. N \in 1 .. N /\ N > Len(t)
    BY <1>0
  <2>2. next[N] = {}
    BY <1>5, <2>1 DEF FoundFrom
  <2>3. FoundWell(t, q, N, {})
    <3>1. N .. Len(t) = {}
      BY <1>0
    <3> QED
      BY <3>1 DEF FoundWell
  <2>4. \A i \in N - 0 .. N : i = N
    BY <1>0
  <2> QED
    BY <2>2, <2>3, <2>4
<1>7. ASSUME NEW k \in 0 .. Len(t) - 1, k \in S
      PROVE  k + 1 \in S
  <2> DEFINE m == N - (k + 1)
  <2>1. /\ k \in Nat /\ k + 1 \in Nat /\ m \in 1 .. Len(t) /\ m \in 1 .. N /\ m \in Nat
        /\ m + 1 = N - k /\ m + 1 \in N - k .. N /\ m + 1 >= 1
    BY <1>0
  <2>2. \A i \in N - k .. N : i >= 1 => FoundWell(t, q, i, next[i])
    BY <1>7
  <2>3. MatchesAt(t, q, m) => m + Len(q) \in N - k .. N /\ m + Len(q) >= 1
    BY <1>0, <2>1
  <2> HIDE DEF m
  <2>4. /\ MatchesAt(t, q, m) => FoundWell(t, q, m + Len(q), next[m + Len(q)])
        /\ ~MatchesAt(t, q, m) => FoundWell(t, q, m + 1, next[m + 1])
    BY <2>1, <2>2, <2>3
  <2>5. FoundWell(t, q, m, next[m])
    <3>1. FoundWell(t, q, m, FoundFrom(t, q, m, next))
      BY <2>1, <2>4, FoundStep
    <3> QED
      BY <1>5, <2>1, <3>1
  <2>6. \A i \in N - (k + 1) .. N : i = m \/ i \in N - k .. N
    BY <1>0, <2>1 DEF m
  <2>7. \A i \in N - (k + 1) .. N : i >= 1 => FoundWell(t, q, i, next[i])
    BY <2>2, <2>5, <2>6
  <2> QED
    BY <2>1, <2>7
<1>8. \A k \in 0 .. Len(t) : k \in S
  <2> HIDE DEF S
  <2>1. 0 \in Nat
    OBVIOUS
  <2> QED
    BY <1>0, <1>6, <1>7, <2>1, Climb
<1>9. Len(t) \in S /\ 1 \in N - Len(t) .. N
  <2>1. 1 \in N - Len(t) .. N /\ Len(t) \in 0 .. Len(t)
    BY <1>0
  <2> HIDE DEF S
  <2> QED
    BY <1>8, <2>1
<1>10. FoundWell(t, q, 1, next[1])
  BY <1>9
<1> QED
  BY <1>1, <1>10

\* A character equals "LF" without regard to case when it is "LF".
LEMMA MatchHead ==
  ASSUME NEW t \in Text, NEW q \in Text, q # <<>>, NEW i \in DOMAIN t, MatchesAt(t, q, i)
  PROVE  t[i] = "LF" <=> Head(q) = "LF"
<1>1. 1 \in DOMAIN q /\ Head(q) = q[1] /\ i + 1 - 1 = i
  BY DEF Text
<1>2. Lower(t[i + 1 - 1]) = Lower(q[1])
  BY <1>1 DEF MatchesAt
<1>3. \A c : Lower(c) = "LF" <=> c = "LF"
  BY DEF Lower
<1> QED
  BY <1>1, <1>2, <1>3

\* The search is exact in any text.
LEMMA HitsExact ==
  ASSUME NEW t \in Text, NEW q \in Text
  PROVE  /\ \A i, j \in Hits(t, q) : Near(q, i, j) => i = j
         /\ \A i \in DOMAIN t : (q # <<>> /\ Boxes(t) # {} /\ MatchesAt(t, q, i)) =>
                                   \E j \in Hits(t, q) : Near(q, i, j)
         /\ \A i \in Hits(t, q) : /\ MatchesAt(t, q, i)
                                  /\ i \notin Filled(t, q) <=> Head(q) = "LF"
<1>1. CASE q = <<>> \/ Boxes(t) = {}
  <2>1. Hits(t, q) = {}
    BY <1>1, Zenon DEF Hits
  <2> QED
    BY <1>1, <2>1
<1>2. CASE q # <<>> /\ Boxes(t) # {}
  <2>1. FoundWell(t, q, 1, Hits(t, q))
    BY <1>2, HitsWell
  <2>2. DOMAIN t = 1 .. Len(t)
    BY DEF Text
  <2>3. ASSUME NEW i \in Hits(t, q)
        PROVE  MatchesAt(t, q, i) /\ (i \notin Filled(t, q) <=> Head(q) = "LF")
    <3>1. MatchesAt(t, q, i) /\ i \in DOMAIN t
      BY <2>1, <2>2 DEF FoundWell
    <3>2. t[i] = "LF" <=> Head(q) = "LF"
      BY <1>2, <3>1, MatchHead
    <3>3. i \in Filled(t, q) <=> t[i] # "LF"
      BY <3>1 DEF Filled, Boxes
    <3> QED
      BY <3>1, <3>2, <3>3
  <2> QED
    BY <2>1, <2>2, <2>3 DEF FoundWell
<1> QED
  BY <1>1, <1>2

\* The texts of the pages stay texts.
LEMMA TextsStay ==
  ASSUME text \in [Pages -> Text], [Next]_vars
  PROVE  text' \in [Pages -> Text]
BY DEF Next, ClickHits, ClickMisses, MoveCaret, DropSelection, ExtendSelection, vars

\* A search of a page finds what is there, once, whatever the text and the query.
THEOREM SearchFinds == CSpec => []SearchExact
<1> DEFINE Inv == text \in [Pages -> Text]
<1>1. Init => Inv
  BY InitText
<1>2. Inv /\ [Next]_vars => Inv'
  BY TextsStay
<1>3. Inv => SearchExact
  <2> SUFFICES ASSUME Inv, NEW p \in Pages, NEW q \in Queries
               PROVE  LET t == text[p]
                          hits == Hits(t, q)
                          near(i, j) == i - j < Len(q) /\ j - i < Len(q)
                      IN  /\ \A i, j \in hits : near(i, j) => i = j
                          /\ \A i \in DOMAIN t :
                               (q # <<>> /\ Boxes(t) # {} /\ MatchesAt(t, q, i)) =>
                                 \E j \in hits : near(i, j)
                          /\ \A i \in hits : /\ MatchesAt(t, q, i)
                                             /\ i \notin Filled(t, q) <=> Head(q) = "LF"
    BY Zenon DEF SearchExact
  <2>1. text[p] \in Text /\ q \in Text
    BY TextsAssumption DEF Text
  <2> QED
    BY <2>1, HitsExact DEF Near
<1> QED
  BY <1>1, <1>2, <1>3, PTL DEF CSpec

-----------------------------------------------------------------------------
(* The runs of one face.                                                      *)

\* The face of a character of a drawn text: the first that draws it.
LEMMA FaceFacts ==
  ASSUME NEW t \in Text, NEW faces \in Seq(SUBSET STRING), Drawn(t, faces), NEW i \in DOMAIN t
  PROVE  /\ Face(t[i], faces) \in DOMAIN faces /\ t[i] \in faces[Face(t[i], faces)]
         /\ \A f \in 1 .. Face(t[i], faces) - 1 : t[i] \notin faces[f]
<1> DEFINE S == {f \in DOMAIN faces : t[i] \in faces[f]}
<1>1. DOMAIN faces = 1 .. Len(faces) /\ Len(faces) \in Nat
  OBVIOUS
<1>2. S \subseteq Nat /\ S # {}
  BY <1>1 DEF Drawn
<1>3. Min(S) \in S /\ \A f \in S : Min(S) <= f
  <2> HIDE DEF S
  <2> QED
    BY <1>2, MinOfNats
<1>4. Face(t[i], faces) = Min(S)
  BY DEF Face
<1> DEFINE m == Min(S)
<1> HIDE DEF m
<1>5. m \in S /\ m \in 1 .. Len(faces) /\ \A f \in S : m <= f
  BY <1>1, <1>3 DEF m
<1>6. \A f \in 1 .. m - 1 : f \in DOMAIN faces /\ ~(m <= f)
  BY <1>1, <1>5
<1>7. \A f \in 1 .. m - 1 : t[i] \notin faces[f]
  BY <1>5, <1>6
<1> QED
  BY <1>4, <1>5, <1>7 DEF m

\* The last character of the run that starts at i.
RunLast(t, faces, i) == Min({Len(t)} \cup {j - 1 : j \in {k \in RunStarts(t, faces) : k > i}})

\* A run ends before the next one starts, or with the text.
LEMMA RunLastFacts ==
  ASSUME NEW t \in Text, NEW faces, NEW i \in RunStarts(t, faces)
  PROVE  /\ i \in 1 .. Len(t) /\ Len(t) \in Nat
         /\ RunLast(t, faces, i) \in i .. Len(t)
         /\ \A j \in RunStarts(t, faces) : j > i => RunLast(t, faces, i) <= j - 1
         /\ \/ RunLast(t, faces, i) = Len(t)
            \/ RunLast(t, faces, i) + 1 \in RunStarts(t, faces)
<1> DEFINE R == RunStarts(t, faces)
           S == {Len(t)} \cup {j - 1 : j \in {k \in R : k > i}}
<1>1. Len(t) \in Nat /\ DOMAIN t = 1 .. Len(t)
  BY DEF Text
<1>2. \A j \in R : j \in 1 .. Len(t)
  BY <1>1 DEF RunStarts
<1> HIDE DEF R
<1>3. i \in R
  BY DEF R
<1>4. \A x \in S : x = Len(t) \/ \E j \in R : j > i /\ x = j - 1
  OBVIOUS
<1>5. \A x \in S : x \in i .. Len(t)
  BY <1>1, <1>2, <1>3, <1>4
<1>6. Len(t) \in S /\ \A j \in R : j > i => j - 1 \in S
  OBVIOUS
<1> HIDE DEF S
<1>7. S \subseteq Nat /\ S # {}
  BY <1>1, <1>2, <1>3, <1>5, <1>6
<1>8. Min(S) \in S /\ \A x \in S : Min(S) <= x
  BY <1>7, MinOfNats
<1>9. RunLast(t, faces, i) = Min(S)
  BY DEF RunLast, R, S
<1> DEFINE last == Min(S)
<1> HIDE DEF last
<1>10. /\ last \in i .. Len(t)
       /\ \A j \in R : j > i => last <= j - 1
       /\ last = Len(t) \/ \E j \in R : j > i /\ last = j - 1
  BY <1>4, <1>5, <1>6, <1>8 DEF last
<1>11. last = Len(t) \/ last + 1 \in R
  BY <1>2, <1>10
<1> QED
  BY <1>1, <1>2, <1>3, <1>9, <1>10, <1>11 DEF last, R

\* The characters of a run have one face.
LEMMA RunHasOneFace ==
  ASSUME NEW t \in Text, NEW faces, NEW i \in RunStarts(t, faces),
         NEW j \in i .. RunLast(t, faces, i)
  PROVE  j \in DOMAIN t /\ Face(t[j], faces) = Face(t[i], faces)
<1> DEFINE last == RunLast(t, faces, i)
           S == {k \in Nat : Face(t[k], faces) = Face(t[i], faces)}
<1>1. /\ i \in 1 .. Len(t) /\ Len(t) \in Nat /\ last \in i .. Len(t)
      /\ \A k \in RunStarts(t, faces) : k > i => last <= k - 1
  BY RunLastFacts
<1>2. DOMAIN t = 1 .. Len(t)
  BY DEF Text
<1> HIDE DEF last
<1>3. i \in S /\ i \in Nat /\ last \in Nat
  BY <1>1
<1>4. ASSUME NEW k \in i .. last - 1, k \in S
      PROVE  k + 1 \in S
  <2>1. /\ k + 1 \in 1 .. Len(t) /\ k + 1 > 1 /\ k + 1 > i /\ (k + 1) - 1 = k
        /\ ~(last <= (k + 1) - 1) /\ k + 1 \in Nat
    BY <1>1, <1>3
  <2>2. k + 1 \notin RunStarts(t, faces)
    BY <1>1, <2>1
  <2>3. Face(t[k + 1], faces) = Face(t[(k + 1) - 1], faces)
    BY <1>2, <2>1, <2>2 DEF RunStarts
  <2> QED
    BY <1>4, <2>1, <2>3
<1>5. \A k \in i .. last : k \in S
  <2> HIDE DEF S
  <2> QED
    BY <1>3, <1>4, Climb
<1>6. j \in i .. last
  BY DEF last
<1> QED
  BY <1>1, <1>2, <1>5, <1>6

\* Each character is in one run.
LEMMA RunOfEach ==
  ASSUME NEW t \in Text, NEW faces, NEW i \in DOMAIN t
  PROVE  \E s \in RunStarts(t, faces) :
           /\ s <= i /\ i <= RunLast(t, faces, s)
           /\ \A r \in RunStarts(t, faces) : r <= i /\ i <= RunLast(t, faces, r) => r = s
<1> DEFINE S == {s \in RunStarts(t, faces) : s <= i}
<1>1. Len(t) \in Nat /\ DOMAIN t = 1 .. Len(t) /\ i \in Nat
  BY DEF Text
<1>2. \A s \in RunStarts(t, faces) : s \in 1 .. Len(t)
  BY <1>1 DEF RunStarts
<1>3. 1 \in RunStarts(t, faces)
  BY <1>1 DEF RunStarts
<1>4. S \subseteq Nat /\ S # {} /\ \A s \in S : s <= i
  BY <1>1, <1>2, <1>3
<1>5. Max(S) \in S /\ \A s \in S : s <= Max(S)
  <2> HIDE DEF S
  <2> QED
    BY <1>1, <1>4, MaxOfNats
<1>6. PICK s \in S : \A r \in S : r <= s
  BY <1>5
<1>7. /\ s \in RunStarts(t, faces) /\ s <= i /\ s \in Nat
      /\ \A r \in RunStarts(t, faces) : r <= i => r <= s
  BY <1>4, <1>6
<1> HIDE DEF S
<1>8. i <= RunLast(t, faces, s)
  <2> DEFINE last == RunLast(t, faces, s)
  <2>1. last \in s .. Len(t)
    BY <1>7, RunLastFacts
  <2>4. last = Len(t) \/ last + 1 \in RunStarts(t, faces)
    BY <1>7, RunLastFacts
  <2> HIDE DEF last
  <2>2. CASE last = Len(t)
    BY <1>1, <2>2 DEF last
  <2>3. CASE last + 1 \in RunStarts(t, faces)
    <3>1. last \in Nat /\ last >= s
      <4>1. s \in Nat
        BY <1>7
      <4> QED
        BY <1>1, <2>1, <4>1
    <3>2. last + 1 <= i => last + 1 <= s
      BY <1>7, <2>3
    <3>3. i <= last
      BY <1>1, <1>7, <3>1, <3>2
    <3> QED
      BY <3>3 DEF last
  <2> QED
    BY <2>2, <2>3, <2>4
<1>9. ASSUME NEW r \in RunStarts(t, faces), r <= i, i <= RunLast(t, faces, r)
      PROVE  r = s
  <2>1. r <= s /\ r \in Nat
    BY <1>2, <1>7, <1>9
  <2>2. s > r => RunLast(t, faces, r) <= s - 1
    BY <1>7, RunLastFacts
  <2>3. RunLast(t, faces, r) \in r .. Len(t)
    BY RunLastFacts
  <2> QED
    BY <1>1, <1>7, <1>9, <2>1, <2>2, <2>3
<1> QED
  BY <1>7, <1>8, <1>9

\* The runs cover any text in order, and each is of the first face that draws it.
LEMMA RunsCover ==
  ASSUME NEW t \in Text, NEW faces \in Seq(SUBSET STRING)
  PROVE  /\ Runs(t, faces) # {} =>
              \A i \in DOMAIN t :
                Cardinality({r \in Runs(t, faces) : r.first <= i /\ i <= r.last}) = 1
         /\ \A r \in Runs(t, faces) : \A i \in r.first .. r.last :
              t[i] \in faces[r.face] /\ \A f \in 1 .. r.face - 1 : t[i] \notin faces[f]
         /\ \A r, s \in Runs(t, faces) : s.first = r.last + 1 => s.face # r.face
<1> DEFINE Run(i) == [face |-> Face(t[i], faces), first |-> i, last |-> RunLast(t, faces, i)]
<1>1. CASE ~Drawn(t, faces)
  <2>1. Runs(t, faces) = {}
    BY <1>1 DEF Runs
  <2> QED
    BY <2>1
<1>2. CASE Drawn(t, faces)
  <2>1. Runs(t, faces) = {Run(i) : i \in RunStarts(t, faces)}
    BY <1>2 DEF Runs, RunLast
  <2>2. ASSUME NEW r \in Runs(t, faces)
        PROVE  /\ r.first \in RunStarts(t, faces) /\ r = Run(r.first)
               /\ r.last = RunLast(t, faces, r.first) /\ r.face = Face(t[r.first], faces)
    BY <2>1
  <2>3. \A s \in RunStarts(t, faces) :
          /\ Run(s) \in Runs(t, faces)
          /\ Run(s).first = s /\ Run(s).last = RunLast(t, faces, s)
    BY <2>1
  <2> HIDE DEF Run
  <2>4. ASSUME NEW i \in DOMAIN t
        PROVE  Cardinality({r \in Runs(t, faces) : r.first <= i /\ i <= r.last}) = 1
    <3>1. PICK s \in RunStarts(t, faces) :
            /\ s <= i /\ i <= RunLast(t, faces, s)
            /\ \A r \in RunStarts(t, faces) : r <= i /\ i <= RunLast(t, faces, r) => r = s
      BY RunOfEach
    <3>2. \A r \in Runs(t, faces) : r.first <= i /\ i <= r.last => r = Run(s)
      BY <2>2, <3>1
    <3>3. {r \in Runs(t, faces) : r.first <= i /\ i <= r.last} = {Run(s)}
      BY <2>3, <3>1, <3>2
    <3> QED
      BY <3>3, FS_Singleton
  <2>5. ASSUME NEW r \in Runs(t, faces), NEW i \in r.first .. r.last
        PROVE  t[i] \in faces[r.face] /\ \A f \in 1 .. r.face - 1 : t[i] \notin faces[f]
    <3>1. i \in DOMAIN t /\ Face(t[i], faces) = r.face
      BY <2>2, RunHasOneFace
    <3> QED
      BY <1>2, <3>1, FaceFacts
  <2>6. ASSUME NEW r \in Runs(t, faces), NEW s \in Runs(t, faces), s.first = r.last + 1
        PROVE  s.face # r.face
    <3>1. /\ r.first \in 1 .. Len(t) /\ Len(t) \in Nat /\ r.last \in r.first .. Len(t)
      BY <2>2, RunLastFacts
    <3>2. r.last \in r.first .. r.last /\ s.first > 1 /\ s.first - 1 = r.last
      BY <2>6, <3>1
    <3>3. Face(t[r.last], faces) = r.face
      BY <2>2, <3>2, RunHasOneFace
    <3>4. Face(t[s.first], faces) # Face(t[s.first - 1], faces)
      BY <2>2, <3>2 DEF RunStarts
    <3> QED
      BY <2>2, <3>2, <3>3, <3>4
  <2> QED
    BY <2>4, <2>5, <2>6
<1> QED
  BY <1>1, <1>2

\* The fallback runs of a page are whole, whatever the text and the faces.
THEOREM RunsAreWhole == CSpec => []RunsWhole
<1> DEFINE Inv == text \in [Pages -> Text]
<1>1. Init => Inv
  BY InitText
<1>2. Inv /\ [Next]_vars => Inv'
  BY TextsStay
<1>3. Inv => RunsWhole
  <2> SUFFICES ASSUME Inv, NEW p \in Pages, NEW faces \in Fonts
               PROVE  LET t == text[p]
                          runs == Runs(t, faces)
                          of(i) == {r \in runs : r.first <= i /\ i <= r.last}
                      IN  /\ runs # {} => \A i \in DOMAIN t : Cardinality(of(i)) = 1
                          /\ \A r \in runs : \A i \in r.first .. r.last :
                               /\ t[i] \in faces[r.face]
                               /\ \A f \in 1 .. r.face - 1 : t[i] \notin faces[f]
                          /\ \A r, s \in runs : s.first = r.last + 1 => s.face # r.face
    BY Zenon DEF RunsWhole
  <2>1. text[p] \in Text /\ faces \in Seq(SUBSET STRING)
    BY TextsAssumption
  <2> QED
    BY <2>1, RunsCover
<1> QED
  BY <1>1, <1>2, <1>3, PTL DEF CSpec

-----------------------------------------------------------------------------
(* Annotations.                                                               *)

\* The lesser and the greater of two integers.
LEMMA MinMaxOfTwo ==
  ASSUME NEW a \in Int, NEW b \in Int
  PROVE  /\ Min({a, b}) = IF a <= b THEN a ELSE b
         /\ Max({a, b}) = IF a >= b THEN a ELSE b
BY DEF Min, Max

\* A score is at most the length, and the length exactly where the text is that of the
\* old place.
LEMMA ScoreFacts ==
  ASSUME NEW t, NEW old \in Nat, NEW len \in Nat, NEW pos
  PROVE  /\ Score(t, old, len, pos) \in Nat /\ Score(t, old, len, pos) <= len
         /\ Score(t, old, len, pos) = len <=> \A k \in 1 .. len : t[pos + k] = t[old + k]
<1> DEFINE S == {k \in 1 .. len : t[pos + k] = t[old + k]}
<1>1. IsFiniteSet(1 .. len) /\ Cardinality(1 .. len) = len
  BY FS_Interval
<1>2. S \in SUBSET (1 .. len)
  OBVIOUS
<1>3. Cardinality(S) \in Nat /\ Cardinality(S) <= len
  BY <1>1, <1>2, FS_Subset, FS_CardinalityType
<1>4. Cardinality(S) = len => S = 1 .. len
  BY <1>1, <1>2, FS_Subset
<1>5. S = 1 .. len <=> \A k \in 1 .. len : t[pos + k] = t[old + k]
  OBVIOUS
<1>6. Score(t, old, len, pos) = Cardinality(S)
  BY DEF Score
<1> HIDE DEF S
<1> QED
  BY <1>1, <1>3, <1>4, <1>5, <1>6

\* The places of an annotation that lies in the text are those of the window.
LEMMA PlacesFacts ==
  ASSUME NEW t \in Text, NEW old \in Nat, NEW len \in Nat, old + len <= Len(t)
  PROVE  /\ old \in Places(t, old, len)
         /\ Places(t, old, len) =
              {at \in 0 .. Len(t) - len : old - Window <= at /\ at <= old + Window}
<1>0. Len(t) \in Nat /\ Window \in Nat
  BY WindowAssumption DEF Text
<1>1. Min({old + len, Len(t)}) = old + len
  <2>1. Min({old + len, Len(t)}) = IF old + len <= Len(t) THEN old + len ELSE Len(t)
    BY <1>0, MinMaxOfTwo
  <2> QED
    BY <2>1
<1> DEFINE top == Min({old + len + Window, Len(t)})
           low == Max({0, old - Window})
<1>2. /\ top \in Nat /\ old + len <= top /\ top <= Len(t)
      /\ top = Len(t) \/ top = old + len + Window
  <2>1. top = IF old + len + Window <= Len(t) THEN old + len + Window ELSE Len(t)
    BY <1>0, MinMaxOfTwo
  <2> HIDE DEF top
  <2> QED
    BY <1>0, <2>1
<1>3. /\ low \in Nat /\ low <= old /\ old - Window <= low
      /\ low = 0 \/ low = old - Window
  <2>0. 0 \in Int /\ old - Window \in Int
    BY <1>0
  <2>1. low = IF 0 >= old - Window THEN 0 ELSE old - Window
    BY <2>0, MinMaxOfTwo
  <2> HIDE DEF low
  <2> QED
    BY <1>0, <2>1
<1>4. Places(t, old, len) = {pos \in low .. old + Window : pos + len <= top}
  BY <1>1 DEF Places
<1> HIDE DEF low, top
<1>5. old \in low .. old + Window
  BY <1>0, <1>3
<1>6. ASSUME NEW at \in Int
      PROVE  (at \in low .. old + Window /\ at + len <= top)
               <=> (at \in 0 .. Len(t) - len /\ old - Window <= at /\ at <= old + Window)
  BY <1>0, <1>2, <1>3
<1>7. Places(t, old, len) =
        {at \in 0 .. Len(t) - len : old - Window <= at /\ at <= old + Window}
  BY <1>4, <1>6
<1> QED
  BY <1>0, <1>2, <1>4, <1>5, <1>7

\* A place is widened to the start and the end of its words, and no further.
LEMMA WordFacts ==
  ASSUME NEW t \in Text, NEW pos \in Nat, pos <= Len(t)
  PROVE  /\ WordFrom(t, pos) \in 0 .. pos
         /\ WordFrom(t, pos) = 0 \/ t[WordFrom(t, pos)] \in Blank
         /\ \A i \in WordFrom(t, pos) + 1 .. pos : t[i] \notin Blank
         /\ WordTo(t, pos) \in pos .. Len(t)
         /\ WordTo(t, pos) = Len(t) \/ t[WordTo(t, pos) + 1] \in Blank
         /\ \A i \in pos + 1 .. WordTo(t, pos) : t[i] \notin Blank
<1>0. Len(t) \in Nat
  BY DEF Text
<1> DEFINE S == {0} \cup {p \in 1 .. pos : t[p] \in Blank}
           T == {Len(t)} \cup {p \in pos .. Len(t) - 1 : t[p + 1] \in Blank}
           from == WordFrom(t, pos)
           to == WordTo(t, pos)
<1>1. from \in S /\ \A x \in S : x <= from
  <2>1. S \subseteq Nat /\ S # {} /\ \A x \in S : x <= pos
    OBVIOUS
  <2>2. from = Max(S)
    BY DEF WordFrom
  <2> HIDE DEF S, from
  <2> QED
    BY <2>1, <2>2, MaxOfNats
<1>2. to \in T /\ \A x \in T : to <= x
  <2>1. T \subseteq Nat /\ T # {}
    BY <1>0
  <2>2. to = Min(T)
    BY DEF WordTo
  <2> HIDE DEF T, to
  <2> QED
    BY <2>1, <2>2, MinOfNats
<1> HIDE DEF from, to
<1>3. from \in 0 .. pos /\ (from = 0 \/ t[from] \in Blank)
  BY <1>1
<1>4. to \in pos .. Len(t) /\ (to = Len(t) \/ t[to + 1] \in Blank)
  BY <1>0, <1>2
<1>5. ASSUME NEW i \in from + 1 .. pos, t[i] \in Blank
      PROVE  FALSE
  <2>1. i \in 1 .. pos
    BY <1>3
  <2>2. i <= from
    BY <1>1, <1>5, <2>1
  <2> QED
    BY <1>3, <2>2
<1>6. ASSUME NEW i \in pos + 1 .. to, t[i] \in Blank
      PROVE  FALSE
  <2>1. i - 1 \in pos .. Len(t) - 1 /\ i - 1 + 1 = i
    BY <1>0, <1>4
  <2>2. to <= i - 1
    BY <1>2, <1>6, <2>1
  <2> QED
    BY <1>4, <2>2
<1> QED
  BY <1>3, <1>4, <1>5, <1>6 DEF from, to

\* Where an annotation goes: Around a place of the text, as whole words.
Around(t, r, at, len) ==
  LET end == r.offset + r.len
  IN  /\ r.offset <= at /\ at + len <= end /\ end <= Len(t)
      /\ r.offset = 0 \/ t[r.offset] \in Blank
      /\ end = Len(t) \/ t[end + 1] \in Blank
      /\ \A i \in (r.offset + 1 .. at) \cup (at + len + 1 .. end) : t[i] \notin Blank

\* An annotation that lies within the text goes to the leftmost place with its text.
LEMMA ReanchorFits ==
  ASSUME NEW t \in Text, Boxes(t) # {}, NEW old \in Nat, NEW len \in Nat \ {0},
         old + len <= Len(t)
  PROVE  \E at \in Alike(t, old, len) :
           /\ \A other \in Alike(t, old, len) : at <= other
           /\ Around(t, Reanchored(t, old, len), at, len)
<1> DEFINE places == Places(t, old, len)
           scores == {0} \cup {Score(t, old, len, p) : p \in places}
           best == Max(scores)
           here == {p \in places : Score(t, old, len, p) = best}
           at == IF best = 0 THEN old ELSE Min(here)
           from == WordFrom(t, at)
           to == WordTo(t, at + len)
           r == Reanchored(t, old, len)
<1>0. Len(t) \in Nat /\ ~(old > Len(t)) /\ len > 0 /\ Window \in Nat
  BY WindowAssumption DEF Text
<1>1. /\ old \in places
      /\ places = {p \in 0 .. Len(t) - len : old - Window <= p /\ p <= old + Window}
  BY PlacesFacts
<1>2. r = [offset |-> from, len |-> to - from, score |-> best, detached |-> 2 * best < len]
  BY <1>0 DEF Reanchored
<1>3. best = len
  <2>0. Score(t, old, len, old) = len
    BY ScoreFacts
  <2>1. len \in scores /\ \A x \in scores : x \in Nat /\ x <= len
    BY <1>1, <2>0, ScoreFacts
  <2>2. scores \subseteq Nat /\ scores # {}
    BY <2>1
  <2> HIDE DEF scores
  <2>3. best \in scores /\ \A y \in scores : y <= best
    BY <2>1, <2>2, MaxOfNats
  <2> HIDE DEF best
  <2> QED
    BY <2>1, <2>3
<1>4. here = Alike(t, old, len)
  <2> HIDE DEF best
  <2>1. ASSUME NEW p
        PROVE  Score(t, old, len, p) = best <=> \A k \in 1 .. len : t[p + k] = t[old + k]
    <3>1. Score(t, old, len, p) = len <=> \A k \in 1 .. len : t[p + k] = t[old + k]
      BY ScoreFacts
    <3> QED
      BY <1>3, <3>1
  <2> QED
    BY <1>1, <2>1 DEF Alike
<1> HIDE DEF best
<1>5. Min(here) \in here /\ \A p \in here : Min(here) <= p
  <2>1. old \in here
    <3>1. Score(t, old, len, old) = len
      BY ScoreFacts
    <3> QED
      BY <1>1, <1>3, <3>1
  <2>2. here \subseteq Nat
    BY <1>0, <1>1
  <2> HIDE DEF here
  <2> QED
    BY <2>1, <2>2, MinOfNats
<1>6. at = Min(here)
  BY <1>0, <1>3
<1> HIDE DEF at
<1>7. at \in Nat /\ at + len <= Len(t)
  <2>1. at \in places
    BY <1>5, <1>6
  <2> HIDE DEF places
  <2> QED
    BY <1>0, <1>1, <2>1
<1>8. /\ from \in 0 .. at /\ (from = 0 \/ t[from] \in Blank)
      /\ \A i \in from + 1 .. at : t[i] \notin Blank
      /\ to \in at + len .. Len(t) /\ (to = Len(t) \/ t[to + 1] \in Blank)
      /\ \A i \in at + len + 1 .. to : t[i] \notin Blank
  <2>1. at <= Len(t) /\ at + len \in Nat
    BY <1>0, <1>7
  <2> QED
    BY <1>7, <2>1, WordFacts
<1> HIDE DEF from, to, r
<1>9. r.offset = from /\ r.offset + r.len = to /\ from <= at /\ at + len <= to /\ to <= Len(t)
  <2>1. r.offset = from /\ r.len = to - from
    BY <1>2
  <2>2. from + (to - from) = to
    BY <1>0, <1>7, <1>8
  <2> QED
    BY <1>0, <1>7, <1>8, <2>1, <2>2
<1>10. Around(t, r, at, len)
  BY <1>8, <1>9 DEF Around
<1>11. at \in Alike(t, old, len) /\ \A other \in Alike(t, old, len) : at <= other
  <2> HIDE DEF here
  <2> QED
    BY <1>4, <1>5, <1>6
<1> QED
  BY <1>10, <1>11 DEF r

\* An annotation that lies within the text goes to the leftmost place of the window with
\* the text of its old place, as whole words.
THEOREM AnchorsLeftmost == CSpec => []AnchorLeftmost
<1> DEFINE Inv == text \in [Pages -> Text]
<1>1. Init => Inv
  BY InitText
<1>2. Inv /\ [Next]_vars => Inv'
  BY TextsStay
<1>3. Inv => AnchorLeftmost
  <2> SUFFICES ASSUME Inv, NEW p \in Pages, NEW old \in 0 .. Len(text[p]), NEW len \in 1 .. 2
               PROVE  LET t == text[p]
                          r == Reanchored(t, old, len)
                          end == r.offset + r.len
                      IN  (Boxes(t) # {} /\ old + len <= Len(t)) =>
                            \E at \in Alike(t, old, len) :
                              /\ \A other \in Alike(t, old, len) : at <= other
                              /\ r.offset <= at /\ at + len <= end /\ end <= Len(t)
                              /\ r.offset = 0 \/ t[r.offset] \in Blank
                              /\ end = Len(t) \/ t[end + 1] \in Blank
                              /\ \A i \in (r.offset + 1 .. at) \cup (at + len + 1 .. end) :
                                   t[i] \notin Blank
    BY Zenon DEF AnchorLeftmost
  <2>1. text[p] \in Text /\ old \in Nat /\ len \in Nat \ {0}
    OBVIOUS
  <2>2. (Boxes(text[p]) # {} /\ old + len <= Len(text[p])) =>
          \E at \in Alike(text[p], old, len) :
            /\ \A other \in Alike(text[p], old, len) : at <= other
            /\ Around(text[p], Reanchored(text[p], old, len), at, len)
    BY <2>1, ReanchorFits
  <2> QED
    BY <2>2, Zenon DEF Around
<1> QED
  BY <1>1, <1>2, <1>3, PTL DEF CSpec

=============================================================================
