-------------------------- MODULE TxnHistoryProofs --------------------------
(***************************************************************************)
(* Proofs about the transaction log, for every set of ids, rectangles,     *)
(* names and values, every form and every budget.                          *)
(***************************************************************************)
EXTENDS TxnHistory, TxnLogLemmas

-----------------------------------------------------------------------------
(* The inductive invariant.                                                *)

\* Reversible is not inductive: that the next undo works says nothing of the one
\* after it.  What is inductive is that the two stacks describe a path through
\* recorded contents, on documents whose ids are distinct.
LogInv == TypeOK /\ UniqueIds /\ StacksTellHistory /\ WithinBudget

\* The path the stacks describe makes the next undo and the next redo possible.
LEMMA PathReversible ==
  ASSUME LogInv
  PROVE  /\ undo # <<>> => /\ Links(Last(undo), hist[Len(undo)], ContentOf(ir))
                           /\ hist[Len(undo)] \in Content
                           /\ CanBackward(ir, Last(undo))
         /\ redo # <<>> => /\ Links(Last(redo), ContentOf(ir), hist[Len(undo) + 2])
                           /\ CanForward(ir, Last(redo))
<1> USE DEF LogInv
<1> DEFINE n == Len(undo)
           m == Len(redo)
<1>1. /\ n \in Nat /\ m \in Nat /\ Len(hist) = n + m + 1
      /\ ContentOf(ir) = hist[n + 1]
      /\ ir \in Doc /\ IdsDistinct(ir)
  BY DEF TypeOK, UniqueIds, StacksTellHistory
<1>2. ASSUME undo # <<>>
      PROVE  /\ Links(Last(undo), hist[n], ContentOf(ir))
             /\ hist[n] \in Content
             /\ CanBackward(ir, Last(undo))
  <2>1. n \in 1..n /\ Last(undo) = undo[n] /\ Last(undo) \in Command
    BY <1>2, FrontFacts DEF TypeOK, Last
  <2>2. Links(Last(undo), hist[n], ContentOf(ir))
    BY <1>1, <2>1 DEF StacksTellHistory
  <2>3. hist[n] \in Content
    BY <1>1, <2>1 DEF TypeOK
  <2>4. QED
    BY <1>1, <2>1, <2>2, <2>3, BackwardLinks
<1>3. ASSUME redo # <<>>
      PROVE  /\ Links(Last(redo), ContentOf(ir), hist[n + 2])
             /\ CanForward(ir, Last(redo))
  <2>1. m \in 1..m /\ Last(redo) = redo[m] /\ Last(redo) \in Command
    BY <1>3, FrontFacts DEF TypeOK, Last
  <2>2. Links(redo[m], hist[Len(hist) - m], hist[Len(hist) - m + 1])
    BY <2>1 DEF StacksTellHistory
  <2>3. Len(hist) - m = n + 1 /\ Len(hist) - m + 1 = n + 2
    BY <1>1
  <2>4. Links(Last(redo), ContentOf(ir), hist[n + 2])
    BY <1>1, <2>1, <2>2, <2>3
  <2>5. QED
    BY <1>1, <2>1, <2>4, ForwardLinks
<1>4. QED
  BY <1>2, <1>3

-----------------------------------------------------------------------------
(* One lemma per step: it preserves the invariant and is a step of the     *)
(* abstract history.                                                       *)

\* The empty log on a freshly opened document.
LEMMA InitHolds ==
  ASSUME HInit
  PROVE  LogInv /\ History!Init
<1>1. /\ ir = [annots |-> <<>>, fields |-> InitFields]
      /\ undo = <<>> /\ redo = <<>> /\ undo_bytes = 0 /\ status = "NONE"
      /\ hist = <<ContentOf(ir)>>
  BY DEF HInit, Init
<1>2. ir \in Doc /\ InitFields \in Seq(Field)
  BY <1>1, FormAssumption DEF Doc
<1>3. ContentOf(ir) \in Content
  BY <1>2, ContentFacts
<1>4. TypeOK
  BY <1>1, <1>2, <1>3 DEF TypeOK
<1>5. UniqueIds
  BY <1>1 DEF UniqueIds, IdsDistinct
<1>6. StacksTellHistory
  BY <1>1 DEF StacksTellHistory
<1>7. WithinBudget
  BY <1>1, BudgetAssumption DEF WithinBudget
<1>8. ContentOf(ir) = [annots |-> {}, fields |-> InitFields]
  <2>1. ContentOf(ir).annots = {}
    BY <1>1, <1>2, ContentFacts
  <2>2. QED
    BY <1>1, <1>2, <2>1, ContentFacts
<1>9. History!Init
  BY <1>1, <1>8 DEF History!Init
<1>10. QED
  BY <1>4, <1>5, <1>6, <1>7, <1>9 DEF LogInv

\* A logged command is one edit of the history.
LEMMA LoggedStep ==
  ASSUME LogInv, NEW r \in Request, ApplyLogged(r),
         hist' = Append(SubSeq(hist, 1, Len(undo) + 1), ContentOf(ir'))
  PROVE  LogInv' /\ History!Edit
<1> DEFINE n == Len(undo)
           c == Captured(ir, r)
           p == ContentOf(ir)
<1>1. /\ ir \in Doc /\ IdsDistinct(ir)
      /\ undo \in Seq(Command) /\ redo \in Seq(Command) /\ hist \in Seq(Content)
      /\ undo_bytes \in Nat
      /\ n \in Nat /\ Len(redo) \in Nat
      /\ Len(hist) = n + Len(redo) + 1
      /\ p = hist[n + 1]
  BY DEF LogInv, TypeOK, UniqueIds, StacksTellHistory
<1>2. /\ Applicable(ir, r) /\ ~OverBudget
      /\ ir' = Forward(ir, c)
      /\ undo' = Append(undo, c)
      /\ undo_bytes' = undo_bytes + CmdBytes
      /\ redo' = <<>>
      /\ status' = "NONE"
  BY DEF ApplyLogged
<1>3. c \in Command /\ \E q : Links(c, p, q)
  BY <1>1, <1>2, CapturedLinks
<1>4. PICK q : Links(c, p, q)
  BY <1>3
<1>5. ir' \in Doc /\ IdsDistinct(ir') /\ ContentOf(ir') = q
  BY <1>1, <1>2, <1>3, <1>4, ForwardLinks
<1>6. q \in Content
  BY <1>5, ContentFacts
<1> HIDE DEF c, p
<1>7. /\ undo' \in Seq(Command) /\ Len(undo') = n + 1
      /\ \A k \in 1..n : undo'[k] = undo[k]
      /\ undo'[n + 1] = c
  BY <1>1, <1>2, <1>3, AppendProperties
<1>8. /\ hist' \in Seq(Content) /\ Len(hist') = n + 2
      /\ \A k \in 1..(n + 1) : hist'[k] = hist[k]
      /\ hist'[n + 2] = q
  <2>1. n + 1 \in 1..Len(hist) /\ n + 1 + 1 = n + 2
    BY <1>1
  <2>2. hist' = Append(SubSeq(hist, 1, n + 1), q)
    BY <1>5
  <2>3. QED
    BY <1>1, <1>6, <2>1, <2>2, CutFacts
<1>9. TypeOK'
  BY <1>1, <1>2, <1>5, <1>7, <1>8, BudgetAssumption DEF TypeOK
<1>10. StacksTellHistory'
  <2>1. Len(hist') = Len(undo') + Len(redo') + 1
    BY <1>1, <1>2, <1>7, <1>8
  <2>2. ContentOf(ir') = hist'[Len(undo') + 1]
    BY <1>1, <1>5, <1>7, <1>8
  <2>3. ASSUME NEW k \in 1..Len(undo')
        PROVE  Links(undo'[k], hist'[k], hist'[k + 1])
    <3>1. CASE k \in 1..n
      <4>1. Links(undo[k], hist[k], hist[k + 1])
        BY <3>1 DEF LogInv, StacksTellHistory
      <4>2. k \in 1..(n + 1) /\ k + 1 \in 1..(n + 1)
        BY <1>1, <3>1
      <4>3. QED
        BY <3>1, <4>1, <4>2, <1>7, <1>8
    <3>2. CASE k = n + 1
      <4>1. hist'[k] = p /\ hist'[k + 1] = q /\ undo'[k] = c
        BY <1>1, <1>7, <1>8, <3>2 DEF p
      <4>2. QED
        BY <1>4, <4>1
    <3>3. QED
      BY <1>1, <1>7, <3>1, <3>2
  <2>4. 1..Len(redo') = {}
    BY <1>2
  <2>5. QED
    BY <2>1, <2>2, <2>3, <2>4 DEF StacksTellHistory
<1>11. WithinBudget'
  <2>1. /\ undo_bytes = CmdBytes * n
        /\ MaxTiles > 0 => n < MaxTiles
        /\ MaxBytes > 0 => undo_bytes + CmdBytes <= MaxBytes
    <3>1. undo_bytes = CmdBytes * n
      BY DEF LogInv, WithinBudget
    <3>2. ~(MaxTiles > 0 /\ n >= MaxTiles) /\ ~(MaxBytes > 0 /\ undo_bytes + CmdBytes > MaxBytes)
      BY <1>2 DEF OverBudget
    <3>3. undo_bytes \in Nat
      BY DEF LogInv, TypeOK
    <3> HIDE DEF n
    <3>4. n \in Nat /\ MaxTiles \in Nat /\ MaxBytes \in Nat /\ CmdBytes \in Nat
      BY <1>1, BudgetAssumption
    <3>5. MaxTiles > 0 => n < MaxTiles
      BY <3>2, <3>4
    <3>6. MaxBytes > 0 => undo_bytes + CmdBytes <= MaxBytes
      BY <3>2, <3>3, <3>4
    <3>7. QED
      BY <3>1, <3>5, <3>6
  <2>2. CmdBytes * (n + 1) = CmdBytes * n + CmdBytes
    BY <1>1, BudgetAssumption
  <2>3. Len(redo') = 0 /\ Len(undo') + Len(redo') = n + 1
    BY <1>1, <1>2, <1>7
  <2>4. /\ MaxTiles > 0 => n + 1 <= MaxTiles
        /\ MaxBytes > 0 => CmdBytes * (n + 1) <= MaxBytes
        /\ undo_bytes' = CmdBytes * (n + 1)
    BY <1>1, <1>2, <2>1, <2>2, BudgetAssumption
  <2> HIDE DEF n
  <2>5. QED
    BY <1>7, <2>3, <2>4 DEF WithinBudget
<1>12. History!Edit
  BY <1>1, <1>5, <1>6, <1>7 DEF History!Edit
<1>13. QED
  BY <1>5, <1>9, <1>10, <1>11, <1>12 DEF LogInv, UniqueIds

\* A command over the budget is performed and reversed: nothing but the order of the
\* annotations changes.
LEMMA OverBudgetStep ==
  ASSUME LogInv, NEW r \in Request, ApplyOverBudget(r), UNCHANGED hist
  PROVE  LogInv' /\ UNCHANGED <<hist, undo, ContentOf(ir)>>
<1> DEFINE c == Captured(ir, r)
           p == ContentOf(ir)
           d == Forward(ir, c)
<1>1. /\ Applicable(ir, r)
      /\ ir' = Backward(d, c)
      /\ status' = "LIMIT"
      /\ UNCHANGED <<undo, redo, undo_bytes, hist>>
  BY DEF ApplyOverBudget
<1>2. ir \in Doc /\ IdsDistinct(ir)
  BY DEF LogInv, TypeOK, UniqueIds
<1>3. c \in Command /\ \E q : Links(c, p, q)
  BY <1>1, <1>2, CapturedLinks
<1>4. PICK q : Links(c, p, q)
  BY <1>3
<1>5. p \in Content
  BY <1>2, ContentFacts
<1> HIDE DEF c
<1>6. d \in Doc /\ IdsDistinct(d) /\ Links(c, p, ContentOf(d))
  BY <1>2, <1>3, <1>4, ForwardLinks
<1> HIDE DEF d, p
<1>7. ir' \in Doc /\ IdsDistinct(ir') /\ ContentOf(ir') = p
  BY <1>1, <1>3, <1>5, <1>6, BackwardLinks
<1>8. QED
  BY <1>1, <1>7 DEF LogInv, TypeOK, UniqueIds, StacksTellHistory, WithinBudget, p

\* Undo moves back along the history, to the content recorded there.
LEMMA UndoStep ==
  ASSUME LogInv, UndoDone, UNCHANGED hist
  PROVE  LogInv' /\ History!MoveBack
<1> DEFINE n == Len(undo)
           m == Len(redo)
           c == Last(undo)
<1>1. /\ undo # <<>>
      /\ ir' = Backward(ir, c)
      /\ undo' = Front(undo)
      /\ redo' = Append(redo, c)
      /\ undo_bytes' = undo_bytes - CmdBytes
      /\ status' = "NONE"
      /\ hist' = hist
  BY DEF UndoDone
<1>2. /\ ir \in Doc /\ IdsDistinct(ir)
      /\ undo \in Seq(Command) /\ redo \in Seq(Command) /\ hist \in Seq(Content)
      /\ m \in Nat
      /\ Len(hist) = n + m + 1
      /\ ContentOf(ir) = hist[n + 1]
  BY DEF LogInv, TypeOK, UniqueIds, StacksTellHistory
<1>3. /\ n \in Nat \ {0} /\ c = undo[n] /\ c \in Command
      /\ undo' \in Seq(Command) /\ Len(undo') = n - 1
      /\ \A k \in 1..(n - 1) : undo'[k] = undo[k]
  BY <1>1, <1>2, FrontFacts DEF Last
<1>4. Links(c, hist[n], ContentOf(ir)) /\ hist[n] \in Content
  BY <1>1, PathReversible
<1>5. ir' \in Doc /\ IdsDistinct(ir') /\ ContentOf(ir') = hist[n]
  BY <1>1, <1>2, <1>3, <1>4, BackwardLinks
<1> HIDE DEF c
<1>6. /\ redo' \in Seq(Command) /\ Len(redo') = m + 1
      /\ \A k \in 1..m : redo'[k] = redo[k]
      /\ redo'[m + 1] = c
  BY <1>1, <1>2, <1>3, AppendProperties
<1>7. /\ undo_bytes = CmdBytes * n
      /\ undo_bytes' = CmdBytes * (n - 1)
      /\ undo_bytes' \in Nat
  <2>1. undo_bytes = CmdBytes * n
    BY DEF LogInv, WithinBudget
  <2>2. CmdBytes * (n - 1) = CmdBytes * n - CmdBytes
    BY <1>3, BudgetAssumption
  <2>3. n - 1 \in Nat /\ CmdBytes \in Nat
    BY <1>3, BudgetAssumption
  <2> HIDE DEF n
  <2>4. CmdBytes * (n - 1) \in Nat
    BY <2>3, NatTimesNat
  <2>5. QED
    BY <1>1, <2>1, <2>2, <2>4
<1>8. TypeOK'
  BY <1>1, <1>2, <1>3, <1>5, <1>6, <1>7 DEF TypeOK
<1>9. StacksTellHistory'
  <2>1. Len(hist') = Len(undo') + Len(redo') + 1
    BY <1>1, <1>2, <1>3, <1>6
  <2>2. ContentOf(ir') = hist'[Len(undo') + 1]
    BY <1>1, <1>3, <1>5
  <2>3. ASSUME NEW k \in 1..Len(undo')
        PROVE  Links(undo'[k], hist'[k], hist'[k + 1])
    <3>1. k \in 1..n /\ k \in 1..(n - 1)
      BY <1>3
    <3>2. Links(undo[k], hist[k], hist[k + 1])
      BY <3>1 DEF LogInv, StacksTellHistory
    <3>3. QED
      BY <1>1, <1>3, <3>1, <3>2
  <2>4. ASSUME NEW k \in 1..Len(redo')
        PROVE  Links(redo'[k], hist'[Len(hist') - k], hist'[Len(hist') - k + 1])
    <3>1. CASE k \in 1..m
      <4>1. Links(redo[k], hist[Len(hist) - k], hist[Len(hist) - k + 1])
        BY <3>1 DEF LogInv, StacksTellHistory
      <4>2. QED
        BY <1>1, <1>6, <3>1, <4>1
    <3>2. CASE k = m + 1
      <4>1. Len(hist) - k = n /\ Len(hist) - k + 1 = n + 1
        BY <1>2, <1>3, <3>2
      <4>2. QED
        BY <1>1, <1>2, <1>4, <1>6, <3>2, <4>1
    <3>3. QED
      BY <1>2, <1>6, <3>1, <3>2
  <2>5. QED
    BY <2>1, <2>2, <2>3, <2>4 DEF StacksTellHistory
<1>10. WithinBudget'
  <2>1. Len(undo') + Len(redo') = n + m
    BY <1>2, <1>3, <1>6
  <2>2. /\ MaxTiles > 0 => n + m <= MaxTiles
        /\ MaxBytes > 0 => CmdBytes * (n + m) <= MaxBytes
    BY DEF LogInv, WithinBudget
  <2>3. QED
    BY <1>3, <1>7, <2>1, <2>2 DEF WithinBudget
<1>11. History!MoveBack
  BY <1>1, <1>3, <1>5 DEF History!MoveBack
<1>12. QED
  BY <1>5, <1>8, <1>9, <1>10, <1>11 DEF LogInv, UniqueIds

\* Redo moves ahead along the history, to the content recorded there.
LEMMA RedoStep ==
  ASSUME LogInv, RedoDone, UNCHANGED hist
  PROVE  LogInv' /\ History!MoveAhead
<1> DEFINE n == Len(undo)
           m == Len(redo)
           c == Last(redo)
<1>1. /\ redo # <<>>
      /\ ir' = Forward(ir, c)
      /\ redo' = Front(redo)
      /\ undo' = Append(undo, c)
      /\ undo_bytes' = undo_bytes + CmdBytes
      /\ status' = "NONE"
      /\ hist' = hist
  BY DEF RedoDone
<1>2. /\ ir \in Doc /\ IdsDistinct(ir)
      /\ undo \in Seq(Command) /\ redo \in Seq(Command) /\ hist \in Seq(Content)
      /\ n \in Nat
      /\ Len(hist) = n + m + 1
      /\ ContentOf(ir) = hist[n + 1]
      /\ undo_bytes \in Nat
  BY DEF LogInv, TypeOK, UniqueIds, StacksTellHistory
<1>3. /\ m \in Nat \ {0} /\ c \in Command
      /\ redo' \in Seq(Command) /\ Len(redo') = m - 1
      /\ \A k \in 1..(m - 1) : redo'[k] = redo[k]
  BY <1>1, <1>2, FrontFacts
<1>4. Links(c, ContentOf(ir), hist[n + 2])
  BY <1>1, PathReversible
<1>5. ir' \in Doc /\ IdsDistinct(ir') /\ ContentOf(ir') = hist[n + 2]
  BY <1>1, <1>2, <1>3, <1>4, ForwardLinks
<1> HIDE DEF c
<1>6. /\ undo' \in Seq(Command) /\ Len(undo') = n + 1
      /\ \A k \in 1..n : undo'[k] = undo[k]
      /\ undo'[n + 1] = c
  BY <1>1, <1>2, <1>3, AppendProperties
<1>7. undo_bytes' = CmdBytes * (n + 1) /\ undo_bytes' \in Nat
  <2>1. undo_bytes = CmdBytes * n
    BY DEF LogInv, WithinBudget
  <2>2. CmdBytes * (n + 1) = CmdBytes * n + CmdBytes
    BY <1>2, BudgetAssumption
  <2>3. QED
    BY <1>1, <1>2, <2>1, <2>2, BudgetAssumption
<1>8. TypeOK'
  BY <1>1, <1>2, <1>3, <1>5, <1>6, <1>7 DEF TypeOK
<1>9. StacksTellHistory'
  <2>1. Len(hist') = Len(undo') + Len(redo') + 1
    BY <1>1, <1>2, <1>3, <1>6
  <2>2. ContentOf(ir') = hist'[Len(undo') + 1]
    BY <1>1, <1>2, <1>5, <1>6
  <2>3. ASSUME NEW k \in 1..Len(undo')
        PROVE  Links(undo'[k], hist'[k], hist'[k + 1])
    <3>1. CASE k \in 1..n
      <4>1. Links(undo[k], hist[k], hist[k + 1])
        BY <3>1 DEF LogInv, StacksTellHistory
      <4>2. QED
        BY <1>1, <1>6, <3>1, <4>1
    <3>2. CASE k = n + 1
      <4>1. k + 1 = n + 2
        BY <1>2, <3>2
      <4>2. QED
        BY <1>1, <1>2, <1>4, <1>6, <3>2, <4>1
    <3>3. QED
      BY <1>2, <1>6, <3>1, <3>2
  <2>4. ASSUME NEW k \in 1..Len(redo')
        PROVE  Links(redo'[k], hist'[Len(hist') - k], hist'[Len(hist') - k + 1])
    <3>1. k \in 1..m /\ k \in 1..(m - 1)
      BY <1>3
    <3>2. Links(redo[k], hist[Len(hist) - k], hist[Len(hist) - k + 1])
      BY <3>1 DEF LogInv, StacksTellHistory
    <3>3. QED
      BY <1>1, <1>3, <3>1, <3>2
  <2>5. QED
    BY <2>1, <2>2, <2>3, <2>4 DEF StacksTellHistory
<1>10. WithinBudget'
  <2>1. Len(undo') + Len(redo') = n + m
    BY <1>2, <1>3, <1>6
  <2>2. /\ MaxTiles > 0 => n + m <= MaxTiles
        /\ MaxBytes > 0 => CmdBytes * (n + m) <= MaxBytes
    BY DEF LogInv, WithinBudget
  <2>3. QED
    BY <1>6, <1>7, <2>1, <2>2 DEF WithinBudget
<1>11. History!MoveAhead
  <2>1. n + 1 < Len(hist) /\ n + 1 + 1 = n + 2
    BY <1>2, <1>3
  <2>2. QED
    BY <1>1, <1>2, <1>5, <1>6, <2>1 DEF History!MoveAhead
<1>12. QED
  BY <1>5, <1>8, <1>9, <1>10, <1>11 DEF LogInv, UniqueIds

-----------------------------------------------------------------------------
(* The theorems.                                                           *)

\* Every step of the log preserves the invariant and is a step of the edit history,
\* or leaves everything the history shows as it was.
LEMMA EveryStep ==
  ASSUME LogInv, [HNext]_hvars
  PROVE  LogInv' /\ [History!Next]_(History!vars)
<1> USE DEF History!Next, History!vars
<1>1. CASE UNCHANGED hvars
  BY <1>1 DEF hvars, LogInv, TypeOK, UniqueIds, StacksTellHistory, WithinBudget
<1>2. ASSUME NEW r \in Request, ApplyLogged(r),
             hist' = Append(SubSeq(hist, 1, Len(undo) + 1), ContentOf(ir'))
      PROVE  LogInv' /\ [History!Next]_(History!vars)
  BY <1>2, LoggedStep
<1>3. ASSUME NEW r \in Request, ApplyRefused(r), UNCHANGED hist
      PROVE  LogInv' /\ [History!Next]_(History!vars)
  BY <1>3 DEF ApplyRefused, LogInv, TypeOK, UniqueIds, StacksTellHistory, WithinBudget
<1>4. ASSUME NEW r \in Request, ApplyOverBudget(r), UNCHANGED hist
      PROVE  LogInv' /\ [History!Next]_(History!vars)
  BY <1>4, OverBudgetStep
<1>5. CASE Undo /\ UNCHANGED hist
  <2>1. CASE UndoEmpty
    BY <1>5, <2>1 DEF UndoEmpty, LogInv, TypeOK, UniqueIds, StacksTellHistory, WithinBudget
  <2>2. CASE UndoLost
    BY <2>2, PathReversible DEF UndoLost
  <2>3. CASE UndoDone
    BY <1>5, <2>3, UndoStep
  <2>4. QED
    BY <1>5, <2>1, <2>2, <2>3 DEF Undo
<1>6. CASE Redo /\ UNCHANGED hist
  <2>1. CASE RedoEmpty
    BY <1>6, <2>1 DEF RedoEmpty, LogInv, TypeOK, UniqueIds, StacksTellHistory, WithinBudget
  <2>2. CASE RedoLost
    BY <2>2, PathReversible DEF RedoLost
  <2>3. CASE RedoDone
    BY <1>6, <2>3, RedoStep
  <2>4. QED
    BY <1>6, <2>1, <2>2, <2>3 DEF Redo
<1>7. QED
  BY <1>1, <1>2, <1>3, <1>4, <1>5, <1>6 DEF HNext

\* The inductive invariant holds in every reachable state.
THEOREM LogInvariant == HSpec => []LogInv
<1>1. HInit => LogInv
  BY InitHolds
<1>2. LogInv /\ [HNext]_hvars => LogInv'
  BY EveryStep
<1>3. QED
  BY <1>1, <1>2, PTL DEF HSpec

\* Type correctness of the document, the two stacks and the byte count.
THEOREM TypeCorrect == HSpec => []TypeOK
<1>1. LogInv => TypeOK
  BY DEF LogInv
<1>2. QED
  BY <1>1, LogInvariant, PTL

\* No sequence of applies, undos and redos makes two annotations share an id,
\* although undoing a DELETE and redoing an ADD insert without looking.
THEOREM IdsStayUnique == HSpec => []UniqueIds
<1>1. LogInv => UniqueIds
  BY DEF LogInv
<1>2. QED
  BY <1>1, LogInvariant, PTL

\* Within a session, no undo or redo fails on the document: the paths of
\* pc_txn_undo and pc_txn_redo that drop a popped command are dead.
THEOREM AlwaysReversible == HSpec => []Reversible
<1>1. LogInv => Reversible
  BY PathReversible DEF Reversible
<1>2. QED
  BY <1>1, LogInvariant, PTL

\* The two ceilings bound the undo stack although pc_txn_redo does not check them,
\* and the byte count never drifts from the stack.
THEOREM BudgetHolds == HSpec => []WithinBudget
<1>1. LogInv => WithinBudget
  BY DEF LogInv
<1>2. QED
  BY <1>1, LogInvariant, PTL

\* The stacks always describe the path of contents through the present document.
THEOREM StacksAreHistory == HSpec => []StacksTellHistory
<1>1. LogInv => StacksTellHistory
  BY DEF LogInv
<1>2. QED
  BY <1>1, LogInvariant, PTL

\* The transaction log implements the abstract edit history.
THEOREM LogIsEditHistory == HSpec => IsEditHistory
<1>1. HInit => History!Init
  BY InitHolds
<1>2. LogInv /\ [HNext]_hvars => [History!Next]_(History!vars)
  BY EveryStep
<1>3. QED
  BY <1>1, <1>2, LogInvariant, PTL DEF HSpec, IsEditHistory, History!Spec

=============================================================================
