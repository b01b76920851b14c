------------------------- MODULE ConfiguratorProofs -------------------------
(***************************************************************************)
(* Proofs about the configurator, for every set of keys, profiles, names   *)
(* and imports, every nesting of macros, every id of a name, and every     *)
(* history limit.                                                          *)
(*                                                                         *)
(* The theorems about drafts have one hypothesis: what the session accepts *)
(* as a draft is what ValidateLayout accepts, as session.go calls it.      *)
(***************************************************************************)
EXTENDS Configurator, ActionFileProofs, FiniteSetTheorems

-----------------------------------------------------------------------------
(* The undo and redo stacks of the editing session implement one timeline, *)
(* for every history limit and every set of layouts.                       *)

(* The drafts on both stacks are layouts that were accepted, and the two   *)
(* stacks together never exceed the limit, so neither drops a draft when   *)
(* the other one gives it (session.go: Undo, Redo).                        *)
SessionInv(Layouts) ==
    /\ baseline \in Layouts /\ draft \in Layouts
    /\ undo \in Seq(Layouts) /\ redo \in Seq(Layouts)
    /\ Len(undo) + Len(redo) <= HistoryLimit

(* A history below its limit grows at its end (appendBounded).             *)
LEMMA AppendBelowLimit ==
    ASSUME NEW S, NEW h \in Seq(S), NEW v \in S, Len(h) < HistoryLimit
    PROVE  AppendBounded(h, v) = Append(h, v)
BY HistoryLimitAssumption DEF AppendBounded

(* A full history drops its oldest entry (appendBounded).                  *)
LEMMA AppendAtLimit ==
    ASSUME NEW S, NEW h \in Seq(S), NEW v \in S, Len(h) = HistoryLimit
    PROVE  /\ AppendBounded(h, v) \in Seq(S)
           /\ Len(AppendBounded(h, v)) = HistoryLimit
           /\ \A i \in 1..HistoryLimit : AppendBounded(h, v)[i] = Append(h, v)[i + 1]
<1>1. Len(Append(h, v)) = HistoryLimit + 1 /\ Append(h, v) \in Seq(S)
  BY HistoryLimitAssumption
<1>2. AppendBounded(h, v) = SubSeq(Append(h, v), 2, HistoryLimit + 1)
  BY <1>1, HistoryLimitAssumption DEF AppendBounded
<1> QED
  BY <1>1, <1>2, HistoryLimitAssumption

(* Taking the last entry off a stack (session.go: Undo, Redo).             *)
LEMMA WithoutLast ==
    ASSUME NEW S, NEW s \in Seq(S), s # <<>>
    PROVE  /\ Len(s) \in Nat /\ Len(s) >= 1
           /\ s[Len(s)] \in S
           /\ SubSeq(s, 1, Len(s) - 1) \in Seq(S)
           /\ Len(SubSeq(s, 1, Len(s) - 1)) = Len(s) - 1
           /\ \A i \in 1..(Len(s) - 1) : SubSeq(s, 1, Len(s) - 1)[i] = s[i]
<1>0. Len(s) \in Nat /\ Len(s) >= 1
  BY EmptySeq, LenProperties
<1>1. Len(s) \in Nat /\ Len(s) >= 1 /\ \A i \in 1..Len(s) : s[i] \in S
  BY <1>0, LenProperties
<1>2. /\ SubSeq(s, 1, Len(s) - 1) \in Seq(S)
      /\ Len(SubSeq(s, 1, Len(s) - 1)) = IF 1 <= Len(s) - 1 THEN Len(s) - 1 - 1 + 1 ELSE 0
      /\ \A i \in 1..(Len(s) - 1 - 1 + 1) : SubSeq(s, 1, Len(s) - 1)[i] = s[1 + i - 1]
  <2>1. \A i \in 1..(Len(s) - 1) : s[i] \in S
    BY <1>1
  <2> QED
    BY <1>1, <2>1, SubSeqProperties
<1>3. s[Len(s)] \in S
  BY <1>1
<1>4. Len(SubSeq(s, 1, Len(s) - 1)) = Len(s) - 1
  <2>1. CASE Len(s) = 1
    BY <1>2, <2>1
  <2>2. CASE Len(s) # 1
    <3>1. \A n \in Nat : n >= 1 /\ n # 1 => 1 <= n - 1 /\ n - 1 - 1 + 1 = n - 1
      OBVIOUS
    <3> QED
      BY <1>0, <1>2, <2>2, <3>1
  <2> QED
    BY <2>1, <2>2
<1>5. ASSUME NEW i \in 1..(Len(s) - 1)
      PROVE  SubSeq(s, 1, Len(s) - 1)[i] = s[i]
  <2>1. i \in 1..(Len(s) - 1 - 1 + 1) /\ 1 + i - 1 = i
    BY <1>1
  <2> QED
    BY <1>2, <2>1
<1> QED
  BY <1>1, <1>2, <1>3, <1>4, <1>5

(* The length, the cursor and the entries of the timeline the stacks stand *)
(* for.                                                                    *)
LEMMA DraftsShape ==
    ASSUME NEW Layouts, SessionInv(Layouts)
    PROVE  /\ Len(undo) \in Nat /\ Len(redo) \in Nat
           /\ Len(Drafts) = Len(undo) + 1 + Len(redo)
           /\ \A i \in 1..Len(undo) : Drafts[i] = undo[i]
           /\ Drafts[Len(undo) + 1] = draft
           /\ \A i \in 1..Len(redo) : Drafts[Len(undo) + 1 + i] = redo[Len(redo) + 1 - i]
<1>1. Len(undo) \in Nat /\ Len(redo) \in Nat
  BY DEF SessionInv
<1>2. Drafts = [i \in 1..(Len(undo) + 1 + Len(redo)) |-> Drafts[i]]
  BY DEF Drafts
<1>3. Len(Drafts) = Len(undo) + 1 + Len(redo)
  BY <1>1, <1>2
<1>4. \A i \in 1..Len(undo) : Drafts[i] = undo[i]
  BY <1>1 DEF Drafts
<1>5. Drafts[Len(undo) + 1] = draft
  BY <1>1 DEF Drafts
<1>6. ASSUME NEW i \in 1..Len(redo)
      PROVE  Drafts[Len(undo) + 1 + i] = redo[Len(redo) + 1 - i]
  <2>1. Len(undo) + 1 + i \in 1..(Len(undo) + 1 + Len(redo))
    BY <1>1
  <2>2. ~(Len(undo) + 1 + i <= Len(undo)) /\ Len(undo) + 1 + i # Len(undo) + 1
    BY <1>1
  <2>3. Len(undo) + Len(redo) + 2 - (Len(undo) + 1 + i) = Len(redo) + 1 - i
    BY <1>1
  <2> QED
    BY <2>1, <2>2, <2>3 DEF Drafts
<1> QED
  BY <1>1, <1>3, <1>4, <1>5, <1>6

(* Every operation of the session keeps its invariant.                     *)
LEMMA SessionInvStep ==
    ASSUME NEW Layouts, \A layout : Mutate(layout) => layout \in Layouts,
           SessionInv(Layouts), [SessionNext]_sessionVars
    PROVE  SessionInv(Layouts)'
<1> USE DEF SessionInv
<1>1. CASE UNCHANGED sessionVars
  BY <1>1 DEF sessionVars
<1>2. ASSUME NEW layout, Mutate(layout)
      PROVE  SessionInv(Layouts)'
  <2>1. CASE layout = draft
    BY <1>2, <2>1 DEF Mutate
  <2>2. CASE layout # draft /\ Len(undo) < HistoryLimit
    <3>1. undo' = Append(undo, draft) /\ redo' = <<>>
      BY <1>2, <2>2, AppendBelowLimit DEF Mutate
    <3>2. Len(undo') <= HistoryLimit
      BY <2>2, <3>1, HistoryLimitAssumption
    <3> QED
      BY <1>2, <2>2, <3>1, <3>2 DEF Mutate
  <2>3. CASE layout # draft /\ Len(undo) = HistoryLimit
    <3>1. undo' = AppendBounded(undo, draft) /\ redo' = <<>>
      BY <1>2, <2>3 DEF Mutate
    <3>2. undo' \in Seq(Layouts) /\ Len(undo') = HistoryLimit
      BY <2>3, <3>1, AppendAtLimit
    <3> QED
      BY <1>2, <3>1, <3>2, HistoryLimitAssumption DEF Mutate
  <2> QED
    BY <2>1, <2>2, <2>3, HistoryLimitAssumption
<1>3. CASE Undo
  <2>1. Len(undo) \in Nat /\ Len(undo) >= 1 /\ Len(redo) < HistoryLimit
    BY <1>3, HistoryLimitAssumption DEF Undo
  <2>2. redo' = Append(redo, draft)
    BY <1>3, <2>1, AppendBelowLimit DEF Undo
  <2>3. undo' \in Seq(Layouts) /\ Len(undo') = Len(undo) - 1 /\ draft' \in Layouts
    BY <1>3, <2>1, WithoutLast DEF Undo
  <2>4. redo' \in Seq(Layouts) /\ Len(redo') = Len(redo) + 1
    BY <2>2
  <2>5. Len(undo') + Len(redo') <= HistoryLimit
    BY <2>1, <2>3, <2>4, HistoryLimitAssumption
  <2> QED
    BY <1>3, <2>3, <2>4, <2>5 DEF Undo
<1>4. CASE Redo
  <2>1. Len(redo) \in Nat /\ Len(redo) >= 1 /\ Len(undo) < HistoryLimit
    BY <1>4, HistoryLimitAssumption DEF Redo
  <2>2. undo' = Append(undo, draft)
    BY <1>4, <2>1, AppendBelowLimit DEF Redo
  <2>3. redo' \in Seq(Layouts) /\ Len(redo') = Len(redo) - 1 /\ draft' \in Layouts
    BY <1>4, <2>1, WithoutLast DEF Redo
  <2>4. undo' \in Seq(Layouts) /\ Len(undo') = Len(undo) + 1
    BY <2>2
  <2>5. Len(undo') + Len(redo') <= HistoryLimit
    BY <2>1, <2>3, <2>4, HistoryLimitAssumption
  <2> QED
    BY <1>4, <2>3, <2>4, <2>5 DEF Redo
<1>5. CASE Commit
  BY <1>5, HistoryLimitAssumption DEF Commit
<1>6. CASE Revert
  BY <1>6, HistoryLimitAssumption DEF Revert
<1> QED
  BY <1>1, <1>2, <1>3, <1>4, <1>5, <1>6 DEF SessionNext

(* A change of the draft is an edit of the timeline: the past stays, but   *)
(* for the oldest draft of a full history, and the future is forgotten.    *)
LEMMA MutateIsEdit ==
    ASSUME NEW Layouts, SessionInv(Layouts), SessionInv(Layouts)',
           NEW layout, Mutate(layout), layout # draft
    PROVE  Timeline!Edit
<1>1. /\ undo' = AppendBounded(undo, draft) /\ redo' = <<>>
      /\ draft' = layout /\ IsDraft(layout) /\ baseline' = baseline
  BY DEF Mutate
<1>2. /\ Len(undo) \in Nat /\ Len(redo) \in Nat
      /\ \A i \in 1..Len(undo) : Drafts[i] = undo[i]
      /\ Drafts[Len(undo) + 1] = draft
  BY DraftsShape
<1>3. /\ Len(undo)' \in Nat /\ Len(redo)' = 0
      /\ Len(Drafts)' = Len(undo)' + 1
      /\ \A i \in 1..Len(undo)' : Drafts'[i] = undo'[i]
      /\ Drafts'[Len(undo)' + 1] = draft'
  <2>1. Len(undo)' \in Nat /\ Len(redo)' = 0
    BY <1>1 DEF SessionInv
  <2>2. Drafts' = [i \in 1..(Len(undo)' + 1) |->
                      IF i <= Len(undo)' THEN undo'[i]
                      ELSE IF i = Len(undo)' + 1 THEN draft'
                      ELSE redo'[Len(undo)' + 0 + 2 - i]]
    BY <2>1 DEF Drafts
  <2> QED
    BY <2>1, <2>2
<1>4. CASE Len(undo) < HistoryLimit
  <2>1. undo' = Append(undo, draft)
    BY <1>1, <1>4, AppendBelowLimit DEF SessionInv
  <2>2. Len(undo)' = Len(undo) + 1
    BY <2>1 DEF SessionInv
  <2>3. \A i \in 1..(Len(undo) + 1) : Drafts'[i] = Drafts[i]
    BY <1>2, <1>3, <2>1, <2>2 DEF SessionInv
  <2>4. ~(Len(undo) + 1 > HistoryLimit)
    BY <1>2, <1>4, HistoryLimitAssumption
  <2> QED
    BY <1>1, <1>2, <1>3, <2>2, <2>3, <2>4 DEF Timeline!Edit, Timeline!Current
<1>5. CASE Len(undo) = HistoryLimit
  <2> HIDE DEF Drafts
  <2>0. undo \in Seq(Layouts) /\ draft \in Layouts
    BY DEF SessionInv
  <2>1. /\ Len(undo)' = HistoryLimit
        /\ \A i \in 1..HistoryLimit : undo'[i] = Append(undo, draft)[i + 1]
    BY <1>1, <1>5, <2>0, AppendAtLimit
  <2>2. \A i \in 1..HistoryLimit : Drafts'[i] = Drafts[i + 1]
    <3>1. TAKE i \in 1..HistoryLimit
    <3>2. Drafts'[i] = Append(undo, draft)[i + 1]
      BY <1>3, <2>1
    <3>3. Append(undo, draft)[i + 1] = Drafts[i + 1]
      BY <1>2, <1>5, HistoryLimitAssumption DEF SessionInv
    <3> QED
      BY <3>2, <3>3
  <2>3. Len(undo) + 1 > HistoryLimit
    BY <1>5, HistoryLimitAssumption
  <2> QED
    BY <1>1, <1>2, <1>3, <1>5, <2>1, <2>2, <2>3, HistoryLimitAssumption
    DEF Timeline!Edit, Timeline!Current
<1> QED
  BY <1>2, <1>4, <1>5, HistoryLimitAssumption DEF SessionInv

(* Undo leaves the timeline and moves the cursor back.                     *)
LEMMA UndoMovesCursor ==
    ASSUME NEW Layouts, SessionInv(Layouts), Undo
    PROVE  Timeline!Undo
<1>1. Len(undo) \in Nat /\ Len(undo) >= 1 /\ Len(redo) \in Nat /\ Len(redo) < HistoryLimit
  BY HistoryLimitAssumption DEF Undo, SessionInv
<1>2. redo' = Append(redo, draft)
  BY <1>1, AppendBelowLimit DEF Undo, SessionInv
<1>3. Len(redo') = Len(redo) + 1 /\ redo'[Len(redo) + 1] = draft
      /\ \A i \in 1..Len(redo) : redo'[i] = redo[i]
  BY <1>2 DEF SessionInv
<1>4. Len(undo') = Len(undo) - 1 /\ draft' = undo[Len(undo)] /\ baseline' = baseline
      /\ \A i \in 1..(Len(undo) - 1) : undo'[i] = undo[i]
  BY <1>1, WithoutLast DEF Undo, SessionInv
<1>5. Len(undo') + 1 + Len(redo') = Len(undo) + 1 + Len(redo)
  BY <1>1, <1>3, <1>4
<1>6. ASSUME NEW i \in 1..(Len(undo) + 1 + Len(redo))
      PROVE  Drafts'[i] = Drafts[i]
  <2>1. CASE i <= Len(undo) - 1
    BY <1>1, <1>4, <1>5, <2>1 DEF Drafts
  <2>2. CASE i = Len(undo)
    BY <1>1, <1>4, <1>5, <2>2 DEF Drafts
  <2>3. CASE i = Len(undo) + 1
    <3>1. Len(undo') + Len(redo') + 2 - i = Len(redo) + 1
      BY <1>1, <1>3, <1>4, <2>3
    <3> QED
      BY <1>1, <1>3, <1>4, <1>5, <2>3, <3>1 DEF Drafts
  <2>4. CASE i > Len(undo) + 1
    <3>1. Len(undo') + Len(redo') + 2 - i = Len(undo) + Len(redo) + 2 - i
      BY <1>1, <1>3, <1>4
    <3>2. Len(undo) + Len(redo) + 2 - i \in 1..Len(redo)
      BY <1>1, <2>4
    <3>3. ~(i <= Len(undo')) /\ i # Len(undo') + 1
      BY <1>1, <1>4, <2>4
    <3>4. Drafts'[i] = redo'[Len(undo) + Len(redo) + 2 - i]
      BY <1>5, <3>1, <3>3 DEF Drafts
    <3>5. Drafts[i] = redo[Len(undo) + Len(redo) + 2 - i]
      BY <1>1, <2>4 DEF Drafts
    <3> QED
      BY <1>3, <3>2, <3>4, <3>5
  <2> QED
    BY <1>1, <2>1, <2>2, <2>3, <2>4
<1>7. Drafts' = Drafts
  BY <1>5, <1>6 DEF Drafts
<1> QED
  BY <1>1, <1>4, <1>7 DEF Timeline!Undo

(* Redo leaves the timeline and moves the cursor forward.                  *)
LEMMA RedoMovesCursor ==
    ASSUME NEW Layouts, SessionInv(Layouts), Redo
    PROVE  Timeline!Redo
<1>1. Len(redo) \in Nat /\ Len(redo) >= 1 /\ Len(undo) \in Nat /\ Len(undo) < HistoryLimit
  BY HistoryLimitAssumption DEF Redo, SessionInv
<1>2. undo' = Append(undo, draft)
  BY <1>1, AppendBelowLimit DEF Redo, SessionInv
<1>3. Len(undo') = Len(undo) + 1 /\ undo'[Len(undo) + 1] = draft
      /\ \A i \in 1..Len(undo) : undo'[i] = undo[i]
  BY <1>2 DEF SessionInv
<1>4. Len(redo') = Len(redo) - 1 /\ draft' = redo[Len(redo)] /\ baseline' = baseline
      /\ \A i \in 1..(Len(redo) - 1) : redo'[i] = redo[i]
  BY <1>1, WithoutLast DEF Redo, SessionInv
<1>5. Len(undo') + 1 + Len(redo') = Len(undo) + 1 + Len(redo)
  BY <1>1, <1>3, <1>4
<1>6. ASSUME NEW i \in 1..(Len(undo) + 1 + Len(redo))
      PROVE  Drafts'[i] = Drafts[i]
  <2>1. CASE i <= Len(undo)
    BY <1>1, <1>3, <1>5, <2>1 DEF Drafts
  <2>2. CASE i = Len(undo) + 1
    BY <1>1, <1>3, <1>5, <2>2 DEF Drafts
  <2>3. CASE i = Len(undo) + 2
    <3>1. Len(undo) + Len(redo) + 2 - i = Len(redo)
      BY <1>1, <2>3
    <3> QED
      BY <1>1, <1>3, <1>4, <1>5, <2>3, <3>1 DEF Drafts
  <2>4. CASE i > Len(undo) + 2
    <3>1. Len(undo') + Len(redo') + 2 - i = Len(undo) + Len(redo) + 2 - i
      BY <1>1, <1>3, <1>4
    <3>2. Len(undo) + Len(redo) + 2 - i \in 1..(Len(redo) - 1)
      BY <1>1, <2>4
    <3>3. ~(i <= Len(undo')) /\ i # Len(undo') + 1
      BY <1>1, <1>3, <2>4
    <3>4. Drafts'[i] = redo'[Len(undo) + Len(redo) + 2 - i]
      BY <1>5, <3>1, <3>3 DEF Drafts
    <3>5. Drafts[i] = redo[Len(undo) + Len(redo) + 2 - i]
      BY <1>1, <2>4 DEF Drafts
    <3> QED
      BY <1>4, <3>2, <3>4, <3>5
  <2> QED
    BY <1>1, <2>1, <2>2, <2>3, <2>4
<1>7. Drafts' = Drafts
  BY <1>5, <1>6 DEF Drafts
<1>8. Len(Drafts) = Len(undo) + 1 + Len(redo)
  BY DraftsShape
<1> QED
  BY <1>1, <1>3, <1>4, <1>7, <1>8 DEF Timeline!Redo

(* With empty stacks the timeline is the draft alone.                      *)
LEMMA EmptyStacks ==
    ASSUME undo = <<>>, redo = <<>>
    PROVE  Drafts = <<draft>>
BY DEF Drafts

(* Every operation of the session is a step of the timeline or leaves it.  *)
LEMMA SessionStepIsTimelineStep ==
    ASSUME NEW Layouts, SessionInv(Layouts), SessionInv(Layouts)', [SessionNext]_sessionVars
    PROVE  [Timeline!Next]_(Timeline!vars)
<1>1. CASE UNCHANGED sessionVars
  BY <1>1 DEF sessionVars, Timeline!vars, Drafts
<1>2. ASSUME NEW layout, Mutate(layout)
      PROVE  [Timeline!Next]_(Timeline!vars)
  <2>1. CASE layout = draft
    BY <1>2, <2>1 DEF Mutate, Timeline!vars, Drafts
  <2>2. CASE layout # draft
    BY <1>2, <2>2, MutateIsEdit DEF Timeline!Next
  <2> QED
    BY <2>1, <2>2
<1>3. CASE Undo
  BY <1>3, UndoMovesCursor DEF Timeline!Next
<1>4. CASE Redo
  BY <1>4, RedoMovesCursor DEF Timeline!Next
<1>5. CASE Commit
  <2>1. Drafts' = <<draft>> /\ Len(undo') + 1 = 1 /\ baseline' = draft
    BY <1>5 DEF Commit, Drafts
  <2>2. Drafts[Len(undo) + 1] = draft
    BY DraftsShape
  <2> QED
    BY <2>1, <2>2 DEF Timeline!Next, Timeline!Save, Timeline!Current
<1>6. CASE Revert
  <2>1. Drafts' = <<baseline>> /\ Len(undo') + 1 = 1 /\ baseline' = baseline
    BY <1>6 DEF Revert, Drafts
  <2> QED
    BY <2>1 DEF Timeline!Next, Timeline!Revert
<1> QED
  BY <1>1, <1>2, <1>3, <1>4, <1>5, <1>6 DEF SessionNext

(* A new session is a timeline of one draft.                               *)
LEMMA SessionInitIsTimelineInit ==
    ASSUME NEW layout, SessionInit(layout)
    PROVE  Timeline!Init
<1>1. Drafts = <<draft>>
  BY EmptyStacks DEF SessionInit
<1> QED
  BY <1>1 DEF SessionInit, Timeline!Init

(* The drafts of a session were all accepted by the validation.            *)
HistoryInv == \E Layouts : (\A l \in Layouts : IsDraft(l)) /\ SessionInv(Layouts)

(* A session starts with empty stacks.                                     *)
LEMMA HistoryInvInit ==
    ASSUME NEW layout, SessionInit(layout)
    PROVE  HistoryInv
<1>1. SessionInv({layout})
  BY HistoryLimitAssumption DEF SessionInit, SessionInv
<1> QED
  BY <1>1 DEF SessionInit, HistoryInv

(* The layouts of a step: those before it and the one that is accepted.    *)
LEMMA LayoutsOfStep ==
    ASSUME HistoryInv, [SessionNext]_sessionVars
    PROVE  \E Layouts : /\ \A l \in Layouts : IsDraft(l)
                       /\ SessionInv(Layouts) /\ SessionInv(Layouts)'
<1>1. PICK before : (\A l \in before : IsDraft(l)) /\ SessionInv(before)
  BY DEF HistoryInv
<1>2. PICK new : new = draft'
  OBVIOUS
<1> DEFINE after == {l \in before \cup {new} : IsDraft(l)}
<1>3. before \subseteq after /\ \A l \in after : IsDraft(l)
  BY <1>1
<1>4. SessionInv(after)
  BY <1>1, <1>3, SeqMonotonic DEF SessionInv
<1>5. \A layout : Mutate(layout) => layout \in after
  BY <1>2 DEF Mutate
<1> HIDE DEF after
<1>6. SessionInv(after)'
  BY <1>4, <1>5, SessionInvStep
<1> QED
  BY <1>3, <1>4, <1>6

(* The editing session implements one timeline with a cursor               *)
(* (session.go).                                                           *)
THEOREM SessionIsOneTimeline == SessionSpec => OneTimeline
<1>1. (\E layout : SessionInit(layout)) => HistoryInv /\ Timeline!Init
  BY HistoryInvInit, SessionInitIsTimelineInit
<1>2. HistoryInv /\ [SessionNext]_sessionVars => HistoryInv' /\ [Timeline!Next]_(Timeline!vars)
  <2> SUFFICES ASSUME HistoryInv, [SessionNext]_sessionVars
               PROVE  HistoryInv' /\ [Timeline!Next]_(Timeline!vars)
    OBVIOUS
  <2>1. PICK Layouts : /\ \A l \in Layouts : IsDraft(l)
                       /\ SessionInv(Layouts) /\ SessionInv(Layouts)'
    BY LayoutsOfStep
  <2>2. HistoryInv'
    BY <2>1 DEF HistoryInv
  <2>3. [Timeline!Next]_(Timeline!vars)
    BY <2>1, SessionStepIsTimelineStep
  <2> QED
    BY <2>2, <2>3
<1> QED
  BY <1>1, <1>2, PTL DEF SessionSpec, OneTimeline, Timeline!Spec

-----------------------------------------------------------------------------
(* The mutations of a layout.                                              *)

\* Binding x to a valid action, or to none, keeps what is bound valid.
LEMMA RebindKeeps ==
  ASSUME NEW S, NEW f, DOMAIN f \subseteq S, \A y \in DOMAIN f : Validate(f[y]),
         NEW x \in S, NEW a, a = None \/ Validate(a)
  PROVE  /\ DOMAIN Rebind(f, x, a) \subseteq S
         /\ \A y \in DOMAIN Rebind(f, x, a) : Validate(Rebind(f, x, a)[y])
  <1>1. CASE a = None
    <2>1. Rebind(f, x, a) = [y \in DOMAIN f \ {x} |-> f[y]] BY <1>1 DEF Rebind, Restrict
    <2> QED BY <2>1
  <1>2. CASE a # None
    <2>1. Rebind(f, x, a) = [y \in DOMAIN f \cup {x} |-> IF y = x THEN a ELSE f[y]]
      BY <1>2 DEF Rebind, Put
    <2> QED BY <1>2, <2>1
  <1> QED BY <1>1, <1>2

LEMMA WithProfileKeeps ==
  ASSUME NEW l, NEW id \in DOMAIN l.profiles, NEW p
  PROVE  /\ WithProfile(l, id, p).active = l.active
         /\ DOMAIN WithProfile(l, id, p).profiles = DOMAIN l.profiles
         /\ ValidateLayout(l) /\ ValidProfile(p) => ValidateLayout(WithProfile(l, id, p))
  <1> DEFINE w == WithProfile(l, id, p)
  <1>1. w.active = l.active /\ w.profiles = Put(l.profiles, id, p) BY DEF WithProfile
  <1>2. /\ DOMAIN w.profiles = DOMAIN l.profiles
        /\ \A y \in DOMAIN l.profiles : w.profiles[y] = IF y = id THEN p ELSE l.profiles[y]
    BY <1>1 DEF Put
  <1> HIDE DEF w
  <1>3. ASSUME ValidateLayout(l), ValidProfile(p) PROVE ValidateLayout(w)
    <2>1. w.active \in DOMAIN w.profiles /\ Blank \notin DOMAIN w.profiles
      BY <1>1, <1>2, <1>3 DEF ValidateLayout
    <2>2. ASSUME NEW y \in DOMAIN w.profiles PROVE ValidProfile(w.profiles[y])
      <3>1. w.profiles[y] = p \/ w.profiles[y] = l.profiles[y] BY <1>2, <2>2
      <3>2. ValidProfile(l.profiles[y]) BY <1>2, <1>3, <2>2 DEF ValidateLayout
      <3> QED BY <1>3, <3>1, <3>2
    <2> QED BY <2>1, <2>2 DEF ValidateLayout
  <1> QED BY <1>1, <1>2, <1>3 DEF w

LEMMA ProfileIs ==
  ASSUME NEW name, NEW maps, NEW bindings, NEW taps
  PROVE  /\ Profile(name, maps, bindings, taps).name = name
         /\ Profile(name, maps, bindings, taps).maps = maps
         /\ Profile(name, maps, bindings, taps).bindings = bindings
         /\ Profile(name, maps, bindings, taps).taps = taps
  BY DEF Profile

LEMMA BindingKeeps ==
  ASSUME NEW l, NEW id, NEW key, NEW a, SetBinding(l, id, key, a) # Error
  PROVE  /\ DOMAIN SetBinding(l, id, key, a).profiles = DOMAIN l.profiles
         /\ ValidateLayout(l) => ValidateLayout(SetBinding(l, id, key, a))
  <1> DEFINE p == l.profiles[id]
             b == Rebind(p.bindings, key, a)
             m == p.maps \cup {<<key[1], key[2]>>}
             q == Profile(p.name, m, b, p.taps)
  <1>1. id \in DOMAIN l.profiles /\ key \in Keys /\ (a = None \/ Validate(a))
        /\ SetBinding(l, id, key, a) = WithProfile(l, id, q)
    BY DEF SetBinding
  <1>2. ASSUME ValidateLayout(l) PROVE ValidProfile(q)
    <2>1. ValidProfile(p) BY <1>1, <1>2 DEF ValidateLayout
    <2>2. DOMAIN b \subseteq Keys /\ \A k \in DOMAIN b : Validate(b[k])
      <3> DEFINE f == p.bindings
      <3>1. DOMAIN f \subseteq Keys /\ \A k \in DOMAIN f : Validate(f[k])
        BY <2>1 DEF ValidProfile
      <3> HIDE DEF f
      <3>2. /\ DOMAIN Rebind(f, key, a) \subseteq Keys
            /\ \A k \in DOMAIN Rebind(f, key, a) : Validate(Rebind(f, key, a)[k])
        BY <1>1, <3>1, RebindKeeps
      <3> QED BY <3>2 DEF f
    <2>3. m \subseteq Languages \X Modes BY <1>1, <2>1 DEF ValidProfile, Keys
    <2> HIDE DEF p, b, m
    <2> QED BY <2>1, <2>2, <2>3, ProfileIs DEF ValidProfile
  <1> HIDE DEF q
  <1> QED BY <1>1, <1>2, WithProfileKeeps

LEMMA ThumbTapKeeps ==
  ASSUME NEW l, NEW id, NEW tap, NEW a, SetThumbTap(l, id, tap, a) # Error
  PROVE  /\ DOMAIN SetThumbTap(l, id, tap, a).profiles = DOMAIN l.profiles
         /\ ValidateLayout(l) => ValidateLayout(SetThumbTap(l, id, tap, a))
  <1> DEFINE p == l.profiles[id]
             b == Rebind(p.taps, tap, a)
             q == Profile(p.name, p.maps, p.bindings, b)
  <1>1. id \in DOMAIN l.profiles /\ tap \in Taps /\ (a = None \/ Validate(a))
        /\ SetThumbTap(l, id, tap, a) = WithProfile(l, id, q)
    BY DEF SetThumbTap
  <1>2. ASSUME ValidateLayout(l) PROVE ValidProfile(q)
    <2>1. ValidProfile(p) BY <1>1, <1>2 DEF ValidateLayout
    <2>2. DOMAIN b \subseteq Taps /\ \A k \in DOMAIN b : Validate(b[k])
      <3> DEFINE f == p.taps
      <3>1. DOMAIN f \subseteq Taps /\ \A k \in DOMAIN f : Validate(f[k])
        BY <2>1 DEF ValidProfile
      <3> HIDE DEF f
      <3>2. /\ DOMAIN Rebind(f, tap, a) \subseteq Taps
            /\ \A k \in DOMAIN Rebind(f, tap, a) : Validate(Rebind(f, tap, a)[k])
        BY <1>1, <3>1, RebindKeeps
      <3> QED BY <3>2 DEF f
    <2> HIDE DEF p, b
    <2> QED BY <2>1, <2>2, ProfileIs DEF ValidProfile
  <1> HIDE DEF q
  <1> QED BY <1>1, <1>2, WithProfileKeeps

LEMMA ActivateKeeps ==
  ASSUME NEW l, NEW id, ActivateProfile(l, id) # Error
  PROVE  /\ DOMAIN ActivateProfile(l, id).profiles = DOMAIN l.profiles
         /\ ValidateLayout(l) => ValidateLayout(ActivateProfile(l, id))
  <1>1. id \in DOMAIN l.profiles /\ ActivateProfile(l, id) = [active |-> id, profiles |-> l.profiles]
    BY DEF ActivateProfile
  <1> QED BY <1>1 DEF ValidateLayout

LEMMA RenameKeeps ==
  ASSUME NEW l, NEW id, NEW name, RenameProfile(l, id, name) # Error
  PROVE  /\ DOMAIN RenameProfile(l, id, name).profiles = DOMAIN l.profiles
         /\ ValidateLayout(l) => ValidateLayout(RenameProfile(l, id, name))
  <1> DEFINE p == l.profiles[id]
             q == Profile(name, p.maps, p.bindings, p.taps)
  <1>1. id \in DOMAIN l.profiles /\ name # Blank /\ RenameProfile(l, id, name) = WithProfile(l, id, q)
    BY DEF RenameProfile
  <1>2. ASSUME ValidateLayout(l) PROVE ValidProfile(q)
    <2>1. ValidProfile(p) BY <1>1, <1>2 DEF ValidateLayout
    <2> HIDE DEF p
    <2> QED BY <1>1, <2>1, ProfileIs DEF ValidProfile
  <1> HIDE DEF q
  <1> QED BY <1>1, <1>2, WithProfileKeeps

LEMMA DuplicateKeeps ==
  ASSUME NEW l, NEW source, NEW name, name # Blank, DuplicateProfile(l, source, name) # Error,
         ValidateLayout(l)
  PROVE  ValidateLayout(DuplicateProfile(l, source, name))
  <1> DEFINE p == l.profiles[source]
             id == ProfileID(name)
             q == Profile(name, p.maps, p.bindings, p.taps)
             d == DuplicateProfile(l, source, name)
  <1>1. /\ id # Blank /\ source \in DOMAIN l.profiles
        /\ d = [active |-> id, profiles |-> Put(l.profiles, id, q)]
    BY DEF DuplicateProfile
  <1>2. ValidProfile(q)
    <2>1. ValidProfile(p) BY <1>1 DEF ValidateLayout
    <2> HIDE DEF p
    <2> QED BY <2>1, ProfileIs DEF ValidProfile
  <1>3. d.active = id /\ d.profiles = Put(l.profiles, id, q) BY <1>1
  <1> HIDE DEF q, id, d
  <1>4. /\ DOMAIN d.profiles = DOMAIN l.profiles \cup {id}
        /\ \A y \in DOMAIN l.profiles \cup {id} : d.profiles[y] = IF y = id THEN q ELSE l.profiles[y]
    BY <1>3 DEF Put
  <1>5. ValidateLayout(d) BY <1>1, <1>2, <1>3, <1>4 DEF ValidateLayout
  <1> QED BY <1>5 DEF d

LEMMA DeleteKeeps ==
  ASSUME NEW l, NEW id, DeleteProfile(l, id) # Error, ValidateLayout(l)
  PROVE  ValidateLayout(DeleteProfile(l, id))
  <1> DEFINE left == DOMAIN l.profiles \ {id}
             next == IF l.active = id THEN CHOOSE other \in left : TRUE ELSE l.active
             d == DeleteProfile(l, id)
  <1>1. /\ ~(Cardinality(DOMAIN l.profiles) <= 1) /\ id \in DOMAIN l.profiles
        /\ d = [active |-> next, profiles |-> Restrict(l.profiles, left)]
    BY DEF DeleteProfile
  <1>2. left # {}
    <2>1. ASSUME left = {} PROVE FALSE
      <3>1. DOMAIN l.profiles = {id} BY <1>1, <2>1
      <3>2. Cardinality({id}) = 1 BY FS_Singleton
      <3> QED BY <1>1, <3>1, <3>2
    <2> QED BY <2>1
  <1>3. next \in left
    <2>1. l.active \in DOMAIN l.profiles BY DEF ValidateLayout
    <2> HIDE DEF left
    <2>2. (CHOOSE other \in left : TRUE) \in left BY <1>2
    <2> QED BY <2>1, <2>2 DEF left
  <1>4. d.active = next /\ d.profiles = [y \in left |-> l.profiles[y]] BY <1>1 DEF Restrict
  <1> HIDE DEF d, next
  <1>5. ValidateLayout(d) BY <1>3, <1>4 DEF ValidateLayout
  <1> QED BY <1>5 DEF d

(* A mutation that succeeds gives a layout that the session accepts, so a  *)
(* click never fails because of what the mutations themselves do           *)
(* (config.go: SetBinding, SetThumbTap, ActivateProfile, RenameProfile,    *)
(* DuplicateProfile, DeleteProfile; session.go: mutate).                   *)
THEOREM MutationsKeepLayoutsValid ==
  ASSUME NEW l, ValidateLayout(l), NEW id, NEW key, NEW tap, NEW a, NEW name, name # Blank,
         NEW new \in {SetBinding(l, id, key, a), SetThumbTap(l, id, tap, a),
                      ActivateProfile(l, id), RenameProfile(l, id, name),
                      DuplicateProfile(l, id, name), DeleteProfile(l, id)},
         new # Error
  PROVE  ValidateLayout(new)
  <1>1. CASE new = SetBinding(l, id, key, a) BY <1>1, BindingKeeps
  <1>2. CASE new = SetThumbTap(l, id, tap, a) BY <1>2, ThumbTapKeeps
  <1>3. CASE new = ActivateProfile(l, id) BY <1>3, ActivateKeeps
  <1>4. CASE new = RenameProfile(l, id, name) BY <1>4, RenameKeeps
  <1>5. CASE new = DuplicateProfile(l, id, name) BY <1>5, DuplicateKeeps
  <1>6. CASE new = DeleteProfile(l, id) BY <1>6, DeleteKeeps
  <1> QED BY <1>1, <1>2, <1>3, <1>4, <1>5, <1>6

-----------------------------------------------------------------------------
(* What the mutations change, and what the keys type then.                 *)

\* What a map holds, as the resolver and the window ask for it.
At(f, x) == IF x \in DOMAIN f THEN f[x] ELSE None

\* Binding x to an action, or to none, is seen at x and nowhere else.
LEMMA RebindIs ==
  ASSUME NEW f, NEW x, NEW a
  PROVE  \A y : At(Rebind(f, x, a), y) = IF y = x THEN a ELSE At(f, y)
  <1>1. CASE a = None
    <2>1. Rebind(f, x, a) = [y \in DOMAIN f \ {x} |-> f[y]] BY <1>1 DEF Rebind, Restrict
    <2> QED BY <1>1, <2>1 DEF At
  <1>2. CASE a # None
    <2>1. Rebind(f, x, a) = [y \in DOMAIN f \cup {x} |-> IF y = x THEN a ELSE f[y]]
      BY <1>2 DEF Rebind, Put
    <2> QED BY <2>1 DEF At
  <1> QED BY <1>1, <1>2

\* What the profiles of a layout hold.
LEMMA LooksUp ==
  ASSUME NEW l, NEW id, NEW x
  PROVE  /\ GetBinding(l, id, x) =
              IF id \in DOMAIN l.profiles THEN At(l.profiles[id].bindings, x) ELSE None
         /\ GetThumbTap(l, id, x) =
              IF id \in DOMAIN l.profiles THEN At(l.profiles[id].taps, x) ELSE None
  BY DEF GetBinding, GetThumbTap, At

\* Another profile under an id is seen there and nowhere else.
LEMMA WithProfileIs ==
  ASSUME NEW l, NEW id \in DOMAIN l.profiles, NEW p
  PROVE  /\ WithProfile(l, id, p).active = l.active
         /\ DOMAIN WithProfile(l, id, p).profiles = DOMAIN l.profiles
         /\ \A i \in DOMAIN l.profiles :
               WithProfile(l, id, p).profiles[i] = IF i = id THEN p ELSE l.profiles[i]
  BY DEF WithProfile, Put

(* An assignment changes the key it is for, in the profile it is for, and  *)
(* no other key, tap or profile; to take a binding away does the same      *)
(* (config.go: SetBinding).                                                *)
THEOREM BindingIsExact ==
  ASSUME NEW l, NEW id, NEW key, NEW a, NEW new,
         new = SetBinding(l, id, key, a), new # Error
  PROVE  /\ \A i, k : GetBinding(new, i, k) =
                        IF i = id /\ k = key THEN a ELSE GetBinding(l, i, k)
         /\ \A i, t : GetThumbTap(new, i, t) = GetThumbTap(l, i, t)
         /\ new.active = l.active
  <1> DEFINE p == l.profiles[id]
             b == Rebind(p.bindings, key, a)
             m == p.maps \cup {<<key[1], key[2]>>}
             q == Profile(p.name, m, b, p.taps)
  <1>1. id \in DOMAIN l.profiles /\ new = WithProfile(l, id, q) BY DEF SetBinding
  <1>2. \A k : At(b, k) = IF k = key THEN a ELSE At(p.bindings, k) BY RebindIs
  <1> HIDE DEF b, m
  <1>3. q.bindings = b /\ q.taps = p.taps BY ProfileIs
  <1> HIDE DEF q
  <1>4. /\ new.active = l.active /\ DOMAIN new.profiles = DOMAIN l.profiles
        /\ \A i \in DOMAIN l.profiles : new.profiles[i] = IF i = id THEN q ELSE l.profiles[i]
    BY <1>1, WithProfileIs
  <1>5. ASSUME NEW i, NEW k
        PROVE  GetBinding(new, i, k) = IF i = id /\ k = key THEN a ELSE GetBinding(l, i, k)
    BY <1>1, <1>2, <1>3, <1>4, LooksUp
  <1>6. ASSUME NEW i, NEW t PROVE GetThumbTap(new, i, t) = GetThumbTap(l, i, t)
    BY <1>1, <1>3, <1>4, LooksUp
  <1> QED BY <1>4, <1>5, <1>6

(* So does the assignment of a tap of a thumb (config.go: SetThumbTap).    *)
THEOREM ThumbTapIsExact ==
  ASSUME NEW l, NEW id, NEW tap, NEW a, NEW new,
         new = SetThumbTap(l, id, tap, a), new # Error
  PROVE  /\ \A i, t : GetThumbTap(new, i, t) =
                        IF i = id /\ t = tap THEN a ELSE GetThumbTap(l, i, t)
         /\ \A i, k : GetBinding(new, i, k) = GetBinding(l, i, k)
         /\ new.active = l.active
  <1> DEFINE p == l.profiles[id]
             b == Rebind(p.taps, tap, a)
             q == Profile(p.name, p.maps, p.bindings, b)
  <1>1. id \in DOMAIN l.profiles /\ new = WithProfile(l, id, q) BY DEF SetThumbTap
  <1>2. \A t : At(b, t) = IF t = tap THEN a ELSE At(p.taps, t) BY RebindIs
  <1> HIDE DEF b
  <1>3. q.taps = b /\ q.bindings = p.bindings BY ProfileIs
  <1> HIDE DEF q
  <1>4. /\ new.active = l.active /\ DOMAIN new.profiles = DOMAIN l.profiles
        /\ \A i \in DOMAIN l.profiles : new.profiles[i] = IF i = id THEN q ELSE l.profiles[i]
    BY <1>1, WithProfileIs
  <1>5. ASSUME NEW i, NEW t
        PROVE  GetThumbTap(new, i, t) = IF i = id /\ t = tap THEN a ELSE GetThumbTap(l, i, t)
    BY <1>1, <1>2, <1>3, <1>4, LooksUp
  <1>6. ASSUME NEW i, NEW k PROVE GetBinding(new, i, k) = GetBinding(l, i, k)
    BY <1>1, <1>3, <1>4, LooksUp
  <1> QED BY <1>4, <1>5, <1>6

(* What the keys type changes only where the user means it: the resolver   *)
(* answers as the active profile does, a copy of it types the same, and    *)
(* so does the layout with another name, or without another profile        *)
(* (compiler.go: compileLayout; config.go: DuplicateProfile,               *)
(* RenameProfile, DeleteProfile).                                          *)
THEOREM TypesTheSame ==
  ASSUME NEW l, ValidateLayout(l), NEW id, NEW name
  PROVE  /\ \A x : /\ At(Compile(l).strokes, x) = GetBinding(l, l.active, x)
                   /\ At(Compile(l).taps, x) = GetThumbTap(l, l.active, x)
         /\ DuplicateProfile(l, l.active, name) # Error =>
               Compile(DuplicateProfile(l, l.active, name)) = Compile(l)
         /\ RenameProfile(l, id, name) # Error => Compile(RenameProfile(l, id, name)) = Compile(l)
         /\ id # l.active /\ DeleteProfile(l, id) # Error =>
               Compile(DeleteProfile(l, id)) = Compile(l)
  <1>1. l.active \in DOMAIN l.profiles BY DEF ValidateLayout
  <1>2. \A x : /\ At(Compile(l).strokes, x) = GetBinding(l, l.active, x)
               /\ At(Compile(l).taps, x) = GetThumbTap(l, l.active, x)
    BY <1>1, LooksUp DEF Compile
  <1>3. ASSUME DuplicateProfile(l, l.active, name) # Error
        PROVE  Compile(DuplicateProfile(l, l.active, name)) = Compile(l)
    <2> DEFINE new == ProfileID(name)
               p == l.profiles[l.active]
               q == Profile(name, p.maps, p.bindings, p.taps)
               d == DuplicateProfile(l, l.active, name)
    <2>1. d = [active |-> new, profiles |-> Put(l.profiles, new, q)]
      BY <1>3 DEF DuplicateProfile
    <2>2. q.bindings = p.bindings /\ q.taps = p.taps BY ProfileIs
    <2> HIDE DEF q, new
    <2>3. d.active = new /\ d.profiles[d.active] = q BY <2>1 DEF Put
    <2> HIDE DEF d
    <2>4. Compile(d) = Compile(l) BY <2>2, <2>3 DEF Compile
    <2> QED BY <2>4 DEF d
  <1>4. ASSUME RenameProfile(l, id, name) # Error
        PROVE  Compile(RenameProfile(l, id, name)) = Compile(l)
    <2> DEFINE p == l.profiles[id]
               q == Profile(name, p.maps, p.bindings, p.taps)
               r == RenameProfile(l, id, name)
    <2>1. id \in DOMAIN l.profiles /\ r = WithProfile(l, id, q) BY <1>4 DEF RenameProfile
    <2>2. q.bindings = p.bindings /\ q.taps = p.taps BY ProfileIs
    <2> HIDE DEF q, r
    <2>3. r.active = l.active /\ r.profiles[l.active] = IF l.active = id THEN q ELSE l.profiles[l.active]
      BY <1>1, <2>1, WithProfileIs
    <2>4. Compile(r) = Compile(l) BY <2>2, <2>3 DEF Compile
    <2> QED BY <2>4 DEF r
  <1>5. ASSUME id # l.active, DeleteProfile(l, id) # Error
        PROVE  Compile(DeleteProfile(l, id)) = Compile(l)
    <2> DEFINE left == DOMAIN l.profiles \ {id}
               d == DeleteProfile(l, id)
    <2>1. d = [active |-> l.active, profiles |-> Restrict(l.profiles, left)]
      BY <1>5 DEF DeleteProfile
    <2>2. l.active \in left BY <1>1, <1>5
    <2> HIDE DEF left
    <2>3. d.active = l.active /\ d.profiles[l.active] = l.profiles[l.active]
      BY <2>1, <2>2 DEF Restrict
    <2> HIDE DEF d
    <2>4. Compile(d) = Compile(l) BY <2>3 DEF Compile
    <2> QED BY <2>4 DEF d
  <1> QED BY <1>2, <1>3, <1>4, <1>5

-----------------------------------------------------------------------------
(* What the session accepts as a draft is a valid layout.                  *)
SessionValidates == \A l : IsDraft(l) => ValidateLayout(l)

\* The profile and the key on the screen, of the draft that is shown.
SelectionOK ==
    /\ selectedProfile \in DOMAIN draft.profiles
    /\ selectedKey \in Keys /\ selectedThumb \in Taps \cup {"", "language"}
    /\ dangerousTestArmed \in BOOLEAN

ConfiguratorInv ==
    /\ HistoryInv
    /\ clipboard = None \/ Validate(clipboard)
    /\ edits \in 0..MaxEdits
    /\ SelectionOK
    /\ file = Error \/ ValidateLayout(file)
    /\ written \in BOOLEAN
    /\ TypesWhatIsShown /\ DirtyMeansUnsaved /\ WarnedOfThisKey /\ ImportWarns

-----------------------------------------------------------------------------
(* What a step does, part by part of the state.                            *)

\* The session makes one of its own steps, or rests.
LEMMA StepOfSession ==
  ASSUME [Next]_vars
  PROVE  [SessionNext]_sessionVars
  <1>1. ASSUME NEW layout, Change(layout) PROVE SessionNext BY <1>1 DEF Change, SessionNext
  <1>2. CASE Assign \/ ClearBinding \/ ResetBinding \/ PasteBinding
    BY <1>1, <1>2 DEF Assign, ClearBinding, ResetBinding, PasteBinding
  <1>3. CASE RenameSelected \/ DuplicateSelected \/ ActivateSelected \/ DeleteSelected \/ ConfirmImport
    BY <1>1, <1>3 DEF RenameSelected, DuplicateSelected, ActivateSelected, DeleteSelected, ConfirmImport
  <1>4. CASE StepThroughHistory \/ RevertAll \/ Save
    BY <1>4 DEF StepThroughHistory, RevertAll, Save, SessionNext
  <1>5. CASE CopyBinding \/ SaveFails \/ PrepareImport \/ CancelImport
    BY <1>5 DEF CopyBinding, SaveFails, PrepareImport, CancelImport
  <1>6. CASE Select \/ ChoosePreset \/ TestAction
    BY <1>6 DEF Select, ChoosePreset, TestAction
  <1>7. CASE UNCHANGED vars BY <1>7 DEF vars
  <1> QED BY <1>2, <1>3, <1>4, <1>5, <1>6, <1>7 DEF Next

\* The drafts before and after a step were accepted by the session.
LEMMA DraftsAreValid ==
  ASSUME SessionValidates, HistoryInv, [Next]_vars
  PROVE  /\ HistoryInv'
         /\ ValidateLayout(draft) /\ ValidateLayout(draft')
  <1>1. PICK Layouts : /\ \A l \in Layouts : IsDraft(l)
                       /\ SessionInv(Layouts) /\ SessionInv(Layouts)'
    BY StepOfSession, LayoutsOfStep
  <1>2. HistoryInv' BY <1>1 DEF HistoryInv
  <1>3. draft \in Layouts /\ draft' \in Layouts BY <1>1 DEF SessionInv
  <1> QED BY <1>1, <1>2, <1>3 DEF SessionValidates

\* What is shown and typed with follows the draft, or nothing of it changes.
ShownStep ==
    \/ ApplyLive /\ baseline' = baseline /\ UNCHANGED fileVars
    \/ SaveFails
    \/ Save
    \/ UNCHANGED <<sessionVars, shownVars, fileVars>>

LEMMA StepOfShown ==
  ASSUME [Next]_vars
  PROVE  ShownStep
  <1>1. ASSUME NEW layout, Change(layout) PROVE ApplyLive /\ baseline' = baseline
    BY <1>1 DEF Change, Mutate
  <1>2. CASE Assign \/ ClearBinding \/ ResetBinding \/ PasteBinding
    BY <1>1, <1>2 DEF Assign, ClearBinding, ResetBinding, PasteBinding, ShownStep
  <1>3. CASE RenameSelected \/ DuplicateSelected \/ ActivateSelected \/ DeleteSelected \/ ConfirmImport
    BY <1>1, <1>3 DEF RenameSelected, DuplicateSelected, ActivateSelected, DeleteSelected,
                      ConfirmImport, ShownStep
  <1>4. CASE StepThroughHistory \/ RevertAll
    BY <1>4 DEF StepThroughHistory, RevertAll, Undo, Redo, Revert, ShownStep
  <1>5. CASE Save \/ SaveFails BY <1>5 DEF ShownStep
  <1>6. CASE CopyBinding \/ PrepareImport \/ CancelImport
    BY <1>6 DEF CopyBinding, PrepareImport, CancelImport, ShownStep
  <1>7. CASE Select \/ ChoosePreset \/ TestAction
    BY <1>7 DEF Select, ChoosePreset, TestAction, ShownStep
  <1>8. CASE UNCHANGED vars BY <1>8 DEF vars, ShownStep
  <1> QED BY <1>2, <1>3, <1>4, <1>5, <1>6, <1>7, <1>8 DEF Next

\* The window and the keys follow the draft.
LEMMA ShownIsTyped ==
  ASSUME TypesWhatIsShown, DirtyMeansUnsaved, [Next]_vars
  PROVE  TypesWhatIsShown' /\ DirtyMeansUnsaved'
  <1> USE DEF TypesWhatIsShown, DirtyMeansUnsaved
  <1>0. ShownStep BY StepOfShown
  <1>1. CASE ApplyLive /\ baseline' = baseline /\ UNCHANGED fileVars BY <1>1 DEF ApplyLive, fileVars
  <1>2. CASE SaveFails BY <1>2 DEF SaveFails, sessionVars, fileVars
  <1>3. CASE Save BY <1>3 DEF Save, Commit
  <1>4. CASE UNCHANGED <<sessionVars, shownVars, fileVars>> BY <1>4 DEF sessionVars, shownVars, fileVars
  <1> QED BY <1>0, <1>1, <1>2, <1>3, <1>4 DEF ShownStep

-----------------------------------------------------------------------------
\* The selection is loaded anew from the new draft, which takes the warning
\* back; or the profiles are the same ones and what is selected stays, with a
\* warning for it; or the fixed thumb is shown.
SelectionStep ==
    \/ \E id, key, thumb :
        /\ key \in Keys /\ thumb \in Taps \cup {"", "language"}
        /\ LoadSelection(draft', id, key, thumb)
    \/ /\ DOMAIN draft'.profiles = DOMAIN draft.profiles
       /\ UNCHANGED Selection
       /\ \/ UNCHANGED <<dangerousTestArmed, warned>>
          \/ dangerousTestArmed' = FALSE
          \/ dangerousTestArmed' = TRUE /\ warned' = Selection
    \/ SelectLanguageThumb /\ UNCHANGED draft

\* Binding what is selected keeps the profiles.
LEMMA ReboundKeeps ==
  ASSUME NEW a, Rebound(a) # Error
  PROVE  DOMAIN Rebound(a).profiles = DOMAIN draft.profiles
  <1>1. CASE selectedThumb # "" BY <1>1, ThumbTapKeeps DEF Rebound
  <1>2. CASE selectedThumb = "" BY <1>2, BindingKeeps DEF Rebound
  <1> QED BY <1>1, <1>2

\* A change of the draft that keeps the profiles, the selection at rest.
LEMMA ChangeInPlace ==
  ASSUME NEW layout, Change(layout), UNCHANGED selectionVars,
         layout # Error => DOMAIN layout.profiles = DOMAIN draft.profiles
  PROVE  SelectionStep
  <1>1. draft' = layout /\ layout # Error BY DEF Change, Mutate
  <1> QED BY <1>1 DEF SelectionStep, selectionVars, Selection

\* A step that leaves the draft and the selection.
LEMMA SelectionRests ==
  ASSUME UNCHANGED draft, UNCHANGED selectionVars
  PROVE  SelectionStep
  BY DEF SelectionStep, selectionVars, Selection

\* Choosing another profile, key or thumb.
LEMMA StepOfSelect ==
  ASSUME SelectionOK, TypesWhatIsShown, Select
  PROVE  SelectionStep
  <1> USE DEF SelectionOK
  <1>1. draft' = draft /\ layoutDraft = draft BY DEF Select, sessionVars, TypesWhatIsShown
  <1>2. CASE SelectProfile BY <1>1, <1>2 DEF SelectProfile, SelectionStep
  <1>3. CASE SelectKey BY <1>1, <1>3 DEF SelectKey, SelectionStep
  <1>4. CASE SelectThumb BY <1>1, <1>4 DEF SelectThumb, SelectionStep
  <1>5. CASE SelectLanguageThumb BY <1>1, <1>5 DEF SelectionStep
  <1>6. CASE SelectCaptured
    <2>1. PICK button \in Buttons :
            LoadSelection(draft, selectedProfile, <<selectedKey[1], selectedKey[2], button>>, "")
      BY <1>6 DEF SelectCaptured
    <2>2. <<selectedKey[1], selectedKey[2], button>> \in Keys BY DEF Keys
    <2> QED BY <1>1, <2>1, <2>2 DEF SelectionStep
  <1> QED BY <1>2, <1>3, <1>4, <1>5, <1>6 DEF Select

LEMMA StepOfSelection ==
  ASSUME SelectionOK, TypesWhatIsShown, [Next]_vars
  PROVE  SelectionStep
  <1>1. CASE Assign
    <2>1. PICK a : Change(Rebound(a)) /\ UNCHANGED selectionVars BY <1>1 DEF Assign
    <2> QED BY <2>1, ChangeInPlace, ReboundKeeps
  <1>2. CASE ClearBinding
    <2>1. Change(Rebound(None)) /\ UNCHANGED selectionVars BY <1>2 DEF ClearBinding
    <2> QED BY <2>1, ChangeInPlace, ReboundKeeps
  <1>3. CASE RenameSelected
    <2>1. PICK name : Change(RenameProfile(draft, selectedProfile, name)) /\ UNCHANGED selectionVars
      BY <1>3 DEF RenameSelected
    <2> QED BY <2>1, ChangeInPlace, RenameKeeps
  <1>4. CASE ActivateSelected
    <2>1. Change(ActivateProfile(draft, selectedProfile)) /\ UNCHANGED selectionVars
      BY <1>4 DEF ActivateSelected
    <2> QED BY <2>1, ChangeInPlace, ActivateKeeps
  <1>5. CASE ResetBinding \/ PasteBinding \/ DuplicateSelected \/ DeleteSelected
             \/ StepThroughHistory \/ RevertAll
    BY <1>5 DEF ResetBinding, PasteBinding, DuplicateSelected, DeleteSelected,
                StepThroughHistory, RevertAll, SelectionOK, SelectionStep
  <1>6. CASE ConfirmImport
    <2>1. PICK key \in Keys : LoadSelection(draft', draft'.active, key, "") BY <1>6 DEF ConfirmImport
    <2> QED BY <2>1 DEF SelectionStep
  <1>7. CASE Save \/ SaveFails
    BY <1>7, SelectionRests DEF Save, Commit, SaveFails, sessionVars
  <1>8. CASE CopyBinding \/ PrepareImport \/ CancelImport
    BY <1>8, SelectionRests DEF CopyBinding, PrepareImport, CancelImport, sessionVars
  <1>9. CASE Select BY <1>9, StepOfSelect
  <1>10. CASE ChoosePreset
    BY <1>10 DEF ChoosePreset, SelectionStep, Selection, sessionVars
  <1>11. CASE TestAction
    BY <1>11 DEF TestAction, SelectionStep, Selection, sessionVars
  <1>12. CASE UNCHANGED vars BY <1>12, SelectionRests DEF vars, sessionVars
  <1> QED
    BY <1>1, <1>2, <1>3, <1>4, <1>5, <1>6, <1>7, <1>8, <1>9, <1>10, <1>11, <1>12 DEF Next

\* What is selected exists, and a warning is for what is selected.
LEMMA SelectionIsWarned ==
  ASSUME SelectionOK, WarnedOfThisKey, TypesWhatIsShown, ValidateLayout(draft'), [Next]_vars
  PROVE  SelectionOK' /\ WarnedOfThisKey'
  <1> USE DEF SelectionOK, WarnedOfThisKey, Selection
  <1>0. SelectionStep BY StepOfSelection
  <1>1. ASSUME NEW id, NEW key \in Keys, NEW thumb \in Taps \cup {"", "language"},
               LoadSelection(draft', id, key, thumb)
        PROVE  SelectionOK' /\ WarnedOfThisKey'
    <2>1. draft'.active \in DOMAIN draft'.profiles BY DEF ValidateLayout
    <2> QED BY <1>1, <2>1 DEF LoadSelection
  <1>2. ASSUME DOMAIN draft'.profiles = DOMAIN draft.profiles, UNCHANGED Selection
        PROVE  /\ selectedProfile' \in DOMAIN draft'.profiles
               /\ selectedKey' \in Keys /\ selectedThumb' \in Taps \cup {"", "language"}
    BY <1>2
  <1>3. ASSUME UNCHANGED Selection, UNCHANGED <<dangerousTestArmed, warned>>
        PROVE  WarnedOfThisKey' /\ dangerousTestArmed' \in BOOLEAN
    BY <1>3
  <1>4. ASSUME UNCHANGED Selection, dangerousTestArmed' = FALSE
        PROVE  WarnedOfThisKey' /\ dangerousTestArmed' \in BOOLEAN
    BY <1>4
  <1>5. ASSUME UNCHANGED Selection, dangerousTestArmed' = TRUE, warned' = Selection
        PROVE  WarnedOfThisKey' /\ dangerousTestArmed' \in BOOLEAN
    BY <1>5
  <1>6. CASE SelectLanguageThumb /\ UNCHANGED draft BY <1>6 DEF SelectLanguageThumb
  <1> QED BY <1>0, <1>1, <1>2, <1>3, <1>4, <1>5, <1>6 DEF SelectionStep

-----------------------------------------------------------------------------
(* The import, the clipboard and the bound.                                *)

LEMMA ImportIsAnnounced ==
  ASSUME ImportWarns, [Next]_vars
  PROVE  ImportWarns'
  <1>1. CASE PrepareImport BY <1>1 DEF PrepareImport, PreviewImport, ImportWarns
  <1>2. CASE ConfirmImport \/ CancelImport BY <1>2 DEF ConfirmImport, CancelImport, ImportWarns
  <1>3. ASSUME UNCHANGED importVars PROVE ImportWarns' BY <1>3 DEF importVars, ImportWarns
  <1>4. CASE Assign \/ ClearBinding \/ ResetBinding \/ CopyBinding \/ PasteBinding
    BY <1>3, <1>4 DEF Assign, ClearBinding, ResetBinding, CopyBinding, PasteBinding, importVars
  <1>5. CASE RenameSelected \/ DuplicateSelected \/ ActivateSelected \/ DeleteSelected
    BY <1>3, <1>5 DEF RenameSelected, DuplicateSelected, ActivateSelected, DeleteSelected, importVars
  <1>6. CASE StepThroughHistory \/ RevertAll \/ SaveFails \/ Save
    BY <1>3, <1>6 DEF StepThroughHistory, RevertAll, SaveFails, Save, importVars
  <1>7. CASE Select \/ ChoosePreset \/ TestAction
    BY <1>3, <1>7 DEF Select, ChoosePreset, TestAction, importVars
  <1>8. CASE UNCHANGED vars BY <1>3, <1>8 DEF vars, importVars
  <1> QED BY <1>1, <1>2, <1>4, <1>5, <1>6, <1>7, <1>8 DEF Next

\* What is bound in a valid layout is a valid action.
LEMMA BindingIsValid ==
  ASSUME NEW l, NEW id, NEW key, ValidateLayout(l)
  PROVE  GetBinding(l, id, key) = None \/ Validate(GetBinding(l, id, key))
  BY DEF GetBinding, ValidateLayout, ValidProfile

LEMMA ClipboardIsValid ==
  ASSUME ValidateLayout(draft), clipboard = None \/ Validate(clipboard), [Next]_vars
  PROVE  clipboard' = None \/ Validate(clipboard')
  <1>1. CASE CopyBinding BY <1>1, BindingIsValid DEF CopyBinding
  <1>2. CASE UNCHANGED clipboard BY <1>2
  <1>3. CASE Assign \/ ClearBinding \/ ResetBinding \/ PasteBinding
    BY <1>2, <1>3 DEF Assign, ClearBinding, ResetBinding, PasteBinding
  <1>4. CASE RenameSelected \/ DuplicateSelected \/ ActivateSelected \/ DeleteSelected
    BY <1>2, <1>4 DEF RenameSelected, DuplicateSelected, ActivateSelected, DeleteSelected
  <1>5. CASE StepThroughHistory \/ RevertAll \/ SaveFails \/ Save
    BY <1>2, <1>5 DEF StepThroughHistory, RevertAll, SaveFails, Save
  <1>6. CASE PrepareImport \/ ConfirmImport \/ CancelImport
    BY <1>2, <1>6 DEF PrepareImport, ConfirmImport, CancelImport
  <1>7. CASE Select \/ ChoosePreset \/ TestAction
    BY <1>2, <1>7 DEF Select, ChoosePreset, TestAction
  <1>8. CASE UNCHANGED vars BY <1>2, <1>8 DEF vars
  <1> QED BY <1>1, <1>3, <1>4, <1>5, <1>6, <1>7, <1>8 DEF Next

LEMMA EditsAreBounded ==
  ASSUME edits \in 0..MaxEdits, [Next]_vars
  PROVE  edits' \in 0..MaxEdits
  <1> USE MaxEditsAssumption
  <1>1. ASSUME NEW layout, Change(layout) PROVE edits' \in 0..MaxEdits BY <1>1 DEF Change
  <1>2. CASE UNCHANGED edits BY <1>2
  <1>3. CASE Assign \/ ClearBinding \/ ResetBinding \/ PasteBinding
    BY <1>1, <1>3 DEF Assign, ClearBinding, ResetBinding, PasteBinding
  <1>4. CASE RenameSelected \/ DuplicateSelected \/ ActivateSelected \/ DeleteSelected \/ ConfirmImport
    BY <1>1, <1>4 DEF RenameSelected, DuplicateSelected, ActivateSelected, DeleteSelected, ConfirmImport
  <1>5. CASE StepThroughHistory \/ RevertAll \/ SaveFails \/ Save
    BY <1>2, <1>5 DEF StepThroughHistory, RevertAll, SaveFails, Save
  <1>6. CASE CopyBinding \/ PrepareImport \/ CancelImport
    BY <1>2, <1>6 DEF CopyBinding, PrepareImport, CancelImport
  <1>7. CASE Select \/ ChoosePreset \/ TestAction
    BY <1>2, <1>7 DEF Select, ChoosePreset, TestAction
  <1>8. CASE UNCHANGED vars BY <1>2, <1>8 DEF vars
  <1> QED BY <1>3, <1>4, <1>5, <1>6, <1>7, <1>8 DEF Next

-----------------------------------------------------------------------------
(* The invariant.                                                          *)

LEMMA ConfiguratorInit ==
  ASSUME SessionValidates, Init
  PROVE  ConfiguratorInv
  <1>1. PICK layout :
          /\ SessionInit(layout)
          /\ clipboard = None
          /\ layoutDraft = layout /\ running = Compile(layout) /\ dirty = FALSE
          /\ file \in FileAfterStart(layout) /\ written = (file = layout)
          /\ selectedProfile = layout.active /\ selectedThumb = "" /\ selectedKey \in Keys
          /\ dangerousTestArmed = FALSE
          /\ pendingImport = None
          /\ edits = 0
    BY DEF Init
  <1>2. HistoryInv BY <1>1, HistoryInvInit
  <1>3. draft = layout /\ baseline = layout /\ ValidateLayout(layout)
    BY <1>1 DEF SessionInit, SessionValidates
  <1>4. SelectionOK BY <1>1, <1>3 DEF SelectionOK, ValidateLayout
  <1>5. edits \in 0..MaxEdits
    <2>1. edits = 0 BY <1>1
    <2> QED BY <2>1, MaxEditsAssumption
  <1>6. TypesWhatIsShown BY <1>1, <1>3 DEF TypesWhatIsShown
  <1>7. DirtyMeansUnsaved BY <1>1, <1>3 DEF DirtyMeansUnsaved, FileAfterStart
  <1>8. WarnedOfThisKey /\ ImportWarns BY <1>1 DEF WarnedOfThisKey, ImportWarns
  <1>9. (file = Error \/ ValidateLayout(file)) /\ written \in BOOLEAN
    BY <1>1, <1>3 DEF FileAfterStart, SessionValidates
  <1> QED BY <1>1, <1>2, <1>4, <1>5, <1>6, <1>7, <1>8, <1>9 DEF ConfiguratorInv

LEMMA ConfiguratorStep ==
  ASSUME SessionValidates, ConfiguratorInv, [Next]_vars
  PROVE  ConfiguratorInv'
  <1>0. /\ HistoryInv /\ SelectionOK /\ edits \in 0..MaxEdits
        /\ clipboard = None \/ Validate(clipboard)
        /\ TypesWhatIsShown /\ DirtyMeansUnsaved /\ WarnedOfThisKey /\ ImportWarns
    BY DEF ConfiguratorInv
  <1>1. HistoryInv' /\ ValidateLayout(draft) /\ ValidateLayout(draft') BY <1>0, DraftsAreValid
  <1>2. TypesWhatIsShown' /\ DirtyMeansUnsaved' BY <1>0, ShownIsTyped
  <1>3. SelectionOK' /\ WarnedOfThisKey' BY <1>0, <1>1, SelectionIsWarned
  <1>4. ImportWarns' BY <1>0, ImportIsAnnounced
  <1>5. clipboard' = None \/ Validate(clipboard') BY <1>0, <1>1, ClipboardIsValid
  <1>6. edits' \in 0..MaxEdits BY <1>0, EditsAreBounded
  <1>7. (file' = Error \/ ValidateLayout(file')) /\ written' \in BOOLEAN
    <2>1. UNCHANGED fileVars \/ (file' = draft /\ written' = TRUE)
      BY StepOfShown DEF ShownStep, SaveFails, Save
    <2>2. (file = Error \/ ValidateLayout(file)) /\ written \in BOOLEAN BY DEF ConfiguratorInv
    <2> QED BY <1>1, <2>1, <2>2 DEF fileVars
  <1> QED BY <1>1, <1>2, <1>3, <1>4, <1>5, <1>6, <1>7 DEF ConfiguratorInv

(* The invariant holds of every behaviour.                                 *)
THEOREM ConfiguratorInvariant ==
  ASSUME SessionValidates
  PROVE  Spec => []ConfiguratorInv
  <1>1. Init => ConfiguratorInv BY ConfiguratorInit
  <1>2. ConfiguratorInv /\ [Next]_vars => ConfiguratorInv' BY ConfiguratorStep
  <1> QED BY <1>1, <1>2, PTL DEF Spec

LEMMA TypeFollows ==
  ASSUME SessionValidates, ConfiguratorInv
  PROVE  TypeOK
  <1>1. PICK Layouts : (\A l \in Layouts : IsDraft(l)) /\ SessionInv(Layouts)
    BY DEF ConfiguratorInv, HistoryInv
  <1>2. /\ ValidateLayout(draft) /\ ValidateLayout(baseline)
        /\ Len(undo) + Len(redo) <= HistoryLimit
    BY <1>1 DEF SessionInv, SessionValidates
  <1>3. layoutDraft = draft BY DEF ConfiguratorInv, TypesWhatIsShown
  <1> QED BY <1>2, <1>3 DEF ConfiguratorInv, SelectionOK, TypeOK

-----------------------------------------------------------------------------
(* Every layout of the window is valid, the profile on the screen exists   *)
(* and the history is within its limit (configurator.go, session.go).      *)
THEOREM ConfiguratorTypeCorrect ==
  ASSUME SessionValidates
  PROVE  Spec => []TypeOK
  <1>1. ConfiguratorInv => TypeOK BY TypeFollows
  <1> QED BY <1>1, ConfiguratorInvariant, PTL

(* The window shows the draft and the keys type what it says, after every  *)
(* edit, undo, import and save, failed or not (applyEditorLive,            *)
(* saveEditorLayout).                                                      *)
THEOREM TypesWhatIsShownAlways ==
  ASSUME SessionValidates
  PROVE  Spec => []TypesWhatIsShown
  <1>1. ConfiguratorInv => TypesWhatIsShown BY DEF ConfiguratorInv
  <1> QED BY <1>1, ConfiguratorInvariant, PTL

(* The mark of unsaved changes is shown exactly when the file holds        *)
(* another layout than the draft, or, after a start that could not save    *)
(* the default layout and until the first save, when the draft is not that *)
(* layout (syncDraftFromEditor, saveEditorLayout, run of main.go).         *)
THEOREM DirtyMeansUnsavedAlways ==
  ASSUME SessionValidates
  PROVE  Spec => []DirtyMeansUnsaved
  <1>1. ConfiguratorInv => DirtyMeansUnsaved BY DEF ConfiguratorInv
  <1> QED BY <1>1, ConfiguratorInvariant, PTL

(* A command is run by a test only after a warning about what is selected  *)
(* (loadSelection, the test button).                                       *)
THEOREM WarnedOfThisKeyAlways ==
  ASSUME SessionValidates
  PROVE  Spec => []WarnedOfThisKey
  <1>1. ConfiguratorInv => WarnedOfThisKey BY DEF ConfiguratorInv
  <1> QED BY <1>1, ConfiguratorInvariant, PTL

(* An import that brings commands or macros was announced with a warning   *)
(* (prepareLayoutImport).                                                  *)
THEOREM ImportWarnsAlways == Spec => []ImportWarns
  <1>1. Init => ImportWarns BY DEF Init, ImportWarns
  <1>2. ImportWarns /\ [Next]_vars => ImportWarns' BY ImportIsAnnounced
  <1> QED BY <1>1, <1>2, PTL DEF Spec

(* Whatever the user clicks, the undo and redo of the window are one       *)
(* timeline with a cursor (configurator_editing.go on session.go).         *)
THEOREM WindowIsOneTimeline == Spec => OneTimeline
  <1>1. Init => \E layout : SessionInit(layout) BY DEF Init
  <1>2. [Next]_vars => [SessionNext]_sessionVars BY StepOfSession
  <1>3. Spec => SessionSpec BY <1>1, <1>2, PTL DEF Spec, SessionSpec
  <1> QED BY <1>3, SessionIsOneTimeline

(* Whatever the user does, every action in the draft comes back from the   *)
(* layout file as it is, at every depth of macros, unless a name in it     *)
(* reads as another shortcut (action.go: MarshalJSON, UnmarshalJSON).      *)
THEOREM ReadsBackAsWrittenAlways == Spec => []ReadsBackAsWritten
  <1>1. ReadsBackAsWritten BY PlainReadsBack DEF ReadsBackAsWritten
  <1> QED BY <1>1, PTL
=============================================================================
