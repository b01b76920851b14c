---------------------------- MODULE LayoutSession ----------------------------
(***************************************************************************)
(* layoutedit.Session: the draft of a layout, the baseline it was loaded   *)
(* or saved as, and two bounded stacks for undo and redo.  A layout is a   *)
(* value here; module LayoutModel says what one is and what the mutations  *)
(* make of it.                                                             *)
(***************************************************************************)
EXTENDS Integers, Sequences

CONSTANTS
    HistoryLimit,  \* defaultHistoryLimit
    IsDraft(_)     \* textinput.ValidateLayout accepts the layout

ASSUME HistoryLimitAssumption == HistoryLimit \in Nat \ {0}

VARIABLES baseline, draft, undo, redo

sessionVars == <<baseline, draft, undo, redo>>

\* Mutant: the history forgets its newest entry.
AppendBoundedForgetsNewest(history, value) ==
    LET grown == Append(history, value)
    IN  IF Len(grown) > HistoryLimit THEN SubSeq(grown, 1, HistoryLimit) ELSE grown

AppendBounded(history, value) ==
    LET grown == Append(history, value)
    IN  IF Len(grown) > HistoryLimit
        THEN SubSeq(grown, Len(grown) - HistoryLimit + 1, Len(grown))
        ELSE grown

SessionInit(layout) ==
    /\ IsDraft(layout)
    /\ baseline = layout /\ draft = layout
    /\ undo = <<>> /\ redo = <<>>

\* A mutation that gives the same layout leaves the history alone.
Mutate(layout) ==
    /\ IsDraft(layout)
    /\ draft' = layout
    /\ undo' = IF layout = draft THEN undo ELSE AppendBounded(undo, draft)
    /\ redo' = IF layout = draft THEN redo ELSE <<>>
    /\ baseline' = baseline

Undo ==
    /\ undo # <<>>
    /\ draft' = undo[Len(undo)]
    /\ undo' = SubSeq(undo, 1, Len(undo) - 1)
    /\ redo' = AppendBounded(redo, draft)
    /\ baseline' = baseline

Redo ==
    /\ redo # <<>>
    /\ draft' = redo[Len(redo)]
    /\ redo' = SubSeq(redo, 1, Len(redo) - 1)
    /\ undo' = AppendBounded(undo, draft)
    /\ baseline' = baseline

Commit == baseline' = draft /\ undo' = <<>> /\ redo' = <<>> /\ draft' = draft

Revert == draft' = baseline /\ undo' = <<>> /\ redo' = <<>> /\ baseline' = baseline

Dirty == baseline # draft

SessionNext == (\E layout : Mutate(layout)) \/ Undo \/ Redo \/ Commit \/ Revert

SessionSpec == (\E layout : SessionInit(layout)) /\ [][SessionNext]_sessionVars

-----------------------------------------------------------------------------

\* The drafts from the oldest that can be undone to the newest that can be
\* redone.
Drafts ==
    [i \in 1..(Len(undo) + 1 + Len(redo)) |->
        IF i <= Len(undo) THEN undo[i]
        ELSE IF i = Len(undo) + 1 THEN draft
        ELSE redo[Len(undo) + Len(redo) + 2 - i]]

Timeline == INSTANCE LayoutTimeline
    WITH timeline <- Drafts, cursor <- Len(undo) + 1, saved <- baseline

(* The two stacks behave as one timeline with a cursor: undo and redo move *)
(* over the same drafts, lose none and invent none, an edit forgets the    *)
(* undone drafts and the one beyond the limit, and nothing but a save      *)
(* changes what counts as saved (session.go: mutate, Undo, Redo, Commit,   *)
(* Revert; what a failed save must keep: configurator_editing.go:61).      *)
OneTimeline == Timeline!Spec

=============================================================================
