--------------------------- MODULE LayoutTimeline ---------------------------
(***************************************************************************)
(* What the editing of a layout promises, without undo and redo stacks:    *)
(* one timeline of the drafts made since the last save, a cursor on the    *)
(* draft in force, and the layout that was saved.  An edit replaces the    *)
(* future of the cursor and forgets the drafts beyond the history limit;   *)
(* undo and redo only move the cursor.                                     *)
(***************************************************************************)
EXTENDS Integers, Sequences

CONSTANTS
    HistoryLimit,  \* drafts an undo can go back over
    IsDraft(_)     \* the layouts that may be edited

VARIABLES timeline, cursor, saved

vars == <<timeline, cursor, saved>>

Current == timeline[cursor]

Init ==
    /\ IsDraft(saved)
    /\ timeline = <<saved>>
    /\ cursor = 1

\* The past of the cursor is kept, up to the limit, and the new draft is put
\* after it.
Edit ==
    \E forgotten \in 0..1 :
        /\ forgotten = IF cursor > HistoryLimit THEN 1 ELSE 0
        /\ Len(timeline') = cursor + 1 - forgotten
        /\ \A i \in 1..(cursor - forgotten) : timeline'[i] = timeline[i + forgotten]
        /\ cursor' = Len(timeline')
        /\ IsDraft(timeline'[cursor'])
        /\ timeline'[cursor'] # Current
        /\ saved' = saved

Undo == cursor > 1 /\ cursor' = cursor - 1 /\ UNCHANGED <<timeline, saved>>

Redo == cursor < Len(timeline) /\ cursor' = cursor + 1 /\ UNCHANGED <<timeline, saved>>

Save == saved' = Current /\ timeline' = <<Current>> /\ cursor' = 1

Revert == timeline' = <<saved>> /\ cursor' = 1 /\ saved' = saved

Next == Edit \/ Undo \/ Redo \/ Save \/ Revert

Spec == Init /\ [][Next]_vars
=============================================================================
