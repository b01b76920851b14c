------------------------------- MODULE Typist -------------------------------
(***************************************************************************)
(* What handler.Handler promises those who hand it actions: one typist.    *)
(* It types one action at a time and begins the next one only when no key  *)
(* is left down.  Real-time actions are typed in the order they came in,   *)
(* and so are the steps of macros.  A waiting real-time action goes first, *)
(* save that a step it may pass once, and is next then: no two steps are   *)
(* typed while it waits, and no step is passed twice.                      *)
(*                                                                         *)
(* A key whose release the system refused is no longer the typist's.       *)
(***************************************************************************)
EXTENDS SequencesExt

CONSTANTS
    None,
    KeysOf(_)   \* the keys an action uses

VARIABLES
    strokes,    \* the real-time actions that wait
    steps,      \* the macro steps that wait
    typing,     \* the action being typed, or None
    passed,     \* it went before the first of the steps, which is next
    down        \* the keys it has down

vars == <<strokes, steps, typing, passed, down>>

Init ==
    /\ strokes = <<>> /\ steps = <<>>
    /\ typing = None /\ passed = FALSE /\ down = {}

\* One more action waits.
Accept ==
    /\ strokes' # <<>> /\ Front(strokes') = strokes
    /\ UNCHANGED <<steps, typing, passed, down>>

PassOn ==
    /\ steps' # <<>> /\ Front(steps') = steps
    /\ UNCHANGED <<strokes, typing, passed, down>>

TypeStroke ==
    /\ strokes # <<>> /\ typing = None /\ down = {}
    /\ typing' = Head(strokes) /\ strokes' = Tail(strokes)
    /\ passed' \in BOOLEAN /\ (passed' => steps # <<>>)
    /\ UNCHANGED <<steps, down>>

TypeStep ==
    /\ steps # <<>> /\ down = {}
    /\ \/ typing = None /\ strokes = <<>>
       \/ passed
    /\ typing' = Head(steps) /\ steps' = Tail(steps) /\ passed' = FALSE
    /\ UNCHANGED <<strokes, down>>

MoveKeys ==
    /\ typing # None
    /\ down' \subseteq KeysOf(typing)
    /\ UNCHANGED <<strokes, steps, typing, passed>>

Rest ==
    /\ typing # None /\ down = {} /\ ~passed
    /\ typing' = None
    /\ UNCHANGED <<strokes, steps, passed, down>>

Next == Accept \/ PassOn \/ TypeStroke \/ TypeStep \/ MoveKeys \/ Rest

Spec == Init /\ [][Next]_vars
=============================================================================
