---------------------------- MODULE EventStream ----------------------------
(***************************************************************************)
(* What connection.Runtime promises the application: one stable stream of  *)
(* events, whatever happens to USB sessions underneath.  The stream is a   *)
(* concatenation of blocks, one per session: a block holds the session's   *)
(* events from the first one on, in the order the device sent them,        *)
(* without a gap or a repetition, and once another session has spoken the  *)
(* earlier one is never heard again.  The order is a promise the           *)
(* application relies on: an event of a replaced session after one of its  *)
(* successor would apply a stroke to the wrong device state.               *)
(***************************************************************************)
EXTENDS Naturals

CONSTANTS Sessions, None

VARIABLES
    onAir,     \* the session whose event was published last
    played     \* [Sessions -> Nat]: how many events of each were published

vars == <<onAir, played>>

Init ==
    /\ onAir = None
    /\ played = [s \in Sessions |-> 0]

\* The next event of the session on air, or the first event of a new session.
Publish(s) ==
    /\ onAir = s \/ played[s] = 0
    /\ onAir' = s
    /\ played' = [played EXCEPT ![s] = @ + 1]

\* The names of finished sessions are used again for new sessions.
Forget(S) ==
    /\ played' = [s \in Sessions |-> IF s \in S THEN 0 ELSE played[s]]
    /\ onAir' = IF onAir \in S THEN None ELSE onAir

Next ==
    \/ \E s \in Sessions : Publish(s)
    \/ \E S \in SUBSET Sessions : Forget(S)

Spec == Init /\ [][Next]_vars
=============================================================================
