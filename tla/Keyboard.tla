------------------------------ MODULE Keyboard ------------------------------
(***************************************************************************)
(* The input back ends of the handler (keyboard_windows.go; robotgo makes  *)
(* the same calls in keyboard_other.go): the injections an action consists *)
(* of, and what one SendInput does to the keys Windows holds down.         *)
(*                                                                         *)
(* An injection is the batch of one SendInput: a sequence of key events,   *)
(* empty for a key nobody knows.  A text is a sequence of UTF-16 units,    *)
(* and a unit is a key of its own.  Windows may insert only a part of a    *)
(* batch; the callers ignore that.                                         *)
(***************************************************************************)
EXTENDS Naturals, Sequences, FiniteSets

CONSTANTS
    Resolves,   \* the key names keyToVk knows
    Partial     \* whether SendInput may insert fewer events than it is given

VARIABLES
    held,       \* the keys Windows sees down
    refused,    \* history: the keys whose latest key-up was not inserted
    trace       \* the sequence of the open trace, 0 when none is open

keyboardVars == <<held, refused, trace>>

KeyInput(k, down) == [key |-> k, down |-> down]

Buttons == {"mouse_left", "mouse_right"}

\* A mouse button can be clicked but not held as a modifier.
KeyTap(k) ==
    IF k \in Resolves \cup Buttons THEN <<KeyInput(k, TRUE), KeyInput(k, FALSE)>> ELSE <<>>

KeyToggle(k, down) == IF k \in Resolves THEN <<KeyInput(k, down)>> ELSE <<>>

\* Each unit goes down and up, all in one batch.
TypeText(units) ==
    << [i \in 1..2 * Len(units) |-> KeyInput(units[(i + 1) \div 2], i % 2 = 1)] >>

\* The modifiers go down in order, the last key is tapped, and the modifiers
\* come up in reverse.
handleCombo(keys) ==
    LET n == Len(keys) IN
    [i \in 1..2 * n - 1 |-> IF i < n THEN KeyToggle(keys[i], TRUE)
                            ELSE IF i = n THEN KeyTap(keys[n])
                            ELSE KeyToggle(keys[2 * n - i], FALSE)]

\* The injections of an action, in order.
executeInputAction(a) ==
    CASE a.type = "key" -> <<KeyTap(a.key)>>
      [] a.type = "text" -> TypeText(a.text)
      [] a.type = "combo" -> handleCombo(a.keys)
      [] OTHER -> <<>>

KeysUp(events) == {events[i].key : i \in {j \in DOMAIN events : ~events[j].down}}
KeysIn(events) == {events[i].key : i \in DOMAIN events}

\* The keys a sequence of events leaves down.
KeysDown(events) ==
    {events[i].key : i \in {j \in DOMAIN events :
        events[j].down /\ \A l \in DOMAIN events : l > j => events[l].key # events[j].key}}

KeyboardInit == held = {} /\ refused = {} /\ trace = 0

beginInputTrace(t) == trace' = t

\* SendInput inserts the first n events of the batch.  The observer hears of
\* the first call after the trace was opened only.
sendInputs(batch, n) ==
    LET done == SubSeq(batch, 1, n)
        rest == SubSeq(batch, n + 1, Len(batch))
    IN  /\ n \in IF Partial THEN 0..Len(batch) ELSE {Len(batch)}
        /\ held' = (held \ KeysIn(done)) \cup KeysDown(done)
        /\ refused' = (refused \ KeysUp(done)) \cup KeysUp(rest)
        /\ trace' = IF batch = <<>> THEN trace ELSE 0
=============================================================================
