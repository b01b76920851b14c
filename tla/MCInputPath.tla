---------------------------- MODULE MCInputPath ----------------------------
(* Instances of InputPath for TLC: a configuration with a key, a text, a   *)
(* combo, a command and a macro, nested deeper than the handler plays.     *)
EXTENDS InputPath

Letter == [type |-> "text", text |-> <<"u1", "u1">>]
Copy == [type |-> "combo", keys |-> <<"ctrl", "c">>]
Run == [type |-> "command"]
Deepest == [type |-> "macro", macro |-> <<Copy>>]
Deep == [type |-> "macro", macro |-> <<Letter, Deepest>>]
Play == [type |-> "macro", macro |-> <<Run, Deep, Copy>>]
AllActions == {Letter, Copy, Run, Deepest, Deep, Play}

Stroke(a) == [type |-> "stroke", action |-> a, buttons |-> 1]
Tap(a) == [type |-> "tap", action |-> a, buttons |-> 0]
Chord(a) == [type |-> "combo", action |-> a, buttons |-> 2]
Language == [type |-> "language", action |-> None, buttons |-> 0]
Sent == {Stroke(Letter), Stroke(Play), Chord(Copy), Language}
Known == {"ctrl", "c"}
Tested == {Letter}
=============================================================================
