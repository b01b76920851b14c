----------------------------- MODULE ActionFile -----------------------------
(***************************************************************************)
(* What is defined by recursion on the steps of a macro (action/action.go):*)
(* which actions are valid, and their form in the files.  The recursion    *)
(* is bounded by the nesting of macros.                                    *)
(***************************************************************************)
EXTENDS ActionSyntax

CONSTANTS
    Tokens,         \* what strings are made of
    MaxNesting      \* bound: macros within macros

\* The marks the code looks for, among others.
ASSUME TokensAssumption == {"text:", "cmd:", "+", "#"} \subseteq Tokens

-----------------------------------------------------------------------------
(* The actions.                                                            *)

Types == {"key", "text", "combo", "command", "macro"}
Strings == Seq(Tokens)
NoString == <<>>

\* An action that is not a macro.
Simple ==
    {a \in [type : Types \ {"macro"}, value : Strings \ {NoString}, steps : {<<>>}] :
        a.type = "combo" => IsCombo(a.value)}

MacrosOf(S) == [type : {"macro"}, value : {NoString}, steps : Seq(S) \ {<<>>}]

\* The members of S, and the macros of them, at most d deep.
Nested(S) ==
    LET upTo[d \in 0..MaxNesting] ==
            IF d = 0 THEN S ELSE S \cup MacrosOf(upTo[d - 1])
    IN  upTo

Actions == Nested(Simple)[MaxNesting]

Validate(a) == a \in Actions

ASSUME NestingAssumption ==
    /\ MaxNesting \in Nat
    /\ \A d \in 0..MaxNesting : Error \notin Nested(Simple)[d]

\* A key or combo whose name reads as another shortcut is written as that one.
\* A combo is the string its keys are joined to: one with a key named "a+b" is
\* not told from the combo of three keys it is read as.
PlainSimple ==
    {a \in Simple :
        /\ a.type \in {"key", "combo"} => Head(a.value) \notin {"text:", "cmd:"}
        /\ a.type = "key" => ~IsCombo(a.value)}

IsPlain(a) == a \in Nested(PlainSimple)[MaxNesting]

-----------------------------------------------------------------------------
(* Their JSON: a string, an array, or an object with a type, which may     *)
(* follow from the field that is there, and what is in the field of it.    *)
(* Left out are null, which reads as an action that is not valid, and what *)
(* is no action at all.                                                    *)

JSON(kind, type, value, items) ==
    [kind |-> kind, type |-> type, value |-> value, items |-> items]

JSONOver(S) ==
    [kind : {"string", "array", "object"}, type : Types, value : Strings, items : Seq(S)]

JSONUpTo[d \in 0..MaxNesting] == JSONOver(IF d = 0 THEN {} ELSE JSONUpTo[d - 1])

JSONs == JSONUpTo[MaxNesting]

Text(value) == JSON("string", "key", value, <<>>)

\* Mutant: a text is written as a plain string, like a key.
MarshalPlainText(a) ==
    Text(IF a.type = "command" THEN <<"cmd:">> \o a.value ELSE a.value)

MarshalSimple(a) ==
    CASE a.type \in {"key", "combo"} -> Text(a.value)
      [] a.type = "command" -> Text(<<"cmd:">> \o a.value)
      [] a.type = "text" -> JSON("object", "text", a.value, <<>>)

MarshalJSON[a \in Actions] ==
    IF a.type = "macro"
    THEN JSON("array", "macro", NoString, [i \in DOMAIN a.steps |-> MarshalJSON[a.steps[i]]])
    ELSE MarshalSimple(a)

Validated(a) == IF Validate(a) THEN a ELSE Error

UnmarshalJSON[j \in JSONs] ==
    IF j.kind = "string" THEN ParseShortcut(j.value)
    ELSE IF j.kind = "array" \/ j.type = "macro"
    THEN Validated(MacroOf([i \in DOMAIN j.items |-> UnmarshalJSON[j.items[i]]]))
    ELSE Validated(Act(j.type, j.value))

Reread(a) == UnmarshalJSON[MarshalJSON[a]]
=============================================================================
