---------------------------- MODULE ActionSyntax ----------------------------
(***************************************************************************)
(* The values a key can be given (action/action.go) and their form in the  *)
(* configurator (configurator_model.go).  A string is a sequence of        *)
(* tokens: the prefixes and marks the code looks for, and names for the    *)
(* rest.  Case, blanks and doubled or dangling "+" signs are left out.     *)
(***************************************************************************)
EXTENDS Integers, Sequences, FiniteSets, TLC

CONSTANTS Error, None  \* the error result; no action

\* Of a combo, value is the names joined by "+", as it is written.
Act(type, value) == [type |-> type, value |-> value, steps |-> <<>>]
MacroOf(steps) == [type |-> "macro", value |-> <<>>, steps |-> steps]

Dangerous(a) == a.type \in {"command", "macro"}

IsCombo(s) == \E i \in DOMAIN s : s[i] = "+"

ParseShortcut(s) ==
    CASE s = <<>> -> Error
      [] s # <<>> /\ Head(s) \in {"text:", "cmd:"} ->
            IF Tail(s) = <<>> THEN Error
            ELSE Act(IF Head(s) = "text:" THEN "text" ELSE "command", Tail(s))
      [] OTHER -> Act(IF IsCombo(s) THEN "combo" ELSE "key", s)

-----------------------------------------------------------------------------
(* The text of the configurator: a type and lines.                         *)

Shortcut(a) ==
    CASE a.type = "text" -> <<"text:">> \o a.value
      [] a.type \in {"key", "combo"} -> a.value
      [] a.type = "command" -> <<"cmd:">> \o a.value
      [] a.type = "macro" -> <<"macro(n)">>

ActionToEditor(a) ==
    IF a = None THEN [type |-> "none", lines |-> <<>>]
    ELSE [type |-> a.type,
          lines |-> IF a.type = "macro"
                    THEN [i \in DOMAIN a.steps |-> Shortcut(a.steps[i])]
                    ELSE <<a.value>>]

\* The lines of a macro, without the empty ones and the comments.
StepLines(lines) == SelectSeq(lines, LAMBDA l : l # <<>> /\ Head(l) # "#")

MacroFromEditor(lines) ==
    LET steps == [i \in DOMAIN StepLines(lines) |-> ParseShortcut(StepLines(lines)[i])]
    IN  IF steps = <<>> \/ \E i \in DOMAIN steps : steps[i] = Error
        THEN Error ELSE MacroOf(steps)

\* A value of several lines is an Error here when the type is not a macro:
\* the configurator would keep the line breaks, which is left out.
ActionFromEditor(type, lines) ==
    CASE type = "none" -> None
      [] type = "macro" -> MacroFromEditor(lines)
      [] type = "combo" /\ Len(lines) = 1 ->
            LET parsed == ParseShortcut(lines[1])
            IN  IF parsed # Error /\ parsed.type = "combo" THEN parsed ELSE Error
      [] type \in {"text", "key", "command"} /\ Len(lines) = 1 ->
            IF lines[1] = <<>> THEN Error ELSE Act(type, lines[1])
      [] OTHER -> Error
=============================================================================
