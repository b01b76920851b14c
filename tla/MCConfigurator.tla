--------------------------- MODULE MCConfigurator ---------------------------
(* An instance of Configurator for TLC: two keys, one thumb, two profiles  *)
(* and an import whose key name reads as a command.                        *)
EXTENDS Configurator

CONSTANTS main, copy, own, russian

ProfileIDOf(name) == CASE name = copy -> copy [] OTHER -> Blank

En == <<"en", "letters", 0>>
Ru == <<"ru", "letters", 0>>
Letter == Act("text", <<"a">>)
Command == Act("command", <<"a">>)
DefaultKeys == En :> Letter
DefaultThumbs == "space" :> Act("key", <<"a">>)

NestedMacro == MacroOf(<<Letter, MacroOf(<<Command>>)>>)
Imported ==
    [active |-> own,
     profiles |-> own :> [name |-> own, maps |-> {<<"en", "letters">>},
                          bindings |-> En :> NestedMacro,
                          taps |-> "space" :> Act("key", <<"cmd:", "a">>)]]

SomeImports == {Imported, Error}

Lines(type, lines) == [type |-> type, lines |-> lines]
SomeTyped ==
    {Lines("text", <<<<"cmd:", "a">>>>),
     Lines("macro", <<<<"#">>, <<"text:", "a">>, <<"a", "+", "a">>, <<"cmd:", "a">>>>),
     Lines("macro", <<<<"cmd:">>>>)}
=============================================================================
