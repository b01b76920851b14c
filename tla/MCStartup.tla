----------------------------- MODULE MCStartup -----------------------------
(* An instance of Startup for TLC: a keymap of two buttons with entries    *)
(* about the same ones and two references to one layer, and keys under any *)
(* name.                                                                   *)
EXTENDS Startup

CONSTANTS oldDevice, newDevice

Key(name) == Act("key", name)
Default == Key(<<"d">>)

Ref(form, button) == [form |-> form, button |-> button]
Layer(form) == [form |-> form, index |-> 0]
Button(form, button, value) == Entry(Layer("plain"), "button", <<Ref(form, button)>>, MarshalJSON[value])

DefaultFile == KeymapJSON({Button("name", 0, Default), Button("name", 1, Default)})
TheDefaultKeymap == CHOOSE k \in ParseKeymap(DefaultFile) : TRUE

OldFile == KeymapJSON(
    {Button("index", 0, Key(<<"a">>)), Button("name", 0, Key(<<"b">>)),
     Entry(Layer("plain"), "combo", <<Ref("name", 1)>>, MarshalJSON[Act("command", <<"a">>)]),
     Entry(Layer("other"), "combo", <<Ref("name", 1), Ref("index", 0)>>, MarshalJSON[Act("text", <<"a">>)])})

\* A key named like a command, which only an object can give.
Misnamed(value) == JSON("object", "key", value, <<>>)

SomeLayouts == {Absent, Bad, Misnamed(<<"cmd:", "a">>)}
SomeKeymaps ==
    {Absent, Bad, OldFile, KeymapJSON({Button("index", 2, Default)}),
     KeymapJSON({Entry(Layer("plain"), "button", <<Ref("name", 0)>>, Misnamed(<<"cmd:">>))})}
SomeIdentities == {Absent, Bad, oldDevice}
SomeEdits == {Act("text", <<"a">>), Key(<<"cmd:", "a">>), Key(<<"cmd:">>)}
=============================================================================
