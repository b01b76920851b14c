---------------------------- MODULE LegacyKeymap ----------------------------
(***************************************************************************)
(* config/keymap.go: the keymap of the first protocol, as it is kept in    *)
(* memory and in its file.  A file has a set of entries; each names its    *)
(* layer as "0" or in another form ("00"), and its buttons by index or by  *)
(* name.  Several references may mean the same layer, and several entries  *)
(* the same buttons.  Names of layers, and layers without entries, are     *)
(* left out.                                                               *)
(***************************************************************************)
EXTENDS ActionFile, SequencesExt

CONSTANT MainButtonCount

ASSUME ButtonsAssumption == MainButtonCount \in Nat

ButtonIndices == 0..(MainButtonCount - 1)

\* An entry: layer is a record [form, index], of form "plain" or "other", refs
\* are records [form, button], of form "index" or "name", and value is the JSON
\* of an action.
Entry(layer, kind, refs, value) ==
    [layer |-> layer, kind |-> kind, refs |-> refs, value |-> value]

KeymapJSON(entries) == [layers |-> entries]

ValidRefs(e) ==
    /\ e.layer.index \in 0..3
    /\ e.refs # <<>> /\ (e.kind = "button" => Len(e.refs) = 1)
    /\ \A i \in DOMAIN e.refs : e.refs[i].button \in ButtonIndices

ValidEntry(e) == ValidRefs(e) /\ UnmarshalJSON[e.value] # Error

\* What json.Unmarshal makes of the text of an entry.
ParsedEntry(e) ==
    /\ e = Entry(e.layer, e.kind, e.refs, e.value)
    /\ e.layer \in [form : {"plain", "other"}, index : Int]
    /\ e.kind \in {"button", "combo"}
    /\ e.refs \in Seq([form : {"index", "name"}, button : Int])
    /\ e.value \in JSONs

\* What an entry is about: order and repetition of the buttons are lost.
EntryKey(e) == <<e.layer.index, e.kind, {e.refs[i].button : i \in DOMAIN e.refs}>>

\* Of the references to one layer the one that is iterated last replaces the
\* whole layer.
LastRefs(entries) ==
    LET refs == {e.layer : e \in entries}
    IN  {last \in [{ref.index : ref \in refs} -> refs] : \A i \in DOMAIN last : last[i].index = i}

\* The keymaps entries may be read as: of those about the same buttons the one
\* that is iterated last wins.
KeymapsOf(entries) ==
    {keymap \in [{EntryKey(e) : e \in entries} -> {UnmarshalJSON[e.value] : e \in entries}] :
        \A key \in DOMAIN keymap :
            \E e \in entries : EntryKey(e) = key /\ UnmarshalJSON[e.value] = keymap[key]}

\* The keymaps a file may be read as: Go iterates in any order.
ParseKeymap(file) ==
    IF \E e \in file.layers : ~ValidEntry(e) THEN {Error}
    ELSE UNION {KeymapsOf({e \in file.layers : e.layer = last[e.layer.index]}) :
                   last \in LastRefs(file.layers)}

\* What is kept in memory: actions by layer, kind and buttons.
ValidKey(key) ==
    /\ key \in (0..3) \X {"button", "combo"} \X ((SUBSET ButtonIndices) \ {{}})
    /\ key[2] = "button" => Cardinality(key[3]) = 1

ValidKeymap(keymap) ==
    /\ keymap = [key \in DOMAIN keymap |-> keymap[key]]
    /\ \A key \in DOMAIN keymap : ValidKey(key) /\ keymap[key] \in Actions

\* The buttons by name.  Their order, that of the indices, is lost when the
\* entry is read and left open here.
NameRefs(buttons) ==
    [i \in 1..Cardinality(buttons) |-> [form |-> "name", button |-> SetToSeq(buttons)[i]]]

\* What is written: every layer as a plain number, every button by name, every
\* action in its short form.
PlainLayer(layer) == [form |-> "plain", index |-> layer]
NameRef == [form : {"name"}, button : ButtonIndices]
WrittenEntry ==
    [layer : [form : {"plain"}, index : 0..3], kind : {"button", "combo"}, refs : Seq(NameRef),
     value : JSONs]
KeymapFiles == [layers : SUBSET WrittenEntry]

\* Mutant: only the buttons are written, not the combos.
MarshalKeymapButtonsOnly(keymap) ==
    KeymapJSON({Entry(PlainLayer(key[1]), key[2], NameRefs(key[3]), MarshalJSON[keymap[key]]) :
                   key \in {k \in DOMAIN keymap : k[2] = "button"}})

MarshalKeymap(keymap) ==
    KeymapJSON({Entry(PlainLayer(key[1]), key[2], NameRefs(key[3]), MarshalJSON[keymap[key]]) :
                   key \in DOMAIN keymap})

\* A combo of one button has the mask of the button and hides it.
GetActionByMask(keymap, layer, mask) ==
    CASE <<layer, "combo", mask>> \in DOMAIN keymap -> keymap[<<layer, "combo", mask>>]
      [] <<layer, "combo", mask>> \notin DOMAIN keymap
         /\ <<layer, "button", mask>> \in DOMAIN keymap -> keymap[<<layer, "button", mask>>]
      [] OTHER -> None
=============================================================================
