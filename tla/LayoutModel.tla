---------------------------- MODULE LayoutModel ----------------------------
(***************************************************************************)
(* textinput: what a layout is, when it is valid, the mutations of         *)
(* config.go and what compiler.go makes of it.  A mutation returns the     *)
(* changed layout, or Error where the code returns an error and the        *)
(* session drops the working copy.                                         *)
(***************************************************************************)
EXTENDS ActionFile, Functions

CONSTANTS
    Languages, Modes, Buttons, Taps,
    ProfileID(_),     \* normalizeProfileID: the id a name gives, Blank if none
    Blank,            \* the empty name or id
    DefaultProfileID, DefaultName, DefaultBindings, DefaultTaps

Keys == Languages \X Modes \X Buttons

\* The bindings of a profile are maps within maps: maps are the languages and
\* modes that have one, empty or not.
Profile(name, maps, bindings, taps) ==
    [name |-> name, maps |-> maps, bindings |-> bindings, taps |-> taps]

DefaultLayoutConfig ==
    [active |-> DefaultProfileID,
     profiles |-> [id \in {DefaultProfileID} |->
                     Profile(DefaultName, Languages \X Modes, DefaultBindings, DefaultTaps)]]

ValidProfile(p) ==
    /\ p.name # Blank
    /\ p.maps \subseteq Languages \X Modes
    /\ DOMAIN p.bindings \subseteq Keys /\ \A k \in DOMAIN p.bindings : Validate(p.bindings[k])
    /\ DOMAIN p.taps \subseteq Taps /\ \A t \in DOMAIN p.taps : Validate(p.taps[t])

ValidateLayout(l) ==
    /\ l.active \in DOMAIN l.profiles
    /\ Blank \notin DOMAIN l.profiles
    /\ \A id \in DOMAIN l.profiles : ValidProfile(l.profiles[id])

GetBinding(l, id, key) ==
    IF id \in DOMAIN l.profiles /\ key \in DOMAIN l.profiles[id].bindings
    THEN l.profiles[id].bindings[key] ELSE None

GetThumbTap(l, id, tap) ==
    IF id \in DOMAIN l.profiles /\ tap \in DOMAIN l.profiles[id].taps
    THEN l.profiles[id].taps[tap] ELSE None

\* f with x mapped to a.
Put(f, x, a) == [y \in DOMAIN f \cup {x} |-> IF y = x THEN a ELSE f[y]]

\* f with x bound to a, or without x.
Rebind(f, x, a) == IF a = None THEN Restrict(f, DOMAIN f \ {x}) ELSE Put(f, x, a)

WithProfile(l, id, p) == [active |-> l.active, profiles |-> Put(l.profiles, id, p)]

SetBinding(l, id, key, a) ==
    LET p == l.profiles[id] IN
    IF id \notin DOMAIN l.profiles \/ key \notin Keys \/ (a # None /\ ~Validate(a)) THEN Error
    ELSE WithProfile(l, id, Profile(p.name, p.maps \cup {<<key[1], key[2]>>},
                                    Rebind(p.bindings, key, a), p.taps))

SetThumbTap(l, id, tap, a) ==
    LET p == l.profiles[id] IN
    IF id \notin DOMAIN l.profiles \/ tap \notin Taps \/ (a # None /\ ~Validate(a)) THEN Error
    ELSE WithProfile(l, id, Profile(p.name, p.maps, p.bindings, Rebind(p.taps, tap, a)))

ActivateProfile(l, id) ==
    IF id \notin DOMAIN l.profiles THEN Error ELSE [active |-> id, profiles |-> l.profiles]

RenameProfile(l, id, name) ==
    LET p == l.profiles[id] IN
    IF name = Blank \/ id \notin DOMAIN l.profiles THEN Error
    ELSE WithProfile(l, id, Profile(name, p.maps, p.bindings, p.taps))

\* The copy becomes the active profile.
DuplicateProfile(l, source, name) ==
    LET id == ProfileID(name)
        p == l.profiles[source]
    IN  IF id = Blank \/ id \in DOMAIN l.profiles \/ source \notin DOMAIN l.profiles THEN Error
        ELSE [active |-> id,
              profiles |-> Put(l.profiles, id, Profile(name, p.maps, p.bindings, p.taps))]

\* The first of the ids left is chosen; which one is first is left open.
DeleteProfile(l, id) ==
    IF Cardinality(DOMAIN l.profiles) <= 1 \/ id \notin DOMAIN l.profiles THEN Error
    ELSE LET left == DOMAIN l.profiles \ {id}
         IN  [active |-> IF l.active = id THEN CHOOSE other \in left : TRUE ELSE l.active,
              profiles |-> Restrict(l.profiles, left)]

\* What the resolver answers with: the bindings of the active profile.
Compile(l) ==
    [strokes |-> l.profiles[l.active].bindings, taps |-> l.profiles[l.active].taps]

\* The actions of a layout.
ActionsOf(l) ==
    UNION {Range(l.profiles[id].bindings) \cup Range(l.profiles[id].taps) : id \in DOMAIN l.profiles}

\* layoutedit.PreviewImport, of which only the warning is kept: whether the
\* layout that comes in has commands or macros.
PreviewImport(current, incoming) == \E a \in ActionsOf(incoming) : Dangerous(a)
=============================================================================
