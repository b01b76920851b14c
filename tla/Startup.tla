------------------------------ MODULE Startup ------------------------------
(***************************************************************************)
(* The files of a user and the start of the program: prepareWorkspace and  *)
(* the migration from the old workspace, then the loads and saves of run   *)
(* (main.go), and the saves while the program runs.  Any step may fail,    *)
(* and the program may crash or lose power between and, where a file is    *)
(* written in place, within the steps.                                     *)
(*                                                                         *)
(* A layout is one action here, in the form it has in the file.  A layout  *)
(* and an identity are written to a temporary file and renamed, so a crash *)
(* leaves the old or the new one; the keymap is written in place.          *)
(***************************************************************************)
EXTENDS LegacyKeymap

CONSTANTS
    Absent, Bad,             \* no file; one that does not parse or validate
    DefaultLayout, DefaultKeymap,
    LegacyLayouts, LegacyKeymaps, LegacyIdentities,  \* what the old workspace may hold
    Edits,                   \* actions the user may save
    Devices,                 \* identities of devices the user may connect
    MaxStarts, MaxFaults     \* bounds: starts, failed steps

ASSUME BoundsAssumption == MaxStarts \in Nat /\ MaxFaults \in Nat

\* A layout file that parses is JSON, and the user saves valid layouts.
ASSUME LayoutsAssumption ==
    /\ DefaultLayout \in Actions /\ Edits \subseteq Actions
    /\ LegacyLayouts \ {Absent, Bad} \subseteq JSONs
    /\ Absent \notin JSONs /\ Bad \notin JSONs /\ Absent # Bad

\* The same for keymaps: a missing or damaged one is none of those written.
ASSUME KeymapsAssumption ==
    /\ ValidKeymap(DefaultKeymap)
    /\ \A file \in LegacyKeymaps \ {Absent, Bad} : \A e \in file.layers : ParsedEntry(e)
    /\ Absent \notin KeymapFiles /\ Bad \notin KeymapFiles

ASSUME IdentitiesAssumption == Bad \notin Devices

Roots == {"canonical", "legacy"}

VARIABLES
    layoutFile, keymapFile, identityFile,  \* by workspace root
    phase,      \* the step of the start, "running" or "off"
    root,       \* the workspace of this start
    layout, keymap, reference,             \* in memory
    startupError,   \* the parts whose failure the window shows
    saved,      \* history: the layout last saved by the user, by root
    starts, faults  \* history, bounded

files == <<layoutFile, keymapFile, identityFile>>
memory == <<layout, keymap, reference>>
vars == <<files, phase, root, memory, startupError, saved, starts, faults>>

Init ==
    /\ layoutFile \in [Roots -> LegacyLayouts] /\ layoutFile["canonical"] = Absent
    /\ keymapFile \in [Roots -> LegacyKeymaps] /\ keymapFile["canonical"] = Absent
    /\ identityFile \in [Roots -> LegacyIdentities] /\ identityFile["canonical"] = Absent
    /\ phase = "off" /\ root = "canonical"
    /\ layout = None /\ keymap = None /\ reference = None
    /\ startupError = {} /\ saved = [r \in Roots |-> None]
    /\ starts = 0 /\ faults = 0

\* A step fails: a file cannot be read or written, or a directory not made.
Fault == faults < MaxFaults /\ faults' = faults + 1
NoFault == faults' = faults

Shown(part) == startupError' = startupError \cup {part}
Done == NoFault /\ UNCHANGED startupError

Put(file, r, value) == [file EXCEPT ![r] = value]

\* What a layout file and a keymap file are read as.
LayoutRead(r) ==
    CASE layoutFile[r] = Absent -> DefaultLayout
      [] layoutFile[r] = Bad -> Error
      [] OTHER -> UnmarshalJSON[layoutFile[r]]

KeymapsRead(r) ==
    CASE keymapFile[r] = Absent -> {DefaultKeymap}
      [] keymapFile[r] = Bad -> {Error}
      [] OTHER -> ParseKeymap(keymapFile[r])

-----------------------------------------------------------------------------
(* The workspace and the migration.                                        *)

\* The user starts the program: the canonical workspace, the old one when it
\* cannot be resolved, or the canonical one without a migration.
Resolve ==
    /\ phase = "off" /\ starts < MaxStarts
    /\ starts' = starts + 1
    /\ \/ /\ root' = "canonical" /\ phase' = "migrateLayout"
          /\ startupError' = {} /\ NoFault
       \/ /\ root' = "legacy" /\ phase' = "loadKeymap"
          /\ startupError' = {"workspace"} /\ Fault
       \/ /\ root' = "canonical" /\ phase' = "loadKeymap"
          /\ startupError' \in {{}, {"workspace", "migration"}} /\ Fault
    /\ UNCHANGED <<files, memory, saved>>

\* Mutant: the old layout comes back over the one in the canonical workspace.
MigratesOverTarget(file) == file["legacy"] # Absent

Migrates(file) == file["legacy"] # Absent /\ file["canonical"] = Absent

\* Mutant: the old file is copied without being read.
MigrateLayoutUnread ==
    /\ phase = "migrateLayout" /\ phase' = "migrateKeymap"
    /\ \/ Migrates(layoutFile) /\ Done
          /\ layoutFile' = Put(layoutFile, "canonical", layoutFile["legacy"])
       \/ ~Migrates(layoutFile) /\ Done /\ UNCHANGED layoutFile
       \/ Fault /\ Shown("migration") /\ UNCHANGED layoutFile
    /\ UNCHANGED <<keymapFile, identityFile, root, memory, saved, starts>>

MigrateLayout ==
    /\ phase = "migrateLayout" /\ phase' = "migrateKeymap"
    /\ \/ /\ Migrates(layoutFile) /\ LayoutRead("legacy") # Error /\ Done
          /\ layoutFile' = Put(layoutFile, "canonical", MarshalJSON[LayoutRead("legacy")])
       \/ ~Migrates(layoutFile) /\ Done /\ UNCHANGED layoutFile
       \/ /\ Migrates(layoutFile) /\ LayoutRead("legacy") = Error
          /\ NoFault /\ Shown("migration") /\ UNCHANGED layoutFile
       \/ Fault /\ Shown("migration") /\ UNCHANGED layoutFile
    /\ UNCHANGED <<keymapFile, identityFile, root, memory, saved, starts>>

\* The target is opened, and emptied, before it is written.
MigrateKeymap ==
    /\ phase = "migrateKeymap"
    /\ \/ /\ Migrates(keymapFile)
          /\ keymap' \in KeymapsRead("legacy") \ {Error}
          /\ keymapFile' = Put(keymapFile, "canonical", Bad)
          /\ phase' = "writeMigrated" /\ Done
       \/ /\ ~Migrates(keymapFile) /\ Done
          /\ phase' = "migrateIdentity" /\ UNCHANGED <<keymapFile, keymap>>
       \/ /\ Migrates(keymapFile) /\ Error \in KeymapsRead("legacy")
          /\ NoFault /\ Shown("migration")
          /\ phase' = "migrateIdentity" /\ UNCHANGED <<keymapFile, keymap>>
       \/ /\ Fault /\ Shown("migration")
          /\ phase' = "migrateIdentity" /\ UNCHANGED <<keymapFile, keymap>>
    /\ UNCHANGED <<layoutFile, identityFile, root, layout, reference, saved, starts>>

WriteMigrated ==
    /\ phase = "writeMigrated" /\ phase' = "migrateIdentity"
    /\ \/ Done /\ keymapFile' = Put(keymapFile, "canonical", MarshalKeymap(keymap))
       \/ Fault /\ Shown("migration") /\ UNCHANGED keymapFile
    /\ UNCHANGED <<layoutFile, identityFile, root, memory, saved, starts>>

MigrateIdentity ==
    /\ phase = "migrateIdentity" /\ phase' = "loadKeymap"
    /\ \/ /\ Migrates(identityFile) /\ identityFile["legacy"] # Bad /\ Done
          /\ identityFile' = Put(identityFile, "canonical", identityFile["legacy"])
       \/ ~Migrates(identityFile) /\ Done /\ UNCHANGED identityFile
       \/ /\ Migrates(identityFile) /\ identityFile["legacy"] = Bad
          /\ NoFault /\ Shown("migration") /\ UNCHANGED identityFile
       \/ Fault /\ Shown("migration") /\ UNCHANGED identityFile
    /\ UNCHANGED <<layoutFile, keymapFile, root, memory, saved, starts>>

-----------------------------------------------------------------------------
(* The start: keymap, layout, identity.                                    *)

\* A keymap that cannot be read is replaced in memory only.
LoadKeymap ==
    /\ phase = "loadKeymap"
    /\ \/ /\ keymap' \in KeymapsRead(root) \ {Error}
          /\ phase' = "saveKeymap" /\ Done
       \/ /\ Error \in KeymapsRead(root) /\ NoFault /\ Shown("keymap")
          /\ keymap' = DefaultKeymap /\ phase' = "loadLayout"
       \/ /\ Fault /\ Shown("keymap")
          /\ keymap' = DefaultKeymap /\ phase' = "loadLayout"
    /\ UNCHANGED <<files, root, layout, reference, saved, starts>>

\* The file is emptied, or cannot be opened.
SaveKeymap ==
    /\ phase = "saveKeymap"
    /\ \/ keymapFile' = Put(keymapFile, root, Bad) /\ phase' = "writeKeymap" /\ Done
       \/ phase' = "loadLayout" /\ Fault /\ Shown("keymap") /\ UNCHANGED keymapFile
    /\ UNCHANGED <<layoutFile, identityFile, root, memory, saved, starts>>

WriteKeymap ==
    /\ phase = "writeKeymap" /\ phase' = "loadLayout"
    /\ \/ keymapFile' = Put(keymapFile, root, MarshalKeymap(keymap)) /\ Done
       \/ Fault /\ Shown("keymap") /\ UNCHANGED keymapFile
    /\ UNCHANGED <<layoutFile, identityFile, root, memory, saved, starts>>

\* Mutant: a layout that cannot be read is replaced without a word.
LoadLayoutSilently ==
    /\ phase = "loadLayout" /\ phase' = "saveLayout"
    /\ \/ LayoutRead(root) # Error /\ layout' = LayoutRead(root) /\ NoFault
       \/ LayoutRead(root) = Error /\ layout' = DefaultLayout /\ NoFault
       \/ layout' = DefaultLayout /\ Fault
    /\ UNCHANGED <<files, root, keymap, reference, startupError, saved, starts>>

\* A layout that cannot be read is replaced by the default one ...
LoadLayout ==
    /\ phase = "loadLayout" /\ phase' = "saveLayout"
    /\ \/ /\ LayoutRead(root) # Error /\ layout' = LayoutRead(root)
          /\ Done /\ UNCHANGED saved
       \/ /\ LayoutRead(root) = Error /\ NoFault
          /\ layout' = DefaultLayout /\ Shown("layout")
          /\ saved' = [saved EXCEPT ![root] = None]
       \/ /\ Fault
          /\ layout' = DefaultLayout /\ Shown("layout")
          /\ saved' = [saved EXCEPT ![root] = None]
    /\ UNCHANGED <<files, root, keymap, reference, starts>>

\* ... which is then saved over it.
SaveLayout ==
    /\ phase = "saveLayout" /\ phase' = "loadIdentity"
    /\ \/ layoutFile' = Put(layoutFile, root, MarshalJSON[layout]) /\ Done
       \/ Fault /\ Shown("layout") /\ UNCHANGED layoutFile
    /\ UNCHANGED <<keymapFile, identityFile, root, memory, saved, starts>>

LoadIdentity ==
    /\ phase = "loadIdentity" /\ phase' = "running"
    /\ \/ /\ identityFile[root] # Bad /\ Done
          /\ reference' = IF identityFile[root] = Absent THEN None ELSE identityFile[root]
       \/ /\ identityFile[root] = Bad /\ NoFault
          /\ reference' = None /\ Shown("identity")
       \/ Fault /\ reference' = None /\ Shown("identity")
    /\ UNCHANGED <<files, root, layout, keymap, saved, starts>>

-----------------------------------------------------------------------------
(* The program runs.                                                       *)

\* The user edits the layout and saves it.
UserSaves ==
    /\ phase = "running"
    /\ \E edit \in Edits :
        /\ layout' = edit
        /\ \/ /\ layoutFile' = Put(layoutFile, root, MarshalJSON[edit]) /\ NoFault
              /\ saved' = [saved EXCEPT ![root] = edit]
           \/ Fault /\ UNCHANGED <<layoutFile, saved>>
    /\ UNCHANGED <<keymapFile, identityFile, phase, root, keymap, reference, startupError, starts>>

\* An explicit connection is remembered.
Connects ==
    /\ phase = "running"
    /\ reference' \in Devices
    /\ \/ identityFile' = Put(identityFile, root, reference') /\ NoFault
       \/ Fault /\ UNCHANGED identityFile
    /\ UNCHANGED <<layoutFile, keymapFile, phase, root, layout, keymap, startupError, saved, starts>>

\* The user closes the program, or it crashes at any step.
Ends ==
    /\ phase # "off" /\ phase' = "off"
    /\ layout' = None /\ keymap' = None /\ reference' = None /\ startupError' = {}
    /\ UNCHANGED <<files, root, saved, starts, faults>>

Next ==
    \/ Resolve
    \/ MigrateLayout \/ MigrateKeymap \/ WriteMigrated \/ MigrateIdentity
    \/ LoadKeymap \/ SaveKeymap \/ WriteKeymap \/ LoadLayout \/ SaveLayout \/ LoadIdentity
    \/ UserSaves \/ Connects \/ Ends

Spec == Init /\ [][Next]_vars

-----------------------------------------------------------------------------

(* What is in the canonical workspace was written by the program, as only  *)
(* what could be read is migrated; only a keymap may be damaged there, as  *)
(* it is not replaced at once (migrate.go, SaveKeymap).                    *)
TypeOK ==
    /\ keymapFile["canonical"] \in {Absent, Bad} \cup KeymapFiles
    /\ layoutFile["canonical"] \in {Absent} \cup JSONs /\ identityFile["canonical"] # Bad
    /\ root \in Roots /\ startupError \subseteq {"workspace", "migration", "keymap", "layout", "identity"}
    /\ starts \in 0..MaxStarts /\ faults \in 0..MaxFaults

(* What the user saved in a workspace is what the next start in it types   *)
(* with, after any crashes, unless a start has shown that the layout could *)
(* not be read, or the action is a key named like another shortcut         *)
(* (run of main.go, LoadLayout, SaveLayout).                               *)
SavedLayoutComesBack ==
    phase \in {"saveLayout", "loadIdentity"} /\ saved[root] # None /\ IsPlain(saved[root])
        => layout = saved[root]

(* Once the window is open without an error about the keymap, the keymap   *)
(* in its file answers every press as the one in memory does, whatever     *)
(* order its entries are read in, unless it has a key named like another   *)
(* shortcut (LoadKeymap, SaveKeymap, run).                                 *)
KeymapReadsBack ==
    /\ phase = "running" /\ "keymap" \notin startupError
    /\ \A key \in DOMAIN keymap : IsPlain(keymap[key])
    =>
        \A read \in KeymapsRead(root) :
            \A layer \in 0..3, mask \in SUBSET ButtonIndices :
                GetActionByMask(read, layer, mask) = GetActionByMask(keymap, layer, mask)

(* A layout changes only when the user saves it, into an empty slot, when  *)
(* the window shows that it could not be read, or into the short form of   *)
(* what was read; a start in the canonical workspace leaves every file of  *)
(* the old one as it was, so the user can go back (MigrateValidated, run). *)
FilesAreKept ==
    [][/\ \A r \in Roots : layoutFile'[r] # layoutFile[r] =>
            /\ r = root
            /\ \/ phase = "running" \/ layoutFile[r] = Absent \/ "layout" \in startupError
               \/ layoutFile'[r] = MarshalJSON[UnmarshalJSON[layoutFile[r]]]
       /\ root = "canonical" /\ phase # "off" =>
            /\ keymapFile'["legacy"] = keymapFile["legacy"]
            /\ identityFile'["legacy"] = identityFile["legacy"]]_vars
=============================================================================
