---------------------------- MODULE Configurator ----------------------------
(***************************************************************************)
(* The configurator: the window's side of the editing session              *)
(* (configurator.go, configurator_editing.go, configurator_capture.go), on *)
(* the session of LayoutSession and the layouts of LayoutModel.  All of it *)
(* runs on the window's goroutine; the resolver it replaces is read by the *)
(* message processor through an atomic pointer.                            *)
(*                                                                         *)
(* The text fields are not state: an action that reads them takes what     *)
(* the selection loaded or anything the user may have typed.  A click      *)
(* that ends in an error changes nothing but a message and is left out,    *)
(* and so are messages and export, which writes a file of its own.         *)
(***************************************************************************)
EXTENDS LayoutModel, LayoutSession

CONSTANTS
    Typed,         \* what the user may type: records [type, lines]
    NewNames,      \* names typed for a profile
    Imports,       \* layouts that may be imported, and Error: unreadable
    MaxEdits       \* bound: changes of the draft

ASSUME MaxEditsAssumption == MaxEdits \in Nat

VARIABLES
    clipboard,           \* Session.clipboard
    layoutDraft,         \* App.layoutDraft: what the window shows
    running,             \* what the resolver answers with
    file,                \* the layout file; Error: one the start could not read, or none
    written,             \* history: the file was what the window opened with, or was saved
    dirty,               \* ConfiguratorState.dirty
    selectedProfile, selectedKey,
    selectedThumb,       \* "" for none; "language" is the fixed third thumb
    dangerousTestArmed,
    warned,              \* history: the selection the user was warned about
    pendingImport, pendingImportSummary,
    edits                \* history: changes of the draft

shownVars == <<layoutDraft, running, dirty>>
fileVars == <<file, written>>
selectionVars == <<selectedProfile, selectedKey, selectedThumb, dangerousTestArmed, warned>>
importVars == <<pendingImport, pendingImportSummary>>
vars == <<sessionVars, clipboard, shownVars, fileVars, selectionVars, importVars, edits>>

Selection == <<selectedProfile, selectedKey, selectedThumb>>

\* What a start leaves in the file: the layout it read or saved or, when the
\* default layout took the place of one that was missing or could not be read,
\* and could not be saved either, whatever was there, for which Error stands: the
\* window never reads the file.  It opens all the same, with the error of the
\* start and no mark of unsaved changes.
FileAfterStart(layout) == {layout} \cup (IF layout = DefaultLayoutConfig THEN {Error} ELSE {})

\* main.go has loaded the layout, made the resolver from it and the session.
Init ==
    \E layout \in Imports \cup {DefaultLayoutConfig} :
        /\ layout # Error
        /\ SessionInit(layout)
        /\ clipboard = None
        /\ layoutDraft = layout /\ running = Compile(layout) /\ dirty = FALSE
        /\ file \in FileAfterStart(layout) /\ written = (file = layout)
        /\ selectedProfile = layout.active /\ selectedThumb = ""
        /\ selectedKey \in Keys
        /\ dangerousTestArmed = FALSE /\ warned = None
        /\ pendingImport = None /\ pendingImportSummary = None
        /\ edits = 0

-----------------------------------------------------------------------------

\* Mutant: what is on the screen changes and the warning stays valid.
LoadSelectionStaysArmed(layout, id, key, thumb) ==
    /\ selectedProfile' = IF id \in DOMAIN layout.profiles THEN id ELSE layout.active
    /\ selectedKey' = key
    /\ selectedThumb' = thumb
    /\ UNCHANGED <<dangerousTestArmed, warned>>

\* Mutant: a profile that is gone stays selected.
LoadSelectionOfLostProfile(layout, id, key, thumb) ==
    /\ selectedProfile' = id
    /\ selectedKey' = key
    /\ selectedThumb' = thumb
    /\ dangerousTestArmed' = FALSE /\ warned' = None

LoadSelection(layout, id, key, thumb) ==
    /\ selectedProfile' = IF id \in DOMAIN layout.profiles THEN id ELSE layout.active
    /\ selectedKey' = key
    /\ selectedThumb' = thumb
    /\ dangerousTestArmed' = FALSE /\ warned' = None

\* Mutant: undo and redo change the window but not what is typed.
ApplyLiveOnEdit ==
    /\ layoutDraft' = draft'
    /\ dirty' = (baseline' # draft')
    /\ running' = IF edits' # edits THEN Compile(draft') ELSE running

\* syncDraftFromEditor, then Replace: the new draft is shown and typed with.
ApplyLive ==
    /\ layoutDraft' = draft'
    /\ dirty' = (baseline' # draft')
    /\ running' = Compile(draft')

\* The draft becomes layout, which may be an Error.
Change(layout) ==
    /\ layout # Error
    /\ edits < MaxEdits \/ layout = draft
    /\ edits' = IF layout = draft THEN edits ELSE edits + 1
    /\ Mutate(layout)
    /\ ApplyLive

Bound ==
    IF selectedThumb # "" THEN GetThumbTap(draft, selectedProfile, selectedThumb)
    ELSE GetBinding(draft, selectedProfile, selectedKey)

Rebound(action) ==
    IF selectedThumb # "" THEN SetThumbTap(draft, selectedProfile, selectedThumb, action)
    ELSE SetBinding(draft, selectedProfile, selectedKey, action)

\* The action in the text fields.
Entered == {ActionFromEditor(c.type, c.lines) : c \in Typed \cup {ActionToEditor(Bound)}}

Assign ==
    /\ selectedThumb # "language"
    /\ \E action \in Entered : action # Error /\ Change(Rebound(action))
    /\ UNCHANGED <<clipboard, fileVars, selectionVars, importVars>>

ClearBinding ==
    /\ selectedThumb # "language"
    /\ Change(Rebound(None))
    /\ UNCHANGED <<clipboard, fileVars, selectionVars, importVars>>

ResetBinding ==
    /\ selectedThumb # "language"
    /\ Change(Rebound(IF selectedThumb # ""
                      THEN GetThumbTap(DefaultLayoutConfig, DefaultProfileID, selectedThumb)
                      ELSE GetBinding(DefaultLayoutConfig, DefaultProfileID, selectedKey)))
    /\ LoadSelection(draft', selectedProfile, selectedKey, selectedThumb)
    /\ UNCHANGED <<clipboard, fileVars, importVars>>

CopyBinding ==
    /\ selectedThumb = ""
    /\ clipboard' = GetBinding(draft, selectedProfile, selectedKey)
    /\ UNCHANGED <<sessionVars, shownVars, fileVars, selectionVars, importVars, edits>>

PasteBinding ==
    /\ selectedThumb = "" /\ clipboard # None
    /\ Change(Rebound(clipboard))
    /\ LoadSelection(draft', selectedProfile, selectedKey, selectedThumb)
    /\ UNCHANGED <<clipboard, fileVars, importVars>>

RenameSelected ==
    /\ \E name \in NewNames : Change(RenameProfile(draft, selectedProfile, name))
    /\ UNCHANGED <<clipboard, fileVars, selectionVars, importVars>>

DuplicateSelected ==
    /\ \E name \in NewNames \ {Blank} : Change(DuplicateProfile(draft, selectedProfile, name))
    /\ LoadSelection(draft', draft'.active, selectedKey, selectedThumb)
    /\ UNCHANGED <<clipboard, fileVars, importVars>>

ActivateSelected ==
    /\ Change(ActivateProfile(draft, selectedProfile))
    /\ UNCHANGED <<clipboard, fileVars, selectionVars, importVars>>

DeleteSelected ==
    /\ Change(DeleteProfile(draft, selectedProfile))
    /\ LoadSelection(draft', draft'.active, selectedKey, selectedThumb)
    /\ UNCHANGED <<clipboard, fileVars, importVars>>

\* Undo or Redo of the session, then the new draft in force.
StepThroughHistory ==
    /\ Undo \/ Redo
    /\ edits' = edits
    /\ ApplyLive
    /\ LoadSelection(draft', selectedProfile, selectedKey, selectedThumb)
    /\ UNCHANGED <<clipboard, fileVars, importVars>>

RevertAll ==
    /\ Revert
    /\ edits' = edits
    /\ ApplyLive
    /\ LoadSelection(draft', draft'.active, selectedKey, selectedThumb)
    /\ UNCHANGED <<clipboard, fileVars, importVars>>

\* Mutant: the session is committed although the file could not be written.
SaveFailsCommitted ==
    /\ Commit
    /\ layoutDraft' = draft /\ running' = Compile(draft) /\ dirty' = FALSE
    /\ UNCHANGED <<clipboard, fileVars, selectionVars, importVars, edits>>

\* The file cannot be written: the resolver has been replaced before, and
\* the session keeps its history and the draft stays unsaved.
SaveFails ==
    /\ running' = Compile(draft)
    /\ UNCHANGED <<sessionVars, layoutDraft, dirty, clipboard, fileVars, selectionVars,
                   importVars, edits>>

Save ==
    /\ file' = draft /\ written' = TRUE
    /\ Commit
    /\ layoutDraft' = draft /\ running' = Compile(draft) /\ dirty' = FALSE
    /\ UNCHANGED <<clipboard, selectionVars, importVars, edits>>

\* Mutant: the preview looks for commands in the layout that is replaced.
PrepareImportWarnsOfCurrent ==
    /\ \E layout \in (Imports \cup {DefaultLayoutConfig}) \ {Error} :
        /\ pendingImport' = layout
        /\ pendingImportSummary' = PreviewImport(layout, draft)
    /\ UNCHANGED <<sessionVars, clipboard, shownVars, fileVars, selectionVars, edits>>

\* A file that is gone when it is read gives the default layout.
PrepareImport ==
    /\ \E layout \in (Imports \cup {DefaultLayoutConfig}) \ {Error} :
        /\ pendingImport' = layout
        /\ pendingImportSummary' = PreviewImport(draft, layout)
    /\ UNCHANGED <<sessionVars, clipboard, shownVars, fileVars, selectionVars, edits>>

ConfirmImport ==
    /\ pendingImport # None
    /\ Change(pendingImport)
    /\ \E key \in Keys :
        /\ key = CHOOSE first \in Keys : TRUE
        /\ LoadSelection(draft', draft'.active, key, "")
    /\ pendingImport' = None /\ pendingImportSummary' = None
    /\ UNCHANGED <<clipboard, fileVars>>

CancelImport ==
    /\ pendingImport # None
    /\ pendingImport' = None /\ pendingImportSummary' = None
    /\ UNCHANGED <<sessionVars, clipboard, shownVars, fileVars, selectionVars, edits>>

-----------------------------------------------------------------------------
(* Selecting and testing.                                                  *)

SelectProfile ==
    \E id \in DOMAIN layoutDraft.profiles :
        LoadSelection(layoutDraft, id, selectedKey, selectedThumb)

\* The buttons of the languages and modes, and the tiles of the keys.
SelectKey ==
    \E key \in Keys :
        /\ Cardinality({i \in 1..3 : key[i] # selectedKey[i]}) <= 1
        /\ LoadSelection(layoutDraft, selectedProfile, key, "")

\* A click on a thumb, or a captured tap, which is never the fixed one.
SelectThumb ==
    \E tap \in Taps : LoadSelection(layoutDraft, selectedProfile, selectedKey, tap)

\* The fixed thumb is shown without a load.
SelectLanguageThumb ==
    /\ selectedThumb' = "language"
    /\ UNCHANGED <<selectedProfile, selectedKey, dangerousTestArmed, warned>>

\* A captured key: a button of the language and mode selected.
SelectCaptured ==
    \E button \in Buttons :
        LoadSelection(draft, selectedProfile, <<selectedKey[1], selectedKey[2], button>>, "")

Select ==
    /\ SelectProfile \/ SelectKey \/ SelectThumb \/ SelectLanguageThumb \/ SelectCaptured
    /\ UNCHANGED <<sessionVars, clipboard, shownVars, fileVars, importVars, edits>>

\* A ready-made action is put into the text fields.
ChoosePreset ==
    /\ dangerousTestArmed /\ dangerousTestArmed' = FALSE /\ warned' = None
    /\ UNCHANGED <<sessionVars, clipboard, shownVars, fileVars, selectedProfile, selectedKey,
                   selectedThumb, importVars, edits>>

\* A command or macro is run by the second click; the first one warns.
TestAction ==
    /\ selectedThumb # "language"
    /\ \E action \in Entered \ {Error, None} :
        IF Dangerous(action) /\ ~dangerousTestArmed
        THEN dangerousTestArmed' = TRUE /\ warned' = Selection
        ELSE dangerousTestArmed' = FALSE /\ warned' = None
    /\ UNCHANGED <<sessionVars, clipboard, shownVars, fileVars, selectedProfile, selectedKey,
                   selectedThumb, importVars, edits>>

Next ==
    \/ Assign \/ ClearBinding \/ ResetBinding \/ CopyBinding \/ PasteBinding
    \/ RenameSelected \/ DuplicateSelected \/ ActivateSelected \/ DeleteSelected
    \/ StepThroughHistory \/ RevertAll \/ SaveFails \/ Save
    \/ PrepareImport \/ ConfirmImport \/ CancelImport
    \/ Select \/ ChoosePreset \/ TestAction

Spec == Init /\ [][Next]_vars

-----------------------------------------------------------------------------

(* The layouts are valid, the profile on the screen exists, and the        *)
(* history is within its limit.                                            *)
TypeOK ==
    /\ ValidateLayout(draft) /\ ValidateLayout(baseline)
    /\ file = Error \/ ValidateLayout(file)
    /\ clipboard = None \/ Validate(clipboard)
    /\ Len(undo) + Len(redo) <= HistoryLimit
    /\ selectedProfile \in DOMAIN layoutDraft.profiles
    /\ selectedKey \in Keys /\ selectedThumb \in Taps \cup {"", "language"}
    /\ dangerousTestArmed \in BOOLEAN /\ written \in BOOLEAN
    /\ edits \in 0..MaxEdits

(* What the window shows is the draft of the session, and the keys type    *)
(* what the draft says, after every edit, step through the history, import *)
(* and failed or successful save (applyEditorLive, undoEditorLayout,       *)
(* saveEditorLayout).                                                      *)
TypesWhatIsShown ==
    /\ layoutDraft = draft
    /\ running = Compile(draft)

(* The window says there is something to save exactly when the draft is    *)
(* not the layout in the file: undoing back to the saved layout clears the *)
(* mark, redoing sets it again, and a failed save does not clear it        *)
(* (syncDraftFromEditor, saveEditorLayout).  The one exception is a start  *)
(* that found no layout it could read and could not save the default one   *)
(* (main.go:225-242): until the first save that succeeds the mark is about *)
(* the default layout the window opened with, not about the file.          *)
DirtyMeansUnsaved ==
    LET stored == IF written THEN file ELSE DefaultLayoutConfig
    IN  baseline = stored /\ dirty = (draft # stored)

(* A command is never run by a test whose warning was shown for another    *)
(* key, thumb or profile (loadSelection, the test button).                 *)
WarnedOfThisKey ==
    dangerousTestArmed /\ selectedThumb # "language" => warned = Selection

(* The import the user confirms was announced with a warning if it brings  *)
(* a command or macro, however the draft has changed since the preview     *)
(* (prepareLayoutImport, importSummaryRisky).                              *)
ImportWarns ==
    pendingImport # None =>
        (pendingImportSummary <=> \E a \in ActionsOf(pendingImport) : Dangerous(a))

(* Every action in the draft comes back from the layout file as it is, but *)
(* for a key or combo whose name reads as another shortcut (MarshalJSON,   *)
(* UnmarshalJSON).                                                         *)
ReadsBackAsWritten ==
    \A a \in ActionsOf(draft) : IsPlain(a) => Reread(a) = a
=============================================================================
