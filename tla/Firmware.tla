------------------------------ MODULE Firmware ------------------------------
(***************************************************************************)
(* The keyboard firmware: the main loop of MacroPad.ino with the contact   *)
(* filter of input_debounce.h and the thumb arbitration of                 *)
(* input_semantics.h.  The loop is sequential; what makes it hard is that  *)
(* contacts open and close at any time and that a thumb key is a tap, a    *)
(* modifier, a repeating Backspace or an abandoned hold depending on what  *)
(* else happens while it is down.                                          *)
(*                                                                         *)
(* One pass of loop() is a sequence of steps: Sample, then, if the inputs  *)
(* are armed, per phase one step for each input the phase handles, then    *)
(* commitInputEdges.  Host commands run between passes.  A set of inputs   *)
(* stands for an array of booleans.                                        *)
(*                                                                         *)
(* Time.  Contact ages are compared with thresholds of a few scan periods, *)
(* so they are counted in scan periods, up to the largest threshold; a     *)
(* pass may take up to MaxGap of them.  The thresholds in milliseconds are *)
(* a hundred times longer, and all that is asked of each is whether it has *)
(* passed: guardOver, long, repeatDue and windowOver say so, and become    *)
(* true at any time while the code would be waiting.                       *)
(*                                                                         *)
(* Error lines, the status line and the ready beacon change nothing but    *)
(* the sequence number of the diagnostic channel and are left out.         *)
(***************************************************************************)
EXTENDS Naturals

CONSTANTS
    Mains,           \* main keys
    Touched,         \* bound: the inputs whose contacts ever close
    Roll,            \* kRollReleaseLeadUs
    Press, Release,  \* kPressDebounceUs, kReleaseDebounceUs
    MaxGap,          \* bound: scan periods one pass of loop() takes
    MaxEvents        \* kMaxEventsPerSecond

ShiftSpace == 0
PunctuationEnter == 1
RareLanguage == 2
NumberBackspace == 3
Thumbs == {ShiftSpace, PunctuationEnter, RareLanguage, NumberBackspace}
Inputs == Thumbs \cup Mains

ASSUME FirmwareAssumption ==
    /\ Mains \cap Thumbs = {}
    /\ Touched \subseteq Inputs
    /\ {Roll, Press, Release, MaxGap, MaxEvents} \subseteq Nat \ {0}
    /\ Roll <= Release /\ Press <= Release

VARIABLES
    raw, stable, previous,  \* sets of inputs: DebouncedInput's three levels
    age,                    \* [Inputs -> scan periods since rawChangedAtUs],
                            \* while the raw level differs from the filtered one
    armed,                  \* g_inputsArmed
    guardOver,              \* kStartupGuardMs have passed since g_bootMs
    down, consumed, repeating,  \* sets of thumbs: ThumbRuntime's flags
    order,                  \* pairs of thumbs down, by pressOrder
    long,                   \* thumbs down for more than kTapHoldThresholdMs
    repeatDue,              \* nextRepeatAtMs of NumberBackspace has come
    language,               \* g_language
    count,                  \* g_eventsInRateWindow
    windowOver,             \* a second has passed since g_rateWindowStartedAtMs
    phase,                  \* where in loop() the next step is
    todo,                   \* inputs this phase has yet to handle
    sent,                   \* history: the user events the last step sent
    outcome,                \* history: what each thumb was used for since pressed
    stale,                  \* history: inputs held since before arming
    firm                    \* history: thumbs closed without a break since pressed

contactVars == <<raw, stable, previous, age>>
armVars == <<armed, guardOver>>
thumbVars == <<down, consumed, repeating, order, long, repeatDue>>
rateVars == <<count, windowOver>>
scanVars == <<phase, todo>>
vars == <<contactVars, armVars, thumbVars, language, rateVars, scanVars, sent,
          outcome, stale, firm>>

Phases == {"idle", "press", "roll", "main", "release", "commit"}
Outcomes == {"none", "tap", "modifier", "repeat", "mixed"}

\* A user event: the input it comes from and the thumbs whose modifier it has.
UserEvent == [input : Inputs, mods : SUBSET Thumbs]

ContactTypeOK ==
    /\ raw \in SUBSET Inputs /\ stable \in SUBSET Inputs
    /\ previous \in SUBSET Inputs
    /\ age \in [Inputs -> 0..Release]

ThumbTypeOK ==
    /\ down \in SUBSET Thumbs /\ consumed \in SUBSET down
    /\ repeating \in SUBSET (down \cap {NumberBackspace})
    /\ order \in SUBSET (down \X down)
    /\ long \in SUBSET down
    /\ repeatDue \in BOOLEAN

RateTypeOK == count \in 0..MaxEvents /\ windowOver \in BOOLEAN

ScanTypeOK == phase \in Phases /\ todo \in SUBSET Inputs

HistoryTypeOK ==
    /\ sent \in SUBSET UserEvent
    /\ outcome \in [Thumbs -> Outcomes]
    /\ stale \in SUBSET Inputs /\ firm \in SUBSET Thumbs

\* Every variable has its type; a flag of a thumb is set only while it is down.
TypeOK ==
    /\ ContactTypeOK /\ ThumbTypeOK /\ RateTypeOK /\ ScanTypeOK /\ HistoryTypeOK
    /\ armed \in BOOLEAN /\ guardOver \in BOOLEAN
    /\ language \in {"en", "ru"}

\* setup(): a key may already be down when the device is plugged in.
Init ==
    /\ raw \in SUBSET Touched
    /\ stable = raw /\ previous = raw
    /\ age = [i \in Inputs |-> 0]
    /\ armed = FALSE /\ guardOver = FALSE
    /\ down = {} /\ consumed = {} /\ repeating = {} /\ long = {}
    /\ order = {}
    /\ repeatDue = FALSE
    /\ language = "en"
    /\ count = 0 /\ windowOver = FALSE
    /\ phase = "idle" /\ todo = {}
    /\ sent = {}
    /\ outcome = [t \in Thumbs |-> "none"]
    /\ stale = raw /\ firm = {}

-----------------------------------------------------------------------------
(* Helpers.                                                                *)

pressedEdges == stable \ previous
releasedEdges == previous \ stable

\* The loops over inputs run in index order.
IsFirst(t, S) == t \in S /\ \A u \in S : t <= u

\* allowUserEvent: a limit on events per second, in consecutive windows.
allowUserEvent == windowOver \/ count < MaxEvents

CountEvent ==
    /\ windowOver' = FALSE
    /\ count' = CASE windowOver -> 1
                  [] ~windowOver /\ count < MaxEvents -> count + 1
                  [] OTHER -> count

\* What a press has been used for, when it is used (once more) as u.
Used(o, u) == IF o = "none" \/ (o = u /\ u # "tap") THEN u ELSE "mixed"

\* An event leaves for the host unless the limit is reached; the thumbs in
\* users are used as u if it does.
Send(i, mods, users, u) ==
    /\ CountEvent
    /\ IF allowUserEvent
       THEN /\ sent' = {[input |-> i, mods |-> mods]}
            /\ outcome' = [t \in Thumbs |-> IF t \in users
                                            THEN Used(outcome[t], u)
                                            ELSE outcome[t]]
       ELSE sent' = {} /\ UNCHANGED outcome

\* makeThumbRuntime, assigned to the thumbs in S.
ClearThumbs(S) ==
    /\ down' = down \ S /\ consumed' = consumed \ S
    /\ repeating' = repeating \ S /\ long' = long \ S
    /\ order' = {p \in order : p[1] \notin S /\ p[2] \notin S}
    /\ repeatDue' = (repeatDue /\ NumberBackspace \notin S)

-----------------------------------------------------------------------------
(* sampleInputs and updateInputArming.                                     *)

\* Mutant: observeRaw notes the time of every sample, not of every change.
ElapsedRestarts(i, contacts, gap) == 0

\* observeRaw: how long the contact of i has been as it is now.
Elapsed(i, contacts, gap) ==
    IF (i \in raw) # (i \in contacts) THEN 0 ELSE age[i] + gap

\* advanceDebounce: the filtered level follows the raw one after a while.
Settles(i, contacts, gap) ==
    Elapsed(i, contacts, gap) >= (IF i \in contacts THEN Press ELSE Release)

\* updateInputArming, once the filtered levels are known.
ArmsWith(levels) == armed \/ (guardOver /\ levels = {})

\* A pass whose inputs are not armed goes on with committing the edges.
Sample ==
    /\ phase = "idle"
    /\ \E contacts \in SUBSET Touched, gap \in 1..MaxGap :
         /\ raw' = contacts
         /\ stable' = {i \in Inputs : IF Settles(i, contacts, gap)
                                      THEN i \in contacts ELSE i \in stable}
         /\ age' = [i \in Inputs |-> IF (i \in contacts) = (i \in stable')
                                     THEN 0 ELSE Elapsed(i, contacts, gap)]
    /\ armed' = ArmsWith(stable')
    /\ IF armed'
       THEN phase' = "press" /\ todo' = (stable' \ previous) \cap Thumbs
       ELSE phase' = "commit" /\ UNCHANGED todo
    /\ sent' = {}
    /\ stale' = stale \cap stable'
    /\ firm' = firm \cap raw'
    /\ outcome' = [t \in Thumbs |-> IF t \in stable THEN outcome[t] ELSE "none"]
    /\ UNCHANGED <<previous, guardOver, thumbVars, language, rateVars>>

-----------------------------------------------------------------------------
(* processInputEdges.                                                      *)

\* pressOrder comes from a counter; all that is read of it is which of the
\* thumbs that are down was pressed first, so that relation is kept.
handleThumbPress ==
    /\ phase = "press"
    /\ \E t \in Thumbs :
         /\ IsFirst(t, todo)
         /\ todo' = todo \ {t}
         /\ down' = down \cup {t}
         /\ consumed' = consumed \ {t} /\ repeating' = repeating \ {t}
         /\ long' = long \ {t}
         /\ repeatDue' = (repeatDue /\ t # NumberBackspace)
         /\ order' = {p \in order : t \notin {p[1], p[2]}}
                        \cup ((down \ {t}) \X {t})
         /\ firm' = firm \cup {t}
    /\ sent' = {}
    /\ UNCHANGED <<contactVars, armVars, language, rateVars, phase, outcome,
                   stale>>

\* Mutant: every thumb that is down is finalized before a main press.
RawReleasedOrNot == down \cap stable

\* Thumbs that are down with a contact that has been open for Roll.
RawReleased == {t \in down \cap stable : t \notin raw /\ age[t] >= Roll}

\* Mutant: there is no early finalization.
PressesDoneNoRoll ==
    /\ phase = "press" /\ todo = {}
    /\ IF pressedEdges \cap Mains # {}
       THEN phase' = "main" /\ todo' = pressedEdges \cap Mains
       ELSE phase' = "release" /\ todo' = releasedEdges \cap Thumbs
    /\ sent' = {}
    /\ UNCHANGED <<contactVars, armVars, thumbVars, language, rateVars, outcome,
                   stale, firm>>

\* Released thumbs are finalized early only when a main key is ready.
PressesDone ==
    /\ phase = "press" /\ todo = {}
    /\ IF pressedEdges \cap Mains # {}
       THEN phase' = "roll" /\ todo' = RawReleased
       ELSE phase' = "release" /\ todo' = releasedEdges \cap Thumbs
    /\ sent' = {}
    /\ UNCHANGED <<contactVars, armVars, thumbVars, language, rateVars, outcome,
                   stale, firm>>

\* Mutant: a thumb that was a modifier is a tap as well.
TapDueIfConsumed(t) ==
    /\ armed /\ t \in down
    /\ IF t = NumberBackspace THEN t \notin repeating ELSE t \notin long

\* A thumb that was neither a modifier nor held for long is a tap; Backspace is
\* one as long as it has not repeated.
TapDue(t) ==
    /\ armed /\ t \in down \ consumed
    /\ IF t = NumberBackspace THEN t \notin repeating ELSE t \notin long

handleThumbRelease(t) ==
    /\ IF t \in down THEN ClearThumbs({t}) ELSE UNCHANGED thumbVars
    /\ \/ /\ TapDue(t) /\ t # RareLanguage
          /\ Send(t, {}, {t}, "tap")
          /\ UNCHANGED language
       \/ /\ TapDue(t) /\ t = RareLanguage
          /\ language' = IF language = "en" THEN "ru" ELSE "en"
          /\ sent' = {[input |-> t, mods |-> {}]}
          /\ outcome' = [outcome EXCEPT ![t] = Used(@, "tap")]
          /\ UNCHANGED rateVars
       \/ /\ ~TapDue(t)
          /\ sent' = {}
          /\ UNCHANGED <<language, rateVars, outcome>>

\* finalizeRawReleasedThumbTaps: a tap that rolls into the next letter.
RollTap ==
    /\ phase = "roll"
    /\ \E t \in Thumbs :
         IsFirst(t, todo) /\ todo' = todo \ {t} /\ handleThumbRelease(t)
    /\ UNCHANGED <<contactVars, armVars, phase, stale, firm>>

RollsDone ==
    /\ phase = "roll" /\ todo = {}
    /\ phase' = "main" /\ todo' = pressedEdges \cap Mains
    /\ sent' = {}
    /\ UNCHANGED <<contactVars, armVars, thumbVars, language, rateVars, outcome,
                   stale, firm>>

\* decideMainStroke.  A set of thumbs stands for the modifier bits.
activeModeThumbs == down \ ({ShiftSpace} \cup repeating)
selectModeThumb ==
    {t \in activeModeThumbs : \A u \in activeModeThumbs : <<u, t>> \notin order}
Modifiers == (down \cap {ShiftSpace}) \cup selectModeThumb

\* Mutant: every thumb is marked consumed, pressed or not.
MainPressConsumesAll(b) ==
    /\ phase = "main" /\ b \in todo
    /\ todo' = todo \ {b}
    /\ consumed' = Thumbs
    /\ Send(b, Modifiers, Modifiers, "modifier")
    /\ UNCHANGED <<contactVars, armVars, down, repeating, order, long, repeatDue,
                   language, phase, stale, firm>>

\* consumePressedThumbs and sendStroke.  Main keys of one pass are independent
\* of each other, so their order is left open.
handleMainPress(b) ==
    /\ phase = "main" /\ b \in todo
    /\ todo' = todo \ {b}
    /\ consumed' = consumed \cup down
    /\ Send(b, Modifiers, Modifiers, "modifier")
    /\ UNCHANGED <<contactVars, armVars, down, repeating, order, long, repeatDue,
                   language, phase, stale, firm>>

MainsDone ==
    /\ phase = "main" /\ todo = {}
    /\ phase' = "release" /\ todo' = releasedEdges \cap Thumbs
    /\ sent' = {}
    /\ UNCHANGED <<contactVars, armVars, thumbVars, language, rateVars, outcome,
                   stale, firm>>

ReleaseThumb ==
    /\ phase = "release"
    /\ \E t \in Thumbs :
         IsFirst(t, todo) /\ todo' = todo \ {t} /\ handleThumbRelease(t)
    /\ UNCHANGED <<contactVars, armVars, phase, stale, firm>>

-----------------------------------------------------------------------------
(* The end of a pass.                                                      *)

RepeatNow ==
    repeatDue /\ NumberBackspace \in down \ consumed

handleBackspaceRepeat ==
    /\ phase = "release" /\ todo = {}
    /\ phase' = "commit"
    /\ IF RepeatNow
       THEN /\ repeating' = repeating \cup {NumberBackspace}
            /\ repeatDue' = FALSE
            /\ Send(NumberBackspace, {}, {NumberBackspace}, "repeat")
       ELSE /\ sent' = {}
            /\ UNCHANGED <<repeating, repeatDue, rateVars, outcome>>
    /\ UNCHANGED <<contactVars, armVars, down, consumed, order, long, language,
                   todo, stale, firm>>

commitInputEdges ==
    /\ phase = "commit"
    /\ previous' = stable
    /\ phase' = "idle"
    /\ sent' = {}
    /\ UNCHANGED <<raw, stable, age, armVars, thumbVars, language, rateVars, todo,
                   outcome, stale, firm>>

-----------------------------------------------------------------------------
(* Host commands and time, between passes.                                 *)

\* Mutant: a reset disarms the inputs and keeps the thumbs that are down.
ResetKeepsThumbs ==
    /\ phase = "idle"
    /\ armed' = FALSE /\ guardOver' = FALSE
    /\ sent' = {}
    /\ stale' = stable /\ firm' = {}
    /\ UNCHANGED <<contactVars, thumbVars, language, rateVars, scanVars, outcome>>

\* Mutant: a reset starts the guard time again and nothing else.
ResetRestartsGuard ==
    /\ phase = "idle"
    /\ guardOver' = FALSE
    /\ sent' = {}
    /\ stale' = stable /\ firm' = {}
    /\ UNCHANGED <<contactVars, armed, thumbVars, language, rateVars, scanVars,
                   outcome>>

\* v2,cmd,reset: rearmAfterRelease.
Reset ==
    /\ phase = "idle"
    /\ armed' = FALSE /\ guardOver' = FALSE
    /\ ClearThumbs(Thumbs)
    /\ sent' = {}
    /\ stale' = stable /\ firm' = {}
    /\ UNCHANGED <<contactVars, language, rateVars, scanVars, outcome>>

\* v2,cmd,lang: the language is announced, which is no event of a key.
SetLanguage ==
    /\ phase = "idle"
    /\ language' \in {"en", "ru"}
    /\ sent' = {}
    /\ UNCHANGED <<contactVars, armVars, thumbVars, rateVars, scanVars, outcome,
                   stale, firm>>

GuardPasses ==
    /\ phase = "idle" /\ ~guardOver
    /\ guardOver' = TRUE
    /\ sent' = {}
    /\ UNCHANGED <<contactVars, armed, thumbVars, language, rateVars, scanVars,
                   outcome, stale, firm>>

HoldPasses(t) ==
    /\ phase = "idle" /\ t \in down \ long
    /\ long' = long \cup {t}
    /\ sent' = {}
    /\ UNCHANGED <<contactVars, armVars, down, consumed, repeating, order,
                   repeatDue, language, rateVars, scanVars, outcome, stale, firm>>

RepeatPasses ==
    /\ phase = "idle" /\ NumberBackspace \in down /\ ~repeatDue
    /\ repeatDue' = TRUE
    /\ sent' = {}
    /\ UNCHANGED <<contactVars, armVars, down, consumed, repeating, order, long,
                   language, rateVars, scanVars, outcome, stale, firm>>

WindowPasses ==
    /\ phase = "idle" /\ ~windowOver /\ count > 0
    /\ windowOver' = TRUE
    /\ sent' = {}
    /\ UNCHANGED <<contactVars, armVars, thumbVars, language, count, scanVars,
                   outcome, stale, firm>>

ScanStep ==
    \/ Sample \/ handleThumbPress \/ PressesDone \/ RollTap \/ RollsDone
    \/ (\E b \in Mains : handleMainPress(b)) \/ MainsDone \/ ReleaseThumb
    \/ handleBackspaceRepeat \/ commitInputEdges

TimePasses ==
    \/ GuardPasses \/ RepeatPasses \/ WindowPasses
    \/ \E t \in Thumbs : HoldPasses(t)

Next == ScanStep \/ TimePasses \/ Reset \/ SetLanguage

Spec == Init /\ [][Next]_vars

\* loop() runs for ever, and time passes.  The guard is compared with the clock
\* once a pass, so that its time has passed is seen between passes only; as
\* passes end, strong fairness says no more than that the clock goes on.
FairSpec == Spec /\ WF_vars(ScanStep) /\ SF_vars(GuardPasses)

-----------------------------------------------------------------------------
(* Properties.                                                             *)

\* A press of a thumb has one outcome: a tap (once), a modifier, or repeated
\* Backspaces, however its contact bounces and whatever is pressed meanwhile.
OneOutcome == \A t \in Thumbs : outcome[t] # "mixed"

\* No modifier is stuck: between passes a thumb counts as down only while its
\* filtered contact is closed, and never while the keyboard is not armed.
NoStuckThumb ==
    phase = "idle" => down \subseteq (IF armed THEN stable ELSE {})

\* A modifier is of a thumb that is still held, or was a moment ago: a contact
\* that has been open for Roll modifies a stroke in no pass but the one in which
\* its release settles (NoFalseModifier below says what is wrong with that one).
NoLateModifier ==
    \A e \in sent : \A t \in e.mods :
        t \in raw \/ age[t] < Roll \/ t \in releasedEdges

\* A key held since before the device was armed, at start-up or by a reset,
\* types nothing and modifies nothing until it was released.
NoStaleInput == \A e \in sent : ({e.input} \cup e.mods) \cap stale = {}

\* No missed modifier: a stroke carries Shift if Shift has been closed without a
\* break since it was pressed, and a mode if such a thumb selects one (a
\* repeating Backspace does not).
FirmThumbModifies ==
    \A e \in sent : e.input \in Mains =>
        /\ ShiftSpace \in firm => ShiftSpace \in e.mods
        /\ firm \ ({ShiftSpace} \cup repeating) # {} =>
              \E t \in e.mods : t # ShiftSpace

\* After a reset the keyboard works again once all keys are released, unless it
\* is reset again.
ReleasedKeyboardArms ==
    (<>[](raw = {}) /\ <>[][~Reset]_vars) => <>[]armed

-----------------------------------------------------------------------------
(* What the code says of itself and does not keep.                         *)

\* MacroPad.ino says that a thumb tap which rolls into a main key is finalized
\* before the main press, which preserves their order and prevents a false Shift:
\* no stroke carries the modifier of a thumb whose contact has been open for Roll.
NoFalseModifier ==
    \A e \in sent : \A t \in e.mods : t \in raw \/ (t \in stable /\ age[t] < Roll)

\* It also says that a transient contact bounce is not turned into an early tap
\* while the user is still holding the thumb: between passes a thumb whose contact
\* is closed and was not released counts as down.
HeldThumbStaysDown ==
    phase = "idle" /\ armed => raw \cap stable \cap Thumbs \subseteq down
=============================================================================
