--------------------------- MODULE FirmwareProofs ---------------------------
(***************************************************************************)
(* What the firmware's main loop promises for every number of main keys    *)
(* and every choice of the debounce times, the roll lead and the limits.   *)
(***************************************************************************)
EXTENDS Firmware, TLAPS

-----------------------------------------------------------------------------
(* Type correctness.                                                       *)

\* The state after setup() is well typed.
LEMMA InitTyped == Init => TypeOK
  <1> SUFFICES ASSUME Init PROVE TypeOK
    OBVIOUS
  <1>1. raw \in SUBSET Inputs /\ stable \in SUBSET Inputs /\ previous \in SUBSET Inputs
    BY FirmwareAssumption DEF Init
  <1>2. age \in [Inputs -> 0..Release]
    BY FirmwareAssumption DEF Init
  <1>3. armed \in BOOLEAN /\ guardOver \in BOOLEAN
    BY DEF Init
  <1>4. repeatDue \in BOOLEAN /\ windowOver \in BOOLEAN
    BY DEF Init
  <1>5. /\ down \in SUBSET Thumbs /\ consumed \in SUBSET down
        /\ repeating \in SUBSET (down \cap {NumberBackspace})
        /\ order \in SUBSET (down \X down) /\ long \in SUBSET down
    BY DEF Init
  <1>6. language \in {"en", "ru"} /\ phase \in Phases
    BY DEF Init, Phases
  <1>7. count \in 0..MaxEvents
    BY FirmwareAssumption DEF Init
  <1>8. todo \in SUBSET Inputs /\ sent \in SUBSET UserEvent
    BY DEF Init
  <1>9. outcome \in [Thumbs -> Outcomes]
    BY DEF Init, Outcomes
  <1>10. stale \in SUBSET Inputs /\ firm \in SUBSET Thumbs
    BY FirmwareAssumption DEF Init
  <1> QED
    BY <1>1, <1>2, <1>3, <1>4, <1>5, <1>6, <1>7, <1>8, <1>9, <1>10
       DEF TypeOK, ContactTypeOK, ThumbTypeOK, RateTypeOK, ScanTypeOK, HistoryTypeOK
-----------------------------------------------------------------------------
(* What the helpers do to the variables they touch.                        *)

\* makeThumbRuntime keeps the flags of the other thumbs.
LEMMA ClearTyped ==
  ASSUME ThumbTypeOK, NEW S, ClearThumbs(S)
  PROVE  ThumbTypeOK'
  <1>1. down' \in SUBSET Thumbs /\ consumed' \in SUBSET down'
    BY DEF ThumbTypeOK, ClearThumbs
  <1>2. repeating' \in SUBSET (down' \cap {NumberBackspace})
    BY DEF ThumbTypeOK, ClearThumbs
  <1>3. order' \in SUBSET (down' \X down') /\ long' \in SUBSET down'
    BY DEF ThumbTypeOK, ClearThumbs
  <1>4. repeatDue' \in BOOLEAN
    BY DEF ClearThumbs
  <1> QED BY <1>1, <1>2, <1>3, <1>4 DEF ThumbTypeOK

\* The event counter stays within the limit.
LEMMA CountTyped ==
  ASSUME RateTypeOK, CountEvent
  PROVE  RateTypeOK'
  <1>1. windowOver' \in BOOLEAN
    BY DEF CountEvent
  <1>2. count' \in 0..MaxEvents
    <2>1. CASE windowOver
      BY <2>1, FirmwareAssumption DEF RateTypeOK, CountEvent
    <2>2. CASE ~windowOver /\ count < MaxEvents
      BY <2>2, FirmwareAssumption DEF RateTypeOK, CountEvent
    <2>3. CASE ~windowOver /\ ~(count < MaxEvents)
      BY <2>3, FirmwareAssumption DEF RateTypeOK, CountEvent
    <2> QED BY <2>1, <2>2, <2>3
  <1> QED BY <1>1, <1>2 DEF RateTypeOK

\* Using a thumb once more gives one of the outcomes.
LEMMA UsedTyped ==
  ASSUME NEW o \in Outcomes, NEW u \in Outcomes
  PROVE  Used(o, u) \in Outcomes
  BY DEF Used, Outcomes

\* What an event leaves in the histories.
LEMMA SendTyped ==
  ASSUME RateTypeOK, HistoryTypeOK, NEW i \in Inputs, NEW mods \in SUBSET Thumbs,
         NEW users, NEW u \in Outcomes, Send(i, mods, users, u),
         UNCHANGED <<stale, firm>>
  PROVE  RateTypeOK' /\ HistoryTypeOK'
  <1>1. RateTypeOK'
    BY CountTyped DEF Send
  <1>2. sent' \in SUBSET UserEvent
    BY DEF Send, UserEvent
  <1>3. outcome' \in [Thumbs -> Outcomes]
    BY UsedTyped DEF Send, HistoryTypeOK
  <1>4. stale' \in SUBSET Inputs /\ firm' \in SUBSET Thumbs
    BY DEF HistoryTypeOK
  <1> QED BY <1>1, <1>2, <1>3, <1>4 DEF HistoryTypeOK

\* A release removes the thumb, whether or not it was down, and leaves the flags
\* of the others.
LEMMA ReleaseThumbs ==
  ASSUME ThumbTypeOK, NEW t \in Thumbs, handleThumbRelease(t)
  PROVE  /\ ThumbTypeOK'
         /\ down' = down \ {t} /\ consumed' = consumed \ {t}
         /\ repeating' = repeating \ {t}
         /\ order' = {p \in order : p[1] \notin {t} /\ p[2] \notin {t}}
  <1>1. CASE t \in down
    <2>1. ClearThumbs({t})
      BY <1>1 DEF handleThumbRelease
    <2>2. ThumbTypeOK'
      BY <2>1, ClearTyped
    <2> QED BY <2>1, <2>2 DEF ClearThumbs
  <1>2. CASE t \notin down
    <2>1. UNCHANGED thumbVars
      BY <1>2 DEF handleThumbRelease
    <2>2. ThumbTypeOK'
      BY <2>1 DEF ThumbTypeOK, thumbVars
    <2> QED BY <1>2, <2>1, <2>2 DEF ThumbTypeOK, thumbVars
  <1> QED BY <1>1, <1>2

\* A release leaves at most a tap of the thumb, and only if one was due.
LEMMA ReleaseEvents ==
  ASSUME NEW t \in Thumbs, handleThumbRelease(t)
  PROVE  /\ sent' \in SUBSET {[input |-> t, mods |-> {}]}
         /\ outcome' = outcome
              \/ /\ TapDue(t)
                 /\ outcome' = [u \in Thumbs |-> IF u \in {t} THEN Used(outcome[u], "tap")
                                                 ELSE outcome[u]]
              \/ /\ TapDue(t)
                 /\ outcome' = [outcome EXCEPT ![t] = Used(@, "tap")]
  <1>1. CASE TapDue(t) /\ t # RareLanguage
    BY <1>1 DEF handleThumbRelease, Send
  <1>2. CASE TapDue(t) /\ t = RareLanguage
    BY <1>2 DEF handleThumbRelease
  <1>3. CASE ~TapDue(t)
    BY <1>3 DEF handleThumbRelease
  <1> QED BY <1>1, <1>2, <1>3

\* A release keeps every type it touches.
LEMMA ReleaseTyped ==
  ASSUME TypeOK, NEW t \in Thumbs, handleThumbRelease(t), UNCHANGED <<stale, firm>>
  PROVE  /\ ThumbTypeOK' /\ RateTypeOK' /\ HistoryTypeOK'
         /\ language' \in {"en", "ru"}
  <1>0. ThumbTypeOK /\ RateTypeOK /\ HistoryTypeOK /\ language \in {"en", "ru"}
    BY DEF TypeOK
  <1>1. ThumbTypeOK'
    BY <1>0, ReleaseThumbs
  <1>2. t \in Inputs /\ "tap" \in Outcomes
    BY DEF Inputs, Outcomes
  <1>3. CASE TapDue(t) /\ t # RareLanguage
    <2>1. Send(t, {}, {t}, "tap") /\ UNCHANGED language
      BY <1>3 DEF handleThumbRelease
    <2>2. RateTypeOK' /\ HistoryTypeOK'
      BY <1>0, <1>2, <2>1, SendTyped
    <2> QED BY <1>0, <1>1, <2>1, <2>2
  <1>4. CASE TapDue(t) /\ t = RareLanguage
    <2>1. /\ language' = IF language = "en" THEN "ru" ELSE "en"
          /\ sent' = {[input |-> t, mods |-> {}]}
          /\ outcome' = [outcome EXCEPT ![t] = Used(@, "tap")]
          /\ UNCHANGED rateVars
      BY <1>4 DEF handleThumbRelease
    <2>2. RateTypeOK'
      BY <1>0, <2>1 DEF RateTypeOK, rateVars
    <2>3. outcome' \in [Thumbs -> Outcomes]
      BY <1>0, <1>2, <2>1, UsedTyped DEF HistoryTypeOK
    <2>4. sent' \in SUBSET UserEvent
      BY <1>2, <2>1 DEF UserEvent
    <2>5. HistoryTypeOK'
      BY <1>0, <2>3, <2>4 DEF HistoryTypeOK
    <2> QED BY <1>1, <2>1, <2>2, <2>5
  <1>5. CASE ~TapDue(t)
    <2>1. sent' = {} /\ UNCHANGED <<language, rateVars, outcome>>
      BY <1>5 DEF handleThumbRelease
    <2>2. RateTypeOK' /\ HistoryTypeOK'
      BY <1>0, <2>1 DEF RateTypeOK, rateVars, HistoryTypeOK
    <2> QED BY <1>0, <1>1, <2>1, <2>2
  <1> QED BY <1>3, <1>4, <1>5

\* The modifiers of a stroke are thumbs that are down.
LEMMA ModifiersDown ==
  ASSUME ThumbTypeOK
  PROVE  Modifiers \in SUBSET down
  BY DEF Modifiers, selectModeThumb, activeModeThumbs, ThumbTypeOK
-----------------------------------------------------------------------------
(* Every step keeps the types.                                             *)

\* Sampling keeps the types: an age only grows while it is below the threshold.
LEMMA SampleTyped == TypeOK /\ Sample => TypeOK'
  <1> SUFFICES ASSUME TypeOK, Sample PROVE TypeOK'
    OBVIOUS
  <1>1. PICK contacts \in SUBSET Touched, gap \in 1..MaxGap :
          /\ raw' = contacts
          /\ stable' = {i \in Inputs : IF Settles(i, contacts, gap)
                                       THEN i \in contacts ELSE i \in stable}
          /\ age' = [i \in Inputs |-> IF (i \in contacts) = (i \in stable')
                                      THEN 0 ELSE Elapsed(i, contacts, gap)]
    BY DEF Sample
  <1>2. raw' \in SUBSET Inputs /\ stable' \in SUBSET Inputs
    BY <1>1, FirmwareAssumption
  <1>3. age' \in [Inputs -> 0..Release]
    <2> SUFFICES ASSUME NEW i \in Inputs, ~((i \in contacts) = (i \in stable'))
                 PROVE  Elapsed(i, contacts, gap) \in 0..Release
      BY <1>1, FirmwareAssumption
    <2>1. ~Settles(i, contacts, gap)
      BY <1>1
    <2>2. Press \in Nat /\ Release \in Nat /\ Press <= Release /\ MaxGap \in Nat
      BY FirmwareAssumption
    <2>3. gap \in Nat
      BY <2>2
    <2>4. Elapsed(i, contacts, gap) \in Nat
      BY <2>2, <2>3 DEF TypeOK, ContactTypeOK, Elapsed
    <2>5. CASE i \in contacts
      BY <2>1, <2>2, <2>4, <2>5 DEF Settles
    <2>6. CASE i \notin contacts
      BY <2>1, <2>2, <2>4, <2>6 DEF Settles
    <2> QED BY <2>5, <2>6
  <1>4. previous' \in SUBSET Inputs
    BY DEF Sample, TypeOK, ContactTypeOK
  <1>5. ContactTypeOK'
    BY <1>2, <1>3, <1>4 DEF ContactTypeOK
  <1>6. ScanTypeOK'
    BY <1>2 DEF Sample, TypeOK, ScanTypeOK, Phases
  <1>7. armed' \in BOOLEAN /\ guardOver' \in BOOLEAN
    BY DEF Sample, ArmsWith, TypeOK
  <1>8. outcome' \in [Thumbs -> Outcomes]
    BY DEF Sample, TypeOK, HistoryTypeOK, Outcomes
  <1>9. HistoryTypeOK'
    BY <1>8 DEF Sample, TypeOK, HistoryTypeOK
  <1>10. ThumbTypeOK' /\ RateTypeOK'
    BY DEF Sample, TypeOK, ThumbTypeOK, RateTypeOK, thumbVars, rateVars
  <1>11. language' \in {"en", "ru"}
    BY DEF Sample, TypeOK
  <1> QED BY <1>5, <1>6, <1>7, <1>9, <1>10, <1>11 DEF TypeOK

\* So does every other step.
LEMMA NextTyped == TypeOK /\ [Next]_vars => TypeOK'
  <1> SUFFICES ASSUME TypeOK, [Next]_vars PROVE TypeOK'
    OBVIOUS
  <1>0. /\ ContactTypeOK /\ ThumbTypeOK /\ RateTypeOK /\ ScanTypeOK
        /\ HistoryTypeOK /\ armed \in BOOLEAN /\ guardOver \in BOOLEAN
        /\ language \in {"en", "ru"}
    BY DEF TypeOK
  <1>c. UNCHANGED contactVars => ContactTypeOK'
    BY <1>0 DEF contactVars, ContactTypeOK
  <1>t. UNCHANGED thumbVars => ThumbTypeOK'
    BY <1>0 DEF thumbVars, ThumbTypeOK
  <1>r. UNCHANGED rateVars => RateTypeOK'
    BY <1>0 DEF rateVars, RateTypeOK
  <1>h. sent' = {} /\ UNCHANGED <<outcome, stale, firm>> => HistoryTypeOK'
    BY <1>0 DEF HistoryTypeOK
  <1>s. todo' \in SUBSET Inputs /\ phase' \in Phases => ScanTypeOK'
    BY DEF ScanTypeOK
  <1>a. UNCHANGED armVars => armed' \in BOOLEAN /\ guardOver' \in BOOLEAN
    BY <1>0 DEF armVars
  <1>1. CASE Sample
    BY <1>1, SampleTyped
  <1>2. CASE handleThumbPress
    <2>1. PICK t \in Thumbs :
            /\ todo' = todo \ {t} /\ down' = down \cup {t}
            /\ consumed' = consumed \ {t} /\ repeating' = repeating \ {t}
            /\ long' = long \ {t}
            /\ repeatDue' = (repeatDue /\ t # NumberBackspace)
            /\ order' = {p \in order : t \notin {p[1], p[2]}}
                           \cup ((down \ {t}) \X {t})
            /\ firm' = firm \cup {t}
      BY <1>2 DEF handleThumbPress
    <2>2. repeatDue' \in BOOLEAN
      BY <2>1
    <2>3. order' \in SUBSET (down' \X down')
      BY <1>0, <2>1 DEF ThumbTypeOK
    <2>4. ThumbTypeOK'
      BY <1>0, <2>1, <2>2, <2>3 DEF ThumbTypeOK
    <2>5. ScanTypeOK'
      BY <1>0, <1>2, <2>1 DEF ScanTypeOK, handleThumbPress
    <2>6. HistoryTypeOK'
      BY <1>0, <1>2, <2>1 DEF HistoryTypeOK, handleThumbPress
    <2> QED BY <1>0, <1>2, <1>c, <1>r, <1>a, <2>4, <2>5, <2>6
            DEF TypeOK, handleThumbPress
  <1>3. CASE PressesDone
    <2>1. ScanTypeOK'
      <3>1. todo' \in SUBSET Inputs
        BY <1>0, <1>3 DEF PressesDone, RawReleased, pressedEdges, releasedEdges,
                          Inputs, ThumbTypeOK
      <3>2. phase' \in Phases
        BY <1>3 DEF PressesDone, Phases
      <3> QED BY <3>1, <3>2 DEF ScanTypeOK
    <2> QED BY <1>0, <1>3, <1>c, <1>t, <1>r, <1>h, <1>a, <2>1
            DEF TypeOK, PressesDone
  <1>4. CASE RollTap
    <2>1. PICK t \in Thumbs : todo' = todo \ {t} /\ handleThumbRelease(t)
      BY <1>4 DEF RollTap
    <2>2. ThumbTypeOK' /\ RateTypeOK' /\ HistoryTypeOK' /\ language' \in {"en", "ru"}
      BY <1>4, <2>1, ReleaseTyped DEF RollTap
    <2>3. ScanTypeOK'
      BY <1>0, <1>4, <2>1 DEF ScanTypeOK, RollTap
    <2> QED BY <1>0, <1>4, <1>c, <1>a, <2>2, <2>3 DEF TypeOK, RollTap
  <1>5. CASE RollsDone
    <2>1. todo' \in SUBSET Inputs /\ phase' \in Phases
      BY <1>5 DEF RollsDone, Phases, Inputs
    <2> QED BY <1>0, <1>5, <1>c, <1>t, <1>r, <1>h, <1>s, <1>a, <2>1
            DEF TypeOK, RollsDone
  <1>6. ASSUME NEW b \in Mains, handleMainPress(b) PROVE TypeOK'
    <2>1. ThumbTypeOK'
      BY <1>0, <1>6 DEF ThumbTypeOK, handleMainPress
    <2>2. Modifiers \in SUBSET Thumbs /\ b \in Inputs /\ "modifier" \in Outcomes
      BY <1>0, ModifiersDown DEF ThumbTypeOK, Inputs, Outcomes
    <2>3. RateTypeOK' /\ HistoryTypeOK'
      BY <1>0, <1>6, <2>2, SendTyped DEF handleMainPress
    <2>4. ScanTypeOK'
      BY <1>0, <1>6 DEF ScanTypeOK, handleMainPress
    <2> QED BY <1>0, <1>6, <1>c, <1>a, <2>1, <2>3, <2>4
            DEF TypeOK, handleMainPress
  <1>7. CASE MainsDone
    <2>1. todo' \in SUBSET Inputs /\ phase' \in Phases
      BY <1>7 DEF MainsDone, Phases, Inputs
    <2> QED BY <1>0, <1>7, <1>c, <1>t, <1>r, <1>h, <1>s, <1>a, <2>1
            DEF TypeOK, MainsDone
  <1>8. CASE ReleaseThumb
    <2>1. PICK t \in Thumbs : todo' = todo \ {t} /\ handleThumbRelease(t)
      BY <1>8 DEF ReleaseThumb
    <2>2. ThumbTypeOK' /\ RateTypeOK' /\ HistoryTypeOK' /\ language' \in {"en", "ru"}
      BY <1>8, <2>1, ReleaseTyped DEF ReleaseThumb
    <2>3. ScanTypeOK'
      BY <1>0, <1>8, <2>1 DEF ScanTypeOK, ReleaseThumb
    <2> QED BY <1>0, <1>8, <1>c, <1>a, <2>2, <2>3 DEF TypeOK, ReleaseThumb
  <1>9. CASE handleBackspaceRepeat
    <2>1. ThumbTypeOK'
      <3>1. repeatDue' \in BOOLEAN
        BY <1>0, <1>9 DEF ThumbTypeOK, handleBackspaceRepeat
      <3>2. repeating' \in SUBSET (down' \cap {NumberBackspace})
        BY <1>0, <1>9 DEF ThumbTypeOK, handleBackspaceRepeat, RepeatNow
      <3> QED BY <1>0, <1>9, <3>1, <3>2 DEF ThumbTypeOK, handleBackspaceRepeat
    <2>2. RateTypeOK' /\ HistoryTypeOK'
      <3>1. CASE RepeatNow
        <4>1. NumberBackspace \in Inputs /\ "repeat" \in Outcomes
          BY DEF Inputs, Thumbs, Outcomes
        <4>2. Send(NumberBackspace, {}, {NumberBackspace}, "repeat")
          BY <1>9, <3>1 DEF handleBackspaceRepeat
        <4> QED BY <1>0, <1>9, <4>1, <4>2, SendTyped DEF handleBackspaceRepeat
      <3>2. CASE ~RepeatNow
        BY <1>9, <3>2, <1>r, <1>h DEF handleBackspaceRepeat
      <3> QED BY <3>1, <3>2
    <2>3. ScanTypeOK'
      BY <1>0, <1>9 DEF ScanTypeOK, handleBackspaceRepeat, Phases
    <2> QED BY <1>0, <1>9, <1>c, <1>a, <2>1, <2>2, <2>3
            DEF TypeOK, handleBackspaceRepeat
  <1>10. CASE commitInputEdges
    <2>1. ContactTypeOK' /\ ScanTypeOK'
      BY <1>0, <1>10 DEF ContactTypeOK, ScanTypeOK, commitInputEdges, Phases
    <2> QED BY <1>0, <1>10, <1>t, <1>r, <1>h, <1>a, <2>1
            DEF TypeOK, commitInputEdges
  <1>11. CASE Reset
    <2>1. ThumbTypeOK'
      BY <1>0, <1>11, ClearTyped DEF Reset
    <2>2. HistoryTypeOK'
      BY <1>0, <1>11 DEF HistoryTypeOK, ContactTypeOK, Reset
    <2>3. ScanTypeOK'
      BY <1>0, <1>11 DEF ScanTypeOK, Reset, scanVars
    <2> QED BY <1>0, <1>11, <1>c, <1>r, <2>1, <2>2, <2>3 DEF TypeOK, Reset
  <1>12. CASE SetLanguage
    <2>1. ScanTypeOK'
      BY <1>0, <1>12 DEF ScanTypeOK, SetLanguage, scanVars
    <2> QED BY <1>0, <1>12, <1>c, <1>t, <1>r, <1>h, <1>a, <2>1
            DEF TypeOK, SetLanguage
  <1>13. CASE GuardPasses
    <2>1. ScanTypeOK'
      BY <1>0, <1>13 DEF ScanTypeOK, GuardPasses, scanVars
    <2> QED BY <1>0, <1>13, <1>c, <1>t, <1>r, <1>h, <2>1 DEF TypeOK, GuardPasses
  <1>14. ASSUME NEW t \in Thumbs, HoldPasses(t) PROVE TypeOK'
    <2>1. ScanTypeOK'
      BY <1>0, <1>14 DEF ScanTypeOK, HoldPasses, scanVars
    <2>2. ThumbTypeOK'
      BY <1>0, <1>14 DEF ThumbTypeOK, HoldPasses
    <2> QED BY <1>0, <1>14, <1>c, <1>r, <1>h, <1>a, <2>1, <2>2
            DEF TypeOK, HoldPasses
  <1>15. CASE RepeatPasses
    <2>1. ScanTypeOK'
      BY <1>0, <1>15 DEF ScanTypeOK, RepeatPasses, scanVars
    <2>2. ThumbTypeOK'
      BY <1>0, <1>15 DEF ThumbTypeOK, RepeatPasses
    <2> QED BY <1>0, <1>15, <1>c, <1>r, <1>h, <1>a, <2>1, <2>2
            DEF TypeOK, RepeatPasses
  <1>16. CASE WindowPasses
    <2>1. ScanTypeOK'
      BY <1>0, <1>16 DEF ScanTypeOK, WindowPasses, scanVars
    <2>2. RateTypeOK'
      BY <1>0, <1>16 DEF RateTypeOK, WindowPasses
    <2> QED BY <1>0, <1>16, <1>c, <1>t, <1>h, <1>a, <2>1, <2>2
            DEF TypeOK, WindowPasses
  <1>17. CASE UNCHANGED vars
    <2>1. ScanTypeOK' /\ HistoryTypeOK'
      BY <1>0, <1>17 DEF ScanTypeOK, HistoryTypeOK, vars, scanVars
    <2> QED BY <1>0, <1>17, <1>c, <1>t, <1>r, <1>a, <2>1 DEF TypeOK, vars
  <1> QED
    BY <1>1, <1>2, <1>3, <1>4, <1>5, <1>6, <1>7, <1>8, <1>9, <1>10, <1>11,
       <1>12, <1>13, <1>14, <1>15, <1>16, <1>17 DEF Next, ScanStep, TimePasses

\* Every variable has its type in every reachable state.
THEOREM FirmwareTypeCorrect == Spec => []TypeOK
  BY InitTyped, NextTyped, PTL DEF Spec
-----------------------------------------------------------------------------
(* The inductive invariant.                                                *)

\* Where the loop is: between passes the edges are committed, edges are handled
\* only while the keyboard is armed, and each phase has left to do what its name
\* says.
Position ==
    /\ phase \notin {"idle", "commit"} => armed
    /\ ~armed => down = {}
    /\ phase \in {"idle", "commit"} => todo = {} /\ down \subseteq stable
    /\ phase = "idle" => previous = stable
    /\ phase = "press" => todo \subseteq pressedEdges \cap Thumbs
    /\ phase \in {"press", "roll", "main"} => down \subseteq previous \cup stable
    /\ phase = "roll" => RawReleased \subseteq todo /\ todo \cap raw = {}
    /\ phase = "main" => RawReleased = {} /\ todo \subseteq pressedEdges \cap Mains
    /\ phase = "release" => /\ todo \subseteq releasedEdges
                            /\ down \subseteq stable \cup todo

\* An edge has the level its contact has now; a thumb closed since it was pressed
\* is down; and once armed nothing is held from before.
Contacts ==
    /\ pressedEdges \subseteq raw /\ releasedEdges \cap raw = {}
    /\ firm \subseteq down \cap raw
    /\ armed => stale = {}

\* The thumbs that are down are ordered by when they were pressed.
Ordered ==
    /\ \A t \in Thumbs : <<t, t>> \notin order
    /\ \A t, u, v \in Thumbs :
         <<t, u>> \in order /\ <<u, v>> \in order => <<t, v>> \in order

\* The flags of a thumb that is down remember what it was used for, and a thumb
\* about to be pressed was used for nothing yet.
Remembered ==
    /\ \A t \in Thumbs :
         /\ outcome[t] # "mixed"
         /\ outcome[t] = "tap" => t \notin down
         /\ outcome[t] = "modifier" => t \in consumed \/ t \notin down
         /\ outcome[t] = "repeat" => t \in repeating \/ t \notin down
    /\ phase = "press" => \A t \in todo : outcome[t] = "none"

-----------------------------------------------------------------------------
(* It holds after setup().                                                 *)

\* Nothing is down and no edge is pending.
LEMMA InitInvariant == Init => Position /\ Contacts /\ Ordered /\ Remembered
  <1> SUFFICES ASSUME Init PROVE Position /\ Contacts /\ Ordered /\ Remembered
    OBVIOUS
  <1>1. Position
    BY DEF Init, Position
  <1>2. Contacts
    BY DEF Init, Contacts, pressedEdges, releasedEdges
  <1>3. Ordered
    BY DEF Init, Ordered
  <1>4. Remembered
    BY DEF Init, Remembered
  <1> QED BY <1>1, <1>2, <1>3, <1>4

-----------------------------------------------------------------------------
(* Every step keeps it.                                                    *)

\* A filtered level that has just changed is the raw one, and arming waits for
\* all of them to be open.
LEMMA SampleLevels ==
  ASSUME TypeOK, Sample
  PROVE  /\ stable' \ stable \subseteq raw' /\ (stable \ stable') \cap raw' = {}
         /\ armed' => armed \/ stable' = {}
         /\ armed => armed'
  <1>1. PICK contacts \in SUBSET Touched, gap \in 1..MaxGap :
          /\ raw' = contacts
          /\ stable' = {i \in Inputs : IF Settles(i, contacts, gap)
                                       THEN i \in contacts ELSE i \in stable}
    BY DEF Sample
  <1>2. stable' \ stable \subseteq raw' /\ (stable \ stable') \cap raw' = {}
    BY <1>1 DEF TypeOK, ContactTypeOK
  <1>3. armed' = (armed \/ (guardOver /\ stable' = {}))
    BY DEF Sample, ArmsWith
  <1> QED BY <1>2, <1>3 DEF TypeOK

\* The position in the loop.
LEMMA PositionKept == TypeOK /\ Position /\ [Next]_vars => Position'
  <1> SUFFICES ASSUME TypeOK, Position, [Next]_vars PROVE Position'
    OBVIOUS
  <1>0. ThumbTypeOK /\ ContactTypeOK /\ ScanTypeOK /\ armed \in BOOLEAN
    BY DEF TypeOK
  <1>u. UNCHANGED <<contactVars, armed, down, scanVars>> => Position'
    BY DEF Position, contactVars, scanVars, pressedEdges, releasedEdges, RawReleased
  <1>1. CASE Sample
    <2>1. phase = "idle" /\ previous = stable /\ down \subseteq stable /\ todo = {}
      BY <1>1 DEF Sample, Position
    <2>2. previous' = previous /\ down' = down
      BY <1>1 DEF Sample, thumbVars
    <2>3. CASE armed'
      <3>1. phase' = "press" /\ todo' = (stable' \ previous) \cap Thumbs
        BY <1>1, <2>3 DEF Sample
      <3> QED BY <2>1, <2>2, <2>3, <3>1 DEF Position, pressedEdges
    <2>4. CASE ~armed'
      <3>1. phase' = "commit" /\ todo' = todo
        BY <1>1, <2>4 DEF Sample
      <3>2. down = {}
        BY <1>1, <2>4, SampleLevels DEF Position
      <3> QED BY <2>1, <2>2, <2>4, <3>1, <3>2 DEF Position
    <2> QED BY <2>3, <2>4
  <1>2. CASE handleThumbPress
    <2>1. PICK t \in Thumbs : t \in todo /\ todo' = todo \ {t} /\ down' = down \cup {t}
      BY <1>2 DEF handleThumbPress, IsFirst
    <2>2. /\ phase = "press" /\ phase' = phase /\ armed' = armed
          /\ stable' = stable /\ previous' = previous
      BY <1>2 DEF handleThumbPress, contactVars, armVars
    <2> QED BY <2>1, <2>2 DEF Position, pressedEdges
  <1>3. CASE PressesDone
    <2>1. /\ phase = "press" /\ UNCHANGED <<raw, stable, previous, age, armed, down>>
      BY <1>3 DEF PressesDone, contactVars, armVars, thumbVars
    <2>2. CASE pressedEdges \cap Mains # {}
      <3>1. phase' = "roll" /\ todo' = RawReleased
        BY <1>3, <2>2 DEF PressesDone
      <3> QED BY <2>1, <3>1 DEF Position, RawReleased
    <2>3. CASE pressedEdges \cap Mains = {}
      <3>1. phase' = "release" /\ todo' = releasedEdges \cap Thumbs
        BY <1>3, <2>3 DEF PressesDone
      <3> QED BY <1>0, <2>1, <3>1 DEF Position, ThumbTypeOK, releasedEdges
    <2> QED BY <2>2, <2>3
  <1>4. CASE RollTap
    <2>1. PICK t \in Thumbs : todo' = todo \ {t} /\ handleThumbRelease(t)
      BY <1>4 DEF RollTap
    <2>2. down' = down \ {t}
      BY <1>0, <2>1, ReleaseThumbs
    <2>3. phase = "roll" /\ phase' = phase /\ UNCHANGED <<raw, stable, previous, age, armed>>
      BY <1>4 DEF RollTap, contactVars, armVars
    <2>4. RawReleased' \subseteq RawReleased \ {t}
      BY <2>2, <2>3 DEF RawReleased
    <2> QED BY <2>1, <2>2, <2>3, <2>4 DEF Position
  <1>5. CASE RollsDone
    <2>1. /\ phase = "roll" /\ todo = {}
          /\ phase' = "main" /\ todo' = pressedEdges \cap Mains
          /\ UNCHANGED <<raw, stable, previous, age, armed, down>>
      BY <1>5 DEF RollsDone, contactVars, armVars, thumbVars
    <2> QED BY <2>1 DEF Position, RawReleased, pressedEdges
  <1>6. ASSUME NEW b \in Mains, handleMainPress(b) PROVE Position'
    <2>1. /\ phase = "main" /\ phase' = phase /\ todo' = todo \ {b}
          /\ UNCHANGED <<raw, stable, previous, age, armed, down>>
      BY <1>6 DEF handleMainPress, contactVars, armVars
    <2> QED BY <2>1 DEF Position, RawReleased, pressedEdges
  <1>7. CASE MainsDone
    <2>1. /\ phase = "main" /\ phase' = "release"
          /\ todo' = releasedEdges \cap Thumbs
          /\ UNCHANGED <<raw, stable, previous, age, armed, down>>
      BY <1>7 DEF MainsDone, contactVars, armVars, thumbVars
    <2> QED BY <1>0, <2>1 DEF Position, ThumbTypeOK, releasedEdges
  <1>8. CASE ReleaseThumb
    <2>1. PICK t \in Thumbs : todo' = todo \ {t} /\ handleThumbRelease(t)
      BY <1>8 DEF ReleaseThumb
    <2>2. down' = down \ {t}
      BY <1>0, <2>1, ReleaseThumbs
    <2>3. /\ phase = "release" /\ phase' = phase
          /\ UNCHANGED <<raw, stable, previous, age, armed>>
      BY <1>8 DEF ReleaseThumb, contactVars, armVars
    <2> QED BY <2>1, <2>2, <2>3 DEF Position, releasedEdges
  <1>9. CASE handleBackspaceRepeat
    <2>1. /\ phase = "release" /\ todo = {} /\ phase' = "commit" /\ todo' = todo
          /\ UNCHANGED <<stable, previous, armed, down>>
      BY <1>9 DEF handleBackspaceRepeat, contactVars, armVars
    <2> QED BY <2>1 DEF Position
  <1>10. CASE commitInputEdges
    <2>1. /\ phase = "commit" /\ previous' = stable /\ phase' = "idle"
          /\ UNCHANGED <<stable, armed, down, todo>>
      BY <1>10 DEF commitInputEdges, armVars, thumbVars
    <2> QED BY <2>1 DEF Position
  <1>11. CASE Reset
    <2>1. /\ phase = "idle" /\ armed' = FALSE /\ down' = down \ Thumbs
          /\ UNCHANGED <<stable, previous, phase, todo>>
      BY <1>11 DEF Reset, ClearThumbs, contactVars, scanVars
    <2>2. down' = {}
      BY <1>0, <2>1 DEF ThumbTypeOK
    <2> QED BY <2>1, <2>2 DEF Position
  <1>12. CASE SetLanguage
    BY <1>12, <1>u DEF SetLanguage, armVars, thumbVars
  <1>13. CASE GuardPasses
    BY <1>13, <1>u DEF GuardPasses, thumbVars
  <1>14. ASSUME NEW t \in Thumbs, HoldPasses(t) PROVE Position'
    BY <1>14, <1>u DEF HoldPasses, armVars
  <1>15. CASE RepeatPasses
    BY <1>15, <1>u DEF RepeatPasses, armVars
  <1>16. CASE WindowPasses
    BY <1>16, <1>u DEF WindowPasses, armVars, thumbVars
  <1>17. CASE UNCHANGED vars
    BY <1>17, <1>u DEF vars, armVars, thumbVars
  <1> QED
    BY <1>1, <1>2, <1>3, <1>4, <1>5, <1>6, <1>7, <1>8, <1>9, <1>10, <1>11,
       <1>12, <1>13, <1>14, <1>15, <1>16, <1>17 DEF Next, ScanStep, TimePasses

\* Edges agree with the contacts, held thumbs are down, and arming was clean.
LEMMA ContactsKept == TypeOK /\ Position /\ Contacts /\ [Next]_vars => Contacts'
  <1> SUFFICES ASSUME TypeOK, Position, Contacts, [Next]_vars PROVE Contacts'
    OBVIOUS
  <1>0. ThumbTypeOK /\ armed \in BOOLEAN
    BY DEF TypeOK
  <1>u. UNCHANGED <<contactVars, armed, down, stale, firm>> => Contacts'
    BY DEF Contacts, contactVars, pressedEdges, releasedEdges
  <1>1. CASE Sample
    <2>1. previous = stable /\ previous' = previous /\ down' = down
          /\ firm' = firm \cap raw' /\ stale' = stale \cap stable'
      BY <1>1 DEF Sample, Position, thumbVars
    <2>2. /\ stable' \ stable \subseteq raw' /\ (stable \ stable') \cap raw' = {}
          /\ armed' => armed \/ stable' = {}
      BY <1>1, SampleLevels
    <2> QED BY <2>1, <2>2 DEF Contacts, pressedEdges, releasedEdges
  <1>2. CASE handleThumbPress
    <2>1. PICK t \in Thumbs : t \in todo /\ down' = down \cup {t} /\ firm' = firm \cup {t}
      BY <1>2 DEF handleThumbPress, IsFirst
    <2>2. phase = "press" /\ UNCHANGED <<raw, stable, previous, armed, stale>>
      BY <1>2 DEF handleThumbPress, contactVars, armVars
    <2>3. t \in raw
      BY <2>1, <2>2 DEF Position, Contacts
    <2> QED BY <2>1, <2>2, <2>3 DEF Contacts, pressedEdges, releasedEdges
  <1>3. CASE PressesDone
    BY <1>3, <1>u DEF PressesDone, armVars, thumbVars
  <1>4. CASE RollTap
    <2>1. PICK t \in Thumbs : t \in todo /\ handleThumbRelease(t)
      BY <1>4 DEF RollTap, IsFirst
    <2>2. down' = down \ {t}
      BY <1>0, <2>1, ReleaseThumbs
    <2>3. phase = "roll" /\ UNCHANGED <<raw, stable, previous, armed, stale, firm>>
      BY <1>4 DEF RollTap, contactVars, armVars
    <2>4. t \notin raw
      BY <2>1, <2>3 DEF Position
    <2> QED BY <2>2, <2>3, <2>4 DEF Contacts, pressedEdges, releasedEdges
  <1>5. CASE RollsDone
    BY <1>5, <1>u DEF RollsDone, armVars, thumbVars
  <1>6. ASSUME NEW b \in Mains, handleMainPress(b) PROVE Contacts'
    BY <1>6, <1>u DEF handleMainPress, armVars
  <1>7. CASE MainsDone
    BY <1>7, <1>u DEF MainsDone, armVars, thumbVars
  <1>8. CASE ReleaseThumb
    <2>1. PICK t \in Thumbs : t \in todo /\ handleThumbRelease(t)
      BY <1>8 DEF ReleaseThumb, IsFirst
    <2>2. down' = down \ {t}
      BY <1>0, <2>1, ReleaseThumbs
    <2>3. phase = "release" /\ UNCHANGED <<raw, stable, previous, armed, stale, firm>>
      BY <1>8 DEF ReleaseThumb, contactVars, armVars
    <2>4. t \notin raw
      BY <2>1, <2>3 DEF Position, Contacts
    <2> QED BY <2>2, <2>3, <2>4 DEF Contacts, pressedEdges, releasedEdges
  <1>9. CASE handleBackspaceRepeat
    BY <1>9, <1>u DEF handleBackspaceRepeat, armVars
  <1>10. CASE commitInputEdges
    <2>1. previous' = stable /\ UNCHANGED <<raw, stable, armed, down, stale, firm>>
      BY <1>10 DEF commitInputEdges, armVars, thumbVars
    <2> QED BY <2>1 DEF Contacts, pressedEdges, releasedEdges
  <1>11. CASE Reset
    <2>1. armed' = FALSE /\ firm' = {} /\ UNCHANGED <<raw, stable, previous>>
      BY <1>11 DEF Reset, contactVars
    <2> QED BY <2>1 DEF Contacts, pressedEdges, releasedEdges
  <1>12. CASE SetLanguage
    BY <1>12, <1>u DEF SetLanguage, armVars, thumbVars
  <1>13. CASE GuardPasses
    BY <1>13, <1>u DEF GuardPasses, thumbVars
  <1>14. ASSUME NEW t \in Thumbs, HoldPasses(t) PROVE Contacts'
    BY <1>14, <1>u DEF HoldPasses, armVars
  <1>15. CASE RepeatPasses
    BY <1>15, <1>u DEF RepeatPasses, armVars
  <1>16. CASE WindowPasses
    BY <1>16, <1>u DEF WindowPasses, armVars, thumbVars
  <1>17. CASE UNCHANGED vars
    BY <1>17, <1>u DEF vars, armVars, thumbVars
  <1> QED
    BY <1>1, <1>2, <1>3, <1>4, <1>5, <1>6, <1>7, <1>8, <1>9, <1>10, <1>11,
       <1>12, <1>13, <1>14, <1>15, <1>16, <1>17 DEF Next, ScanStep, TimePasses

\* The order of the thumbs: a press adds the youngest, a release takes one out.
LEMMA OrderedKept == TypeOK /\ Ordered /\ [Next]_vars => Ordered'
  <1> SUFFICES ASSUME TypeOK, Ordered, [Next]_vars PROVE Ordered'
    OBVIOUS
  <1>0. ThumbTypeOK
    BY DEF TypeOK
  <1>u. order' = order => Ordered'
    BY DEF Ordered
  <1>r. ASSUME NEW S, order' = {p \in order : p[1] \notin S /\ p[2] \notin S}
        PROVE  Ordered'
    BY <1>r DEF Ordered
  <1>1. CASE handleThumbPress
    <2>1. PICK t \in Thumbs :
            order' = {p \in order : t \notin {p[1], p[2]}} \cup ((down \ {t}) \X {t})
      BY <1>1 DEF handleThumbPress
    <2>2. ASSUME NEW u \in Thumbs PROVE <<u, u>> \notin order'
      BY <2>1 DEF Ordered
    <2>3. ASSUME NEW u \in Thumbs, NEW v \in Thumbs, NEW w \in Thumbs,
                 <<u, v>> \in order', <<v, w>> \in order'
          PROVE  <<u, w>> \in order'
      <3>1. v # t
        BY <2>1, <2>3
      <3>2. <<u, v>> \in order /\ u # t /\ u \in down
        BY <1>0, <2>1, <2>3, <3>1 DEF ThumbTypeOK
      <3>3. CASE w = t
        BY <2>1, <3>2, <3>3
      <3>4. CASE w # t
        <4>1. <<v, w>> \in order
          BY <2>1, <2>3, <3>4
        <4>2. <<u, w>> \in order
          BY <3>2, <4>1 DEF Ordered
        <4> QED BY <2>1, <3>2, <3>4, <4>2
      <3> QED BY <3>3, <3>4
    <2> QED BY <2>2, <2>3 DEF Ordered
  <1>2. ASSUME NEW t \in Thumbs, handleThumbRelease(t) PROVE Ordered'
    <2>1. order' = {p \in order : p[1] \notin {t} /\ p[2] \notin {t}}
      BY <1>0, <1>2, ReleaseThumbs
    <2> QED BY <1>r, <2>1
  <1>3. CASE Reset
    BY <1>3, <1>r DEF Reset, ClearThumbs
  <1>4. CASE RollTap \/ ReleaseThumb
    BY <1>2, <1>4 DEF RollTap, ReleaseThumb
  <1>5. CASE Sample \/ PressesDone \/ RollsDone \/ MainsDone
    BY <1>5, <1>u DEF Sample, PressesDone, RollsDone, MainsDone, thumbVars
  <1>6. ASSUME NEW b \in Mains, handleMainPress(b) PROVE Ordered'
    BY <1>6, <1>u DEF handleMainPress
  <1>7. CASE handleBackspaceRepeat \/ commitInputEdges
    BY <1>7, <1>u DEF handleBackspaceRepeat, commitInputEdges, thumbVars
  <1>8. CASE TimePasses \/ SetLanguage
    BY <1>8, <1>u DEF TimePasses, GuardPasses, HoldPasses, RepeatPasses,
                      WindowPasses, SetLanguage, thumbVars
  <1>9. CASE UNCHANGED vars
    BY <1>9, <1>u DEF vars, thumbVars
  <1> QED
    BY <1>1, <1>3, <1>4, <1>5, <1>6, <1>7, <1>8, <1>9 DEF Next, ScanStep

\* What each press of a thumb was used for.
LEMMA RememberedKept == TypeOK /\ Position /\ Remembered /\ [Next]_vars => Remembered'
  <1> SUFFICES ASSUME TypeOK, Position, Remembered, [Next]_vars PROVE Remembered'
    OBVIOUS
  <1>0. ThumbTypeOK /\ ScanTypeOK /\ HistoryTypeOK
    BY DEF TypeOK
  <1>u. UNCHANGED <<outcome, down, consumed, repeating, scanVars>> => Remembered'
    BY DEF Remembered, scanVars
  <1>q. UNCHANGED <<outcome, down, consumed, repeating>> /\ phase' # "press"
          => Remembered'
    BY DEF Remembered
  <1>1. CASE Sample
    <2>1. UNCHANGED <<down, consumed, repeating>>
      BY <1>1 DEF Sample, thumbVars
    <2>2. outcome' = [t \in Thumbs |-> IF t \in stable THEN outcome[t] ELSE "none"]
      BY <1>1 DEF Sample
    <2>3. ASSUME phase' = "press", NEW t \in todo' PROVE outcome'[t] = "none"
      <3>1. todo' = (stable' \ previous) \cap Thumbs /\ previous = stable
        BY <1>1, <2>3 DEF Sample, Position
      <3> QED BY <2>2, <2>3, <3>1
    <2> QED BY <2>1, <2>2, <2>3 DEF Remembered
  <1>2. CASE handleThumbPress
    <2>1. PICK t \in Thumbs :
            /\ t \in todo /\ todo' = todo \ {t} /\ down' = down \cup {t}
            /\ consumed' = consumed \ {t} /\ repeating' = repeating \ {t}
      BY <1>2 DEF handleThumbPress, IsFirst
    <2>2. phase = "press" /\ phase' = phase /\ outcome' = outcome
      BY <1>2 DEF handleThumbPress
    <2>3. outcome[t] = "none"
      BY <2>1, <2>2 DEF Remembered
    <2> QED BY <2>1, <2>2, <2>3 DEF Remembered
  <1>3. CASE PressesDone
    <2>1. UNCHANGED <<outcome, down, consumed, repeating>> /\ phase' # "press"
      BY <1>3 DEF PressesDone, thumbVars
    <2> QED BY <2>1, <1>q
  <1>4. ASSUME NEW t \in Thumbs, handleThumbRelease(t), phase' # "press"
        PROVE  Remembered'
    <2>1. /\ down' = down \ {t} /\ consumed' = consumed \ {t}
          /\ repeating' = repeating \ {t}
      BY <1>0, <1>4, ReleaseThumbs
    <2>2. CASE outcome' = outcome
      BY <1>4, <2>1, <2>2 DEF Remembered
    <2>3. CASE TapDue(t)
      <3>1. t \in down \ consumed /\ t \notin repeating
        BY <1>0, <2>3 DEF TapDue, ThumbTypeOK
      <3>2. outcome[t] = "none"
        BY <1>0, <3>1 DEF Remembered, HistoryTypeOK, Outcomes
      <3>3. outcome'[t] \in {"none", "tap"}
              /\ \A u \in Thumbs \ {t} : outcome'[u] = outcome[u]
        <4>1. Used("none", "tap") = "tap"
          BY DEF Used
        <4> QED BY <1>0, <1>4, <3>2, <4>1, ReleaseEvents DEF HistoryTypeOK
      <3> QED BY <1>4, <2>1, <3>3 DEF Remembered
    <2> QED BY <1>4, <2>2, <2>3, ReleaseEvents
  <1>5. CASE RollTap \/ ReleaseThumb
    <2>1. PICK t \in Thumbs : handleThumbRelease(t)
      BY <1>5 DEF RollTap, ReleaseThumb
    <2>2. phase' # "press"
      BY <1>5 DEF RollTap, ReleaseThumb
    <2> QED BY <1>4, <2>1, <2>2
  <1>6. ASSUME NEW b \in Mains, handleMainPress(b) PROVE Remembered'
    <2>1. /\ phase' = "main" /\ consumed' = consumed \cup down
          /\ UNCHANGED <<down, repeating>>
          /\ Send(b, Modifiers, Modifiers, "modifier")
      BY <1>6 DEF handleMainPress
    <2>2. CASE outcome' = outcome
      BY <2>1, <2>2 DEF Remembered
    <2>3. CASE outcome' = [t \in Thumbs |-> IF t \in Modifiers
                                            THEN Used(outcome[t], "modifier")
                                            ELSE outcome[t]]
      <3>1. ASSUME NEW t \in Modifiers PROVE outcome'[t] = "modifier" /\ t \in consumed'
        <4>1. t \in down /\ t \notin repeating /\ t \in Thumbs
          BY <1>0 DEF Modifiers, selectModeThumb, activeModeThumbs, ThumbTypeOK,
                      ShiftSpace, NumberBackspace
        <4>2. outcome[t] \in {"none", "modifier"}
          BY <1>0, <4>1 DEF Remembered, HistoryTypeOK, Outcomes
        <4>3. Used(outcome[t], "modifier") = "modifier"
          BY <4>2 DEF Used
        <4> QED BY <2>1, <2>3, <4>1, <4>3
      <3>2. \A t \in Thumbs \ Modifiers : outcome'[t] = outcome[t]
        BY <2>3
      <3> QED BY <2>1, <3>1, <3>2 DEF Remembered
    <2> QED BY <2>1, <2>2, <2>3 DEF Send
  <1>7. CASE RollsDone \/ MainsDone
    <2>1. UNCHANGED <<outcome, down, consumed, repeating>> /\ phase' # "press"
      BY <1>7 DEF RollsDone, MainsDone, thumbVars
    <2> QED BY <2>1, <1>q
  <1>8. CASE handleBackspaceRepeat
    <2>1. phase' = "commit" /\ UNCHANGED <<down, consumed>>
      BY <1>8 DEF handleBackspaceRepeat
    <2>2. CASE outcome' = outcome /\ repeating \subseteq repeating'
      BY <2>1, <2>2 DEF Remembered
    <2>3. CASE RepeatNow /\ outcome' # outcome
      <3>1. /\ repeating' = repeating \cup {NumberBackspace}
            /\ Send(NumberBackspace, {}, {NumberBackspace}, "repeat")
        BY <1>8, <2>3 DEF handleBackspaceRepeat
      <3>2. outcome' = [t \in Thumbs |-> IF t \in {NumberBackspace}
                                         THEN Used(outcome[t], "repeat")
                                         ELSE outcome[t]]
        BY <2>3, <3>1 DEF Send
      <3>3. NumberBackspace \in down \ consumed /\ NumberBackspace \in Thumbs
        BY <2>3 DEF RepeatNow, Thumbs
      <3>4. outcome[NumberBackspace] \in {"none", "repeat"}
        BY <1>0, <3>3 DEF Remembered, HistoryTypeOK, Outcomes
      <3>5. Used(outcome[NumberBackspace], "repeat") = "repeat"
        BY <3>4 DEF Used
      <3>6. outcome'[NumberBackspace] = "repeat"
              /\ \A t \in Thumbs \ {NumberBackspace} : outcome'[t] = outcome[t]
        BY <3>2, <3>3, <3>5
      <3> QED BY <2>1, <3>1, <3>6 DEF Remembered
    <2> QED BY <1>8, <2>2, <2>3 DEF handleBackspaceRepeat
  <1>9. CASE commitInputEdges
    <2>1. UNCHANGED <<outcome, down, consumed, repeating>> /\ phase' # "press"
      BY <1>9 DEF commitInputEdges, thumbVars
    <2> QED BY <2>1, <1>q
  <1>10. CASE Reset
    <2>1. /\ phase' = "idle" /\ down' = {} /\ outcome' = outcome
      BY <1>0, <1>10 DEF Reset, ClearThumbs, ThumbTypeOK, scanVars
    <2> QED BY <2>1 DEF Remembered
  <1>11. CASE TimePasses \/ SetLanguage
    BY <1>11, <1>u DEF TimePasses, GuardPasses, HoldPasses, RepeatPasses,
                       WindowPasses, SetLanguage, thumbVars
  <1>12. CASE UNCHANGED vars
    BY <1>12, <1>u DEF vars, thumbVars
  <1> QED
    BY <1>1, <1>2, <1>3, <1>5, <1>6, <1>7, <1>8, <1>9, <1>10, <1>11, <1>12
       DEF Next, ScanStep

FirmwareInv == TypeOK /\ Position /\ Contacts /\ Ordered /\ Remembered

\* The invariant is inductive.
LEMMA InvariantHolds == Spec => []FirmwareInv
  <1>1. Init => FirmwareInv
    BY InitTyped, InitInvariant DEF FirmwareInv
  <1>2. FirmwareInv /\ [Next]_vars => FirmwareInv'
    BY NextTyped, PositionKept, ContactsKept, OrderedKept, RememberedKept
       DEF FirmwareInv
  <1> QED BY <1>1, <1>2, PTL DEF Spec

-----------------------------------------------------------------------------
(* State properties.                                                       *)

\* A press of a thumb is a tap, a modifier or repeated Backspaces, never two of
\* them, and a tap only once.
THEOREM OneOutcomeAlways == Spec => []OneOutcome
  <1>1. FirmwareInv => OneOutcome
    BY DEF FirmwareInv, Remembered, OneOutcome
  <1> QED BY <1>1, InvariantHolds, PTL

\* No thumb is stuck down when its contact has opened or the keyboard is disarmed.
THEOREM NoStuckThumbAlways == Spec => []NoStuckThumb
  <1>1. FirmwareInv => NoStuckThumb
    BY DEF FirmwareInv, Position, NoStuckThumb
  <1> QED BY <1>1, InvariantHolds, PTL

-----------------------------------------------------------------------------
(* Properties of the events of a step.                                     *)

\* A step sends at most one stroke, with the modifiers of the thumbs then down, or
\* an event of a thumb without modifiers.
SentBy ==
    \/ sent' = {}
    \/ /\ phase \notin {"idle", "commit"} /\ armed' = armed
       /\ \E t \in Thumbs : sent' = {[input |-> t, mods |-> {}]}
    \/ \E b \in Mains : handleMainPress(b) /\ sent' = {[input |-> b, mods |-> Modifiers]}
    \/ UNCHANGED vars

\* Every step is of one of these kinds.
LEMMA SentByStep == ASSUME [Next]_vars PROVE SentBy
  <1>1. ASSUME NEW t \in Thumbs, handleThumbRelease(t), armed' = armed,
               phase \notin {"idle", "commit"}
        PROVE  SentBy
    <2>1. sent' \in SUBSET {[input |-> t, mods |-> {}]}
      BY <1>1, ReleaseEvents
    <2>2. sent' = {} \/ sent' = {[input |-> t, mods |-> {}]}
      BY <2>1
    <2> QED BY <1>1, <2>2 DEF SentBy
  <1>2. CASE RollTap \/ ReleaseThumb
    BY <1>1, <1>2 DEF RollTap, ReleaseThumb, armVars
  <1>3. ASSUME NEW b \in Mains, handleMainPress(b) PROVE SentBy
    BY <1>3 DEF handleMainPress, Send, SentBy
  <1>4. CASE handleBackspaceRepeat
    <2>1. /\ phase \notin {"idle", "commit"} /\ armed' = armed
          /\ NumberBackspace \in Thumbs
      BY <1>4 DEF handleBackspaceRepeat, Thumbs, armVars
    <2>2. sent' = {} \/ sent' = {[input |-> NumberBackspace, mods |-> {}]}
      BY <1>4 DEF handleBackspaceRepeat, Send
    <2> QED BY <2>1, <2>2 DEF SentBy
  <1>5. CASE \/ Sample \/ handleThumbPress \/ PressesDone \/ RollsDone \/ MainsDone
             \/ commitInputEdges \/ Reset \/ SetLanguage
    BY <1>5 DEF Sample, handleThumbPress, PressesDone, RollsDone, MainsDone,
                commitInputEdges, Reset, SetLanguage, SentBy
  <1>6. CASE TimePasses
    BY <1>6 DEF TimePasses, GuardPasses, HoldPasses, RepeatPasses, WindowPasses,
                SentBy
  <1> QED BY <1>2, <1>3, <1>4, <1>5, <1>6 DEF Next, ScanStep, SentBy

\* Nothing held since before the keyboard was armed types or modifies.
THEOREM NoStaleInputAlways == Spec => []NoStaleInput
  <1>1. Init => NoStaleInput
    BY DEF Init, NoStaleInput
  <1>2. ASSUME FirmwareInv, FirmwareInv', NoStaleInput, [Next]_vars
        PROVE  NoStaleInput'
    <2>1. armed' => stale' = {}
      BY <1>2 DEF FirmwareInv, Contacts
    <2>2. CASE sent' = {}
      BY <2>2 DEF NoStaleInput
    <2>3. CASE phase \notin {"idle", "commit"} /\ armed' = armed
      <3>1. armed'
        BY <1>2, <2>3 DEF FirmwareInv, Position
      <3> QED BY <2>1, <3>1 DEF NoStaleInput
    <2>4. ASSUME NEW b \in Mains, handleMainPress(b) PROVE NoStaleInput'
      <3>1. armed' = armed /\ phase = "main"
        BY <2>4 DEF handleMainPress, armVars
      <3>2. armed'
        BY <1>2, <3>1 DEF FirmwareInv, Position
      <3> QED BY <2>1, <3>2 DEF NoStaleInput
    <2>5. CASE UNCHANGED vars
      BY <1>2, <2>5 DEF NoStaleInput, vars
    <2> QED BY <1>2, <2>2, <2>3, <2>4, <2>5, SentByStep DEF SentBy
  <1> QED BY <1>1, <1>2, InvariantHolds, PTL DEF Spec

\* A contact open for the roll lead modifies nothing, but for a release that settles
\* in the same pass.
THEOREM NoLateModifierAlways == Spec => []NoLateModifier
  <1>1. Init => NoLateModifier
    BY DEF Init, NoLateModifier
  <1>2. ASSUME FirmwareInv, NoLateModifier, [Next]_vars
        PROVE  NoLateModifier'
    <2>0. ThumbTypeOK /\ ContactTypeOK
      BY <1>2 DEF FirmwareInv, TypeOK
    <2>1. CASE sent' = {}
      BY <2>1 DEF NoLateModifier
    <2>2. ASSUME NEW t \in Thumbs, sent' = {[input |-> t, mods |-> {}]}
          PROVE  NoLateModifier'
      BY <2>2 DEF NoLateModifier
    <2>3. ASSUME NEW b \in Mains, handleMainPress(b),
                 sent' = {[input |-> b, mods |-> Modifiers]}
          PROVE  NoLateModifier'
      <3>1. phase = "main" /\ UNCHANGED contactVars
        BY <2>3 DEF handleMainPress
      <3>2. RawReleased = {} /\ down \subseteq previous \cup stable
        BY <1>2, <3>1 DEF FirmwareInv, Position
      <3>3. ASSUME NEW t \in Modifiers
            PROVE  t \in raw \/ age[t] < Roll \/ t \in releasedEdges
        <4>1. t \in down /\ t \in Inputs
          BY <2>0, ModifiersDown DEF ThumbTypeOK, Inputs
        <4>2. age[t] \in Nat /\ Roll \in Nat
          BY <2>0, <4>1, FirmwareAssumption DEF ContactTypeOK
        <4>3. t \in stable => t \in raw \/ ~(age[t] >= Roll)
          BY <3>2, <4>1 DEF RawReleased
        <4>4. t \in stable \/ t \in releasedEdges
          BY <3>2, <4>1 DEF releasedEdges
        <4> QED BY <4>2, <4>3, <4>4
      <3> QED BY <2>3, <3>1, <3>3 DEF NoLateModifier, contactVars, releasedEdges
    <2>4. CASE UNCHANGED vars
      BY <1>2, <2>4 DEF NoLateModifier, vars, contactVars, releasedEdges
    <2> QED BY <1>2, <2>1, <2>2, <2>3, <2>4, SentByStep DEF SentBy
  <1> QED BY <1>1, <1>2, InvariantHolds, PTL DEF Spec

\* Among the mode thumbs that are down one was pressed first.
LEMMA FirstModeSelected ==
  ASSUME ThumbTypeOK, Ordered, activeModeThumbs # {}
  PROVE  selectModeThumb # {} /\ ShiftSpace \notin selectModeThumb
  <1>1. activeModeThumbs \subseteq {1, 2, 3}
    BY DEF activeModeThumbs, ThumbTypeOK, Thumbs, ShiftSpace, PunctuationEnter,
           RareLanguage, NumberBackspace
  <1>2. \A t \in {1, 2, 3} : <<t, t>> \notin order
    BY DEF Ordered, Thumbs, PunctuationEnter, RareLanguage, NumberBackspace
  <1>3. \A t, u, v \in {1, 2, 3} :
          <<t, u>> \in order /\ <<u, v>> \in order => <<t, v>> \in order
    BY DEF Ordered, Thumbs, PunctuationEnter, RareLanguage, NumberBackspace
  <1>4. selectModeThumb # {}
    BY <1>1, <1>2, <1>3 DEF selectModeThumb
  <1> QED BY <1>4 DEF selectModeThumb, activeModeThumbs

\* A thumb held firmly modifies the stroke: Shift always, and some mode if one is
\* held that has not begun to repeat.
THEOREM FirmThumbModifiesAlways == Spec => []FirmThumbModifies
  <1>1. Init => FirmThumbModifies
    BY DEF Init, FirmThumbModifies
  <1>2. ASSUME FirmwareInv, FirmThumbModifies, [Next]_vars
        PROVE  FirmThumbModifies'
    <2>1. CASE sent' = {}
      BY <2>1 DEF FirmThumbModifies
    <2>2. ASSUME NEW t \in Thumbs, sent' = {[input |-> t, mods |-> {}]}
          PROVE  FirmThumbModifies'
      BY <2>2, FirmwareAssumption DEF FirmThumbModifies
    <2>3. ASSUME NEW b \in Mains, handleMainPress(b),
                 sent' = {[input |-> b, mods |-> Modifiers]}
          PROVE  FirmThumbModifies'
      <3>1. firm \subseteq down
        BY <1>2 DEF FirmwareInv, Contacts
      <3>2. firm' = firm /\ repeating' = repeating
        BY <2>3 DEF handleMainPress
      <3>3. ShiftSpace \in firm => ShiftSpace \in Modifiers
        BY <3>1 DEF Modifiers
      <3>4. ASSUME firm \ ({ShiftSpace} \cup repeating) # {}
            PROVE  \E t \in Modifiers : t # ShiftSpace
        <4>1. activeModeThumbs # {}
          BY <3>1, <3>4 DEF activeModeThumbs
        <4>2. selectModeThumb # {} /\ ShiftSpace \notin selectModeThumb
          BY <1>2, <4>1, FirstModeSelected DEF FirmwareInv, TypeOK
        <4> QED BY <4>2 DEF Modifiers
      <3> QED BY <2>3, <3>2, <3>3, <3>4 DEF FirmThumbModifies
    <2>4. CASE UNCHANGED vars
      BY <1>2, <2>4 DEF FirmThumbModifies, vars, thumbVars
    <2> QED BY <1>2, <2>1, <2>2, <2>3, <2>4, SentByStep DEF SentBy
  <1> QED BY <1>1, <1>2, InvariantHolds, PTL DEF Spec
=============================================================================
