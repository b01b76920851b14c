----------------------------- MODULE InputPath -----------------------------
(***************************************************************************)
(* From an event of the connection to the keys injected: the message       *)
(* processor of main.go with appcore/state.go and semantic_dispatch.go,    *)
(* the part of the window's goroutine that arms and consumes a capture,    *)
(* tests an action and closes the window, and the handler they both call.  *)
(*                                                                         *)
(* The events come in the order connection.Runtime delivers them (module   *)
(* Connection).  An event carries the action the layout gives it, or None  *)
(* when the resolver finds none.  What the window shows of an event        *)
(* (language, modifiers, lit buttons, history, error text) is left out.    *)
(***************************************************************************)
EXTENDS ActionHandler

CONSTANTS
    Events,        \* what the device may send: records [type, action, buttons]
    Tests,         \* the actions the test button may run
    SelectionCap,  \* capacity of captureSelections
    MaxEvents,     \* bound: events and tests together
    MaxArms        \* bound: clicks on the capture button

ASSUME InputPathAssumption ==
    /\ \A e \in Events : e.action \in Actions \cup {None}
    /\ Tests \subseteq Actions
    /\ SelectionCap \in Nat \ {0} /\ {MaxEvents, MaxArms} \subseteq Nat

VARIABLES
    serial,             \* number of the latest event or test
    captureActive,      \* appcore.State
    captureSelections,  \* channel from the processor to the window
    processor,          \* the message processor: recv, deliver, dispatch, done
    event,              \* the event it handles, with its number
    window,             \* the window's goroutine: idle, test, drain, closing,
                        \* waiting, ended
    testing,            \* the test it runs, with its number
    configuring,        \* currentView is the configurator
    selected,           \* the event whose key the configurator shows
    stopped,            \* messageProcessorStop is closed
    arms,               \* history: how often a capture was armed
    captured, dropped   \* history: events captured, actions refused

pathVars == <<serial, captureActive, captureSelections, processor, event, window,
              testing, configuring, selected, stopped, arms, captured, dropped>>
vars == <<handlerVars, pathVars>>

Init ==
    /\ HandlerInit
    /\ serial = 0 /\ captureActive = FALSE /\ captureSelections = <<>>
    /\ processor = "recv" /\ event = None
    /\ window = "idle" /\ testing = None /\ configuring = TRUE /\ selected = None
    /\ stopped = FALSE /\ arms = 0 /\ captured = {} /\ dropped = {}

-----------------------------------------------------------------------------
(* The message processor.                                                  *)

\* The policy of ApplyEvent: a stroke, a tap or a legacy press of one button
\* ends an armed capture.
Captures(e) ==
    /\ captureActive
    /\ \/ e.type \in {"stroke", "tap"}
       \/ e.type \in {"press", "combo"} /\ e.buttons = 1

Carries(e) == e.type \in {"stroke", "tap", "press", "combo"} /\ e.action # None

\* Mutant: a capture stays armed after it has captured.
ApplyEventStaysArmed(e) ==
    /\ captureActive' = captureActive
    /\ captured' = IF Captures(e) THEN captured \cup {serial + 1} ELSE captured

ApplyEvent(e) ==
    /\ captureActive' = (captureActive /\ ~Captures(e))
    /\ captured' = IF Captures(e) THEN captured \cup {serial + 1} ELSE captured

\* handleMessage up to the first call that may block.
Receive(e) ==
    /\ processor = "recv"
    /\ serial < MaxEvents
    /\ serial' = serial + 1
    /\ ApplyEvent(e)
    /\ processor' = IF Captures(e) THEN "deliver"
                    ELSE IF Carries(e) THEN "dispatch" ELSE "recv"
    /\ event' = IF processor' = "recv" THEN None ELSE [id |-> serial + 1, action |-> e.action]
    /\ UNCHANGED <<handlerVars, captureSelections, window, testing, configuring,
                   selected, stopped, arms, dropped>>

ProcessorStays == UNCHANGED <<serial, captureActive, window, testing, configuring,
                              selected, stopped, arms, captured>>

Deliver ==
    /\ processor = "deliver"
    /\ \/ /\ Len(captureSelections) < SelectionCap
          /\ captureSelections' = Append(captureSelections, event.id)
       \/ stopped /\ UNCHANGED captureSelections
    /\ processor' = "recv" /\ event' = None
    /\ ProcessorStays /\ UNCHANGED <<handlerVars, dropped>>

Dispatch ==
    /\ processor = "dispatch"
    /\ \/ HandleAction(event.action, event.id, 0) /\ UNCHANGED dropped
       \/ /\ Refuses(event.action)
          /\ dropped' = dropped \cup {<<event.id, event.action>>}
          /\ UNCHANGED handlerVars
    /\ processor' = "recv" /\ event' = None
    /\ ProcessorStays /\ UNCHANGED captureSelections

StopProcessor ==
    /\ processor = "recv" /\ stopped
    /\ processor' = "done"
    /\ ProcessorStays /\ UNCHANGED <<handlerVars, captureSelections, event, dropped>>

-----------------------------------------------------------------------------
(* The window's goroutine.  A frame handles at most one click, then drains *)
(* the captured selections.                                                *)

WindowStays == UNCHANGED <<serial, processor, event, captured>>

Frame ==
    /\ window = "idle" /\ window' = "drain"
    /\ WindowStays /\ UNCHANGED <<handlerVars, captureActive, captureSelections,
                                  testing, configuring, selected, stopped, arms, dropped>>

\* The capture button of the configurator.
BeginCapture ==
    /\ window = "idle" /\ window' = "drain"
    /\ configuring /\ arms < MaxArms
    /\ captureActive' = TRUE
    /\ arms' = IF captureActive THEN arms ELSE arms + 1
    /\ WindowStays /\ UNCHANGED <<handlerVars, captureSelections, testing, configuring,
                                  selected, stopped, dropped>>

\* The navigation buttons: they leave an armed capture armed.
Navigate ==
    /\ window = "idle" /\ window' = "drain"
    /\ configuring' = ~configuring
    /\ WindowStays /\ UNCHANGED <<handlerVars, captureActive, captureSelections,
                                  testing, selected, stopped, arms, dropped>>

ClickTest(a) ==
    /\ window = "idle" /\ configuring /\ serial < MaxEvents
    /\ window' = "test"
    /\ serial' = serial + 1
    /\ testing' = [id |-> serial + 1, action |-> a]
    /\ UNCHANGED <<handlerVars, captureActive, captureSelections, processor, event,
                   configuring, selected, stopped, arms, captured, dropped>>

\* The test runs on the window's goroutine, which a full queue blocks.
RunTest ==
    /\ window = "test" /\ window' = "drain"
    /\ \/ HandleAction(testing.action, testing.id, 0) /\ UNCHANGED dropped
       \/ /\ Refuses(testing.action)
          /\ dropped' = dropped \cup {<<testing.id, testing.action>>}
          /\ UNCHANGED handlerVars
    /\ testing' = None
    /\ WindowStays /\ UNCHANGED <<captureActive, captureSelections, configuring,
                                  selected, stopped, arms>>

\* One round of processMessages; applyCapturedSelection ignores a selection
\* while another view is shown.
Drain ==
    /\ window = "drain"
    /\ IF captureSelections = <<>>
       THEN window' = "idle" /\ UNCHANGED <<captureSelections, selected>>
       ELSE /\ captureSelections' = Tail(captureSelections)
            /\ selected' = IF configuring THEN Head(captureSelections) ELSE selected
            /\ UNCHANGED window
    /\ WindowStays /\ UNCHANGED <<handlerVars, captureActive, testing, configuring,
                                  stopped, arms, dropped>>

Destroy ==
    /\ window = "idle" /\ window' = "closing"
    /\ stopped' = TRUE
    /\ WindowStays /\ UNCHANGED <<handlerVars, captureActive, captureSelections,
                                  testing, configuring, selected, arms, dropped>>

\* The processor has ended; the connection is closed, then the handler.
CloseAll ==
    /\ window = "closing" /\ processor = "done"
    /\ CloseHandler
    /\ window' = "waiting"
    /\ WindowStays /\ UNCHANGED <<captureActive, captureSelections, testing, configuring,
                                  selected, stopped, arms, dropped>>

End ==
    /\ window = "waiting" /\ WorkersDone
    /\ window' = "ended"
    /\ WindowStays /\ UNCHANGED <<handlerVars, captureActive, captureSelections, testing,
                                  configuring, selected, stopped, arms, dropped>>

-----------------------------------------------------------------------------
Inject == calls # <<>> /\ \E n \in 0..Len(Head(calls)) : InputSend(n)
Workers == (InputWorker \/ Inject \/ BackgroundWorker) /\ UNCHANGED pathVars
Processor == Deliver \/ Dispatch \/ StopProcessor
Closing == RunTest \/ Drain \/ CloseAll \/ End
Next ==
    \/ Workers \/ Processor \/ Closing
    \/ \E e \in Events : Receive(e)
    \/ \E a \in Tests : ClickTest(a)
    \/ Frame \/ BeginCapture \/ Navigate \/ Destroy
    \/ window = "ended" /\ UNCHANGED vars

Spec == Init /\ [][Next]_vars

\* Every goroutine runs while it can; nobody has to press a key, to click or
\* to close the window.
Fairness ==
    /\ WF_vars((InputWorker \/ Inject) /\ UNCHANGED pathVars)
    /\ WF_vars(BackgroundWorker /\ UNCHANGED pathVars)
    /\ WF_vars(Processor) /\ WF_vars(Closing)
FairSpec == Spec /\ Fairness

-----------------------------------------------------------------------------
(* Properties.                                                             *)

TypeOK ==
    /\ HandlerTypes
    /\ serial \in 0..MaxEvents /\ arms \in 0..MaxArms
    /\ processor \in {"recv", "deliver", "dispatch", "done"}
    /\ event \in CASE processor = "deliver" -> [id : captured, action : Actions \cup {None}]
                   [] processor = "dispatch" -> [id : 1..serial, action : Actions]
                   [] OTHER -> {None}
    /\ window \in {"idle", "test", "drain", "closing", "waiting", "ended"}
    /\ testing \in IF window = "test" THEN [id : 1..serial, action : Actions] ELSE {None}
    /\ {captureActive, configuring, stopped} \subseteq BOOLEAN
    /\ captureSelections \in Seq(captured) /\ Len(captureSelections) <= SelectionCap
    /\ captured \subseteq 1..serial /\ selected \in captured \cup {None}

\* Typing is never thrown away: until the handler is closed only a macro or a
\* command can be refused, and the handler is closed after the goroutines
\* which call it have ended.
OnlyBackgroundDrops == \A entry \in dropped : isBackgroundAction(entry[2])

\* Each time the capture button arms a capture, exactly one event is taken from
\* the handler, whatever language, ready, status and error events pass it by
\* and whatever the window does, and that event is neither injected nor queued
\* nor dropped.
CaptureIsOneShot ==
    /\ arms = Cardinality(captured) + (IF captureActive THEN 1 ELSE 0)
    /\ \A entry \in Range(accepted) \cup Range(scheduled) \cup dropped :
          entry[1] \notin captured

\* What is accepted is typed: unless the handler is closed, the queues, the
\* macro step in hand and the macro being played are worked off, though each
\* worker waits for the other and real-time requests pass the macro steps.
Backlog ==
    \/ realtimeQueue # <<>> \/ macroStepQueue # <<>> \/ backgroundQueue # <<>>
    \/ pending # None \/ current # None \/ backPc \notin {"idle", "done"}
BacklogIsWorkedOff == Backlog ~> (~Backlog \/ closed)

\* Closing the window ends the program, whatever is queued, blocked or held.
WindowCloses == stopped ~> window = "ended"
=============================================================================
