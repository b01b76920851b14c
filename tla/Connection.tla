---------------------------- MODULE Connection ----------------------------
(***************************************************************************)
(* The device-connection subsystem of the companion application: the       *)
(* Controller (go-app/connection/controller.go), the Runtime that pumps    *)
(* the live session and drives recovery (runtime.go), and the GUI that     *)
(* calls them (main.go).  Three kinds of goroutine run concurrently:       *)
(*                                                                         *)
(*   Loop         Runtime.loop, started once;                              *)
(*   Connectors   one goroutine per click on Connect, in ConnectExplicit;  *)
(*   Gui          the window: start-up recovery, Disconnect and Close.     *)
(*                                                                         *)
(* pc[a] is the point a goroutine has reached; between two labels lies one *)
(* critical section of Controller.mu or Manager.mu, one channel operation  *)
(* or one call into a transport.                                           *)
(*                                                                         *)
(* A session is the transport behind connection.Session.  Event number i   *)
(* of session s is <<s, i>>; read[s] of them were taken off its channel.   *)
(* How many more the device has sent is left open: the next one, up to     *)
(* MaxEvents, may or may not be there when the channel is read.  A closed  *)
(* session keeps its name while the loop still reads it and gives it back  *)
(* when nothing refers to it any more (Release), which is how a finite set *)
(* of names stands for any number of reconnections.                        *)
(***************************************************************************)
EXTENDS ConnManager, Sequences

CONSTANTS
    Sessions,      \* names of transport sessions
    Connectors,    \* goroutines that run ConnectExplicit
    Loop, Gui,     \* the runtime loop and the GUI goroutine
    None,          \* no session (nil)
    MaxEvents      \* bound: events a device sends during one session

ASSUME ConnectionAssumption ==
    /\ MaxEvents \in Nat \ {0}
    /\ None \notin Sessions
    /\ Loop \notin Connectors /\ Gui \notin Connectors /\ Loop # Gui

VARIABLES
    session,     \* Controller.session
    pending,     \* Controller.pending: handshake events not yet replayed
    status,      \* [Sessions -> state of the transport]
    read,        \* [Sessions -> number of events taken off its channel]
    wake,        \* the token of Runtime.wake (capacity 1)
    stopped,     \* Runtime.closed, its cancelled context and closed stop
    consuming,   \* the GUI's message processor is running
    pc,          \* [Actors -> Labels]
    fresh,       \* [Actors -> session opened and not yet installed]
    old,         \* [Actors -> session taken out of the controller, to close]
    before,      \* [Actors -> the Snapshot its ConnectExplicit started from]
    loopSession, \* the session Runtime.loop took in its last batch
    batch,       \* the events Runtime.loop has yet to publish
    onAir,       \* history: session of the last published event
    played       \* history: [Sessions -> last event number published]

controllerVars == <<session, pending>>
transportVars == <<status, read>>
loopVars == <<loopSession, batch>>
historyVars == <<onAir, played>>
coreVars == <<managerVars, controllerVars, transportVars>>
runtimeVars == <<wake, stopped, consuming>>
localVars == <<fresh, old, before>>
streamVars == <<loopVars, historyVars>>
vars == <<coreVars, runtimeVars, pc, localVars, streamVars>>

Actors == Connectors \cup {Loop, Gui}
Openers == Connectors \cup {Loop}
Event == Sessions \X (1..MaxEvents)

\* Where a goroutine is inside openAndHandshake / installSession / MarkReady.
OpenLabels ==
    {"open", "handshake", "probe", "failed", "install", "ready", "closeOld"}
ConnectorLabels == OpenLabels \cup {"idle", "begin", "beginOpen", "signal"}
LoopLabels == OpenLabels \cup
    {"top", "replay", "pump", "recheck", "publish", "lost", "closeLost",
     "markLost", "check", "wait", "attempt", "select", "backoff", "park", "done"}
GuiLabels == {"start", "markLost", "idle", "detach", "markDetached", "closeOld",
              "signal", "stop", "join", "exited"}

\* Where a goroutine has a session in hand that is not installed, and where the
\* loop is serving one.
Opening == {"handshake", "probe", "install"}
Serving == {"pump", "publish", "recheck", "lost"}

\* A local variable of a goroutine that has ended.
NoSnapshot == [ready |-> FALSE, recovering |-> FALSE]

RuntimeTypeOK ==
    /\ session \in Sessions \cup {None}
    /\ pending \in Seq(Event)
    /\ status \in [Sessions -> {"none", "open", "failed", "closed"}]
    /\ read \in [Sessions -> 0..MaxEvents]
    /\ wake \in BOOLEAN /\ stopped \in BOOLEAN /\ consuming \in BOOLEAN
    /\ pc \in [Actors -> LoopLabels \cup ConnectorLabels \cup GuiLabels]
    /\ pc[Loop] \in LoopLabels
    /\ pc[Gui] \in GuiLabels
    /\ \A c \in Connectors : pc[c] \in ConnectorLabels
    /\ fresh \in [Actors -> Sessions \cup {None}]
    /\ old \in [Actors -> Sessions \cup {None}]
    /\ before \in [Actors -> [ready : BOOLEAN, recovering : BOOLEAN]]
    /\ loopSession \in Sessions \cup {None}
    /\ batch \in Seq(Event)
    /\ onAir \in Sessions \cup {None}
    /\ played \in [Sessions -> 0..MaxEvents]
    /\ \A a \in Actors : pc[a] \in Opening => fresh[a] \in Sessions
    /\ pc[Loop] \in Serving => loopSession \in Sessions

TypeOK == ManagerTypeOK /\ RuntimeTypeOK

Init ==
    /\ ManagerInit
    /\ session = None /\ pending = <<>>
    /\ status = [s \in Sessions |-> "none"]
    /\ read = [s \in Sessions |-> 0]
    /\ wake = FALSE /\ stopped = FALSE /\ consuming = TRUE
    /\ pc = [a \in Actors |-> IF a = Loop THEN "top"
                              ELSE IF a = Gui THEN "start" ELSE "idle"]
    /\ fresh = [a \in Actors |-> None]
    /\ old = [a \in Actors |-> None]
    /\ before = [a \in Actors |-> NoSnapshot]
    /\ loopSession = None /\ batch = <<>>
    /\ onAir = None /\ played = [s \in Sessions |-> 0]

Goto(a, label) == pc' = [pc EXCEPT ![a] = label]

\* ControllerSnapshot as the GUI reads it: uiSnapshot().Connected.
Connected == session # None /\ state = "Ready"

\* Runtime.signalWake: a non-blocking send on a channel of capacity one.
signalWake == wake' = TRUE

\* Nothing refers to these closed sessions any more.
Release(S) ==
    /\ status' = [s \in Sessions |-> IF s \in S THEN "none" ELSE status[s]]
    /\ read' = [s \in Sessions |-> IF s \in S THEN 0 ELSE read[s]]
    /\ played' = [s \in Sessions |-> IF s \in S THEN 0 ELSE played[s]]
    /\ onAir' = IF onAir \in S THEN None ELSE onAir

-----------------------------------------------------------------------------
(* openAndHandshake, shared by ConnectExplicit and RecoverOnce.            *)

Open(a) ==
    /\ pc[a] = "open"
    /\ \E s \in Sessions :
         /\ status[s] = "none"
         /\ status' = [status EXCEPT ![s] = "open"]
         /\ fresh' = [fresh EXCEPT ![a] = s]
    /\ Goto(a, "handshake")
    /\ UNCHANGED <<managerVars, controllerVars, read, runtimeVars, old, before,
                   streamVars>>

\* The realtime interface or the port cannot be opened; whatever was opened
\* is closed again before the call returns.
OpenFails(a) ==
    /\ pc[a] = "open"
    /\ Goto(a, "failed")
    /\ UNCHANGED <<coreVars, runtimeVars, localVars, streamVars>>

StartHandshake(a) ==
    /\ pc[a] = "handshake"
    /\ BeginHandshake
    /\ Goto(a, "probe")
    /\ UNCHANGED <<controllerVars, transportVars, runtimeVars, localVars,
                   streamVars>>

\* ProbeV2 reads events up to and including the first ready/status event.
Probe(a) ==
    /\ pc[a] = "probe"
    /\ \E n \in 1..MaxEvents : read' = [read EXCEPT ![fresh[a]] = n]
    /\ Goto(a, "install")
    /\ UNCHANGED <<managerVars, controllerVars, status, runtimeVars, localVars,
                   streamVars>>

\* Timeout, cancelled context, transport error, closed channels, or a backlog
\* without evidence: the session is closed and its events are discarded.
ProbeFails(a) ==
    /\ pc[a] = "probe"
    /\ Release({fresh[a]})
    /\ fresh' = [fresh EXCEPT ![a] = None]
    /\ Goto(a, "failed")
    /\ UNCHANGED <<managerVars, controllerVars, runtimeVars, old, before,
                   loopVars>>

\* The events a handshake consumed, in order.
Buffered(s) == [i \in 1..read[s] |-> <<s, i>>]

\* Mutant: handshake events of the previous session are kept and replayed.
InstallKeepsPending(a) ==
    /\ pc[a] = "install"
    /\ session' = fresh[a]
    /\ pending' = pending \o Buffered(fresh[a])
    /\ old' = [old EXCEPT ![a] = session]
    /\ fresh' = [fresh EXCEPT ![a] = None]
    /\ Goto(a, "ready")
    /\ UNCHANGED <<managerVars, transportVars, runtimeVars, before,
                   streamVars>>

\* Mutant: the replaced session is forgotten instead of returned for closing.
InstallDropsOld(a) ==
    /\ pc[a] = "install"
    /\ session' = fresh[a]
    /\ pending' = Buffered(fresh[a])
    /\ fresh' = [fresh EXCEPT ![a] = None]
    /\ Goto(a, "ready")
    /\ UNCHANGED <<managerVars, transportVars, runtimeVars, old, before,
                   streamVars>>

installSession(a) ==
    /\ pc[a] = "install"
    /\ session' = fresh[a]
    /\ pending' = Buffered(fresh[a])
    /\ old' = [old EXCEPT ![a] = session]
    /\ fresh' = [fresh EXCEPT ![a] = None]
    /\ Goto(a, "ready")
    /\ UNCHANGED <<managerVars, transportVars, runtimeVars, before,
                   streamVars>>

CompleteOpen(a) ==
    /\ pc[a] = "ready"
    /\ MarkReady
    /\ Goto(a, "closeOld")
    /\ UNCHANGED <<controllerVars, transportVars, runtimeVars, localVars,
                   streamVars>>

\* The transport in old[a], if any, is closed.  What its channel still holds
\* can be read as long as the loop has it.
Close(a) ==
    /\ old' = [old EXCEPT ![a] = None]
    /\ \/ /\ old[a] # loopSession
          /\ Release({old[a]})
       \/ /\ old[a] = loopSession
          /\ status' = [s \in Sessions |->
                            IF s = old[a] THEN "closed" ELSE status[s]]
          /\ UNCHANGED <<read, historyVars>>

CloseOld(a) ==
    /\ pc[a] = "closeOld"
    /\ Close(a)
    /\ Goto(a, IF a = Loop THEN "top"
               ELSE IF a = Gui /\ stopped THEN "join" ELSE "signal")
    /\ UNCHANGED <<managerVars, controllerVars, runtimeVars, fresh, before,
                   loopVars>>

OpenerStep(a) ==
    \/ Open(a) \/ OpenFails(a) \/ StartHandshake(a) \/ Probe(a) \/ ProbeFails(a)
    \/ installSession(a) \/ CompleteOpen(a) \/ CloseOld(a)

-----------------------------------------------------------------------------
(* App.connect and ConnectExplicit (Runtime's, then Controller's).         *)

\* The Connect button is honoured while the window shows no connection.
Click(c) ==
    /\ pc[c] = "idle" /\ pc[Gui] = "idle"
    /\ ~Connected
    /\ Goto(c, "begin")
    /\ UNCHANGED <<coreVars, runtimeVars, localVars, streamVars>>

\* A closed runtime refuses; otherwise the controller remembers what it had.
BeginConnect(c) ==
    /\ pc[c] = "begin"
    /\ IF stopped
       THEN /\ Goto(c, "idle")
            /\ UNCHANGED before
       ELSE /\ before' = [before EXCEPT ![c] = [ready |-> Connected,
                                                recovering |-> recovering]]
            /\ Goto(c, "beginOpen")
    /\ UNCHANGED <<coreVars, runtimeVars, fresh, old, streamVars>>

BeginConnectOpen(c) ==
    /\ pc[c] = "beginOpen"
    /\ BeginOpen
    /\ Goto(c, "open")
    /\ UNCHANGED <<controllerVars, transportVars, runtimeVars, localVars,
                   streamVars>>

\* The error path restores the state the attempt started from.  No wake-up is
\* signalled: Runtime.ConnectExplicit returns the error before signalWake.
ConnectFails(c) ==
    /\ pc[c] = "failed"
    /\ CASE before[c].ready -> MarkReady
         [] ~before[c].ready /\ before[c].recovering -> MarkLost
         [] OTHER -> MarkDetached
    /\ before' = [before EXCEPT ![c] = NoSnapshot]
    /\ Goto(c, "idle")
    /\ UNCHANGED <<controllerVars, transportVars, runtimeVars, fresh, old,
                   streamVars>>

\* Mutant: a successful ConnectExplicit returns without waking the loop.
SignalForgotten(a) ==
    /\ pc[a] = "signal"
    /\ before' = [before EXCEPT ![a] = NoSnapshot]
    /\ Goto(a, "idle")
    /\ UNCHANGED <<coreVars, runtimeVars, fresh, old, streamVars>>

Signal(a) ==
    /\ pc[a] = "signal"
    /\ before' = [before EXCEPT ![a] = NoSnapshot]
    /\ signalWake
    /\ Goto(a, "idle")
    /\ UNCHANGED <<coreVars, stopped, consuming, fresh, old, streamVars>>

ConnectorStep(c) ==
    \/ BeginConnect(c) \/ BeginConnectOpen(c) \/ ConnectFails(c) \/ Signal(c)
    \/ OpenerStep(c)

-----------------------------------------------------------------------------
(* Runtime.loop, pumpSession, waitAndRecover and RecoverOnce.              *)

\* Everything but the loop's own variables and pc.
LoopKeeps == UNCHANGED <<coreVars, stopped, consuming, localVars>>

\* Mutant: the session is taken and its handshake events are not replayed.
TakeBatchDropsPending ==
    /\ pc[Loop] = "top"
    /\ loopSession' = session /\ batch' = <<>>
    /\ pending' = <<>>
    /\ Release({s \in {loopSession} \ {None} : status[s] = "closed"})
    /\ Goto(Loop, "replay")
    /\ UNCHANGED <<managerVars, session, runtimeVars, localVars>>

\* TakeRuntimeBatch: the owned session together with its handshake events.
TakeRuntimeBatch ==
    /\ pc[Loop] = "top"
    /\ loopSession' = session /\ batch' = pending
    /\ pending' = <<>>
    /\ Release({s \in {loopSession} \ {None} : status[s] = "closed"})
    /\ Goto(Loop, "replay")
    /\ UNCHANGED <<managerVars, session, runtimeVars, localVars>>

\* One publishMessage that goes through: the event enters Runtime.messages.
\* The channel's fill level is not modelled: the send may be delayed for any
\* time, and only a consuming application guarantees that it goes through.
publishMessage ==
    /\ pc[Loop] \in {"replay", "publish"}
    /\ batch # <<>>
    /\ batch' = Tail(batch)
    /\ onAir' = Head(batch)[1]
    /\ played' = [played EXCEPT ![Head(batch)[1]] = Head(batch)[2]]
    /\ Goto(Loop, IF pc[Loop] = "publish" THEN "pump" ELSE "replay")
    /\ LoopKeeps
    /\ UNCHANGED <<wake, loopSession>>

\* The replay is over: pump the session, or look for something to recover.
ReplayDone ==
    /\ pc[Loop] = "replay" /\ batch = <<>>
    /\ Goto(Loop, IF loopSession # None THEN "pump" ELSE "check")
    /\ LoopKeeps
    /\ UNCHANGED <<wake, streamVars>>

\* case event := <-messages
PumpMessage ==
    /\ pc[Loop] = "pump"
    /\ read[loopSession] < MaxEvents
    /\ read' = [read EXCEPT ![loopSession] = @ + 1]
    /\ batch' = <<<<loopSession, read[loopSession] + 1>>>>
    /\ Goto(Loop, "publish")
    /\ UNCHANGED <<managerVars, controllerVars, status, runtimeVars, localVars,
                   loopSession, historyVars>>

\* case <-errors, or a closed channel: handleSessionFailure is entered.
PumpFailure ==
    /\ pc[Loop] = "pump"
    /\ status[loopSession] \in {"failed", "closed"}
    /\ Goto(Loop, "lost")
    /\ LoopKeeps
    /\ UNCHANGED <<wake, streamVars>>

\* case <-wake in pumpSession; the ownership check follows (Recheck).
PumpWake ==
    /\ pc[Loop] = "pump" /\ wake
    /\ wake' = FALSE
    /\ Goto(Loop, "recheck")
    /\ LoopKeeps
    /\ UNCHANGED streamVars

\* Mutant: a wake-up during the pump is swallowed without the ownership check.
RecheckSkipped ==
    /\ pc[Loop] = "recheck"
    /\ Goto(Loop, "pump")
    /\ LoopKeeps
    /\ UNCHANGED <<wake, streamVars>>

Recheck ==
    /\ pc[Loop] = "recheck"
    /\ Goto(Loop, IF session # loopSession THEN "top" ELSE "pump")
    /\ LoopKeeps
    /\ UNCHANGED <<wake, streamVars>>

\* StartRecoveryIfCurrent: compare-and-detach under Controller.mu.
StartRecoveryIfCurrent ==
    /\ pc[Loop] = "lost"
    /\ IF session = loopSession
       THEN /\ session' = None /\ pending' = <<>>
            /\ old' = [old EXCEPT ![Loop] = session]
            /\ Goto(Loop, "closeLost")
       ELSE /\ Goto(Loop, "top")
            /\ UNCHANGED <<controllerVars, old>>
    /\ UNCHANGED <<managerVars, transportVars, runtimeVars, fresh, before,
                   streamVars>>

CloseLost ==
    /\ pc[Loop] = "closeLost"
    /\ Close(Loop)
    /\ Goto(Loop, "markLost")
    /\ UNCHANGED <<managerVars, controllerVars, runtimeVars, fresh, before,
                   loopVars>>

MarkSessionLost ==
    /\ pc[Loop] = "markLost"
    /\ MarkLost
    /\ Goto(Loop, "top")
    /\ UNCHANGED <<controllerVars, transportVars, runtimeVars, localVars,
                   streamVars>>

\* loop reads the manager once and decides to wait for a probe or to park.
CheckRecovery ==
    /\ pc[Loop] = "check"
    /\ Goto(Loop, IF recovering /\ Retrying THEN "wait" ELSE "park")
    /\ LoopKeeps
    /\ UNCHANGED <<wake, streamVars>>

\* case <-wake in loop's final select, in waitAndRecover and in its 10 ms pause.
Wakened ==
    /\ pc[Loop] \in {"park", "wait", "backoff"} /\ wake
    /\ wake' = FALSE
    /\ Goto(Loop, "top")
    /\ LoopKeeps
    /\ UNCHANGED streamVars

\* The timer was armed from a snapshot that a concurrent manager call may have
\* replaced, so it is not tied to due; RecoverOnce asks again.
TimerFires ==
    /\ pc[Loop] = "wait"
    /\ Goto(Loop, "attempt")
    /\ LoopKeeps
    /\ UNCHANGED <<wake, streamVars>>

\* CanAttempt and BeginAttempt ask the same question under the same lock.
Attempt ==
    /\ pc[Loop] = "attempt"
    /\ BeginAttempt
    /\ Goto(Loop, "select")
    /\ UNCHANGED <<controllerVars, transportVars, runtimeVars, localVars,
                   streamVars>>

NoAttempt ==
    /\ pc[Loop] = "attempt" /\ ~CanAttempt
    /\ Goto(Loop, "backoff")
    /\ LoopKeeps
    /\ UNCHANGED <<wake, streamVars>>

PauseOver ==
    /\ pc[Loop] = "backoff"
    /\ Goto(Loop, "top")
    /\ LoopKeeps
    /\ UNCHANGED <<wake, streamVars>>

\* The reference identity, discovery and selectRecoveryCandidate decide.
SelectCandidate ==
    /\ pc[Loop] = "select"
    /\ Goto(Loop, "open")
    /\ LoopKeeps
    /\ UNCHANGED <<wake, streamVars>>

\* No stable identity, discovery error, no candidate or several of them.
SelectFails ==
    /\ pc[Loop] = "select"
    /\ Goto(Loop, "failed")
    /\ LoopKeeps
    /\ UNCHANGED <<wake, streamVars>>

AttemptFails ==
    /\ pc[Loop] = "failed"
    /\ MarkAttemptFailed
    /\ Goto(Loop, "top")
    /\ UNCHANGED <<controllerVars, transportVars, runtimeVars, localVars,
                   streamVars>>

\* The points at which the loop selects on ctx.Done and stop.
StopPoints == {"replay", "publish", "pump", "wait", "backoff", "park"}

\* Mutant: publishMessage blocks on a full channel and does not watch stop.
StopExceptPublish ==
    /\ pc[Loop] \in StopPoints \ {"publish", "replay"} /\ stopped
    /\ Goto(Loop, "done")
    /\ LoopKeeps
    /\ UNCHANGED <<wake, streamVars>>

LoopStops ==
    /\ pc[Loop] \in StopPoints /\ stopped
    /\ (pc[Loop] = "replay" => batch # <<>>)
    /\ Goto(Loop, "done")
    /\ LoopKeeps
    /\ UNCHANGED <<wake, streamVars>>

LoopStep ==
    \/ TakeRuntimeBatch \/ publishMessage \/ ReplayDone
    \/ PumpMessage \/ PumpFailure \/ PumpWake \/ Recheck
    \/ StartRecoveryIfCurrent \/ CloseLost \/ MarkSessionLost
    \/ CheckRecovery \/ Wakened \/ TimerFires
    \/ Attempt \/ NoAttempt \/ PauseOver
    \/ SelectCandidate \/ SelectFails \/ AttemptFails
    \/ OpenerStep(Loop) \/ LoopStops

-----------------------------------------------------------------------------
(* The window: run and disconnect in main.go, with Runtime.StartRecovery,  *)
(* Runtime.Disconnect, Runtime.Close and Controller.Close behind them.     *)

\* run(): a saved identity starts recovery, otherwise the window just opens.
\* Controller.StartRecovery finds no session to detach: nothing connected yet.
Startup ==
    /\ pc[Gui] = "start"
    /\ Goto(Gui, "markLost") \/ Goto(Gui, "idle")
    /\ UNCHANGED <<coreVars, runtimeVars, localVars, streamVars>>

StartRecovery ==
    /\ pc[Gui] = "markLost"
    /\ MarkLost
    /\ Goto(Gui, "signal")
    /\ UNCHANGED <<controllerVars, transportVars, runtimeVars, localVars,
                   streamVars>>

\* The Disconnect button is honoured while the window shows a connection.
Disconnect ==
    /\ pc[Gui] = "idle" /\ Connected
    /\ Goto(Gui, "detach")
    /\ UNCHANGED <<coreVars, runtimeVars, localVars, streamVars>>

\* DestroyEvent: the message processor is stopped and joined first.
DestroyWindow ==
    /\ pc[Gui] = "idle"
    /\ consuming' = FALSE
    /\ Goto(Gui, "stop")
    /\ UNCHANGED <<coreVars, wake, stopped, localVars, streamVars>>

\* Runtime.Close: closed is set, the context cancelled and stop closed.
StopRuntime ==
    /\ pc[Gui] = "stop"
    /\ stopped' = TRUE
    /\ Goto(Gui, "detach")
    /\ UNCHANGED <<coreVars, wake, consuming, localVars, streamVars>>

\* Controller.Close, the part under Controller.mu.
DetachSession ==
    /\ pc[Gui] = "detach"
    /\ session' = None /\ pending' = <<>>
    /\ old' = [old EXCEPT ![Gui] = session]
    /\ Goto(Gui, "markDetached")
    /\ UNCHANGED <<managerVars, transportVars, runtimeVars, fresh, before,
                   streamVars>>

MarkSessionDetached ==
    /\ pc[Gui] = "markDetached"
    /\ MarkDetached
    /\ Goto(Gui, "closeOld")
    /\ UNCHANGED <<controllerVars, transportVars, runtimeVars, localVars,
                   streamVars>>

\* Runtime.Close waits for the loop; main then closes the handler and exits.
Join ==
    /\ pc[Gui] = "join" /\ pc[Loop] = "done"
    /\ Goto(Gui, "exited")
    /\ UNCHANGED <<coreVars, runtimeVars, localVars, streamVars>>

\* What the window does on its own, without a user.
GuiStep ==
    \/ Startup \/ StartRecovery \/ StopRuntime \/ DetachSession
    \/ MarkSessionDetached \/ CloseOld(Gui) \/ Signal(Gui) \/ Join

-----------------------------------------------------------------------------
(* The environment: the device, the clock and the application.             *)

\* Unplug, EOF or an I/O error: the reader reports it and ends.
SessionFails(s) ==
    /\ status[s] = "open"
    /\ status' = [status EXCEPT ![s] = "failed"]
    /\ UNCHANGED <<managerVars, controllerVars, read, runtimeVars, pc,
                   localVars, streamVars>>

Tick ==
    /\ DeadlinePasses
    /\ UNCHANGED <<controllerVars, transportVars, runtimeVars, pc, localVars,
                   streamVars>>

\* The process ends when main returns: nothing is left to step.
Terminated ==
    /\ pc[Gui] = "exited" /\ \A c \in Connectors : pc[c] = "idle"
    /\ UNCHANGED vars

Next ==
    \/ LoopStep \/ GuiStep \/ Tick
    \/ Disconnect \/ DestroyWindow
    \/ \E c \in Connectors : Click(c) \/ ConnectorStep(c)
    \/ \E s \in Sessions : SessionFails(s)
    \/ Terminated

Spec == Init /\ [][Next]_vars

\* Every goroutine that can run is run and time passes.  A publish goes through
\* as long as the application drains the channel.  Go's select picks among the
\* ready cases at random, so stop, once closed, is not passed over for ever.
\* The last conjunct is the assumption about the device: a recovery that asks
\* again and again finds it, opens it and gets an answer in the end.
Fairness ==
    /\ WF_vars(LoopStep /\ ~publishMessage)
    /\ WF_vars(consuming /\ publishMessage)
    /\ WF_vars(GuiStep) /\ WF_vars(Tick)
    /\ \A c \in Connectors : WF_vars(ConnectorStep(c))
    /\ SF_vars(LoopStops)
    /\ SF_vars(SelectCandidate) /\ SF_vars(Open(Loop)) /\ SF_vars(Probe(Loop))

FairSpec == Spec /\ Fairness

-----------------------------------------------------------------------------
(* Safety.                                                                 *)

\* A goroutine changed Controller.session and has not signalled wake yet.
SignalDue(a) ==
    \/ a # Loop /\ pc[a] \in {"ready", "closeOld", "signal"}
    \/ a = Gui /\ pc[a] \in {"markDetached", "markLost"}

\* The loop rests on the session it took in its last batch.
LoopRests == pc[Loop] \in {"replay", "publish", "pump", "check", "wait", "park"}

\* No lost wake-up: whenever the loop is resting, either it serves the session
\* the controller owns, or the token that will make it look again is in the
\* channel, or the goroutine that changed the session is about to put it there.
\* (runtime.go: a one-slot wake channel, signalled after every change.)
NoLostWakeup ==
    LoopRests /\ session # loopSession =>
        wake \/ stopped \/ \E a \in Actors : SignalDue(a)

\* The transport s is held by exactly one owner, who will close it: the
\* controller, a goroutine that is opening it, or one that has replaced it.
Holds(a, s) == fresh[a] = s \/ old[a] = s

\* Ownership: a transport that is not closed is never dropped, and a transport
\* somebody holds is never held by another as well, so that it is closed once
\* and never underneath the controller that still serves it.
OneOwner ==
    \A s \in Sessions :
        /\ status[s] \in {"open", "failed"} =>
              session = s \/ \E a \in Actors : Holds(a, s)
        /\ session = s =>
              status[s] \in {"open", "failed"} /\ \A a \in Actors : ~Holds(a, s)
        /\ \A a, b \in Actors : Holds(a, s) /\ Holds(b, s) => a = b

\* Handshake events wait in the controller only for the session they came
\* from, and only until that session's live events are read: they are its
\* first events, all of them, and nothing after them has been taken.
PendingIsPrefix ==
    pending # <<>> => session # None /\ pending = Buffered(session)

\* The runtime's output is one event stream (EventStream): no gap, repetition
\* or reordering inside a session, and no event of a session after another
\* session has spoken.
Stream == INSTANCE EventStream
StreamSpec == Stream!Spec

-----------------------------------------------------------------------------
(* Liveness.                                                               *)

NoConnects == \A c \in Connectors : pc[c] = "idle"

\* "It never gives up permanently" (manager.go): a lost device is found again,
\* unless the user disconnects or closes the window first.  It holds as long as
\* nobody clicks Connect; RecoveryNeverParked below says what can go wrong then.
LostSessionRecovered == recovering ~> (Connected \/ ~recovering \/ stopped)

\* The runtime catches up with the controller: a session that was adopted,
\* replaced or detached behind the loop's back is the one it serves in the end.
LoopCatchesUp == session # loopSession ~> (session = loopSession \/ stopped)

\* Runtime.Close always returns: the loop it joins is never stuck on a full
\* channel, a probe or a wait.
CloseReturns == stopped ~> pc[Gui] = "exited"

-----------------------------------------------------------------------------
(* What the code says of itself and does not keep.                         *)

\* manager.go says of a lost session that recovery never gives up permanently.
\* It does when this fails: the device is due to be recovered, but the loop is
\* parked with no token and nobody is left who will signal one.
RecoveryNeverParked ==
    ~ /\ pc[Loop] = "park" /\ ~wake /\ ~stopped
      /\ recovering /\ Retrying
      /\ NoConnects /\ pc[Gui] = "idle"

Quiet == NoConnects /\ pc[Gui] = "idle" /\ pc[Loop] \in {"pump", "park", "wait"}

\* controller.go says that a failed switch leaves an existing healthy session
\* untouched rather than disconnecting the user: with no operation under way, a
\* controller that owns a healthy session is Ready, which is what the window
\* shows as connected.
HealthySessionIsReady ==
    Quiet /\ session # None => (status[session] = "open" => state = "Ready")

=============================================================================
