------------------------- MODULE ConnectionProofs -------------------------
(***************************************************************************)
(* What the runtime's design promises for every number of sessions and of  *)
(* concurrent ConnectExplicit calls, every DegradedAfter and MaxEvents.    *)
(***************************************************************************)
EXTENDS Connection, TLAPS

-----------------------------------------------------------------------------
(* Type correctness.                                                       *)

\* The manager's own types hold at the start, and every method keeps them.
LEMMA ManagerInitTyped == ManagerInit => ManagerTypeOK
  <1> SUFFICES ASSUME ManagerInit PROVE ManagerTypeOK
    OBVIOUS
  <1>1. state \in States /\ attempts \in 0..DegradedAfter
    BY DegradedAssumption DEF ManagerInit, States
  <1>2. due \in BOOLEAN /\ recovering \in BOOLEAN
    BY DEF ManagerInit
  <1> QED BY <1>1, <1>2 DEF ManagerTypeOK

ManagerStep ==
    \/ BeginOpen \/ BeginHandshake \/ MarkReady \/ MarkLost
    \/ BeginAttempt \/ MarkAttemptFailed \/ MarkDetached \/ DeadlinePasses

LEMMA ManagerTyped ==
  ASSUME ManagerTypeOK, [ManagerStep]_managerVars
  PROVE  ManagerTypeOK'
  <1> USE DEF ManagerStep, BeginOpen, BeginHandshake, MarkReady, MarkLost,
              BeginAttempt, MarkAttemptFailed, MarkDetached, DeadlinePasses,
              managerVars
  <1>1. state' \in States
    BY DEF ManagerTypeOK, States
  <1>2. attempts' \in 0..DegradedAfter
    BY DegradedAssumption DEF ManagerTypeOK
  <1>3. due' \in BOOLEAN /\ recovering' \in BOOLEAN
    BY DEF ManagerTypeOK
  <1> QED BY <1>1, <1>2, <1>3 DEF ManagerTypeOK

\* The state a process starts in is well typed.
LEMMA InitTyped == Init => TypeOK
  <1> SUFFICES ASSUME Init PROVE TypeOK
    OBVIOUS
  <1> USE ConnectionAssumption
  <1>1. ManagerTypeOK
    BY ManagerInitTyped DEF Init
  <1>2. /\ session \in Sessions \cup {None} /\ pending \in Seq(Event)
        /\ loopSession \in Sessions \cup {None} /\ batch \in Seq(Event)
        /\ onAir \in Sessions \cup {None}
    BY DEF Init
  <1>7. wake \in BOOLEAN /\ stopped \in BOOLEAN /\ consuming \in BOOLEAN
    BY DEF Init
  <1>3. /\ status \in [Sessions -> {"none", "open", "failed", "closed"}]
        /\ read \in [Sessions -> 0..MaxEvents]
        /\ played \in [Sessions -> 0..MaxEvents]
    BY DEF Init
  <1>4. /\ pc \in [Actors -> LoopLabels \cup ConnectorLabels \cup GuiLabels]
        /\ pc[Loop] = "top" /\ pc[Gui] = "start"
        /\ \A c \in Connectors : pc[c] = "idle"
    BY DEF Init, Actors, LoopLabels, ConnectorLabels, GuiLabels
  <1>5. /\ fresh \in [Actors -> Sessions \cup {None}]
        /\ old \in [Actors -> Sessions \cup {None}]
        /\ before \in [Actors -> [ready : BOOLEAN, recovering : BOOLEAN]]
    BY DEF Init, NoSnapshot
  <1>6. \A a \in Actors : pc[a] \in {"top", "start", "idle"}
    BY <1>4 DEF Actors
  <1> QED
    BY <1>1, <1>2, <1>3, <1>4, <1>5, <1>6, <1>7
    DEF TypeOK, RuntimeTypeOK, LoopLabels, ConnectorLabels, GuiLabels,
        Opening, Serving

\* The events buffered by a handshake are events of a session, in a sequence.
LEMMA BufferedTyped ==
  ASSUME RuntimeTypeOK, NEW s \in Sessions
  PROVE  Buffered(s) \in Seq(Event)
  <1>1. read[s] \in Nat /\ \A i \in 1..read[s] : i \in 1..MaxEvents
    BY ConnectionAssumption DEF RuntimeTypeOK
  <1>2. \A i \in 1..read[s] : <<s, i>> \in Event
    BY <1>1 DEF Event
  <1> QED BY <1>1, <1>2 DEF Buffered

\* An event names its session and its place in that session.
LEMMA EventTyped ==
  ASSUME NEW e \in Event
  PROVE  e[1] \in Sessions /\ e[2] \in 0..MaxEvents
  BY ConnectionAssumption DEF Event

TransportTypeOK ==
    /\ status \in [Sessions -> {"none", "open", "failed", "closed"}]
    /\ read \in [Sessions -> 0..MaxEvents]
    /\ played \in [Sessions -> 0..MaxEvents]
    /\ onAir \in Sessions \cup {None}

\* Giving session names back keeps the types of the transports.
LEMMA ReleaseTyped ==
  ASSUME TransportTypeOK, NEW S, Release(S)
  PROVE  TransportTypeOK'
  BY ConnectionAssumption DEF TransportTypeOK, Release

\* Closing the session a goroutine holds, if any, keeps the types.
LEMMA CloseTyped ==
  ASSUME TransportTypeOK, NEW a, Close(a)
  PROVE  TransportTypeOK'
  <1>1. CASE Release({old[a]})
    BY <1>1, ReleaseTyped
  <1>2. CASE ~Release({old[a]})
    <2>1. /\ status' = [s \in Sessions |->
                           IF s = old[a] THEN "closed" ELSE status[s]]
          /\ UNCHANGED <<read, historyVars>>
      BY <1>2 DEF Close
    <2> QED BY <2>1 DEF TransportTypeOK, historyVars
  <1> QED BY <1>1, <1>2

\* A goroutine closes the session it took out of the controller.
LEMMA CloseOldTyped ==
  ASSUME RuntimeTypeOK, NEW a \in Actors, CloseOld(a)
  PROVE  RuntimeTypeOK'
  <1>1. TransportTypeOK'
    BY CloseTyped DEF RuntimeTypeOK, TransportTypeOK, CloseOld
  <1>2. old' \in [Actors -> Sessions \cup {None}]
    BY DEF CloseOld, Close, RuntimeTypeOK
  <1>3. PICK l \in {"top", "join", "signal"} :
          /\ pc' = [pc EXCEPT ![a] = l]
          /\ (l = "top") = (a = Loop)
          /\ l = "join" => a = Gui
    BY DEF CloseOld, Goto
  <1>4. /\ pc' \in [Actors -> LoopLabels \cup ConnectorLabels \cup GuiLabels]
        /\ pc'[Loop] \in LoopLabels
        /\ pc'[Gui] \in GuiLabels
        /\ \A c \in Connectors : pc'[c] \in ConnectorLabels
    BY <1>3, ConnectionAssumption
    DEF RuntimeTypeOK, Actors, LoopLabels, ConnectorLabels, GuiLabels
  <1>5. /\ \A b \in Actors : pc'[b] \in Opening => fresh[b] \in Sessions
        /\ pc'[Loop] \in Serving => loopSession \in Sessions
    BY <1>3, ConnectionAssumption DEF RuntimeTypeOK, Actors, Opening, Serving
  <1> QED
    BY <1>1, <1>2, <1>4, <1>5
    DEF RuntimeTypeOK, TransportTypeOK, CloseOld, controllerVars, runtimeVars, loopVars

\* A step of openAndHandshake, installSession or MarkReady keeps the types.
LEMMA OpenerTyped ==
  ASSUME RuntimeTypeOK, NEW a \in Openers, OpenerStep(a)
  PROVE  RuntimeTypeOK'
  <1>8. CASE CloseOld(a) BY <1>8, CloseOldTyped DEF Openers, Actors
  <1> USE ConnectionAssumption
      DEF RuntimeTypeOK, Actors, Openers, Goto, vars, coreVars,
          controllerVars, transportVars, runtimeVars, localVars,
          streamVars, loopVars, historyVars, LoopLabels, ConnectorLabels,
          GuiLabels, OpenLabels, Opening, Serving
  <1>1. CASE Open(a) BY <1>1 DEF Open
  <1>2. CASE OpenFails(a) BY <1>2 DEF OpenFails
  <1>3. CASE StartHandshake(a) BY <1>3 DEF StartHandshake
  <1>4. CASE Probe(a) BY <1>4 DEF Probe
  <1>5. CASE ProbeFails(a) BY <1>5 DEF ProbeFails, Release
  <1>6. CASE installSession(a)
    <2>1. fresh[a] \in Sessions BY <1>6 DEF installSession
    <2>2. pending' \in Seq(Event) BY <1>6, <2>1, BufferedTyped DEF installSession
    <2> QED BY <1>6, <2>1, <2>2 DEF installSession
  <1>7. CASE CompleteOpen(a) BY <1>7 DEF CompleteOpen
  <1> QED BY <1>1, <1>2, <1>3, <1>4, <1>5, <1>6, <1>7, <1>8 DEF OpenerStep

\* A step of the loop other than those of openAndHandshake keeps the types.
LEMMA LoopTyped ==
  ASSUME RuntimeTypeOK, LoopStep
  PROVE  RuntimeTypeOK'
  <1>1. CASE TakeRuntimeBatch
    <2>1. TransportTypeOK'
      BY <1>1, ReleaseTyped DEF TakeRuntimeBatch, RuntimeTypeOK, TransportTypeOK
    <2>2. /\ loopSession' \in Sessions \cup {None} /\ batch' \in Seq(Event)
          /\ session' \in Sessions \cup {None} /\ pending' \in Seq(Event)
      BY <1>1 DEF TakeRuntimeBatch, RuntimeTypeOK
    <2>3. pc' = [pc EXCEPT ![Loop] = "replay"]
      BY <1>1 DEF TakeRuntimeBatch, Goto
    <2>4. UNCHANGED <<runtimeVars, localVars>>
      BY <1>1 DEF TakeRuntimeBatch
    <2> QED
      BY <2>1, <2>2, <2>3, <2>4, ConnectionAssumption
      DEF RuntimeTypeOK, TransportTypeOK, Actors, LoopLabels, ConnectorLabels,
          GuiLabels, Opening, Serving, runtimeVars, localVars
  <1>2. CASE OpenerStep(Loop)
    BY <1>2, OpenerTyped DEF Openers
  <1>9. CASE StartRecoveryIfCurrent
    <2>1. session' \in Sessions \cup {None} /\ pending' \in Seq(Event)
      <3>1. \/ session' = None /\ pending' = <<>>
            \/ session' = session /\ pending' = pending
        BY <1>9 DEF StartRecoveryIfCurrent, controllerVars
      <3>2. session \in Sessions \cup {None} /\ pending \in Seq(Event)
        BY DEF RuntimeTypeOK
      <3>3. <<>> \in Seq(Event)
        OBVIOUS
      <3> QED BY <3>1, <3>2, <3>3
    <2>4. old' \in [Actors -> Sessions \cup {None}]
      BY <1>9 DEF StartRecoveryIfCurrent, RuntimeTypeOK
    <2>2. PICK l \in {"closeLost", "top"} : pc' = [pc EXCEPT ![Loop] = l]
      BY <1>9 DEF StartRecoveryIfCurrent, Goto
    <2>3. UNCHANGED <<transportVars, runtimeVars, fresh, before, streamVars>>
      BY <1>9 DEF StartRecoveryIfCurrent
    <2> QED
      BY <2>1, <2>2, <2>3, <2>4, ConnectionAssumption
      DEF RuntimeTypeOK, Actors, LoopLabels, ConnectorLabels, GuiLabels,
          OpenLabels, Opening, Serving, transportVars, runtimeVars,
          streamVars, loopVars, historyVars
  <1> USE ConnectionAssumption
      DEF RuntimeTypeOK, Actors, Goto, vars, coreVars,
          controllerVars, transportVars, runtimeVars, localVars,
          streamVars, loopVars, historyVars, LoopLabels, ConnectorLabels,
          GuiLabels, OpenLabels, Opening, Serving, LoopKeeps
  <1>3. CASE publishMessage
    <2>1. Head(batch) \in Event /\ Tail(batch) \in Seq(Event)
      BY <1>3 DEF publishMessage
    <2>2. Head(batch)[1] \in Sessions /\ Head(batch)[2] \in 0..MaxEvents
      BY <2>1, EventTyped
    <2> QED BY <1>3, <2>1, <2>2 DEF publishMessage
  <1>4. CASE ReplayDone BY <1>4 DEF ReplayDone
  <1>5. CASE PumpMessage
    <2>1. read[loopSession] + 1 \in 1..MaxEvents
      BY <1>5 DEF PumpMessage
    <2>2. <<<<loopSession, read[loopSession] + 1>>>> \in Seq(Event)
      BY <1>5, <2>1 DEF PumpMessage, Event
    <2> QED BY <1>5, <2>1, <2>2 DEF PumpMessage
  <1>6. CASE PumpFailure BY <1>6 DEF PumpFailure
  <1>7. CASE PumpWake BY <1>7 DEF PumpWake
  <1>8. CASE Recheck BY <1>8 DEF Recheck
  <1>10. CASE CloseLost
    <2>1. TransportTypeOK'
      BY <1>10, CloseTyped DEF CloseLost, TransportTypeOK
    <2>2. old' \in [Actors -> Sessions \cup {None}]
      BY <1>10 DEF CloseLost, Close
    <2> QED BY <1>10, <2>1, <2>2 DEF CloseLost, TransportTypeOK
  <1>11. CASE MarkSessionLost BY <1>11 DEF MarkSessionLost
  <1>12. CASE CheckRecovery BY <1>12 DEF CheckRecovery
  <1>13. CASE Wakened BY <1>13 DEF Wakened
  <1>14. CASE TimerFires BY <1>14 DEF TimerFires
  <1>15. CASE Attempt BY <1>15 DEF Attempt
  <1>16. CASE NoAttempt BY <1>16 DEF NoAttempt
  <1>17. CASE PauseOver BY <1>17 DEF PauseOver
  <1>18. CASE SelectCandidate BY <1>18 DEF SelectCandidate
  <1>19. CASE SelectFails BY <1>19 DEF SelectFails
  <1>20. CASE AttemptFails BY <1>20 DEF AttemptFails
  <1>21. CASE LoopStops BY <1>21 DEF LoopStops, StopPoints
  <1> QED
    BY <1>1, <1>2, <1>3, <1>4, <1>5, <1>6, <1>7, <1>8, <1>9, <1>10, <1>11,
       <1>12, <1>13, <1>14, <1>15, <1>16, <1>17, <1>18, <1>19, <1>20, <1>21
    DEF LoopStep

\* A step of the window keeps the types.
LEMMA GuiTyped ==
  ASSUME RuntimeTypeOK, GuiStep \/ Disconnect \/ DestroyWindow
  PROVE  RuntimeTypeOK'
  <1>1. CASE CloseOld(Gui) BY <1>1, CloseOldTyped DEF Actors
  <1> USE ConnectionAssumption
      DEF RuntimeTypeOK, Actors, Goto, vars, coreVars,
          controllerVars, transportVars, runtimeVars, localVars,
          streamVars, loopVars, historyVars, LoopLabels, ConnectorLabels,
          GuiLabels, OpenLabels, Opening, Serving
  <1>2. CASE Startup BY <1>2 DEF Startup
  <1>3. CASE StartRecovery BY <1>3 DEF StartRecovery
  <1>4. CASE StopRuntime BY <1>4 DEF StopRuntime
  <1>5. CASE DetachSession BY <1>5 DEF DetachSession
  <1>6. CASE MarkSessionDetached BY <1>6 DEF MarkSessionDetached
  <1>7. CASE Signal(Gui) BY <1>7 DEF Signal, signalWake, NoSnapshot
  <1>8. CASE Join BY <1>8 DEF Join
  <1>9. CASE Disconnect BY <1>9 DEF Disconnect
  <1>10. CASE DestroyWindow BY <1>10 DEF DestroyWindow
  <1> QED BY <1>1, <1>2, <1>3, <1>4, <1>5, <1>6, <1>7, <1>8, <1>9, <1>10
          DEF GuiStep

\* A step of a click on Connect, outside openAndHandshake, keeps the types.
LEMMA ConnectorTyped ==
  ASSUME ManagerTypeOK, RuntimeTypeOK,
         NEW c \in Connectors, Click(c) \/ ConnectorStep(c)
  PROVE  RuntimeTypeOK'
  <1>1. CASE OpenerStep(c) BY <1>1, OpenerTyped DEF Openers
  <1> USE ConnectionAssumption
      DEF RuntimeTypeOK, Actors, Goto, vars, coreVars,
          controllerVars, transportVars, runtimeVars, localVars,
          streamVars, loopVars, historyVars, LoopLabels, ConnectorLabels,
          GuiLabels, OpenLabels, Opening, Serving
  <1>2. CASE Click(c) BY <1>2 DEF Click
  <1>3. CASE BeginConnect(c)
    <2>1. Connected \in BOOLEAN /\ recovering \in BOOLEAN
      BY DEF Connected, ManagerTypeOK
    <2>2. [ready |-> Connected, recovering |-> recovering]
            \in [ready : BOOLEAN, recovering : BOOLEAN]
      BY <2>1
    <2>3. before' \in [Actors -> [ready : BOOLEAN, recovering : BOOLEAN]]
      BY <1>3, <2>2 DEF BeginConnect
    <2>4. PICK l \in {"idle", "beginOpen"} : pc' = [pc EXCEPT ![c] = l]
      BY <1>3 DEF BeginConnect
    <2>5. UNCHANGED <<coreVars, runtimeVars, fresh, old, streamVars>>
      BY <1>3 DEF BeginConnect
    <2> QED BY <2>3, <2>4, <2>5
  <1>4. CASE BeginConnectOpen(c) BY <1>4 DEF BeginConnectOpen
  <1>5. CASE ConnectFails(c) BY <1>5 DEF ConnectFails, NoSnapshot
  <1>6. CASE Signal(c) BY <1>6 DEF Signal, signalWake, NoSnapshot
  <1> QED BY <1>1, <1>2, <1>3, <1>4, <1>5, <1>6 DEF ConnectorStep

\* A step of the environment keeps the types.
LEMMA EnvironmentTyped ==
  ASSUME RuntimeTypeOK,
         Tick \/ Terminated \/ \E s \in Sessions : SessionFails(s)
  PROVE  RuntimeTypeOK'
  <1> USE DEF RuntimeTypeOK, vars, coreVars, controllerVars, transportVars,
              runtimeVars, localVars, streamVars, loopVars, historyVars
  <1>1. CASE Tick BY <1>1 DEF Tick
  <1>2. CASE Terminated BY <1>2 DEF Terminated
  <1>3. ASSUME NEW s \in Sessions, SessionFails(s)
        PROVE  RuntimeTypeOK'
    BY <1>3 DEF SessionFails
  <1> QED BY <1>1, <1>2, <1>3

\* The manager changes only by one of its methods or by time.
LEMMA NextIsManagerStep ==
  ASSUME [Next]_vars
  PROVE  [ManagerStep]_managerVars
  <1> USE DEF ManagerStep, coreVars
  <1>1. ASSUME NEW a, OpenerStep(a) PROVE [ManagerStep]_managerVars
    BY <1>1 DEF OpenerStep, Open, OpenFails, StartHandshake, Probe, ProbeFails,
                installSession, CompleteOpen, CloseOld
  <1>2. CASE LoopStep
    <2>1. CASE OpenerStep(Loop) BY <1>1, <2>1
    <2>2. CASE ~OpenerStep(Loop)
      BY <1>2, <2>2
      DEF LoopStep, TakeRuntimeBatch, publishMessage, ReplayDone, PumpMessage,
          PumpFailure, PumpWake, Recheck, StartRecoveryIfCurrent, CloseLost,
          MarkSessionLost, CheckRecovery, Wakened, TimerFires, Attempt,
          NoAttempt, PauseOver, SelectCandidate, SelectFails, AttemptFails,
          LoopStops, LoopKeeps
    <2> QED BY <2>1, <2>2
  <1>3. CASE GuiStep \/ Disconnect \/ DestroyWindow
    BY <1>3 DEF GuiStep, Startup, StartRecovery, StopRuntime, DetachSession,
                MarkSessionDetached, CloseOld, Signal, Join, Disconnect,
                DestroyWindow
  <1>4. ASSUME NEW c \in Connectors, Click(c) \/ ConnectorStep(c)
        PROVE  [ManagerStep]_managerVars
    <2>1. CASE OpenerStep(c) BY <1>1, <2>1
    <2>2. CASE ConnectFails(c)
      BY <2>2 DEF ConnectFails
    <2>3. CASE ~OpenerStep(c) /\ ~ConnectFails(c)
      BY <1>4, <2>3 DEF ConnectorStep, Click, BeginConnect, BeginConnectOpen,
                        Signal
    <2> QED BY <2>1, <2>2, <2>3
  <1>5. CASE Tick BY <1>5 DEF Tick
  <1>6. CASE Terminated \/ UNCHANGED vars
    BY <1>6 DEF Terminated, vars
  <1>7. ASSUME NEW s \in Sessions, SessionFails(s)
        PROVE  [ManagerStep]_managerVars
    BY <1>7 DEF SessionFails
  <1> QED BY <1>2, <1>3, <1>4, <1>5, <1>6, <1>7 DEF Next

\* The types are kept by every step.
LEMMA NextTyped ==
  ASSUME TypeOK, [Next]_vars
  PROVE  TypeOK'
  <1>1. ManagerTypeOK'
    BY ManagerTyped, NextIsManagerStep DEF TypeOK
  <1>2. RuntimeTypeOK'
    <2>1. CASE LoopStep BY <2>1, LoopTyped DEF TypeOK
    <2>2. CASE GuiStep \/ Disconnect \/ DestroyWindow
      BY <2>2, GuiTyped DEF TypeOK
    <2>3. ASSUME NEW c \in Connectors, Click(c) \/ ConnectorStep(c)
          PROVE  RuntimeTypeOK'
      BY <2>3, ConnectorTyped DEF TypeOK
    <2>4. CASE Tick \/ Terminated \/ \E s \in Sessions : SessionFails(s)
      BY <2>4, EnvironmentTyped DEF TypeOK
    <2>5. CASE UNCHANGED vars
      BY <2>5 DEF TypeOK, RuntimeTypeOK, vars, coreVars, controllerVars,
         transportVars, runtimeVars, localVars, streamVars, loopVars,
         historyVars
    <2> QED BY <2>1, <2>2, <2>3, <2>4, <2>5 DEF Next
  <1> QED BY <1>1, <1>2 DEF TypeOK

\* Every variable of the connection subsystem keeps its type, a goroutine that
\* probes or installs a session has one in hand, and the loop serves a session
\* whenever it is inside pumpSession.
THEOREM TypeCorrect == Spec => []TypeOK
  <1>1. TypeOK /\ [Next]_vars => TypeOK'
    BY NextTyped
  <1> QED BY InitTyped, <1>1, PTL DEF Spec

-----------------------------------------------------------------------------
(* No lost wake-up.                                                        *)

\* A step that leaves the ownership, the token and the signals that are due as
\* they are, and does not bring the loop to rest, cannot lose a wake-up.
LEMMA Undisturbed ==
  ASSUME NoLostWakeup, UNCHANGED <<session, loopSession>>,
         LoopRests' => LoopRests,
         wake => wake',
         stopped => stopped',
         \A b \in Actors : SignalDue(b) => SignalDue(b)' \/ wake' \/ stopped'
  PROVE  NoLostWakeup'
  BY DEF NoLostWakeup

\* A step of openAndHandshake, installSession or MarkReady: the goroutine that
\* installs a session owes a signal from then on, and the loop, when it installs
\* one itself, comes back to the top.
LEMMA OpenerKeepsWakeup ==
  ASSUME RuntimeTypeOK, NoLostWakeup, NEW a \in Openers, OpenerStep(a)
  PROVE  NoLostWakeup'
  <1> USE ConnectionAssumption
  <1>1. /\ a \in Actors /\ a # Gui
        /\ pc \in [Actors -> LoopLabels \cup ConnectorLabels \cup GuiLabels]
    BY DEF Openers, Actors, RuntimeTypeOK
  <1>2. UNCHANGED <<wake, stopped, loopSession>>
    BY DEF OpenerStep, Open, OpenFails, StartHandshake, Probe, ProbeFails,
           installSession, CompleteOpen, CloseOld, runtimeVars, streamVars,
           loopVars
  <1>3. CASE installSession(a)
    <2>1. pc' = [pc EXCEPT ![a] = "ready"]
      BY <1>3 DEF installSession, Goto
    <2>2. CASE a = Loop
      BY <1>1, <2>1, <2>2 DEF NoLostWakeup, LoopRests
    <2>3. CASE a # Loop
      BY <1>1, <2>1, <2>3 DEF NoLostWakeup, SignalDue
    <2> QED BY <2>2, <2>3
  <1>4. CASE ~installSession(a)
    <2>1. UNCHANGED session
      BY <1>4 DEF OpenerStep, Open, OpenFails, StartHandshake, Probe, ProbeFails,
                  CompleteOpen, CloseOld, controllerVars, coreVars
    <2>2. PICK l \in {"handshake", "failed", "probe", "install", "closeOld",
                       "top", "signal"} :
            /\ pc' = [pc EXCEPT ![a] = l]
            /\ pc[a] \in {"ready", "closeOld"} =>
                  l = (IF pc[a] = "ready" THEN "closeOld"
                       ELSE IF a = Loop THEN "top" ELSE "signal")
            /\ pc[a] # "signal"
      BY <1>1, <1>4 DEF OpenerStep, Open, OpenFails, StartHandshake, Probe,
                  ProbeFails, CompleteOpen, CloseOld, Goto
    <2>3. LoopRests' => LoopRests
      BY <1>1, <2>2 DEF LoopRests
    <2>4. ASSUME NEW b \in Actors, SignalDue(b)
          PROVE  SignalDue(b)'
      BY <1>1, <2>2, <2>4 DEF SignalDue
    <2> QED BY <1>2, <2>1, <2>3, <2>4, Undisturbed
  <1> QED BY <1>3, <1>4

\* A step of the loop: it comes to rest with the session it has just taken, it
\* stays at rest without touching the token, or it leaves its rest.
LEMMA LoopKeepsWakeup ==
  ASSUME RuntimeTypeOK, NoLostWakeup, LoopStep
  PROVE  NoLostWakeup'
  <1>1. /\ Loop \in Actors /\ Loop \in Openers
        /\ pc \in [Actors -> LoopLabels \cup ConnectorLabels \cup GuiLabels]
    BY DEF Actors, Openers, RuntimeTypeOK
  <1>2. CASE OpenerStep(Loop)
    BY <1>1, <1>2, OpenerKeepsWakeup
  <1>3. CASE TakeRuntimeBatch
    BY <1>3 DEF TakeRuntimeBatch, NoLostWakeup
  <1>4. CASE publishMessage \/ ReplayDone \/ PumpMessage \/ CheckRecovery
    <2>1. /\ UNCHANGED <<session, loopSession, wake, stopped>>
          /\ pc[Loop] \in {"replay", "publish", "pump", "check"}
      BY <1>4 DEF publishMessage, ReplayDone, PumpMessage, CheckRecovery,
                  LoopKeeps, coreVars, controllerVars, runtimeVars, streamVars,
                  loopVars
    <2>2. PICK l : pc' = [pc EXCEPT ![Loop] = l]
      BY <1>4 DEF publishMessage, ReplayDone, PumpMessage, CheckRecovery, Goto
    <2>3. LoopRests' => LoopRests
      BY <2>1 DEF LoopRests
    <2>4. ASSUME NEW b \in Actors, SignalDue(b)
          PROVE  SignalDue(b)'
      BY <1>1, <2>2, <2>4, ConnectionAssumption DEF SignalDue
    <2> QED BY <2>1, <2>3, <2>4, Undisturbed
  <1>5. CASE Recheck
    <2>1. CASE session = loopSession
      BY <1>5, <2>1 DEF Recheck, NoLostWakeup, LoopKeeps, coreVars,
         controllerVars, streamVars, loopVars
    <2>2. CASE session # loopSession
      <3>1. pc' = [pc EXCEPT ![Loop] = "top"]
        BY <1>5, <2>2 DEF Recheck, Goto
      <3> QED BY <1>1, <3>1 DEF NoLostWakeup, LoopRests
    <2> QED BY <2>1, <2>2
  <1>6. CASE StartRecoveryIfCurrent
    <2>1. PICK l \in {"closeLost", "top"} : pc' = [pc EXCEPT ![Loop] = l]
      BY <1>6 DEF StartRecoveryIfCurrent, Goto
    <2> QED BY <1>1, <2>1 DEF NoLostWakeup, LoopRests
  <1>7. CASE \/ PumpFailure \/ PumpWake \/ CloseLost \/ MarkSessionLost
             \/ Wakened \/ TimerFires \/ Attempt \/ NoAttempt \/ PauseOver
             \/ SelectCandidate \/ SelectFails \/ AttemptFails \/ LoopStops
    <2>1. PICK l \in {"lost", "recheck", "markLost", "top", "attempt", "select",
                      "backoff", "open", "failed", "done"} :
            pc' = [pc EXCEPT ![Loop] = l]
      BY <1>7 DEF PumpFailure, PumpWake, CloseLost, MarkSessionLost, Wakened,
                  TimerFires, Attempt, NoAttempt, PauseOver, SelectCandidate,
                  SelectFails, AttemptFails, LoopStops, Goto
    <2> QED BY <1>1, <2>1 DEF NoLostWakeup, LoopRests
  <1> QED BY <1>2, <1>3, <1>4, <1>5, <1>6, <1>7 DEF LoopStep

\* A step of a click on Connect: a signal that was due is given, and ConnectFails
\* owes none because it has changed nothing.
LEMMA ConnectorKeepsWakeup ==
  ASSUME RuntimeTypeOK, NoLostWakeup, NEW c \in Connectors,
         Click(c) \/ ConnectorStep(c)
  PROVE  NoLostWakeup'
  <1>1. /\ c \in Actors /\ c \in Openers /\ c # Loop /\ c # Gui
        /\ pc \in [Actors -> LoopLabels \cup ConnectorLabels \cup GuiLabels]
    BY ConnectionAssumption DEF Actors, Openers, RuntimeTypeOK
  <1>2. CASE OpenerStep(c)
    BY <1>1, <1>2, OpenerKeepsWakeup
  <1>3. CASE Signal(c)
    BY <1>3 DEF Signal, signalWake, NoLostWakeup
  <1>4. CASE Click(c) \/ BeginConnect(c) \/ BeginConnectOpen(c) \/ ConnectFails(c)
    <2>1. /\ UNCHANGED <<session, loopSession, wake, stopped>>
          /\ pc[c] \in {"idle", "begin", "beginOpen", "failed"}
      BY <1>4 DEF Click, BeginConnect, BeginConnectOpen, ConnectFails,
                  coreVars, controllerVars, runtimeVars, streamVars, loopVars
    <2>2. PICK l : pc' = [pc EXCEPT ![c] = l]
      BY <1>4 DEF Click, BeginConnect, BeginConnectOpen, ConnectFails, Goto
    <2>3. LoopRests' => LoopRests
      BY <1>1, <2>2 DEF LoopRests
    <2>4. ASSUME NEW b \in Actors, SignalDue(b)
          PROVE  SignalDue(b)'
      BY <1>1, <2>1, <2>2, <2>4 DEF SignalDue
    <2> QED BY <2>1, <2>3, <2>4, Undisturbed
  <1> QED BY <1>2, <1>3, <1>4 DEF ConnectorStep

\* A step of the window: Disconnect and StartRecovery owe a signal from the
\* moment they take the session away, and Close of the runtime replaces it.
LEMMA GuiKeepsWakeup ==
  ASSUME RuntimeTypeOK, NoLostWakeup, GuiStep \/ Disconnect \/ DestroyWindow
  PROVE  NoLostWakeup'
  <1>1. /\ Gui \in Actors /\ Gui # Loop
        /\ pc \in [Actors -> LoopLabels \cup ConnectorLabels \cup GuiLabels]
    BY ConnectionAssumption DEF Actors, RuntimeTypeOK
  <1>2. CASE DetachSession
    <2>1. pc' = [pc EXCEPT ![Gui] = "markDetached"]
      BY <1>2 DEF DetachSession, Goto
    <2> QED BY <1>1, <2>1 DEF NoLostWakeup, SignalDue
  <1>3. CASE Signal(Gui)
    BY <1>3 DEF Signal, signalWake, NoLostWakeup
  <1>4. CASE StopRuntime
    BY <1>4 DEF StopRuntime, NoLostWakeup
  <1>5. CASE \/ Startup \/ StartRecovery \/ MarkSessionDetached \/ Join
             \/ CloseOld(Gui) \/ Disconnect \/ DestroyWindow
    <2>1. UNCHANGED <<session, loopSession, wake, stopped>>
      BY <1>5 DEF Startup, StartRecovery, MarkSessionDetached, Join, CloseOld,
                  Disconnect, DestroyWindow, coreVars, controllerVars,
                  runtimeVars, streamVars, loopVars
    <2>2. PICK l :
            /\ pc' = [pc EXCEPT ![Gui] = l]
            /\ pc[Gui] = "markLost" => l = "signal"
            /\ pc[Gui] = "markDetached" => l = "closeOld"
            /\ pc[Gui] = "closeOld" => stopped \/ l = "signal"
            /\ pc[Gui] \notin {"signal", "ready"}
      BY <1>1, <1>5 DEF Startup, StartRecovery, MarkSessionDetached, Join,
                        CloseOld, Disconnect, DestroyWindow, Goto
    <2>3. LoopRests' => LoopRests
      BY <1>1, <2>2 DEF LoopRests
    <2>4. ASSUME NEW b \in Actors, SignalDue(b)
          PROVE  SignalDue(b)' \/ stopped'
      BY <1>1, <2>1, <2>2, <2>4 DEF SignalDue
    <2> QED BY <2>1, <2>3, <2>4, Undisturbed
  <1> QED BY <1>2, <1>3, <1>4, <1>5 DEF GuiStep

\* Every step keeps the wake-up.
LEMMA NextKeepsWakeup ==
  ASSUME RuntimeTypeOK, NoLostWakeup, [Next]_vars
  PROVE  NoLostWakeup'
  <1>1. CASE \/ Tick \/ Terminated \/ UNCHANGED vars
             \/ \E s \in Sessions : SessionFails(s)
    <2>1. UNCHANGED <<session, loopSession, wake, stopped, pc>>
      BY <1>1 DEF Tick, Terminated, SessionFails, vars, coreVars,
                  controllerVars, runtimeVars, streamVars, loopVars
    <2>2. (LoopRests' => LoopRests) /\ \A b : SignalDue(b) => SignalDue(b)'
      BY <2>1 DEF LoopRests, SignalDue
    <2> QED BY <2>1, <2>2, Undisturbed
  <1> QED
    BY <1>1, LoopKeepsWakeup, GuiKeepsWakeup, ConnectorKeepsWakeup DEF Next

\* No lost wake-up, for any number of concurrent Connect clicks: whenever the
\* loop rests, it serves the session the controller owns, or the token in the
\* one-slot wake channel (Runtime.signalWake) or a signal still due will make
\* it look again, or the runtime has been closed.
THEOREM WakeupNeverLost == Spec => []NoLostWakeup
  <1>1. Init => NoLostWakeup
    BY DEF Init, NoLostWakeup
  <1>2. TypeOK /\ NoLostWakeup /\ [Next]_vars => NoLostWakeup'
    BY NextKeepsWakeup DEF TypeOK
  <1> QED BY TypeCorrect, <1>1, <1>2, PTL DEF Spec

-----------------------------------------------------------------------------
(* Who holds which transport: the inductive invariant behind OneOwner.     *)

\* Where a goroutine has a session in hand that it took out of the controller.
Closing == {"ready", "closeOld", "closeLost", "markDetached"}

Live(s) == status[s] \in {"open", "failed"}

\* OneOwner says that a live session is held; here, that what is held is live
\* and that a goroutine holds a session only while it opens or closes one.
Ownership ==
    /\ OneOwner
    /\ \A a \in Actors, s \in Sessions : Holds(a, s) => Live(s)
    /\ \A a \in Actors : fresh[a] # None => pc[a] \in Opening
    /\ \A a \in Actors : old[a] # None => pc[a] \in Closing

-----------------------------------------------------------------------------

\* A step that moves no session from hand to hand and lets no goroutine leave
\* the opening or the closing of one keeps the ownership.
LEMMA OwnershipKept ==
  ASSUME Ownership, UNCHANGED <<session, fresh, old>>,
         \A s \in Sessions : Live(s)' <=> Live(s),
         \A a \in Actors : pc[a] \in Opening => pc'[a] \in Opening,
         \A a \in Actors : pc[a] \in Closing => pc'[a] \in Closing
  PROVE  Ownership'
  BY DEF Ownership, OneOwner, Holds, Live

\* The same for a step of one goroutine that touches neither session nor status.
LEMMA OwnershipMoves ==
  ASSUME RuntimeTypeOK, Ownership, UNCHANGED <<session, status, fresh, old>>,
         NEW a, NEW l, pc' = [pc EXCEPT ![a] = l],
         pc[a] \in Opening => l \in Opening,
         pc[a] \in Closing => l \in Closing
  PROVE  Ownership'
  <1>1. \A b \in Actors : pc'[b] = IF b = a THEN l ELSE pc[b]
    BY DEF RuntimeTypeOK
  <1>2. \A s \in Sessions : Live(s)' <=> Live(s)
    BY DEF Live
  <1> QED BY <1>1, <1>2, OwnershipKept

\* Open takes a name nobody uses.
LEMMA OpenKeepsOwnership ==
  ASSUME RuntimeTypeOK, Ownership, NEW a \in Openers, Open(a)
  PROVE  Ownership'
  <1>1. PICK s \in Sessions :
          /\ status[s] = "none"
          /\ status' = [status EXCEPT ![s] = "open"]
          /\ fresh' = [fresh EXCEPT ![a] = s]
    BY DEF Open
  <1>2. /\ pc[a] = "open" /\ pc' = [pc EXCEPT ![a] = "handshake"]
        /\ UNCHANGED <<session, old>>
    BY DEF Open, Goto, controllerVars
  <1>3. a \in Actors /\ fresh[a] = None /\ old[a] = None
    BY <1>2 DEF Openers, Actors, Ownership, Opening, Closing
  <1>4. /\ session # s
        /\ \A b \in Actors : fresh[b] # s /\ old[b] # s
    BY <1>1 DEF Ownership, OneOwner, Holds, Live
  <1>5. \A b \in Actors : fresh'[b] = IF b = a THEN s ELSE fresh[b]
    BY <1>1 DEF RuntimeTypeOK
  <1>6. \A r \in Sessions : Live(r)' <=> (r = s \/ Live(r))
    BY <1>1 DEF RuntimeTypeOK, Live
  <1>7. \A b \in Actors, r \in Sessions :
          Holds(b, r)' <=> ((b = a /\ r = s) \/ Holds(b, r))
    BY <1>2, <1>3, <1>5, ConnectionAssumption DEF Holds
  <1>8. OneOwner'
    BY <1>2, <1>3, <1>4, <1>6, <1>7 DEF Ownership, OneOwner, Live, Holds
  <1>9. \A b \in Actors : pc'[b] = IF b = a THEN "handshake" ELSE pc[b]
    BY <1>2 DEF RuntimeTypeOK
  <1> QED
    BY <1>2, <1>3, <1>5, <1>6, <1>7, <1>8, <1>9
    DEF Ownership, Opening, Closing

\* A failed probe closes the session it was given.
LEMMA ProbeFailsKeepsOwnership ==
  ASSUME RuntimeTypeOK, Ownership, NEW a \in Openers, ProbeFails(a)
  PROVE  Ownership'
  <1>1. /\ pc[a] = "probe" /\ pc' = [pc EXCEPT ![a] = "failed"]
        /\ fresh' = [fresh EXCEPT ![a] = None]
        /\ status' = [s \in Sessions |->
                         IF s \in {fresh[a]} THEN "none" ELSE status[s]]
        /\ UNCHANGED <<session, old>>
    BY DEF ProbeFails, Goto, Release, controllerVars
  <1>2. /\ a \in Actors /\ fresh[a] \in Sessions /\ old[a] = None
        /\ session # fresh[a]
    BY <1>1 DEF RuntimeTypeOK, Openers, Actors, Opening, Closing, Ownership,
               OneOwner, Holds
  <1>3. \A b \in Actors : fresh'[b] = IF b = a THEN None ELSE fresh[b]
    BY <1>1 DEF RuntimeTypeOK
  <1>4. \A r \in Sessions : Live(r)' <=> (r # fresh[a] /\ Live(r))
    BY <1>1 DEF Live
  <1>5. \A b \in Actors, r \in Sessions :
          Holds(b, r)' <=> (r # fresh[a] /\ Holds(b, r))
    BY <1>1, <1>2, <1>3, ConnectionAssumption DEF Holds, Ownership, OneOwner
  <1>6. OneOwner'
    BY <1>1, <1>2, <1>4, <1>5 DEF Ownership, OneOwner, Live
  <1>7. \A b \in Actors : pc'[b] = IF b = a THEN "failed" ELSE pc[b]
    BY <1>1 DEF RuntimeTypeOK
  <1> QED
    BY <1>1, <1>2, <1>3, <1>4, <1>5, <1>6, <1>7
    DEF Ownership, Opening, Closing

\* Installing swaps the session in hand with the controller's.
LEMMA InstallKeepsOwnership ==
  ASSUME RuntimeTypeOK, Ownership, NEW a \in Openers, installSession(a)
  PROVE  Ownership'
  <1>1. /\ pc[a] = "install" /\ pc' = [pc EXCEPT ![a] = "ready"]
        /\ session' = fresh[a]
        /\ fresh' = [fresh EXCEPT ![a] = None]
        /\ old' = [old EXCEPT ![a] = session]
        /\ UNCHANGED status
    BY DEF installSession, Goto, transportVars
  <1>2. /\ a \in Actors /\ fresh[a] \in Sessions /\ old[a] = None
        /\ session # fresh[a]
    BY <1>1 DEF RuntimeTypeOK, Openers, Actors, Opening, Closing, Ownership,
               OneOwner, Holds
  <1>3. \A b \in Actors : /\ fresh'[b] = IF b = a THEN None ELSE fresh[b]
                          /\ old'[b] = IF b = a THEN session ELSE old[b]
                          /\ pc'[b] = IF b = a THEN "ready" ELSE pc[b]
    BY <1>1 DEF RuntimeTypeOK
  <1>4. \A r \in Sessions : Live(r)' <=> Live(r)
    BY <1>1 DEF Live
  <1>5. \A b \in Actors, r \in Sessions :
          Holds(b, r)' <=> \/ b = a /\ r = session
                           \/ r # fresh[a] /\ Holds(b, r)
    BY <1>1, <1>2, <1>3, ConnectionAssumption DEF Holds, Ownership, OneOwner
  <1>6. OneOwner'
    BY <1>1, <1>2, <1>4, <1>5 DEF Ownership, OneOwner, Live, Holds
  <1>7. \A b \in Actors, r \in Sessions : Holds(b, r)' => Live(r)'
    BY <1>4, <1>5 DEF Ownership, OneOwner, Live
  <1> QED
    BY <1>1, <1>3, <1>6, <1>7 DEF Ownership, Opening, Closing

\* Detaching hands the controller's session to the goroutine that will close it.
LEMMA DetachKeepsOwnership ==
  ASSUME RuntimeTypeOK, Ownership, NEW a \in Actors, NEW l \in Closing,
         pc[a] \notin Closing, pc[a] \notin Opening,
         session' = None, old' = [old EXCEPT ![a] = session],
         pc' = [pc EXCEPT ![a] = l], UNCHANGED <<fresh, status>>
  PROVE  Ownership'
  <1>1. old[a] = None
    BY DEF Ownership
  <1>2. \A b \in Actors : /\ old'[b] = IF b = a THEN session ELSE old[b]
                          /\ pc'[b] = IF b = a THEN l ELSE pc[b]
    BY DEF RuntimeTypeOK
  <1>3. \A r \in Sessions : Live(r)' <=> Live(r)
    BY DEF Live
  <1>4. \A b \in Actors, r \in Sessions :
          Holds(b, r)' <=> (b = a /\ r = session) \/ Holds(b, r)
    BY <1>1, <1>2, ConnectionAssumption DEF Holds
  <1>5. OneOwner'
    BY <1>3, <1>4, ConnectionAssumption DEF Ownership, OneOwner, Live, Holds
  <1>6. \A b \in Actors, r \in Sessions : Holds(b, r)' => Live(r)'
    BY <1>3, <1>4 DEF Ownership, OneOwner, Live
  <1> QED BY <1>2, <1>5, <1>6 DEF Ownership

\* Closing gives up the session a goroutine took out of the controller.
LEMMA CloseKeepsOwnership ==
  ASSUME RuntimeTypeOK, Ownership, NEW a \in Actors, Close(a), NEW l,
         l \notin Opening, pc[a] \in Closing,
         pc' = [pc EXCEPT ![a] = l], UNCHANGED <<session, fresh>>
  PROVE  Ownership'
  <1>1. fresh[a] = None
    BY DEF Ownership, Opening, Closing
  <1>2. old' = [old EXCEPT ![a] = None]
    BY DEF Close
  <1>3. \A b \in Actors : /\ old'[b] = IF b = a THEN None ELSE old[b]
                          /\ pc'[b] = IF b = a THEN l ELSE pc[b]
    BY <1>2 DEF RuntimeTypeOK
  <1>4. \A r \in Sessions : Live(r)' <=> r # old[a] /\ Live(r)
    BY DEF Live, Close, Release
  <1>5. \A b \in Actors, r \in Sessions :
          Holds(b, r)' <=> r # old[a] /\ Holds(b, r)
    BY <1>1, <1>3, ConnectionAssumption DEF Holds, Ownership, OneOwner
  <1>6. old[a] \in Sessions => session # old[a]
    BY DEF Ownership, OneOwner, Holds
  <1>7. OneOwner'
    BY <1>4, <1>5, <1>6 DEF Ownership, OneOwner, Live
  <1>8. \A b \in Actors, r \in Sessions : Holds(b, r)' => Live(r)'
    BY <1>4, <1>5 DEF Ownership
  <1> QED BY <1>1, <1>3, <1>7, <1>8 DEF Ownership

\* A step of openAndHandshake, installSession, MarkReady or of closing.
LEMMA OpenerKeepsOwnership ==
  ASSUME RuntimeTypeOK, Ownership, NEW a \in Openers, OpenerStep(a)
  PROVE  Ownership'
  <1>1. a \in Actors
    BY DEF Openers, Actors
  <1>2. CASE OpenFails(a) \/ StartHandshake(a) \/ Probe(a) \/ CompleteOpen(a)
    <2>1. UNCHANGED <<session, status, fresh, old>>
      BY <1>2 DEF OpenFails, StartHandshake, Probe, CompleteOpen, coreVars,
                  controllerVars, transportVars, localVars
    <2>2. PICK l : /\ pc' = [pc EXCEPT ![a] = l]
                   /\ pc[a] \in Opening => l \in Opening
                   /\ pc[a] \in Closing => l \in Closing
      BY <1>2 DEF OpenFails, StartHandshake, Probe, CompleteOpen, Goto,
                  Opening, Closing
    <2> QED BY <2>1, <2>2, OwnershipMoves
  <1>3. CASE CloseOld(a)
    <2>1. PICK l \in {"top", "join", "signal"} : pc' = [pc EXCEPT ![a] = l]
      BY <1>3 DEF CloseOld, Goto
    <2>2. Close(a) /\ pc[a] = "closeOld" /\ UNCHANGED <<session, fresh>>
      BY <1>3 DEF CloseOld, controllerVars
    <2> QED BY <1>1, <2>1, <2>2, CloseKeepsOwnership DEF Opening, Closing
  <1> QED
    BY <1>2, <1>3, OpenKeepsOwnership, ProbeFailsKeepsOwnership,
       InstallKeepsOwnership DEF OpenerStep

\* A step of the loop.
LEMMA LoopKeepsOwnership ==
  ASSUME RuntimeTypeOK, Ownership, LoopStep
  PROVE  Ownership'
  <1>1. Loop \in Actors /\ Loop \in Openers
    BY DEF Actors, Openers
  <1>2. CASE OpenerStep(Loop)
    BY <1>1, <1>2, OpenerKeepsOwnership
  <1>3. CASE TakeRuntimeBatch
    <2>1. /\ UNCHANGED <<session, fresh, old>>
          /\ pc[Loop] = "top" /\ pc' = [pc EXCEPT ![Loop] = "replay"]
          /\ status' = [s \in Sessions |->
                IF s \in {r \in {loopSession} \ {None} : status[r] = "closed"}
                THEN "none" ELSE status[s]]
      BY <1>3 DEF TakeRuntimeBatch, Release, Goto, localVars
    <2>2. \A s \in Sessions : Live(s)' <=> Live(s)
      BY <2>1 DEF Live
    <2>3. \A a \in Actors : pc'[a] = IF a = Loop THEN "replay" ELSE pc[a]
      BY <2>1 DEF RuntimeTypeOK
    <2> QED BY <2>1, <2>2, <2>3, OwnershipKept DEF Opening, Closing
  <1>4. CASE StartRecoveryIfCurrent
    <2>1. CASE session = loopSession
      <3>1. /\ pc[Loop] = "lost" /\ pc' = [pc EXCEPT ![Loop] = "closeLost"]
            /\ session' = None /\ old' = [old EXCEPT ![Loop] = session]
            /\ UNCHANGED <<fresh, status>>
        BY <1>4, <2>1 DEF StartRecoveryIfCurrent, Goto, transportVars
      <3> QED BY <1>1, <3>1, DetachKeepsOwnership DEF Opening, Closing
    <2>2. CASE session # loopSession
      <3>1. /\ pc[Loop] = "lost" /\ pc' = [pc EXCEPT ![Loop] = "top"]
            /\ UNCHANGED <<session, status, fresh, old>>
        BY <1>4, <2>2 DEF StartRecoveryIfCurrent, Goto, transportVars,
           controllerVars
      <3> QED BY <3>1, OwnershipMoves DEF Opening, Closing
    <2> QED BY <2>1, <2>2
  <1>5. CASE CloseLost
    <2>1. /\ pc[Loop] = "closeLost" /\ pc' = [pc EXCEPT ![Loop] = "markLost"]
          /\ Close(Loop) /\ UNCHANGED <<session, fresh>>
      BY <1>5 DEF CloseLost, Goto, controllerVars
    <2> QED BY <1>1, <2>1, CloseKeepsOwnership DEF Opening, Closing
  <1>6. CASE \/ publishMessage \/ ReplayDone \/ PumpMessage \/ PumpFailure
             \/ PumpWake \/ Recheck \/ MarkSessionLost \/ CheckRecovery
             \/ Wakened \/ TimerFires \/ Attempt \/ NoAttempt \/ PauseOver
             \/ SelectCandidate \/ SelectFails \/ AttemptFails \/ LoopStops
    <2> USE DEF publishMessage, ReplayDone, PumpMessage, PumpFailure, PumpWake,
                Recheck, MarkSessionLost, CheckRecovery, Wakened, TimerFires,
                Attempt, NoAttempt, PauseOver, SelectCandidate, SelectFails,
                AttemptFails, LoopStops, StopPoints
    <2>1. UNCHANGED <<session, status, fresh, old>>
      BY <1>6 DEF LoopKeeps, coreVars, controllerVars, transportVars, localVars
    <2>2. pc[Loop] \notin Opening /\ pc[Loop] \notin Closing
      BY <1>6 DEF Opening, Closing
    <2>3. PICK l : pc' = [pc EXCEPT ![Loop] = l]
      BY <1>6 DEF Goto
    <2> QED BY <2>1, <2>2, <2>3, OwnershipMoves
  <1> QED BY <1>2, <1>3, <1>4, <1>5, <1>6 DEF LoopStep

\* A step of a click on Connect.
LEMMA ConnectorKeepsOwnership ==
  ASSUME RuntimeTypeOK, Ownership, NEW c \in Connectors,
         Click(c) \/ ConnectorStep(c)
  PROVE  Ownership'
  <1>1. CASE OpenerStep(c)
    BY <1>1, OpenerKeepsOwnership DEF Openers
  <1>2. CASE \/ Click(c) \/ BeginConnect(c) \/ BeginConnectOpen(c)
             \/ ConnectFails(c) \/ Signal(c)
    <2> USE DEF Click, BeginConnect, BeginConnectOpen, ConnectFails, Signal
    <2>1. UNCHANGED <<session, status, fresh, old>>
      BY <1>2 DEF coreVars, controllerVars, transportVars, localVars
    <2>2. pc[c] \notin Opening /\ pc[c] \notin Closing
      BY <1>2 DEF Opening, Closing
    <2>3. PICK l : pc' = [pc EXCEPT ![c] = l]
      BY <1>2 DEF Goto
    <2> QED BY <2>1, <2>2, <2>3, OwnershipMoves
  <1> QED BY <1>1, <1>2 DEF ConnectorStep

\* A step of the window.
LEMMA GuiKeepsOwnership ==
  ASSUME RuntimeTypeOK, Ownership, GuiStep \/ Disconnect \/ DestroyWindow
  PROVE  Ownership'
  <1>1. Gui \in Actors
    BY DEF Actors
  <1>2. CASE DetachSession
    <2>1. /\ pc[Gui] = "detach" /\ pc' = [pc EXCEPT ![Gui] = "markDetached"]
          /\ session' = None /\ old' = [old EXCEPT ![Gui] = session]
          /\ UNCHANGED <<fresh, status>>
      BY <1>2 DEF DetachSession, Goto, transportVars
    <2> QED BY <1>1, <2>1, DetachKeepsOwnership DEF Opening, Closing
  <1>3. CASE CloseOld(Gui)
    <2>1. PICK l \in {"top", "join", "signal"} : pc' = [pc EXCEPT ![Gui] = l]
      BY <1>3 DEF CloseOld, Goto
    <2>2. Close(Gui) /\ pc[Gui] = "closeOld" /\ UNCHANGED <<session, fresh>>
      BY <1>3 DEF CloseOld, controllerVars
    <2> QED BY <1>1, <2>1, <2>2, CloseKeepsOwnership DEF Opening, Closing
  <1>4. CASE MarkSessionDetached
    <2>1. /\ pc[Gui] = "markDetached" /\ pc' = [pc EXCEPT ![Gui] = "closeOld"]
          /\ UNCHANGED <<session, status, fresh, old>>
      BY <1>4 DEF MarkSessionDetached, Goto, controllerVars, transportVars,
                  localVars
    <2> QED BY <2>1, OwnershipMoves DEF Opening, Closing
  <1>5. CASE \/ Startup \/ StartRecovery \/ StopRuntime \/ Signal(Gui) \/ Join
             \/ Disconnect \/ DestroyWindow
    <2> USE DEF Startup, StartRecovery, StopRuntime, Signal, Join, Disconnect,
                DestroyWindow
    <2>1. UNCHANGED <<session, status, fresh, old>>
      BY <1>5 DEF coreVars, controllerVars, transportVars, localVars
    <2>2. pc[Gui] \notin Opening /\ pc[Gui] \notin Closing
      BY <1>5 DEF Opening, Closing
    <2>3. PICK l : pc' = [pc EXCEPT ![Gui] = l]
      BY <1>5 DEF Goto
    <2> QED BY <2>1, <2>2, <2>3, OwnershipMoves
  <1> QED BY <1>2, <1>3, <1>4, <1>5 DEF GuiStep

\* Every step keeps the ownership; a failing transport stays where it is.
LEMMA NextKeepsOwnership ==
  ASSUME RuntimeTypeOK, Ownership, [Next]_vars
  PROVE  Ownership'
  <1>1. ASSUME NEW s \in Sessions, SessionFails(s)
        PROVE  Ownership'
    <2>1. /\ UNCHANGED <<session, fresh, old, pc>>
          /\ status[s] = "open" /\ status' = [status EXCEPT ![s] = "failed"]
      BY <1>1 DEF SessionFails, controllerVars, localVars
    <2>2. \A r \in Sessions : Live(r)' <=> Live(r)
      BY <2>1 DEF RuntimeTypeOK, Live
    <2> QED BY <2>1, <2>2, OwnershipKept
  <1>2. CASE Tick \/ Terminated \/ UNCHANGED vars
    <2>1. UNCHANGED <<session, status, fresh, old, pc>>
      BY <1>2 DEF Tick, Terminated, vars, coreVars, controllerVars,
                  transportVars, localVars
    <2>2. \A r \in Sessions : Live(r)' <=> Live(r)
      BY <2>1 DEF Live
    <2> QED BY <2>1, <2>2, OwnershipKept
  <1> QED
    BY <1>1, <1>2, LoopKeepsOwnership, GuiKeepsOwnership,
       ConnectorKeepsOwnership DEF Next

\* Ownership of transports, for any number of sessions and concurrent connects:
\* the inductive invariant.
THEOREM OwnershipInvariant == Spec => []Ownership
  <1>1. Init => Ownership
    <2> SUFFICES ASSUME Init PROVE Ownership
      OBVIOUS
    <2>1. /\ session = None
          /\ \A s \in Sessions : status[s] = "none"
          /\ \A a \in Actors : fresh[a] = None /\ old[a] = None
      BY DEF Init
    <2> QED
      BY <2>1, ConnectionAssumption DEF Ownership, OneOwner, Holds, Live
  <1>2. TypeOK /\ Ownership /\ [Next]_vars => Ownership'
    BY NextKeepsOwnership DEF TypeOK
  <1> QED BY TypeCorrect, <1>1, <1>2, PTL DEF Spec

\* A transport that is not closed is never dropped, never held twice and never
\* closed underneath the controller that still serves it (Controller.session
\* against the goroutines that open a successor or close a predecessor).
THEOREM OneOwnerAlways == Spec => []OneOwner
  <1>1. Ownership => OneOwner
    BY DEF Ownership
  <1> QED BY OwnershipInvariant, <1>1, PTL

-----------------------------------------------------------------------------
(* The runtime implements EventStream.                                     *)

\* Nothing was published of a session the loop has not taken, and a session
\* being opened is not the one the loop serves.
Unplayed ==
    /\ \A s \in Sessions : status[s] = "none" => played[s] = 0
    /\ \A a \in Actors :
          fresh[a] # None => played[fresh[a]] = 0 /\ fresh[a] # loopSession
    /\ session \notin {None, loopSession} => played[session] = 0

\* The controller holds all handshake events of a session the loop has not
\* taken, and none of one that it has.
PendingInv ==
    IF session \in {None, loopSession}
    THEN pending = <<>>
    ELSE pending = Buffered(session)

\* Of the loop's session, what was read is what was published and then what is
\* in the batch; and no other session has been published since.
LoopInv ==
    loopSession # None =>
        /\ status[loopSession] # "none"
        /\ read[loopSession] = played[loopSession] + Len(batch)
        /\ played[loopSession] > 0 => onAir = loopSession

\* The batch is the next stretch of the loop's session.
BatchInv ==
    /\ batch # <<>> =>
          loopSession # None /\ pc[Loop] \in {"replay", "publish", "done"}
    /\ \A i \in 1..Len(batch) : batch[i] = <<loopSession, played[loopSession] + i>>
    /\ pc[Loop] = "publish" => Len(batch) = 1

StreamInv == Unplayed /\ PendingInv /\ LoopInv /\ BatchInv

-----------------------------------------------------------------------------

\* A step that moves nothing of the stream keeps the invariant, as long as the
\* loop does not leave a batch behind.
LEMMA StreamKept ==
  ASSUME RuntimeTypeOK, StreamInv,
         UNCHANGED <<session, pending, read, fresh, loopVars, historyVars>>,
         \A s \in Sessions : status'[s] = "none" => status[s] = "none",
         pc'[Loop] = "publish" => pc[Loop] = "publish",
         batch = <<>> \/ pc'[Loop] \in {"replay", "publish", "done"}
  PROVE  StreamInv'
  <1>1. UNCHANGED <<session, pending, read, fresh, loopSession, batch, onAir,
                    played>>
    BY DEF loopVars, historyVars
  <1>2. Unplayed' BY <1>1 DEF StreamInv, Unplayed
  <1>3. PendingInv' BY <1>1 DEF StreamInv, PendingInv, Buffered
  <1>4. LoopInv' BY <1>1 DEF StreamInv, LoopInv, RuntimeTypeOK
  <1>5. BatchInv' BY <1>1 DEF StreamInv, BatchInv
  <1> QED BY <1>2, <1>3, <1>4, <1>5 DEF StreamInv

\* A goroutine gives session names back that neither the controller nor the loop
\* nor another goroutine has.
LEMMA StreamReleases ==
  ASSUME RuntimeTypeOK, StreamInv, NEW S, Release(S),
         session \notin S, loopSession \notin S,
         UNCHANGED <<session, pending, loopVars>>,
         \A a \in Actors : fresh'[a] \in {None, fresh[a]},
         pc'[Loop] = "publish" => pc[Loop] = "publish",
         batch = <<>> \/ pc'[Loop] \in {"replay", "publish", "done"}
  PROVE  StreamInv'
  <1>1. UNCHANGED <<session, pending, loopSession, batch>>
    BY DEF loopVars
  <1>2. /\ \A s \in Sessions \ S : /\ status'[s] = status[s]
                                   /\ read'[s] = read[s]
                                   /\ played'[s] = played[s]
        /\ \A s \in Sessions \cap S : played'[s] = 0
        /\ \A s \in Sessions : played[s] = 0 => played'[s] = 0
        /\ onAir = loopSession => onAir' = loopSession
    BY DEF Release
  <1>3. Unplayed'
    BY <1>1, <1>2 DEF StreamInv, Unplayed, RuntimeTypeOK
  <1>4. PendingInv'
    BY <1>1, <1>2 DEF StreamInv, PendingInv, Buffered, RuntimeTypeOK
  <1>5. LoopInv'
    BY <1>1, <1>2 DEF StreamInv, LoopInv, RuntimeTypeOK
  <1>6. BatchInv'
    BY <1>1, <1>2 DEF StreamInv, BatchInv, RuntimeTypeOK
  <1> QED BY <1>3, <1>4, <1>5, <1>6 DEF StreamInv

\* openAndHandshake: a new name is one the loop and the controller do not have.
LEMMA OpenKeepsStream ==
  ASSUME RuntimeTypeOK, Ownership, StreamInv, NEW a \in Openers, Open(a)
  PROVE  StreamInv'
  <1>1. PICK s \in Sessions :
          /\ status[s] = "none"
          /\ status' = [status EXCEPT ![s] = "open"]
          /\ fresh' = [fresh EXCEPT ![a] = s]
    BY DEF Open
  <1>2. /\ pc' = [pc EXCEPT ![a] = "handshake"] /\ pc[a] = "open"
        /\ UNCHANGED <<session, pending, read, loopSession, batch, onAir, played>>
    BY DEF Open, Goto, controllerVars, streamVars, loopVars, historyVars
  <1>3. played[s] = 0 /\ s # loopSession
    BY <1>1, ConnectionAssumption DEF StreamInv, Unplayed, LoopInv
  <1>4. \A b \in Actors : fresh'[b] = IF b = a THEN s ELSE fresh[b]
    BY <1>1 DEF RuntimeTypeOK
  <1>5. \A r \in Sessions : status'[r] = "none" => status[r] = "none"
    BY <1>1 DEF RuntimeTypeOK
  <1>6. Unplayed' BY <1>2, <1>3, <1>4, <1>5 DEF StreamInv, Unplayed
  <1>7. PendingInv' BY <1>2 DEF StreamInv, PendingInv, Buffered
  <1>8. LoopInv'
    BY <1>2, <1>5 DEF StreamInv, LoopInv, RuntimeTypeOK
  <1>9. batch # <<>> => a # Loop
    BY <1>2 DEF StreamInv, BatchInv
  <1>10. BatchInv'
    BY <1>2, <1>9 DEF StreamInv, BatchInv, RuntimeTypeOK
  <1> QED BY <1>6, <1>7, <1>8, <1>10 DEF StreamInv

\* The session in hand of an opener is neither the controller's nor the loop's.
LEMMA FreshApart ==
  ASSUME RuntimeTypeOK, Ownership, StreamInv, NEW a \in Openers,
         pc[a] \in Opening
  PROVE  /\ a \in Actors /\ fresh[a] \in Sessions
         /\ fresh[a] # session /\ fresh[a] # loopSession
         /\ played[fresh[a]] = 0
         /\ a = Loop => batch = <<>>
  BY ConnectionAssumption
  DEF RuntimeTypeOK, Openers, Actors, Opening, Ownership, OneOwner, Holds,
      StreamInv, Unplayed, BatchInv

\* ProbeV2 reads events of the session in hand only.
LEMMA ProbeKeepsStream ==
  ASSUME RuntimeTypeOK, Ownership, StreamInv, NEW a \in Openers, Probe(a)
  PROVE  StreamInv'
  <1>1. /\ pc[a] = "probe" /\ pc' = [pc EXCEPT ![a] = "install"]
        /\ UNCHANGED <<session, pending, status, fresh, loopSession, batch,
                       onAir, played>>
    BY DEF Probe, Goto, controllerVars, localVars, streamVars, loopVars,
           historyVars
  <1>2. PICK n : read' = [read EXCEPT ![fresh[a]] = n]
    BY DEF Probe
  <1>3. /\ fresh[a] # session /\ fresh[a] # loopSession
        /\ a = Loop => batch = <<>>
    BY <1>1, FreshApart DEF Opening
  <1>4. \A s \in Sessions : s # fresh[a] => read'[s] = read[s]
    BY <1>2 DEF RuntimeTypeOK
  <1>5. Unplayed' BY <1>1 DEF StreamInv, Unplayed
  <1>6. PendingInv'
    BY <1>1, <1>3, <1>4 DEF StreamInv, PendingInv, Buffered, RuntimeTypeOK
  <1>7. LoopInv'
    BY <1>1, <1>3, <1>4 DEF StreamInv, LoopInv, RuntimeTypeOK
  <1>8. BatchInv'
    BY <1>1, <1>3 DEF StreamInv, BatchInv, RuntimeTypeOK
  <1> QED BY <1>5, <1>6, <1>7, <1>8 DEF StreamInv

\* installSession brings the session in hand with all its handshake events.
LEMMA InstallKeepsStream ==
  ASSUME RuntimeTypeOK, Ownership, StreamInv, NEW a \in Openers,
         installSession(a)
  PROVE  StreamInv'
  <1>1. /\ pc[a] = "install" /\ pc' = [pc EXCEPT ![a] = "ready"]
        /\ session' = fresh[a] /\ pending' = Buffered(fresh[a])
        /\ fresh' = [fresh EXCEPT ![a] = None]
        /\ UNCHANGED <<status, read, loopSession, batch, onAir, played>>
    BY DEF installSession, Goto, transportVars, streamVars, loopVars,
           historyVars
  <1>2. /\ fresh[a] \in Sessions /\ fresh[a] # loopSession
        /\ played[fresh[a]] = 0
        /\ a = Loop => batch = <<>>
    BY <1>1, FreshApart DEF Opening
  <1>3. \A b \in Actors : fresh'[b] \in {None, fresh[b]}
    BY <1>1 DEF RuntimeTypeOK
  <1>4. Unplayed'
    BY <1>1, <1>2, <1>3 DEF StreamInv, Unplayed
  <1>5. PendingInv'
    BY <1>1, <1>2, ConnectionAssumption DEF PendingInv, Buffered
  <1>6. LoopInv' BY <1>1 DEF StreamInv, LoopInv
  <1>7. BatchInv'
    BY <1>1, <1>2 DEF StreamInv, BatchInv, RuntimeTypeOK
  <1> QED BY <1>4, <1>5, <1>6, <1>7 DEF StreamInv

\* Detaching takes the handshake events away with the session.
LEMMA DetachKeepsStream ==
  ASSUME StreamInv, session' = None, pending' = <<>>,
         UNCHANGED <<read, status, fresh, loopVars, historyVars>>,
         pc'[Loop] = "publish" => pc[Loop] = "publish",
         batch = <<>> \/ pc'[Loop] \in {"replay", "publish", "done"}
  PROVE  StreamInv'
  <1>1. UNCHANGED <<loopSession, batch, onAir, played>>
    BY DEF loopVars, historyVars
  <1>2. Unplayed' BY <1>1 DEF StreamInv, Unplayed
  <1>3. PendingInv' BY DEF PendingInv
  <1>4. LoopInv' BY <1>1 DEF StreamInv, LoopInv
  <1>5. BatchInv' BY <1>1 DEF StreamInv, BatchInv
  <1> QED BY <1>2, <1>3, <1>4, <1>5 DEF StreamInv

\* Closing the session taken out of the controller: its name is given back, or
\* it is kept because the loop still reads it.
LEMMA CloseKeepsStream ==
  ASSUME RuntimeTypeOK, Ownership, StreamInv, NEW a \in Actors, Close(a),
         pc[a] \in Closing,
         UNCHANGED <<session, pending, fresh, loopVars>>,
         pc'[Loop] = "publish" => pc[Loop] = "publish",
         batch = <<>> \/ pc'[Loop] \in {"replay", "publish", "done"}
  PROVE  StreamInv'
  <1>1. CASE old[a] = None
    <2>1. /\ \A s \in Sessions : status'[s] = status[s]
          /\ read' = read /\ UNCHANGED historyVars
      <3>1. CASE Release({old[a]})
        <4>1. \A s \in Sessions : s \notin {old[a]}
          BY <1>1, ConnectionAssumption
        <4>2. read' = read /\ played' = played /\ onAir' = onAir
          BY <1>1, <3>1, <4>1 DEF Release, RuntimeTypeOK
        <4> QED BY <3>1, <4>1, <4>2 DEF Release, historyVars
      <3>2. CASE ~Release({old[a]})
        BY <1>1, <3>2, ConnectionAssumption DEF Close, RuntimeTypeOK
      <3> QED BY <3>1, <3>2
    <2>2. loopSession # None => status'[loopSession] = status[loopSession]
      BY <2>1 DEF RuntimeTypeOK
    <2>3. UNCHANGED <<session, pending, read, fresh, loopSession, batch, onAir,
                      played>>
      BY <2>1 DEF loopVars, historyVars
    <2>4. Unplayed' BY <2>1, <2>3 DEF StreamInv, Unplayed
    <2>5. PendingInv' BY <2>3 DEF StreamInv, PendingInv, Buffered
    <2>6. LoopInv' BY <2>2, <2>3 DEF StreamInv, LoopInv
    <2>7. BatchInv' BY <2>3 DEF StreamInv, BatchInv
    <2> QED BY <2>4, <2>5, <2>6, <2>7 DEF StreamInv
  <1>2. CASE old[a] # None
    <2>1. old[a] \in Sessions /\ session # old[a]
      BY <1>2 DEF RuntimeTypeOK, Ownership, OneOwner, Holds
    <2>2. CASE old[a] # loopSession
      <3>1. Release({old[a]})
        BY <2>2 DEF Close
      <3> QED BY <2>1, <2>2, <3>1, StreamReleases
    <2>3. CASE old[a] = loopSession
      <3>1. /\ status' = [s \in Sessions |->
                             IF s = old[a] THEN "closed" ELSE status[s]]
            /\ UNCHANGED <<read, historyVars>>
        BY <2>3 DEF Close
      <3>2. \A s \in Sessions : status'[s] = "none" => status[s] = "none"
        BY <2>1, <2>3, <3>1
      <3> QED BY <3>1, <3>2, StreamKept
    <2> QED BY <2>2, <2>3
  <1> QED BY <1>1, <1>2

-----------------------------------------------------------------------------
(* The loop.                                                               *)

\* TakeRuntimeBatch: the loop takes the controller's session with exactly the
\* events that come before the first it will read itself.
LEMMA TakeKeepsStream ==
  ASSUME RuntimeTypeOK, Ownership, StreamInv, TakeRuntimeBatch
  PROVE  StreamInv'
  <1> DEFINE S == {s \in {loopSession} \ {None} : status[s] = "closed"}
  <1>1. /\ pc[Loop] = "top" /\ pc' = [pc EXCEPT ![Loop] = "replay"]
        /\ loopSession' = session /\ batch' = pending /\ pending' = <<>>
        /\ Release(S)
        /\ UNCHANGED <<session, fresh>>
    BY DEF TakeRuntimeBatch, Goto, localVars
  <1>2. batch = <<>> /\ Len(batch) = 0
    BY <1>1 DEF StreamInv, BatchInv
  <1>3. session \notin S /\ \A a \in Actors : fresh[a] \notin S
    BY ConnectionAssumption DEF Ownership, OneOwner, Holds, StreamInv, Unplayed,
       RuntimeTypeOK
  <1>4. /\ \A s \in Sessions \ S : /\ status'[s] = status[s]
                                   /\ read'[s] = read[s]
                                   /\ played'[s] = played[s]
        /\ \A s \in Sessions : s \in S \/ played[s] = 0 => played'[s] = 0
        /\ onAir \notin S => onAir' = onAir
    BY <1>1 DEF Release
  <1> HIDE DEF S
  <1>5. session # None =>
          /\ session \in Sessions /\ session \notin S
          /\ status[session] \in {"open", "failed"}
          /\ \A a \in Actors : fresh[a] # session
    BY <1>3 DEF RuntimeTypeOK, Ownership, OneOwner, Holds
  <1>6. session # None =>
          /\ Len(batch') = read[session] - played[session]
          /\ \A i \in 1..Len(batch') : batch'[i] = <<session, played[session] + i>>
    <2> SUFFICES ASSUME session # None
                 PROVE  /\ Len(batch') = read[session] - played[session]
                        /\ \A i \in 1..Len(batch') :
                              batch'[i] = <<session, played[session] + i>>
      OBVIOUS
    <2>1. CASE session = loopSession
      <3>1. batch' = <<>>
        BY <1>1, <2>1 DEF StreamInv, PendingInv
      <3>2. read[session] = played[session]
        BY <1>2, <1>5, <2>1, ConnectionAssumption
        DEF StreamInv, LoopInv, RuntimeTypeOK
      <3> QED BY <1>5, <3>1, <3>2, ConnectionAssumption DEF RuntimeTypeOK
    <2>2. CASE session # loopSession
      <3>1. batch' = Buffered(session) /\ played[session] = 0
        BY <1>1, <2>2 DEF StreamInv, PendingInv, Unplayed
      <3>2. read[session] \in Nat
        BY <1>5, ConnectionAssumption DEF RuntimeTypeOK
      <3> QED BY <3>1, <3>2 DEF Buffered
    <2> QED BY <2>1, <2>2
  <1>7. session = None => batch' = <<>>
    BY <1>1 DEF StreamInv, PendingInv
  <1>8. Unplayed'
    BY <1>1, <1>4, <1>5 DEF StreamInv, Unplayed, RuntimeTypeOK
  <1>9. PendingInv'
    BY <1>1 DEF PendingInv
  <1>10. LoopInv'
    <2>1. session # None /\ played[session] > 0 => onAir = session
      BY <1>5, ConnectionAssumption DEF StreamInv, LoopInv, Unplayed
    <2>2. session # None => played[session] \in Nat /\ read[session] \in Nat
      BY <1>5, ConnectionAssumption DEF RuntimeTypeOK
    <2> QED BY <1>1, <1>4, <1>5, <1>6, <2>1, <2>2 DEF LoopInv
  <1>11. BatchInv'
    <2>1. pc'[Loop] = "replay"
      BY <1>1 DEF RuntimeTypeOK, Actors
    <2>2. \A i \in 1..Len(batch') :
            batch'[i] = <<loopSession', played'[loopSession'] + i>>
      BY <1>1, <1>4, <1>5, <1>6, <1>7
    <2> QED BY <1>1, <1>7, <2>1, <2>2 DEF BatchInv
  <1> QED BY <1>8, <1>9, <1>10, <1>11 DEF StreamInv

\* What a published event is: the next one of the loop's session, which is on air
\* or has not been heard yet.
LEMMA PublishIsNext ==
  ASSUME RuntimeTypeOK, StreamInv, publishMessage
  PROVE  /\ loopSession \in Sessions
         /\ onAir = loopSession \/ played[loopSession] = 0
         /\ onAir' = loopSession
         /\ played' = [played EXCEPT ![loopSession] = @ + 1]
         /\ batch # <<>> /\ batch' = Tail(batch)
         /\ pc[Loop] \in {"replay", "publish"}
         /\ pc[Loop] = "replay" => pc'[Loop] = "replay"
         /\ pc[Loop] = "publish" => pc'[Loop] = "pump"
         /\ UNCHANGED <<session, pending, status, read, fresh, loopSession>>
  <1>1. /\ batch # <<>> /\ batch' = Tail(batch)
        /\ onAir' = Head(batch)[1]
        /\ played' = [played EXCEPT ![Head(batch)[1]] = Head(batch)[2]]
    BY DEF publishMessage
  <1>2. loopSession \in Sessions /\ played[loopSession] \in Nat
    BY <1>1, ConnectionAssumption DEF StreamInv, BatchInv, RuntimeTypeOK
  <1>3. Head(batch) = <<loopSession, played[loopSession] + 1>>
    <2>1. batch \in Seq(Event) /\ Len(batch) \in Nat /\ Len(batch) # 0
      BY <1>1 DEF RuntimeTypeOK
    <2>2. 1 \in 1..Len(batch) /\ Head(batch) = batch[1]
      BY <2>1
    <2> QED BY <2>2 DEF StreamInv, BatchInv
  <1>4. onAir = loopSession \/ played[loopSession] = 0
    BY <1>2, ConnectionAssumption DEF StreamInv, LoopInv
  <1>5. Head(batch)[1] = loopSession /\ Head(batch)[2] = played[loopSession] + 1
    BY <1>3
  <1>6. played' = [played EXCEPT ![loopSession] = @ + 1] /\ onAir' = loopSession
    BY <1>1, <1>5
  <1>7. /\ pc[Loop] \in {"replay", "publish"}
        /\ pc' = [pc EXCEPT ![Loop] =
                    IF pc[Loop] = "publish" THEN "pump" ELSE "replay"]
    BY DEF publishMessage, Goto
  <1>8. UNCHANGED <<session, pending, status, read, fresh, loopSession>>
    BY DEF publishMessage, LoopKeeps, coreVars, controllerVars,
           transportVars, localVars
  <1>9. pc[Loop] = "replay" => pc'[Loop] = "replay"
    BY <1>7 DEF RuntimeTypeOK, Actors
  <1>10. pc[Loop] = "publish" => pc'[Loop] = "pump"
    BY <1>7 DEF RuntimeTypeOK, Actors
  <1> QED BY <1>1, <1>2, <1>4, <1>6, <1>7, <1>8, <1>9, <1>10

\* publishMessage: the head of the batch goes out, the rest comes next.
LEMMA PublishKeepsStream ==
  ASSUME RuntimeTypeOK, StreamInv, publishMessage
  PROVE  StreamInv'
  <1>1. /\ loopSession \in Sessions
        /\ onAir' = loopSession
        /\ played' = [played EXCEPT ![loopSession] = @ + 1]
        /\ batch # <<>> /\ batch' = Tail(batch)
        /\ pc[Loop] \in {"replay", "publish"}
        /\ pc[Loop] = "replay" => pc'[Loop] = "replay"
        /\ pc[Loop] = "publish" => pc'[Loop] = "pump"
        /\ UNCHANGED <<session, pending, status, read, fresh, loopSession>>
    BY PublishIsNext
  <1>2. /\ \A s \in Sessions :
             played'[s] = IF s = loopSession THEN played[s] + 1 ELSE played[s]
        /\ \A s \in Sessions : played[s] \in Nat /\ read[s] \in Nat
    BY <1>1, ConnectionAssumption DEF RuntimeTypeOK
  <1>3. /\ Len(batch') = Len(batch) - 1 /\ Len(batch) \in Nat
        /\ \A i \in 1..Len(batch') : batch'[i] = batch[i + 1] /\ i + 1 \in 1..Len(batch)
    BY <1>1 DEF RuntimeTypeOK
  <1>4. status[loopSession] # "none"
    BY <1>1, ConnectionAssumption DEF StreamInv, LoopInv
  <1>5. Unplayed'
    BY <1>1, <1>2, <1>4 DEF StreamInv, Unplayed, RuntimeTypeOK
  <1>6. PendingInv'
    BY <1>1 DEF StreamInv, PendingInv, Buffered
  <1>7. LoopInv'
    BY <1>1, <1>2, <1>3, <1>4, ConnectionAssumption DEF StreamInv, LoopInv
  <1>8. BatchInv'
    <2>1. \A i \in 1..Len(batch') :
            batch'[i] = <<loopSession, played[loopSession] + 1 + i>>
      <3> SUFFICES ASSUME NEW i \in 1..Len(batch')
                   PROVE  batch'[i] = <<loopSession, played[loopSession] + 1 + i>>
        OBVIOUS
      <3>1. batch'[i] = <<loopSession, played[loopSession] + (i + 1)>>
        BY <1>3 DEF StreamInv, BatchInv
      <3>2. played[loopSession] + (i + 1) = played[loopSession] + 1 + i
        BY <1>1, <1>2, <1>3
      <3> QED BY <3>1, <3>2
    <2>2. \A i \in 1..Len(batch') :
            batch'[i] = <<loopSession', played'[loopSession'] + i>>
      BY <1>1, <1>2, <2>1
    <2>3. CASE pc[Loop] = "publish"
      <3>1. Len(batch) = 1
        BY <2>3 DEF StreamInv, BatchInv
      <3>2. batch \in Seq(Event) /\ Len(batch') = 0
        BY <1>3, <3>1 DEF RuntimeTypeOK
      <3>3. batch' = <<>>
        BY <1>1, <3>2
      <3>4. pc'[Loop] = "pump"
        BY <1>1, <2>3
      <3> QED BY <3>3, <3>4 DEF BatchInv
    <2>4. CASE pc[Loop] = "replay"
      <3>1. pc'[Loop] = "replay" /\ loopSession' # None
        BY <1>1, <2>4, ConnectionAssumption
      <3> QED BY <2>2, <3>1 DEF BatchInv
    <2> QED BY <1>1, <2>3, <2>4
  <1> QED BY <1>5, <1>6, <1>7, <1>8 DEF StreamInv

\* pumpSession reads the next event of the loop's session.
LEMMA PumpKeepsStream ==
  ASSUME RuntimeTypeOK, Ownership, StreamInv, PumpMessage
  PROVE  StreamInv'
  <1>1. /\ pc[Loop] = "pump" /\ pc' = [pc EXCEPT ![Loop] = "publish"]
        /\ read' = [read EXCEPT ![loopSession] = @ + 1]
        /\ batch' = <<<<loopSession, read[loopSession] + 1>>>>
        /\ UNCHANGED <<session, pending, status, fresh, loopSession, onAir,
                       played>>
    BY DEF PumpMessage, Goto, controllerVars, localVars, historyVars
  <1>2. loopSession \in Sessions /\ loopSession # None
    BY <1>1, ConnectionAssumption DEF RuntimeTypeOK, Serving
  <1>3. batch = <<>> /\ Len(batch) = 0
    BY <1>1 DEF StreamInv, BatchInv
  <1>4. read[loopSession] = played[loopSession] /\ read[loopSession] \in Nat
    BY <1>2, <1>3, ConnectionAssumption DEF StreamInv, LoopInv, RuntimeTypeOK
  <1>5. \A s \in Sessions :
          read'[s] = IF s = loopSession THEN read[s] + 1 ELSE read[s]
    BY <1>1 DEF RuntimeTypeOK
  <1>6. Len(batch') = 1 /\ batch'[1] = <<loopSession, read[loopSession] + 1>>
    BY <1>1
  <1>7. Unplayed' BY <1>1 DEF StreamInv, Unplayed
  <1>8. PendingInv'
    BY <1>1, <1>2, <1>5 DEF StreamInv, PendingInv, Buffered, RuntimeTypeOK
  <1>9. LoopInv'
    BY <1>1, <1>2, <1>4, <1>5, <1>6 DEF StreamInv, LoopInv
  <1>10. BatchInv'
    <2>1. pc'[Loop] = "publish"
      BY <1>1 DEF RuntimeTypeOK, Actors
    <2>2. \A i \in 1..Len(batch') :
            batch'[i] = <<loopSession', played'[loopSession'] + i>>
      BY <1>1, <1>4, <1>6
    <2> QED BY <1>1, <1>2, <1>6, <2>1, <2>2 DEF BatchInv
  <1> QED BY <1>7, <1>8, <1>9, <1>10 DEF StreamInv
-----------------------------------------------------------------------------
(* The rest of the steps.                                                  *)

\* A goroutine moves on; the loop leaves its batch only when it is empty or when
\* it ends, and comes to "publish" by PumpMessage only.
LEMMA LoopKeepsBatch ==
  ASSUME RuntimeTypeOK, StreamInv, NEW a \in Actors, NEW l,
         pc' = [pc EXCEPT ![a] = l],
         a = Loop => /\ l # "publish"
                     /\ \/ pc[Loop] \notin {"replay", "publish", "done"}
                        \/ batch = <<>>
                        \/ l = "done"
  PROVE  /\ pc'[Loop] = "publish" => pc[Loop] = "publish"
         /\ batch = <<>> \/ pc'[Loop] \in {"replay", "publish", "done"}
  <1>1. CASE a = Loop
    <2>1. pc'[Loop] = l
      BY <1>1 DEF RuntimeTypeOK
    <2> QED BY <1>1, <2>1 DEF StreamInv, BatchInv
  <1>2. CASE a # Loop
    <2>1. pc'[Loop] = pc[Loop]
      BY <1>2 DEF RuntimeTypeOK
    <2> QED BY <2>1 DEF StreamInv, BatchInv
  <1> QED BY <1>1, <1>2

\* Such a step, when it moves nothing else of the stream.
LEMMA StreamStays ==
  ASSUME RuntimeTypeOK, StreamInv, NEW a \in Actors, NEW l,
         pc' = [pc EXCEPT ![a] = l],
         a = Loop => /\ l # "publish"
                     /\ \/ pc[Loop] \notin {"replay", "publish", "done"}
                        \/ batch = <<>>
                        \/ l = "done",
         UNCHANGED <<session, pending, status, read, fresh, loopVars,
                     historyVars>>
  PROVE  StreamInv'
  BY LoopKeepsBatch, StreamKept

\* A failed handshake closes the session in hand, which nobody else has.
LEMMA ProbeFailsKeepsStream ==
  ASSUME RuntimeTypeOK, Ownership, StreamInv, NEW a \in Openers, ProbeFails(a)
  PROVE  StreamInv'
  <1>1. /\ pc[a] = "probe" /\ pc' = [pc EXCEPT ![a] = "failed"]
        /\ Release({fresh[a]})
        /\ fresh' = [fresh EXCEPT ![a] = None]
        /\ UNCHANGED <<session, pending, loopVars>>
    BY DEF ProbeFails, Goto, controllerVars
  <1>2. /\ a \in Actors /\ session \notin {fresh[a]}
        /\ loopSession \notin {fresh[a]}
    BY <1>1, FreshApart DEF Opening
  <1>3. \A b \in Actors : fresh'[b] \in {None, fresh[b]}
    BY <1>1 DEF RuntimeTypeOK
  <1>4. /\ pc'[Loop] = "publish" => pc[Loop] = "publish"
        /\ batch = <<>> \/ pc'[Loop] \in {"replay", "publish", "done"}
    BY <1>1, <1>2, LoopKeepsBatch
  <1> QED BY <1>1, <1>2, <1>3, <1>4, StreamReleases

\* A goroutine closes the session it took out of the controller.
LEMMA CloseOldKeepsStream ==
  ASSUME RuntimeTypeOK, Ownership, StreamInv, NEW a \in Actors, CloseOld(a)
  PROVE  StreamInv'
  <1>1. PICK l \in {"top", "join", "signal"} : pc' = [pc EXCEPT ![a] = l]
    BY DEF CloseOld, Goto
  <1>2. /\ pc[a] = "closeOld" /\ Close(a)
        /\ UNCHANGED <<session, pending, fresh, loopVars>>
    BY DEF CloseOld, controllerVars
  <1>3. /\ pc'[Loop] = "publish" => pc[Loop] = "publish"
        /\ batch = <<>> \/ pc'[Loop] \in {"replay", "publish", "done"}
    BY <1>1, <1>2, LoopKeepsBatch
  <1> QED BY <1>2, <1>3, CloseKeepsStream DEF Closing

\* A step of openAndHandshake, installSession, MarkReady or of closing.
LEMMA OpenerKeepsStream ==
  ASSUME RuntimeTypeOK, Ownership, StreamInv, NEW a \in Openers, OpenerStep(a)
  PROVE  StreamInv'
  <1>1. a \in Actors
    BY DEF Openers, Actors
  <1>2. CASE OpenFails(a) \/ StartHandshake(a) \/ CompleteOpen(a)
    <2>1. UNCHANGED <<session, pending, status, read, fresh, loopVars,
                      historyVars>>
      BY <1>2 DEF OpenFails, StartHandshake, CompleteOpen, coreVars,
                  controllerVars, transportVars, localVars, streamVars
    <2>2. PICK l \in {"failed", "probe", "closeOld"} :
             pc' = [pc EXCEPT ![a] = l]
      BY <1>2 DEF OpenFails, StartHandshake, CompleteOpen, Goto
    <2>3. pc[a] \in {"open", "handshake", "ready"}
      BY <1>2 DEF OpenFails, StartHandshake, CompleteOpen
    <2> QED BY <1>1, <2>1, <2>2, <2>3, StreamStays
  <1> QED
    BY <1>1, <1>2, OpenKeepsStream, ProbeKeepsStream, ProbeFailsKeepsStream,
       InstallKeepsStream, CloseOldKeepsStream DEF OpenerStep

\* A step of the loop.
LEMMA LoopKeepsStream ==
  ASSUME RuntimeTypeOK, Ownership, StreamInv, LoopStep
  PROVE  StreamInv'
  <1>1. Loop \in Actors /\ Loop \in Openers
    BY DEF Actors, Openers
  <1>2. CASE OpenerStep(Loop)
    BY <1>1, <1>2, OpenerKeepsStream
  <1>3. CASE TakeRuntimeBatch
    BY <1>3, TakeKeepsStream
  <1>4. CASE publishMessage
    BY <1>4, PublishKeepsStream
  <1>5. CASE PumpMessage
    BY <1>5, PumpKeepsStream
  <1>6. CASE StartRecoveryIfCurrent
    <2>1. /\ pc[Loop] = "lost"
          /\ UNCHANGED <<status, read, fresh, loopVars, historyVars>>
      BY <1>6 DEF StartRecoveryIfCurrent, transportVars, streamVars
    <2>2. CASE session = loopSession
      <3>1. /\ session' = None /\ pending' = <<>>
            /\ pc' = [pc EXCEPT ![Loop] = "closeLost"]
        BY <1>6, <2>2 DEF StartRecoveryIfCurrent, Goto
      <3>2. /\ pc'[Loop] = "publish" => pc[Loop] = "publish"
            /\ batch = <<>> \/ pc'[Loop] \in {"replay", "publish", "done"}
        BY <1>1, <2>1, <3>1, LoopKeepsBatch
      <3> QED BY <2>1, <3>1, <3>2, DetachKeepsStream
    <2>3. CASE session # loopSession
      <3>1. /\ UNCHANGED <<session, pending>>
            /\ pc' = [pc EXCEPT ![Loop] = "top"]
        BY <1>6, <2>3 DEF StartRecoveryIfCurrent, Goto, controllerVars
      <3> QED BY <1>1, <2>1, <3>1, StreamStays
    <2> QED BY <2>2, <2>3
  <1>7. CASE CloseLost
    <2>1. /\ pc[Loop] = "closeLost" /\ pc' = [pc EXCEPT ![Loop] = "markLost"]
          /\ Close(Loop) /\ UNCHANGED <<session, pending, fresh, loopVars>>
      BY <1>7 DEF CloseLost, Goto, controllerVars
    <2>2. /\ pc'[Loop] = "publish" => pc[Loop] = "publish"
          /\ batch = <<>> \/ pc'[Loop] \in {"replay", "publish", "done"}
      BY <1>1, <2>1, LoopKeepsBatch
    <2> QED BY <1>1, <2>1, <2>2, CloseKeepsStream DEF Closing
  <1>8. CASE ReplayDone \/ LoopStops
    <2>1. UNCHANGED <<session, pending, status, read, fresh, loopVars,
                      historyVars>>
      BY <1>8 DEF ReplayDone, LoopStops, LoopKeeps, coreVars, controllerVars,
                  transportVars, localVars, streamVars
    <2>2. PICK l \in {"pump", "check", "done"} :
             pc' = [pc EXCEPT ![Loop] = l]
      BY <1>8 DEF ReplayDone, LoopStops, Goto
    <2>3. batch = <<>> \/ pc' = [pc EXCEPT ![Loop] = "done"]
      BY <1>8 DEF ReplayDone, LoopStops, Goto
    <2> QED BY <1>1, <2>1, <2>2, <2>3, StreamStays
  <1>9. CASE \/ PumpFailure \/ PumpWake \/ Recheck \/ MarkSessionLost
             \/ CheckRecovery \/ Wakened \/ TimerFires \/ Attempt \/ NoAttempt
             \/ PauseOver \/ SelectCandidate \/ SelectFails \/ AttemptFails
    <2> USE DEF PumpFailure, PumpWake, Recheck, MarkSessionLost, CheckRecovery,
                Wakened, TimerFires, Attempt, NoAttempt, PauseOver,
                SelectCandidate, SelectFails, AttemptFails
    <2>1. UNCHANGED <<session, pending, status, read, fresh, loopVars,
                      historyVars>>
      BY <1>9 DEF LoopKeeps, coreVars, controllerVars, transportVars,
                  localVars, streamVars
    <2>2. pc[Loop] \notin {"replay", "publish", "done"}
      BY <1>9
    <2>3. PICK l \in LoopLabels \ {"publish"} : pc' = [pc EXCEPT ![Loop] = l]
      BY <1>9 DEF Goto, LoopLabels, OpenLabels
    <2> QED BY <1>1, <2>1, <2>2, <2>3, StreamStays
  <1> QED
    BY <1>2, <1>3, <1>4, <1>5, <1>6, <1>7, <1>8, <1>9 DEF LoopStep

\* A step of a click on Connect.
LEMMA ConnectorKeepsStream ==
  ASSUME RuntimeTypeOK, Ownership, StreamInv, NEW c \in Connectors,
         Click(c) \/ ConnectorStep(c)
  PROVE  StreamInv'
  <1>1. CASE OpenerStep(c)
    BY <1>1, OpenerKeepsStream DEF Openers
  <1>2. CASE \/ Click(c) \/ BeginConnect(c) \/ BeginConnectOpen(c)
             \/ ConnectFails(c) \/ Signal(c)
    <2> USE DEF Click, BeginConnect, BeginConnectOpen, ConnectFails, Signal
    <2>1. UNCHANGED <<session, pending, status, read, fresh, loopVars,
                      historyVars>>
      BY <1>2 DEF coreVars, controllerVars, transportVars, localVars, streamVars
    <2>2. PICK l : pc' = [pc EXCEPT ![c] = l]
      BY <1>2 DEF Goto
    <2>3. c \in Actors /\ c # Loop
      BY ConnectionAssumption DEF Actors
    <2> QED BY <2>1, <2>2, <2>3, StreamStays
  <1> QED BY <1>1, <1>2 DEF ConnectorStep

\* A step of the window.
LEMMA GuiKeepsStream ==
  ASSUME RuntimeTypeOK, Ownership, StreamInv,
         GuiStep \/ Disconnect \/ DestroyWindow
  PROVE  StreamInv'
  <1>1. Gui \in Actors /\ Gui # Loop
    BY ConnectionAssumption DEF Actors
  <1>2. CASE DetachSession
    <2>1. /\ session' = None /\ pending' = <<>>
          /\ pc' = [pc EXCEPT ![Gui] = "markDetached"]
          /\ UNCHANGED <<read, status, fresh, loopVars, historyVars>>
      BY <1>2 DEF DetachSession, Goto, transportVars, streamVars
    <2>2. /\ pc'[Loop] = "publish" => pc[Loop] = "publish"
          /\ batch = <<>> \/ pc'[Loop] \in {"replay", "publish", "done"}
      BY <1>1, <2>1, LoopKeepsBatch
    <2> QED BY <2>1, <2>2, DetachKeepsStream
  <1>3. CASE CloseOld(Gui)
    BY <1>1, <1>3, CloseOldKeepsStream
  <1>4. CASE \/ Startup \/ StartRecovery \/ StopRuntime \/ MarkSessionDetached
             \/ Signal(Gui) \/ Join \/ Disconnect \/ DestroyWindow
    <2> USE DEF Startup, StartRecovery, StopRuntime, MarkSessionDetached,
                Signal, Join, Disconnect, DestroyWindow
    <2>1. UNCHANGED <<session, pending, status, read, fresh, loopVars,
                      historyVars>>
      BY <1>4 DEF coreVars, controllerVars, transportVars, localVars, streamVars
    <2>2. PICK l : pc' = [pc EXCEPT ![Gui] = l]
      BY <1>4 DEF Goto
    <2> QED BY <1>1, <2>1, <2>2, StreamStays
  <1> QED BY <1>2, <1>3, <1>4 DEF GuiStep

\* Every step keeps the invariant.
LEMMA NextKeepsStream ==
  ASSUME RuntimeTypeOK, Ownership, StreamInv, [Next]_vars
  PROVE  StreamInv'
  <1>1. ASSUME NEW s \in Sessions, SessionFails(s)
        PROVE  StreamInv'
    <2>1. /\ UNCHANGED <<session, pending, read, fresh, loopVars, historyVars, pc>>
          /\ status[s] = "open" /\ status' = [status EXCEPT ![s] = "failed"]
      BY <1>1 DEF SessionFails, controllerVars, localVars, streamVars
    <2>2. \A r \in Sessions : status'[r] = "none" => status[r] = "none"
      BY <2>1 DEF RuntimeTypeOK
    <2>3. batch = <<>> \/ pc[Loop] \in {"replay", "publish", "done"}
      BY DEF StreamInv, BatchInv
    <2> QED BY <2>1, <2>2, <2>3, StreamKept
  <1>2. CASE Tick \/ Terminated \/ UNCHANGED vars
    <2>1. UNCHANGED <<session, pending, status, read, fresh, loopVars,
                      historyVars, pc>>
      BY <1>2 DEF Tick, Terminated, vars, coreVars, controllerVars,
                  transportVars, localVars, streamVars
    <2>2. batch = <<>> \/ pc[Loop] \in {"replay", "publish", "done"}
      BY DEF StreamInv, BatchInv
    <2> QED BY <2>1, <2>2, StreamKept
  <1> QED
    BY <1>1, <1>2, LoopKeepsStream, GuiKeepsStream, ConnectorKeepsStream
    DEF Next

-----------------------------------------------------------------------------
(* The theorems.                                                           *)

\* The inductive invariant behind the stream: what the loop, the controller and
\* the goroutines hold of each session's events.
THEOREM StreamInvariant == Spec => []StreamInv
  <1>1. Init => StreamInv
    <2> SUFFICES ASSUME Init PROVE StreamInv
      OBVIOUS
    <2>1. /\ session = None /\ pending = <<>>
          /\ loopSession = None /\ batch = <<>>
          /\ \A a \in Actors : fresh[a] = None
          /\ \A s \in Sessions : played[s] = 0
          /\ pc[Loop] = "top"
      BY DEF Init, Actors
    <2> QED
      BY <2>1 DEF StreamInv, Unplayed, PendingInv, LoopInv, BatchInv
  <1>2. TypeOK /\ Ownership /\ StreamInv /\ [Next]_vars => StreamInv'
    BY NextKeepsStream DEF TypeOK
  <1> QED BY TypeCorrect, OwnershipInvariant, <1>1, <1>2, PTL DEF Spec

\* The handshake events that wait in Controller.pending are the first events of
\* the session it owns, all that were read of it, whoever connects or recovers.
THEOREM PendingPrefixAlways == Spec => []PendingIsPrefix
  <1>1. StreamInv => PendingIsPrefix
    BY DEF StreamInv, PendingInv, PendingIsPrefix
  <1> QED BY StreamInvariant, <1>1, PTL

\* Giving session names back is, to the application, forgetting them.
LEMMA ReleaseForgets ==
  ASSUME RuntimeTypeOK, NEW S, Release(S)
  PROVE  \E T \in SUBSET Sessions : Stream!Forget(T)
  <1> DEFINE T == S \cap Sessions
  <1>1. played' = [s \in Sessions |-> IF s \in T THEN 0 ELSE played[s]]
    BY DEF Release
  <1>2. onAir' = IF onAir \in T THEN None ELSE onAir
    BY DEF Release, RuntimeTypeOK
  <1>3. T \in SUBSET Sessions
    OBVIOUS
  <1> QED BY <1>1, <1>2, <1>3 DEF Stream!Forget

\* A step of openAndHandshake and the like shows nothing but forgotten sessions.
LEMMA OpenerShows ==
  ASSUME RuntimeTypeOK, NEW a, OpenerStep(a) \/ Close(a)
  PROVE  UNCHANGED <<onAir, played>> \/ \E S : Release(S)
  <1>1. CASE Close(a) \/ CloseOld(a)
    BY <1>1 DEF CloseOld, Close, historyVars
  <1>2. CASE ProbeFails(a)
    BY <1>2 DEF ProbeFails
  <1>3. CASE \/ Open(a) \/ OpenFails(a) \/ StartHandshake(a) \/ Probe(a)
             \/ installSession(a) \/ CompleteOpen(a)
    BY <1>3 DEF Open, OpenFails, StartHandshake, Probe, installSession,
                CompleteOpen, streamVars, historyVars
  <1> QED BY <1>1, <1>2, <1>3 DEF OpenerStep

\* Only publishMessage shows the application an event.
LEMMA OthersShowNothing ==
  ASSUME RuntimeTypeOK, [Next]_vars, ~publishMessage
  PROVE  UNCHANGED <<onAir, played>> \/ \E S : Release(S)
  <1> USE DEF coreVars, streamVars, historyVars
  <1>1. CASE LoopStep
    <2>1. CASE OpenerStep(Loop) \/ CloseLost
      BY <2>1, OpenerShows DEF CloseLost
    <2>2. CASE TakeRuntimeBatch
      BY <2>2 DEF TakeRuntimeBatch
    <2>3. CASE ~OpenerStep(Loop) /\ ~CloseLost /\ ~TakeRuntimeBatch
      BY <1>1, <2>3
      DEF LoopStep, ReplayDone, PumpMessage, PumpFailure, PumpWake, Recheck,
          StartRecoveryIfCurrent, MarkSessionLost, CheckRecovery, Wakened,
          TimerFires, Attempt, NoAttempt, PauseOver, SelectCandidate,
          SelectFails, AttemptFails, LoopStops
    <2> QED BY <2>1, <2>2, <2>3
  <1>2. CASE GuiStep \/ Disconnect \/ DestroyWindow
    <2>1. CASE CloseOld(Gui)
      BY <2>1, OpenerShows DEF OpenerStep
    <2>2. CASE ~CloseOld(Gui)
      BY <1>2, <2>2
      DEF GuiStep, Startup, StartRecovery, StopRuntime, DetachSession,
          MarkSessionDetached, Signal, Join, Disconnect, DestroyWindow
    <2> QED BY <2>1, <2>2
  <1>3. ASSUME NEW c \in Connectors, Click(c) \/ ConnectorStep(c)
        PROVE  UNCHANGED <<onAir, played>> \/ \E S : Release(S)
    BY <1>3, OpenerShows
    DEF Click, ConnectorStep, BeginConnect, BeginConnectOpen, ConnectFails,
        Signal
  <1>4. CASE \/ Tick \/ Terminated \/ UNCHANGED vars
             \/ \E s \in Sessions : SessionFails(s)
    BY <1>4 DEF Tick, Terminated, vars, SessionFails
  <1> QED BY <1>1, <1>2, <1>3, <1>4 DEF Next

\* The runtime implements EventStream: of every session the application sees the
\* events from the first one on, in order, without a gap or a repetition, and
\* none after another session has spoken.
THEOREM StreamImplemented == Spec => StreamSpec
  <1>1. Init => Stream!Init
    BY DEF Init, Stream!Init
  <1>2. ASSUME RuntimeTypeOK, StreamInv, [Next]_vars
        PROVE  [Stream!Next]_(Stream!vars)
    <2>1. CASE publishMessage
      <3>1. loopSession \in Sessions /\ Stream!Publish(loopSession)
        BY <1>2, <2>1, PublishIsNext DEF Stream!Publish
      <3> QED BY <3>1 DEF Stream!Next
    <2>2. CASE ~publishMessage
      <3>1. CASE UNCHANGED <<onAir, played>>
        BY <3>1 DEF Stream!vars
      <3>2. CASE \E S : Release(S)
        BY <1>2, <3>2, ReleaseForgets DEF Stream!Next
      <3> QED BY <1>2, <2>2, <3>1, <3>2, OthersShowNothing
    <2> QED BY <2>1, <2>2
  <1>3. TypeOK /\ StreamInv /\ [Next]_vars => [Stream!Next]_(Stream!vars)
    BY <1>2 DEF TypeOK
  <1> QED
    BY TypeCorrect, StreamInvariant, <1>1, <1>3, PTL
    DEF Spec, StreamSpec, Stream!Spec
=============================================================================
