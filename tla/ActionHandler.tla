--------------------------- MODULE ActionHandler ---------------------------
(***************************************************************************)
(* handler/actions.go: two workers and three bounded channels.  The input  *)
(* worker is the only goroutine that injects keys: real-time requests,     *)
(* and macro steps when no real-time request waits.  The background worker *)
(* runs commands and plays macros, step by step, into the macro queue.     *)
(*                                                                         *)
(* A select is one step that takes any ready case.  A blocked goroutine is *)
(* one whose step is not enabled.  The pause between two steps of a macro  *)
(* is the gap between two steps of the worker.                             *)
(***************************************************************************)
EXTENDS Keyboard, SequencesExt

CONSTANTS
    Actions,          \* the configured actions and the steps of their macros
    RealtimeCap, MacroCap, BackgroundCap,   \* capacities of the channels
    maxMacroDepth,
    None

Requests == [action : Actions, id : Nat, trace : Nat]

ASSUME HandlerAssumption ==
    /\ {RealtimeCap, MacroCap, BackgroundCap} \subseteq Nat \ {0}
    /\ maxMacroDepth \in Nat
    /\ None \notin Actions /\ None \notin Requests
    /\ \A a \in Actions :
        /\ a.type \in {"key", "text", "combo", "command", "macro"}
        /\ a.type = "text" => a.text \in Seq(STRING)
        /\ a.type = "combo" => a.keys \in Seq(STRING) \ {<<>>}
        /\ a.type = "macro" => a.macro \in Seq(Actions)

VARIABLES
    realtimeQueue, macroStepQueue, backgroundQueue,  \* sequences of requests
    closed,           \* the channel h.closed is closed
    inputPc,          \* the input worker: poll, wait, took, send, done
    calls,            \* the injections it has still to make for ...
    current,          \* ... this request
    pending,          \* the macro step it took from its queue and has yet to play
    backPc,           \* the background worker: idle, play, enqueue, done
    frames,           \* its calls of scheduleMacro: what is left of each macro
    playing,          \* the request it works on
    accepted,         \* history: real-time actions accepted, in order
    scheduled,        \* history: the steps scheduleMacro came to, in order
    queued,           \* history: the steps it passed to the input worker
    struck, stepped   \* history: the real-time actions and the macro steps the
                      \* input worker began, in order

queueVars == <<realtimeQueue, macroStepQueue, backgroundQueue>>
inputVars == <<inputPc, calls, current, pending>>
backVars == <<backPc, frames, playing>>
historyVars == <<accepted, struck, scheduled, queued, stepped>>
handlerVars == <<queueVars, closed, inputVars, backVars, historyVars, keyboardVars>>

Request(a, id, t) == [action |-> a, id |-> id, trace |-> t]

isBackgroundAction(a) == a.type \in {"macro", "command"}
IsInput(a) == a.type \in {"key", "text", "combo"}

HandlerInit ==
    /\ realtimeQueue = <<>> /\ macroStepQueue = <<>> /\ backgroundQueue = <<>>
    /\ closed = FALSE
    /\ inputPc = "poll" /\ calls = <<>> /\ current = None /\ pending = None
    /\ backPc = "idle" /\ frames = <<>> /\ playing = None
    /\ accepted = <<>> /\ struck = <<>> /\ scheduled = <<>> /\ queued = <<>> /\ stepped = <<>>
    /\ KeyboardInit

-----------------------------------------------------------------------------
(* HandleAction, called from other goroutines: the caller's step.          *)

\* A closed handler refuses; with room in the queue select may still accept.
enqueueRealtime(a, id, t) ==
    /\ Len(realtimeQueue) < RealtimeCap
    /\ realtimeQueue' = Append(realtimeQueue, Request(a, id, t))
    /\ accepted' = Append(accepted, <<id, a>>)
    /\ UNCHANGED <<macroStepQueue, backgroundQueue, closed, inputVars, backVars,
                   struck, scheduled, queued, stepped, keyboardVars>>

tryEnqueueBackground(a, id) ==
    /\ Len(backgroundQueue) < BackgroundCap
    /\ backgroundQueue' = Append(backgroundQueue, Request(a, id, 0))
    /\ UNCHANGED <<realtimeQueue, macroStepQueue, closed, inputVars, backVars,
                   historyVars, keyboardVars>>

\* Mutant: a full real-time queue drops the stroke instead of waiting.
RefusesWhenFull(a) ==
    \/ closed
    \/ isBackgroundAction(a) /\ Len(backgroundQueue) = BackgroundCap
    \/ ~isBackgroundAction(a) /\ Len(realtimeQueue) = RealtimeCap

\* A full background queue drops the action; a closed handler any action.
Refuses(a) == closed \/ (isBackgroundAction(a) /\ Len(backgroundQueue) = BackgroundCap)

HandleAction(a, id, t) ==
    IF isBackgroundAction(a) THEN tryEnqueueBackground(a, id)
    ELSE enqueueRealtime(a, id, t)

-----------------------------------------------------------------------------
(* The input worker.                                                       *)

InputStays == UNCHANGED <<closed, macroStepQueue, backgroundQueue, backVars,
                          accepted, scheduled, queued, held, refused>>

executeRealtimeRequest ==
    LET req == Head(realtimeQueue) IN
    /\ realtimeQueue # <<>>
    /\ realtimeQueue' = Tail(realtimeQueue)
    /\ inputPc' = "send" /\ current' = req
    /\ calls' = executeInputAction(req.action)
    /\ beginInputTrace(req.trace)
    /\ struck' = Append(struck, <<req.id, req.action>>)
    /\ UNCHANGED stepped

WorkerDone ==
    /\ closed
    /\ inputPc' = "done"
    /\ UNCHANGED <<realtimeQueue, calls, current, pending, struck, stepped, trace>>

InputPoll ==
    /\ inputPc = "poll"
    /\ \/ WorkerDone
       \/ executeRealtimeRequest /\ UNCHANGED pending
       \/ /\ ~closed /\ realtimeQueue = <<>>
          /\ inputPc' = "wait"
          /\ UNCHANGED <<realtimeQueue, calls, current, pending, struck, stepped, trace>>
    /\ InputStays

\* Mutant: the worker does not look at the macro queue while it waits.
InputWaitRealtime ==
    /\ inputPc = "wait"
    /\ \/ WorkerDone /\ InputStays
       \/ executeRealtimeRequest /\ UNCHANGED pending /\ InputStays

InputWait ==
    /\ inputPc = "wait"
    /\ \/ WorkerDone /\ InputStays
       \/ executeRealtimeRequest /\ UNCHANGED pending /\ InputStays
       \/ /\ macroStepQueue # <<>>
          /\ pending' = Head(macroStepQueue)
          /\ macroStepQueue' = Tail(macroStepQueue)
          /\ inputPc' = "took"
          /\ UNCHANGED <<closed, realtimeQueue, backgroundQueue, calls, current,
                         backVars, historyVars, keyboardVars>>

\* One waiting real-time request overtakes the macro step.
InputOvertake ==
    /\ inputPc = "took"
    /\ executeRealtimeRequest
    /\ UNCHANGED pending /\ InputStays

PlayStep ==
    /\ inputPc' = "send" /\ current' = pending /\ pending' = None
    /\ calls' = executeInputAction(pending.action)
    /\ trace' = 0
    /\ stepped' = Append(stepped, <<pending.id, pending.action>>)
    /\ UNCHANGED <<realtimeQueue, struck>>

\* Mutant: the step is played while a request waits.
InputStepAtOnce ==
    /\ inputPc = "took"
    /\ PlayStep /\ InputStays

InputStep ==
    /\ inputPc = "took" /\ realtimeQueue = <<>>
    /\ PlayStep /\ InputStays

\* Mutant: a failed injection abandons the rest of the action.
InputSendGivesUp(n) ==
    /\ inputPc = "send" /\ calls # <<>>
    /\ sendInputs(Head(calls), n)
    /\ calls' = IF n < Len(Head(calls)) THEN <<>> ELSE Tail(calls)
    /\ UNCHANGED <<queueVars, closed, inputPc, current, pending, backVars, historyVars>>

\* One SendInput of the action being executed.
InputSend(n) ==
    /\ inputPc = "send" /\ calls # <<>>
    /\ sendInputs(Head(calls), n)
    /\ calls' = Tail(calls)
    /\ UNCHANGED <<queueVars, closed, inputPc, current, pending, backVars, historyVars>>

\* Mutant: the macro step that was overtaken is forgotten.
InputNextForgets ==
    /\ inputPc = "send" /\ calls = <<>>
    /\ inputPc' = "poll" /\ current' = None /\ pending' = None /\ trace' = 0
    /\ UNCHANGED <<calls, realtimeQueue, struck, stepped>> /\ InputStays

\* The action is over: the macro step it overtook follows, or the loop.
InputNext ==
    /\ inputPc = "send" /\ calls = <<>>
    /\ IF pending # None THEN PlayStep
       ELSE /\ inputPc' = "poll" /\ current' = None /\ trace' = 0
            /\ UNCHANGED <<calls, pending, realtimeQueue, struck, stepped>>
    /\ InputStays

-----------------------------------------------------------------------------
(* The background worker.                                                  *)

BackStays == UNCHANGED <<closed, realtimeQueue, inputVars, accepted, struck, stepped, keyboardVars>>

\* The steps left of the innermost macro, after one step or none of it.
Advance == [frames EXCEPT ![Len(frames)] = Tail(@)]

Scheduled(a) == Append(scheduled, <<playing.id, a>>)

\* Mutant: one level more is played.
TooDeepLate == Len(frames) > maxMacroDepth + 1

\* The depth of a nested macro is the number of calls around it.
TooDeep == Len(frames) > maxMacroDepth

BackTake ==
    LET req == Head(backgroundQueue) IN
    /\ backPc = "idle"
    /\ \/ /\ closed /\ backPc' = "done"
          /\ UNCHANGED <<backgroundQueue, frames, playing, scheduled>>
       \/ /\ backgroundQueue # <<>>
          /\ backgroundQueue' = Tail(backgroundQueue)
          /\ playing' = req
          /\ IF req.action.type = "command"
             THEN /\ scheduled' = Append(scheduled, <<req.id, req.action>>)
                  /\ UNCHANGED <<backPc, frames>>
             ELSE /\ backPc' = "play" /\ frames' = <<req.action.macro>>
                  /\ UNCHANGED scheduled
    /\ BackStays /\ UNCHANGED <<macroStepQueue, queued>>

\* An iteration of scheduleMacro's loop, or its return.
BackPlay ==
    LET rest == Last(frames)
        step == Head(rest)
    IN
    /\ backPc = "play"
    /\ IF closed \/ rest = <<>> THEN
          /\ frames' = Front(frames)
          /\ backPc' = IF Len(frames) = 1 THEN "idle" ELSE "play"
          /\ UNCHANGED scheduled
       ELSE CASE IsInput(step) ->
                   backPc' = "enqueue" /\ UNCHANGED <<frames, scheduled>>
              [] step.type = "command" ->
                   frames' = Advance /\ scheduled' = Scheduled(step) /\ UNCHANGED backPc
              [] OTHER ->
                   /\ frames' = IF TooDeep THEN Advance
                                ELSE Append(Advance, step.macro)
                   /\ UNCHANGED <<backPc, scheduled>>
    /\ BackStays /\ UNCHANGED <<macroStepQueue, backgroundQueue, playing, queued>>

\* Mutant: the send does not watch the closing of the handler.
BackEnqueueOnly ==
    /\ backPc = "enqueue"
    /\ Len(macroStepQueue) < MacroCap
    /\ macroStepQueue' = Append(macroStepQueue, Request(Head(Last(frames)), playing.id, 0))
    /\ scheduled' = Scheduled(Head(Last(frames)))
    /\ queued' = Append(queued, <<playing.id, Head(Last(frames))>>)
    /\ frames' = Advance /\ backPc' = "play"
    /\ BackStays /\ UNCHANGED <<backgroundQueue, playing>>

\* enqueueMacroStep: blocked while the queue is full, given up when closed.
BackEnqueue ==
    LET step == Head(Last(frames)) IN
    /\ backPc = "enqueue"
    /\ \/ /\ closed
          /\ frames' = Front(frames)
          /\ backPc' = IF Len(frames) = 1 THEN "idle" ELSE "play"
          /\ UNCHANGED <<macroStepQueue, scheduled, queued>>
       \/ /\ Len(macroStepQueue) < MacroCap
          /\ macroStepQueue' = Append(macroStepQueue, Request(step, playing.id, 0))
          /\ scheduled' = Scheduled(step)
          /\ queued' = Append(queued, <<playing.id, step>>)
          /\ frames' = Advance /\ backPc' = "play"
    /\ BackStays /\ UNCHANGED <<backgroundQueue, playing>>

\* Close, called once: the channel is closed and the workers are waited for.
CloseHandler ==
    /\ closed' = TRUE
    /\ UNCHANGED <<queueVars, inputVars, backVars, historyVars, keyboardVars>>

WorkersDone == inputPc = "done" /\ backPc = "done"

InputWorker == InputPoll \/ InputWait \/ InputOvertake \/ InputStep \/ InputNext
BackgroundWorker == BackTake \/ BackPlay \/ BackEnqueue

-----------------------------------------------------------------------------
(* Properties.                                                             *)

Steps == {r \in Requests : IsInput(r.action)}

QueueTypes ==
    /\ realtimeQueue \in Seq(Steps) /\ Len(realtimeQueue) <= RealtimeCap
    /\ macroStepQueue \in Seq(Steps) /\ Len(macroStepQueue) <= MacroCap
    /\ backgroundQueue \in Seq(Requests \ Steps) /\ Len(backgroundQueue) <= BackgroundCap
    /\ closed \in BOOLEAN

InputTypes ==
    /\ inputPc \in {"poll", "wait", "took", "send", "done"}
    /\ current \in IF inputPc = "send" THEN Steps ELSE {None}
    /\ pending \in CASE inputPc = "took" -> Steps
                     [] inputPc = "send" -> Steps \cup {None}
                     [] OTHER -> {None}
    /\ inputPc # "send" => calls = <<>>

BackTypes ==
    /\ backPc \in {"idle", "play", "enqueue", "done"}
    /\ frames \in Seq(Seq(Actions)) /\ Len(frames) <= maxMacroDepth + 1
    /\ backPc \in {"play", "enqueue"} => frames # <<>> /\ playing # None
    /\ backPc = "enqueue" => Last(frames) # <<>> /\ IsInput(Head(Last(frames)))
    /\ playing \in (Requests \ Steps) \cup {None}

HandlerTypes == QueueTypes /\ InputTypes /\ BackTypes

Name(request) == <<request.id, request.action>>
Named(queue) == [i \in DOMAIN queue |-> Name(queue[i])]

\* The keys of physical strokes are injected in the order their strokes were
\* accepted, none skipped or doubled, whichever of the three places of the
\* input worker took them.
RealtimeInOrder == accepted = struck \o Named(realtimeQueue)

\* The input steps scheduleMacro passed on are injected in that order, none
\* lost or doubled, also when real-time requests overtake them.
StepsInOrder ==
    queued = stepped \o (IF pending = None THEN <<>> ELSE <<Name(pending)>>) \o Named(macroStepQueue)

\* What the input worker begins is what was handed to it, in order.
InOrder == RealtimeInOrder /\ StepsInOrder

\* What a macro amounts to, by recursion on its nesting.
Leaves[d \in 0..maxMacroDepth + 1] ==
    [a \in Actions |->
        IF a.type # "macro" THEN <<a>>
        ELSE IF d > maxMacroDepth THEN <<>>
        ELSE FlattenSeq([i \in DOMAIN a.macro |-> Leaves[d + 1][a.macro[i]]])]

\* The keys among the entries of a history, and the actions it has for a request.
Keys(history) ==
    FlattenSeq([i \in DOMAIN history |->
                   IF IsInput(history[i][2]) THEN <<history[i]>> ELSE <<>>])
ActionsOf(id, history) ==
    FlattenSeq([i \in DOMAIN history |->
                   IF history[i][1] = id THEN <<history[i][2]>> ELSE <<>>])

\* What scheduleMacro came to of a macro is a prefix of the macro, nested ones
\* included and those too deep left out; its keys are passed on, in order.
MacroInOrder ==
    /\ queued = Keys(scheduled)
    /\ playing # None =>
          IsPrefix(ActionsOf(playing.id, scheduled), Leaves[0][playing.action])

\* Outside an action no key is down, unless Windows refused its key-up: no
\* action starts under the modifiers of another, and none is left at the end.
KeysOf(req) == UNION {KeysIn(b) : b \in Range(executeInputAction(req.action))}
Down == held \ refused
NoStuckKey == Down \subseteq IF current = None THEN {} ELSE KeysOf(current)

\* The handler is one typist (Typist): one action at a time and the next one
\* only when no key is left down, a waiting stroke before the steps of macros,
\* and no step passed by more than one.
StepsWaiting == IF pending = None THEN macroStepQueue ELSE Cons(pending, macroStepQueue)
Overtaken == inputPc = "send" /\ pending # None

Typing == INSTANCE Typist WITH
    strokes <- realtimeQueue, steps <- StepsWaiting, typing <- current,
    passed <- Overtaken, down <- Down

OneTypist == Typing!Spec
=============================================================================
