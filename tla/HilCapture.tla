----------------------------- MODULE HilCapture -----------------------------
(***************************************************************************)
(* The capture tool (tools/hid-capture/main.go, hilcapture): an observer   *)
(* of the HID reader records every report, the reports are resolved and    *)
(* handed to the action handler, whose worker reports each SendInput to    *)
(* the same observer, and the samples are written when all have come back. *)
(* The main loop, the reader and the worker run concurrently; the user may *)
(* interrupt and the waiting for the worker is timed.  The action handler  *)
(* is the one of ActionHandler, here with its queue of traces only.        *)
(* The observer's checks that a SendInput belongs to a sample, comes once  *)
(* and before the sample is written never fail, and are left out.          *)
(***************************************************************************)
EXTENDS HidReader, FiniteSets

CONSTANTS
    Limit,      \* samples to capture
    MaxReports  \* bound: reports of the device

ASSUME CaptureAssumption == Limit \in Nat \ {0} /\ MaxReports \in Nat

VARIABLES
    main,        \* "capturing", "covering", "checking", "unwinding" or "ended"
    sendInput,   \* the flag of the tool
    captured,    \* events the main loop has taken
    listening,   \* the main loop still listens to errors
    samples,     \* of the observer: [sequence, actionable, t3]
    observerErr, \* a number came twice, or a sample could not be written
    queue,       \* traces the handler has not worked off
    flushed,     \* samples written
    success

captureVars == <<main, sendInput, captured, listening, samples, observerErr, queue, flushed, success>>

CaptureInit ==
    /\ main = "capturing" /\ sendInput \in BOOLEAN
    /\ captured = 0 /\ listening = TRUE
    /\ samples = <<>> /\ observerErr = FALSE
    /\ queue = <<>> /\ flushed = 0 /\ success = FALSE

Observed == Cardinality({i \in DOMAIN samples : samples[i].t3 # "none"})
Expected == Cardinality({i \in DOMAIN samples : samples[i].actionable})
Failures == Cardinality({i \in DOMAIN samples : samples[i].t3 = "failed"})

-----------------------------------------------------------------------------
(* The observer, called by the reader before it delivers the event.        *)

\* The number of the next report has been seen.
Repeated == \E i \in DOMAIN samples : samples[i].sequence = Head(wire["hid-v3"]).sequence

\* Mutant: only the main loop counts.
ObserveHIDV3Unlimited ==
    /\ wire["hid-v3"] # <<>> /\ ~Repeated /\ HidAccepts
    /\ LET m == Head(wire["hid-v3"])
       IN  samples' = Append(samples, [sequence |-> m.sequence, t3 |-> "none",
                                       actionable |-> m.type # "language"])
    /\ UNCHANGED <<main, sendInput, captured, listening, observerErr, queue, flushed, success>>

ObserveHIDV3 ==
    /\ Len(samples) < Limit
    /\ wire["hid-v3"] # <<>> /\ ~Repeated /\ HidAccepts
    /\ LET m == Head(wire["hid-v3"])
       IN  samples' = Append(samples, [sequence |-> m.sequence, t3 |-> "none",
                                       actionable |-> m.type # "language"])
    /\ UNCHANGED <<main, sendInput, captured, listening, observerErr, queue, flushed, success>>

ErrCaptureLimitReached ==
    /\ Len(samples) >= Limit /\ HidStops("limit")
    /\ UNCHANGED captureVars

DuplicateSequence ==
    /\ Len(samples) < Limit
    /\ wire["hid-v3"] # <<>> /\ Repeated /\ HidStops("duplicate")
    /\ observerErr' = TRUE
    /\ UNCHANGED <<main, sendInput, captured, listening, samples, queue, flushed, success>>

\* The worker of the handler sends the input of a trace, which may fail or,
\* when the key is not known, be left out; the observer is told of it.
Worker ==
    /\ queue # <<>> /\ main # "ended"
    /\ queue' = Tail(queue)
    /\ \E t3 \in {"sent", "failed", "none"} :
        samples' = [i \in DOMAIN samples |->
                        IF ~observerErr /\ samples[i].sequence = Head(queue)
                        THEN [samples[i] EXCEPT !.t3 = t3] ELSE samples[i]]
    /\ UNCHANGED <<linkVars, main, sendInput, captured, listening, observerErr, flushed, success>>

-----------------------------------------------------------------------------
(* The main loop.                                                          *)

Fails == main' = "unwinding"

\* The user presses Ctrl+C.
Interrupt ==
    /\ main \in {"capturing", "covering"} /\ Fails
    /\ UNCHANGED <<linkVars, sendInput, captured, listening, samples, observerErr, queue, flushed, success>>

\* The error that the limit is reached is no error.
TakeReadError ==
    /\ main = "capturing" /\ captured < Limit /\ listening
    /\ \/ /\ hidErrors # <<>> /\ hidErrors' = Tail(hidErrors)
          /\ \/ Head(hidErrors) = "limit" /\ listening' = FALSE /\ UNCHANGED main
             \/ Head(hidErrors) # "limit" /\ Fails /\ UNCHANGED listening
       \/ /\ hidErrors = <<>> /\ hidReader = "ended"
          /\ listening' = FALSE /\ UNCHANGED <<hidErrors, main>>
    /\ UNCHANGED <<deviceVars, open, health, heard, hidReader, hidPending, hidMessages>>
    /\ UNCHANGED <<sendInput, captured, samples, observerErr, queue, flushed, success>>

\* Only an action that types at once can be timed.
TakeEvent ==
    /\ main = "capturing" /\ captured < Limit /\ hidMessages # <<>>
    /\ hidMessages' = Tail(hidMessages) /\ captured' = captured + 1
    /\ LET event == Head(hidMessages)
       IN  /\ queue' = IF sendInput /\ event.type = "stroke"
                       THEN Append(queue, event.sequence) ELSE queue
           /\ IF observerErr \/ (sendInput /\ event.type = "command")
              THEN Fails ELSE UNCHANGED main
    /\ UNCHANGED <<deviceVars, open, health, heard, hidReader, hidPending, hidErrors>>
    /\ UNCHANGED <<sendInput, listening, samples, observerErr, flushed, success>>

StreamClosed ==
    /\ main = "capturing" /\ captured < Limit
    /\ hidReader = "ended" /\ hidMessages = <<>> /\ Fails
    /\ UNCHANGED <<linkVars, sendInput, captured, listening, samples, observerErr, queue, flushed, success>>

\* Enough: the reader is closed.
CapturedAll ==
    /\ main = "capturing" /\ captured = Limit
    /\ open' = [open EXCEPT !["hid-v3"] = FALSE]
    /\ main' = IF sendInput THEN "covering" ELSE "checking"
    /\ UNCHANGED <<deviceVars, hidVars, health, heard>>
    /\ UNCHANGED <<sendInput, captured, listening, samples, observerErr, queue, flushed, success>>

WaitForHostCoverage ==
    /\ main = "covering"
    /\ \/ ~observerErr /\ Observed >= Expected /\ main' = "checking"
       \/ (observerErr \/ Observed < Expected) /\ Fails  \* the time is over
    /\ UNCHANGED <<linkVars, sendInput, captured, listening, samples, observerErr, queue, flushed, success>>

\* Mutant: an input that was refused counts as timed.
CompleteWithFailures ==
    /\ ~observerErr /\ Len(samples) = Limit
    /\ sendInput => Observed = Expected

Complete ==
    /\ ~observerErr /\ Len(samples) = Limit
    /\ sendInput => Observed = Expected /\ Failures = 0

\* The samples are written; a sample that cannot be written fails the tool.
Check ==
    /\ main = "checking" /\ main' = "unwinding"
    /\ \/ Complete /\ flushed' = Len(samples) /\ success' = TRUE /\ UNCHANGED observerErr
       \/ ~Complete /\ UNCHANGED <<flushed, success, observerErr>>
       \/ Complete /\ flushed' \in 0..(Len(samples) - 1) /\ observerErr' = TRUE /\ UNCHANGED success
    /\ UNCHANGED <<linkVars, sendInput, captured, listening, samples, queue>>

\* The deferred calls: the reader and the handler are closed, and what was
\* captured is kept for a diagnosis.
Unwind ==
    /\ main = "unwinding" /\ main' = "ended"
    /\ open' = [open EXCEPT !["hid-v3"] = FALSE]
    /\ queue' = <<>>
    /\ flushed' = IF success \/ observerErr THEN flushed ELSE Len(samples)
    /\ UNCHANGED <<deviceVars, hidVars, health, heard>>
    /\ UNCHANGED <<sendInput, captured, listening, samples, observerErr, success>>

HidReaderOfCapture ==
    \/ (HidReadFails \/ HidRejects \/ HidDelivers) /\ UNCHANGED captureVars
    \/ ObserveHIDV3 \/ ErrCaptureLimitReached \/ DuplicateSequence

\* Nobody reads the lines of the device.
DeviceOfCapture ==
    /\ \/ /\ sent["hid-v3"] < MaxReports
          /\ \/ \E type \in {"stroke", "command", "language"} : SendReport(type)
             \/ SendReportFails
       \/ Unplug
    /\ UNCHANGED captureVars

CaptureNext ==
    \/ DeviceOfCapture \/ HidReaderOfCapture \/ Worker
    \/ Interrupt \/ TakeReadError \/ TakeEvent \/ StreamClosed \/ CapturedAll
    \/ WaitForHostCoverage \/ Check \/ Unwind

-----------------------------------------------------------------------------

CaptureTypes ==
    /\ main \in {"capturing", "covering", "checking", "unwinding", "ended"}
    /\ sendInput \in BOOLEAN /\ listening \in BOOLEAN /\ observerErr \in BOOLEAN /\ success \in BOOLEAN
    /\ samples \in Seq([sequence : 1..MaxSequence, actionable : BOOLEAN, t3 : {"none", "sent", "failed"}])
    /\ Len(samples) <= Limit
    /\ queue \in Seq(1..MaxSequence)
    /\ captured \in 0..Len(samples) /\ flushed \in 0..Len(samples)

(* A capture that reports success has written exactly as many samples as   *)
(* were asked for, no two of one sequence number, and, when input was      *)
(* sent, each sample that types with the time its own input was sent: a    *)
(* partial dataset never looks complete (hidv3/source.go:38-42,            *)
(* ObserveHIDV3, ObserveSendInput, run of tools/hid-capture).              *)
CaptureIsComplete ==
    success =>
        /\ flushed = Limit /\ Len(samples) = Limit
        /\ \A i, j \in DOMAIN samples : samples[i].sequence = samples[j].sequence => i = j
        /\ sendInput => \A i \in DOMAIN samples : samples[i].actionable => samples[i].t3 = "sent"
        /\ Observed = (IF sendInput THEN Expected ELSE 0)
=============================================================================
