-------------------------- MODULE CompositeSession --------------------------
(***************************************************************************)
(* The session of the program with a device that has both streams          *)
(* (connection/composite_session.go): the CDC reader (serial/reader.go)    *)
(* for commands and diagnostics, whose messages are only drained, and the  *)
(* HID reader for input.  The program (connection/runtime.go, modelled in  *)
(* Connection) takes the input and the errors, writes commands, closes the *)
(* session, at an error or when it likes, and may open another one.        *)
(***************************************************************************)
EXTENDS HidReader

CONSTANT MaxSent  \* bound: messages of both streams

ASSUME SessionAssumption == MaxSent \in Nat

Errors == {"control", "realtime"}  \* the two forwarding goroutines

VARIABLES
    session,        \* "open", "locking", "waiting" or "closed"
    serialReader,   \* "scan", "deliver" or "ended"
    controlMessages, controlErrors,  \* channels of the CDC reader, without values
    portOpen,       \* the port itself, closed under the lock of the reader
    writing,        \* a command is being written, under the same lock
    forwarding,     \* the goroutines that still run
    errors          \* the channel of the session, without values

sessionVars == <<session, serialReader, controlMessages, controlErrors, portOpen, writing, forwarding, errors>>

Goroutines == Errors \cup {"drain"}

Opened ==
    /\ session' = "open" /\ serialReader' = "scan"
    /\ controlMessages' = 0 /\ controlErrors' = 0 /\ errors' = 0
    /\ portOpen' = TRUE /\ writing' = FALSE
    /\ forwarding' = Goroutines

SessionInit ==
    /\ session = "open" /\ serialReader = "scan"
    /\ controlMessages = 0 /\ controlErrors = 0 /\ errors = 0
    /\ portOpen = TRUE /\ writing = FALSE
    /\ forwarding = Goroutines

Told == session # "open"  \* the done channel of the session is closed

-----------------------------------------------------------------------------
(* The CDC reader.                                                         *)

\* A line that does not parse is lost.
SerialScans ==
    /\ serialReader = "scan" /\ open["cdc-v2"] /\ wire["cdc-v2"] # <<>>
    /\ wire' = [wire EXCEPT !["cdc-v2"] = Tail(@)]
    /\ \/ Observe("cdc-v2", Head(wire["cdc-v2"])) /\ serialReader' = "deliver" /\ UNCHANGED faults
       \/ Fault /\ UNCHANGED <<health, heard, serialReader>>
    /\ UNCHANGED <<plugged, sequence, boots, sent, hidVars, open>>
    /\ UNCHANGED <<session, controlMessages, controlErrors, portOpen, writing, forwarding, errors>>

\* The stream ends: the device is gone, or the reader was told to stop.
SerialEnds ==
    /\ serialReader = "scan"
    /\ \/ ~plugged /\ open["cdc-v2"] /\ controlErrors' = controlErrors + 1
       \/ /\ ~open["cdc-v2"] /\ (~portOpen \/ ~plugged \/ wire["cdc-v2"] # <<>>)
          /\ UNCHANGED controlErrors
    /\ serialReader' = "ended"
    /\ UNCHANGED <<linkVars, session, controlMessages, portOpen, writing, forwarding, errors>>

SerialDelivers ==
    /\ serialReader = "deliver"
    /\ \/ /\ controlMessages < QueueCap
          /\ controlMessages' = controlMessages + 1 /\ serialReader' = "scan"
       \/ ~open["cdc-v2"] /\ serialReader' = "ended" /\ UNCHANGED controlMessages
    /\ UNCHANGED <<linkVars, session, controlErrors, portOpen, writing, forwarding, errors>>

\* A command holds the lock of the reader until the port has taken it.
WriteCommand ==
    /\ session = "open" /\ portOpen /\ ~writing
    /\ writing' = TRUE
    /\ UNCHANGED <<linkVars, session, serialReader, controlMessages, controlErrors, portOpen, forwarding, errors>>

Written ==
    /\ writing /\ writing' = FALSE
    /\ UNCHANGED <<linkVars, session, serialReader, controlMessages, controlErrors, portOpen, forwarding, errors>>

-----------------------------------------------------------------------------
(* The goroutines of the session.                                          *)

Exits(g) == forwarding' = forwarding \ {g}

\* An error that nobody takes is dropped.
Forwarded == errors' = IF errors < QueueCap THEN errors + 1 ELSE errors

\* Mutant: an error waits for somebody to take it.
ForwardControlErrorWaits ==
    /\ "control" \in forwarding
    /\ \/ /\ controlErrors > 0 /\ errors < QueueCap
          /\ controlErrors' = controlErrors - 1 /\ errors' = errors + 1 /\ UNCHANGED forwarding
       \/ /\ controlErrors = 0 /\ (Told \/ serialReader = "ended")
          /\ Exits("control") /\ UNCHANGED <<controlErrors, errors>>
    /\ UNCHANGED <<linkVars, session, serialReader, controlMessages, portOpen, writing>>

ForwardControlError ==
    /\ "control" \in forwarding
    /\ \/ controlErrors > 0 /\ controlErrors' = controlErrors - 1 /\ Forwarded /\ UNCHANGED forwarding
       \/ /\ Told \/ (serialReader = "ended" /\ controlErrors = 0)
          /\ Exits("control") /\ UNCHANGED <<controlErrors, errors>>
    /\ UNCHANGED <<linkVars, session, serialReader, controlMessages, portOpen, writing>>

ForwardRealtimeError ==
    /\ "realtime" \in forwarding
    /\ \/ hidErrors # <<>> /\ hidErrors' = Tail(hidErrors) /\ Forwarded /\ UNCHANGED forwarding
       \/ /\ Told \/ (hidReader = "ended" /\ hidErrors = <<>>)
          /\ Exits("realtime") /\ UNCHANGED <<hidErrors, errors>>
    /\ UNCHANGED <<deviceVars, hidReader, hidPending, hidMessages, open, health, heard>>
    /\ UNCHANGED <<session, serialReader, controlMessages, controlErrors, portOpen, writing>>

\* Mutant: nobody takes the messages of the control stream.
DrainOnlyAtTheEnd ==
    /\ "drain" \in forwarding /\ Told /\ Exits("drain")
    /\ UNCHANGED <<linkVars, session, serialReader, controlMessages, controlErrors, portOpen, writing, errors>>

DrainControlMessages ==
    /\ "drain" \in forwarding
    /\ \/ controlMessages > 0 /\ controlMessages' = controlMessages - 1 /\ UNCHANGED forwarding
       \/ /\ Told \/ (serialReader = "ended" /\ controlMessages = 0)
          /\ Exits("drain") /\ UNCHANGED controlMessages
    /\ UNCHANGED <<linkVars, session, serialReader, controlErrors, portOpen, writing, errors>>

-----------------------------------------------------------------------------
(* The program.                                                            *)

TakeMessage ==
    /\ session = "open" /\ hidMessages # <<>>
    /\ hidMessages' = Tail(hidMessages)
    /\ UNCHANGED <<deviceVars, hidReader, hidPending, hidErrors, open, health, heard, sessionVars>>

\* Close: the session is told, then the HID reader, then the CDC reader ...
Closing ==
    /\ session = "open" /\ session' = "locking"
    /\ open' = [s \in Streams |-> FALSE]
    /\ UNCHANGED <<deviceVars, hidVars, health, heard>>
    /\ UNCHANGED <<serialReader, controlMessages, controlErrors, portOpen, writing, forwarding>>

TakeError == Closing /\ errors > 0 /\ errors' = errors - 1
CloseAtWill == Closing /\ UNCHANGED errors

\* ... whose port is closed under its lock ...
ClosePort ==
    /\ session = "locking" /\ ~writing
    /\ session' = "waiting" /\ portOpen' = FALSE
    /\ UNCHANGED <<linkVars, serialReader, controlMessages, controlErrors, writing, forwarding, errors>>

\* ... and the goroutines of the session are waited for.
CloseEnds ==
    /\ session = "waiting" /\ forwarding = {}
    /\ session' = "closed"
    /\ UNCHANGED <<linkVars, serialReader, controlMessages, controlErrors, portOpen, writing, forwarding, errors>>

\* A session with new readers and the same telemetry; the streams begin with
\* what the device sends from now on.  Close joins no read loop: that the old
\* ones have ended is assumed, so that an old reader which observes its last
\* message after the new one its first is left out.
Reopen ==
    /\ session = "closed" /\ plugged
    /\ serialReader = "ended" /\ hidReader = "ended"
    /\ Opened
    /\ open' = [s \in Streams |-> TRUE]
    /\ wire' = [s \in Streams |-> <<>>]
    /\ hidReader' = "read" /\ hidPending' = Nothing /\ hidMessages' = <<>> /\ hidErrors' = <<>>
    /\ UNCHANGED <<plugged, sequence, boots, sent, faults, health, heard>>

HidReaderOfSession ==
    (HidReadFails \/ HidRejects \/ HidAccepts \/ HidDelivers) /\ UNCHANGED sessionVars

\* A device that comes back is another one for the handles that are open:
\* what it does before they are closed is what it does after.
DeviceOfSession ==
    /\ \/ /\ sent["cdc-v2"] + sent["hid-v3"] < MaxSent
          /\ \/ \E type \in {"ready", "status"} : SendLine(type)
             \/ SendReport("stroke") \/ SendReportFails
       \/ Unplug
       \/ session = "closed" /\ Boot
    /\ UNCHANGED sessionVars

SessionNext ==
    \/ DeviceOfSession \/ HidReaderOfSession
    \/ SerialScans \/ SerialEnds \/ SerialDelivers
    \/ WriteCommand \/ Written
    \/ ForwardControlError \/ ForwardRealtimeError \/ DrainControlMessages
    \/ TakeMessage \/ TakeError \/ CloseAtWill \/ ClosePort \/ CloseEnds \/ Reopen

-----------------------------------------------------------------------------

\* The CDC reader reports at most one error, and does so when it ends.
SessionTypes ==
    /\ session \in {"open", "locking", "waiting", "closed"}
    /\ serialReader \in {"scan", "deliver", "ended"}
    /\ controlMessages \in 0..QueueCap /\ errors \in 0..QueueCap
    /\ controlErrors \in IF serialReader = "ended" THEN 0..1 ELSE {0}
    /\ portOpen \in BOOLEAN /\ writing \in BOOLEAN /\ forwarding \subseteq Goroutines

(* A command of the program, an event of the device or an error that       *)
(* nobody takes does not keep the lines of the control stream from being   *)
(* read: periodic ready and status lines never stall the device            *)
(* (drainControlMessages, readLoop of serial/reader.go).                   *)
ControlKeepsFlowing ==
    Len(wire["cdc-v2"]) = WireCap ~> (Len(wire["cdc-v2"]) < WireCap \/ session # "open")

(* Close returns, whatever the readers, the forwarding goroutines and a    *)
(* command being written are doing, and both readers end (Close,           *)
(* forwardErrors, Close of both readers).                                  *)
CloseReturns ==
    session \in {"locking", "waiting"} ~>
        (session = "closed" /\ serialReader = "ended" /\ hidReader = "ended")
=============================================================================
