----------------------------- MODULE Transport -----------------------------
(***************************************************************************)
(* The two programs that read the HID reports of a device: the application *)
(* with its composite session, and the capture tool.  They are different   *)
(* executables; a behaviour is of one of them.                             *)
(***************************************************************************)
EXTENDS CompositeSession, HilCapture

VARIABLE program  \* "app" or "hid-capture"

vars == <<program, linkVars, sessionVars, captureVars>>

Init ==
    /\ program \in {"app", "hid-capture"}
    /\ open = [s \in Streams |-> program = "app" \/ s = "hid-v3"]
    /\ LinkInit /\ SessionInit
    /\ IF program = "hid-capture" THEN CaptureInit
       ELSE /\ main = "ended" /\ sendInput = FALSE /\ captured = 0 /\ listening = FALSE
            /\ samples = <<>> /\ observerErr = FALSE
            /\ queue = <<>> /\ flushed = 0 /\ success = FALSE

Next ==
    \/ program = "app" /\ SessionNext /\ UNCHANGED <<program, captureVars>>
    \/ program = "hid-capture" /\ CaptureNext /\ UNCHANGED <<program, sessionVars>>

Spec == Init /\ [][Next]_vars

\* The goroutines of the application run; nothing is assumed of the device,
\* the user or the capture tool.
AppStep(A) == program = "app" /\ A /\ UNCHANGED <<program, captureVars>>

FairSpec ==
    /\ Spec
    /\ WF_vars(AppStep(HidReaderOfSession))
    /\ WF_vars(AppStep(SerialScans \/ SerialEnds \/ SerialDelivers))
    /\ WF_vars(AppStep(Written))
    /\ WF_vars(AppStep(ForwardControlError))
    /\ WF_vars(AppStep(ForwardRealtimeError))
    /\ WF_vars(AppStep(DrainControlMessages))
    /\ WF_vars(AppStep(ClosePort \/ CloseEnds))

(* The channels and what the operating system keeps are within their       *)
(* capacities, each party is at a place of its code, and the capture tool  *)
(* has neither taken nor written more samples than the observer recorded,  *)
(* which are not more than were asked for (readLoop and publishError of    *)
(* hidv3, forwardErrors, ObserveHIDV3, Flush).                             *)
TypeOK ==
    /\ program \in {"app", "hid-capture"}
    /\ LinkTypes /\ SessionTypes /\ CaptureTypes
=============================================================================
