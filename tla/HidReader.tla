----------------------------- MODULE HidReader -----------------------------
(***************************************************************************)
(* The device as the host sees it (MacroPad.ino: a CDC line for control, a *)
(* HID report for input) and the reader of the HID reports (hidv3).  The   *)
(* operating system keeps the reports the reader has not read and drops    *)
(* the oldest one when there is no room; nothing is kept for a reader that *)
(* is not open.  Commands of the keys stand for their resolved action: a   *)
(* "stroke" types at once, a "command" does not.                           *)
(***************************************************************************)
EXTENDS Telemetry, Sequences

CONSTANTS
    WireCap,   \* lines or reports the operating system keeps
    QueueCap,  \* capacity of the channels of the readers (512 and 16)
    Used,      \* numbers the firmware may have used last when we look first
    MaxRestarts, MaxFaults  \* bounds

ASSUME HidReaderAssumption ==
    /\ WireCap \in Nat \ {0} /\ QueueCap \in Nat \ {0}
    /\ Used \subseteq 0..MaxSequence
    /\ MaxRestarts \in Nat /\ MaxFaults \in Nat

Streams == {"cdc-v2", "hid-v3"}

VARIABLES
    plugged,    \* the device is on the bus
    sequence,   \* last number used by the firmware, by stream
    wire,       \* what the device has sent and no reader has read, by stream
    open,       \* a handle is open and its reader not told to stop, by stream
    health,     \* telemetry, by stream
    hidReader,  \* "read", "deliver" or "ended"
    hidPending, \* the event to be delivered
    hidMessages, hidErrors,   \* channels
    boots, sent, faults,      \* history
    heard       \* history, by stream: what is told from the messages themselves

deviceVars == <<plugged, sequence, wire, boots, sent, faults>>
hidVars == <<hidReader, hidPending, hidMessages, hidErrors>>
linkVars == <<deviceVars, hidVars, open, health, heard>>

Messages ==
    [type : {"ready", "status", "error", "stroke", "command", "language"},
     sequence : 1..MaxSequence, index : Nat \ {0}, boot : Nat]

Nothing == [type |-> "none", sequence |-> 0, index |-> 0, boot |-> 0]

Knowledge ==
    [index : Nat, boot : Nat, number : 0..MaxSequence, lost : Int, swallowed : Int,
     restarts : Nat, hidden : Nat, mistaken : Nat, untold : BOOLEAN]

NothingHeard ==
    [index |-> 0, boot |-> 0, number |-> 0, lost |-> 0, swallowed |-> 0,
     restarts |-> 0, hidden |-> 0, mistaken |-> 0, untold |-> FALSE]

LinkInit ==
    /\ plugged = TRUE
    /\ sequence \in [Streams -> Used]
    /\ wire = [s \in Streams |-> <<>>]
    /\ health = [s \in Streams |-> NewStream]
    /\ hidReader = "read" /\ hidPending = Nothing /\ hidMessages = <<>> /\ hidErrors = <<>>
    /\ boots = 0 /\ faults = 0 /\ sent = [s \in Streams |-> 0]
    /\ heard = [s \in Streams |-> NothingHeard]

-----------------------------------------------------------------------------
(* The device.                                                             *)

NextSequence(n) == IF n = MaxSequence THEN 1 ELSE n + 1

\* A message is not taken by the USB stack or not understood by the host.
Fault == faults < MaxFaults /\ faults' = faults + 1

Message(s, type) ==
    [type |-> type, sequence |-> NextSequence(sequence[s]), index |-> sent[s] + 1, boot |-> boots]

Numbered(streams) ==
    /\ sequence' = [s \in Streams |-> IF s \in streams THEN NextSequence(sequence[s]) ELSE sequence[s]]
    /\ sent' = [s \in Streams |-> IF s \in streams THEN sent[s] + 1 ELSE sent[s]]

\* A line of the CDC stream waits for the host to read; nobody reads a closed port.
WithLine(type) ==
    IF open["cdc-v2"] THEN Append(wire["cdc-v2"], Message("cdc-v2", type)) ELSE wire["cdc-v2"]

LineFits == open["cdc-v2"] => Len(wire["cdc-v2"]) < WireCap

SendLine(type) ==
    /\ plugged /\ LineFits /\ Numbered({"cdc-v2"})
    /\ wire' = [wire EXCEPT !["cdc-v2"] = WithLine(type)]
    /\ UNCHANGED <<plugged, boots, faults, open, health, hidVars, heard>>

\* A report is taken by the USB stack, and by the operating system ...
SendReport(type) ==
    /\ plugged /\ Numbered({"hid-v3"})
    /\ LET kept == IF Len(wire["hid-v3"]) = WireCap THEN Tail(wire["hid-v3"]) ELSE wire["hid-v3"]
       IN  wire' = IF open["hid-v3"]
                   THEN [wire EXCEPT !["hid-v3"] = Append(kept, Message("hid-v3", type))]
                   ELSE wire
    /\ UNCHANGED <<plugged, boots, faults, open, health, hidVars, heard>>

\* ... or it is not taken: its number is used up and a line tells so.
SendReportFails ==
    /\ plugged /\ LineFits /\ Numbered(Streams) /\ Fault
    /\ wire' = [wire EXCEPT !["cdc-v2"] = WithLine("error")]
    /\ UNCHANGED <<plugged, boots, open, health, hidVars, heard>>

\* The device is reset or unplugged: what was not read is lost with it.
Unplug ==
    /\ plugged /\ boots < MaxRestarts
    /\ plugged' = FALSE
    /\ wire' = [s \in Streams |-> <<>>]
    /\ UNCHANGED <<sequence, boots, sent, faults, open, health, hidVars, heard>>

Boot ==
    /\ ~plugged
    /\ plugged' = TRUE /\ boots' = boots + 1
    /\ sequence' = [s \in Streams |-> 0]
    /\ UNCHANGED <<wire, sent, faults, open, health, hidVars, heard>>

-----------------------------------------------------------------------------
(* Telemetry, and the truth it is measured against, told from the messages *)
(* themselves.  Of two messages of one boot, those between were lost; two  *)
(* of different boots have a restart between, which a ready with a small   *)
(* number announces.  The restart is hidden when that number is not below  *)
(* the last one; a ready of the same boot that is below it, after the      *)
(* numbers wrapped, is mistaken for one and swallows what was lost before. *)
(* Nothing is told by a restart that was not announced and by the loss of  *)
(* a whole cycle of numbers.                                               *)

Announces(m) == m.type = "ready" /\ m.sequence <= StartupRange

\* What is known of the stream once message m has come after what h knew.
Hear(h, m) ==
    LET again == h.index # 0 /\ h.boot = m.boot
        restarted == h.index # 0 /\ h.boot # m.boot
        back == m.sequence < h.number
        mistaken == again /\ Announces(m) /\ back
        missed == m.index - h.index - 1
    IN [index |-> m.index, boot |-> m.boot, number |-> m.sequence,
        lost |-> h.lost + (IF again THEN missed ELSE 0),
        swallowed |-> h.swallowed + (IF mistaken THEN missed ELSE 0),
        restarts |-> h.restarts + (IF restarted THEN 1 ELSE 0),
        hidden |-> h.hidden + (IF restarted /\ Announces(m) /\ ~back THEN 1 ELSE 0),
        mistaken |-> h.mistaken + (IF mistaken THEN 1 ELSE 0),
        untold |-> h.untold \/ (restarted /\ ~Announces(m)) \/ (again /\ missed + 1 >= MaxSequence)]

Observe(s, m) ==
    /\ health' = [health EXCEPT ![s] = ObserveTransportMessageOn(@, m.sequence, m.type)]
    /\ heard' = [heard EXCEPT ![s] = Hear(@, m)]

-----------------------------------------------------------------------------
(* The HID reader.                                                         *)

\* An error is dropped when nobody takes them.
PublishError(e) ==
    hidErrors' = IF Len(hidErrors) < QueueCap THEN Append(hidErrors, e) ELSE hidErrors

\* The read fails: the handle was closed, or the device is gone.  That closing
\* it ends a read that waits is assumed of the operating system, and the race
\* for the value of the handle is left out.
HidReadFails ==
    /\ hidReader = "read" /\ (~open["hid-v3"] \/ ~plugged)
    /\ hidReader' = "ended"
    /\ IF open["hid-v3"] THEN PublishError("read") ELSE UNCHANGED hidErrors
    /\ UNCHANGED <<deviceVars, open, health, heard, hidPending, hidMessages>>

HidReads ==
    /\ hidReader = "read" /\ open["hid-v3"] /\ wire["hid-v3"] # <<>>
    /\ wire' = [wire EXCEPT !["hid-v3"] = Tail(@)]
    /\ UNCHANGED <<plugged, sequence, boots, sent, open, hidMessages>>

\* The report is not one of the third protocol: the reader goes on.
HidRejects ==
    /\ HidReads /\ PublishError("decode") /\ Fault
    /\ UNCHANGED <<hidReader, hidPending, health, heard>>

HidAccepts ==
    /\ HidReads /\ Observe("hid-v3", Head(wire["hid-v3"]))
    /\ hidPending' = Head(wire["hid-v3"]) /\ hidReader' = "deliver"
    /\ UNCHANGED <<faults, hidErrors>>

\* The observer refuses the report: the reader stops.
HidStops(e) ==
    /\ HidReads /\ PublishError(e)
    /\ hidReader' = "ended"
    /\ UNCHANGED <<faults, hidPending, health, heard>>

HidDelivers ==
    /\ hidReader = "deliver"
    /\ \/ /\ Len(hidMessages) < QueueCap
          /\ hidMessages' = Append(hidMessages, hidPending) /\ hidReader' = "read"
       \/ ~open["hid-v3"] /\ hidReader' = "ended" /\ UNCHANGED hidMessages
    /\ hidPending' = Nothing
    /\ UNCHANGED <<deviceVars, open, health, heard, hidErrors>>

-----------------------------------------------------------------------------

\* The numbers are those of the firmware, and what the operating system and
\* the channels keep is within their capacities.
DeviceTypes ==
    /\ plugged \in BOOLEAN /\ open \in [Streams -> BOOLEAN]
    /\ sequence \in [Streams -> 0..MaxSequence] /\ sent \in [Streams -> Nat]
    /\ boots \in Nat /\ faults \in Nat
    /\ wire \in [Streams -> Seq(Messages)] /\ \A s \in Streams : Len(wire[s]) <= WireCap

HeardTypes ==
    /\ health \in [Streams -> [last : 0..MaxSequence, gaps : Nat, duplicates : Nat, epochs : Nat]]
    /\ heard \in [Streams -> Knowledge]

HidTypes ==
    /\ hidReader \in {"read", "deliver", "ended"}
    /\ hidPending \in IF hidReader = "deliver" THEN Messages ELSE {Nothing}
    /\ hidMessages \in Seq(Messages) /\ Len(hidMessages) <= QueueCap
    /\ hidErrors \in Seq({"read", "decode", "limit", "duplicate"}) /\ Len(hidErrors) <= QueueCap

LinkTypes == DeviceTypes /\ HeardTypes /\ HidTypes

(* As long as every restart between two messages heard was announced by a *)
(* ready near the beginning of its stream, and not as many messages in a   *)
(* row as there are numbers were lost, the host counts as gaps exactly the *)
(* messages lost between two of one boot, but for those before a ready it  *)
(* took for a restart when the numbers wrapped; as epochs exactly the      *)
(* restarts, those included and the hidden ones not; and no duplicate.     *)
(* Each restart hidden because the ready has no smaller number than the    *)
(* last message (ready 1 after ready 1, as in a boot loop) may cost it one *)
(* duplicate or a few gaps that were none                                  *)
(* (ObserveTransportMessageOn, forwardSequenceDistance, nextSequence and   *)
(* nextRealtimeSequence of MacroPad.ino).                                  *)
GapsAreLosses ==
    \A s \in Streams : ~heard[s].untold =>
        LET h == heard[s]
        IN  /\ health[s].epochs = h.restarts - h.hidden + h.mistaken
            /\ health[s].duplicates <= h.hidden
            /\ health[s].gaps - (h.lost - h.swallowed) \in 0..h.hidden * StartupRange
=============================================================================
