----------------------------- MODULE Telemetry -----------------------------
(***************************************************************************)
(* telemetry/health.go: what the host derives from the sequence numbers of *)
(* one stream.  The firmware numbers the messages of a stream from 1 to    *)
(* MaxSequence (2^32 - 1) and skips zero when it wraps; the first protocol *)
(* has no numbers and is left out.                                         *)
(***************************************************************************)
EXTENDS Integers

CONSTANTS
    MaxSequence,
    StartupRange  \* a ready up to this number may begin a new epoch (16)

ASSUME TelemetryAssumption == MaxSequence \in Nat \ {0} /\ StartupRange \in Nat

NewStream == [last |-> 0, gaps |-> 0, duplicates |-> 0, epochs |-> 0]

\* Mutant: zero is counted as a number when the sequence wraps.
ForwardSequenceDistanceOverZero(last, current) ==
    IF current >= last THEN current - last ELSE MaxSequence - last + current + 1

ForwardSequenceDistance(last, current) ==
    IF current >= last THEN current - last ELSE MaxSequence - last + current

NewEpoch(stream, sequence, type) ==
    type = "ready" /\ sequence < stream.last /\ sequence <= StartupRange

ObserveTransportMessageOn(stream, sequence, type) ==
    LET steps == ForwardSequenceDistance(stream.last, sequence)
    IN  CASE stream.last = 0 -> [stream EXCEPT !.last = sequence]
          [] stream.last # 0 /\ NewEpoch(stream, sequence, type) ->
                [stream EXCEPT !.last = sequence, !.epochs = @ + 1]
          [] OTHER ->
                [stream EXCEPT !.last = sequence,
                               !.duplicates = @ + (IF steps = 0 THEN 1 ELSE 0),
                               !.gaps = @ + (IF steps > 1 THEN steps - 1 ELSE 0)]
=============================================================================
