-------------------------- MODULE TransportProofs --------------------------
(***************************************************************************)
(* The types of Transport, the accounting of gaps and the completeness of  *)
(* a capture, for any range of numbers, capacities of the channels, number *)
(* of samples and number of messages, restarts and faults.                 *)
(***************************************************************************)
EXTENDS Transport, SequenceTheorems, FiniteSetTheorems, TLAPS

\* Message j of a stream is known by its number to have come j - i later than
\* message i, unless a whole cycle of numbers lies between them.
Follows(a, i, b, j) == j - i < MaxSequence => ForwardSequenceDistance(a, b) = j - i

\* The last message heard is of the firmware's current count.
Current(s) == heard[s].index > 0 /\ heard[s].boot = boots

\* What the firmware numbers, what is on its way and what was heard last are
\* three places of one count.
Count(s) ==
    /\ ~plugged => wire[s] = <<>>
    /\ heard[s].index <= sent[s] /\ heard[s].boot <= boots
    /\ health[s].last = heard[s].number /\ (health[s].last = 0 <=> heard[s].index = 0)
    /\ Current(s) => Follows(health[s].last, heard[s].index, sequence[s], sent[s])
    /\ Current(s) \/ wire[s] # <<>> => sequence[s] # 0

OnTheWay(s) ==
    \A i \in 1..Len(wire[s]) :
        LET m == wire[s][i]
        IN  /\ m.boot = boots /\ heard[s].index < m.index /\ m.index <= sent[s]
            /\ Follows(m.sequence, m.index, sequence[s], sent[s])
            /\ Current(s) => Follows(health[s].last, heard[s].index, m.sequence, m.index)
            /\ \A j \in i+1..Len(wire[s]) :
                  /\ m.index < wire[s][j].index
                  /\ Follows(m.sequence, m.index, wire[s][j].sequence, wire[s][j].index)

Accounts(s) ==
    LET h == heard[s]
        t == health[s]
    IN  ~h.untold =>
            /\ t.epochs = h.restarts - h.hidden + h.mistaken
            /\ t.duplicates <= h.hidden
            /\ h.lost - h.swallowed <= t.gaps
            /\ t.gaps <= h.lost - h.swallowed + h.hidden * StartupRange

StreamInv(s) == Count(s) /\ OnTheWay(s) /\ Accounts(s)

NumbersInv == \A s \in Streams : StreamInv(s)

-----------------------------------------------------------------------------

InHand == IF hidReader = "deliver" THEN 1 ELSE 0

\* The events the main loop has not taken are the last samples.
SampleOf(e, i) ==
    samples[i].sequence = e.sequence /\ (samples[i].actionable <=> e.type # "language")

Pipeline ==
    /\ captured + Len(hidMessages) + InHand <= Len(samples)
    /\ hidReader # "ended" => captured + Len(hidMessages) + InHand = Len(samples)
    /\ \A j \in 1..Len(hidMessages) : SampleOf(hidMessages[j], captured + j)
    /\ hidReader = "deliver" => SampleOf(hidPending, captured + Len(hidMessages) + 1)

\* Each trace is that of one sample, which types and was not timed yet.
Traces ==
    /\ \A i, j \in 1..Len(samples) : samples[i].sequence = samples[j].sequence => i = j
    /\ \A i \in captured+1..Len(samples) : samples[i].t3 = "none"
    /\ \A i \in 1..Len(samples) : samples[i].t3 # "none" => samples[i].actionable /\ sendInput
    /\ queue # <<>> => sendInput
    /\ \A k \in 1..Len(queue) : \E i \in 1..captured :
          samples[i].sequence = queue[k] /\ samples[i].actionable /\ samples[i].t3 = "none"
    /\ \A k, l \in 1..Len(queue) : queue[k] = queue[l] => k = l

Finish ==
    /\ success =>
         /\ main \in {"unwinding", "ended"}
         /\ flushed = Limit /\ Len(samples) = Limit
         /\ sendInput => \A i \in 1..Len(samples) : samples[i].actionable => samples[i].t3 = "sent"
    /\ main \in {"covering", "checking"} => captured = Limit

CaptureInv ==
    IF program = "app"
    THEN main = "ended" /\ samples = <<>> /\ queue = <<>> /\ captured = 0 /\ ~success
    ELSE Pipeline /\ Traces /\ Finish

-----------------------------------------------------------------------------
(* The numbers of a stream.                                                *)

LEMMA DistanceNext ==
  ASSUME NEW a \in 1..MaxSequence, NEW n \in 1..MaxSequence
  PROVE  /\ ForwardSequenceDistance(a, a) = 0
         /\ ForwardSequenceDistance(a, n) \in Nat
         /\ NextSequence(n) \in 1..MaxSequence
         /\ ForwardSequenceDistance(a, n) + 1 < MaxSequence =>
               ForwardSequenceDistance(a, NextSequence(n)) = ForwardSequenceDistance(a, n) + 1
  BY TelemetryAssumption DEF ForwardSequenceDistance, NextSequence

LEMMA FollowsNext ==
  ASSUME NEW a \in 1..MaxSequence, NEW n \in 1..MaxSequence,
         NEW i \in Nat, NEW j \in Nat, i <= j, Follows(a, i, n, j)
  PROVE  Follows(a, i, NextSequence(n), j + 1)
  BY DistanceNext, TelemetryAssumption DEF Follows

LEMMA FollowsItself ==
  ASSUME NEW a \in 1..MaxSequence, NEW i \in Nat
  PROVE  Follows(a, i, a, i)
  BY DistanceNext DEF Follows

-----------------------------------------------------------------------------
(* What a step does to one stream.                                         *)

\* The first d messages have gone.
Shifts(s, d) ==
    /\ d <= Len(wire[s]) /\ \A i \in 1..(Len(wire[s]) - d) : wire'[s][i] = wire[s][i + d]

Sends(s) ==
    /\ plugged /\ plugged' /\ boots' = boots
    /\ sequence'[s] = NextSequence(sequence[s]) /\ sent'[s] = sent[s] + 1
    /\ health'[s] = health[s] /\ heard'[s] = heard[s]
    /\ \/ wire'[s] = wire[s]
       \/ \E d \in {0, 1}, type \in {"ready", "status", "error", "stroke", "command", "language"} :
             /\ Shifts(s, d) /\ Len(wire'[s]) = Len(wire[s]) - d + 1
             /\ wire'[s][Len(wire'[s])] = Message(s, type)

Counter(s) == <<sequence[s], sent[s]>>

Takes(s) ==
    /\ plugged' = plugged /\ boots' = boots /\ Counter(s)' = Counter(s)
    /\ Shifts(s, 1) /\ Len(wire'[s]) = Len(wire[s]) - 1

Hears(s) ==
    /\ Takes(s)
    /\ health'[s] = ObserveTransportMessageOn(health[s], wire[s][1].sequence, wire[s][1].type)
    /\ heard'[s] = Hear(heard[s], wire[s][1])

Misses(s) == Takes(s) /\ health'[s] = health[s] /\ heard'[s] = heard[s]

Empties(s) ==
    /\ boots' = boots /\ Counter(s)' = Counter(s) /\ wire'[s] = <<>>
    /\ health'[s] = health[s] /\ heard'[s] = heard[s]

Restarts(s) ==
    /\ ~plugged /\ boots' = boots + 1 /\ sequence'[s] = 0 /\ sent'[s] = sent[s]
    /\ wire'[s] = wire[s] /\ health'[s] = health[s] /\ heard'[s] = heard[s]

Rests(s) ==
    /\ plugged' = plugged /\ boots' = boots /\ Counter(s)' = Counter(s) /\ wire'[s] = wire[s]
    /\ health'[s] = health[s] /\ heard'[s] = heard[s]

LEMMA SendsKeeps ==
  ASSUME LinkTypes, LinkTypes', NEW s \in Streams, StreamInv(s), Sends(s)
  PROVE  StreamInv(s)'
  <1> DEFINE n == NextSequence(sequence[s])
  <1>1. /\ sequence[s] \in 0..MaxSequence /\ sent[s] \in Nat /\ boots \in Nat
        /\ health[s].last \in 0..MaxSequence /\ heard[s].index \in Nat /\ heard[s].boot \in Nat
        /\ wire[s] \in Seq(Messages) /\ wire'[s] \in Seq(Messages)
    BY DEF LinkTypes, DeviceTypes, HeardTypes, Knowledge
  <1>2. n \in 1..MaxSequence
    BY <1>1, TelemetryAssumption DEF NextSequence
  <1>3. Accounts(s)' BY DEF StreamInv, Sends, Accounts
  <1>4. Current(s)' <=> Current(s) BY DEF Sends, Current
  <1>5. Current(s) => health[s].last \in 1..MaxSequence /\ sequence[s] \in 1..MaxSequence
    BY <1>1 DEF StreamInv, Count, Current
  <1>6. Current(s) => Follows(health[s].last, heard[s].index, n, sent[s] + 1)
    BY <1>1, <1>5, FollowsNext DEF StreamInv, Count
  <1>7. Count(s)'
    BY <1>1, <1>2, <1>4, <1>6 DEF StreamInv, Sends, Count
  <1>8. ASSUME NEW i \in 1..Len(wire[s])
        PROVE  /\ wire[s][i] \in Messages /\ sequence[s] \in 1..MaxSequence
               /\ wire[s][i].sequence \in 1..MaxSequence /\ wire[s][i].index \in Nat
               /\ wire[s][i].boot = boots /\ heard[s].index < wire[s][i].index
               /\ wire[s][i].index <= sent[s]
               /\ Follows(wire[s][i].sequence, wire[s][i].index, n, sent[s] + 1)
               /\ Current(s) => Follows(health[s].last, heard[s].index, wire[s][i].sequence, wire[s][i].index)
               /\ \A j \in i+1..Len(wire[s]) :
                  /\ wire[s][i].index < wire[s][j].index
                  /\ Follows(wire[s][i].sequence, wire[s][i].index, wire[s][j].sequence, wire[s][j].index)
    <2>1. wire[s][i] \in Messages BY <1>1, ElementOfSeq
    <2>2. sequence[s] \in 1..MaxSequence BY <1>1 DEF StreamInv, Count
    <2>3. wire[s][i].sequence \in 1..MaxSequence /\ wire[s][i].index \in Nat
      BY <2>1 DEF Messages
    <2>4. wire[s][i].index <= sent[s] /\ Follows(wire[s][i].sequence, wire[s][i].index, sequence[s], sent[s])
      BY DEF StreamInv, OnTheWay
    <2>5. Follows(wire[s][i].sequence, wire[s][i].index, n, sent[s] + 1)
      BY <1>1, <2>2, <2>3, <2>4, FollowsNext
    <2> QED BY <2>1, <2>2, <2>3, <2>4, <2>5 DEF StreamInv, OnTheWay
  <1>9. CASE wire'[s] = wire[s]
    <2>1. OnTheWay(s)' BY <1>1, <1>4, <1>8, <1>9 DEF OnTheWay, Sends
    <2> QED BY <1>3, <1>7, <2>1 DEF StreamInv
  <1>10. ASSUME NEW d \in {0, 1}, NEW type \in {"ready", "status", "error", "stroke", "command", "language"},
                Shifts(s, d), Len(wire'[s]) = Len(wire[s]) - d + 1,
                wire'[s][Len(wire'[s])] = Message(s, type)
         PROVE  StreamInv(s)'
    <2> DEFINE w == wire'[s]
               k == Len(w)
    <2>1. k \in Nat /\ Len(wire[s]) \in Nat BY <1>1, LenProperties
    <2>2. w[k].sequence = n /\ w[k].index = sent[s] + 1 /\ w[k].boot = boots
      BY <1>10 DEF Message
    <2>3. \A i \in 1..(k - 1) : i + d \in 1..Len(wire[s]) /\ w[i] = wire[s][i + d]
      BY <1>10, <2>1 DEF Shifts
    <2>4. ASSUME NEW i \in 1..k
          PROVE  /\ w[i].boot = boots /\ heard[s].index < w[i].index /\ w[i].index <= sent[s] + 1
                 /\ Follows(w[i].sequence, w[i].index, n, sent[s] + 1)
                 /\ Current(s) => Follows(health[s].last, heard[s].index, w[i].sequence, w[i].index)
                 /\ \A j \in i+1..k :
                      /\ w[i].index < w[j].index
                      /\ Follows(w[i].sequence, w[i].index, w[j].sequence, w[j].index)
      <3>1. CASE i = k
        <4>1. heard[s].index <= sent[s] BY DEF StreamInv, Count
        <4>2. \A j \in i+1..k : FALSE BY <3>1, <2>1
        <4> QED BY <1>1, <1>2, <1>6, <2>2, <3>1, <4>1, <4>2, FollowsItself
      <3>2. CASE i # k
        <4>1. i \in 1..(k - 1) BY <2>1, <3>2
        <4>2. w[i] = wire[s][i + d] /\ i + d \in 1..Len(wire[s]) BY <2>3, <4>1
        <4>3. ASSUME NEW j \in i+1..k
              PROVE  /\ w[i].index < w[j].index
                     /\ Follows(w[i].sequence, w[i].index, w[j].sequence, w[j].index)
          <5>1. CASE j = k
            <6>1. /\ wire[s][i + d].index <= sent[s] /\ wire[s][i + d].index \in Nat
                  /\ Follows(wire[s][i + d].sequence, wire[s][i + d].index, n, sent[s] + 1)
              BY <1>8, <4>2
            <6>2. w[j].sequence = n /\ w[j].index = sent[s] + 1 BY <2>2, <5>1
            <6>3. wire[s][i + d].index < sent[s] + 1 BY <1>1, <6>1
            <6>4. w[i].index < w[j].index BY <4>2, <6>2, <6>3, Zenon
            <6> QED BY <4>2, <6>1, <6>2, <6>4, Zenon
          <5>2. CASE j # k
            <6>1. j \in 1..(k - 1) /\ j + d \in (i + d)+1..Len(wire[s]) BY <1>10, <2>1, <5>2, <4>1
            <6> QED BY <1>8, <2>3, <4>2, <6>1
          <5> QED BY <5>1, <5>2
        <4>4. /\ w[i].boot = boots /\ heard[s].index < w[i].index
              /\ w[i].index <= sent[s] /\ w[i].index \in Nat
              /\ Follows(w[i].sequence, w[i].index, n, sent[s] + 1)
              /\ Current(s) => Follows(health[s].last, heard[s].index, w[i].sequence, w[i].index)
          BY <1>8, <4>2
        <4>5. w[i].index <= sent[s] + 1 BY <1>1, <4>4
        <4> QED BY <4>3, <4>4, <4>5
      <3> QED BY <3>1, <3>2
    <2>5. sequence'[s] = n /\ sent'[s] = sent[s] + 1 /\ boots' = boots
          /\ health'[s] = health[s] /\ heard'[s] = heard[s]
      BY DEF Sends
    <2>6. OnTheWay(s)' BY <1>4, <2>4, <2>5 DEF OnTheWay
    <2> QED BY <1>3, <1>7, <2>6 DEF StreamInv
  <1> QED BY <1>9, <1>10 DEF Sends

LEMMA MissesKeeps ==
  ASSUME LinkTypes, LinkTypes', NEW s \in Streams, StreamInv(s), Misses(s)
  PROVE  StreamInv(s)'
  <1>1. wire[s] \in Seq(Messages) /\ wire'[s] \in Seq(Messages) BY DEF LinkTypes, DeviceTypes
  <1>2. Len(wire[s]) \in Nat /\ Len(wire'[s]) \in Nat BY <1>1, LenProperties
  <1>3. \A i \in 1..Len(wire'[s]) : i + 1 \in 1..Len(wire[s]) /\ wire'[s][i] = wire[s][i + 1]
    BY <1>2 DEF Misses, Takes, Shifts
  <1>4. /\ sequence'[s] = sequence[s] /\ sent'[s] = sent[s] /\ boots' = boots /\ plugged' = plugged
        /\ health'[s] = health[s] /\ heard'[s] = heard[s] /\ wire[s] # <<>>
    BY <1>1, <1>2, EmptySeq DEF Misses, Takes, Shifts, Counter
  <1>5. Accounts(s)' BY <1>4 DEF StreamInv, Accounts
  <1>6. Current(s)' <=> Current(s) BY <1>4 DEF Current
  <1>7. Count(s)' BY <1>4, <1>6 DEF StreamInv, Count
  <1>8. OnTheWay(s)'
    <2>1. ASSUME NEW i \in 1..Len(wire'[s]), NEW j \in i+1..Len(wire'[s])
          PROVE  j + 1 \in (i + 1)+1..Len(wire[s]) /\ wire'[s][j] = wire[s][j + 1]
      BY <1>2, <1>3
    <2> QED BY <1>3, <1>4, <1>6, <2>1 DEF StreamInv, OnTheWay
  <1> QED BY <1>5, <1>7, <1>8 DEF StreamInv

LEMMA EmptiesKeeps ==
  ASSUME NEW s \in Streams, StreamInv(s), Empties(s) \/ Rests(s)
  PROVE  StreamInv(s)'
  <1>1. CASE Empties(s)
    <2>1. Len(wire'[s]) = 0 BY <1>1, EmptySeq DEF Empties
    <2>2. OnTheWay(s)' BY <2>1 DEF OnTheWay
    <2> QED BY <1>1, <2>2 DEF StreamInv, Empties, Count, Accounts, Current, Counter
  <1>2. CASE Rests(s)
    BY <1>2 DEF StreamInv, Rests, Count, OnTheWay, Accounts, Current, Counter
  <1> QED BY <1>1, <1>2

LEMMA RestartsKeeps ==
  ASSUME LinkTypes, NEW s \in Streams, StreamInv(s), Restarts(s)
  PROVE  StreamInv(s)'
  <1>1. wire'[s] = <<>> /\ Len(wire'[s]) = 0 BY EmptySeq DEF StreamInv, Count, Restarts
  <1>2. OnTheWay(s)' BY <1>1 DEF OnTheWay
  <1>3. heard[s].boot \in Nat /\ boots \in Nat BY DEF LinkTypes, DeviceTypes, HeardTypes, Knowledge
  <1>4. ~Current(s)' BY <1>3 DEF StreamInv, Count, Restarts, Current
  <1> QED BY <1>1, <1>2, <1>3, <1>4 DEF StreamInv, Restarts, Count, Accounts

LEMMA HearsKeeps ==
  ASSUME LinkTypes, LinkTypes', NEW s \in Streams, StreamInv(s), Hears(s)
  PROVE  StreamInv(s)'
  <1> DEFINE m == wire[s][1]
             h == heard[s]
             t == health[s]
             steps == ForwardSequenceDistance(t.last, m.sequence)
             again == h.index # 0 /\ h.boot = m.boot
             restarted == h.index # 0 /\ h.boot # m.boot
             back == m.sequence < h.number
             missed == m.index - h.index - 1
             mistaken == again /\ Announces(m) /\ back
  <1>1. wire[s] \in Seq(Messages) /\ wire'[s] \in Seq(Messages) BY DEF LinkTypes, DeviceTypes
  <1>2. Len(wire[s]) \in Nat /\ Len(wire'[s]) \in Nat BY <1>1, LenProperties
  <1>3. /\ 1 \in 1..Len(wire[s]) /\ wire[s] # <<>>
        /\ \A i \in 1..Len(wire'[s]) : i + 1 \in 2..Len(wire[s]) /\ wire'[s][i] = wire[s][i + 1]
    BY <1>1, <1>2, EmptySeq DEF Hears, Takes, Shifts
  <1>4. m.sequence \in 1..MaxSequence /\ m.index \in Nat /\ m.boot \in Nat
    <2>1. m \in Messages BY <1>1, <1>3, ElementOfSeq
    <2> QED BY <2>1 DEF Messages
  <1>5. /\ sequence'[s] = sequence[s] /\ sent'[s] = sent[s] /\ boots' = boots /\ plugged' = plugged
    BY DEF Hears, Takes, Counter
  <1>6. /\ sequence[s] \in 0..MaxSequence /\ sent[s] \in Nat /\ boots \in Nat
        /\ t \in [last : 0..MaxSequence, gaps : Nat, duplicates : Nat, epochs : Nat]
        /\ h \in Knowledge /\ h.index \in Nat /\ h.boot \in Nat
    BY DEF LinkTypes, DeviceTypes, HeardTypes, Knowledge
  <1>7. /\ m.boot = boots /\ h.index < m.index /\ m.index <= sent[s]
        /\ Follows(m.sequence, m.index, sequence[s], sent[s])
        /\ Current(s) => Follows(t.last, h.index, m.sequence, m.index)
        /\ \A j \in 2..Len(wire[s]) :
              /\ m.index < wire[s][j].index
              /\ Follows(m.sequence, m.index, wire[s][j].sequence, wire[s][j].index)
    BY <1>3 DEF StreamInv, OnTheWay
  <1>8. /\ health'[s] = ObserveTransportMessageOn(t, m.sequence, m.type)
        /\ heard'[s].index = m.index /\ heard'[s].boot = m.boot /\ heard'[s].number = m.sequence
        /\ heard'[s].lost = h.lost + (IF again THEN missed ELSE 0)
        /\ heard'[s].swallowed = h.swallowed + (IF mistaken THEN missed ELSE 0)
        /\ heard'[s].restarts = h.restarts + (IF restarted THEN 1 ELSE 0)
        /\ heard'[s].hidden = h.hidden + (IF restarted /\ Announces(m) /\ ~back THEN 1 ELSE 0)
        /\ heard'[s].mistaken = h.mistaken + (IF mistaken THEN 1 ELSE 0)
        /\ heard'[s].untold = (\/ h.untold \/ (restarted /\ ~Announces(m))
                               \/ (again /\ missed + 1 >= MaxSequence))
    <2>1. health'[s] = ObserveTransportMessageOn(t, m.sequence, m.type) /\ heard'[s] = Hear(h, m)
      BY DEF Hears
    <2> DEFINE k == Hear(h, m)
    <2>2. /\ k.index = m.index /\ k.boot = m.boot /\ k.number = m.sequence
          /\ k.lost = h.lost + (IF again THEN missed ELSE 0)
          /\ k.swallowed = h.swallowed + (IF mistaken THEN missed ELSE 0)
          /\ k.restarts = h.restarts + (IF restarted THEN 1 ELSE 0)
          /\ k.hidden = h.hidden + (IF restarted /\ Announces(m) /\ ~back THEN 1 ELSE 0)
          /\ k.mistaken = h.mistaken + (IF mistaken THEN 1 ELSE 0)
          /\ k.untold = (\/ h.untold \/ (restarted /\ ~Announces(m))
                         \/ (again /\ missed + 1 >= MaxSequence))
      <3> HIDE DEF h, m
      <3> QED BY DEF Hear
    <2>3. heard'[s] = k BY <2>1
    <2> HIDE DEF k, h, m, again, restarted, mistaken, missed, back
    <2> QED BY <2>1, <2>2, <2>3
  <1>9. /\ health'[s].last = m.sequence
        /\ health'[s].epochs = t.epochs + (IF t.last # 0 /\ NewEpoch(t, m.sequence, m.type) THEN 1 ELSE 0)
        /\ health'[s].duplicates = t.duplicates +
              (IF t.last # 0 /\ ~NewEpoch(t, m.sequence, m.type) /\ steps = 0 THEN 1 ELSE 0)
        /\ health'[s].gaps = t.gaps +
              (IF t.last # 0 /\ ~NewEpoch(t, m.sequence, m.type) /\ steps > 1 THEN steps - 1 ELSE 0)
    BY <1>6, <1>8 DEF ObserveTransportMessageOn
  <1>10. (t.last = 0 <=> h.index = 0) /\ h.number = t.last BY DEF StreamInv, Count
  <1>11. Count(s)' /\ Current(s)'
    <2>1. Current(s)' BY <1>4, <1>5, <1>7, <1>8, <1>6 DEF Current
    <2>2. sequence[s] # 0 /\ ~(~plugged) BY <1>3 DEF StreamInv, Count
    <2> QED BY <1>4, <1>5, <1>6, <1>7, <1>8, <1>9, <2>1, <2>2 DEF Count
  <1>12. OnTheWay(s)'
    <2>1. ASSUME NEW i \in 1..Len(wire'[s])
          PROVE  /\ wire'[s][i].boot = boots /\ m.index < wire'[s][i].index /\ wire'[s][i].index <= sent[s]
                 /\ Follows(wire'[s][i].sequence, wire'[s][i].index, sequence[s], sent[s])
                 /\ Follows(m.sequence, m.index, wire'[s][i].sequence, wire'[s][i].index)
      BY <1>2, <1>3, <1>7 DEF StreamInv, OnTheWay
    <2>2. ASSUME NEW i \in 1..Len(wire'[s]), NEW j \in i+1..Len(wire'[s])
          PROVE  /\ wire'[s][i].index < wire'[s][j].index
                 /\ Follows(wire'[s][i].sequence, wire'[s][i].index, wire'[s][j].sequence, wire'[s][j].index)
      <3>1. i + 1 \in 1..Len(wire[s]) /\ j + 1 \in (i + 1)+1..Len(wire[s])
            /\ wire'[s][j] = wire[s][j + 1] /\ wire'[s][i] = wire[s][i + 1]
        BY <1>2, <1>3
      <3> QED BY <3>1 DEF StreamInv, OnTheWay
    <2> QED BY <1>5, <1>8, <1>9, <2>1, <2>2 DEF OnTheWay
  <1>13. Accounts(s)'
    <2> DEFINE c == StartupRange
               g == heard'[s]
               u == health'[s]
    <2> SUFFICES ASSUME ~g.untold
                 PROVE  /\ u.epochs = g.restarts - g.hidden + g.mistaken
                        /\ u.duplicates <= g.hidden
                        /\ g.lost - g.swallowed <= u.gaps
                        /\ u.gaps <= g.lost - g.swallowed + g.hidden * c
      BY DEF Accounts
    <2>1. ~h.untold /\ (restarted => Announces(m)) /\ (again => missed + 1 < MaxSequence)
      BY <1>4, <1>6, <1>8, TelemetryAssumption DEF Knowledge
    <2>2. /\ t.epochs = h.restarts - h.hidden + h.mistaken
          /\ t.duplicates <= h.hidden
          /\ h.lost - h.swallowed <= t.gaps
          /\ t.gaps <= h.lost - h.swallowed + h.hidden * c
      BY <2>1 DEF StreamInv, Accounts
    <2>0. t.epochs = h.restarts - h.hidden + h.mistaken BY <2>2
    <2>3. /\ t.epochs \in Nat /\ t.duplicates \in Nat /\ t.gaps \in Nat /\ t.last \in Nat
          /\ h.lost \in Int /\ h.swallowed \in Int /\ h.restarts \in Nat /\ h.hidden \in Nat
          /\ h.mistaken \in Nat /\ c \in Nat /\ h.index \in Nat
      BY <1>6, TelemetryAssumption DEF Knowledge
    <2>4. NewEpoch(t, m.sequence, m.type) <=> Announces(m) /\ back
      BY <1>10 DEF NewEpoch, Announces
    <2>5. CASE h.index = 0
      <3>1. u.epochs = t.epochs /\ u.duplicates = t.duplicates /\ u.gaps = t.gaps
        BY <1>9, <1>10, <2>3, <2>5
      <3>2. /\ g.lost = h.lost /\ g.swallowed = h.swallowed /\ g.restarts = h.restarts
            /\ g.hidden = h.hidden /\ g.mistaken = h.mistaken
        BY <1>8, <2>3, <2>5
      <3> QED BY <2>2, <3>1, <3>2
    <2>6. CASE again
      <3>1. steps = missed + 1 /\ missed \in Nat
        <4>1. Current(s) BY <1>6, <1>7, <2>3, <2>6 DEF Current
        <4>2. m.index - h.index < MaxSequence /\ missed \in Nat BY <1>4, <1>7, <2>1, <2>3, <2>6
        <4>3. steps = m.index - h.index BY <1>7, <4>1, <4>2 DEF Follows
        <4> QED BY <1>4, <2>3, <4>2, <4>3
      <3>2. g.restarts = h.restarts /\ g.hidden = h.hidden /\ g.lost = h.lost + missed
        BY <1>8, <2>3, <2>6
      <3>3. CASE mistaken
        <4>1. u.epochs = t.epochs + 1 /\ u.duplicates = t.duplicates /\ u.gaps = t.gaps
          BY <1>9, <1>10, <2>3, <2>4, <2>6, <3>3
        <4>2. g.mistaken = h.mistaken + 1 /\ g.swallowed = h.swallowed + missed
          BY <1>8, <3>3
        <4>3. g.lost - g.swallowed = h.lost - h.swallowed
          BY <2>3, <3>1, <3>2, <4>2
        <4>4. u.epochs = g.restarts - g.hidden + g.mistaken BY <2>0, <2>3, <3>2, <4>1, <4>2
        <4> QED BY <2>2, <3>2, <4>1, <4>3, <4>4
      <3>4. CASE ~mistaken
        <4>1. u.epochs = t.epochs /\ u.duplicates = t.duplicates /\ u.gaps = t.gaps + missed
          BY <1>9, <1>10, <2>3, <2>4, <2>6, <3>1, <3>4
        <4>2. g.mistaken = h.mistaken /\ g.swallowed = h.swallowed
          BY <1>8, <2>3, <3>4
        <4> QED BY <2>2, <2>3, <3>1, <3>2, <4>1, <4>2
      <3> QED BY <3>3, <3>4
    <2>7. CASE restarted
      <3>1. /\ g.lost = h.lost /\ g.swallowed = h.swallowed /\ g.mistaken = h.mistaken
            /\ g.restarts = h.restarts + 1
        BY <1>8, <2>3, <2>7
      <3>2. CASE back
        <4>1. u.epochs = t.epochs + 1 /\ u.duplicates = t.duplicates /\ u.gaps = t.gaps
          BY <1>9, <1>10, <2>1, <2>3, <2>4, <2>7, <3>2
        <4>2. g.hidden = h.hidden BY <1>8, <2>3, <3>2
        <4> QED BY <2>2, <2>3, <3>1, <4>1, <4>2
      <3>3. CASE ~back
        <4>1. /\ u.epochs = t.epochs
              /\ u.duplicates = t.duplicates + (IF steps = 0 THEN 1 ELSE 0)
              /\ u.gaps = t.gaps + (IF steps > 1 THEN steps - 1 ELSE 0)
          BY <1>9, <1>10, <2>3, <2>4, <2>7, <3>3
        <4>2. g.hidden = h.hidden + 1 BY <1>8, <2>1, <2>7, <3>3
        <4>3. steps \in 0..c
          BY <1>4, <1>10, <2>1, <2>3, <2>7, <3>3 DEF Announces, ForwardSequenceDistance
        <4>4. u.duplicates <= t.duplicates + 1 /\ t.gaps <= u.gaps /\ u.gaps <= t.gaps + c
          BY <2>3, <4>1, <4>3
        <4>5. (h.hidden + 1) * c = h.hidden * c + c BY <2>3
        <4>6. u.duplicates <= g.hidden BY <2>2, <2>3, <4>1, <4>2, <4>4
        <4>7. u.gaps <= g.lost - g.swallowed + g.hidden * c
          <5> DEFINE x == h.hidden * c
          <5>1. x \in Nat BY <2>3
          <5>2. g.hidden * c = x + c BY <4>2, <4>5
          <5>3. t.gaps <= h.lost - h.swallowed + x BY <2>2
          <5>4. u.gaps \in Int BY <2>3, <4>1, <4>3
          <5>5. u.gaps <= h.lost - h.swallowed + (x + c)
            <6> HIDE DEF x, c, u
            <6> QED BY <2>3, <4>4, <5>1, <5>3, <5>4
          <5> QED BY <3>1, <5>2, <5>5
        <4>8. g.lost - g.swallowed <= u.gaps BY <2>2, <2>3, <3>1, <4>1, <4>3
        <4>9. u.epochs = g.restarts - g.hidden + g.mistaken
          <5>1. u.epochs = t.epochs /\ g.restarts = h.restarts + 1 /\ g.mistaken = h.mistaken
            BY <3>1, <4>1
          <5> DEFINE r == h.restarts
                     d == h.hidden
                     n == h.mistaken
          <5>2. ((r + 1) - (d + 1)) + n = r - d + n
            <6>1. r \in Int /\ d \in Int /\ n \in Int BY <2>3
            <6> HIDE DEF r, d, n
            <6> QED BY <6>1
          <5>3. g.restarts - g.hidden + g.mistaken = ((r + 1) - (d + 1)) + n BY <4>2, <5>1
          <5> HIDE DEF g, h, t, u
          <5> QED BY <2>0, <5>1, <5>2, <5>3
        <4> QED BY <4>6, <4>7, <4>8, <4>9
      <3> QED BY <3>2, <3>3
    <2> QED BY <2>5, <2>6, <2>7
  <1> QED BY <1>11, <1>12, <1>13 DEF StreamInv

-----------------------------------------------------------------------------
(* What a step does to the link.                                           *)

\* A message of s leaves the wire; it is observed, or nobody hears of it.
LineTaken(s) ==
    /\ wire[s] # <<>> /\ wire' = [wire EXCEPT ![s] = Tail(@)]
    /\ Observe(s, Head(wire[s])) \/ UNCHANGED <<health, heard>>
    /\ UNCHANGED <<plugged, sequence, boots, sent, open>>
    /\ faults' \in {faults, faults + 1}

ScansLine == LineTaken("cdc-v2") /\ UNCHANGED hidVars

ReadsReport ==
    /\ LineTaken("hid-v3") /\ hidReader = "read"
    /\ hidMessages' = hidMessages
    /\ \/ hidReader' = "deliver" /\ hidPending' = Head(wire["hid-v3"]) /\ UNCHANGED hidErrors
       \/ /\ hidReader' \in {"read", "ended"} /\ UNCHANGED hidPending
          /\ \E e \in {"decode", "limit", "duplicate"} : PublishError(e)

\* Somebody takes from a channel, or closes the readers.
Handled ==
    /\ UNCHANGED <<deviceVars, health, heard, hidReader, hidPending>>
    /\ open' = open \/ \E t \in SUBSET Streams : open' = [s \in Streams |-> s \notin t /\ open[s]]
    /\ hidMessages' = hidMessages \/ (hidMessages # <<>> /\ hidMessages' = Tail(hidMessages))
    /\ hidErrors' = hidErrors \/ (hidErrors # <<>> /\ hidErrors' = Tail(hidErrors))

LinkStep ==
    \/ \E type \in {"ready", "status"} : SendLine(type)
    \/ \E type \in {"stroke", "command", "language"} : SendReport(type)
    \/ SendReportFails \/ Unplug \/ Boot \/ HidReadFails \/ HidDelivers
    \/ ScansLine \/ ReadsReport \/ Reopen \/ Handled

LEMMA SessionLinkStep ==
  ASSUME LinkTypes, SessionNext
  PROVE  LinkStep
  <1> USE DEF LinkStep
  <1>1. CASE DeviceOfSession BY <1>1 DEF DeviceOfSession
  <1>2. CASE HidReaderOfSession
    <2>1. CASE HidRejects
      BY <2>1 DEF HidRejects, HidReads, Fault, ReadsReport, LineTaken
    <2>2. CASE HidAccepts
      BY <2>2 DEF HidAccepts, HidReads, ReadsReport, LineTaken
    <2> QED BY <1>2, <2>1, <2>2 DEF HidReaderOfSession
  <1>3. CASE SerialScans
    BY <1>3 DEF SerialScans, ScansLine, LineTaken, Fault, hidVars
  <1>4. CASE Reopen BY <1>4
  <1>5. CASE ForwardRealtimeError \/ TakeMessage
    BY <1>5 DEF ForwardRealtimeError, TakeMessage, Handled
  <1>6. CASE TakeError \/ CloseAtWill
    <2>1. open' = [s \in Streams |-> s \notin Streams /\ open[s]]
      BY <1>6 DEF TakeError, CloseAtWill, Closing
    <2> QED BY <1>6, <2>1 DEF TakeError, CloseAtWill, Closing, Handled, hidVars
  <1>7. CASE UNCHANGED linkVars
    BY <1>7 DEF Handled, linkVars, hidVars
  <1>8. CASE \/ SerialEnds \/ SerialDelivers \/ WriteCommand \/ Written
             \/ ForwardControlError \/ DrainControlMessages \/ ClosePort \/ CloseEnds
    BY <1>7, <1>8 DEF SerialEnds, SerialDelivers, WriteCommand, Written, ForwardControlError,
                      DrainControlMessages, ClosePort, CloseEnds
  <1> QED BY <1>1, <1>2, <1>3, <1>4, <1>5, <1>6, <1>8 DEF SessionNext

LEMMA CaptureLinkStep ==
  ASSUME LinkTypes, CaptureNext
  PROVE  LinkStep
  <1> USE DEF LinkStep
  <1>1. CASE DeviceOfCapture BY <1>1 DEF DeviceOfCapture
  <1>2. CASE HidReaderOfCapture
    <2>1. CASE HidRejects
      BY <2>1 DEF HidRejects, HidReads, Fault, ReadsReport, LineTaken
    <2>2. CASE HidAccepts
      BY <2>2 DEF HidAccepts, HidReads, ReadsReport, LineTaken
    <2>3. ASSUME NEW e \in {"limit", "duplicate"}, HidStops(e) PROVE LinkStep
      BY <2>3 DEF HidStops, HidReads, ReadsReport, LineTaken
    <2> QED BY <1>2, <2>1, <2>2, <2>3 DEF HidReaderOfCapture, ObserveHIDV3, ErrCaptureLimitReached, DuplicateSequence
  <1>3. CASE TakeReadError \/ TakeEvent
    BY <1>3 DEF TakeReadError, TakeEvent, Handled
  <1>4. CASE CapturedAll \/ Unwind
    <2>1. open' = [s \in Streams |-> s \notin {"hid-v3"} /\ open[s]]
      BY <1>4 DEF CapturedAll, Unwind, LinkTypes, DeviceTypes, Streams
    <2>2. {"hid-v3"} \in SUBSET Streams BY DEF Streams
    <2> QED BY <1>4, <2>1, <2>2 DEF CapturedAll, Unwind, Handled, hidVars
  <1>5. CASE UNCHANGED linkVars
    BY <1>5 DEF Handled, linkVars, hidVars
  <1>6. CASE Worker \/ Interrupt \/ StreamClosed \/ WaitForHostCoverage \/ Check
    BY <1>5, <1>6 DEF Worker, Interrupt, StreamClosed, WaitForHostCoverage, Check
  <1> QED BY <1>1, <1>2, <1>3, <1>4, <1>6 DEF CaptureNext

LEMMA LinkSteps ==
  ASSUME LinkTypes, [Next]_vars
  PROVE  LinkStep
  <1>1. CASE Next BY <1>1, SessionLinkStep, CaptureLinkStep DEF Next
  <1>2. CASE UNCHANGED vars BY <1>2 DEF vars, linkVars, hidVars, LinkStep, Handled
  <1> QED BY <1>1, <1>2

-----------------------------------------------------------------------------
(* The types of the link.                                                  *)

LEMMA StreamsAre == "cdc-v2" \in Streams /\ "hid-v3" \in Streams
  BY DEF Streams

LEMMA MessageType ==
  ASSUME LinkTypes, NEW s \in Streams,
         NEW type \in {"ready", "status", "error", "stroke", "command", "language"}
  PROVE  Message(s, type) \in Messages
  <1>1. sequence[s] \in 0..MaxSequence /\ sent[s] \in Nat /\ boots \in Nat
    BY DEF LinkTypes, DeviceTypes
  <1>2. NextSequence(sequence[s]) \in 1..MaxSequence
    BY <1>1, TelemetryAssumption DEF NextSequence
  <1> QED BY <1>1, <1>2 DEF Message, Messages

LEMMA NumberedTypes ==
  ASSUME LinkTypes, NEW streams \in SUBSET Streams, Numbered(streams)
  PROVE  sequence' \in [Streams -> 0..MaxSequence] /\ sent' \in [Streams -> Nat]
  <1>1. \A s \in Streams : NextSequence(sequence[s]) \in 0..MaxSequence /\ sequence[s] \in 0..MaxSequence
    BY TelemetryAssumption DEF NextSequence, LinkTypes, DeviceTypes
  <1>2. \A s \in Streams : sent[s] \in Nat BY DEF LinkTypes, DeviceTypes
  <1> QED BY <1>1, <1>2 DEF Numbered

LEMMA WireAppend ==
  ASSUME LinkTypes, NEW s \in Streams, Len(wire[s]) < WireCap, NEW m \in Messages
  PROVE  /\ Append(wire[s], m) \in Seq(Messages) /\ Len(Append(wire[s], m)) <= WireCap
         /\ Len(Append(wire[s], m)) = Len(wire[s]) + 1
         /\ Append(wire[s], m)[Len(wire[s]) + 1] = m
         /\ \A i \in 1..Len(wire[s]) : Append(wire[s], m)[i] = wire[s][i]
  <1>1. wire[s] \in Seq(Messages) BY DEF LinkTypes, DeviceTypes
  <1>2. Len(wire[s]) \in Nat BY <1>1, LenProperties
  <1>3. /\ Append(wire[s], m) \in Seq(Messages)
        /\ Len(Append(wire[s], m)) = Len(wire[s]) + 1
        /\ \A i \in 1..Len(wire[s]) : Append(wire[s], m)[i] = wire[s][i]
        /\ Append(wire[s], m)[Len(wire[s]) + 1] = m
    BY <1>1, AppendProperties
  <1> QED BY <1>2, <1>3, HidReaderAssumption

LEMMA WireTail ==
  ASSUME LinkTypes, NEW s \in Streams, wire[s] # <<>>
  PROVE  /\ Tail(wire[s]) \in Seq(Messages) /\ Len(Tail(wire[s])) <= WireCap - 1
         /\ Len(wire[s]) \in Nat /\ Len(wire[s]) >= 1
         /\ Len(Tail(wire[s])) = Len(wire[s]) - 1
         /\ \A i \in 1..(Len(wire[s]) - 1) : Tail(wire[s])[i] = wire[s][i + 1]
         /\ Head(wire[s]) = wire[s][1] /\ Head(wire[s]) \in Messages
  <1>1. wire[s] \in Seq(Messages) /\ Len(wire[s]) <= WireCap BY DEF LinkTypes, DeviceTypes
  <1>2. Len(wire[s]) \in Nat \ {0} BY <1>1, EmptySeq
  <1>3. /\ Head(wire[s]) \in Messages /\ Tail(wire[s]) \in Seq(Messages)
        /\ Len(Tail(wire[s])) = Len(wire[s]) - 1
        /\ \A i \in 1..Len(Tail(wire[s])) : Tail(wire[s])[i] = wire[s][i + 1]
    BY <1>1, HeadTailProperties
  <1>4. Head(wire[s]) = wire[s][1] BY <1>1
  <1> QED BY <1>1, <1>2, <1>3, <1>4, HidReaderAssumption

LEMMA WireTypes ==
  ASSUME LinkTypes, NEW s \in Streams, NEW w \in Seq(Messages), Len(w) <= WireCap,
         wire' = [wire EXCEPT ![s] = w]
  PROVE  /\ wire' \in [Streams -> Seq(Messages)] /\ \A t \in Streams : Len(wire'[t]) <= WireCap
         /\ wire'[s] = w /\ \A t \in Streams \ {s} : wire'[t] = wire[t]
  BY DEF LinkTypes, DeviceTypes

LEMMA NothingOnTheWire ==
  ASSUME wire' = [s \in Streams |-> <<>>]
  PROVE  wire' \in [Streams -> Seq(Messages)] /\ \A s \in Streams : Len(wire'[s]) <= WireCap
  BY EmptySeq, HidReaderAssumption

\* What the firmware sends is appended, or nobody reads it.
LEMMA SendLineIs ==
  ASSUME LinkTypes, LineFits,
         NEW type \in {"ready", "status", "error"},
         wire' = [wire EXCEPT !["cdc-v2"] = WithLine(type)]
  PROVE  /\ wire' \in [Streams -> Seq(Messages)] /\ \A t \in Streams : Len(wire'[t]) <= WireCap
         /\ wire'["hid-v3"] = wire["hid-v3"]
         /\ \/ wire'["cdc-v2"] = wire["cdc-v2"]
            \/ /\ Shifts("cdc-v2", 0) /\ Len(wire'["cdc-v2"]) = Len(wire["cdc-v2"]) - 0 + 1
               /\ wire'["cdc-v2"][Len(wire'["cdc-v2"])] = Message("cdc-v2", type)
  <1> DEFINE m == Message("cdc-v2", type)
  <1>1. m \in Messages BY MessageType, StreamsAre
  <1>2. CASE ~open["cdc-v2"]
    <2>1. WithLine(type) = wire["cdc-v2"] BY <1>2 DEF WithLine
    <2>2. wire["cdc-v2"] \in Seq(Messages) /\ Len(wire["cdc-v2"]) <= WireCap
      BY StreamsAre DEF LinkTypes, DeviceTypes
    <2> QED BY <2>1, <2>2, StreamsAre, WireTypes DEF Streams
  <1>3. CASE open["cdc-v2"]
    <2> DEFINE a == Append(wire["cdc-v2"], m)
    <2>1. WithLine(type) = a /\ Len(wire["cdc-v2"]) < WireCap BY <1>3 DEF WithLine, LineFits
    <2>2. /\ a \in Seq(Messages) /\ Len(a) <= WireCap
          /\ Len(a) = Len(wire["cdc-v2"]) + 1 /\ a[Len(wire["cdc-v2"]) + 1] = m
          /\ \A i \in 1..Len(wire["cdc-v2"]) : a[i] = wire["cdc-v2"][i]
      BY <1>1, <2>1, StreamsAre, WireAppend
    <2>3. Len(wire["cdc-v2"]) \in Nat BY StreamsAre, LenProperties DEF LinkTypes, DeviceTypes
    <2>4. /\ wire' \in [Streams -> Seq(Messages)] /\ \A t \in Streams : Len(wire'[t]) <= WireCap
          /\ wire'["hid-v3"] = wire["hid-v3"] /\ wire'["cdc-v2"] = a
      BY <2>1, <2>2, StreamsAre, WireTypes DEF Streams
    <2>5. \A i \in 1..(Len(wire["cdc-v2"]) - 0) : i + 0 = i /\ i \in 1..Len(wire["cdc-v2"])
      BY <2>3
    <2>6. Shifts("cdc-v2", 0) BY <2>2, <2>3, <2>4, <2>5 DEF Shifts
    <2> QED BY <2>2, <2>3, <2>4, <2>6
  <1> QED BY <1>2, <1>3

LEMMA SendReportIs ==
  ASSUME LinkTypes, NEW type \in {"stroke", "command", "language"}, SendReport(type)
  PROVE  /\ wire' \in [Streams -> Seq(Messages)] /\ \A t \in Streams : Len(wire'[t]) <= WireCap
         /\ wire'["cdc-v2"] = wire["cdc-v2"]
         /\ \/ wire'["hid-v3"] = wire["hid-v3"]
            \/ \E d \in {0, 1} :
                 /\ Shifts("hid-v3", d) /\ Len(wire'["hid-v3"]) = Len(wire["hid-v3"]) - d + 1
                 /\ wire'["hid-v3"][Len(wire'["hid-v3"])] = Message("hid-v3", type)
  <1> DEFINE m == Message("hid-v3", type)
             w == wire["hid-v3"]
             kept == IF Len(w) = WireCap THEN Tail(w) ELSE w
  <1>1. m \in Messages BY MessageType, StreamsAre
  <1>2. w \in Seq(Messages) /\ Len(w) \in Nat /\ Len(w) <= WireCap
    BY StreamsAre, LenProperties DEF LinkTypes, DeviceTypes
  <1>3. CASE ~open["hid-v3"]
    BY <1>3 DEF SendReport, LinkTypes, DeviceTypes
  <1>4. CASE open["hid-v3"]
    <2>1. wire' = [wire EXCEPT !["hid-v3"] = Append(kept, m)]
      BY <1>4 DEF SendReport
    <2>2. PICK d \in {0, 1} :
            /\ kept \in Seq(Messages) /\ Len(kept) = Len(w) - d /\ Len(kept) < WireCap /\ d <= Len(w)
            /\ \A i \in 1..(Len(w) - d) : kept[i] = w[i + d]
      <3>1. CASE Len(w) = WireCap
        <4>1. w # <<>> BY <1>2, <3>1, EmptySeq, HidReaderAssumption
        <4>2. /\ Tail(w) \in Seq(Messages) /\ Len(Tail(w)) = Len(w) - 1 /\ Len(w) >= 1
              /\ \A i \in 1..(Len(w) - 1) : Tail(w)[i] = w[i + 1]
          BY <4>1, StreamsAre, WireTail
        <4> QED BY <1>2, <3>1, <4>2, HidReaderAssumption
      <3>2. CASE Len(w) # WireCap
        <4>1. \A i \in 1..(Len(w) - 0) : i + 0 = i BY <1>2
        <4>2. kept = w BY <3>2
        <4>3. Len(w) - 0 = Len(w) /\ Len(w) < WireCap /\ 0 <= Len(w) BY <1>2, <3>2, HidReaderAssumption
        <4>4. \A i \in 1..(Len(w) - 0) : kept[i] = w[i + 0] BY <4>1, <4>2
        <4> QED BY <1>2, <4>2, <4>3, <4>4
      <3> QED BY <3>1, <3>2
    <2>3. /\ Append(kept, m) \in Seq(Messages) /\ Len(Append(kept, m)) = Len(kept) + 1
          /\ \A i \in 1..Len(kept) : Append(kept, m)[i] = kept[i]
          /\ Append(kept, m)[Len(kept) + 1] = m
      BY <1>1, <2>2, AppendProperties
    <2>4. Len(Append(kept, m)) <= WireCap BY <1>2, <2>2, <2>3, HidReaderAssumption
    <2>5. /\ wire' \in [Streams -> Seq(Messages)] /\ \A t \in Streams : Len(wire'[t]) <= WireCap
          /\ wire'["cdc-v2"] = wire["cdc-v2"] /\ wire'["hid-v3"] = Append(kept, m)
      BY <2>1, <2>3, <2>4, StreamsAre, WireTypes DEF Streams
    <2>6. /\ \A i \in 1..(Len(w) - d) : Append(kept, m)[i] = w[i + d]
          /\ Len(Append(kept, m)) = Len(w) - d + 1
      BY <2>2, <2>3
    <2>7. Shifts("hid-v3", d) BY <2>2, <2>5, <2>6 DEF Shifts
    <2>8. wire'["hid-v3"][Len(wire'["hid-v3"])] = m BY <2>2, <2>3, <2>5
    <2> QED BY <2>2, <2>5, <2>6, <2>7, <2>8
  <1> QED BY <1>3, <1>4

LEMMA StreamRecord ==
  ASSUME NEW t \in [last : 0..MaxSequence, gaps : Nat, duplicates : Nat, epochs : Nat],
         NEW a \in 0..MaxSequence, NEW d \in Nat, NEW e \in Nat
  PROVE  /\ [t EXCEPT !.last = a, !.epochs = @ + 1]
              \in [last : 0..MaxSequence, gaps : Nat, duplicates : Nat, epochs : Nat]
         /\ [t EXCEPT !.last = a, !.duplicates = @ + d, !.gaps = @ + e]
              \in [last : 0..MaxSequence, gaps : Nat, duplicates : Nat, epochs : Nat]
  <1> DEFINE R == [last : 0..MaxSequence, gaps : Nat, duplicates : Nat, epochs : Nat]
             u == [t EXCEPT !.last = a, !.epochs = @ + 1]
             v == [t EXCEPT !.last = a, !.duplicates = @ + d, !.gaps = @ + e]
  <1>1. ASSUME NEW r \in R, NEW x \in 0..MaxSequence
        PROVE  [r EXCEPT !.last = x] \in R
    OBVIOUS
  <1>2. ASSUME NEW r \in R, NEW x \in Nat
        PROVE  [r EXCEPT !.epochs = x] \in R /\ [r EXCEPT !.duplicates = x] \in R
               /\ [r EXCEPT !.gaps = x] \in R
    OBVIOUS
  <1>3. t.gaps \in Nat /\ t.duplicates \in Nat /\ t.epochs \in Nat OBVIOUS
  <1>4. t.gaps + e \in Nat /\ t.duplicates + d \in Nat /\ t.epochs + 1 \in Nat BY <1>3
  <1> DEFINE l == [t EXCEPT !.last = a]
             g == [l EXCEPT !.duplicates = t.duplicates + d]
  <1>5. l \in R /\ l.epochs = t.epochs /\ l.duplicates = t.duplicates /\ l.gaps = t.gaps BY <1>1
  <1>6. u = [l EXCEPT !.epochs = t.epochs + 1] OBVIOUS
  <1>7. v = [g EXCEPT !.gaps = t.gaps + e] OBVIOUS
  <1> HIDE DEF R, l
  <1>8. u \in R BY <1>2, <1>4, <1>5, <1>6
  <1>9. g \in R BY <1>2, <1>4, <1>5
  <1> HIDE DEF g
  <1>10. v \in R BY <1>2, <1>4, <1>7, <1>9
  <1> QED BY <1>8, <1>10 DEF R

LEMMA HearIs ==
  ASSUME NEW h \in Knowledge, NEW m \in Messages
  PROVE  Hear(h, m) \in Knowledge
  <1> DEFINE again == h.index # 0 /\ h.boot = m.boot
             restarted == h.index # 0 /\ h.boot # m.boot
             back == m.sequence < h.number
             missed == m.index - h.index - 1
             more(P) == IF P THEN 1 ELSE 0
             gone(P) == IF P THEN missed ELSE 0
  <1>1. /\ m.sequence \in 0..MaxSequence /\ m.index \in Nat /\ m.boot \in Nat
        /\ h.index \in Nat /\ h.lost \in Int /\ h.swallowed \in Int /\ h.restarts \in Nat
        /\ h.hidden \in Nat /\ h.mistaken \in Nat /\ h.untold \in BOOLEAN
    BY DEF Messages, Knowledge
  <1>2. missed \in Int BY <1>1
  <1>3. /\ Hear(h, m).index = m.index /\ Hear(h, m).boot = m.boot /\ Hear(h, m).number = m.sequence
    BY DEF Hear
  <1> QED BY <1>1, <1>2 DEF Hear, Knowledge

LEMMA ObserveTypes ==
  ASSUME LinkTypes, NEW s \in Streams, NEW m \in Messages, Observe(s, m)
  PROVE  /\ HeardTypes'
         /\ health'[s] = ObserveTransportMessageOn(health[s], m.sequence, m.type)
         /\ heard'[s] = Hear(heard[s], m)
         /\ \A t \in Streams \ {s} : health'[t] = health[t] /\ heard'[t] = heard[t]
  <1> DEFINE n == ObserveTransportMessageOn(health[s], m.sequence, m.type)
             h == Hear(heard[s], m)
  <1>1. m.sequence \in 1..MaxSequence BY DEF Messages
  <1>2. /\ health[s] \in [last : 0..MaxSequence, gaps : Nat, duplicates : Nat, epochs : Nat]
        /\ heard[s] \in Knowledge
        /\ health \in [Streams -> [last : 0..MaxSequence, gaps : Nat, duplicates : Nat, epochs : Nat]]
        /\ heard \in [Streams -> Knowledge]
    BY DEF LinkTypes, HeardTypes
  <1>3. health' = [health EXCEPT ![s] = n] BY DEF Observe
  <1>4. heard' = [heard EXCEPT ![s] = h] BY DEF Observe
  <1>5. ForwardSequenceDistance(health[s].last, m.sequence) \in Int
    BY <1>1, <1>2, TelemetryAssumption DEF ForwardSequenceDistance
  <1>6. n \in [last : 0..MaxSequence, gaps : Nat, duplicates : Nat, epochs : Nat]
    <2> DEFINE t == health[s]
               steps == ForwardSequenceDistance(t.last, m.sequence)
    <2>1. CASE t.last = 0
      <3>1. n = [t EXCEPT !.last = m.sequence] BY <2>1 DEF ObserveTransportMessageOn
      <3> QED BY <1>1, <1>2, <3>1
    <2>2. CASE t.last # 0 /\ NewEpoch(t, m.sequence, m.type)
      <3>1. n = [t EXCEPT !.last = m.sequence, !.epochs = @ + 1]
        BY <2>2 DEF ObserveTransportMessageOn
      <3>2. m.sequence \in 0..MaxSequence BY <1>1
      <3> QED BY <1>2, <3>1, <3>2, StreamRecord
    <2>3. CASE t.last # 0 /\ ~NewEpoch(t, m.sequence, m.type)
      <3> DEFINE d == IF steps = 0 THEN 1 ELSE 0
                 e == IF steps > 1 THEN steps - 1 ELSE 0
      <3>1. n = [t EXCEPT !.last = m.sequence, !.duplicates = @ + d, !.gaps = @ + e]
        BY <2>3 DEF ObserveTransportMessageOn
      <3>2. d \in Nat /\ e \in Nat BY <1>5
      <3>3. m.sequence \in 0..MaxSequence BY <1>1
      <3> HIDE DEF n, d, e, t
      <3>4. t \in [last : 0..MaxSequence, gaps : Nat, duplicates : Nat, epochs : Nat] BY <1>2 DEF t
      <3> QED BY <3>1, <3>2, <3>3, <3>4, StreamRecord
    <2> QED BY <2>1, <2>2, <2>3
  <1>7. h \in Knowledge BY <1>2, HearIs
  <1>8. /\ health' \in [Streams -> [last : 0..MaxSequence, gaps : Nat, duplicates : Nat, epochs : Nat]]
        /\ health'[s] = n /\ \A t \in Streams \ {s} : health'[t] = health[t]
    BY <1>2, <1>3, <1>6
  <1>9. /\ heard' \in [Streams -> Knowledge]
        /\ heard'[s] = h /\ \A t \in Streams \ {s} : heard'[t] = heard[t]
    BY <1>2, <1>4, <1>7
  <1>10. HeardTypes' BY <1>8, <1>9 DEF HeardTypes
  <1> QED BY <1>8, <1>9, <1>10

LEMMA LineTakenIs ==
  ASSUME LinkTypes, NEW s \in Streams, LineTaken(s)
  PROVE  /\ DeviceTypes' /\ HeardTypes'
         /\ Head(wire[s]) \in Messages
         /\ Hears(s) \/ Misses(s)
         /\ \A t \in Streams \ {s} : Rests(t)
  <1> DEFINE m == Head(wire[s])
  <1>1. /\ Tail(wire[s]) \in Seq(Messages) /\ Len(Tail(wire[s])) <= WireCap - 1
        /\ Len(wire[s]) \in Nat /\ Len(wire[s]) >= 1
        /\ Len(Tail(wire[s])) = Len(wire[s]) - 1
        /\ \A i \in 1..(Len(wire[s]) - 1) : Tail(wire[s])[i] = wire[s][i + 1]
        /\ m = wire[s][1] /\ m \in Messages
    BY WireTail DEF LineTaken
  <1>2. Len(Tail(wire[s])) <= WireCap /\ wire' = [wire EXCEPT ![s] = Tail(wire[s])]
    BY <1>1, HidReaderAssumption DEF LineTaken
  <1>3. /\ wire' \in [Streams -> Seq(Messages)] /\ \A t \in Streams : Len(wire'[t]) <= WireCap
        /\ wire'[s] = Tail(wire[s]) /\ \A t \in Streams \ {s} : wire'[t] = wire[t]
    BY <1>1, <1>2, WireTypes
  <1>4. DeviceTypes' BY <1>3 DEF LineTaken, LinkTypes, DeviceTypes
  <1>5. Takes(s) BY <1>1, <1>3 DEF Takes, Shifts, LineTaken, Counter
  <1>6. CASE Observe(s, m)
    <2>1. HeardTypes' /\ \A t \in Streams \ {s} : health'[t] = health[t] /\ heard'[t] = heard[t]
      BY <1>1, <1>6, ObserveTypes
    <2>2. /\ health'[s] = ObserveTransportMessageOn(health[s], m.sequence, m.type)
          /\ heard'[s] = Hear(heard[s], m)
      BY <1>1, <1>6, ObserveTypes
    <2>3. m = wire[s][1] BY <1>1
    <2> HIDE DEF m
    <2>4. Hears(s) BY <1>5, <2>2, <2>3 DEF Hears
    <2> QED BY <1>1, <1>3, <1>4, <2>1, <2>4 DEF Rests, LineTaken, Counter
  <1>7. CASE UNCHANGED <<health, heard>>
    BY <1>1, <1>3, <1>4, <1>5, <1>7 DEF LinkTypes, HeardTypes, Misses, Rests, LineTaken, Counter
  <1> QED BY <1>6, <1>7 DEF LineTaken

\* A channel of at most n elements of S.
LEMMA ChannelPut ==
  ASSUME NEW S, NEW q \in Seq(S), NEW e \in S, NEW n \in Nat, Len(q) < n
  PROVE  Append(q, e) \in Seq(S) /\ Len(Append(q, e)) <= n
  BY AppendProperties, LenProperties

LEMMA ChannelTake ==
  ASSUME NEW S, NEW q \in Seq(S), NEW n \in Nat, Len(q) <= n, q # <<>>
  PROVE  Tail(q) \in Seq(S) /\ Len(Tail(q)) <= n
  <1>1. Tail(q) \in Seq(S) /\ Len(Tail(q)) = Len(q) - 1 /\ Len(q) \in Nat
    BY HeadTailProperties, LenProperties
  <1> QED BY <1>1

LEMMA PublishErrorTypes ==
  ASSUME LinkTypes, NEW e \in {"read", "decode", "limit", "duplicate"}, PublishError(e)
  PROVE  /\ hidErrors' \in Seq({"read", "decode", "limit", "duplicate"})
         /\ Len(hidErrors') <= QueueCap
  BY ChannelPut, HidReaderAssumption DEF PublishError, LinkTypes, HidTypes

LEMMA LinkTypesStep ==
  ASSUME LinkTypes, LinkStep
  PROVE  LinkTypes'
  <1>1. CASE \E type \in {"ready", "status"} : SendLine(type)
    <2> PICK type \in {"ready", "status"} : SendLine(type) BY <1>1
    <2>1. /\ wire' \in [Streams -> Seq(Messages)] /\ \A t \in Streams : Len(wire'[t]) <= WireCap
      BY SendLineIs DEF SendLine
    <2>2. sequence' \in [Streams -> 0..MaxSequence] /\ sent' \in [Streams -> Nat]
      BY NumberedTypes, StreamsAre DEF SendLine
    <2> QED BY <2>1, <2>2 DEF SendLine, LinkTypes, DeviceTypes, HeardTypes, HidTypes, hidVars
  <1>2. CASE \E type \in {"stroke", "command", "language"} : SendReport(type)
    <2> PICK type \in {"stroke", "command", "language"} : SendReport(type) BY <1>2
    <2>1. /\ wire' \in [Streams -> Seq(Messages)] /\ \A t \in Streams : Len(wire'[t]) <= WireCap
      BY SendReportIs
    <2>2. sequence' \in [Streams -> 0..MaxSequence] /\ sent' \in [Streams -> Nat]
      BY NumberedTypes, StreamsAre DEF SendReport
    <2> QED BY <2>1, <2>2 DEF SendReport, LinkTypes, DeviceTypes, HeardTypes, HidTypes, hidVars
  <1>3. CASE SendReportFails
    <2>1. /\ wire' \in [Streams -> Seq(Messages)] /\ \A t \in Streams : Len(wire'[t]) <= WireCap
      BY <1>3, SendLineIs DEF SendReportFails
    <2>2. sequence' \in [Streams -> 0..MaxSequence] /\ sent' \in [Streams -> Nat]
      BY <1>3, NumberedTypes DEF SendReportFails
    <2>3. DeviceTypes' BY <1>3, <2>1, <2>2 DEF SendReportFails, Fault, LinkTypes, DeviceTypes
    <2> QED BY <1>3, <2>3 DEF SendReportFails, LinkTypes, HeardTypes, HidTypes, hidVars
  <1>4. CASE Unplug
    <2>1. wire' \in [Streams -> Seq(Messages)] /\ \A s \in Streams : Len(wire'[s]) <= WireCap
      BY <1>4, NothingOnTheWire DEF Unplug
    <2> QED BY <1>4, <2>1 DEF Unplug, LinkTypes, DeviceTypes, HeardTypes, HidTypes, hidVars
  <1>5. CASE Boot
    BY <1>5, TelemetryAssumption DEF Boot, LinkTypes, DeviceTypes, HeardTypes, HidTypes, hidVars
  <1>6. CASE HidReadFails
    <2>1. hidErrors' \in Seq({"read", "decode", "limit", "duplicate"}) /\ Len(hidErrors') <= QueueCap
      BY <1>6, PublishErrorTypes DEF HidReadFails, LinkTypes, HidTypes
    <2> QED BY <1>6, <2>1 DEF HidReadFails, LinkTypes, DeviceTypes, HeardTypes, HidTypes, deviceVars
  <1>7. CASE HidDelivers
    <2>1. hidMessages' \in Seq(Messages) /\ Len(hidMessages') <= QueueCap
      BY <1>7, ChannelPut, HidReaderAssumption DEF HidDelivers, LinkTypes, HidTypes
    <2> QED BY <1>7, <2>1 DEF HidDelivers, LinkTypes, DeviceTypes, HeardTypes, HidTypes, deviceVars
  <1>8. CASE ScansLine
    BY <1>8, StreamsAre, LineTakenIs DEF ScansLine, LinkTypes, HidTypes, hidVars
  <1>9. CASE ReadsReport
    <2>1. DeviceTypes' /\ HeardTypes' /\ Head(wire["hid-v3"]) \in Messages
      BY <1>9, StreamsAre, LineTakenIs DEF ReadsReport
    <2>2. hidErrors' \in Seq({"read", "decode", "limit", "duplicate"}) /\ Len(hidErrors') <= QueueCap
      BY <1>9, PublishErrorTypes DEF ReadsReport, LinkTypes, HidTypes
    <2>3. HidTypes' BY <1>9, <2>1, <2>2 DEF ReadsReport, LinkTypes, HidTypes
    <2> QED BY <2>1, <2>3 DEF LinkTypes
  <1>10. CASE Reopen
    <2>1. wire' \in [Streams -> Seq(Messages)] /\ \A s \in Streams : Len(wire'[s]) <= WireCap
      BY <1>10, NothingOnTheWire DEF Reopen
    <2>2. /\ hidMessages' \in Seq(Messages) /\ Len(hidMessages') <= QueueCap
          /\ hidErrors' \in Seq({"read", "decode", "limit", "duplicate"}) /\ Len(hidErrors') <= QueueCap
      BY <1>10, EmptySeq, HidReaderAssumption DEF Reopen
    <2> QED BY <1>10, <2>1, <2>2 DEF Reopen, LinkTypes, DeviceTypes, HeardTypes, HidTypes
  <1>11. CASE Handled
    <2>1. /\ hidMessages' \in Seq(Messages) /\ Len(hidMessages') <= QueueCap
          /\ hidErrors' \in Seq({"read", "decode", "limit", "duplicate"}) /\ Len(hidErrors') <= QueueCap
      BY <1>11, ChannelTake, HidReaderAssumption DEF Handled, LinkTypes, HidTypes
    <2>2. open' \in [Streams -> BOOLEAN]
      BY <1>11 DEF Handled, LinkTypes, DeviceTypes
    <2> QED BY <1>11, <2>1, <2>2 DEF Handled, LinkTypes, DeviceTypes, HeardTypes, HidTypes, deviceVars
  <1> QED BY <1>1, <1>2, <1>3, <1>4, <1>5, <1>6, <1>7, <1>8, <1>9, <1>10, <1>11 DEF LinkStep

-----------------------------------------------------------------------------

LEMMA NumbersStep ==
  ASSUME LinkTypes, LinkTypes', NumbersInv, LinkStep
  PROVE  NumbersInv'
  <1> SUFFICES ASSUME NEW s \in Streams
               PROVE  \/ Sends(s) \/ Hears(s) \/ Misses(s)
                      \/ Empties(s) \/ Restarts(s) \/ Rests(s)
    BY SendsKeeps, MissesKeeps, EmptiesKeeps, RestartsKeeps, HearsKeeps DEF NumbersInv
  <1>1. CASE \E type \in {"ready", "status"} : SendLine(type)
    <2> PICK type \in {"ready", "status"} : SendLine(type) BY <1>1
    <2>1. CASE s = "cdc-v2"
      <3>1. \/ wire'["cdc-v2"] = wire["cdc-v2"]
            \/ /\ Shifts("cdc-v2", 0) /\ Len(wire'["cdc-v2"]) = Len(wire["cdc-v2"]) - 0 + 1
               /\ wire'["cdc-v2"][Len(wire'["cdc-v2"])] = Message("cdc-v2", type)
        BY SendLineIs DEF SendLine
      <3> QED BY <2>1, <3>1, StreamsAre DEF SendLine, Sends, Numbered
    <2>2. CASE s = "hid-v3"
      <3>1. wire'["hid-v3"] = wire["hid-v3"] BY SendLineIs DEF SendLine
      <3> QED BY <2>2, <3>1, StreamsAre DEF SendLine, Rests, Numbered, Counter
    <2> QED BY <2>1, <2>2 DEF Streams
  <1>2. CASE \E type \in {"stroke", "command", "language"} : SendReport(type)
    <2> PICK type \in {"stroke", "command", "language"} : SendReport(type) BY <1>2
    <2>1. CASE s = "hid-v3"
      <3>1. \/ wire'["hid-v3"] = wire["hid-v3"]
            \/ \E d \in {0, 1} :
                 /\ Shifts("hid-v3", d) /\ Len(wire'["hid-v3"]) = Len(wire["hid-v3"]) - d + 1
                 /\ wire'["hid-v3"][Len(wire'["hid-v3"])] = Message("hid-v3", type)
        BY SendReportIs
      <3> QED BY <2>1, <3>1, StreamsAre DEF SendReport, Sends, Numbered
    <2>2. CASE s = "cdc-v2"
      <3>1. wire'["cdc-v2"] = wire["cdc-v2"] BY SendReportIs
      <3> QED BY <2>2, <3>1, StreamsAre DEF SendReport, Rests, Numbered, Counter
    <2> QED BY <2>1, <2>2 DEF Streams
  <1>3. CASE SendReportFails
    <2>1. /\ wire'["hid-v3"] = wire["hid-v3"]
          /\ \/ wire'["cdc-v2"] = wire["cdc-v2"]
             \/ /\ Shifts("cdc-v2", 0) /\ Len(wire'["cdc-v2"]) = Len(wire["cdc-v2"]) - 0 + 1
                /\ wire'["cdc-v2"][Len(wire'["cdc-v2"])] = Message("cdc-v2", "error")
      BY <1>3, SendLineIs DEF SendReportFails
    <2> QED BY <1>3, <2>1 DEF SendReportFails, Sends, Numbered, Streams
  <1>4. CASE Unplug BY <1>4 DEF Unplug, Empties, Counter
  <1>5. CASE Boot BY <1>5 DEF Boot, Restarts
  <1>6. CASE HidReadFails BY <1>6 DEF HidReadFails, deviceVars, Rests, Counter
  <1>7. CASE HidDelivers BY <1>7 DEF HidDelivers, deviceVars, Rests, Counter
  <1>8. CASE ScansLine BY <1>8, StreamsAre, LineTakenIs DEF ScansLine, Streams
  <1>9. CASE ReadsReport BY <1>9, StreamsAre, LineTakenIs DEF ReadsReport, Streams
  <1>10. CASE Reopen BY <1>10 DEF Reopen, Empties, Counter
  <1>11. CASE Handled BY <1>11 DEF Handled, deviceVars, Rests, Counter
  <1> QED BY <1>1, <1>2, <1>3, <1>4, <1>5, <1>6, <1>7, <1>8, <1>9, <1>10, <1>11 DEF LinkStep

-----------------------------------------------------------------------------
(* The types of the two programs.                                          *)

LEMMA SessionTypesStep ==
  ASSUME SessionTypes, SessionNext
  PROVE  SessionTypes'
  <1> USE DEF SessionTypes
  <1>1. QueueCap \in Nat \ {0} BY HidReaderAssumption
  <1>2. Forwarded => errors' \in 0..QueueCap BY <1>1 DEF Forwarded
  <1>3. \A g : Exits(g) => forwarding' \subseteq Goroutines BY DEF Exits
  <1>4. CASE DeviceOfSession \/ HidReaderOfSession \/ TakeMessage
    BY <1>4 DEF DeviceOfSession, HidReaderOfSession, TakeMessage, sessionVars
  <1>5. CASE SerialScans BY <1>5 DEF SerialScans
  <1>6. CASE SerialEnds BY <1>6 DEF SerialEnds
  <1>7. CASE SerialDelivers BY <1>1, <1>7 DEF SerialDelivers
  <1>8. CASE WriteCommand BY <1>8 DEF WriteCommand
  <1>9. CASE Written BY <1>9 DEF Written
  <1>10. CASE ForwardControlError
    <2>1. errors' \in 0..QueueCap /\ forwarding' \subseteq Goroutines
      BY <1>2, <1>3, <1>10 DEF ForwardControlError
    <2>2. controlErrors' \in IF serialReader = "ended" THEN 0..1 ELSE {0}
      BY <1>10 DEF ForwardControlError
    <2> QED BY <1>10, <2>1, <2>2 DEF ForwardControlError
  <1>11. CASE ForwardRealtimeError
    <2>1. errors' \in 0..QueueCap /\ forwarding' \subseteq Goroutines
      BY <1>2, <1>3, <1>11 DEF ForwardRealtimeError
    <2> QED BY <1>11, <2>1 DEF ForwardRealtimeError
  <1>12. CASE DrainControlMessages
    <2>1. controlMessages' \in 0..QueueCap /\ forwarding' \subseteq Goroutines
      BY <1>1, <1>3, <1>12 DEF DrainControlMessages
    <2> QED BY <1>12, <2>1 DEF DrainControlMessages
  <1>13. CASE TakeError \/ CloseAtWill
    <2>1. errors' \in 0..QueueCap BY <1>1, <1>13 DEF TakeError, CloseAtWill
    <2> QED BY <1>13, <2>1 DEF TakeError, CloseAtWill, Closing
  <1>14. CASE ClosePort BY <1>14 DEF ClosePort
  <1>15. CASE CloseEnds BY <1>15 DEF CloseEnds
  <1>16. CASE Reopen
    <2>1. Opened BY <1>16 DEF Reopen
    <2>2. session' = "open" /\ serialReader' = "scan" /\ forwarding' = Goroutines
          /\ portOpen' = TRUE /\ writing' = FALSE
      BY <2>1 DEF Opened
    <2>3. controlMessages' \in 0..QueueCap /\ errors' \in 0..QueueCap /\ controlErrors' = 0
      BY <1>1, <2>1 DEF Opened
    <2> QED BY <2>2, <2>3
  <1> QED BY <1>4, <1>5, <1>6, <1>7, <1>8, <1>9, <1>10, <1>11, <1>12, <1>13, <1>14, <1>15, <1>16 DEF SessionNext

Samples == [sequence : 1..MaxSequence, actionable : BOOLEAN, t3 : {"none", "sent", "failed"}]

SampleCount == Len(samples) \in Nat /\ DOMAIN samples = 1..Len(samples)

LEMMA SamplesAre ==
  ASSUME CaptureTypes
  PROVE  /\ samples \in Seq(Samples) /\ SampleCount
         /\ \A i \in 1..Len(samples) :
              /\ samples[i] \in Samples /\ samples[i].sequence \in 1..MaxSequence
              /\ samples[i].actionable \in BOOLEAN /\ samples[i].t3 \in {"none", "sent", "failed"}
  <1>1. samples \in Seq(Samples) BY DEF CaptureTypes, Samples
  <1>2. SampleCount BY <1>1, LenProperties DEF SampleCount
  <1>3. \A i \in 1..Len(samples) : samples[i] \in Samples BY <1>1, ElementOfSeq
  <1> QED BY <1>1, <1>2, <1>3 DEF Samples

\* What the steps of the capture tool do to the samples.
LEMMA ObserveIs ==
  ASSUME CaptureTypes, LinkTypes, ObserveHIDV3
  PROVE  /\ samples' \in Seq(Samples) /\ Len(samples') = Len(samples) + 1
         /\ Len(samples) < Limit /\ Len(samples) \in Nat
         /\ \A i \in 1..Len(samples) : samples'[i] = samples[i]
         /\ LET m == wire["hid-v3"][1]
            IN  /\ samples'[Len(samples) + 1] =
                      [sequence |-> m.sequence, t3 |-> "none", actionable |-> m.type # "language"]
                /\ hidPending' = m
                /\ \A i \in 1..Len(samples) : samples[i].sequence # m.sequence
  <1> DEFINE m == Head(wire["hid-v3"])
             new == [sequence |-> m.sequence, t3 |-> "none", actionable |-> m.type # "language"]
  <1>1. samples \in Seq(Samples) /\ SampleCount BY SamplesAre
  <1>2. m = wire["hid-v3"][1] /\ m \in Messages BY WireTail, StreamsAre DEF ObserveHIDV3
  <1>3. new \in Samples BY <1>2 DEF Messages, Samples
  <1>4. samples' = Append(samples, new) BY DEF ObserveHIDV3
  <1>5. /\ samples' \in Seq(Samples) /\ Len(samples') = Len(samples) + 1
        /\ \A i \in 1..Len(samples) : samples'[i] = samples[i]
        /\ samples'[Len(samples) + 1] = new
    BY <1>1, <1>3, <1>4, AppendProperties
  <1>6. \A i \in 1..Len(samples) : samples[i].sequence # m.sequence
    BY <1>1 DEF ObserveHIDV3, Repeated, SampleCount
  <1>7. hidPending' = m /\ Len(samples) < Limit BY DEF ObserveHIDV3, HidAccepts
  <1> QED BY <1>1, <1>2, <1>5, <1>6, <1>7 DEF SampleCount

LEMMA WorkerIs ==
  ASSUME CaptureTypes, Worker
  PROVE  /\ samples' \in Seq(Samples) /\ Len(samples') = Len(samples) /\ Len(samples) \in Nat
         /\ \E t3 \in {"sent", "failed", "none"} : \A i \in 1..Len(samples) :
              /\ samples'[i].sequence = samples[i].sequence
              /\ samples'[i].actionable = samples[i].actionable
              /\ samples'[i].t3 = IF ~observerErr /\ samples[i].sequence = Head(queue)
                                  THEN t3 ELSE samples[i].t3
  <1> PICK t3 \in {"sent", "failed", "none"} :
        samples' = [i \in DOMAIN samples |->
                      IF ~observerErr /\ samples[i].sequence = Head(queue)
                      THEN [samples[i] EXCEPT !.t3 = t3] ELSE samples[i]]
    BY DEF Worker
  <1> DEFINE n == Len(samples)
             e(i) == IF ~observerErr /\ samples[i].sequence = Head(queue)
                     THEN [samples[i] EXCEPT !.t3 = t3] ELSE samples[i]
  <1>1. samples \in Seq(Samples) /\ SampleCount /\ \A i \in 1..n : samples[i] \in Samples
    BY SamplesAre
  <1>2. n \in Nat /\ samples' = [i \in 1..n |-> e(i)] BY <1>1 DEF SampleCount
  <1>3. ASSUME NEW i \in 1..n
        PROVE  /\ e(i) \in Samples /\ e(i).sequence = samples[i].sequence
               /\ e(i).actionable = samples[i].actionable
               /\ e(i).t3 = IF ~observerErr /\ samples[i].sequence = Head(queue) THEN t3 ELSE samples[i].t3
    BY <1>1 DEF Samples
  <1> HIDE DEF e
  <1>4. samples' \in [1..n -> Samples] BY <1>2, <1>3
  <1>5. samples' \in Seq(Samples) BY <1>2, <1>4, SeqDef
  <1>6. DOMAIN samples' = 1..n BY <1>2
  <1>7. Len(samples') = n BY <1>2, <1>5, <1>6, LenProperties
  <1>8. \A i \in 1..n : samples'[i] = e(i) BY <1>2
  <1> QED BY <1>2, <1>3, <1>5, <1>7, <1>8

LEMMA QueueHead ==
  ASSUME CaptureTypes, queue # <<>>
  PROVE  /\ Head(queue) = queue[1] /\ Len(queue) \in Nat \ {0} /\ 1 \in 1..Len(queue)
         /\ Tail(queue) \in Seq(1..MaxSequence) /\ Len(Tail(queue)) = Len(queue) - 1
         /\ \A k \in 1..(Len(queue) - 1) : Tail(queue)[k] = queue[k + 1]
  <1>1. queue \in Seq(1..MaxSequence) BY DEF CaptureTypes
  <1>2. Len(queue) \in Nat \ {0} BY <1>1, EmptySeq
  <1>3. /\ Tail(queue) \in Seq(1..MaxSequence) /\ Len(Tail(queue)) = Len(queue) - 1
        /\ \A k \in 1..Len(Tail(queue)) : Tail(queue)[k] = queue[k + 1]
    BY <1>1, HeadTailProperties
  <1>4. Head(queue) = queue[1] BY <1>1
  <1> QED BY <1>2, <1>3, <1>4

LEMMA EventTaken ==
  ASSUME LinkTypes, TakeEvent
  PROVE  /\ Head(hidMessages) = hidMessages[1] /\ Head(hidMessages) \in Messages
         /\ Len(hidMessages) \in Nat \ {0} /\ hidMessages' \in Seq(Messages)
         /\ Len(hidMessages') = Len(hidMessages) - 1
         /\ \A j \in 1..(Len(hidMessages) - 1) : hidMessages'[j] = hidMessages[j + 1]
  <1>1. hidMessages \in Seq(Messages) /\ hidMessages # <<>> /\ hidMessages' = Tail(hidMessages)
    BY DEF LinkTypes, HidTypes, TakeEvent
  <1>2. Len(hidMessages) \in Nat \ {0} BY <1>1, EmptySeq
  <1>3. /\ Head(hidMessages) \in Messages /\ Tail(hidMessages) \in Seq(Messages)
        /\ Len(Tail(hidMessages)) = Len(hidMessages) - 1
        /\ \A j \in 1..Len(Tail(hidMessages)) : Tail(hidMessages)[j] = hidMessages[j + 1]
    BY <1>1, HeadTailProperties
  <1>4. Head(hidMessages) = hidMessages[1] BY <1>1
  <1> QED BY <1>1, <1>2, <1>3, <1>4

LEMMA CaptureTypesStep ==
  ASSUME LinkTypes, CaptureTypes, Pipeline, CaptureNext
  PROVE  CaptureTypes'
  <1> USE DEF CaptureTypes
  <1>0. Len(samples) \in Nat /\ Len(samples) <= Limit BY SamplesAre DEF SampleCount
  <1>1. CASE DeviceOfCapture BY <1>1 DEF DeviceOfCapture, captureVars
  <1>2. CASE HidReaderOfCapture
    <2>1. CASE UNCHANGED captureVars BY <2>1 DEF captureVars
    <2>2. CASE ObserveHIDV3
      <3>1. samples' \in Seq(Samples) /\ Len(samples') = Len(samples) + 1 /\ Len(samples) < Limit
        BY <2>2, ObserveIs
      <3> QED BY <1>0, <2>2, <3>1, CaptureAssumption DEF ObserveHIDV3, Samples
    <2>3. CASE DuplicateSequence BY <2>3 DEF DuplicateSequence
    <2> QED BY <1>2, <2>1, <2>2, <2>3 DEF HidReaderOfCapture, ErrCaptureLimitReached
  <1>3. CASE Worker
    <2>1. samples' \in Seq(Samples) /\ Len(samples') = Len(samples) BY <1>3, WorkerIs
    <2>2. queue' \in Seq(1..MaxSequence) BY <1>3, QueueHead DEF Worker
    <2> QED BY <1>3, <2>1, <2>2 DEF Worker, Samples
  <1>4. CASE Interrupt \/ StreamClosed \/ WaitForHostCoverage
    BY <1>4 DEF Interrupt, StreamClosed, WaitForHostCoverage, Fails
  <1>5. CASE TakeReadError BY <1>5 DEF TakeReadError, Fails
  <1>6. CASE TakeEvent
    <2> DEFINE e == Head(hidMessages)
    <2>1. e \in Messages /\ Len(hidMessages) \in Nat \ {0} BY <1>6, EventTaken
    <2>2. captured' \in 0..Len(samples)
      BY <1>0, <1>6, <2>1 DEF TakeEvent, Pipeline, InHand
    <2>3. queue' \in Seq(1..MaxSequence)
      <3>1. e.sequence \in 1..MaxSequence BY <2>1 DEF Messages
      <3>2. queue' = Append(queue, e.sequence) \/ queue' = queue BY <1>6 DEF TakeEvent
      <3>3. queue \in Seq(1..MaxSequence) OBVIOUS
      <3>4. Append(queue, e.sequence) \in Seq(1..MaxSequence) BY <3>1, <3>3, AppendProperties
      <3> QED BY <3>2, <3>3, <3>4
    <2>4. main' \in {main, "unwinding"} BY <1>6 DEF TakeEvent, Fails
    <2>5. UNCHANGED <<sendInput, listening, samples, observerErr, flushed, success>>
      BY <1>6 DEF TakeEvent
    <2> QED BY <2>2, <2>3, <2>4, <2>5
  <1>7. CASE CapturedAll BY <1>7 DEF CapturedAll
  <1>8. CASE Check
    <2>1. flushed' \in 0..Len(samples) BY <1>0, <1>8 DEF Check
    <2> QED BY <1>8, <2>1 DEF Check
  <1>9. CASE Unwind BY <1>0, <1>9 DEF Unwind
  <1> QED BY <1>1, <1>2, <1>3, <1>4, <1>5, <1>6, <1>7, <1>8, <1>9 DEF CaptureNext

-----------------------------------------------------------------------------
(* The capture: where the samples are.                                     *)

LEMMA PipelineStep ==
  ASSUME LinkTypes, CaptureTypes, CaptureTypes', Pipeline, CaptureNext
  PROVE  Pipeline'
  <1> DEFINE n == Len(samples)
             k == Len(hidMessages)
  <1>1. n \in Nat /\ captured \in 0..n /\ k \in Nat /\ hidMessages \in Seq(Messages)
    BY SamplesAre, LenProperties DEF CaptureTypes, SampleCount, LinkTypes, HidTypes
  <1>2. ASSUME UNCHANGED <<captured, hidMessages, hidReader, hidPending, samples>>
        PROVE  Pipeline'
    BY <1>2 DEF Pipeline, InHand, SampleOf
  <1>3. ASSUME UNCHANGED <<captured, hidMessages, samples>>,
               hidReader = "read", hidReader' \in {"read", "ended"}
        PROVE  Pipeline'
    BY <1>1, <1>3 DEF Pipeline, InHand, SampleOf
  <1>4. CASE DeviceOfCapture
    BY <1>2, <1>4 DEF DeviceOfCapture, captureVars, hidVars, SendReport, SendReportFails, Unplug
  <1>5. CASE HidReaderOfCapture
    <2>1. CASE HidReadFails /\ UNCHANGED captureVars
      BY <1>3, <2>1 DEF HidReadFails, captureVars
    <2>2. CASE HidRejects /\ UNCHANGED captureVars
      BY <1>3, <2>2 DEF HidRejects, HidReads, captureVars
    <2>3. CASE HidDelivers /\ UNCHANGED captureVars
      <3>1. CASE hidMessages' = Append(hidMessages, hidPending) /\ hidReader' = "read"
        <4>1. hidPending \in Messages /\ hidReader = "deliver"
          BY <2>3 DEF LinkTypes, HidTypes, HidDelivers
        <4>2. /\ Len(hidMessages') = k + 1 /\ hidMessages'[k + 1] = hidPending
              /\ \A j \in 1..k : hidMessages'[j] = hidMessages[j]
          BY <1>1, <3>1, <4>1, AppendProperties
        <4>3. captured + k + 1 = n
          <5>1. hidReader = "deliver" /\ InHand = 1 BY <4>1 DEF InHand
          <5> QED BY <5>1 DEF Pipeline
        <4>4. captured + Len(hidMessages') = n BY <1>1, <4>2, <4>3
        <4>5. ASSUME NEW j \in 1..(k + 1) PROVE SampleOf(hidMessages'[j], captured + j)
          <5>1. CASE j = k + 1
            <6>1. captured + k + 1 = captured + j BY <1>1, <5>1
            <6> QED BY <4>1, <4>2, <5>1, <6>1 DEF Pipeline
          <5>2. CASE j # k + 1
            <6>1. j \in 1..k BY <1>1, <5>2
            <6> QED BY <4>2, <6>1 DEF Pipeline
          <5> QED BY <5>1, <5>2
        <4>6. captured' = captured /\ samples' = samples /\ Len(samples') = n
          BY <2>3 DEF captureVars
        <4>7. InHand' = 0 BY <3>1 DEF InHand
        <4> QED BY <1>1, <3>1, <4>2, <4>4, <4>5, <4>6, <4>7 DEF Pipeline, SampleOf
      <3>2. CASE hidReader' = "ended" /\ UNCHANGED hidMessages
        <4>1. captured' = captured /\ samples' = samples BY <2>3 DEF captureVars
        <4> QED BY <1>1, <2>3, <3>2, <4>1 DEF HidDelivers, Pipeline, InHand, SampleOf
      <3> QED BY <2>3, <3>1, <3>2 DEF HidDelivers
    <2>4. CASE ObserveHIDV3
      <3> DEFINE m == wire["hid-v3"][1]
      <3>1. /\ Len(samples') = n + 1 /\ \A i \in 1..n : samples'[i] = samples[i]
            /\ samples'[n + 1] = [sequence |-> m.sequence, t3 |-> "none", actionable |-> m.type # "language"]
            /\ hidPending' = m
        BY <2>4, ObserveIs
      <3>2. /\ hidReader = "read" /\ hidReader' = "deliver" /\ hidMessages' = hidMessages
            /\ captured' = captured
        BY <2>4 DEF ObserveHIDV3, HidAccepts, HidReads
      <3>3. captured + k = n BY <1>1, <3>2 DEF Pipeline, InHand
      <3>4. \A j \in 1..k : captured + j \in 1..n BY <1>1, <3>3
      <3>5. \A j \in 1..k : SampleOf(hidMessages[j], captured + j)' BY <3>1, <3>2, <3>4 DEF Pipeline, SampleOf
      <3>6. (captured + k + 1)' = n + 1 BY <1>1, <3>2, <3>3
      <3>7. samples'[(captured + k + 1)'] = samples'[n + 1] BY <3>6
      <3>8. SampleOf(hidPending, captured + k + 1)'
        <4> HIDE DEF n, m
        <4>1. samples'[n + 1].sequence = hidPending'.sequence BY <3>1
        <4>2. samples'[n + 1].actionable = (m.type # "language") BY <3>1
        <4>3. samples'[n + 1].actionable <=> hidPending'.type # "language" BY <3>1, <4>2, Zenon
        <4> QED BY <3>7, <4>1, <4>3, Zenon DEF SampleOf
      <3> QED BY <1>1, <3>1, <3>2, <3>3, <3>5, <3>8 DEF Pipeline, InHand
    <2>5. CASE ErrCaptureLimitReached \/ DuplicateSequence
      BY <1>3, <2>5 DEF ErrCaptureLimitReached, DuplicateSequence, HidStops, HidReads, captureVars
    <2> QED BY <1>5, <2>1, <2>2, <2>3, <2>4, <2>5 DEF HidReaderOfCapture
  <1>6. CASE Worker
    <2>1. /\ Len(samples') = n
          /\ \A i \in 1..n : /\ samples'[i].sequence = samples[i].sequence
                             /\ samples'[i].actionable = samples[i].actionable
      BY <1>6, WorkerIs
    <2>2. UNCHANGED <<captured, hidMessages, hidReader, hidPending>>
      BY <1>6 DEF Worker, linkVars, hidVars
    <2>3. \A j \in 1..k : captured + j \in 1..n BY <1>1 DEF Pipeline, InHand
    <2>4. hidReader = "deliver" => captured + k + 1 \in 1..n BY <1>1 DEF Pipeline, InHand
    <2>5. /\ \A j \in 1..k : SampleOf(hidMessages[j], captured + j)'
          /\ hidReader = "deliver" => SampleOf(hidPending, captured + k + 1)'
      BY <2>1, <2>2, <2>3, <2>4 DEF Pipeline, SampleOf
    <2> QED BY <2>1, <2>2, <2>5 DEF Pipeline, InHand
  <1>7. CASE TakeEvent
    <2>1. /\ k \in Nat \ {0} /\ Len(hidMessages') = k - 1
          /\ \A j \in 1..(k - 1) : hidMessages'[j] = hidMessages[j + 1]
      BY <1>7, EventTaken
    <2>2. /\ captured' = captured + 1 /\ samples' = samples
          /\ hidReader' = hidReader /\ hidPending' = hidPending
      BY <1>7 DEF TakeEvent
    <2>3. captured' + Len(hidMessages') = captured + k BY <1>1, <2>1, <2>2
    <2>4. ASSUME NEW j \in 1..(k - 1) PROVE SampleOf(hidMessages'[j], captured + 1 + j)
      <3>1. j + 1 \in 1..k /\ captured + (j + 1) = captured + 1 + j BY <1>1, <2>1
      <3>2. SampleOf(hidMessages[j + 1], captured + (j + 1)) BY <3>1 DEF Pipeline
      <3> QED BY <2>1, <3>1, <3>2
    <2>5. hidReader = "deliver" => SampleOf(hidPending, captured' + Len(hidMessages') + 1)
      BY <2>3 DEF Pipeline
    <2> QED BY <1>1, <2>1, <2>2, <2>3, <2>4, <2>5 DEF Pipeline, InHand, SampleOf
  <1>8. CASE \/ Interrupt \/ TakeReadError \/ StreamClosed \/ CapturedAll \/ WaitForHostCoverage
             \/ Check \/ Unwind
    BY <1>2, <1>8 DEF Interrupt, TakeReadError, StreamClosed, CapturedAll, WaitForHostCoverage,
                      Check, Unwind, linkVars, hidVars
  <1> QED BY <1>4, <1>5, <1>6, <1>7, <1>8 DEF CaptureNext

-----------------------------------------------------------------------------
(* The capture: which input belongs to which sample.                       *)

LEMMA TracesStep ==
  ASSUME LinkTypes, CaptureTypes, CaptureTypes', Pipeline, Traces, CaptureNext
  PROVE  Traces'
  <1> DEFINE n == Len(samples)
             q == Len(queue)
  <1>1. /\ n \in Nat /\ captured \in 0..n /\ q \in Nat /\ queue \in Seq(1..MaxSequence)
    BY SamplesAre, LenProperties DEF CaptureTypes, SampleCount
  <1>2. ASSUME UNCHANGED <<samples, captured, queue, sendInput>> PROVE Traces'
    BY <1>2 DEF Traces
  <1>3. CASE DeviceOfCapture BY <1>2, <1>3 DEF DeviceOfCapture, captureVars
  <1>4. CASE HidReaderOfCapture
    <2>1. CASE UNCHANGED captureVars BY <1>2, <2>1 DEF captureVars
    <2>2. CASE DuplicateSequence BY <1>2, <2>2 DEF DuplicateSequence
    <2>3. CASE ObserveHIDV3
      <3> DEFINE m == wire["hid-v3"][1]
      <3>1. /\ Len(samples') = n + 1 /\ \A i \in 1..n : samples'[i] = samples[i]
            /\ samples'[n + 1].sequence = m.sequence /\ samples'[n + 1].t3 = "none"
            /\ \A i \in 1..n : samples[i].sequence # m.sequence
        BY <2>3, ObserveIs
      <3>2. UNCHANGED <<captured, queue, sendInput>> BY <2>3 DEF ObserveHIDV3
      <3>3. \A i \in 1..(n + 1) : i \in 1..n \/ i = n + 1 BY <1>1
      <3>4. \A i, j \in 1..(n + 1) : samples'[i].sequence = samples'[j].sequence => i = j
        BY <3>1, <3>3 DEF Traces
      <3>5. \A i \in captured+1..(n + 1) : samples'[i].t3 = "none"
        <4>1. \A i \in captured+1..(n + 1) : (i \in captured+1..n /\ i \in 1..n) \/ i = n + 1 BY <1>1
        <4> QED BY <3>1, <4>1 DEF Traces
      <3>6. \A i \in 1..(n + 1) : samples'[i].t3 # "none" => samples'[i].actionable /\ sendInput
        BY <3>1, <3>3 DEF Traces
      <3>7. \A i \in 1..captured : i \in 1..n /\ samples'[i] = samples[i] BY <1>1, <3>1
      <3> QED BY <3>1, <3>2, <3>4, <3>5, <3>6, <3>7 DEF Traces
    <2> QED BY <1>4, <2>1, <2>2, <2>3 DEF HidReaderOfCapture, ErrCaptureLimitReached
  <1>5. CASE Worker
    <2>1. /\ Head(queue) = queue[1] /\ q \in Nat \ {0} /\ 1 \in 1..q
          /\ Len(queue') = q - 1 /\ \A k \in 1..(q - 1) : queue'[k] = queue[k + 1]
      BY <1>5, QueueHead DEF Worker
    <2>2. PICK t3 \in {"sent", "failed", "none"} : \A i \in 1..n :
              /\ samples'[i].sequence = samples[i].sequence
              /\ samples'[i].actionable = samples[i].actionable
              /\ samples'[i].t3 = IF ~observerErr /\ samples[i].sequence = Head(queue)
                                  THEN t3 ELSE samples[i].t3
      BY <1>5, WorkerIs
    <2>3. Len(samples') = n BY <1>5, WorkerIs
    <2>4. UNCHANGED <<captured, sendInput>> /\ sendInput BY <1>5 DEF Worker, Traces
    <2>5. PICK h \in 1..captured : samples[h].sequence = Head(queue) /\ samples[h].actionable
      BY <2>1 DEF Traces
    <2>6. h \in 1..n BY <1>1
    <2>7. \A i \in 1..n : samples[i].sequence = Head(queue) => i = h BY <2>5, <2>6 DEF Traces
    <2>8. \A i \in 1..n : i # h => samples'[i].t3 = samples[i].t3 BY <2>2, <2>7
    <2>9. \A i, j \in 1..n : samples'[i].sequence = samples'[j].sequence => i = j
      BY <2>2 DEF Traces
    <2>10. \A i \in captured+1..n : samples'[i].t3 = "none"
      <3>1. \A i \in captured+1..n : i \in 1..n /\ i # h BY <1>1
      <3> QED BY <2>8, <3>1 DEF Traces
    <2>11. \A i \in 1..n : samples'[i].t3 # "none" => samples'[i].actionable /\ sendInput
      BY <2>2, <2>4, <2>5, <2>7, <2>8 DEF Traces
    <2>12. \A k \in 1..(q - 1) : k + 1 \in 1..q /\ k + 1 # 1 BY <2>1
    <2>13. ASSUME NEW k \in 1..(q - 1)
           PROVE  \E i \in 1..captured : samples'[i].sequence = queue'[k]
                                         /\ samples'[i].actionable /\ samples'[i].t3 = "none"
      <3>1. PICK i \in 1..captured : /\ samples[i].sequence = queue[k + 1]
                                     /\ samples[i].actionable /\ samples[i].t3 = "none"
        BY <2>12 DEF Traces
      <3>2. queue[k + 1] # queue[1] BY <2>1, <2>12 DEF Traces
      <3>3. i \in 1..n /\ i # h BY <1>1, <2>1, <2>5, <3>1, <3>2
      <3> QED BY <2>1, <2>2, <2>8, <3>1, <3>3
    <2>14. \A k, l \in 1..(q - 1) : queue'[k] = queue'[l] => k = l
      <3>1. \A k, l \in 1..(q - 1) : k + 1 = l + 1 => k = l OBVIOUS
      <3> QED BY <2>1, <2>12, <3>1 DEF Traces
    <2> QED BY <2>1, <2>3, <2>4, <2>9, <2>10, <2>11, <2>13, <2>14 DEF Traces
  <1>6. CASE TakeEvent
    <2> DEFINE e == Head(hidMessages)
    <2>1. /\ e = hidMessages[1] /\ e \in Messages /\ Len(hidMessages) \in Nat \ {0}
      BY <1>6, EventTaken
    <2>2. captured + 1 \in 1..n BY <1>1, <2>1 DEF Pipeline, InHand
    <2>3. SampleOf(e, captured + 1) BY <2>1 DEF Pipeline
    <2>4. samples[captured + 1].t3 = "none" BY <1>1, <2>2 DEF Traces
    <2>5. UNCHANGED <<samples, sendInput>> /\ captured' = captured + 1 BY <1>6 DEF TakeEvent
    <2>6. \A i \in captured+2..n : i \in captured+1..n BY <1>1
    <2>7. \A i \in 1..captured : i \in 1..(captured + 1) BY <1>1
    <2>8. CASE queue' = queue
      BY <1>1, <2>5, <2>6, <2>7, <2>8 DEF Traces
    <2>9. CASE queue' = Append(queue, e.sequence) /\ sendInput /\ e.type = "stroke"
      <3>1. e.sequence \in 1..MaxSequence BY <2>1 DEF Messages
      <3>2. /\ Len(queue') = q + 1 /\ queue'[q + 1] = e.sequence
            /\ \A k \in 1..q : queue'[k] = queue[k]
        BY <1>1, <2>9, <3>1, AppendProperties
      <3>3. \A k \in 1..(q + 1) : k \in 1..q \/ k = q + 1 BY <1>1
      <3>4. \A k \in 1..q : queue[k] # e.sequence
        <4> SUFFICES ASSUME NEW k \in 1..q, queue[k] = e.sequence PROVE FALSE
          OBVIOUS
        <4>1. PICK i \in 1..captured : samples[i].sequence = queue[k] BY DEF Traces
        <4>2. i \in 1..n /\ i # captured + 1 BY <1>1
        <4> QED BY <2>2, <2>3, <4>1, <4>2 DEF Traces, SampleOf
      <3>5. samples[captured + 1].actionable BY <2>3, <2>9 DEF SampleOf
      <3>6. \A k \in 1..(q + 1) : \E i \in 1..(captured + 1) :
              samples[i].sequence = queue'[k] /\ samples[i].actionable /\ samples[i].t3 = "none"
        <4>1. captured + 1 \in 1..(captured + 1) BY <1>1
        <4> QED BY <2>3, <2>4, <2>7, <3>2, <3>3, <3>5, <4>1 DEF Traces, SampleOf
      <3>7. \A k, l \in 1..(q + 1) : queue'[k] = queue'[l] => k = l
        BY <3>2, <3>3, <3>4 DEF Traces
      <3>8. \A i \in (captured + 1)+1..n : samples[i].t3 = "none" BY <1>1, <2>6 DEF Traces
      <3> QED BY <2>5, <2>9, <3>2, <3>6, <3>7, <3>8 DEF Traces
    <2> QED BY <1>6, <2>8, <2>9 DEF TakeEvent
  <1>7. CASE Unwind
    <2>1. UNCHANGED <<samples, captured, sendInput>> /\ queue' = <<>> /\ Len(queue') = 0
      BY <1>7, EmptySeq DEF Unwind
    <2> QED BY <2>1 DEF Traces
  <1>8. CASE \/ Interrupt \/ TakeReadError \/ StreamClosed \/ CapturedAll \/ WaitForHostCoverage \/ Check
    BY <1>2, <1>8 DEF Interrupt, TakeReadError, StreamClosed, CapturedAll, WaitForHostCoverage, Check
  <1> QED BY <1>3, <1>4, <1>5, <1>6, <1>7, <1>8 DEF CaptureNext

-----------------------------------------------------------------------------
(* The capture: what is written.                                           *)

\* When as many inputs were timed as samples type, and none was refused, each
\* of these samples was timed.
LEMMA AllTimed ==
  ASSUME CaptureTypes, Traces, Observed = Expected, Failures = 0
  PROVE  \A i \in 1..Len(samples) : samples[i].actionable => samples[i].t3 = "sent"
  <1> DEFINE T == {i \in DOMAIN samples : samples[i].t3 # "none"}
             S == {i \in DOMAIN samples : samples[i].actionable}
             F == {i \in DOMAIN samples : samples[i].t3 = "failed"}
  <1>1. /\ Len(samples) \in Nat /\ DOMAIN samples = 1..Len(samples)
        /\ \A i \in 1..Len(samples) : samples[i].t3 \in {"none", "sent", "failed"}
    BY SamplesAre DEF SampleCount
  <1>2. IsFiniteSet(DOMAIN samples)
    <2>1. IsFiniteSet(1..Len(samples)) BY <1>1, FS_Interval
    <2> QED BY <1>1, <2>1
  <1>3. IsFiniteSet(S) /\ IsFiniteSet(F) BY <1>2, FS_Subset
  <1>4. T \in SUBSET S BY <1>1 DEF Traces
  <1>5. S = T BY <1>3, <1>4, FS_Subset DEF Observed, Expected
  <1>6. F = {} BY <1>3, FS_EmptySet DEF Failures
  <1> QED BY <1>1, <1>5, <1>6

LEMMA FinishStep ==
  ASSUME LinkTypes, CaptureTypes, Traces, Finish, CaptureNext
  PROVE  Finish'
  <1>1. Len(samples) \in Nat /\ Len(samples) <= Limit /\ captured \in 0..Len(samples)
    BY SamplesAre DEF SampleCount, CaptureTypes
  <1>2. ASSUME UNCHANGED <<success, flushed, samples, sendInput, captured>>,
               success => main' \in {"unwinding", "ended"},
               main' \in {"covering", "checking"} => captured = Limit
        PROVE  Finish'
    BY <1>2 DEF Finish
  <1>3. CASE DeviceOfCapture BY <1>2, <1>3 DEF DeviceOfCapture, captureVars, Finish
  <1>4. CASE HidReaderOfCapture
    <2>1. CASE UNCHANGED captureVars BY <1>2, <2>1 DEF captureVars, Finish
    <2>2. CASE DuplicateSequence BY <1>2, <2>2 DEF DuplicateSequence, Finish
    <2>3. CASE ObserveHIDV3
      <3>1. Len(samples) < Limit BY <2>3 DEF ObserveHIDV3
      <3>2. ~success BY <1>1, <3>1 DEF Finish
      <3> QED BY <2>3, <3>2 DEF ObserveHIDV3, Finish
    <2> QED BY <1>4, <2>1, <2>2, <2>3 DEF HidReaderOfCapture, ErrCaptureLimitReached
  <1>5. CASE Worker
    <2>1. queue # <<>> /\ 1 \in 1..Len(queue) BY <1>5, QueueHead DEF Worker
    <2>2. PICK i \in 1..captured : samples[i].actionable /\ samples[i].t3 = "none"
      BY <2>1 DEF Traces
    <2>3. i \in 1..Len(samples) BY <1>1
    <2>4. ~success BY <2>1, <2>2, <2>3 DEF Finish, Traces
    <2> QED BY <1>5, <2>4 DEF Worker, Finish
  <1>6. CASE Interrupt BY <1>2, <1>6 DEF Interrupt, Fails, Finish
  <1>7. CASE TakeReadError
    <2>1. /\ UNCHANGED <<success, flushed, samples, sendInput, captured>>
          /\ main = "capturing" /\ main' \in {"capturing", "unwinding"}
      BY <1>7 DEF TakeReadError, Fails
    <2> QED BY <1>2, <2>1 DEF Finish
  <1>8. CASE TakeEvent
    <2>1. /\ UNCHANGED <<success, flushed, samples, sendInput>>
          /\ main = "capturing" /\ main' \in {"capturing", "unwinding"}
      BY <1>8 DEF TakeEvent, Fails
    <2> QED BY <2>1 DEF Finish
  <1>9. CASE StreamClosed BY <1>2, <1>9 DEF StreamClosed, Fails, Finish
  <1>10. CASE CapturedAll BY <1>2, <1>10 DEF CapturedAll, Finish
  <1>11. CASE WaitForHostCoverage BY <1>2, <1>11 DEF WaitForHostCoverage, Fails, Finish
  <1>12. CASE Check
    <2>1. ~success /\ main' = "unwinding" /\ UNCHANGED <<samples, sendInput>>
      BY <1>12 DEF Check, Finish
    <2>2. CASE success'
      <3>1. Complete /\ flushed' = Len(samples) BY <1>12, <2>1, <2>2 DEF Check
      <3>2. sendInput => \A i \in 1..Len(samples) : samples[i].actionable => samples[i].t3 = "sent"
        BY <3>1, AllTimed DEF Complete
      <3> QED BY <2>1, <3>1, <3>2 DEF Complete, Finish
    <2> QED BY <2>1, <2>2 DEF Finish
  <1>13. CASE Unwind
    <2>1. main' = "ended" /\ UNCHANGED <<samples, sendInput, success>> /\ (success => flushed' = flushed)
      BY <1>13 DEF Unwind
    <2> QED BY <2>1 DEF Finish
  <1> QED BY <1>3, <1>4, <1>5, <1>6, <1>7, <1>8, <1>9, <1>10, <1>11, <1>12, <1>13 DEF CaptureNext

-----------------------------------------------------------------------------

TransportInv == TypeOK /\ NumbersInv /\ CaptureInv

LEMMA TransportInit ==
  ASSUME Init
  PROVE  TransportInv
  <1>1. /\ wire \in [Streams -> Seq(Messages)]
        /\ \A s \in Streams : wire[s] = <<>> /\ Len(wire[s]) = 0 /\ Len(wire[s]) <= WireCap
    BY EmptySeq, HidReaderAssumption DEF Init, LinkInit
  <1>2. sequence \in [Streams -> 0..MaxSequence]
    BY HidReaderAssumption DEF Init, LinkInit
  <1>3. DeviceTypes
    BY <1>1, <1>2 DEF Init, LinkInit, DeviceTypes
  <1>4. HeardTypes
    BY TelemetryAssumption DEF Init, LinkInit, HeardTypes, NewStream, NothingHeard, Knowledge
  <1>5. HidTypes
    BY EmptySeq, HidReaderAssumption DEF Init, LinkInit, HidTypes
  <1>6. SessionTypes
    <2>1. 0 \in 0..QueueCap BY HidReaderAssumption
    <2> QED BY <2>1 DEF Init, SessionInit, SessionTypes
  <1>7. /\ captured = 0 /\ flushed = 0 /\ success = FALSE /\ samples = <<>> /\ queue = <<>>
        /\ program = "app" => main = "ended"
        /\ main \in {"capturing", "ended"}
    BY DEF Init, CaptureInit
  <1>8. Len(samples) = 0 /\ Len(queue) = 0 /\ Len(hidMessages) = 0
    BY <1>7, EmptySeq DEF Init, LinkInit
  <1>9. CaptureTypes
    <2>1. Len(samples) <= Limit BY <1>8, CaptureAssumption
    <2>2. /\ samples \in Seq([sequence : 1..MaxSequence, actionable : BOOLEAN, t3 : {"none", "sent", "failed"}])
          /\ queue \in Seq(1..MaxSequence)
      BY <1>7, EmptySeq
    <2>3. captured \in 0..Len(samples) /\ flushed \in 0..Len(samples) BY <1>7, <1>8
    <2>4. sendInput \in BOOLEAN /\ listening \in BOOLEAN /\ observerErr \in BOOLEAN /\ success \in BOOLEAN
      BY DEF Init, CaptureInit
    <2> QED BY <1>7, <2>1, <2>2, <2>3, <2>4 DEF CaptureTypes
  <1>10. TypeOK BY <1>3, <1>4, <1>5, <1>6, <1>9 DEF Init, TypeOK, LinkTypes
  <1>11. NumbersInv
    <2> SUFFICES ASSUME NEW s \in Streams PROVE StreamInv(s)
      BY DEF NumbersInv
    <2>1. /\ heard[s] = NothingHeard
          /\ health[s] = NewStream /\ sent[s] = 0 /\ boots = 0 /\ plugged
      BY DEF Init, LinkInit
    <2>2. OnTheWay(s) BY <1>1 DEF OnTheWay
    <2>3. Accounts(s) BY <2>1, TelemetryAssumption DEF Accounts, NewStream, NothingHeard
    <2>4. Count(s) BY <1>1, <2>1 DEF Count, Current, NewStream, NothingHeard
    <2> QED BY <2>2, <2>3, <2>4 DEF StreamInv
  <1>12. CaptureInv
    <2>1. Pipeline BY <1>7, <1>8 DEF Pipeline, InHand, Init, LinkInit
    <2>2. Traces BY <1>7, <1>8 DEF Traces
    <2>3. Finish BY <1>7 DEF Finish
    <2> QED BY <1>7, <2>1, <2>2, <2>3 DEF CaptureInv
  <1> QED BY <1>10, <1>11, <1>12 DEF TransportInv

LEMMA TransportStep ==
  ASSUME TransportInv, [Next]_vars
  PROVE  TransportInv'
  <1> USE DEF TransportInv, TypeOK
  <1>1. LinkTypes' BY LinkSteps, LinkTypesStep
  <1>2. NumbersInv' BY <1>1, LinkSteps, NumbersStep
  <1>3. CASE program = "app" /\ SessionNext /\ UNCHANGED <<program, captureVars>>
    <2>1. SessionTypes' BY <1>3, SessionTypesStep
    <2>2. CaptureTypes' BY <1>3 DEF CaptureTypes, captureVars
    <2>3. CaptureInv' BY <1>3 DEF CaptureInv, captureVars
    <2> QED BY <1>1, <1>2, <1>3, <2>1, <2>2, <2>3
  <1>4. CASE program = "hid-capture" /\ CaptureNext /\ UNCHANGED <<program, sessionVars>>
    <2>1. Pipeline /\ Traces /\ Finish BY <1>4 DEF CaptureInv
    <2>2. CaptureTypes' BY <1>4, <2>1, CaptureTypesStep
    <2>3. Pipeline' BY <1>4, <2>1, <2>2, PipelineStep
    <2>4. Traces' BY <1>4, <2>1, <2>2, TracesStep
    <2>5. Finish' BY <1>4, <2>1, FinishStep
    <2>6. CaptureInv' BY <1>4, <2>3, <2>4, <2>5 DEF CaptureInv
    <2>7. SessionTypes' BY <1>4 DEF SessionTypes, sessionVars
    <2> QED BY <1>1, <1>2, <1>4, <2>2, <2>6, <2>7
  <1>5. CASE UNCHANGED vars
    <2>1. SessionTypes' /\ CaptureTypes' BY <1>5 DEF vars, SessionTypes, sessionVars, CaptureTypes, captureVars
    <2>2. CaptureInv'
      BY <1>5 DEF vars, linkVars, hidVars, captureVars, CaptureInv, Pipeline, InHand, SampleOf, Traces, Finish
    <2> QED BY <1>1, <1>2, <1>5, <2>1, <2>2 DEF vars
  <1> QED BY <1>3, <1>4, <1>5 DEF Next

LEMMA TransportInvariant == Spec => []TransportInv
  <1>1. Init => TransportInv BY TransportInit
  <1>2. TransportInv /\ [Next]_vars => TransportInv' BY TransportStep
  <1> QED BY <1>1, <1>2, PTL DEF Spec

\* Every channel and buffer stays within its capacity, every number within the
\* range of the firmware's, and the capture tool never takes or writes more
\* than the observer recorded (readLoop, publishError, forwardErrors, Flush).
THEOREM TransportTypeCorrect == Spec => []TypeOK
  <1>1. TransportInv => TypeOK BY DEF TransportInv
  <1> QED BY <1>1, TransportInvariant, PTL

\* While every restart is announced and no whole cycle of numbers is lost, the
\* gaps and epochs telemetry counts are the losses and restarts there were, but
\* for what a ready after a wrap swallows and the few miscounts of each restart
\* whose ready has no smaller number than the last message; for any range of
\* numbers and any number of wraps, faults and restarts
\* (ObserveTransportMessageOn, nextSequence).
THEOREM GapsAreLossesAlways == Spec => []GapsAreLosses
  <1>1. TransportInv => GapsAreLosses
    <2> SUFFICES ASSUME TransportInv, NEW s \in Streams, ~heard[s].untold
                 PROVE  LET h == heard[s]
                        IN  /\ health[s].epochs = h.restarts - h.hidden + h.mistaken
                            /\ health[s].duplicates <= h.hidden
                            /\ health[s].gaps - (h.lost - h.swallowed) \in 0..h.hidden * StartupRange
      BY DEF GapsAreLosses
    <2>1. Accounts(s) BY DEF TransportInv, NumbersInv, StreamInv
    <2>2. /\ health[s].gaps \in Nat /\ heard[s].lost \in Int /\ heard[s].swallowed \in Int
          /\ heard[s].hidden \in Nat /\ StartupRange \in Nat
      BY TelemetryAssumption DEF TransportInv, TypeOK, LinkTypes, HeardTypes, Knowledge
    <2>3. heard[s].hidden * StartupRange \in Nat BY <2>2
    <2> QED BY <2>1, <2>2, <2>3 DEF Accounts
  <1> QED BY <1>1, TransportInvariant, PTL

\* A capture that reports success is complete, for any number of samples and
\* any capacity of the channels (run of tools/hid-capture, HIDV3CSVObserver).
THEOREM CaptureIsCompleteAlways == Spec => []CaptureIsComplete
  <1>1. TransportInv => CaptureIsComplete
    <2> SUFFICES ASSUME TransportInv, success PROVE CaptureIsComplete
      BY DEF CaptureIsComplete
    <2>1. CaptureTypes /\ Pipeline /\ Traces /\ Finish
      BY DEF TransportInv, TypeOK, CaptureInv
    <2>2. DOMAIN samples = 1..Len(samples) BY <2>1, SamplesAre DEF SampleCount
    <2>3. CASE sendInput
      <3>1. {i \in DOMAIN samples : samples[i].t3 # "none"} = {i \in DOMAIN samples : samples[i].actionable}
        BY <2>1, <2>2, <2>3 DEF Traces, Finish
      <3>2. Observed = Expected BY <3>1 DEF Observed, Expected
      <3> QED BY <2>1, <2>2, <2>3, <3>2 DEF Finish, Traces, CaptureIsComplete
    <2>4. CASE ~sendInput
      <3>1. {i \in DOMAIN samples : samples[i].t3 # "none"} = {} BY <2>1, <2>2, <2>4 DEF Traces
      <3>2. Observed = 0 BY <3>1, FS_EmptySet DEF Observed
      <3> QED BY <2>1, <2>2, <2>4, <3>2 DEF Finish, Traces, CaptureIsComplete
    <2> QED BY <2>3, <2>4
  <1> QED BY <1>1, TransportInvariant, PTL

\* The checks of ObserveSendInput that the model leaves out never fail: what
\* the worker reports belongs to exactly one sample, which has no time yet and
\* has not been written by a capture that succeeded.
TracesAreSamples ==
    program = "hid-capture" =>
        \A k \in DOMAIN queue : \E i \in DOMAIN samples :
            /\ samples[i].sequence = queue[k] /\ samples[i].t3 = "none" /\ ~success
            /\ \A j \in DOMAIN samples : samples[j].sequence = queue[k] => j = i

\* Every trace waiting for the worker is that of one unwritten sample.
THEOREM TracesAreSamplesAlways == Spec => []TracesAreSamples
  <1>1. TransportInv => TracesAreSamples
    <2> SUFFICES ASSUME TransportInv, program = "hid-capture", NEW k \in DOMAIN queue
                 PROVE  \E i \in DOMAIN samples :
                          /\ samples[i].sequence = queue[k] /\ samples[i].t3 = "none" /\ ~success
                          /\ \A j \in DOMAIN samples : samples[j].sequence = queue[k] => j = i
      BY DEF TracesAreSamples
    <2>1. CaptureTypes /\ Pipeline /\ Traces /\ Finish
      BY DEF TransportInv, TypeOK, CaptureInv
    <2>2. DOMAIN samples = 1..Len(samples) /\ Len(samples) \in Nat /\ captured \in 0..Len(samples)
      BY <2>1, SamplesAre DEF SampleCount, CaptureTypes
    <2>3. k \in 1..Len(queue) /\ queue # <<>>
      BY <2>1, LenProperties, EmptySeq DEF CaptureTypes
    <2>4. PICK i \in 1..captured :
            samples[i].sequence = queue[k] /\ samples[i].actionable /\ samples[i].t3 = "none"
      BY <2>1, <2>3 DEF Traces
    <2>5. i \in 1..Len(samples) BY <2>2
    <2>6. ~success BY <2>1, <2>3, <2>4, <2>5 DEF Traces, Finish
    <2> QED BY <2>1, <2>2, <2>4, <2>5, <2>6 DEF Traces
  <1> QED BY <1>1, TransportInvariant, PTL
=============================================================================
