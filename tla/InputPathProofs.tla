-------------------------- MODULE InputPathProofs --------------------------
(***************************************************************************)
(* Proofs about InputPath, for every set of actions and events, every      *)
(* capacity and nesting, and any part of a batch Windows may insert.       *)
(***************************************************************************)
EXTENDS InputPath, FiniteSetTheorems, SequenceTheorems, TLAPS

-----------------------------------------------------------------------------
(* The inductive invariant.                                                *)

KeyEvents == [key : Resolves \cup Buttons \cup STRING, down : BOOLEAN]

\* Every key that goes down comes up later, in the same batch or a later one.
Released(batches) ==
    \A i \in DOMAIN batches : \A j \in DOMAIN batches[i] :
        batches[i][j].down =>
            \/ \E l \in DOMAIN batches[i] :
                  l > j /\ batches[i][l].key = batches[i][j].key /\ ~batches[i][l].down
            \/ \E h \in DOMAIN batches : h > i /\ batches[i][j].key \in KeysUp(batches[h])

\* A key that is down comes up with what the action in hand has still to do.
KeysInv ==
    /\ calls \in Seq(Seq(KeyEvents)) /\ Released(calls)
    /\ \A k \in held \ refused : \E i \in DOMAIN calls : k \in KeysUp(calls[i])
    /\ \A i \in DOMAIN calls : \E j \in DOMAIN executeInputAction(current.action) :
          KeysUp(calls[i]) \subseteq KeysIn(executeInputAction(current.action)[j])

Entries == Nat \X Actions

OrderInv ==
    /\ accepted \in Seq(Entries) /\ struck \in Seq(Entries)
    /\ queued \in Seq(Entries) /\ stepped \in Seq(Entries) /\ scheduled \in Seq(Entries)
    /\ RealtimeInOrder /\ StepsInOrder

\* The handler is closed after the goroutines that call it have ended.
ClosingInv ==
    /\ window \in {"waiting", "ended"} => processor = "done"
    /\ closed => window \in {"waiting", "ended"}
    /\ OnlyBackgroundDrops

\* What an event may carry on: it was not captured.
Passed == 1..serial \ captured

HandlerPassed ==
    /\ \A i \in DOMAIN backgroundQueue : backgroundQueue[i].id \in Passed
    /\ playing # None => playing.id \in Passed
    /\ \A i \in DOMAIN accepted : accepted[i][1] \in Passed
    /\ \A i \in DOMAIN scheduled : scheduled[i][1] \in Passed

CapturesInv ==
    /\ arms = Cardinality(captured) + (IF captureActive THEN 1 ELSE 0)
    /\ processor = "dispatch" => event.id \in Passed
    /\ window = "test" => testing.id \in Passed
    /\ HandlerPassed
    /\ \A entry \in dropped : entry[1] \in Passed

PathInv == TypeOK /\ KeysInv /\ OrderInv /\ ClosingInv /\ CapturesInv

-----------------------------------------------------------------------------
(* The injections of an action release what they press.                    *)

LEMMA OneEvent ==
  ASSUME NEW S, NEW e \in S
  PROVE  <<e>> \in Seq(S) /\ Len(<<e>>) = 1 /\ <<e>>[1] = e /\ DOMAIN <<e>> = {1}
  OBVIOUS

LEMMA TwoEvents ==
  ASSUME NEW S, NEW d \in S, NEW e \in S
  PROVE  /\ <<d, e>> \in Seq(S) /\ Len(<<d, e>>) = 2
         /\ <<d, e>>[1] = d /\ <<d, e>>[2] = e /\ DOMAIN <<d, e>> = {1, 2}
  OBVIOUS

LEMMA EventType ==
  ASSUME NEW k \in Resolves \cup Buttons \cup STRING, NEW down \in BOOLEAN
  PROVE  /\ KeyInput(k, down) \in KeyEvents
         /\ KeyInput(k, down).key = k /\ KeyInput(k, down).down = down
  BY DEF KeyInput, KeyEvents

LEMMA ToggleType ==
  ASSUME NEW k, NEW down \in BOOLEAN
  PROVE  /\ KeyToggle(k, down) \in Seq(KeyEvents)
         /\ k \notin Resolves => DOMAIN KeyToggle(k, down) = {}
         /\ k \in Resolves => /\ DOMAIN KeyToggle(k, down) = {1}
                              /\ KeyToggle(k, down)[1].key = k
                              /\ KeyToggle(k, down)[1].down = down
  <1>1. CASE k \in Resolves BY <1>1, EventType, OneEvent DEF KeyToggle
  <1>2. CASE k \notin Resolves BY <1>2 DEF KeyToggle
  <1> QED BY <1>1, <1>2

LEMMA TapType ==
  ASSUME NEW k
  PROVE  /\ KeyTap(k) \in Seq(KeyEvents)
         /\ k \notin Resolves \cup Buttons => DOMAIN KeyTap(k) = {}
         /\ k \in Resolves \cup Buttons =>
               /\ DOMAIN KeyTap(k) = {1, 2}
               /\ KeyTap(k)[1].key = k /\ KeyTap(k)[2].key = k /\ ~KeyTap(k)[2].down
  <1>1. CASE k \in Resolves \cup Buttons
    <2>1. KeyInput(k, TRUE) \in KeyEvents /\ KeyInput(k, FALSE) \in KeyEvents BY <1>1, EventType
    <2>2. /\ KeyTap(k) \in Seq(KeyEvents) /\ DOMAIN KeyTap(k) = {1, 2}
          /\ KeyTap(k)[1] = KeyInput(k, TRUE) /\ KeyTap(k)[2] = KeyInput(k, FALSE)
      <3> DEFINE d == KeyInput(k, TRUE)
                 e == KeyInput(k, FALSE)
      <3>1. KeyTap(k) = <<d, e>> BY <1>1 DEF KeyTap
      <3>2. d \in KeyEvents /\ e \in KeyEvents BY <2>1
      <3> HIDE DEF d, e
      <3>3. <<d, e>> \in Seq(KeyEvents) /\ <<d, e>>[1] = d /\ <<d, e>>[2] = e /\ DOMAIN <<d, e>> = {1, 2}
        BY <3>2, TwoEvents
      <3> QED BY <3>1, <3>3 DEF d, e
    <2> QED BY <1>1, <2>2, EventType
  <1>2. CASE k \notin Resolves \cup Buttons BY <1>2 DEF KeyTap
  <1> QED BY <1>1, <1>2

\* What is pressed by a tap is released by it.
LEMMA TapReleases ==
  ASSUME NEW k, NEW j \in DOMAIN KeyTap(k), KeyTap(k)[j].down
  PROVE  \E l \in DOMAIN KeyTap(k) : l > j /\ KeyTap(k)[l].key = KeyTap(k)[j].key /\ ~KeyTap(k)[l].down
  <1>1. k \in Resolves \cup Buttons BY TapType
  <1>2. DOMAIN KeyTap(k) = {1, 2} /\ j = 1 BY <1>1, TapType
  <1> QED BY <1>1, <1>2, TapType

LEMMA OneBatch ==
  ASSUME NEW batch \in Seq(KeyEvents),
         \A j \in DOMAIN batch : batch[j].down =>
            \E l \in DOMAIN batch : l > j /\ batch[l].key = batch[j].key /\ ~batch[l].down
  PROVE  <<batch>> \in Seq(Seq(KeyEvents)) /\ Released(<<batch>>)
  <1> DEFINE b == <<batch>>
  <1>1. b \in Seq(Seq(KeyEvents)) /\ DOMAIN b = {1} /\ b[1] = batch BY OneEvent
  <1> HIDE DEF b
  <1>2. Released(b) BY <1>1 DEF Released
  <1> QED BY <1>1, <1>2 DEF b

LEMMA TextReleases ==
  ASSUME NEW units \in Seq(STRING)
  PROVE  TypeText(units) \in Seq(Seq(KeyEvents)) /\ Released(TypeText(units))
  <1> DEFINE n == Len(units)
             e == [i \in 1..2 * n |-> KeyInput(units[(i + 1) \div 2], i % 2 = 1)]
  <1>1. n \in Nat /\ 2 * n \in Nat BY LenProperties
  <1>2. \A i \in 1..2 * n : (i + 1) \div 2 \in 1..n BY <1>1
  <1>3. \A i \in 1..2 * n : units[(i + 1) \div 2] \in STRING BY <1>2, ElementOfSeq
  <1>4. \A i \in 1..2 * n : /\ KeyInput(units[(i + 1) \div 2], i % 2 = 1) \in KeyEvents
                            /\ KeyInput(units[(i + 1) \div 2], i % 2 = 1).key = units[(i + 1) \div 2]
                            /\ KeyInput(units[(i + 1) \div 2], i % 2 = 1).down = (i % 2 = 1)
    <2> SUFFICES ASSUME NEW i \in 1..2 * n
                 PROVE  /\ KeyInput(units[(i + 1) \div 2], i % 2 = 1) \in KeyEvents
                        /\ KeyInput(units[(i + 1) \div 2], i % 2 = 1).key = units[(i + 1) \div 2]
                        /\ KeyInput(units[(i + 1) \div 2], i % 2 = 1).down = (i % 2 = 1)
      OBVIOUS
    <2>1. units[(i + 1) \div 2] \in Resolves \cup Buttons \cup STRING BY <1>3
    <2>2. (i % 2 = 1) \in BOOLEAN OBVIOUS
    <2> QED BY <2>1, <2>2, EventType
  <1>5. e \in [1..2 * n -> KeyEvents] BY <1>4
  <1>6. DOMAIN e = 1..2 * n /\ e \in Seq(KeyEvents)
    BY <1>1, <1>5, SeqDef
  <1>7. \A i \in 1..2 * n : e[i].key = units[(i + 1) \div 2] /\ e[i].down = (i % 2 = 1)
    BY <1>4
  <1> HIDE DEF e
  <1>8. ASSUME NEW j \in 1..2 * n, e[j].down
        PROVE  \E l \in 1..2 * n : l > j /\ e[l].key = e[j].key /\ ~e[l].down
    <2>1. j % 2 = 1 BY <1>7, <1>8
    <2>2. /\ j + 1 \in 1..2 * n /\ (j + 1) % 2 # 1 /\ j + 1 > j
          /\ (j + 1 + 1) \div 2 = (j + 1) \div 2
      <3> HIDE DEF n
      <3> QED BY <1>1, <2>1
    <2>3. e[j + 1].key = e[j].key BY <1>7, <2>2
    <2>4. ~e[j + 1].down BY <1>7, <2>2
    <2> QED BY <2>2, <2>3, <2>4
  <1>9. TypeText(units) = <<e>> BY DEF TypeText, e
  <1> QED BY <1>6, <1>8, <1>9, OneBatch

LEMMA ComboReleases ==
  ASSUME NEW keys \in Seq(STRING), keys # <<>>
  PROVE  handleCombo(keys) \in Seq(Seq(KeyEvents)) /\ Released(handleCombo(keys))
  <1> DEFINE n == Len(keys)
             b == handleCombo(keys)
  <1>1. n \in Nat \ {0} /\ 2 * n - 1 \in Nat BY EmptySeq
  <1>2. DOMAIN b = 1..2 * n - 1 BY DEF handleCombo
  <1>3. \A i \in 1..2 * n - 1 :
           /\ i < n => b[i] = KeyToggle(keys[i], TRUE)
           /\ i = n => b[i] = KeyTap(keys[n])
           /\ i > n => b[i] = KeyToggle(keys[2 * n - i], FALSE)
    <2>1. \A i \in 1..2 * n - 1 : b[i] = IF i < n THEN KeyToggle(keys[i], TRUE)
                                       ELSE IF i = n THEN KeyTap(keys[n])
                                       ELSE KeyToggle(keys[2 * n - i], FALSE)
      <3>1. b = [i \in 1..2 * n - 1 |-> IF i < n THEN KeyToggle(keys[i], TRUE)
                                       ELSE IF i = n THEN KeyTap(keys[n])
                                       ELSE KeyToggle(keys[2 * n - i], FALSE)]
        BY DEF handleCombo
      <3> HIDE DEF b, n
      <3> QED BY <3>1
    <2> HIDE DEF b, n
    <2>2. n \in Nat BY <1>1
    <2>3. \A i \in 1..2 * n - 1 : (i = n => ~(i < n)) /\ (i > n => ~(i < n) /\ i # n) BY <2>2
    <2> QED BY <2>1, <2>3, Zenon
  <1>5. b = [i \in 1..2 * n - 1 |-> b[i]] BY <1>2 DEF handleCombo
  <1> HIDE DEF b, n
  <1>4. ASSUME NEW i \in 1..2 * n - 1 PROVE b[i] \in Seq(KeyEvents)
    <2>1. CASE i < n BY <1>3, <2>1, ToggleType
    <2>2. CASE i = n BY <1>3, <2>2, TapType
    <2>3. CASE i > n BY <1>3, <2>3, ToggleType
    <2> QED BY <1>1, <2>1, <2>2, <2>3
  <1>6. b \in [1..2 * n - 1 -> Seq(KeyEvents)] BY <1>4, <1>5
  <1>7. b \in Seq(Seq(KeyEvents)) BY <1>1, <1>6, SeqDef
  <1>8. ASSUME NEW i \in DOMAIN b, NEW j \in DOMAIN b[i], b[i][j].down
        PROVE  \/ \E l \in DOMAIN b[i] : l > j /\ b[i][l].key = b[i][j].key /\ ~b[i][l].down
               \/ \E h \in DOMAIN b : h > i /\ b[i][j].key \in KeysUp(b[h])
    <2>1. CASE i = n
      <3>1. b[i] = KeyTap(keys[n]) BY <1>2, <1>3, <2>1
      <3> QED BY <1>8, <3>1, TapReleases
    <2>2. CASE i < n
      <3>1. b[i] = KeyToggle(keys[i], TRUE) BY <1>2, <1>3, <2>2
      <3>2. keys[i] \in Resolves /\ j = 1 BY <3>1, ToggleType
      <3>3. b[i][j].key = keys[i] BY <3>1, <3>2, ToggleType
      <3>4. /\ 2 * n - i \in DOMAIN b /\ 2 * n - i > n /\ 2 * n - i > i
            /\ 2 * n - (2 * n - i) = i
        BY <1>1, <1>2, <2>2
      <3>5. b[2 * n - i] = KeyToggle(keys[i], FALSE) BY <1>2, <1>3, <3>4
      <3>6. /\ DOMAIN b[2 * n - i] = {1} /\ b[2 * n - i][1].key = keys[i]
            /\ ~b[2 * n - i][1].down
        BY <3>2, <3>5, ToggleType
      <3>7. keys[i] \in KeysUp(b[2 * n - i]) BY <3>6 DEF KeysUp
      <3> QED BY <3>3, <3>4, <3>7
    <2>3. CASE i > n
      <3>1. b[i] = KeyToggle(keys[2 * n - i], FALSE) BY <1>2, <1>3, <2>3
      <3>2. keys[2 * n - i] \in Resolves /\ j = 1 BY <3>1, ToggleType
      <3>3. ~b[i][j].down BY <3>1, <3>2, ToggleType
      <3> QED BY <1>8, <3>3
    <2> QED BY <1>1, <1>2, <2>1, <2>2, <2>3
  <1>9. Released(b) BY <1>8 DEF Released
  <1> QED BY <1>7, <1>9 DEF b

LEMMA ActionReleases ==
  ASSUME NEW a \in Actions
  PROVE  executeInputAction(a) \in Seq(Seq(KeyEvents)) /\ Released(executeInputAction(a))
  <1>1. <<>> \in Seq(Seq(KeyEvents)) /\ Released(<<>>) BY DEF Released
  <1>2. CASE a.type = "key"
    BY <1>2, TapType, TapReleases, OneBatch DEF executeInputAction
  <1>3. CASE a.type = "text"
    BY <1>3, TextReleases, HandlerAssumption DEF executeInputAction
  <1>4. CASE a.type = "combo"
    BY <1>4, ComboReleases, HandlerAssumption DEF executeInputAction
  <1>5. CASE a.type \notin {"key", "text", "combo"}
    BY <1>1, <1>5 DEF executeInputAction
  <1> QED BY <1>2, <1>3, <1>4, <1>5

-----------------------------------------------------------------------------
(* One SendInput.                                                          *)

\* A key a batch leaves down though Windows did not refuse its release was
\* down before it or is pressed by it, and is not released by it.
LEMMA SendLeaves ==
  ASSUME NEW batch \in Seq(KeyEvents), NEW n \in 0..Len(batch),
         held' = (held \ KeysIn(SubSeq(batch, 1, n))) \cup KeysDown(SubSeq(batch, 1, n)),
         refused' = (refused \ KeysUp(SubSeq(batch, 1, n)))
                        \cup KeysUp(SubSeq(batch, n + 1, Len(batch))),
         NEW k \in held' \ refused'
  PROVE  \/ k \in held \ refused /\ k \notin KeysUp(batch)
         \/ \E j \in DOMAIN batch :
               /\ batch[j].down /\ batch[j].key = k
               /\ ~\E l \in DOMAIN batch : l > j /\ batch[l].key = batch[j].key /\ ~batch[l].down
  <1> DEFINE m == Len(batch)
             done == SubSeq(batch, 1, n)
             rest == SubSeq(batch, n + 1, m)
  <1>1. m \in Nat /\ DOMAIN batch = 1..m /\ \A i \in 1..m : batch[i] \in KeyEvents
    BY LenProperties, ElementOfSeq
  <1>2. DOMAIN done = 1..n /\ \A i \in 1..n : done[i] = batch[i]
    <2>1. \A i \in 1..n : batch[i] \in KeyEvents BY <1>1
    <2>2. Len(done) = n /\ done \in Seq(KeyEvents) BY <1>1, <2>1, SubSeqProperties
    <2>3. \A i \in 1..n : done[i] = batch[i] BY <1>1, <2>1, SubSeqProperties
    <2> QED BY <2>2, <2>3, LenProperties
  <1>3. DOMAIN rest = 1..(m - n) /\ \A i \in 1..(m - n) : rest[i] = batch[n + i]
    <2>1. \A i \in n+1..m : batch[i] \in KeyEvents BY <1>1
    <2>2. /\ rest \in Seq(KeyEvents) /\ Len(rest) = IF n + 1 <= m THEN m - (n + 1) + 1 ELSE 0
          /\ \A i \in 1..m - (n + 1) + 1 : rest[i] = batch[n + 1 + i - 1]
      BY <1>1, <2>1, SubSeqProperties
    <2>3. Len(rest) = m - n
      <3>1. n \in 0..m OBVIOUS
      <3> HIDE DEF rest, m
      <3> QED BY <1>1, <2>2, <3>1
    <2>4. \A i \in 1..(m - n) : i \in 1..m - (n + 1) + 1 /\ n + 1 + i - 1 = n + i BY <1>1
    <2> QED BY <2>2, <2>3, <2>4, LenProperties
  <1> HIDE DEF done, rest, m
  <1>4. held' = (held \ KeysIn(done)) \cup KeysDown(done)
    BY DEF done
  <1>5. refused' = (refused \ KeysUp(done)) \cup KeysUp(rest)
    BY DEF done, rest, m
  <1>6. k \notin KeysUp(rest) /\ (k \in refused => k \in KeysUp(done)) BY <1>5
  <1>7. \A l \in 1..m : l > n => batch[l].key # k \/ batch[l].down
    <2> SUFFICES ASSUME NEW l \in 1..m, l > n, batch[l].key = k, ~batch[l].down PROVE FALSE
      OBVIOUS
    <2>1. l - n \in 1..(m - n) /\ n + (l - n) = l BY <1>1
    <2>2. rest[l - n] = batch[n + (l - n)] BY <1>3, <2>1
    <2>3. rest[l - n].key = k /\ ~rest[l - n].down BY <2>1, <2>2
    <2>4. k \in KeysUp(rest) BY <1>3, <2>1, <2>3 DEF KeysUp
    <2> QED BY <1>6, <2>4
  <1>8. CASE k \in held \ KeysIn(done)
    <2>1. k \notin KeysUp(done) BY <1>8 DEF KeysIn, KeysUp
    <2>2. ASSUME k \in KeysUp(batch) PROVE FALSE
      <3>1. PICK l \in 1..m : ~batch[l].down /\ batch[l].key = k BY <1>1, <2>2 DEF KeysUp
      <3>2. l \in 1..n BY <1>1, <1>7, <3>1
      <3>3. k \in KeysUp(done) BY <1>2, <3>1, <3>2 DEF KeysUp
      <3> QED BY <2>1, <3>3
    <2> QED BY <1>6, <1>8, <2>1, <2>2
  <1>9. CASE k \in KeysDown(done)
    <2>1. PICK j \in 1..n : /\ done[j].down /\ done[j].key = k
                            /\ \A l \in 1..n : l > j => done[l].key # done[j].key
      BY <1>2, <1>9 DEF KeysDown
    <2>2. j \in 1..m BY <1>1
    <2>3. batch[j].down /\ batch[j].key = k BY <1>2, <2>1
    <2>4. \A l \in 1..m : l > j => batch[l].key # k \/ batch[l].down
      <3> SUFFICES ASSUME NEW l \in 1..m, l > j PROVE batch[l].key # k \/ batch[l].down
        OBVIOUS
      <3>1. CASE l > n BY <1>7, <3>1
      <3>2. CASE ~(l > n)
        <4>1. l \in 1..n BY <1>1, <3>2
        <4> QED BY <1>2, <2>1, <4>1
      <3> QED BY <3>1, <3>2
    <2> QED BY <1>1, <2>2, <2>3, <2>4
  <1> QED BY <1>4, <1>8, <1>9

\* What is released with the rest of the batches, and what is left down.
LEMMA SendKeeps ==
  ASSUME KeysInv, calls # <<>>, NEW n, sendInputs(Head(calls), n), calls' = Tail(calls),
         current' = current
  PROVE  KeysInv'
  <1> DEFINE c == calls
             r == Tail(calls)
             q == Len(calls)
  <1>1. /\ c \in Seq(Seq(KeyEvents)) /\ q \in Nat \ {0} /\ DOMAIN c = 1..q
    BY LenProperties, EmptySeq DEF KeysInv
  <1>2. /\ r \in Seq(Seq(KeyEvents)) /\ DOMAIN r = 1..(q - 1)
        /\ \A i \in 1..(q - 1) : r[i] = c[i + 1]
    BY <1>1, HeadTailProperties, LenProperties
  <1>3. Head(c) = c[1] /\ c[1] \in Seq(KeyEvents) /\ 1 \in DOMAIN c
    BY <1>1, ElementOfSeq
  <1>4. \A i \in 1..q : i > 1 => i - 1 \in 1..(q - 1) /\ r[i - 1] = c[i]
    <2> SUFFICES ASSUME NEW i \in 1..q, i > 1 PROVE i - 1 \in 1..(q - 1) /\ r[i - 1] = c[i]
      OBVIOUS
    <2>1. i - 1 \in 1..(q - 1) /\ i - 1 + 1 = i BY <1>1
    <2> QED BY <1>2, <2>1
  <1>5. Released(c) BY DEF KeysInv
  <1>6. n \in 0..Len(c[1])
    <2>1. Len(c[1]) \in Nat BY <1>3, LenProperties
    <2> QED BY <1>3, <2>1 DEF sendInputs
  <1>7. \A i \in 1..(q - 1) : i + 1 \in 1..q BY <1>1
  <1> HIDE DEF c, r, q
  <1>8. Released(r)
    <2> SUFFICES ASSUME NEW i \in 1..(q - 1), NEW j \in DOMAIN r[i], r[i][j].down
                 PROVE  \/ \E l \in DOMAIN r[i] : l > j /\ r[i][l].key = r[i][j].key /\ ~r[i][l].down
                        \/ \E h \in 1..(q - 1) : h > i /\ r[i][j].key \in KeysUp(r[h])
      BY <1>2 DEF Released
    <2>1. r[i] = c[i + 1] /\ i + 1 \in DOMAIN c BY <1>1, <1>2, <1>7
    <2>2. CASE \E l \in DOMAIN c[i + 1] :
                 l > j /\ c[i + 1][l].key = c[i + 1][j].key /\ ~c[i + 1][l].down
      BY <2>1, <2>2
    <2>3. CASE \E h \in DOMAIN c : h > i + 1 /\ c[i + 1][j].key \in KeysUp(c[h])
      <3>1. PICK h \in 1..q : h > i + 1 /\ c[i + 1][j].key \in KeysUp(c[h]) BY <1>1, <2>3
      <3>2. h > 1 /\ h - 1 > i BY <1>1, <3>1
      <3>3. h - 1 \in 1..(q - 1) /\ r[h - 1] = c[h] BY <1>4, <3>2
      <3> QED BY <2>1, <3>1, <3>2, <3>3
    <2> QED BY <1>5, <2>1, <2>2, <2>3 DEF Released
  <1>9. ASSUME NEW k \in held' \ refused' PROVE \E i \in 1..(q - 1) : k \in KeysUp(r[i])
    <2>1. \/ k \in held \ refused /\ k \notin KeysUp(c[1])
          \/ \E j \in DOMAIN c[1] :
                /\ c[1][j].down /\ c[1][j].key = k
                /\ ~\E l \in DOMAIN c[1] : l > j /\ c[1][l].key = c[1][j].key /\ ~c[1][l].down
      BY <1>3, <1>6, <1>9, SendLeaves DEF sendInputs, c
    <2>2. PICK h \in 1..q : h > 1 /\ k \in KeysUp(c[h])
      <3>1. CASE k \in held \ refused /\ k \notin KeysUp(c[1])
        <4>1. PICK h \in 1..q : k \in KeysUp(c[h]) BY <1>1, <3>1 DEF KeysInv, c
        <4>2. h # 1 BY <3>1, <4>1
        <4>3. h > 1 BY <1>1, <4>2
        <4> QED BY <4>1, <4>3
      <3>2. CASE \E j \in DOMAIN c[1] :
                /\ c[1][j].down /\ c[1][j].key = k
                /\ ~\E l \in DOMAIN c[1] : l > j /\ c[1][l].key = c[1][j].key /\ ~c[1][l].down
        BY <1>1, <1>3, <1>5, <3>2 DEF Released
      <3> QED BY <2>1, <3>1, <3>2
    <2> QED BY <1>4, <2>2
  <1>10. ASSUME NEW i \in 1..(q - 1)
         PROVE  \E j \in DOMAIN executeInputAction(current.action) :
                   KeysUp(r[i]) \subseteq KeysIn(executeInputAction(current.action)[j])
    <2>1. r[i] = c[i + 1] /\ i + 1 \in DOMAIN c BY <1>1, <1>2, <1>7
    <2> QED BY <2>1 DEF KeysInv, c
  <1>11. calls' = r BY DEF r
  <1> QED BY <1>2, <1>8, <1>9, <1>10, <1>11 DEF KeysInv

LEMMA KeysUpAreIn ==
  ASSUME NEW batch
  PROVE  KeysUp(batch) \subseteq KeysIn(batch)
  BY DEF KeysUp, KeysIn

\* An action begins only when no key is owed.
LEMMA BeginKeeps ==
  ASSUME KeysInv, calls = <<>>, UNCHANGED <<held, refused>>,
         NEW req, req.action \in Actions, current' = req, calls' = executeInputAction(req.action)
  PROVE  KeysInv'
  <1>1. held \ refused = {} BY DEF KeysInv
  <1>2. calls' \in Seq(Seq(KeyEvents)) /\ Released(calls') BY ActionReleases
  <1>3. \A i \in DOMAIN calls' : KeysUp(calls'[i]) \subseteq KeysIn(executeInputAction(current'.action)[i])
    BY KeysUpAreIn
  <1> QED BY <1>1, <1>2, <1>3 DEF KeysInv

LEMMA KeysStay ==
  ASSUME KeysInv, UNCHANGED <<held, refused, calls>>, current' = current \/ calls = <<>>
  PROVE  KeysInv'
  <1>1. CASE current' = current BY <1>1 DEF KeysInv
  <1>2. CASE calls = <<>>
    <2>1. DOMAIN calls = {} BY <1>2
    <2> QED BY <2>1 DEF KeysInv
  <1> QED BY <1>1, <1>2

-----------------------------------------------------------------------------
(* Queues and their entries.                                               *)

LEMMA Kinds ==
  ASSUME NEW a \in Actions
  PROVE  /\ isBackgroundAction(a) <=> ~IsInput(a)
         /\ isBackgroundAction(a) => a.type \in {"command", "macro"}
         /\ a.type = "macro" => a.macro \in Seq(Actions)
  BY HandlerAssumption DEF isBackgroundAction, IsInput

LEMMA RequestType ==
  ASSUME NEW a \in Actions, NEW id \in Nat, NEW t \in Nat
  PROVE  /\ Request(a, id, t) \in Requests
         /\ Request(a, id, t).action = a /\ Request(a, id, t).id = id
         /\ Name(Request(a, id, t)) = <<id, a>>
         /\ IsInput(a) => Request(a, id, t) \in Steps
         /\ ~IsInput(a) => Request(a, id, t) \in Requests \ Steps
  BY DEF Request, Requests, Steps, Name

LEMMA RequestIs ==
  ASSUME NEW r \in Requests
  PROVE  r.action \in Actions /\ r.id \in Nat /\ Name(r) \in Entries
  BY DEF Requests, Name, Entries

LEMMA NamedIs ==
  ASSUME NEW q \in Seq(Requests)
  PROVE  /\ Named(q) \in Seq(Entries) /\ Len(Named(q)) = Len(q)
         /\ \A i \in 1..Len(q) : Named(q)[i] = Name(q[i])
  <1>1. Len(q) \in Nat /\ DOMAIN q = 1..Len(q) /\ \A i \in 1..Len(q) : q[i] \in Requests
    BY LenProperties, ElementOfSeq
  <1>2. Named(q) \in [1..Len(q) -> Entries] BY <1>1, RequestIs DEF Named
  <1>3. Named(q) \in Seq(Entries) /\ DOMAIN Named(q) = 1..Len(q) BY <1>1, <1>2, SeqDef
  <1>4. Len(Named(q)) = Len(q) BY <1>1, <1>3, LenProperties
  <1> QED BY <1>1, <1>3, <1>4 DEF Named

LEMMA NamedAppend ==
  ASSUME NEW q \in Seq(Requests), NEW r \in Requests
  PROVE  Named(Append(q, r)) = Append(Named(q), Name(r))
  <1> DEFINE a == Append(q, r)
             n == Named(q)
             b == Append(n, Name(r))
  <1>1. a \in Seq(Requests) /\ Len(a) = Len(q) + 1 /\ a[Len(q) + 1] = r
        /\ \A i \in 1..Len(q) : a[i] = q[i]
    BY AppendProperties
  <1>2. n \in Seq(Entries) /\ Len(n) = Len(q) /\ \A i \in 1..Len(q) : n[i] = Name(q[i]) BY NamedIs
  <1>3. Name(r) \in Entries BY RequestIs
  <1>4. b \in Seq(Entries) /\ Len(b) = Len(q) + 1 /\ b[Len(q) + 1] = Name(r)
        /\ \A i \in 1..Len(q) : b[i] = n[i]
    BY <1>2, <1>3, AppendProperties
  <1> HIDE DEF a, b, n
  <1>5. /\ Named(a) \in Seq(Entries) /\ Len(Named(a)) = Len(q) + 1
        /\ \A i \in 1..(Len(q) + 1) : Named(a)[i] = Name(a[i])
    BY <1>1, NamedIs
  <1>6. Len(q) \in Nat BY LenProperties
  <1>7. \A i \in 1..(Len(q) + 1) : i \in 1..Len(q) \/ i = Len(q) + 1 BY <1>6
  <1>8. \A i \in 1..(Len(q) + 1) : Named(a)[i] = b[i] BY <1>1, <1>2, <1>4, <1>5, <1>7
  <1>9. Named(a) = b BY <1>4, <1>5, <1>8, SeqEqual
  <1> QED BY <1>9 DEF a, b, n

LEMMA NamedTail ==
  ASSUME NEW q \in Seq(Requests), q # <<>>
  PROVE  /\ Head(q) \in Requests /\ Tail(q) \in Seq(Requests)
         /\ Named(q) = <<Name(Head(q))>> \o Named(Tail(q))
  <1> DEFINE t == Tail(q)
             h == Head(q)
             n == Named(t)
             b == <<Name(h)>> \o n
  <1>1. /\ h \in Requests /\ t \in Seq(Requests) /\ Len(t) = Len(q) - 1
        /\ \A i \in 1..Len(t) : t[i] = q[i + 1]
    BY HeadTailProperties
  <1>2. h = q[1] /\ Len(q) \in Nat \ {0} BY LenProperties, EmptySeq
  <1>3. n \in Seq(Entries) /\ Len(n) = Len(q) - 1 /\ \A i \in 1..Len(q) - 1 : n[i] = Name(q[i + 1])
    BY <1>1, NamedIs
  <1>4. <<Name(h)>> \in Seq(Entries) /\ Len(<<Name(h)>>) = 1 /\ <<Name(h)>>[1] = Name(h)
    BY <1>1, RequestIs, OneEvent
  <1>5. /\ b \in Seq(Entries) /\ Len(b) = Len(q)
        /\ \A i \in 1..Len(q) : b[i] = IF i <= 1 THEN <<Name(h)>>[i] ELSE n[i - 1]
    <2> HIDE DEF n, h
    <2>1. /\ b \in Seq(Entries) /\ Len(b) = 1 + (Len(q) - 1)
          /\ \A i \in 1..1 + (Len(q) - 1) : b[i] = IF i <= 1 THEN <<Name(h)>>[i] ELSE n[i - 1]
      BY <1>3, <1>4, ConcatProperties
    <2>2. 1 + (Len(q) - 1) = Len(q) BY <1>2
    <2> QED BY <2>1, <2>2
  <1>6. /\ Named(q) \in Seq(Entries) /\ Len(Named(q)) = Len(q)
        /\ \A i \in 1..Len(q) : Named(q)[i] = Name(q[i])
    BY NamedIs
  <1> HIDE DEF b, n, t, h
  <1>7. ASSUME NEW i \in 1..Len(q) PROVE Named(q)[i] = b[i]
    <2>1. CASE i = 1 BY <1>2, <1>4, <1>5, <1>6, <2>1
    <2>2. CASE i # 1
      <3>1. i - 1 \in 1..Len(q) - 1 /\ i - 1 + 1 = i /\ ~(i <= 1) BY <1>2, <2>2
      <3> QED BY <1>3, <1>5, <1>6, <3>1
    <2> QED BY <2>1, <2>2
  <1>8. Named(q) = b BY <1>5, <1>6, <1>7, SeqEqual
  <1> QED BY <1>1, <1>8 DEF b, n, t, h

\* An entry is moved from the front of one sequence to the end of another.
LEMMA MoveEntry ==
  ASSUME NEW s \in Seq(Entries), NEW e \in Entries, NEW t \in Seq(Entries)
  PROVE  s \o (<<e>> \o t) = Append(s, e) \o t
  <1>1. <<e>> \in Seq(Entries) BY OneEvent
  <1>2. s \o (<<e>> \o t) = (s \o <<e>>) \o t BY <1>1, ConcatAssociative
  <1> QED BY <1>2, AppendIsConcat

\* An entry is put behind two sequences.
LEMMA PutEntry ==
  ASSUME NEW s \in Seq(Entries), NEW t \in Seq(Entries), NEW e \in Entries
  PROVE  Append(s \o t, e) = s \o Append(t, e)
  <1>1. <<e>> \in Seq(Entries) BY OneEvent
  <1>2. s \o t \in Seq(Entries) BY ConcatProperties
  <1>3. Append(s \o t, e) = (s \o t) \o <<e>> BY <1>2, AppendIsConcat
  <1>4. (s \o t) \o <<e>> = s \o (t \o <<e>>) BY <1>1, ConcatAssociative
  <1> QED BY <1>3, <1>4, AppendIsConcat

-----------------------------------------------------------------------------
(* What a step of the input worker does.                                   *)

Ends ==
    /\ inputPc \in {"poll", "wait"} /\ inputPc' = "done" /\ closed
    /\ UNCHANGED <<queueVars, closed, calls, current, pending, backVars, historyVars, held, refused>>

Realtime ==
    /\ inputPc \in {"poll", "wait", "took"} /\ inputPc' = "send"
    /\ realtimeQueue # <<>> /\ realtimeQueue' = Tail(realtimeQueue)
    /\ current' = Head(realtimeQueue)
    /\ calls' = executeInputAction(Head(realtimeQueue).action)
    /\ struck' = Append(struck, Name(Head(realtimeQueue)))
    /\ UNCHANGED <<macroStepQueue, backgroundQueue, closed, pending, backVars,
                   accepted, scheduled, queued, stepped, held, refused>>

Waits ==
    /\ inputPc = "poll" /\ inputPc' = "wait"
    /\ UNCHANGED <<queueVars, closed, calls, current, pending, backVars, historyVars, held, refused>>

TakesStep ==
    /\ inputPc = "wait" /\ inputPc' = "took"
    /\ macroStepQueue # <<>> /\ macroStepQueue' = Tail(macroStepQueue)
    /\ pending' = Head(macroStepQueue)
    /\ UNCHANGED <<realtimeQueue, backgroundQueue, closed, calls, current, backVars,
                   historyVars, held, refused>>

Plays ==
    /\ \/ inputPc = "took" /\ realtimeQueue = <<>>
       \/ inputPc = "send" /\ calls = <<>> /\ pending # None
    /\ inputPc' = "send" /\ current' = pending /\ pending' = None
    /\ calls' = executeInputAction(pending.action)
    /\ stepped' = Append(stepped, Name(pending))
    /\ UNCHANGED <<queueVars, closed, backVars, accepted, struck, scheduled, queued, held, refused>>

Rests ==
    /\ inputPc = "send" /\ calls = <<>> /\ pending = None
    /\ inputPc' = "poll" /\ current' = None
    /\ UNCHANGED <<queueVars, closed, calls, pending, backVars, historyVars, held, refused>>

Injects ==
    /\ inputPc = "send" /\ calls # <<>> /\ calls' = Tail(calls)
    /\ \E n \in 0..Len(Head(calls)) : sendInputs(Head(calls), n)
    /\ UNCHANGED <<queueVars, closed, inputPc, current, pending, backVars, historyVars>>

InputStepIs == Ends \/ Realtime \/ Waits \/ TakesStep \/ Plays \/ Rests \/ Injects

LEMMA InputWorkerIs ==
  ASSUME InputWorker \/ Inject
  PROVE  InputStepIs
  <1> USE DEF InputStays, queueVars, backVars, historyVars, Name
  <1>1. CASE InputPoll
    <2>1. CASE WorkerDone BY <1>1, <2>1 DEF InputPoll, WorkerDone, InputStepIs, Ends
    <2>2. CASE executeRealtimeRequest /\ UNCHANGED pending
      BY <1>1, <2>2 DEF InputPoll, executeRealtimeRequest, InputStepIs, Realtime
    <2>3. CASE ~closed /\ realtimeQueue = <<>> /\ inputPc' = "wait"
               /\ UNCHANGED <<realtimeQueue, calls, current, pending, struck, stepped, trace>>
      BY <1>1, <2>3 DEF InputPoll, InputStepIs, Waits
    <2> QED BY <1>1, <2>1, <2>2, <2>3 DEF InputPoll
  <1>2. CASE InputWait
    <2>1. CASE WorkerDone /\ InputStays BY <1>2, <2>1 DEF InputWait, WorkerDone, InputStepIs, Ends
    <2>2. CASE executeRealtimeRequest /\ UNCHANGED pending /\ InputStays
      BY <1>2, <2>2 DEF InputWait, executeRealtimeRequest, InputStepIs, Realtime
    <2>3. CASE macroStepQueue # <<>> /\ inputPc' = "took"
      BY <1>2, <2>3 DEF InputWait, InputStepIs, TakesStep, WorkerDone, executeRealtimeRequest, keyboardVars
    <2> QED BY <1>2, <2>1, <2>2, <2>3 DEF InputWait
  <1>3. CASE InputOvertake
    BY <1>3 DEF InputOvertake, executeRealtimeRequest, InputStepIs, Realtime
  <1>4. CASE InputStep
    <2>1. inputPc = "took" /\ realtimeQueue = <<>> /\ PlayStep /\ InputStays BY <1>4 DEF InputStep
    <2>2. Plays BY <2>1 DEF PlayStep, Plays
    <2> QED BY <2>2 DEF InputStepIs
  <1>5. CASE InputNext
    <2>1. CASE pending # None BY <1>5, <2>1 DEF InputNext, PlayStep, InputStepIs, Plays
    <2>2. CASE pending = None BY <1>5, <2>2 DEF InputNext, InputStepIs, Rests
    <2> QED BY <2>1, <2>2
  <1>6. CASE Inject
    <2>1. PICK n \in 0..Len(Head(calls)) : InputSend(n) BY <1>6 DEF Inject
    <2> QED BY <2>1 DEF InputSend, InputStepIs, Injects
  <1> QED BY <1>1, <1>2, <1>3, <1>4, <1>5, <1>6 DEF InputWorker

LEMMA StepsAre ==
  /\ Steps \subseteq Requests /\ None \notin Requests
  /\ \A r \in Steps : r.action \in Actions /\ IsInput(r.action)
  BY HandlerAssumption DEF Steps, Requests

LEMMA TailKeepsType ==
  ASSUME NEW S, NEW q \in Seq(S), q # <<>>
  PROVE  /\ Head(q) \in S /\ Tail(q) \in Seq(S) /\ Len(Tail(q)) = Len(q) - 1 /\ Len(q) \in Nat
         /\ Len(Tail(q)) <= Len(q)
  BY HeadTailProperties, LenProperties

LEMMA InputTypesStep ==
  ASSUME HandlerTypes, InputStepIs
  PROVE  HandlerTypes'
  <1> USE DEF queueVars, backVars, historyVars
  <1>1. BackTypes' BY DEF HandlerTypes, InputStepIs, Ends, Realtime, Waits, TakesStep, Plays, Rests, Injects, BackTypes
  <1>2. QueueTypes'
    <2>1. CASE Realtime
      <3>1. realtimeQueue' \in Seq(Steps) /\ Len(realtimeQueue') <= RealtimeCap
        <4>1. realtimeQueue \in Seq(Steps) /\ Len(realtimeQueue) <= RealtimeCap BY DEF HandlerTypes, QueueTypes
        <4> QED BY <2>1, <4>1, TailKeepsType, HandlerAssumption DEF Realtime
      <3> QED BY <2>1, <3>1 DEF HandlerTypes, QueueTypes, Realtime
    <2>2. CASE TakesStep
      <3>1. macroStepQueue' \in Seq(Steps) /\ Len(macroStepQueue') <= MacroCap
        <4>1. macroStepQueue \in Seq(Steps) /\ Len(macroStepQueue) <= MacroCap BY DEF HandlerTypes, QueueTypes
        <4> QED BY <2>2, <4>1, TailKeepsType, HandlerAssumption DEF TakesStep
      <3> QED BY <2>2, <3>1 DEF HandlerTypes, QueueTypes, TakesStep
    <2> QED BY <2>1, <2>2 DEF HandlerTypes, QueueTypes, InputStepIs, Ends, Waits, Plays, Rests, Injects
  <1>3. InputTypes'
    <2>1. CASE Ends BY <2>1 DEF Ends, HandlerTypes, InputTypes
    <2>2. CASE Realtime
      <3>1. Head(realtimeQueue) \in Steps BY <2>2, TailKeepsType DEF Realtime, HandlerTypes, QueueTypes
      <3> QED BY <2>2, <3>1 DEF Realtime, HandlerTypes, InputTypes
    <2>3. CASE Waits BY <2>3 DEF Waits, HandlerTypes, InputTypes
    <2>4. CASE TakesStep
      <3>1. Head(macroStepQueue) \in Steps BY <2>4, TailKeepsType DEF TakesStep, HandlerTypes, QueueTypes
      <3> QED BY <2>4, <3>1 DEF TakesStep, HandlerTypes, InputTypes
    <2>5. CASE Plays BY <2>5 DEF Plays, HandlerTypes, InputTypes
    <2>6. CASE Rests BY <2>6 DEF Rests, HandlerTypes, InputTypes
    <2>7. CASE Injects BY <2>7 DEF Injects, HandlerTypes, InputTypes
    <2> QED BY <2>1, <2>2, <2>3, <2>4, <2>5, <2>6, <2>7 DEF InputStepIs
  <1> QED BY <1>1, <1>2, <1>3 DEF HandlerTypes

LEMMA InputKeysStep ==
  ASSUME HandlerTypes, KeysInv, InputStepIs
  PROVE  KeysInv'
  <1>1. CASE Ends \/ Waits \/ TakesStep
    BY <1>1, KeysStay DEF Ends, Waits, TakesStep
  <1>2. CASE Rests BY <1>2, KeysStay DEF Rests
  <1>3. CASE Realtime
    <2>1. Head(realtimeQueue) \in Steps BY <1>3, TailKeepsType DEF Realtime, HandlerTypes, QueueTypes
    <2>2. calls = <<>> BY <1>3 DEF Realtime, HandlerTypes, InputTypes
    <2> QED BY <1>3, <2>1, <2>2, StepsAre, BeginKeeps DEF Realtime
  <1>4. CASE Plays
    <2>1. pending \in Steps BY <1>4 DEF Plays, HandlerTypes, InputTypes
    <2>2. calls = <<>> BY <1>4 DEF Plays, HandlerTypes, InputTypes
    <2> QED BY <1>4, <2>1, <2>2, StepsAre, BeginKeeps DEF Plays
  <1>5. CASE Injects BY <1>5, SendKeeps DEF Injects
  <1> QED BY <1>1, <1>2, <1>3, <1>4, <1>5 DEF InputStepIs

LEMMA InputOrderStep ==
  ASSUME HandlerTypes, OrderInv, InputStepIs
  PROVE  OrderInv'
  <1> USE DEF queueVars, historyVars
  <1>1. CASE Ends \/ Waits \/ Rests \/ Injects
    BY <1>1 DEF Ends, Waits, Rests, Injects, OrderInv, RealtimeInOrder, StepsInOrder
  <1>2. CASE Realtime
    <2> DEFINE q == realtimeQueue
    <2>1. q \in Seq(Requests) /\ q # <<>>
      BY <1>2, StepsAre, SeqMonotonic DEF Realtime, HandlerTypes, QueueTypes
    <2>2. /\ Head(q) \in Requests /\ Tail(q) \in Seq(Requests)
          /\ Named(q) = <<Name(Head(q))>> \o Named(Tail(q))
      BY <2>1, NamedTail
    <2>3. Name(Head(q)) \in Entries /\ Named(Tail(q)) \in Seq(Entries) BY <2>2, RequestIs, NamedIs
    <2>4. struck \in Seq(Entries) /\ accepted = struck \o Named(q) BY DEF OrderInv, RealtimeInOrder
    <2>5. accepted = Append(struck, Name(Head(q))) \o Named(Tail(q)) BY <2>2, <2>3, <2>4, MoveEntry
    <2>6. Append(struck, Name(Head(q))) \in Seq(Entries) BY <2>3, <2>4, AppendProperties
    <2>7. RealtimeInOrder' /\ struck' \in Seq(Entries) BY <1>2, <2>5, <2>6 DEF Realtime, RealtimeInOrder
    <2> QED BY <1>2, <2>7 DEF Realtime, OrderInv, StepsInOrder
  <1>3. CASE TakesStep
    <2> DEFINE q == macroStepQueue
    <2>1. q \in Seq(Requests) /\ q # <<>>
      BY <1>3, StepsAre, SeqMonotonic DEF TakesStep, HandlerTypes, QueueTypes
    <2>2. /\ Head(q) \in Requests /\ Tail(q) \in Seq(Requests)
          /\ Named(q) = <<Name(Head(q))>> \o Named(Tail(q))
      BY <2>1, NamedTail
    <2>3. /\ Name(Head(q)) \in Entries /\ Named(Tail(q)) \in Seq(Entries)
          /\ stepped \in Seq(Entries) /\ <<Name(Head(q))>> \in Seq(Entries)
      BY <2>2, RequestIs, NamedIs, OneEvent DEF OrderInv
    <2>4. pending = None /\ pending' = Head(q) /\ pending' # None
      BY <1>3, <2>2, StepsAre DEF TakesStep, HandlerTypes, InputTypes
    <2>5. queued = stepped \o Named(q)
      <3>1. queued = (stepped \o <<>>) \o Named(q) BY <2>4 DEF OrderInv, StepsInOrder
      <3> QED BY <2>3, <3>1, ConcatEmptySeq
    <2>6. queued = (stepped \o <<Name(Head(q))>>) \o Named(Tail(q)) BY <2>2, <2>3, <2>5, ConcatAssociative
    <2>7. StepsInOrder' BY <1>3, <2>4, <2>6 DEF TakesStep, StepsInOrder
    <2> QED BY <1>3, <2>7 DEF TakesStep, OrderInv, RealtimeInOrder
  <1>4. CASE Plays
    <2>1. pending \in Steps /\ pending # None
      BY <1>4, StepsAre DEF Plays, HandlerTypes, InputTypes
    <2>2. Name(pending) \in Entries /\ stepped \in Seq(Entries)
      BY <2>1, StepsAre, RequestIs DEF OrderInv
    <2>3. queued = (stepped \o <<Name(pending)>>) \o Named(macroStepQueue)
      BY <2>1 DEF OrderInv, StepsInOrder
    <2>4. /\ Append(stepped, Name(pending)) = stepped \o <<Name(pending)>>
          /\ Append(stepped, Name(pending)) \in Seq(Entries)
      BY <2>2, AppendIsConcat, AppendProperties
    <2>5. stepped' \o <<>> = stepped \o <<Name(pending)>> /\ stepped' \in Seq(Entries)
      BY <1>4, <2>4, ConcatEmptySeq DEF Plays
    <2>6. StepsInOrder' BY <1>4, <2>3, <2>5 DEF Plays, StepsInOrder
    <2> QED BY <1>4, <2>5, <2>6 DEF Plays, OrderInv, RealtimeInOrder
  <1> QED BY <1>1, <1>2, <1>3, <1>4 DEF InputStepIs

-----------------------------------------------------------------------------
(* What a step of the background worker does.                              *)

BackRests == UNCHANGED <<realtimeQueue, closed, inputVars, accepted, struck, stepped, held, refused>>

BackEnds ==
    /\ backPc = "idle" /\ backPc' = "done"
    /\ BackRests
    /\ UNCHANGED <<macroStepQueue, backgroundQueue, frames, playing, scheduled, queued>>

Takes ==
    /\ backPc = "idle" /\ backgroundQueue # <<>>
    /\ backgroundQueue' = Tail(backgroundQueue) /\ playing' = Head(backgroundQueue)
    /\ \/ /\ Head(backgroundQueue).action.type = "command"
          /\ scheduled' = Append(scheduled, Name(Head(backgroundQueue)))
          /\ UNCHANGED <<backPc, frames>>
       \/ /\ Head(backgroundQueue).action.type # "command"
          /\ backPc' = "play" /\ frames' = <<Head(backgroundQueue).action.macro>>
          /\ UNCHANGED scheduled
    /\ BackRests /\ UNCHANGED <<macroStepQueue, queued>>

Returns ==
    /\ backPc \in {"play", "enqueue"} /\ (closed \/ Last(frames) = <<>>)
    /\ frames' = Front(frames)
    /\ backPc' = IF Len(frames) = 1 THEN "idle" ELSE "play"
    /\ BackRests
    /\ UNCHANGED <<macroStepQueue, backgroundQueue, playing, scheduled, queued>>

Comes ==
    /\ backPc = "play" /\ backPc' = "enqueue" /\ ~closed
    /\ Last(frames) # <<>> /\ IsInput(Head(Last(frames)))
    /\ BackRests
    /\ UNCHANGED <<macroStepQueue, backgroundQueue, frames, playing, scheduled, queued>>

Runs ==
    /\ backPc = "play" /\ ~closed /\ Last(frames) # <<>>
    /\ frames' = Advance
    /\ \/ Head(Last(frames)).type = "command" /\ scheduled' = Scheduled(Head(Last(frames)))
       \/ /\ Head(Last(frames)).type \notin {"key", "text", "combo", "command"}
          /\ TooDeep /\ UNCHANGED scheduled
    /\ BackRests
    /\ UNCHANGED <<macroStepQueue, backgroundQueue, backPc, playing, queued>>

Nests ==
    /\ backPc = "play" /\ ~closed /\ Last(frames) # <<>> /\ ~TooDeep
    /\ Head(Last(frames)).type \notin {"key", "text", "combo", "command"}
    /\ frames' = Append(Advance, Head(Last(frames)).macro)
    /\ BackRests
    /\ UNCHANGED <<macroStepQueue, backgroundQueue, backPc, playing, scheduled, queued>>

Passes ==
    /\ backPc = "enqueue" /\ backPc' = "play"
    /\ Len(macroStepQueue) < MacroCap
    /\ macroStepQueue' = Append(macroStepQueue, Request(Head(Last(frames)), playing.id, 0))
    /\ scheduled' = Scheduled(Head(Last(frames)))
    /\ queued' = Append(queued, <<playing.id, Head(Last(frames))>>)
    /\ frames' = Advance
    /\ BackRests /\ UNCHANGED <<backgroundQueue, playing>>

BackStepIs == BackEnds \/ Takes \/ Returns \/ Comes \/ Runs \/ Nests \/ Passes

LEMMA BackgroundWorkerIs ==
  ASSUME BackgroundWorker
  PROVE  BackStepIs
  <1> USE DEF BackStays, BackRests, keyboardVars
  <1>1. CASE BackTake
    <2>1. CASE closed /\ backPc' = "done"
               /\ UNCHANGED <<backgroundQueue, frames, playing, scheduled>>
      BY <1>1, <2>1 DEF BackTake, BackEnds, BackStepIs
    <2>2. CASE backgroundQueue # <<>> /\ backgroundQueue' = Tail(backgroundQueue)
      <3>1. CASE Head(backgroundQueue).action.type = "command"
        <4>1. Takes BY <1>1, <2>2, <3>1 DEF BackTake, Takes, Name
        <4> QED BY <4>1 DEF BackStepIs
      <3>2. CASE Head(backgroundQueue).action.type # "command"
        <4>1. CASE closed /\ backPc' = "done" /\ UNCHANGED <<backgroundQueue, frames, playing, scheduled>>
          BY <2>1, <4>1
        <4>2. CASE ~(closed /\ backPc' = "done" /\ UNCHANGED <<backgroundQueue, frames, playing, scheduled>>)
          <5>1. Takes BY <1>1, <2>2, <3>2, <4>2 DEF BackTake, Takes
          <5> QED BY <5>1 DEF BackStepIs
        <4> QED BY <4>1, <4>2
      <3> QED BY <3>1, <3>2
    <2> QED BY <1>1, <2>1, <2>2 DEF BackTake
  <1>2. CASE BackPlay
    <2>1. CASE closed \/ Last(frames) = <<>>
      <3>1. Returns BY <1>2, <2>1 DEF BackPlay, Returns
      <3> QED BY <3>1 DEF BackStepIs
    <2>2. CASE ~closed /\ Last(frames) # <<>>
      <3>1. CASE IsInput(Head(Last(frames)))
        <4>1. Comes BY <1>2, <2>2, <3>1 DEF BackPlay, Comes, IsInput
        <4> QED BY <4>1 DEF BackStepIs
      <3>2. CASE ~IsInput(Head(Last(frames))) /\ Head(Last(frames)).type = "command"
        <4>1. Runs BY <1>2, <2>2, <3>2 DEF BackPlay, Runs
        <4> QED BY <4>1 DEF BackStepIs
      <3>3. CASE ~IsInput(Head(Last(frames))) /\ Head(Last(frames)).type # "command"
        <4>1. CASE TooDeep
          <5>1. Runs BY <1>2, <2>2, <3>3, <4>1 DEF BackPlay, Runs, IsInput
          <5> QED BY <5>1 DEF BackStepIs
        <4>2. CASE ~TooDeep
          <5>1. Nests BY <1>2, <2>2, <3>3, <4>2 DEF BackPlay, Nests, IsInput
          <5> QED BY <5>1 DEF BackStepIs
        <4> QED BY <4>1, <4>2
      <3> QED BY <3>1, <3>2, <3>3
    <2> QED BY <2>1, <2>2
  <1>3. CASE BackEnqueue
    <2>1. CASE Returns BY <2>1 DEF BackStepIs
    <2>2. CASE Passes BY <2>2 DEF BackStepIs
    <2> QED BY <1>3, <2>1, <2>2 DEF BackEnqueue, Returns, Passes
  <1> QED BY <1>1, <1>2, <1>3 DEF BackgroundWorker

\* The innermost macro, with a step taken off.
LEMMA FramesAre ==
  ASSUME frames \in Seq(Seq(Actions)), frames # <<>>
  PROVE  /\ Len(frames) \in Nat \ {0} /\ Last(frames) \in Seq(Actions)
         /\ Front(frames) \in Seq(Seq(Actions)) /\ Len(Front(frames)) = Len(frames) - 1
         /\ Last(frames) # <<>> =>
               /\ Head(Last(frames)) \in Actions
               /\ Advance \in Seq(Seq(Actions)) /\ Len(Advance) = Len(frames)
  <1> DEFINE n == Len(frames)
  <1>1. n \in Nat \ {0} BY EmptySeq
  <1>2. Last(frames) = frames[n] /\ frames[n] \in Seq(Actions) BY <1>1, ElementOfSeq DEF Last
  <1>3. Front(frames) \in Seq(Seq(Actions)) /\ Len(Front(frames)) = n - 1
    <2>1. \A i \in 1..(n - 1) : frames[i] \in Seq(Actions) BY <1>1, ElementOfSeq
    <2>2. /\ SubSeq(frames, 1, n - 1) \in Seq(Seq(Actions))
          /\ Len(SubSeq(frames, 1, n - 1)) = IF 1 <= n - 1 THEN n - 1 - 1 + 1 ELSE 0
      BY <1>1, <2>1, SubSeqProperties
    <2>3. Front(frames) = SubSeq(frames, 1, n - 1) BY DEF Front
    <2> HIDE DEF n
    <2> QED BY <1>1, <2>2, <2>3
  <1>4. ASSUME Last(frames) # <<>>
        PROVE  /\ Head(Last(frames)) \in Actions
               /\ Advance \in Seq(Seq(Actions)) /\ Len(Advance) = n
    <2>1. Head(Last(frames)) \in Actions /\ Tail(frames[n]) \in Seq(Actions)
      BY <1>2, <1>4, HeadTailProperties
    <2>2. Advance = [frames EXCEPT ![n] = Tail(frames[n])] BY DEF Advance
    <2> QED BY <1>1, <2>1, <2>2, ExceptSeq
  <1> QED BY <1>1, <1>2, <1>3, <1>4

LEMMA BackTypesStep ==
  ASSUME HandlerTypes, BackStepIs
  PROVE  HandlerTypes'
  <1> USE DEF BackRests, inputVars
  <1>1. InputTypes'
    BY DEF HandlerTypes, BackStepIs, BackEnds, Takes, Returns, Comes, Runs, Nests, Passes, InputTypes
  <1>2. frames \in Seq(Seq(Actions)) /\ Len(frames) <= maxMacroDepth + 1 /\ Len(frames) \in Nat
    BY LenProperties DEF HandlerTypes, BackTypes
  <1>3. CASE BackEnds BY <1>1, <1>3 DEF BackEnds, HandlerTypes, QueueTypes, BackTypes
  <1>4. CASE Takes
    <2> DEFINE h == Head(backgroundQueue)
    <2>1. /\ h \in Requests \ Steps /\ backgroundQueue' \in Seq(Requests \ Steps)
          /\ Len(backgroundQueue') <= BackgroundCap
      <3>1. /\ backgroundQueue \in Seq(Requests \ Steps) /\ Len(backgroundQueue) <= BackgroundCap
        BY DEF HandlerTypes, QueueTypes
      <3>2. Len(backgroundQueue') = Len(backgroundQueue) - 1 /\ Len(backgroundQueue) \in Nat
            /\ h \in Requests \ Steps /\ backgroundQueue' \in Seq(Requests \ Steps)
        BY <1>4, <3>1, TailKeepsType DEF Takes
      <3> QED BY <3>1, <3>2, HandlerAssumption
    <2>2. QueueTypes' BY <1>4, <2>1 DEF Takes, HandlerTypes, QueueTypes
    <2>3. h.action \in Actions /\ ~IsInput(h.action) /\ h # None
      BY <2>1, RequestIs, StepsAre DEF Steps
    <2>4. h.action.type # "command" => h.action.macro \in Seq(Actions) BY <2>3, Kinds
    <2>5. CASE UNCHANGED <<backPc, frames>>
      BY <1>1, <1>4, <2>1, <2>2, <2>5 DEF Takes, HandlerTypes, BackTypes
    <2>6. CASE /\ h.action.type # "command" /\ backPc' = "play" /\ frames' = <<h.action.macro>>
      <3>1. frames' \in Seq(Seq(Actions)) /\ Len(frames') = 1 /\ frames' # <<>>
        BY <2>4, <2>6, OneEvent, EmptySeq
      <3>2. Len(frames') <= maxMacroDepth + 1 BY <3>1, HandlerAssumption
      <3> QED BY <1>1, <1>4, <2>1, <2>2, <2>3, <2>6, <3>1, <3>2 DEF Takes, HandlerTypes, BackTypes
    <2> QED BY <1>4, <2>5, <2>6 DEF Takes
  <1>5. ASSUME backPc \in {"play", "enqueue"}
        PROVE  /\ frames # <<>> /\ Len(frames) \in Nat \ {0} /\ Last(frames) \in Seq(Actions)
               /\ playing \in Requests /\ playing # None
               /\ Front(frames) \in Seq(Seq(Actions)) /\ Len(Front(frames)) = Len(frames) - 1
               /\ Last(frames) # <<>> =>
                     /\ Head(Last(frames)) \in Actions
                     /\ Advance \in Seq(Seq(Actions)) /\ Len(Advance) = Len(frames)
    <2>1. frames # <<>> /\ playing # None /\ playing \in (Requests \ Steps) \cup {None}
      BY <1>5 DEF HandlerTypes, BackTypes
    <2> QED BY <1>2, <2>1, FramesAre
  <1>6. CASE Returns
    <2>1. backPc \in {"play", "enqueue"} BY <1>6 DEF Returns
    <2>2. /\ frames' \in Seq(Seq(Actions)) /\ Len(frames') = Len(frames) - 1
          /\ Len(frames) \in Nat \ {0} /\ playing # None
      BY <1>5, <1>6, <2>1 DEF Returns
    <2>3. Len(frames') <= maxMacroDepth + 1 BY <1>2, <2>2, HandlerAssumption
    <2>4. Len(frames) # 1 => frames' # <<>> BY <2>2, EmptySeq
    <2>5. QueueTypes' BY <1>6 DEF Returns, HandlerTypes, QueueTypes
    <2> QED BY <1>1, <1>6, <2>2, <2>3, <2>4, <2>5 DEF Returns, HandlerTypes, BackTypes
  <1>7. CASE Comes BY <1>1, <1>7 DEF Comes, HandlerTypes, QueueTypes, BackTypes
  <1>8. CASE Runs
    <2>1. /\ frames' \in Seq(Seq(Actions)) /\ Len(frames') = Len(frames)
          /\ Len(frames) \in Nat \ {0} /\ playing # None
      BY <1>5, <1>8 DEF Runs
    <2>2. frames' # <<>> BY <2>1, EmptySeq
    <2>3. QueueTypes' BY <1>8 DEF Runs, HandlerTypes, QueueTypes
    <2> QED BY <1>1, <1>2, <1>8, <2>1, <2>2, <2>3 DEF Runs, HandlerTypes, BackTypes
  <1>9. CASE Nests
    <2> DEFINE step == Head(Last(frames))
    <2>1. /\ Advance \in Seq(Seq(Actions)) /\ Len(Advance) = Len(frames) /\ step \in Actions
          /\ Len(frames) \in Nat \ {0} /\ playing # None
      BY <1>5, <1>9 DEF Nests
    <2>2. step.macro \in Seq(Actions)
      BY <1>9, <2>1, HandlerAssumption DEF Nests
    <2>3. frames' \in Seq(Seq(Actions)) /\ frames' # <<>> /\ Len(frames') = Len(frames) + 1
      BY <1>9, <2>1, <2>2, AppendProperties DEF Nests
    <2>4. Len(frames') <= maxMacroDepth + 1
      BY <1>9, <2>1, <2>3, HandlerAssumption DEF Nests, TooDeep
    <2>5. QueueTypes' BY <1>9 DEF Nests, HandlerTypes, QueueTypes
    <2> QED BY <1>1, <1>9, <2>1, <2>3, <2>4, <2>5 DEF Nests, HandlerTypes, BackTypes
  <1>10. CASE Passes
    <2> DEFINE step == Head(Last(frames))
    <2>1. Last(frames) # <<>> /\ IsInput(step)
      BY <1>10 DEF Passes, HandlerTypes, BackTypes
    <2>2. /\ frames' \in Seq(Seq(Actions)) /\ Len(frames') = Len(frames) /\ step \in Actions
          /\ Len(frames) \in Nat \ {0} /\ playing # None /\ playing \in Requests
      BY <1>5, <1>10, <2>1 DEF Passes
    <2>3. frames' # <<>> BY <2>2, EmptySeq
    <2>4. Request(step, playing.id, 0) \in Steps BY <2>1, <2>2, RequestType, RequestIs
    <2>5. macroStepQueue' \in Seq(Steps) /\ Len(macroStepQueue') <= MacroCap
      <3>1. macroStepQueue \in Seq(Steps) /\ Len(macroStepQueue) \in Nat
        BY LenProperties DEF HandlerTypes, QueueTypes
      <3> QED BY <1>10, <2>4, <3>1, AppendProperties, HandlerAssumption DEF Passes
    <2>6. QueueTypes' BY <1>10, <2>5 DEF Passes, HandlerTypes, QueueTypes
    <2> QED BY <1>1, <1>2, <1>10, <2>2, <2>3, <2>6 DEF Passes, HandlerTypes, BackTypes
  <1> QED BY <1>3, <1>4, <1>6, <1>7, <1>8, <1>9, <1>10 DEF BackStepIs

LEMMA BackKeysStep ==
  ASSUME KeysInv, BackStepIs
  PROVE  KeysInv'
  <1>1. UNCHANGED <<held, refused, calls, current>>
    BY DEF BackStepIs, BackEnds, Takes, Returns, Comes, Runs, Nests, Passes, BackRests, inputVars
  <1> QED BY <1>1, KeysStay

\* The step the background worker is at, under the number of its macro.
LEMMA PlayedIs ==
  ASSUME HandlerTypes, backPc \in {"play", "enqueue"}, Last(frames) # <<>>
  PROVE  /\ playing \in Requests /\ playing # None
         /\ Head(Last(frames)) \in Actions
         /\ <<playing.id, Head(Last(frames))>> \in Entries
  <1>1. frames \in Seq(Seq(Actions)) /\ frames # <<>> /\ playing \in Requests /\ playing # None
    BY DEF HandlerTypes, BackTypes
  <1>2. Head(Last(frames)) \in Actions BY <1>1, FramesAre
  <1>3. playing.id \in Nat BY <1>1, RequestIs
  <1> QED BY <1>1, <1>2, <1>3 DEF Entries

LEMMA TakenIs ==
  ASSUME HandlerTypes, backgroundQueue # <<>>
  PROVE  /\ Head(backgroundQueue) \in Requests
         /\ Name(Head(backgroundQueue)) \in Entries
         /\ Name(Head(backgroundQueue))[1] = Head(backgroundQueue).id
         /\ 1 \in DOMAIN backgroundQueue /\ Head(backgroundQueue) = backgroundQueue[1]
  <1>1. backgroundQueue \in Seq(Requests \ Steps) BY DEF HandlerTypes, QueueTypes
  <1>2. Head(backgroundQueue) \in Requests BY <1>1, TailKeepsType
  <1>3. Len(backgroundQueue) \in Nat \ {0} BY <1>1, EmptySeq, LenProperties
  <1> QED BY <1>1, <1>2, <1>3, RequestIs, LenProperties DEF Name

LEMMA BackOrderStep ==
  ASSUME HandlerTypes, OrderInv, BackStepIs
  PROVE  OrderInv'
  <1> USE DEF BackRests, inputVars
  <1>1. RealtimeInOrder' /\ accepted' \in Seq(Entries) /\ struck' \in Seq(Entries) /\ stepped' \in Seq(Entries)
    BY DEF OrderInv, RealtimeInOrder, BackStepIs, BackEnds, Takes, Returns, Comes, Runs, Nests, Passes
  <1>2. scheduled' \in Seq(Entries)
    <2>1. CASE UNCHANGED scheduled BY <2>1 DEF OrderInv
    <2>2. CASE Takes
      <3>1. Name(Head(backgroundQueue)) \in Entries BY <2>2, TakenIs DEF Takes
      <3>2. Append(scheduled, Name(Head(backgroundQueue))) \in Seq(Entries)
        BY <3>1, AppendProperties DEF OrderInv
      <3> QED BY <2>1, <2>2, <3>2 DEF Takes
    <2>3. CASE Runs
      <3>1. <<playing.id, Head(Last(frames))>> \in Entries BY <2>3, PlayedIs DEF Runs
      <3>2. Scheduled(Head(Last(frames))) \in Seq(Entries)
        BY <3>1, AppendProperties DEF Scheduled, OrderInv
      <3> QED BY <2>1, <2>3, <3>2 DEF Runs
    <2>4. CASE Passes
      <3>1. Last(frames) # <<>> BY <2>4 DEF Passes, HandlerTypes, BackTypes
      <3>2. <<playing.id, Head(Last(frames))>> \in Entries BY <2>4, <3>1, PlayedIs DEF Passes
      <3>3. Scheduled(Head(Last(frames))) \in Seq(Entries)
        BY <3>2, AppendProperties DEF Scheduled, OrderInv
      <3> QED BY <2>4, <3>3 DEF Passes
    <2> QED BY <2>1, <2>2, <2>3, <2>4 DEF BackStepIs, BackEnds, Returns, Comes, Nests
  <1>3. CASE Passes
    <2> DEFINE e == <<playing.id, Head(Last(frames))>>
               r == Request(Head(Last(frames)), playing.id, 0)
               q == macroStepQueue
               inHand == IF pending = None THEN <<>> ELSE <<Name(pending)>>
    <2>1. Last(frames) # <<>> BY <1>3 DEF Passes, HandlerTypes, BackTypes
    <2>2. playing \in Requests /\ Head(Last(frames)) \in Actions /\ e \in Entries
      BY <1>3, <2>1, PlayedIs DEF Passes
    <2>3. r \in Requests /\ Name(r) = e BY <2>2, RequestIs, RequestType
    <2>4. q \in Seq(Requests) BY StepsAre, SeqMonotonic DEF HandlerTypes, QueueTypes
    <2>5. Named(q') = Append(Named(q), e) BY <1>3, <2>3, <2>4, NamedAppend DEF Passes
    <2>6. inHand \in Seq(Entries)
      <3>1. CASE pending = None BY <3>1
      <3>2. CASE pending # None
        <4>1. pending \in Requests BY <3>2, StepsAre DEF HandlerTypes, InputTypes
        <4> QED BY <3>2, <4>1, RequestIs, OneEvent
      <3> QED BY <3>1, <3>2
    <2>7. stepped \in Seq(Entries) /\ Named(q) \in Seq(Entries) /\ queued = stepped \o inHand \o Named(q)
      BY <2>4, NamedIs DEF OrderInv, StepsInOrder
    <2>8. Append(queued, e) = stepped \o inHand \o Append(Named(q), e)
      <3>1. stepped \o inHand \in Seq(Entries) BY <2>6, <2>7, ConcatProperties
      <3> HIDE DEF inHand, e, q
      <3> QED BY <2>2, <2>7, <3>1, PutEntry
    <2>9. queued' = Append(queued, e) /\ UNCHANGED <<stepped, pending>> BY <1>3 DEF Passes
    <2>10. StepsInOrder' BY <2>5, <2>8, <2>9 DEF StepsInOrder
    <2>11. queued' \in Seq(Entries) BY <2>2, <2>9, AppendProperties DEF OrderInv
    <2> QED BY <1>1, <1>2, <2>10, <2>11 DEF OrderInv
  <1>4. CASE ~Passes
    <2>1. UNCHANGED <<queued, stepped, pending, macroStepQueue>>
      BY <1>4 DEF BackStepIs, BackEnds, Takes, Returns, Comes, Runs, Nests
    <2>2. StepsInOrder' BY <2>1 DEF OrderInv, StepsInOrder
    <2> QED BY <1>1, <1>2, <2>1, <2>2 DEF OrderInv
  <1> QED BY <1>3, <1>4

-----------------------------------------------------------------------------
(* What the histories and the background queue hold was not captured.      *)

LEMMA AppendPassed ==
  ASSUME NEW s \in Seq(Entries), NEW e \in Entries, NEW P,
         e[1] \in P, \A i \in DOMAIN s : s[i][1] \in P
  PROVE  \A i \in DOMAIN Append(s, e) : Append(s, e)[i][1] \in P
  <1>1. /\ Len(s) \in Nat /\ DOMAIN s = 1..Len(s) /\ DOMAIN Append(s, e) = 1..Len(s) + 1
        /\ Append(s, e)[Len(s) + 1] = e /\ \A i \in 1..Len(s) : Append(s, e)[i] = s[i]
    BY LenProperties, AppendProperties
  <1>2. \A i \in 1..Len(s) + 1 : i \in 1..Len(s) \/ i = Len(s) + 1 BY <1>1
  <1> HIDE DEF Entries
  <1> QED BY <1>1, <1>2

LEMMA AppendRequestPassed ==
  ASSUME NEW s \in Seq(Requests), NEW e \in Requests, NEW P,
         e.id \in P, \A i \in DOMAIN s : s[i].id \in P
  PROVE  \A i \in DOMAIN Append(s, e) : Append(s, e)[i].id \in P
  <1>1. /\ Len(s) \in Nat /\ DOMAIN s = 1..Len(s) /\ DOMAIN Append(s, e) = 1..Len(s) + 1
        /\ Append(s, e)[Len(s) + 1] = e /\ \A i \in 1..Len(s) : Append(s, e)[i] = s[i]
    BY LenProperties, AppendProperties
  <1>2. \A i \in 1..Len(s) + 1 : i \in 1..Len(s) \/ i = Len(s) + 1 BY <1>1
  <1> QED BY <1>1, <1>2

\* A step of the background worker, while the path stays.
LEMMA BackCapturesStep ==
  ASSUME TypeOK, OrderInv, CapturesInv, BackStepIs, UNCHANGED pathVars
  PROVE  CapturesInv'
  <1> USE DEF BackRests, pathVars
  <1>1. HandlerTypes BY DEF TypeOK
  <1>2. Passed' = Passed BY DEF Passed
  <1>3. \A i \in DOMAIN backgroundQueue' : backgroundQueue'[i].id \in Passed
    <2>1. CASE UNCHANGED backgroundQueue BY <2>1 DEF CapturesInv, HandlerPassed
    <2>2. CASE Takes
      <3> DEFINE q == backgroundQueue
                 t == Tail(q)
      <3>1. q \in Seq(Requests \ Steps) /\ q # <<>>
        BY <1>1, <2>2 DEF Takes, HandlerTypes, QueueTypes
      <3>2. /\ t \in Seq(Requests \ Steps) /\ Len(t) = Len(q) - 1
            /\ \A i \in 1..Len(t) : t[i] = q[i + 1]
        BY <3>1, HeadTailProperties
      <3>3. Len(q) \in Nat /\ DOMAIN q = 1..Len(q) /\ DOMAIN t = 1..Len(t)
        BY <3>1, <3>2, LenProperties
      <3>4. \A i \in DOMAIN t : i + 1 \in DOMAIN q /\ t[i] = q[i + 1] BY <3>2, <3>3
      <3>5. \A i \in DOMAIN q : q[i].id \in Passed BY DEF CapturesInv, HandlerPassed
      <3>6. backgroundQueue' = t BY <2>2 DEF Takes
      <3> QED BY <3>4, <3>5, <3>6
    <2> QED BY <2>1, <2>2 DEF BackStepIs, BackEnds, Returns, Comes, Runs, Nests, Passes
  <1>4. playing' # None => playing'.id \in Passed
    <2>1. CASE UNCHANGED playing BY <2>1 DEF CapturesInv, HandlerPassed
    <2>2. CASE Takes
      <3>1. playing' = backgroundQueue[1] /\ 1 \in DOMAIN backgroundQueue
        BY <1>1, <2>2, TakenIs DEF Takes
      <3> QED BY <3>1 DEF CapturesInv, HandlerPassed
    <2> QED BY <2>1, <2>2 DEF BackStepIs, BackEnds, Returns, Comes, Runs, Nests, Passes
  <1>5. \A i \in DOMAIN scheduled' : scheduled'[i][1] \in Passed
    <2> DEFINE e == <<playing.id, Head(Last(frames))>>
    <2>1. scheduled \in Seq(Entries) BY DEF OrderInv
    <2>2. \A i \in DOMAIN scheduled : scheduled[i][1] \in Passed BY DEF CapturesInv, HandlerPassed
    <2>3. CASE UNCHANGED scheduled BY <2>2, <2>3
    <2>4. CASE Takes
      <3> DEFINE h == Name(Head(backgroundQueue))
      <3>1. /\ h \in Entries /\ h[1] = backgroundQueue[1].id /\ 1 \in DOMAIN backgroundQueue
        BY <1>1, <2>4, TakenIs DEF Takes
      <3>2. h[1] \in Passed BY <3>1 DEF CapturesInv, HandlerPassed
      <3> HIDE DEF h
      <3>3. \A i \in DOMAIN Append(scheduled, h) : Append(scheduled, h)[i][1] \in Passed
        BY <2>1, <2>2, <3>1, <3>2, AppendPassed
      <3> QED BY <2>3, <2>4, <3>3 DEF Takes, h
    <2>5. ASSUME backPc \in {"play", "enqueue"}, Last(frames) # <<>>, scheduled' = Append(scheduled, e)
          PROVE  \A i \in DOMAIN scheduled' : scheduled'[i][1] \in Passed
      <3>1. e \in Entries /\ playing # None BY <1>1, <2>5, PlayedIs
      <3>2. e[1] \in Passed BY <3>1 DEF CapturesInv, HandlerPassed
      <3> HIDE DEF e
      <3>3. \A i \in DOMAIN Append(scheduled, e) : Append(scheduled, e)[i][1] \in Passed
        BY <2>1, <2>2, <3>1, <3>2, AppendPassed
      <3> QED BY <2>5, <3>3
    <2>6. CASE Runs
      <3>1. CASE scheduled' = Scheduled(Head(Last(frames)))
        <4>1. scheduled' = Append(scheduled, e) BY <3>1 DEF Scheduled
        <4> QED BY <2>5, <2>6, <4>1 DEF Runs
      <3> QED BY <2>3, <2>6, <3>1 DEF Runs
    <2>7. CASE Passes
      <3>1. Last(frames) # <<>> BY <1>1, <2>7 DEF Passes, HandlerTypes, BackTypes
      <3>2. scheduled' = Append(scheduled, e) BY <2>7 DEF Passes, Scheduled
      <3> QED BY <2>5, <2>7, <3>1, <3>2 DEF Passes
    <2> QED BY <2>3, <2>4, <2>6, <2>7 DEF BackStepIs, BackEnds, Returns, Comes, Nests
  <1>6. UNCHANGED accepted BY DEF BackStepIs, BackEnds, Takes, Returns, Comes, Runs, Nests, Passes
  <1> QED BY <1>2, <1>3, <1>4, <1>5, <1>6 DEF CapturesInv, HandlerPassed

\* A step of the input worker touches nothing of that.
LEMMA InputCapturesStep ==
  ASSUME CapturesInv, InputStepIs, UNCHANGED pathVars
  PROVE  CapturesInv'
  <1>1. UNCHANGED <<backgroundQueue, playing, accepted, scheduled>>
    BY DEF InputStepIs, Ends, Realtime, Waits, TakesStep, Plays, Rests, Injects,
           queueVars, backVars, historyVars
  <1>2. Passed' = Passed BY DEF Passed, pathVars
  <1> QED BY <1>1, <1>2 DEF CapturesInv, HandlerPassed, pathVars

-----------------------------------------------------------------------------
(* A call of HandleAction.                                                 *)

LEMMA CallTypesStep ==
  ASSUME HandlerTypes, NEW a \in Actions, NEW id \in Nat, HandleAction(a, id, 0)
  PROVE  HandlerTypes'
  <1> USE DEF inputVars, backVars, historyVars
  <1>1. CASE isBackgroundAction(a)
    <2> DEFINE r == Request(a, id, 0)
    <2>1. tryEnqueueBackground(a, id) BY <1>1 DEF HandleAction
    <2>2. r \in Requests \ Steps BY <1>1, Kinds, RequestType
    <2>3. backgroundQueue \in Seq(Requests \ Steps) BY DEF HandlerTypes, QueueTypes
    <2>4. backgroundQueue' \in Seq(Requests \ Steps) /\ Len(backgroundQueue') <= BackgroundCap
      <3>1. Len(backgroundQueue) \in Nat /\ Len(backgroundQueue) < BackgroundCap
        BY <2>1, <2>3, LenProperties DEF tryEnqueueBackground
      <3> HIDE DEF r
      <3>2. Append(backgroundQueue, r) \in Seq(Requests \ Steps)
            /\ Len(Append(backgroundQueue, r)) = Len(backgroundQueue) + 1
        BY <2>2, <2>3, AppendProperties
      <3> QED BY <2>1, <3>1, <3>2, HandlerAssumption DEF tryEnqueueBackground, r
    <2> QED BY <2>1, <2>4 DEF tryEnqueueBackground, HandlerTypes, QueueTypes, InputTypes, BackTypes
  <1>2. CASE ~isBackgroundAction(a)
    <2> DEFINE r == Request(a, id, 0)
    <2>1. enqueueRealtime(a, id, 0) BY <1>2 DEF HandleAction
    <2>2. r \in Steps BY <1>2, Kinds, RequestType
    <2>3. realtimeQueue \in Seq(Steps) BY DEF HandlerTypes, QueueTypes
    <2>4. realtimeQueue' \in Seq(Steps) /\ Len(realtimeQueue') <= RealtimeCap
      <3>1. Len(realtimeQueue) \in Nat /\ Len(realtimeQueue) < RealtimeCap
        BY <2>1, <2>3, LenProperties DEF enqueueRealtime
      <3> HIDE DEF r
      <3>2. Append(realtimeQueue, r) \in Seq(Steps)
            /\ Len(Append(realtimeQueue, r)) = Len(realtimeQueue) + 1
        BY <2>2, <2>3, AppendProperties
      <3> QED BY <2>1, <3>1, <3>2, HandlerAssumption DEF enqueueRealtime, r
    <2> QED BY <2>1, <2>4 DEF enqueueRealtime, HandlerTypes, QueueTypes, InputTypes, BackTypes
  <1> QED BY <1>1, <1>2

LEMMA CallKeysStep ==
  ASSUME KeysInv, NEW a, NEW id, HandleAction(a, id, 0)
  PROVE  KeysInv'
  <1>1. UNCHANGED <<held, refused, calls, current>>
    BY DEF HandleAction, enqueueRealtime, tryEnqueueBackground, inputVars, keyboardVars
  <1> QED BY <1>1, KeysStay

LEMMA CallOrderStep ==
  ASSUME HandlerTypes, OrderInv, NEW a \in Actions, NEW id \in Nat, HandleAction(a, id, 0)
  PROVE  OrderInv'
  <1> USE DEF inputVars, historyVars
  <1>1. CASE isBackgroundAction(a)
    BY <1>1 DEF HandleAction, tryEnqueueBackground, OrderInv, RealtimeInOrder, StepsInOrder
  <1>2. CASE ~isBackgroundAction(a)
    <2> DEFINE q == realtimeQueue
               r == Request(a, id, 0)
               e == <<id, a>>
    <2>1. enqueueRealtime(a, id, 0) BY <1>2 DEF HandleAction
    <2>2. r \in Requests /\ Name(r) = e /\ e \in Entries BY RequestType DEF Entries
    <2>3. q \in Seq(Requests) BY StepsAre, SeqMonotonic DEF HandlerTypes, QueueTypes
    <2>4. Named(q') = Append(Named(q), e) BY <2>1, <2>2, <2>3, NamedAppend DEF enqueueRealtime
    <2>5. Named(q) \in Seq(Entries) BY <2>3, NamedIs
    <2>6. struck \in Seq(Entries) /\ accepted = struck \o Named(q) /\ accepted \in Seq(Entries)
      BY DEF OrderInv, RealtimeInOrder
    <2>7. Append(accepted, e) = struck \o Append(Named(q), e) /\ Append(accepted, e) \in Seq(Entries)
      <3> HIDE DEF e, q
      <3> QED BY <2>2, <2>5, <2>6, PutEntry, AppendProperties
    <2>8. accepted' = Append(accepted, e) /\ UNCHANGED struck BY <2>1 DEF enqueueRealtime
    <2>9. RealtimeInOrder' BY <2>4, <2>7, <2>8 DEF RealtimeInOrder
    <2> QED BY <2>1, <2>7, <2>8, <2>9 DEF enqueueRealtime, OrderInv, StepsInOrder
  <1> QED BY <1>1, <1>2

LEMMA CallPassedStep ==
  ASSUME HandlerTypes, OrderInv, HandlerPassed, UNCHANGED Passed,
         NEW a \in Actions, NEW id \in Nat \cap Passed, HandleAction(a, id, 0)
  PROVE  HandlerPassed'
  <1> USE DEF inputVars, backVars, historyVars
  <1>1. CASE isBackgroundAction(a)
    <2> DEFINE q == backgroundQueue
               r == Request(a, id, 0)
    <2>1. tryEnqueueBackground(a, id) BY <1>1 DEF HandleAction
    <2>2. r \in Requests /\ r.id \in Passed BY RequestType
    <2>3. q \in Seq(Requests) BY SeqMonotonic, Zenon DEF HandlerTypes, QueueTypes
    <2>4. \A i \in DOMAIN q : q[i].id \in Passed BY DEF HandlerPassed
    <2>5. q' = Append(q, r) BY <2>1 DEF tryEnqueueBackground
    <2> HIDE DEF q, r
    <2>6. \A i \in DOMAIN Append(q, r) : Append(q, r)[i].id \in Passed
      BY <2>2, <2>3, <2>4, AppendRequestPassed
    <2>7. \A i \in DOMAIN backgroundQueue' : backgroundQueue'[i].id \in Passed
      BY <2>5, <2>6 DEF q
    <2> QED BY <2>1, <2>7 DEF tryEnqueueBackground, HandlerPassed
  <1>2. CASE ~isBackgroundAction(a)
    <2> DEFINE e == <<id, a>>
    <2>1. enqueueRealtime(a, id, 0) BY <1>2 DEF HandleAction
    <2>2. e \in Entries /\ e[1] \in Passed BY DEF Entries
    <2>3. accepted \in Seq(Entries) BY DEF OrderInv
    <2>4. \A i \in DOMAIN accepted : accepted[i][1] \in Passed BY DEF HandlerPassed
    <2>5. accepted' = Append(accepted, e) BY <2>1 DEF enqueueRealtime
    <2> HIDE DEF e
    <2>6. \A i \in DOMAIN Append(accepted, e) : Append(accepted, e)[i][1] \in Passed
      BY <2>2, <2>3, <2>4, AppendPassed
    <2> QED BY <2>1, <2>5, <2>6 DEF enqueueRealtime, HandlerPassed
  <1> QED BY <1>1, <1>2

\* A step that leaves the handler alone.
LEMMA HandlerStays ==
  ASSUME PathInv, UNCHANGED handlerVars
  PROVE  HandlerTypes' /\ KeysInv' /\ OrderInv'
  <1> USE DEF handlerVars, queueVars, inputVars, backVars, historyVars, keyboardVars
  <1>1. HandlerTypes' BY DEF PathInv, TypeOK, HandlerTypes, QueueTypes, InputTypes, BackTypes
  <1>2. KeysInv' BY KeysStay DEF PathInv
  <1>3. OrderInv' BY DEF PathInv, OrderInv, RealtimeInOrder, StepsInOrder
  <1> QED BY <1>1, <1>2, <1>3

LEMMA PassedStays ==
  ASSUME HandlerPassed, Passed \subseteq Passed', UNCHANGED handlerVars
  PROVE  HandlerPassed'
  BY DEF HandlerPassed, handlerVars, queueVars, backVars, historyVars

-----------------------------------------------------------------------------
(* The path.                                                               *)

PathTypes ==
    /\ serial \in 0..MaxEvents /\ arms \in 0..MaxArms
    /\ processor \in {"recv", "deliver", "dispatch", "done"}
    /\ processor = "deliver" => event \in [id : captured, action : Actions \cup {None}]
    /\ processor = "dispatch" => event \in [id : 1..serial, action : Actions]
    /\ processor \in {"recv", "done"} => event = None
    /\ window \in {"idle", "test", "drain", "closing", "waiting", "ended"}
    /\ window = "test" => testing \in [id : 1..serial, action : Actions]
    /\ window # "test" => testing = None
    /\ captureActive \in BOOLEAN /\ configuring \in BOOLEAN /\ stopped \in BOOLEAN
    /\ captureSelections \in Seq(captured) /\ Len(captureSelections) <= SelectionCap
    /\ captured \subseteq 1..serial /\ selected \in captured \cup {None}

LEMMA TypesAre == TypeOK <=> HandlerTypes /\ PathTypes
  <1> DEFINE d == [id : captured, action : Actions \cup {None}]
             c == [id : 1..serial, action : Actions]
             E == CASE processor = "deliver" -> d
                    [] processor = "dispatch" -> c
                    [] OTHER -> {None}
  <1>1. /\ processor = "deliver" => E = d
        /\ processor = "dispatch" => E = c
        /\ processor \in {"recv", "done"} => E = {None}
    <2> HIDE DEF d, c
    <2>1. CASE processor = "deliver" BY <2>1
    <2>2. CASE processor = "dispatch" BY <2>2
    <2>3. CASE processor \notin {"deliver", "dispatch"} BY <2>3
    <2> QED BY <2>1, <2>2, <2>3
  <1>2. TypeOK <=>
          /\ HandlerTypes
          /\ serial \in 0..MaxEvents /\ arms \in 0..MaxArms
          /\ processor \in {"recv", "deliver", "dispatch", "done"}
          /\ event \in E
          /\ window \in {"idle", "test", "drain", "closing", "waiting", "ended"}
          /\ testing \in IF window = "test" THEN c ELSE {None}
          /\ captureActive \in BOOLEAN /\ configuring \in BOOLEAN /\ stopped \in BOOLEAN
          /\ captureSelections \in Seq(captured) /\ Len(captureSelections) <= SelectionCap
          /\ captured \subseteq 1..serial /\ selected \in captured \cup {None}
    BY Zenon DEF TypeOK
  <1> HIDE DEF E
  <1>3. processor \in {"recv", "deliver", "dispatch", "done"} =>
           (event \in E <=>
              /\ processor = "deliver" => event \in d
              /\ processor = "dispatch" => event \in c
              /\ processor \in {"recv", "done"} => event = None)
    <2> HIDE DEF d, c
    <2> QED BY <1>1
  <1>4. testing \in (IF window = "test" THEN c ELSE {None}) <=>
          (window = "test" => testing \in c) /\ (window # "test" => testing = None)
    <2> HIDE DEF c
    <2> QED OBVIOUS
  <1> QED BY <1>2, <1>3, <1>4 DEF PathTypes

LEMMA TypesAreNext == HandlerTypes' /\ PathTypes' => TypeOK'
  BY TypesAre, PTL

LEMMA WorkersStep ==
  ASSUME PathInv, Workers
  PROVE  PathInv'
  <1> USE DEF PathInv
  <1>1. UNCHANGED pathVars BY DEF Workers
  <1>2. HandlerTypes /\ PathTypes BY TypesAre
  <1>3. HandlerTypes' /\ KeysInv' /\ OrderInv' /\ CapturesInv' /\ UNCHANGED closed
    <2>1. CASE InputWorker \/ Inject
      <3>1. InputStepIs BY <2>1, InputWorkerIs
      <3>2. UNCHANGED closed
        BY <3>1 DEF InputStepIs, Ends, Realtime, Waits, TakesStep, Plays, Rests, Injects
      <3> QED BY <1>1, <1>2, <3>1, <3>2, InputTypesStep, InputKeysStep, InputOrderStep, InputCapturesStep
    <2>2. CASE BackgroundWorker
      <3>1. BackStepIs BY <2>2, BackgroundWorkerIs
      <3>2. UNCHANGED closed
        BY <3>1 DEF BackStepIs, BackEnds, Takes, Returns, Comes, Runs, Nests, Passes, BackRests
      <3> QED BY <1>1, <1>2, <3>1, <3>2, BackTypesStep, BackKeysStep, BackOrderStep, BackCapturesStep
    <2> QED BY <2>1, <2>2 DEF Workers
  <1>4. PathTypes' BY <1>1, <1>2 DEF PathTypes, pathVars
  <1>5. ClosingInv' BY <1>1, <1>3 DEF ClosingInv, OnlyBackgroundDrops, pathVars
  <1>6. TypeOK' BY <1>3, <1>4, TypesAreNext
  <1> QED BY <1>3, <1>5, <1>6

\* An event that is captured gets a number no other event has.
LEMMA ReceiveStep ==
  ASSUME PathInv, NEW e \in Events, Receive(e)
  PROVE  PathInv'
  <1> USE DEF PathInv
  <1> DEFINE new == serial + 1
  <1>1. UNCHANGED <<handlerVars, captureSelections, window, testing, configuring,
                    selected, stopped, arms, dropped>>
    BY DEF Receive
  <1>2. HandlerTypes /\ PathTypes BY TypesAre
  <1>3. /\ serial \in Nat /\ new \in 0..MaxEvents /\ new \notin 1..serial /\ 1..serial \subseteq 1..new
        /\ new \in 1..new /\ serial' = new
    BY <1>2, InputPathAssumption DEF Receive, PathTypes
  <1>4. captured' = (IF Captures(e) THEN captured \cup {new} ELSE captured)
        /\ captureActive' = (captureActive /\ ~Captures(e))
    BY DEF Receive, ApplyEvent
  <1>5. captured \subseteq captured' /\ captured' \subseteq 1..new /\ new \notin captured
    BY <1>2, <1>3, <1>4 DEF PathTypes
  <1>6. HandlerTypes' /\ KeysInv' /\ OrderInv' BY <1>1, HandlerStays
  <1>7. PathTypes'
    <2>1. e.action \in Actions \cup {None} BY InputPathAssumption
    <2>2. captureSelections' \in Seq(captured') BY <1>1, <1>2, <1>5, SeqMonotonic DEF PathTypes
    <2>3. /\ processor' \in {"recv", "deliver", "dispatch", "done"}
          /\ processor' = "deliver" => Captures(e)
          /\ processor' = "dispatch" => Carries(e)
          /\ event' = IF processor' = "recv" THEN None ELSE [id |-> new, action |-> e.action]
      BY DEF Receive
    <2>4. processor' # "done" BY DEF Receive
    <2>5. Captures(e) => new \in captured' BY <1>4
    <2>6. Carries(e) => e.action \in Actions BY <2>1 DEF Carries
    <2>7. processor' = "deliver" => event' \in [id : captured', action : Actions \cup {None}]
      BY <2>1, <2>3, <2>5
    <2>8. processor' = "dispatch" => event' \in [id : 1..serial', action : Actions]
      BY <1>3, <2>3, <2>6
    <2>9. window' = "test" => testing' \in [id : 1..serial', action : Actions]
      BY <1>1, <1>2, <1>3 DEF PathTypes
    <2>10. captureActive' \in BOOLEAN BY <1>4
    <2>11. captured' \subseteq 1..serial' /\ serial' \in 0..MaxEvents BY <1>3, <1>5
    <2>12. selected' \in captured' \cup {None} BY <1>1, <1>2, <1>5 DEF PathTypes
    <2> HIDE DEF new
    <2> QED BY <1>1, <1>2, <2>2, <2>3, <2>4, <2>7, <2>8, <2>9, <2>10, <2>11, <2>12 DEF PathTypes
  <1>8. ClosingInv'
    <2>1. processor = "recv" BY DEF Receive
    <2> QED BY <1>1, <2>1 DEF ClosingInv, OnlyBackgroundDrops, handlerVars
  <1>9. CapturesInv'
    <2>1. Passed \subseteq Passed' BY <1>2, <1>3, <1>4, <1>5 DEF Passed, PathTypes
    <2>2. ~Captures(e) => new \in Passed' BY <1>3, <1>4, <1>5 DEF Passed
    <2>3. arms' = Cardinality(captured') + (IF captureActive' THEN 1 ELSE 0)
      <3>1. arms = Cardinality(captured) + (IF captureActive THEN 1 ELSE 0) BY DEF CapturesInv
      <3>2. IsFiniteSet(captured)
        <4>1. captured \subseteq 1..serial BY <1>2 DEF PathTypes
        <4>2. 1 \in Int /\ serial \in Int BY <1>3
        <4>3. IsFiniteSet(1..serial) BY <4>2, FS_Interval
        <4> QED BY <4>1, <4>3, FS_Subset
      <3>3. CASE Captures(e)
        <4>1. captureActive /\ captureActive' = FALSE BY <1>4, <3>3 DEF Captures
        <4>2. Cardinality(captured') = Cardinality(captured) + 1
          BY <1>4, <1>5, <3>2, <3>3, FS_AddElement
        <4>3. Cardinality(captured) \in Nat BY <3>2, FS_CardinalityType
        <4> QED BY <1>1, <3>1, <4>1, <4>2, <4>3
      <3>4. CASE ~Captures(e)
        <4>1. captureActive' = captureActive BY <1>2, <1>4, <3>4 DEF PathTypes
        <4>2. captured' = captured BY <1>4, <3>4
        <4> QED BY <1>1, <3>1, <4>1, <4>2
      <3> QED BY <3>3, <3>4
    <2>4. processor' = "dispatch" => event'.id \in Passed'
      <3>1. processor' = "dispatch" => ~Captures(e) /\ event'.id = new BY DEF Receive
      <3> QED BY <2>2, <3>1
    <2>5. window' = "test" => testing'.id \in Passed' BY <1>1, <2>1 DEF CapturesInv
    <2>6. HandlerPassed' BY <1>1, <2>1, PassedStays DEF CapturesInv
    <2>7. \A entry \in dropped' : entry[1] \in Passed' BY <1>1, <2>1 DEF CapturesInv
    <2> QED BY <2>3, <2>4, <2>5, <2>6, <2>7 DEF CapturesInv
  <1>10. TypeOK' BY <1>6, <1>7, TypesAreNext
  <1> QED BY <1>6, <1>8, <1>9, <1>10

\* A step of the processor or of the window that leaves the handler and the
\* count of the events alone.
LEMMA CapturesStay ==
  ASSUME PathInv, UNCHANGED <<handlerVars, serial, captured, dropped, arms, captureActive>>,
         processor' = "dispatch" => processor = "dispatch" /\ event' = event,
         window' = "test" => window = "test" /\ testing' = testing
  PROVE  CapturesInv'
  <1>1. Passed' = Passed BY DEF Passed
  <1>2. HandlerPassed' BY <1>1, PassedStays DEF PathInv, CapturesInv
  <1> QED BY <1>1, <1>2 DEF PathInv, CapturesInv

LEMMA PathQuiet ==
  ASSUME PathInv, UNCHANGED <<handlerVars, serial, captured, dropped, arms, captureActive>>,
         processor' = "dispatch" => processor = "dispatch" /\ event' = event,
         window' = "test" => window = "test" /\ testing' = testing,
         PathTypes',
         window' \in {"waiting", "ended"} => processor' = "done",
         window \in {"waiting", "ended"} => window' \in {"waiting", "ended"}
  PROVE  PathInv'
  <1>1. HandlerTypes' /\ KeysInv' /\ OrderInv' BY HandlerStays
  <1>2. TypeOK' BY <1>1, TypesAreNext
  <1>3. closed' = closed BY DEF handlerVars
  <1>4. ClosingInv' BY <1>3 DEF PathInv, ClosingInv, OnlyBackgroundDrops
  <1> QED BY <1>1, <1>2, <1>4, CapturesStay DEF PathInv

LEMMA DeliverStep ==
  ASSUME PathInv, Deliver
  PROVE  PathInv'
  <1> USE DEF ProcessorStays
  <1>1. HandlerTypes /\ PathTypes BY TypesAre DEF PathInv
  <1>2. event.id \in captured BY <1>1 DEF Deliver, PathTypes
  <1>3. captureSelections' \in Seq(captured) /\ Len(captureSelections') <= SelectionCap
    <2>1. captureSelections \in Seq(captured) /\ Len(captureSelections) <= SelectionCap
      BY <1>1 DEF PathTypes
    <2>2. Len(captureSelections) \in Nat BY <2>1, LenProperties
    <2>3. Append(captureSelections, event.id) \in Seq(captured)
          /\ Len(Append(captureSelections, event.id)) = Len(captureSelections) + 1
      BY <1>2, <2>1, AppendProperties
    <2> QED BY <2>1, <2>2, <2>3, InputPathAssumption DEF Deliver
  <1>4. PathTypes' BY <1>1, <1>3 DEF PathTypes, Deliver
  <1>5. window \notin {"waiting", "ended"} BY DEF PathInv, ClosingInv, Deliver
  <1>6. /\ UNCHANGED <<handlerVars, serial, captured, dropped, arms, captureActive, window, testing>>
        /\ processor' = "recv"
    BY DEF Deliver
  <1> QED BY <1>4, <1>5, <1>6, PathQuiet

\* A call of HandleAction with the number of an event that was not captured,
\* or its refusal.
LEMMA CallStep ==
  ASSUME PathInv, NEW a \in Actions, NEW id \in Passed,
         window \notin {"waiting", "ended"},
         \/ HandleAction(a, id, 0) /\ UNCHANGED dropped
         \/ Refuses(a) /\ dropped' = dropped \cup {<<id, a>>} /\ UNCHANGED handlerVars,
         UNCHANGED <<serial, captured>>
  PROVE  /\ HandlerTypes' /\ KeysInv' /\ OrderInv' /\ HandlerPassed'
         /\ OnlyBackgroundDrops' /\ closed' = closed
         /\ \A entry \in dropped' : entry[1] \in Passed'
  <1>1. HandlerTypes /\ PathTypes BY TypesAre DEF PathInv
  <1>2. id \in Nat BY <1>1 DEF Passed, PathTypes
  <1>3. Passed' = Passed BY DEF Passed
  <1>4. CASE HandleAction(a, id, 0) /\ UNCHANGED dropped
    <2>1. HandlerTypes' BY <1>1, <1>2, <1>4, CallTypesStep
    <2>2. KeysInv' BY <1>4, CallKeysStep DEF PathInv
    <2>3. OrderInv' BY <1>1, <1>2, <1>4, CallOrderStep DEF PathInv
    <2>4. HandlerPassed' BY <1>1, <1>2, <1>3, <1>4, CallPassedStep DEF PathInv, CapturesInv
    <2>5. closed' = closed
      BY <1>4 DEF HandleAction, tryEnqueueBackground, enqueueRealtime
    <2> QED BY <1>3, <1>4, <2>1, <2>2, <2>3, <2>4, <2>5
         DEF PathInv, ClosingInv, CapturesInv, OnlyBackgroundDrops
  <1>5. CASE Refuses(a) /\ dropped' = dropped \cup {<<id, a>>} /\ UNCHANGED handlerVars
    <2>1. HandlerTypes' /\ KeysInv' /\ OrderInv' BY <1>5, HandlerStays
    <2>2. HandlerPassed' BY <1>3, <1>5, PassedStays DEF PathInv, CapturesInv
    <2>3. closed' = closed BY <1>5 DEF handlerVars
    <2>4. ~closed BY DEF PathInv, ClosingInv
    <2>5. isBackgroundAction(a) BY <1>5, <2>4 DEF Refuses
    <2>6. OnlyBackgroundDrops'
      <3> SUFFICES ASSUME NEW entry \in dropped' PROVE isBackgroundAction(entry[2])
        BY DEF OnlyBackgroundDrops
      <3>1. CASE entry \in dropped BY <3>1 DEF PathInv, ClosingInv, OnlyBackgroundDrops
      <3>2. CASE entry = <<id, a>> BY <2>5, <3>2
      <3> QED BY <1>5, <3>1, <3>2
    <2>7. \A entry \in dropped' : entry[1] \in Passed' BY <1>3, <1>5 DEF PathInv, CapturesInv
    <2> QED BY <2>1, <2>2, <2>3, <2>6, <2>7
  <1> QED BY <1>4, <1>5

LEMMA DispatchStep ==
  ASSUME PathInv, Dispatch
  PROVE  PathInv'
  <1> USE DEF ProcessorStays
  <1>1. HandlerTypes /\ PathTypes BY TypesAre DEF PathInv
  <1>2. event.action \in Actions /\ event.id \in Passed
    BY <1>1 DEF Dispatch, PathTypes, PathInv, CapturesInv
  <1>3. window \notin {"waiting", "ended"} BY DEF PathInv, ClosingInv, Dispatch
  <1>4. /\ HandlerTypes' /\ KeysInv' /\ OrderInv' /\ HandlerPassed'
        /\ OnlyBackgroundDrops' /\ closed' = closed
        /\ \A entry \in dropped' : entry[1] \in Passed'
    <2> DEFINE a == event.action
               id == event.id
    <2>1. \/ HandleAction(a, id, 0) /\ UNCHANGED dropped
          \/ Refuses(a) /\ dropped' = dropped \cup {<<id, a>>} /\ UNCHANGED handlerVars
      BY DEF Dispatch
    <2>2. UNCHANGED <<serial, captured>> BY DEF Dispatch
    <2>3. a \in Actions /\ id \in Passed BY <1>2
    <2> HIDE DEF a, id
    <2> QED BY <1>3, <2>1, <2>2, <2>3, CallStep
  <1>5. PathTypes' BY <1>1 DEF PathTypes, Dispatch
  <1>6. TypeOK' BY <1>4, <1>5, TypesAreNext
  <1>7. ClosingInv' BY <1>3, <1>4 DEF PathInv, ClosingInv, Dispatch
  <1>8. CapturesInv' BY <1>4 DEF PathInv, CapturesInv, Dispatch, Passed
  <1> QED BY <1>4, <1>6, <1>7, <1>8 DEF PathInv

LEMMA RunTestStep ==
  ASSUME PathInv, RunTest
  PROVE  PathInv'
  <1> USE DEF WindowStays
  <1>1. HandlerTypes /\ PathTypes BY TypesAre DEF PathInv
  <1>2. testing.action \in Actions /\ testing.id \in Passed
    BY <1>1 DEF RunTest, PathTypes, PathInv, CapturesInv
  <1>3. window = "test" /\ window' = "drain" BY DEF RunTest
  <1>4. /\ HandlerTypes' /\ KeysInv' /\ OrderInv' /\ HandlerPassed'
        /\ OnlyBackgroundDrops' /\ closed' = closed
        /\ \A entry \in dropped' : entry[1] \in Passed'
    <2> DEFINE a == testing.action
               id == testing.id
    <2>1. \/ HandleAction(a, id, 0) /\ UNCHANGED dropped
          \/ Refuses(a) /\ dropped' = dropped \cup {<<id, a>>} /\ UNCHANGED handlerVars
      BY DEF RunTest
    <2>2. UNCHANGED <<serial, captured>> BY DEF RunTest
    <2>3. a \in Actions /\ id \in Passed BY <1>2
    <2> HIDE DEF a, id
    <2> QED BY <1>3, <2>1, <2>2, <2>3, CallStep
  <1>5. PathTypes' BY <1>1, <1>3 DEF PathTypes, RunTest
  <1>6. TypeOK' BY <1>4, <1>5, TypesAreNext
  <1>7. ClosingInv' BY <1>3, <1>4 DEF PathInv, ClosingInv
  <1>8. CapturesInv' BY <1>4 DEF PathInv, CapturesInv, RunTest, Passed
  <1> QED BY <1>4, <1>6, <1>7, <1>8 DEF PathInv

LEMMA StopStep ==
  ASSUME PathInv, StopProcessor
  PROVE  PathInv'
  <1> USE DEF ProcessorStays
  <1>1. PathTypes BY TypesAre DEF PathInv
  <1>2. PathTypes' BY <1>1 DEF PathTypes, StopProcessor
  <1>3. /\ UNCHANGED <<handlerVars, serial, captured, dropped, arms, captureActive, window, testing>>
        /\ processor' = "done"
    BY DEF StopProcessor
  <1> QED BY <1>2, <1>3, PathQuiet

-----------------------------------------------------------------------------
(* The window.                                                             *)

LEMMA QuietWindowStep ==
  ASSUME PathInv, Frame \/ Navigate \/ Destroy \/ End
  PROVE  PathInv'
  <1> USE DEF WindowStays, Frame, Navigate, Destroy, End
  <1>1. PathTypes BY TypesAre DEF PathInv
  <1>2. PathTypes'
    <2>1. CASE Frame BY <1>1, <2>1 DEF PathTypes
    <2>2. CASE Navigate BY <1>1, <2>2 DEF PathTypes
    <2>3. CASE Destroy BY <1>1, <2>3 DEF PathTypes
    <2>4. CASE End BY <1>1, <2>4 DEF PathTypes
    <2> QED BY <2>1, <2>2, <2>3, <2>4
  <1>3. /\ UNCHANGED <<handlerVars, serial, captured, dropped, arms, captureActive, processor, event>>
        /\ window' # "test" /\ (window \in {"waiting", "ended"} <=> window' \in {"waiting", "ended"})
    OBVIOUS
  <1>4. window \in {"waiting", "ended"} => processor = "done" BY DEF PathInv, ClosingInv
  <1> QED BY <1>2, <1>3, <1>4, PathQuiet

LEMMA DrainStep ==
  ASSUME PathInv, Drain
  PROVE  PathInv'
  <1> USE DEF WindowStays
  <1>1. PathTypes BY TypesAre DEF PathInv
  <1>2. captureSelections # <<>> =>
           /\ Head(captureSelections) \in captured
           /\ Tail(captureSelections) \in Seq(captured)
           /\ Len(Tail(captureSelections)) <= SelectionCap
    <2>1. captureSelections \in Seq(captured) /\ Len(captureSelections) <= SelectionCap
      BY <1>1 DEF PathTypes
    <2> QED BY <2>1, TailKeepsType, InputPathAssumption
  <1>3. PathTypes' BY <1>1, <1>2 DEF PathTypes, Drain
  <1>4. /\ UNCHANGED <<handlerVars, serial, captured, dropped, arms, captureActive, processor, event>>
        /\ window' \in {"idle", "drain"} /\ window = "drain"
    BY DEF Drain
  <1> QED BY <1>3, <1>4, PathQuiet

\* A capture is armed: one event more is to be captured.
LEMMA BeginCaptureStep ==
  ASSUME PathInv, BeginCapture
  PROVE  PathInv'
  <1> USE DEF WindowStays
  <1>1. PathTypes BY TypesAre DEF PathInv
  <1>2. UNCHANGED <<handlerVars, serial, captured, dropped, processor, event, testing>>
        /\ window = "idle" /\ window' = "drain"
    BY DEF BeginCapture
  <1>3. HandlerTypes' /\ KeysInv' /\ OrderInv' BY <1>2, HandlerStays
  <1>4. PathTypes'
    <2>1. arms' \in 0..MaxArms BY <1>1, InputPathAssumption DEF PathTypes, BeginCapture
    <2> QED BY <1>1, <2>1 DEF PathTypes, BeginCapture
  <1>5. TypeOK' BY <1>3, <1>4, TypesAreNext
  <1>6. ClosingInv' BY <1>2 DEF PathInv, ClosingInv, OnlyBackgroundDrops, handlerVars
  <1>7. CapturesInv'
    <2>1. Passed' = Passed BY <1>2 DEF Passed
    <2>2. HandlerPassed' BY <1>2, <2>1, PassedStays DEF PathInv, CapturesInv
    <2>3. arms' = Cardinality(captured') + (IF captureActive' THEN 1 ELSE 0)
      <3>1. arms = Cardinality(captured) + (IF captureActive THEN 1 ELSE 0)
        BY DEF PathInv, CapturesInv
      <3>2. captureActive \in BOOLEAN /\ arms \in Nat /\ Cardinality(captured') = Cardinality(captured)
        BY <1>1, <1>2, InputPathAssumption DEF PathTypes
      <3>3. Cardinality(captured) \in Nat
        <4>1. captured \subseteq 1..serial /\ serial \in Int
          BY <1>1, InputPathAssumption DEF PathTypes
        <4>2. IsFiniteSet(1..serial) BY <4>1, FS_Interval
        <4>3. IsFiniteSet(captured) BY <4>1, <4>2, FS_Subset
        <4> QED BY <4>3, FS_CardinalityType
      <3>4. captureActive' = TRUE /\ arms' = IF captureActive THEN arms ELSE arms + 1
        BY DEF BeginCapture
      <3> QED BY <3>1, <3>2, <3>3, <3>4
    <2> QED BY <1>2, <2>1, <2>2, <2>3 DEF PathInv, CapturesInv
  <1> QED BY <1>3, <1>5, <1>6, <1>7 DEF PathInv

\* A test gets the next number, as an event does.
LEMMA ClickTestStep ==
  ASSUME PathInv, NEW a \in Tests, ClickTest(a)
  PROVE  PathInv'
  <1> DEFINE new == serial + 1
  <1>1. PathTypes BY TypesAre DEF PathInv
  <1>2. /\ UNCHANGED <<handlerVars, captureActive, captureSelections, processor, event,
                       configuring, selected, stopped, arms, captured, dropped>>
        /\ window = "idle" /\ window' = "test" /\ serial' = new
        /\ testing' = [id |-> new, action |-> a]
    BY DEF ClickTest
  <1>3. /\ new \in 0..MaxEvents /\ 1..serial \subseteq 1..new /\ new \in 1..new
        /\ new \notin captured
    BY <1>1, InputPathAssumption DEF ClickTest, PathTypes
  <1>4. HandlerTypes' /\ KeysInv' /\ OrderInv' BY <1>2, HandlerStays
  <1>5. PathTypes'
    <2>1. testing' \in [id : 1..serial', action : Actions] BY <1>2, <1>3, InputPathAssumption
    <2>2. processor = "dispatch" => event \in [id : 1..new, action : Actions]
      BY <1>1, <1>3 DEF PathTypes
    <2>3. captured \subseteq 1..new BY <1>1, <1>3 DEF PathTypes
    <2> HIDE DEF new
    <2> QED BY <1>1, <1>2, <1>3, <2>1, <2>2, <2>3 DEF PathTypes
  <1>6. TypeOK' BY <1>4, <1>5, TypesAreNext
  <1>7. ClosingInv' BY <1>2 DEF PathInv, ClosingInv, OnlyBackgroundDrops, handlerVars
  <1>8. CapturesInv'
    <2>1. Passed \subseteq Passed' /\ new \in Passed' BY <1>2, <1>3 DEF Passed
    <2>2. HandlerPassed' BY <1>2, <2>1, PassedStays DEF PathInv, CapturesInv
    <2>3. testing'.id = new BY <1>2
    <2>4. arms' = Cardinality(captured') + (IF captureActive' THEN 1 ELSE 0)
      BY <1>2 DEF PathInv, CapturesInv
    <2>5. processor' = "dispatch" => event'.id \in Passed' BY <1>2, <2>1 DEF PathInv, CapturesInv
    <2>6. \A entry \in dropped' : entry[1] \in Passed' BY <1>2, <2>1 DEF PathInv, CapturesInv
    <2> QED BY <2>1, <2>2, <2>3, <2>4, <2>5, <2>6 DEF CapturesInv
  <1> QED BY <1>4, <1>6, <1>7, <1>8 DEF PathInv

\* The handler is closed once the processor has ended.
LEMMA CloseAllStep ==
  ASSUME PathInv, CloseAll
  PROVE  PathInv'
  <1> USE DEF WindowStays, CloseHandler
  <1>1. HandlerTypes /\ PathTypes BY TypesAre DEF PathInv
  <1>2. /\ UNCHANGED <<queueVars, inputVars, backVars, historyVars, keyboardVars>> /\ closed' = TRUE
        /\ UNCHANGED <<serial, captured, dropped, arms, captureActive, processor, event, testing>>
        /\ window = "closing" /\ window' = "waiting" /\ processor = "done"
    BY DEF CloseAll
  <1>3. HandlerTypes'
    BY <1>1, <1>2 DEF HandlerTypes, QueueTypes, InputTypes, BackTypes, queueVars, inputVars, backVars
  <1>4. KeysInv' BY <1>2, KeysStay DEF PathInv, inputVars, keyboardVars
  <1>5. OrderInv'
    BY <1>2 DEF PathInv, OrderInv, RealtimeInOrder, StepsInOrder, queueVars, inputVars, historyVars
  <1>6. PathTypes' BY <1>1 DEF CloseAll, PathTypes
  <1>7. TypeOK' BY <1>3, <1>6, TypesAreNext
  <1>8. ClosingInv' BY <1>2 DEF PathInv, ClosingInv, OnlyBackgroundDrops
  <1>9. CapturesInv'
    <2>1. Passed' = Passed BY <1>2 DEF Passed
    <2>2. HandlerPassed'
      BY <1>2, <2>1 DEF PathInv, CapturesInv, HandlerPassed, queueVars, backVars, historyVars
    <2> QED BY <1>2, <2>1, <2>2 DEF PathInv, CapturesInv
  <1> QED BY <1>4, <1>5, <1>7, <1>8, <1>9 DEF PathInv

-----------------------------------------------------------------------------
(* The invariant holds.                                                    *)

LEMMA PathInit == Init => PathInv
  <1> SUFFICES ASSUME Init PROVE PathInv OBVIOUS
  <1>0. \A S : <<>> \in Seq(S) /\ Len(<<>>) = 0 /\ DOMAIN <<>> = {}
    <2>1. \A S : <<>> \in Seq(S) /\ Len(<<>>) = 0 BY EmptySeq
    <2>2. DOMAIN <<>> = {} OBVIOUS
    <2> QED BY <2>1, <2>2
  <1> USE DEF Init, HandlerInit, KeyboardInit
  <1>1. HandlerTypes
    <2>1. QueueTypes
      <3>1. /\ <<>> \in Seq(Steps) /\ <<>> \in Seq(Requests \ Steps) /\ Len(<<>>) = 0
            /\ 0 <= RealtimeCap /\ 0 <= MacroCap /\ 0 <= BackgroundCap
        BY <1>0, HandlerAssumption
      <3>2. realtimeQueue = <<>> /\ macroStepQueue = <<>> /\ backgroundQueue = <<>> /\ closed = FALSE
        OBVIOUS
      <3> QED BY <3>1, <3>2 DEF QueueTypes
    <2>2. InputTypes
      <3>1. inputPc = "poll" /\ calls = <<>> /\ current = None /\ pending = None OBVIOUS
      <3>2. inputPc # "took" /\ inputPc # "send" BY <3>1
      <3> QED BY ONLY <3>1, <3>2, Zenon DEF InputTypes
    <2>3. BackTypes BY <1>0, HandlerAssumption DEF BackTypes
    <2> QED BY <2>1, <2>2, <2>3 DEF HandlerTypes
  <1>2. PathTypes
    <2>1. <<>> \in Seq({}) /\ Len(<<>>) = 0 /\ 0 <= SelectionCap /\ 0 \in 0..MaxEvents /\ 0 \in 0..MaxArms
      BY <1>0, InputPathAssumption
    <2>2. /\ serial = 0 /\ arms = 0 /\ processor = "recv" /\ event = None /\ window = "idle"
          /\ testing = None /\ captureActive = FALSE /\ configuring = TRUE /\ stopped = FALSE
          /\ captureSelections = <<>> /\ captured = {} /\ selected = None
      OBVIOUS
    <2> QED BY <2>1, <2>2 DEF PathTypes
  <1>3. TypeOK BY <1>1, <1>2, TypesAre
  <1>4. KeysInv BY <1>0 DEF KeysInv, Released
  <1>5. OrderInv
    <2>1. <<>> \in Seq(Requests) BY <1>0
    <2>2. Named(<<>>) \in Seq(Entries) /\ Len(Named(<<>>)) = 0 BY <1>0, <2>1, NamedIs
    <2>3. Named(<<>>) = <<>> BY <2>2, EmptySeq
    <2> QED BY <1>0, <2>3 DEF OrderInv, RealtimeInOrder, StepsInOrder
  <1>6. ClosingInv BY DEF ClosingInv, OnlyBackgroundDrops
  <1>7. CapturesInv BY <1>0, FS_EmptySet DEF CapturesInv, HandlerPassed
  <1> QED BY <1>3, <1>4, <1>5, <1>6, <1>7 DEF PathInv

LEMMA PathStep == PathInv /\ [Next]_vars => PathInv'
  <1> SUFFICES ASSUME PathInv, [Next]_vars PROVE PathInv' OBVIOUS
  <1>1. CASE Workers BY <1>1, WorkersStep
  <1>2. CASE Processor BY <1>2, DeliverStep, DispatchStep, StopStep DEF Processor
  <1>3. CASE Closing BY <1>3, RunTestStep, DrainStep, CloseAllStep, QuietWindowStep DEF Closing
  <1>4. CASE \E e \in Events : Receive(e) BY <1>4, ReceiveStep
  <1>5. CASE \E a \in Tests : ClickTest(a) BY <1>5, ClickTestStep
  <1>6. CASE Frame \/ BeginCapture \/ Navigate \/ Destroy
    BY <1>6, QuietWindowStep, BeginCaptureStep
  <1>7. CASE UNCHANGED vars
    <2>1. UNCHANGED handlerVars /\ UNCHANGED pathVars BY <1>7 DEF vars
    <2>2. PathTypes BY TypesAre DEF PathInv
    <2>3. PathTypes' BY <2>1, <2>2 DEF PathTypes, pathVars
    <2>4. window \in {"waiting", "ended"} => processor = "done" BY DEF PathInv, ClosingInv
    <2> QED BY <2>1, <2>3, <2>4, PathQuiet DEF pathVars
  <1> QED BY <1>1, <1>2, <1>3, <1>4, <1>5, <1>6, <1>7 DEF Next

THEOREM PathInvAlways == Spec => []PathInv
  BY PathInit, PathStep, PTL DEF Spec

-----------------------------------------------------------------------------
(* The handler is one typist.                                              *)

\* Between two actions nothing is down.
LEMMA NothingDown ==
  ASSUME KeysInv, calls = <<>>
  PROVE  Down = {}
  <1>1. DOMAIN calls = {} OBVIOUS
  <1> QED BY <1>1 DEF KeysInv, Down

\* Within one only its own keys are.
LEMMA DownIsMine ==
  ASSUME KeysInv
  PROVE  Down \subseteq KeysOf(current)
  <1> DEFINE x == executeInputAction(current.action)
  <1> SUFFICES ASSUME NEW k \in held \ refused PROVE k \in UNION {KeysIn(b) : b \in Range(x)}
    BY DEF Down, KeysOf
  <1>1. PICK i \in DOMAIN calls : k \in KeysUp(calls[i]) BY DEF KeysInv
  <1>2. PICK j \in DOMAIN x : KeysUp(calls[i]) \subseteq KeysIn(x[j]) BY DEF KeysInv
  <1>3. x[j] \in Range(x) BY DEF Range
  <1> HIDE DEF x
  <1> QED BY <1>1, <1>2, <1>3

LEMMA AppendIsNext ==
  ASSUME NEW S, NEW q \in Seq(S), NEW e \in S
  PROVE  Append(q, e) # <<>> /\ Front(Append(q, e)) = q
  <1> DEFINE a == Append(q, e)
  <1>1. /\ a \in Seq(S) /\ Len(a) = Len(q) + 1 /\ Len(q) \in Nat
        /\ \A i \in 1..Len(q) : a[i] = q[i]
    BY AppendProperties, LenProperties
  <1> HIDE DEF a
  <1>2. a # <<>> BY <1>1, EmptySeq
  <1>3. \A i \in 1..Len(q) : a[i] \in S BY <1>1, ElementOfSeq
  <1>4. /\ SubSeq(a, 1, Len(q)) \in Seq(S)
        /\ Len(SubSeq(a, 1, Len(q))) = Len(q)
        /\ \A i \in 1..Len(q) : SubSeq(a, 1, Len(q))[i] = a[i]
    <2>1. /\ SubSeq(a, 1, Len(q)) \in Seq(S)
          /\ Len(SubSeq(a, 1, Len(q))) = IF 1 <= Len(q) THEN Len(q) - 1 + 1 ELSE 0
          /\ \A i \in 1..Len(q) - 1 + 1 : SubSeq(a, 1, Len(q))[i] = a[1 + i - 1]
      BY <1>1, <1>3, SubSeqProperties
    <2> QED BY <1>1, <2>1
  <1>5. SubSeq(a, 1, Len(q)) = q BY <1>1, <1>4, SeqEqual
  <1>6. Front(a) = SubSeq(a, 1, Len(a) - 1) BY DEF Front
  <1>7. Len(a) - 1 = Len(q) BY <1>1
  <1> QED BY <1>2, <1>5, <1>6, <1>7 DEF a

LEMMA ConsIs ==
  ASSUME NEW S, NEW q \in Seq(S), NEW e \in S
  PROVE  /\ Cons(e, q) \in Seq(S) /\ Cons(e, q) # <<>>
         /\ Head(Cons(e, q)) = e /\ Tail(Cons(e, q)) = q
         /\ \A x \in S : Cons(e, Append(q, x)) = Append(Cons(e, q), x)
  <1>1. Cons(e, q) = <<e>> \o q BY DEF Cons
  <1>2. <<e>> \in Seq(S) /\ Len(<<e>>) = 1 /\ <<e>>[1] = e BY OneEvent
  <1> DEFINE o == <<e>>
             c == o \o q
  <1>3. /\ c \in Seq(S) /\ Len(c) = Len(o) + Len(q)
        /\ \A i \in 1..Len(o) + Len(q) : c[i] = IF i <= Len(o) THEN o[i] ELSE q[i - Len(o)]
    BY <1>2, ConcatProperties
  <1>4. \A x \in S : o \o Append(q, x) = Append(c, x)
    <2> TAKE x \in S
    <2> DEFINE y == <<x>>
    <2>1. y \in Seq(S) BY OneEvent
    <2>2. Append(q, x) = q \o y BY AppendIsConcat
    <2>3. Append(c, x) = c \o y BY <1>3, AppendIsConcat
    <2> HIDE DEF y
    <2>4. o \o (q \o y) = (o \o q) \o y BY <1>2, <2>1, ConcatAssociative
    <2> QED BY <2>2, <2>3, <2>4
  <1>5. Len(q) \in Nat BY LenProperties
  <1>6. Len(o) = 1 /\ o[1] = e BY <1>2
  <1>7. Cons(e, q) = c BY <1>1
  <1> HIDE DEF c, o
  <1>8. Len(c) = Len(q) + 1 /\ c[1] = e /\ \A i \in 1..Len(q) : c[i + 1] = q[i]
    <2>1. 1 \in 1..Len(o) + Len(q) /\ Len(c) = Len(q) + 1 BY <1>3, <1>5, <1>6
    <2>2. ASSUME NEW i \in 1..Len(q) PROVE c[i + 1] = q[i]
      <3>1. i + 1 \in 1..Len(o) + Len(q) /\ ~(i + 1 <= Len(o)) /\ i + 1 - Len(o) = i BY <1>5, <1>6
      <3> QED BY <1>3, <3>1
    <2> QED BY <1>3, <1>6, <2>1, <2>2
  <1>9. c # <<>> BY <1>3, <1>5, <1>8, EmptySeq
  <1>10. Head(c) = e BY <1>3, <1>8
  <1>11. Tail(c) = q
    <2>1. /\ Tail(c) \in Seq(S) /\ Len(Tail(c)) = Len(c) - 1
          /\ \A i \in 1..Len(Tail(c)) : Tail(c)[i] = c[i + 1]
      BY <1>3, <1>9, HeadTailProperties
    <2>2. Len(Tail(c)) = Len(q) BY <1>5, <1>8, <2>1
    <2>3. \A i \in 1..Len(q) : Tail(c)[i] = q[i] BY <1>8, <2>1, <2>2
    <2> QED BY <2>1, <2>2, <2>3, SeqEqual
  <1>12. \A x \in S : Cons(e, Append(q, x)) = Append(c, x) BY <1>4 DEF Cons, o
  <1> QED BY <1>3, <1>7, <1>9, <1>10, <1>11, <1>12

LEMMA ConsTail ==
  ASSUME NEW S, NEW q \in Seq(S), q # <<>>
  PROVE  Cons(Head(q), Tail(q)) = q
  <1> DEFINE h == Head(q)
             t == Tail(q)
             c == Cons(h, t)
  <1>1. h \in S /\ t \in Seq(S) /\ Len(t) = Len(q) - 1 /\ \A i \in 1..Len(t) : t[i] = q[i + 1]
    BY HeadTailProperties
  <1>2. h = q[1] /\ Len(q) \in Nat \ {0} BY LenProperties, EmptySeq
  <1> HIDE DEF h, t
  <1>3. c \in Seq(S) /\ c # <<>> /\ Head(c) = h /\ Tail(c) = t BY <1>1, ConsIs
  <1> HIDE DEF c
  <1>4. Len(t) = Len(c) - 1 /\ \A i \in 1..Len(t) : t[i] = c[i + 1]
    BY <1>3, HeadTailProperties
  <1>5. c[1] = h /\ Len(c) \in Nat \ {0} BY <1>3, LenProperties, EmptySeq
  <1>6. Len(c) = Len(q) BY <1>1, <1>2, <1>4, <1>5
  <1>7. ASSUME NEW i \in 1..Len(q) PROVE c[i] = q[i]
    <2>1. CASE i = 1 BY <1>2, <1>5, <2>1
    <2>2. CASE i # 1
      <3>1. i - 1 \in 1..Len(t) /\ i - 1 + 1 = i BY <1>1, <1>2, <2>2
      <3> QED BY <1>1, <1>4, <3>1
    <2> QED BY <2>1, <2>2
  <1>8. c = q BY <1>3, <1>6, <1>7, SeqEqual
  <1> QED BY <1>8 DEF c, h, t

\* The macro steps that wait, with the one in hand in front.
LEMMA StepsWaitingIs ==
  ASSUME HandlerTypes
  PROVE  /\ macroStepQueue \in Seq(Steps) /\ realtimeQueue \in Seq(Steps)
         /\ pending = None => StepsWaiting = macroStepQueue
         /\ pending # None =>
               /\ pending \in Steps
               /\ StepsWaiting = Cons(pending, macroStepQueue)
  <1>1. pending # None => pending \in Steps BY DEF HandlerTypes, InputTypes
  <1> QED BY <1>1 DEF HandlerTypes, QueueTypes, StepsWaiting

Typed == <<realtimeQueue, StepsWaiting, current, Overtaken, Down>>

\* A step of the input worker types an action, moves its keys, ends it, or
\* looks at the queues.
LEMMA InputStepTypes ==
  ASSUME HandlerTypes, KeysInv, KeysInv', InputStepIs
  PROVE  Typing!Next \/ UNCHANGED Typed
  <1>1. CASE Ends \/ Waits
    BY <1>1 DEF Ends, Waits, Typed, StepsWaiting, Overtaken, Down, queueVars
  <1>2. CASE Realtime
    <2>1. current = None /\ calls = <<>> BY <1>2, StepsAre DEF Realtime, HandlerTypes, InputTypes
    <2>2. Down = {} BY <2>1, NothingDown
    <2>3. UNCHANGED <<StepsWaiting, Down>> BY <1>2 DEF Realtime, StepsWaiting, Down
    <2>4. Overtaken' \in BOOLEAN BY DEF Overtaken
    <2>5. Overtaken' => StepsWaiting # <<>>
      <3>1. Overtaken' => pending # None BY <1>2 DEF Realtime, Overtaken
      <3> QED BY <3>1, StepsWaitingIs, ConsIs
    <2>6. Typing!TypeStroke
      BY <1>2, <2>1, <2>2, <2>3, <2>4, <2>5 DEF Realtime, Typing!TypeStroke
    <2> QED BY <2>6 DEF Typing!Next
  <1>3. CASE TakesStep
    <2>1. pending = None BY <1>3 DEF TakesStep, HandlerTypes, InputTypes
    <2>2. macroStepQueue \in Seq(Steps) /\ Head(macroStepQueue) \in Steps
      BY <1>3, TailKeepsType DEF TakesStep, HandlerTypes, QueueTypes
    <2>3. pending' # None BY <1>3, <2>2, StepsAre DEF TakesStep
    <2>4. StepsWaiting = macroStepQueue BY <2>1 DEF StepsWaiting
    <2>5. StepsWaiting' = Cons(Head(macroStepQueue), Tail(macroStepQueue))
      BY <1>3, <2>3 DEF StepsWaiting, TakesStep
    <2>6. StepsWaiting' = StepsWaiting BY <1>3, <2>2, <2>4, <2>5, ConsTail DEF TakesStep
    <2> QED BY <1>3, <2>6 DEF TakesStep, Typed, Overtaken, Down
  <1>4. CASE Plays
    <2>1. pending \in Steps /\ pending # None BY <1>4, StepsAre DEF Plays, HandlerTypes, InputTypes
    <2>2. calls = <<>> BY <1>4 DEF Plays, HandlerTypes, InputTypes
    <2>3. Down = {} /\ Down' = Down BY <1>4, <2>2, NothingDown DEF Plays, Down
    <2>4. StepsWaiting = Cons(pending, macroStepQueue) /\ macroStepQueue \in Seq(Steps)
      BY <2>1, StepsWaitingIs
    <2>5. StepsWaiting # <<>> /\ Head(StepsWaiting) = pending /\ Tail(StepsWaiting) = macroStepQueue
      BY <2>1, <2>4, ConsIs
    <2>6. StepsWaiting' = macroStepQueue /\ Overtaken' = FALSE /\ current' = pending
          /\ realtimeQueue' = realtimeQueue
      BY <1>4 DEF Plays, StepsWaiting, Overtaken, queueVars
    <2>7. (current = None /\ realtimeQueue = <<>>) \/ Overtaken
      BY <1>4, <2>1 DEF Plays, HandlerTypes, InputTypes, Overtaken
    <2>8. Typing!TypeStep BY <2>3, <2>5, <2>6, <2>7 DEF Typing!TypeStep
    <2> QED BY <2>8 DEF Typing!Next
  <1>5. CASE Rests
    <2>1. current # None BY <1>5, StepsAre DEF Rests, HandlerTypes, InputTypes
    <2>2. Down = {} BY <1>5, NothingDown DEF Rests
    <2>3. ~Overtaken /\ UNCHANGED <<realtimeQueue, StepsWaiting, Overtaken, Down>> /\ current' = None
      BY <1>5 DEF Rests, Overtaken, StepsWaiting, Down, queueVars
    <2>4. Typing!Rest BY <2>1, <2>2, <2>3 DEF Typing!Rest
    <2> QED BY <2>4 DEF Typing!Next
  <1>6. CASE Injects
    <2>1. current # None BY <1>6, StepsAre DEF Injects, HandlerTypes, InputTypes
    <2>2. UNCHANGED <<realtimeQueue, StepsWaiting, Overtaken, current>>
      BY <1>6 DEF Injects, Overtaken, StepsWaiting, queueVars
    <2>3. Down' \subseteq KeysOf(current)
      <3>1. (Down \subseteq KeysOf(current))' BY DownIsMine, PTL
      <3> QED BY <2>2, <3>1
    <2>4. Typing!MoveKeys BY <2>1, <2>2, <2>3 DEF Typing!MoveKeys
    <2> QED BY <2>4 DEF Typing!Next
  <1> QED BY <1>1, <1>2, <1>3, <1>4, <1>5, <1>6 DEF InputStepIs

\* A step of the background worker adds a macro step, or none.
LEMMA BackStepTypes ==
  ASSUME HandlerTypes, BackStepIs
  PROVE  Typing!Next \/ UNCHANGED Typed
  <1>1. UNCHANGED <<realtimeQueue, current, pending, Overtaken, Down>>
    BY DEF BackStepIs, BackEnds, Takes, Returns, Comes, Runs, Nests, Passes, BackRests,
           inputVars, Overtaken, Down
  <1>2. CASE Passes
    <2> DEFINE req == Request(Head(Last(frames)), playing.id, 0)
    <2>1. req \in Steps /\ macroStepQueue' = Append(macroStepQueue, req)
      <3>1. Last(frames) # <<>> /\ IsInput(Head(Last(frames)))
        BY <1>2 DEF Passes, HandlerTypes, BackTypes
      <3>2. playing \in Requests /\ Head(Last(frames)) \in Actions BY <1>2, <3>1, PlayedIs DEF Passes
      <3> QED BY <1>2, <3>1, <3>2, RequestIs, RequestType DEF Passes
    <2> HIDE DEF req
    <2>2. macroStepQueue \in Seq(Steps) /\ (pending # None => pending \in Steps) BY StepsWaitingIs
    <2>3. StepsWaiting' = Append(StepsWaiting, req) /\ StepsWaiting \in Seq(Steps)
      <3>1. CASE pending = None BY <1>1, <2>1, <2>2, <3>1 DEF StepsWaiting
      <3>2. CASE pending # None
        <4>1. StepsWaiting = Cons(pending, macroStepQueue)
              /\ StepsWaiting' = Cons(pending, Append(macroStepQueue, req))
          BY <1>1, <2>1, <3>2 DEF StepsWaiting
        <4> QED BY <2>1, <2>2, <3>2, <4>1, ConsIs
      <3> QED BY <3>1, <3>2
    <2>4. StepsWaiting' # <<>> /\ Front(StepsWaiting') = StepsWaiting BY <2>1, <2>3, AppendIsNext
    <2>5. Typing!PassOn BY <1>1, <2>4 DEF Typing!PassOn, Typing!Front, Front
    <2> QED BY <2>5 DEF Typing!Next
  <1>3. CASE ~Passes
    <2>1. macroStepQueue' = macroStepQueue
      BY <1>3 DEF BackStepIs, BackEnds, Takes, Returns, Comes, Runs, Nests, BackRests
    <2> QED BY <1>1, <2>1 DEF Typed, StepsWaiting
  <1> QED BY <1>2, <1>3

\* A call of HandleAction adds a stroke, or none.
LEMMA CallTypes ==
  ASSUME HandlerTypes, NEW a \in Actions, NEW id \in Nat, HandleAction(a, id, 0)
  PROVE  Typing!Next \/ UNCHANGED Typed
  <1> USE DEF inputVars, keyboardVars
  <1>1. CASE isBackgroundAction(a)
    BY <1>1 DEF HandleAction, tryEnqueueBackground, Typed, StepsWaiting, Overtaken, Down
  <1>2. CASE ~isBackgroundAction(a)
    <2> DEFINE req == Request(a, id, 0)
    <2>1. req \in Steps BY <1>2, Kinds, RequestType
    <2> HIDE DEF req
    <2>2. realtimeQueue \in Seq(Steps) BY StepsWaitingIs
    <2>3. /\ realtimeQueue' = Append(realtimeQueue, req)
          /\ UNCHANGED <<StepsWaiting, current, Overtaken, Down>>
      BY <1>2 DEF HandleAction, enqueueRealtime, StepsWaiting, Overtaken, Down, req
    <2>4. realtimeQueue' # <<>> /\ Front(realtimeQueue') = realtimeQueue
      BY <2>1, <2>2, <2>3, AppendIsNext
    <2>5. Typing!Accept BY <2>3, <2>4 DEF Typing!Accept, Typing!Front, Front
    <2> QED BY <2>5 DEF Typing!Next
  <1> QED BY <1>1, <1>2

\* No other step is seen by the typist.
LEMMA OthersTypeNothing ==
  ASSUME UNCHANGED <<queueVars, inputVars, held, refused>>
  PROVE  UNCHANGED Typed
  BY DEF queueVars, inputVars, Typed, StepsWaiting, Overtaken, Down

LEMMA StepTypes ==
  ASSUME PathInv, PathInv', [Next]_vars
  PROVE  Typing!Next \/ UNCHANGED Typed
  <1>1. HandlerTypes /\ KeysInv /\ PathTypes BY TypesAre DEF PathInv
  <1>2. KeysInv' BY DEF PathInv
  <1>3. CASE Workers
    <2>1. CASE InputWorker \/ Inject BY <1>1, <1>2, <2>1, InputWorkerIs, InputStepTypes
    <2>2. CASE BackgroundWorker BY <1>1, <2>2, BackgroundWorkerIs, BackStepTypes
    <2> QED BY <1>3, <2>1, <2>2 DEF Workers
  <1>4. CASE Dispatch
    <2>1. event.action \in Actions /\ event.id \in Nat BY <1>1, <1>4 DEF Dispatch, PathTypes
    <2>2. HandleAction(event.action, event.id, 0) \/ UNCHANGED handlerVars BY <1>4 DEF Dispatch
    <2> QED BY <1>1, <2>1, <2>2, CallTypes, OthersTypeNothing DEF handlerVars, keyboardVars
  <1>5. CASE RunTest
    <2>1. testing.action \in Actions /\ testing.id \in Nat BY <1>1, <1>5 DEF RunTest, PathTypes
    <2>2. HandleAction(testing.action, testing.id, 0) \/ UNCHANGED handlerVars BY <1>5 DEF RunTest
    <2> QED BY <1>1, <2>1, <2>2, CallTypes, OthersTypeNothing DEF handlerVars, keyboardVars
  <1>6. CASE CloseAll
    BY <1>6, OthersTypeNothing DEF CloseAll, CloseHandler, keyboardVars
  <1>7. CASE UNCHANGED handlerVars
    BY <1>7, OthersTypeNothing DEF handlerVars, keyboardVars
  <1>8. CASE \/ Deliver \/ StopProcessor \/ Drain \/ End \/ Frame \/ BeginCapture \/ Navigate \/ Destroy
             \/ (\E e \in Events : Receive(e)) \/ \E a \in Tests : ClickTest(a)
    <2>1. UNCHANGED handlerVars
      BY <1>8 DEF Deliver, StopProcessor, Drain, End, Frame, BeginCapture, Navigate, Destroy,
                  Receive, ClickTest
    <2> QED BY <1>7, <2>1
  <1>9. CASE UNCHANGED vars
    <2>1. UNCHANGED handlerVars BY <1>9 DEF vars
    <2> QED BY <1>7, <2>1
  <1> QED BY <1>3, <1>4, <1>5, <1>6, <1>8, <1>9 DEF Next, Processor, Closing

\* The handler implements Typist, whatever the device, the user and the window
\* do: one action is typed at a time and no key of it is left down when the
\* next one begins; strokes and macro steps keep their orders; a step is typed
\* while a stroke waits only if one has just passed it (startInputWorker).
THEOREM TypistImplemented == Spec => OneTypist
  <1>1. Init => Typing!Init
    <2> SUFFICES ASSUME Init PROVE Typing!Init OBVIOUS
    <2>1. /\ realtimeQueue = <<>> /\ macroStepQueue = <<>> /\ pending = None /\ current = None
          /\ inputPc = "poll" /\ held = {}
      BY DEF Init, HandlerInit, KeyboardInit
    <2>2. StepsWaiting = <<>> /\ Overtaken = FALSE /\ Down = {}
      BY <2>1 DEF StepsWaiting, Overtaken, Down
    <2> QED BY <2>1, <2>2 DEF Typing!Init
  <1>2. ASSUME PathInv, PathInv', [Next]_vars
        PROVE  [Typing!Next]_(Typing!vars)
    BY <1>2, StepTypes DEF Typed, Typing!vars
  <1> QED BY <1>1, <1>2, PathInvAlways, PTL DEF Spec, OneTypist, Typing!Spec

-----------------------------------------------------------------------------
(* What the runs check.                                                    *)

\* Every variable of the path from an event to its keys has its type: among
\* others, no queue exceeds its capacity, a macro that is played is nested no
\* deeper than maxMacroDepth allows, and the worker that plays a step or a
\* macro has one.
THEOREM PathTypeCorrect == Spec => []TypeOK
  <1>1. PathInv => TypeOK BY DEF PathInv
  <1> QED BY <1>1, PathInvAlways, PTL

\* executeRealtimeRequest, whichever of its three callers runs it, takes the
\* real-time actions in the order HandleAction accepted them; and the input
\* worker plays each macro step enqueueMacroStep passed to it, once and in
\* order, also the one a real-time action overtakes.
THEOREM InOrderAlways == Spec => []InOrder
  <1>1. PathInv => InOrder BY DEF PathInv, OrderInv, InOrder
  <1> QED BY <1>1, PathInvAlways, PTL

\* Whatever part of a batch Windows inserts, only the action in hand has keys
\* down whose key-up was not refused.
THEOREM NoStuckKeyAlways == Spec => []NoStuckKey
  <1>1. PathInv => NoStuckKey
    <2> SUFFICES ASSUME PathInv PROVE NoStuckKey OBVIOUS
    <2>1. HandlerTypes /\ KeysInv BY DEF PathInv, TypeOK
    <2>2. CASE current = None
      <3>1. calls = <<>> BY <2>1, <2>2, StepsAre DEF HandlerTypes, InputTypes
      <3> QED BY <2>1, <2>2, <3>1, NothingDown DEF NoStuckKey
    <2>3. CASE current # None BY <2>1, <2>3, DownIsMine DEF NoStuckKey
    <2> QED BY <2>2, <2>3
  <1> QED BY <1>1, PathInvAlways, PTL

\* HandleAction refuses no key, text or combo: the handler is closed after the
\* message processor and the window have made their last call.
THEOREM OnlyBackgroundDropsAlways == Spec => []OnlyBackgroundDrops
  <1>1. PathInv => OnlyBackgroundDrops BY DEF PathInv, ClosingInv
  <1> QED BY <1>1, PathInvAlways, PTL

\* Each arming of a capture takes one event, and no captured event reaches the
\* handler.
THEOREM CaptureIsOneShotAlways == Spec => []CaptureIsOneShot
  <1>1. PathInv => CaptureIsOneShot
    <2> SUFFICES ASSUME PathInv PROVE CaptureIsOneShot OBVIOUS
    <2>1. CapturesInv BY DEF PathInv
    <2>2. \A n \in Passed : n \notin captured BY DEF Passed
    <2>3. \A entry \in Range(accepted) \cup Range(scheduled) \cup dropped : entry[1] \in Passed
      BY <2>1 DEF CapturesInv, HandlerPassed, Range
    <2> QED BY <2>1, <2>2, <2>3 DEF CaptureIsOneShot, CapturesInv
  <1> QED BY <1>1, PathInvAlways, PTL
=============================================================================
