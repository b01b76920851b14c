-------------------------- MODULE ActionFileProofs --------------------------
(***************************************************************************)
(* Proofs about the form of an action in a file, for every nesting of      *)
(* macros: what is written is JSON, what is read is a valid action or an   *)
(* error, and a plain action is read back as it was written.               *)
(*                                                                         *)
(* The conversions recurse on the nesting, so the proofs need induction on *)
(* the natural numbers; it is stated with sets of numbers.                 *)
(***************************************************************************)
EXTENDS ActionFile, SequenceTheorems, WellFoundedInduction, TLAPS

-----------------------------------------------------------------------------
(* Induction on the natural numbers, stated with sets.                     *)

LessThan == {pair \in Nat \X Nat : pair[1] < pair[2]}

LEMMA NatWellFounded == IsWellFoundedOn(LessThan, Nat)
  <1>1. OpToRel(<, Nat) = LessThan BY Zenon DEF OpToRel, LessThan
  <1> QED BY <1>1, NatLessThanWellFounded, Zenon

LEMMA LeastNumber ==
  ASSUME NEW S \in SUBSET Nat, S # {}
  PROVE  \E n \in S : \A m \in S : n <= m
  <1>1. PICK n \in S : \A m \in S : ~(<<m, n>> \in LessThan)
    BY WFMin, NatWellFounded, Zenon
  <1>2. \A m \in S : ~(m < n)
    <2> TAKE m \in S
    <2>1. <<m, n>> \in Nat \X Nat => (m < n => <<m, n>> \in LessThan) BY Zenon DEF LessThan
    <2> QED BY <1>1, <2>1
  <1> QED BY <1>2

LEMMA NatSetInduction ==
  ASSUME NEW S \in SUBSET Nat, 0 \in S, \A n \in S : n + 1 \in S
  PROVE  S = Nat
  <1> SUFFICES ASSUME Nat \ S # {} PROVE FALSE OBVIOUS
  <1>1. PICK n \in Nat \ S : \A m \in Nat \ S : n <= m BY LeastNumber
  <1>2. n # 0 /\ n - 1 \in Nat /\ n - 1 \in S BY <1>1
  <1> QED BY <1>2

Depths == 0..MaxNesting

\* What holds of no nesting and carries over to the next holds of all.
LEMMA DepthInduction ==
  ASSUME NEW S, 0 \in S, \A d \in Depths : d \in S /\ d + 1 \in Depths => d + 1 \in S
  PROVE  Depths \subseteq S
  <1> DEFINE P == {n \in Nat : n \in Depths => n \in S}
  <1>1. 0 \in P OBVIOUS
  <1>2. ASSUME NEW n \in P PROVE n + 1 \in P
    <2>1. n \in Nat /\ (n \in Depths => n \in S) OBVIOUS
    <2>2. n + 1 \in Depths => n \in Depths BY <2>1, NestingAssumption DEF Depths
    <2>3. n + 1 \in Depths => n + 1 \in S BY <2>1, <2>2
    <2>4. n + 1 \in Nat BY <2>1
    <2> QED BY <2>3, <2>4
  <1>3. P \in SUBSET Nat OBVIOUS
  <1> HIDE DEF P
  <1>4. P = Nat BY <1>1, <1>2, <1>3, NatSetInduction
  <1>5. Depths \subseteq Nat BY DEF Depths
  <1> QED BY <1>4, <1>5 DEF P

-----------------------------------------------------------------------------
(* The actions.                                                            *)

\* f lists the members of S and the macros of them, 0, 1, ..., n deep.
Tower(S, f, n) == f = [d \in 0..n |-> IF d = 0 THEN S ELSE S \cup MacrosOf(f[d - 1])]

LEMMA TowerAt ==
  ASSUME NEW S, NEW f, NEW n, Tower(S, f, n)
  PROVE  \A d \in 0..n : f[d] = IF d = 0 THEN S ELSE S \cup MacrosOf(f[d - 1])
  <1> DEFINE h == [d \in 0..n |-> IF d = 0 THEN S ELSE S \cup MacrosOf(f[d - 1])]
  <1>1. f = h BY DEF Tower
  <1>2. \A d \in 0..n : h[d] = IF d = 0 THEN S ELSE S \cup MacrosOf(f[d - 1]) OBVIOUS
  <1> HIDE DEF h
  <1> QED BY <1>1, <1>2

LEMMA TowerExists ==
  ASSUME NEW S, NEW n \in Nat
  PROVE  \E f : Tower(S, f, n)
  <1> DEFINE P == {k \in Nat : \E f : Tower(S, f, k)}
  <1>1. 0 \in P
    <2> DEFINE f == [d \in 0..0 |-> S]
    <2>1. f = [d \in 0..0 |-> IF d = 0 THEN S ELSE S \cup MacrosOf(f[d - 1])] OBVIOUS
    <2>2. Tower(S, f, 0) BY <2>1 DEF Tower
    <2> HIDE DEF f
    <2> QED BY <2>2
  <1>2. ASSUME NEW k \in P PROVE k + 1 \in P
    <2>1. PICK g : Tower(S, g, k) OBVIOUS
    <2>2. k \in Nat OBVIOUS
    <2> HIDE DEF P
    <2> DEFINE f == [d \in 0..(k + 1) |-> IF d = 0 THEN S ELSE S \cup MacrosOf(g[d - 1])]
    <2>3. \A d \in 0..k : f[d] = g[d]
      <3>1. \A d \in 0..k : g[d] = IF d = 0 THEN S ELSE S \cup MacrosOf(g[d - 1])
        BY <2>1, TowerAt
      <3>2. \A d \in 0..(k + 1) : f[d] = IF d = 0 THEN S ELSE S \cup MacrosOf(g[d - 1])
        OBVIOUS
      <3>3. 0..k \subseteq 0..(k + 1) BY <2>2
      <3> HIDE DEF f
      <3> QED BY <3>1, <3>2, <3>3
    <2>4. \A d \in 0..(k + 1) : d # 0 => d - 1 \in 0..k BY <2>2
    <2>5. \A d \in 0..(k + 1) : d # 0 => f[d - 1] = g[d - 1] BY <2>3, <2>4
    <2>6. f = [d \in 0..(k + 1) |-> IF d = 0 THEN S ELSE S \cup MacrosOf(f[d - 1])]
      BY <2>5
    <2>7. Tower(S, f, k + 1) BY <2>6 DEF Tower
    <2> HIDE DEF f
    <2> QED BY <2>2, <2>7 DEF P
  <1> HIDE DEF P
  <1>3. P = Nat
    <2>1. P \in SUBSET Nat BY DEF P
    <2> QED BY <1>1, <1>2, <2>1, NatSetInduction
  <1> QED BY <1>3 DEF P

\* The recursion of Nested has a solution, so Nested is one.
LEMMA NestedAt ==
  ASSUME NEW S, NEW d \in Depths
  PROVE  Nested(S)[d] = IF d = 0 THEN S ELSE S \cup MacrosOf(Nested(S)[d - 1])
  <1>1. \E f : Tower(S, f, MaxNesting) BY TowerExists, NestingAssumption
  <1>2. Tower(S, Nested(S), MaxNesting) BY <1>1, Zenon DEF Nested, Tower
  <1> DEFINE N == Nested(S)
  <1>3. \A e \in 0..MaxNesting : N[e] = IF e = 0 THEN S ELSE S \cup MacrosOf(N[e - 1])
    <2> HIDE DEF N
    <2> SUFFICES Tower(S, N, MaxNesting) BY TowerAt
    <2> QED BY <1>2 DEF N
  <1> HIDE DEF N
  <1>4. N[d] = IF d = 0 THEN S ELSE S \cup MacrosOf(N[d - 1]) BY <1>3 DEF Depths
  <1> QED BY <1>4 DEF N

\* Deeper macros are more actions.
LEMMA NestedGrows ==
  ASSUME NEW S, NEW d \in Depths, d + 1 \in Depths
  PROVE  Nested(S)[d] \subseteq Nested(S)[d + 1]
  <1> DEFINE N == Nested(S)
             P == {e \in Depths : e + 1 \in Depths => N[e] \subseteq N[e + 1]}
  <1>0. \A e \in Depths : N[e] = IF e = 0 THEN S ELSE S \cup MacrosOf(N[e - 1]) BY NestedAt
  <1> HIDE DEF N
  <1>1. ASSUME NEW A, NEW B, A \subseteq B PROVE MacrosOf(A) \subseteq MacrosOf(B)
    <2>1. Seq(A) \subseteq Seq(B) BY <1>1, SeqMonotonic, Zenon
    <2> QED BY <2>1 DEF MacrosOf
  <1>2. 0 \in P
    <2>1. 0 \in Depths BY NestingAssumption DEF Depths
    <2>2. 1 \in Depths => N[1] = S \cup MacrosOf(N[0])
      <3>1. 1 \in Depths => N[1] = IF 1 = 0 THEN S ELSE S \cup MacrosOf(N[1 - 1]) BY <1>0
      <3>2. 1 # 0 /\ 1 - 1 = 0 OBVIOUS
      <3> QED BY <3>1, <3>2
    <2>3. N[0] = S BY <1>0, <2>1
    <2>4. 0 + 1 \in Depths => N[0] \subseteq N[0 + 1] BY <2>2, <2>3
    <2> QED BY <2>1, <2>4
  <1>3. ASSUME NEW e \in Depths, e \in P, e + 1 \in Depths PROVE e + 1 \in P
    <2> SUFFICES ASSUME (e + 1) + 1 \in Depths PROVE N[e + 1] \subseteq N[(e + 1) + 1]
      BY <1>3
    <2>1. N[e] \subseteq N[e + 1] BY <1>3
    <2>2. e \in Nat BY DEF Depths
    <2>3. N[e + 1] = S \cup MacrosOf(N[e])
      <3>1. N[e + 1] = IF e + 1 = 0 THEN S ELSE S \cup MacrosOf(N[(e + 1) - 1]) BY <1>0, <1>3
      <3>2. e + 1 # 0 /\ (e + 1) - 1 = e BY <2>2
      <3> QED BY <3>1, <3>2
    <2>4. N[(e + 1) + 1] = S \cup MacrosOf(N[e + 1])
      <3>1. N[(e + 1) + 1]
              = IF (e + 1) + 1 = 0 THEN S ELSE S \cup MacrosOf(N[((e + 1) + 1) - 1]) BY <1>0
      <3>2. (e + 1) + 1 # 0 /\ ((e + 1) + 1) - 1 = e + 1 BY <2>2
      <3> QED BY <3>1, <3>2
    <2>5. MacrosOf(N[e]) \subseteq MacrosOf(N[e + 1]) BY <1>1, <2>1
    <2> QED BY <2>3, <2>4, <2>5
  <1> HIDE DEF P
  <1>4. Depths \subseteq P BY <1>2, <1>3, DepthInduction
  <1> QED BY <1>4 DEF P, N
\* An action of S, or a macro of actions less deep.
LEMMA NestedSteps ==
  ASSUME NEW S \in SUBSET Simple, NEW d \in Depths, NEW a \in Nested(S)[d]
  PROVE  /\ a.type # "macro" => a \in S
         /\ a.type = "macro" =>
              /\ d - 1 \in Depths /\ a = MacroOf(a.steps)
              /\ a.steps \in Seq(Nested(S)[d - 1]) /\ a.steps # <<>>
  <1> DEFINE N == Nested(S)
  <1>1. N[d] = IF d = 0 THEN S ELSE S \cup MacrosOf(N[d - 1]) BY NestedAt
  <1>2. a \in N[d] OBVIOUS
  <1> HIDE DEF N
  <1>3. CASE a \in S
    <2>1. a \in Simple BY <1>3
    <2>2. a.type # "macro" BY <2>1 DEF Simple, Types
    <2> QED BY <1>3, <2>2
  <1>4. CASE d # 0 /\ a \in MacrosOf(N[d - 1])
    <2>1. d - 1 \in Depths BY <1>4, NestingAssumption DEF Depths
    <2>2. /\ a.type = "macro" /\ a.steps \in Seq(N[d - 1]) /\ a.steps # <<>>
          /\ a = [type |-> "macro", value |-> <<>>, steps |-> a.steps]
      BY <1>4 DEF MacrosOf, NoString
    <2> QED BY <2>1, <2>2 DEF MacroOf, N
  <1> QED BY <1>1, <1>2, <1>3, <1>4

LEMMA NestedBelow ==
  ASSUME NEW S, NEW d \in Depths
  PROVE  Nested(S)[d] \subseteq Nested(S)[MaxNesting]
  <1> DEFINE N == Nested(S)
             P == {e \in Depths : d <= e => N[d] \subseteq N[e]}
  <1>0. ASSUME NEW e \in Depths, e + 1 \in Depths PROVE N[e] \subseteq N[e + 1]
    BY <1>0, NestedGrows
  <1> HIDE DEF N
  <1>1. 0 \in P
    <2>1. 0 \in Depths /\ (d <= 0 => d = 0) BY NestingAssumption DEF Depths
    <2> QED BY <2>1
  <1>2. ASSUME NEW e \in Depths, e \in P, e + 1 \in Depths PROVE e + 1 \in P
    <2>1. d <= e + 1 => d <= e \/ d = e + 1 BY DEF Depths
    <2>2. N[e] \subseteq N[e + 1] BY <1>0, <1>2
    <2>3. d <= e => N[d] \subseteq N[e] BY <1>2
    <2>4. d <= e + 1 => N[d] \subseteq N[e + 1] BY <2>1, <2>2, <2>3
    <2> QED BY <1>2, <2>4
  <1> HIDE DEF P
  <1>3. Depths \subseteq P BY <1>1, <1>2, DepthInduction
  <1>4. MaxNesting \in Depths /\ d <= MaxNesting BY NestingAssumption DEF Depths
  <1> QED BY <1>3, <1>4 DEF P, N

\* Macros of fewer actions are fewer macros.
LEMMA NestedMonotonic ==
  ASSUME NEW S, NEW T, S \subseteq T, NEW d \in Depths
  PROVE  Nested(S)[d] \subseteq Nested(T)[d]
  <1> DEFINE M == Nested(S)
             N == Nested(T)
             P == {e \in Depths : M[e] \subseteq N[e]}
  <1>1. \A e \in Depths : M[e] = IF e = 0 THEN S ELSE S \cup MacrosOf(M[e - 1]) BY NestedAt
  <1>2. \A e \in Depths : N[e] = IF e = 0 THEN T ELSE T \cup MacrosOf(N[e - 1]) BY NestedAt
  <1> HIDE DEF M, N
  <1>3. 0 \in P
    <2>1. 0 \in Depths BY NestingAssumption DEF Depths
    <2>2. M[0] = S /\ N[0] = T BY <1>1, <1>2, <2>1
    <2> QED BY <2>1, <2>2
  <1>4. ASSUME NEW e \in Depths, e \in P, e + 1 \in Depths PROVE e + 1 \in P
    <2>1. e + 1 # 0 /\ (e + 1) - 1 = e BY DEF Depths
    <2>2. M[e + 1] = S \cup MacrosOf(M[(e + 1) - 1]) BY <1>1, <1>4, <2>1
    <2>3. N[e + 1] = T \cup MacrosOf(N[(e + 1) - 1]) BY <1>2, <1>4, <2>1
    <2>4. M[e] \subseteq N[e] BY <1>4
    <2>5. Seq(M[e]) \subseteq Seq(N[e]) BY <2>4, SeqMonotonic, Zenon
    <2>6. MacrosOf(M[e]) \subseteq MacrosOf(N[e]) BY <2>5 DEF MacrosOf
    <2>7. M[e + 1] \subseteq N[e + 1] BY <2>1, <2>2, <2>3, <2>6
    <2> QED BY <1>4, <2>7
  <1> HIDE DEF P
  <1>5. Depths \subseteq P BY <1>3, <1>4, DepthInduction
  <1> QED BY <1>5 DEF P, M, N

-----------------------------------------------------------------------------
(* JSON.                                                                   *)

\* f lists the JSON values nested 0, 1, ..., n deep.
JSONTower(f, n) == f = [d \in 0..n |-> JSONOver(IF d = 0 THEN {} ELSE f[d - 1])]

LEMMA JSONTowerAt ==
  ASSUME NEW f, NEW n, JSONTower(f, n)
  PROVE  \A d \in 0..n : f[d] = JSONOver(IF d = 0 THEN {} ELSE f[d - 1])
  <1> DEFINE h == [d \in 0..n |-> JSONOver(IF d = 0 THEN {} ELSE f[d - 1])]
  <1>1. f = h BY DEF JSONTower
  <1>2. \A d \in 0..n : h[d] = JSONOver(IF d = 0 THEN {} ELSE f[d - 1]) OBVIOUS
  <1> HIDE DEF h
  <1> QED BY <1>1, <1>2

LEMMA JSONTowerExists ==
  ASSUME NEW n \in Nat
  PROVE  \E f : JSONTower(f, n)
  <1> DEFINE P == {k \in Nat : \E f : JSONTower(f, k)}
  <1>1. 0 \in P
    <2> DEFINE f == [d \in 0..0 |-> JSONOver({})]
    <2>1. f = [d \in 0..0 |-> JSONOver(IF d = 0 THEN {} ELSE f[d - 1])] OBVIOUS
    <2>2. JSONTower(f, 0) BY <2>1 DEF JSONTower
    <2> HIDE DEF f
    <2> QED BY <2>2
  <1>2. ASSUME NEW k \in P PROVE k + 1 \in P
    <2>1. PICK g : JSONTower(g, k) OBVIOUS
    <2>2. k \in Nat OBVIOUS
    <2> HIDE DEF P
    <2> DEFINE f == [d \in 0..(k + 1) |-> JSONOver(IF d = 0 THEN {} ELSE g[d - 1])]
    <2>3. \A d \in 0..k : f[d] = g[d]
      <3>1. \A d \in 0..k : g[d] = JSONOver(IF d = 0 THEN {} ELSE g[d - 1])
        BY <2>1, JSONTowerAt
      <3>2. \A d \in 0..(k + 1) : f[d] = JSONOver(IF d = 0 THEN {} ELSE g[d - 1])
        OBVIOUS
      <3>3. 0..k \subseteq 0..(k + 1) BY <2>2
      <3> HIDE DEF f
      <3> QED BY <3>1, <3>2, <3>3
    <2>4. \A d \in 0..(k + 1) : d # 0 => d - 1 \in 0..k BY <2>2
    <2>5. \A d \in 0..(k + 1) : d # 0 => f[d - 1] = g[d - 1] BY <2>3, <2>4
    <2>6. f = [d \in 0..(k + 1) |-> JSONOver(IF d = 0 THEN {} ELSE f[d - 1])]
      BY <2>5
    <2>7. JSONTower(f, k + 1) BY <2>6 DEF JSONTower
    <2> HIDE DEF f
    <2> QED BY <2>2, <2>7 DEF P
  <1> HIDE DEF P
  <1>3. P = Nat
    <2>1. P \in SUBSET Nat BY DEF P
    <2> QED BY <1>1, <1>2, <2>1, NatSetInduction
  <1> QED BY <1>3 DEF P

LEMMA JSONAt ==
  \A d \in Depths : JSONUpTo[d] = JSONOver(IF d = 0 THEN {} ELSE JSONUpTo[d - 1])
  <1>1. \E f : JSONTower(f, MaxNesting) BY JSONTowerExists, NestingAssumption
  <1>2. JSONTower(JSONUpTo, MaxNesting) BY <1>1, Zenon DEF JSONUpTo, JSONTower
  <1> QED BY <1>2, JSONTowerAt DEF Depths

LEMMA JSONNext ==
  /\ JSONUpTo[0] = JSONOver({})
  /\ \A d \in Depths : d + 1 \in Depths => JSONUpTo[d + 1] = JSONOver(JSONUpTo[d])
  <1>1. 0 \in Depths BY NestingAssumption DEF Depths
  <1>2. JSONUpTo[0] = JSONOver({}) BY <1>1, JSONAt
  <1>3. ASSUME NEW d \in Depths, d + 1 \in Depths PROVE JSONUpTo[d + 1] = JSONOver(JSONUpTo[d])
    <2>1. d + 1 # 0 /\ (d + 1) - 1 = d BY DEF Depths
    <2>2. JSONUpTo[d + 1] = JSONOver(IF d + 1 = 0 THEN {} ELSE JSONUpTo[(d + 1) - 1])
      BY <1>3, JSONAt
    <2> QED BY <2>1, <2>2
  <1> QED BY <1>2, <1>3

LEMMA JSONOverMonotonic ==
  ASSUME NEW A, NEW B, A \subseteq B
  PROVE  JSONOver(A) \subseteq JSONOver(B)
  <1>1. Seq(A) \subseteq Seq(B) BY SeqMonotonic, Zenon
  <1> QED BY <1>1 DEF JSONOver

LEMMA JSONGrows ==
  ASSUME NEW d \in Depths, d + 1 \in Depths
  PROVE  JSONUpTo[d] \subseteq JSONUpTo[d + 1]
  <1> DEFINE P == {e \in Depths : e + 1 \in Depths => JSONUpTo[e] \subseteq JSONUpTo[e + 1]}
  <1>1. ASSUME NEW A, NEW B, A \subseteq B PROVE JSONOver(A) \subseteq JSONOver(B)
    BY <1>1, JSONOverMonotonic
  <1>2. ASSUME NEW e \in Depths, e + 1 \in Depths PROVE JSONUpTo[e + 1] = JSONOver(JSONUpTo[e])
    BY <1>2, JSONNext
  <1>3. 0 \in Depths BY NestingAssumption DEF Depths
  <1>4. 0 \in P
    <2>1. JSONOver({}) \subseteq JSONOver(JSONUpTo[0]) BY <1>1
    <2>2. 0 + 1 \in Depths => JSONUpTo[0 + 1] = JSONOver(JSONUpTo[0]) BY <1>2, <1>3
    <2> QED BY <1>3, <2>1, <2>2, JSONNext
  <1>5. ASSUME NEW e \in Depths, e \in P, e + 1 \in Depths PROVE e + 1 \in P
    <2> SUFFICES ASSUME (e + 1) + 1 \in Depths PROVE JSONUpTo[e + 1] \subseteq JSONUpTo[(e + 1) + 1]
      BY <1>5
    <2>1. JSONUpTo[e] \subseteq JSONUpTo[e + 1] BY <1>5
    <2>2. JSONUpTo[e + 1] = JSONOver(JSONUpTo[e]) BY <1>2, <1>5
    <2>3. JSONUpTo[(e + 1) + 1] = JSONOver(JSONUpTo[e + 1]) BY <1>2, <1>5
    <2> HIDE DEF P
    <2>4. JSONOver(JSONUpTo[e]) \subseteq JSONOver(JSONUpTo[e + 1]) BY <1>1, <2>1
    <2> QED BY <2>2, <2>3, <2>4
  <1> HIDE DEF P
  <1>6. Depths \subseteq P BY <1>4, <1>5, DepthInduction
  <1> QED BY <1>6 DEF P

LEMMA JSONBelow ==
  ASSUME NEW d \in Depths
  PROVE  JSONUpTo[d] \subseteq JSONs
  <1> DEFINE Q == {e \in Depths : d <= e => JSONUpTo[d] \subseteq JSONUpTo[e]}
  <1>1. 0 \in Q
    <2>1. 0 \in Depths /\ (d <= 0 => d = 0) BY NestingAssumption DEF Depths
    <2> QED BY <2>1
  <1>2. ASSUME NEW e \in Depths, e \in Q, e + 1 \in Depths PROVE e + 1 \in Q
    <2>1. d <= e + 1 => d <= e \/ d = e + 1 BY DEF Depths
    <2>2. JSONUpTo[e] \subseteq JSONUpTo[e + 1] BY <1>2, JSONGrows
    <2>3. d <= e => JSONUpTo[d] \subseteq JSONUpTo[e] BY <1>2
    <2>4. d <= e + 1 => JSONUpTo[d] \subseteq JSONUpTo[e + 1] BY <2>1, <2>2, <2>3
    <2> QED BY <1>2, <2>4
  <1> HIDE DEF Q
  <1>3. Depths \subseteq Q BY <1>1, <1>2, DepthInduction
  <1>4. MaxNesting \in Depths /\ d <= MaxNesting BY NestingAssumption DEF Depths
  <1> QED BY <1>3, <1>4 DEF Q, JSONs

\* The items of a value are nested less deep.
LEMMA JSONItems ==
  ASSUME NEW d \in Depths, NEW j \in JSONUpTo[d]
  PROVE  /\ j.kind \in {"string", "array", "object"} /\ j.type \in Types /\ j.value \in Strings
         /\ DOMAIN j.items = 1..Len(j.items) /\ Len(j.items) \in Nat
         /\ \A i \in DOMAIN j.items : d - 1 \in Depths /\ j.items[i] \in JSONUpTo[d - 1]
         /\ j.items = <<>> \/ d # 0
  <1> DEFINE S == IF d = 0 THEN {} ELSE JSONUpTo[d - 1]
  <1>1. j \in JSONOver(S) BY JSONAt
  <1> HIDE DEF S
  <1>2. /\ j.kind \in {"string", "array", "object"} /\ j.type \in Types /\ j.value \in Strings
        /\ j.items \in Seq(S)
    BY <1>1 DEF JSONOver
  <1>3. /\ DOMAIN j.items = 1..Len(j.items) /\ Len(j.items) \in Nat
        /\ \A i \in 1..Len(j.items) : j.items[i] \in S
    BY <1>2, LenProperties, ElementOfSeq
  <1>4. d # 0 => S = JSONUpTo[d - 1] /\ d - 1 \in Depths
    BY NestingAssumption DEF S, Depths
  <1>5. d = 0 => S = {} BY DEF S
  <1>6. d = 0 => Len(j.items) = 0
    <2> SUFFICES ASSUME d = 0, Len(j.items) # 0 PROVE FALSE OBVIOUS
    <2>1. 1 \in 1..Len(j.items) BY <1>3
    <2> QED BY <1>3, <1>5, <2>1
  <1>7. j.items = <<>> \/ d # 0 BY <1>2, <1>6, EmptySeq
  <1>8. \A i \in DOMAIN j.items : d # 0 BY <1>3, <1>6
  <1> QED BY <1>2, <1>3, <1>4, <1>7, <1>8

-----------------------------------------------------------------------------
(* What is written.                                                        *)

\* The JSON of a, if f tells that of its steps.
MarshalOf(f, a) ==
    IF a.type = "macro"
    THEN JSON("array", "macro", NoString, [i \in DOMAIN a.steps |-> f[a.steps[i]]])
    ELSE MarshalSimple(a)

\* f tells the JSON of the actions nested at most n deep.
Writes(f, n) ==
    f = [a \in Actions |-> IF a \in Nested(Simple)[n] THEN MarshalOf(f, a) ELSE <<>>]

LEMMA WritesAt ==
  ASSUME NEW f, NEW n, Writes(f, n)
  PROVE  \A a \in Actions : f[a] = IF a \in Nested(Simple)[n] THEN MarshalOf(f, a) ELSE <<>>
  <1> DEFINE h == [a \in Actions |-> IF a \in Nested(Simple)[n] THEN MarshalOf(f, a) ELSE <<>>]
  <1>1. f = h BY DEF Writes
  <1>2. \A a \in Actions : h[a] = IF a \in Nested(Simple)[n] THEN MarshalOf(f, a) ELSE <<>> OBVIOUS
  <1> HIDE DEF h
  <1> QED BY <1>1, <1>2

LEMMA StepsOf ==
  ASSUME NEW S \in SUBSET Simple, NEW d \in Depths, NEW a \in Nested(S)[d], a.type = "macro"
  PROVE  /\ d - 1 \in Depths /\ DOMAIN a.steps = 1..Len(a.steps)
         /\ Len(a.steps) \in Nat /\ Len(a.steps) # 0 /\ a = MacroOf(a.steps)
         /\ \A i \in DOMAIN a.steps : a.steps[i] \in Nested(S)[d - 1]
  <1>1. /\ d - 1 \in Depths /\ a = MacroOf(a.steps)
        /\ a.steps \in Seq(Nested(S)[d - 1]) /\ a.steps # <<>>
    BY NestedSteps
  <1>2. DOMAIN a.steps = 1..Len(a.steps) /\ Len(a.steps) \in Nat /\ Len(a.steps) # 0
    BY <1>1, LenProperties, EmptySeq
  <1>3. \A i \in 1..Len(a.steps) : a.steps[i] \in Nested(S)[d - 1] BY <1>1, ElementOfSeq
  <1> QED BY <1>1, <1>2, <1>3

LEMMA MarshalAgrees ==
  ASSUME NEW f, NEW g, NEW d \in Depths, NEW a \in Nested(Simple)[d],
         d - 1 \in Depths => \A b \in Nested(Simple)[d - 1] : f[b] = g[b]
  PROVE  MarshalOf(f, a) = MarshalOf(g, a)
  <1>1. CASE a.type = "macro"
    <2>1. \A i \in DOMAIN a.steps : f[a.steps[i]] = g[a.steps[i]] BY <1>1, StepsOf
    <2>2. [i \in DOMAIN a.steps |-> f[a.steps[i]]] = [i \in DOMAIN a.steps |-> g[a.steps[i]]]
      BY <2>1
    <2> QED BY <1>1, <2>2 DEF MarshalOf
  <1>2. CASE a.type # "macro" BY <1>2 DEF MarshalOf
  <1> QED BY <1>1, <1>2

LEMMA WritesExists ==
  ASSUME NEW n \in Depths
  PROVE  \E f : Writes(f, n)
  <1> DEFINE P == {d \in Depths : \E f : Writes(f, d)}
  <1>0. \A d \in Depths : Nested(Simple)[d] \subseteq Actions BY NestedBelow DEF Actions
  <1>1. 0 \in P
    <2> DEFINE g == [a \in Actions |-> <<>>]
               f == [a \in Actions |-> IF a \in Nested(Simple)[0] THEN MarshalOf(g, a) ELSE <<>>]
    <2>1. 0 \in Depths /\ 0 - 1 \notin Depths BY NestingAssumption DEF Depths
    <2>2. \A a \in Nested(Simple)[0] : MarshalOf(f, a) = MarshalOf(g, a)
      <3> HIDE DEF f, g
      <3> QED BY <2>1, MarshalAgrees
    <2>3. f = [a \in Actions |-> IF a \in Nested(Simple)[0] THEN MarshalOf(f, a) ELSE <<>>]
      BY <2>2
    <2>4. Writes(f, 0) BY <2>3 DEF Writes
    <2> HIDE DEF f
    <2> QED BY <2>1, <2>4
  <1>2. ASSUME NEW d \in Depths, d \in P, d + 1 \in Depths PROVE d + 1 \in P
    <2>1. PICK g : Writes(g, d) BY <1>2
    <2> HIDE DEF P
    <2> DEFINE M == Nested(Simple)[d]
               N == Nested(Simple)[d + 1]
               f == [a \in Actions |-> IF a \in N THEN MarshalOf(g, a) ELSE <<>>]
    <2>2. \A a \in Actions : g[a] = IF a \in M THEN MarshalOf(g, a) ELSE <<>>
      BY <2>1, WritesAt
    <2>3. \A a \in Actions : f[a] = IF a \in N THEN MarshalOf(g, a) ELSE <<>> OBVIOUS
    <2>4. M \subseteq N /\ M \subseteq Actions BY <1>0, <1>2, NestedGrows
    <2> HIDE DEF f, M, N
    <2>5. \A b \in M : f[b] = g[b] BY <2>2, <2>3, <2>4
    <2>6. \A a \in N : MarshalOf(f, a) = MarshalOf(g, a)
      <3>1. (d + 1) - 1 = d BY DEF Depths
      <3> QED BY <1>2, <2>5, <3>1, MarshalAgrees DEF M, N
    <2>7. f = [a \in Actions |-> IF a \in N THEN MarshalOf(f, a) ELSE <<>>]
      BY <2>6 DEF f
    <2>8. Writes(f, d + 1) BY <2>7 DEF Writes, N
    <2> QED BY <1>2, <2>8 DEF P
  <1> HIDE DEF P
  <1>3. Depths \subseteq P BY <1>1, <1>2, DepthInduction
  <1> QED BY <1>3 DEF P

\* The recursion of MarshalJSON has a solution, so MarshalJSON is one.
LEMMA MarshalAt ==
  \A a \in Actions : MarshalJSON[a] = MarshalOf(MarshalJSON, a)
  <1>1. MaxNesting \in Depths BY NestingAssumption DEF Depths
  <1>2. PICK f : Writes(f, MaxNesting) BY <1>1, WritesExists
  <1>3. f = [a \in Actions |-> MarshalOf(f, a)] BY <1>2 DEF Writes, Actions
  <1>4. MarshalJSON = [a \in Actions |-> MarshalOf(MarshalJSON, a)]
    BY <1>3, Zenon DEF MarshalJSON, MarshalOf
  <1> DEFINE h == [a \in Actions |-> MarshalOf(MarshalJSON, a)]
  <1>5. MarshalJSON = h BY <1>4
  <1>6. \A a \in Actions : h[a] = MarshalOf(MarshalJSON, a) OBVIOUS
  <1> HIDE DEF h
  <1> QED BY <1>5, <1>6

-----------------------------------------------------------------------------
(* What is read.                                                           *)

\* The action of j, if f tells that of its items.
UnmarshalOf(f, j) ==
    IF j.kind = "string" THEN ParseShortcut(j.value)
    ELSE IF j.kind = "array" \/ j.type = "macro"
    THEN Validated(MacroOf([i \in DOMAIN j.items |-> f[j.items[i]]]))
    ELSE Validated(Act(j.type, j.value))

\* f tells the action of the values nested at most n deep.
Reads(f, n) == f = [j \in JSONs |-> IF j \in JSONUpTo[n] THEN UnmarshalOf(f, j) ELSE <<>>]

LEMMA ReadsAt ==
  ASSUME NEW f, NEW n, Reads(f, n)
  PROVE  \A j \in JSONs : f[j] = IF j \in JSONUpTo[n] THEN UnmarshalOf(f, j) ELSE <<>>
  <1> DEFINE h == [j \in JSONs |-> IF j \in JSONUpTo[n] THEN UnmarshalOf(f, j) ELSE <<>>]
  <1>1. f = h BY DEF Reads
  <1>2. \A j \in JSONs : h[j] = IF j \in JSONUpTo[n] THEN UnmarshalOf(f, j) ELSE <<>> OBVIOUS
  <1> HIDE DEF h
  <1> QED BY <1>1, <1>2

LEMMA UnmarshalAgrees ==
  ASSUME NEW f, NEW g, NEW d \in Depths, NEW j \in JSONUpTo[d],
         d - 1 \in Depths => \A k \in JSONUpTo[d - 1] : f[k] = g[k]
  PROVE  UnmarshalOf(f, j) = UnmarshalOf(g, j)
  <1>1. \A i \in DOMAIN j.items : f[j.items[i]] = g[j.items[i]] BY JSONItems
  <1>2. [i \in DOMAIN j.items |-> f[j.items[i]]] = [i \in DOMAIN j.items |-> g[j.items[i]]]
    BY <1>1
  <1> QED BY <1>2 DEF UnmarshalOf

LEMMA ReadsExists ==
  ASSUME NEW n \in Depths
  PROVE  \E f : Reads(f, n)
  <1> DEFINE P == {d \in Depths : \E f : Reads(f, d)}
  <1>1. 0 \in P
    <2> DEFINE g == [j \in JSONs |-> <<>>]
               f == [j \in JSONs |-> IF j \in JSONUpTo[0] THEN UnmarshalOf(g, j) ELSE <<>>]
    <2>1. 0 \in Depths /\ 0 - 1 \notin Depths BY NestingAssumption DEF Depths
    <2>2. \A j \in JSONUpTo[0] : UnmarshalOf(f, j) = UnmarshalOf(g, j)
      <3> HIDE DEF f, g
      <3> QED BY <2>1, UnmarshalAgrees
    <2>3. f = [j \in JSONs |-> IF j \in JSONUpTo[0] THEN UnmarshalOf(f, j) ELSE <<>>]
      BY <2>2
    <2>4. Reads(f, 0) BY <2>3 DEF Reads
    <2> HIDE DEF f
    <2> QED BY <2>1, <2>4
  <1>2. ASSUME NEW d \in Depths, d \in P, d + 1 \in Depths PROVE d + 1 \in P
    <2>1. PICK g : Reads(g, d) BY <1>2
    <2> HIDE DEF P
    <2> DEFINE M == JSONUpTo[d]
               N == JSONUpTo[d + 1]
               f == [j \in JSONs |-> IF j \in N THEN UnmarshalOf(g, j) ELSE <<>>]
    <2>2. \A j \in JSONs : g[j] = IF j \in M THEN UnmarshalOf(g, j) ELSE <<>>
      BY <2>1, ReadsAt
    <2>3. \A j \in JSONs : f[j] = IF j \in N THEN UnmarshalOf(g, j) ELSE <<>> OBVIOUS
    <2>4. M \subseteq N /\ M \subseteq JSONs BY <1>2, JSONGrows, JSONBelow
    <2> HIDE DEF f, M, N
    <2>5. \A k \in M : f[k] = g[k] BY <2>2, <2>3, <2>4
    <2>6. \A j \in N : UnmarshalOf(f, j) = UnmarshalOf(g, j)
      <3>1. (d + 1) - 1 = d BY DEF Depths
      <3> QED BY <1>2, <2>5, <3>1, UnmarshalAgrees DEF M, N
    <2>7. f = [j \in JSONs |-> IF j \in N THEN UnmarshalOf(f, j) ELSE <<>>]
      BY <2>6 DEF f
    <2>8. Reads(f, d + 1) BY <2>7 DEF Reads, N
    <2> QED BY <1>2, <2>8 DEF P
  <1> HIDE DEF P
  <1>3. Depths \subseteq P BY <1>1, <1>2, DepthInduction
  <1> QED BY <1>3 DEF P

\* The recursion of UnmarshalJSON has a solution, so UnmarshalJSON is one.
LEMMA UnmarshalAt ==
  \A j \in JSONs : UnmarshalJSON[j] = UnmarshalOf(UnmarshalJSON, j)
  <1>1. MaxNesting \in Depths BY NestingAssumption DEF Depths
  <1>2. PICK f : Reads(f, MaxNesting) BY <1>1, ReadsExists
  <1>3. f = [j \in JSONs |-> UnmarshalOf(f, j)] BY <1>2 DEF Reads, JSONs
  <1>4. UnmarshalJSON = [j \in JSONs |-> UnmarshalOf(UnmarshalJSON, j)]
    BY <1>3, Zenon DEF UnmarshalJSON, UnmarshalOf
  <1> DEFINE h == [j \in JSONs |-> UnmarshalOf(UnmarshalJSON, j)]
  <1>5. UnmarshalJSON = h BY <1>4
  <1>6. \A j \in JSONs : h[j] = UnmarshalOf(UnmarshalJSON, j) OBVIOUS
  <1> HIDE DEF h
  <1> QED BY <1>5, <1>6

-----------------------------------------------------------------------------
(* Strings.                                                                *)

LEMMA OneElement ==
  ASSUME NEW S, NEW c \in S
  PROVE  <<c>> \in Seq(S)
  OBVIOUS

LEMMA Prefixed ==
  ASSUME NEW c \in Tokens, NEW v \in Strings
  PROVE  /\ <<c>> \o v \in Strings /\ <<c>> \o v # <<>>
         /\ Head(<<c>> \o v) = c /\ Tail(<<c>> \o v) = v
  <1> DEFINE s == <<c>> \o v
  <1>1. /\ <<c>> \in Strings /\ Len(<<c>>) = 1
        /\ <<c>>[1] = c
    <2>1. <<c>> \in Seq(Tokens) BY OneElement
    <2>2. Len(<<c>>) = 1 /\ <<c>>[1] = c OBVIOUS
    <2> QED BY <2>1, <2>2 DEF Strings
  <1>2. v \in Seq(Tokens) /\ Len(v) \in Nat BY LenProperties DEF Strings
  <1>3. /\ s \in Seq(Tokens) /\ Len(s) = 1 + Len(v)
        /\ \A i \in 1..(1 + Len(v)) : s[i] = IF i <= 1 THEN <<c>>[i] ELSE v[i - 1]
    BY <1>1, <1>2, ConcatProperties DEF Strings
  <1> HIDE DEF s
  <1>4. s # <<>>
    <2>1. Len(s) # 0 BY <1>2, <1>3
    <2> QED BY <2>1, EmptySeq
  <1>5. Head(s) = s[1] /\ s[1] = c
    <2>1. Head(s) = s[1] BY <1>3, <1>4
    <2>2. 1 \in 1..(1 + Len(v)) /\ 1 <= 1 BY <1>2
    <2>3. s[1] = <<c>>[1] BY <1>3, <2>2
    <2> QED BY <1>1, <2>1, <2>3
  <1>6. Tail(s) \in Seq(Tokens) /\ Len(Tail(s)) = Len(v)
        /\ \A i \in 1..Len(Tail(s)) : Tail(s)[i] = s[i + 1]
    BY <1>2, <1>3, <1>4, HeadTailProperties
  <1>7. \A i \in 1..Len(v) : Tail(s)[i] = v[i]
    <2> TAKE i \in 1..Len(v)
    <2>1. i + 1 \in 1..(1 + Len(v)) /\ ~(i + 1 <= 1) /\ (i + 1) - 1 = i BY <1>2
    <2> QED BY <1>3, <1>6, <2>1
  <1>8. Tail(s) = v BY <1>2, <1>6, <1>7, SeqEqual
  <1> QED BY <1>3, <1>4, <1>5, <1>8 DEF s, Strings

\* A shortcut is read as a plain action.
LEMMA ParseShortcutIsPlain ==
  ASSUME NEW s \in Strings
  PROVE  ParseShortcut(s) \in PlainSimple \cup {Error}
  <1>1. CASE s = <<>> BY <1>1 DEF ParseShortcut
  <1>2. CASE s # <<>> /\ Head(s) \in {"text:", "cmd:"}
    <2>1. Tail(s) \in Strings BY <1>2, HeadTailProperties DEF Strings
    <2>2. ParseShortcut(s) = IF Tail(s) = <<>> THEN Error
            ELSE Act(IF Head(s) = "text:" THEN "text" ELSE "command", Tail(s))
      BY <1>2 DEF ParseShortcut
    <2> QED BY <2>1, <2>2 DEF Act, PlainSimple, Simple, Types, NoString
  <1>3. CASE s # <<>> /\ Head(s) \notin {"text:", "cmd:"}
    <2>1. ParseShortcut(s) = Act(IF IsCombo(s) THEN "combo" ELSE "key", s)
      BY <1>3, Zenon DEF ParseShortcut
    <2>2. CASE IsCombo(s) BY <1>3, <2>1, <2>2 DEF Act, PlainSimple, Simple, Types, NoString
    <2>3. CASE ~IsCombo(s) BY <1>3, <2>1, <2>3 DEF Act, PlainSimple, Simple, Types, NoString
    <2> QED BY <2>2, <2>3
  <1> QED BY <1>1, <1>2, <1>3

-----------------------------------------------------------------------------
(* What is written is JSON, and what is read an action or an error.        *)

LEMMA SimpleIs ==
  ASSUME NEW a \in Simple
  PROVE  /\ a.type \in {"key", "text", "combo", "command"}
         /\ a.value \in Strings /\ a.value # <<>> /\ a = Act(a.type, a.value)
         /\ a \in Actions
  <1>1. a \in Actions
    <2>1. 0 \in Depths BY NestingAssumption DEF Depths
    <2>2. Nested(Simple)[0] = Simple BY <2>1, NestedAt
    <2> QED BY <2>1, <2>2, NestedBelow DEF Actions
  <1> QED BY <1>1 DEF Simple, Types, NoString, Act

LEMMA MarshalSimpleType ==
  ASSUME NEW a \in Simple
  PROVE  MarshalSimple(a) \in JSONUpTo[0]
  <1>1. JSONUpTo[0] = JSONOver({})
    <2>1. 0 \in Depths BY NestingAssumption DEF Depths
    <2> QED BY <2>1, JSONAt
  <1>2. ASSUME NEW v \in Strings, NEW k \in {"string", "object"}, NEW t \in Types
        PROVE  JSON(k, t, v, <<>>) \in JSONUpTo[0]
    <2>1. <<>> \in Seq({}) BY EmptySeq
    <2> QED BY <1>1, <2>1 DEF JSON, JSONOver
  <1>3. a.value \in Strings BY SimpleIs
  <1>4. CASE a.type \in {"key", "combo"}
    <2>1. MarshalSimple(a) = Text(a.value) BY <1>4 DEF MarshalSimple
    <2> QED BY <1>2, <1>3, <2>1 DEF Text, Types
  <1>5. CASE a.type = "command"
    <2>1. MarshalSimple(a) = Text(<<"cmd:">> \o a.value) BY <1>5 DEF MarshalSimple
    <2>2. <<"cmd:">> \o a.value \in Strings
      <3>1. "cmd:" \in Tokens BY TokensAssumption
      <3> QED BY <1>3, <3>1, Prefixed, Zenon
    <2> QED BY <1>2, <2>1, <2>2 DEF Text, Types
  <1>6. CASE a.type = "text"
    <2>1. MarshalSimple(a) = JSON("object", "text", a.value, <<>>) BY <1>6 DEF MarshalSimple
    <2> QED BY <1>2, <1>3, <2>1 DEF Types
  <1> QED BY <1>4, <1>5, <1>6, SimpleIs

\* The JSON of a macro.
LEMMA MarshalMacro ==
  ASSUME NEW a \in Actions, a.type = "macro"
  PROVE  MarshalJSON[a]
           = JSON("array", "macro", NoString, [i \in DOMAIN a.steps |-> MarshalJSON[a.steps[i]]])
  BY MarshalAt DEF MarshalOf

LEMMA MarshalType ==
  ASSUME NEW d \in Depths
  PROVE  \A a \in Nested(Simple)[d] : MarshalJSON[a] \in JSONUpTo[d]
  <1> DEFINE P == {e \in Depths : \A a \in Nested(Simple)[e] : MarshalJSON[a] \in JSONUpTo[e]}
  <1>1. ASSUME NEW e \in Depths, NEW a \in Nested(Simple)[e], a.type # "macro"
        PROVE  MarshalJSON[a] \in JSONUpTo[0]
    <2>1. a \in Simple BY <1>1, NestedSteps
    <2>2. MarshalJSON[a] = MarshalSimple(a) BY <1>1, <2>1, SimpleIs, MarshalAt DEF MarshalOf
    <2> QED BY <2>1, <2>2, MarshalSimpleType
  <1>2. 0 \in P
    <2>1. 0 \in Depths /\ 0 - 1 \notin Depths BY NestingAssumption DEF Depths
    <2>2. \A a \in Nested(Simple)[0] : a.type # "macro" BY <2>1, NestedSteps
    <2> QED BY <1>1, <2>1, <2>2
  <1>3. ASSUME NEW e \in Depths, e \in P, e + 1 \in Depths PROVE e + 1 \in P
    <2>1. \A a \in Nested(Simple)[e] : MarshalJSON[a] \in JSONUpTo[e] BY <1>3
    <2>2. (e + 1) - 1 = e /\ e + 1 # 0 BY DEF Depths
    <2>3. ASSUME NEW a \in Nested(Simple)[e + 1] PROVE MarshalJSON[a] \in JSONUpTo[e + 1]
      <3>1. CASE a.type = "macro"
        <4> DEFINE items == [i \in DOMAIN a.steps |-> MarshalJSON[a.steps[i]]]
        <4>1. a \in Actions BY <1>3, NestedBelow DEF Actions
        <4>2. MarshalJSON[a] = JSON("array", "macro", NoString, items)
          BY <3>1, <4>1, MarshalMacro
        <4>3. /\ DOMAIN a.steps = 1..Len(a.steps) /\ Len(a.steps) \in Nat
              /\ \A i \in DOMAIN a.steps : a.steps[i] \in Nested(Simple)[e]
          BY <1>3, <2>2, <3>1, StepsOf
        <4>4. items \in Seq(JSONUpTo[e])
          <5>1. \A i \in 1..Len(a.steps) : MarshalJSON[a.steps[i]] \in JSONUpTo[e]
            BY <2>1, <4>3
          <5> QED BY <4>3, <5>1
        <4> HIDE DEF items
        <4>5. JSONUpTo[e + 1] = JSONOver(JSONUpTo[e]) BY <1>3, JSONNext
        <4>6. NoString \in Strings BY EmptySeq DEF NoString, Strings
        <4>7. JSON("array", "macro", NoString, items) \in JSONOver(JSONUpTo[e])
          BY <4>4, <4>6 DEF JSON, JSONOver, Types
        <4> QED BY <4>2, <4>5, <4>7
      <3>2. CASE a.type # "macro"
        <4>1. MarshalJSON[a] \in JSONUpTo[0] BY <1>3, <1>1, <3>2
        <4>2. JSONUpTo[0] = JSONOver({}) /\ JSONUpTo[e + 1] = JSONOver(JSONUpTo[e])
          BY <1>3, JSONNext
        <4>3. JSONOver({}) \subseteq JSONOver(JSONUpTo[e]) BY JSONOverMonotonic
        <4> QED BY <4>1, <4>2, <4>3
      <3> QED BY <3>1, <3>2
    <2> QED BY <1>3, <2>3
  <1> HIDE DEF P
  <1>4. Depths \subseteq P BY <1>2, <1>3, DepthInduction
  <1> QED BY <1>4 DEF P

(* Every valid action has a form in a file (MarshalJSON).                  *)
THEOREM WrittenIsJSON ==
  \A a \in Actions : MarshalJSON[a] \in JSONs
  <1>1. MaxNesting \in Depths BY NestingAssumption DEF Depths
  <1> QED BY <1>1, MarshalType DEF Actions, JSONs

(* Whatever is in a file, what is read is a valid action or an error       *)
(* (UnmarshalJSON).                                                        *)
THEOREM ReadIsValid ==
  \A j \in JSONs : UnmarshalJSON[j] \in Actions \cup {Error}
  <1> TAKE j \in JSONs
  <1>1. MaxNesting \in Depths BY NestingAssumption DEF Depths
  <1>2. j.value \in Strings BY <1>1, JSONItems DEF JSONs
  <1>3. UnmarshalJSON[j] = UnmarshalOf(UnmarshalJSON, j) BY UnmarshalAt
  <1>4. \A a : Validated(a) \in Actions \cup {Error} BY DEF Validated, Validate
  <1>5. ParseShortcut(j.value) \in Actions \cup {Error}
    BY <1>2, ParseShortcutIsPlain, SimpleIs DEF PlainSimple
  <1> QED BY <1>3, <1>4, <1>5 DEF UnmarshalOf

-----------------------------------------------------------------------------
(* What is written and read back.                                          *)

LEMMA PlainIsSimple ==
  PlainSimple \in SUBSET Simple
  BY DEF PlainSimple

LEMMA PlainIsAction ==
  ASSUME NEW d \in Depths
  PROVE  Nested(PlainSimple)[d] \subseteq Nested(Simple)[d]
  BY PlainIsSimple, NestedMonotonic

\* An action that is not a macro is read as a plain one, or not at all; if it
\* is plain, as itself.
LEMMA SimpleIsReread ==
  ASSUME NEW a \in Simple
  PROVE  /\ Reread(a) \in PlainSimple \cup {Error}
         /\ a \in PlainSimple => Reread(a) = a
  <1> DEFINE v == a.value
             json == MarshalSimple(a)
  <1>1. /\ a.type \in {"key", "text", "combo", "command"}
        /\ v \in Strings /\ v # <<>> /\ a = Act(a.type, v) /\ a \in Actions
    BY SimpleIs
  <1>2. Reread(a) = UnmarshalOf(UnmarshalJSON, json)
    <2>1. MarshalJSON[a] = json BY <1>1, MarshalAt DEF MarshalOf
    <2> HIDE DEF json
    <2>2. json \in JSONs BY <1>1, <2>1, WrittenIsJSON
    <2> QED BY <2>1, <2>2, UnmarshalAt DEF Reread
  <1>3. ASSUME NEW s, json = Text(s) PROVE Reread(a) = ParseShortcut(s)
    <2>1. json.kind = "string" /\ json.value = s BY <1>3 DEF Text, JSON
    <2> HIDE DEF json
    <2> QED BY <1>2, <2>1 DEF UnmarshalOf
  <1>4. CASE a.type \in {"key", "combo"}
    <2>1. Reread(a) = ParseShortcut(v)
      <3>1. json = Text(v) BY <1>4 DEF MarshalSimple
      <3> QED BY <1>3, <3>1
    <2>2. ASSUME a \in PlainSimple PROVE ParseShortcut(v) = a
      <3>1. /\ Head(v) \notin {"text:", "cmd:"}
            /\ a.type = "key" => ~IsCombo(v)
            /\ a.type = "combo" => IsCombo(v)
        BY <1>4, <2>2 DEF PlainSimple, Simple
      <3>2. ParseShortcut(v) = Act(IF IsCombo(v) THEN "combo" ELSE "key", v)
        BY <1>1, <3>1, Zenon DEF ParseShortcut
      <3>3. CASE a.type = "key" BY <1>1, <3>1, <3>2, <3>3
      <3>4. CASE a.type = "combo" BY <1>1, <3>1, <3>2, <3>4
      <3> QED BY <1>4, <3>3, <3>4
    <2> QED BY <1>1, <2>1, <2>2, ParseShortcutIsPlain
  <1>5. CASE a.type = "command"
    <2> DEFINE s == <<"cmd:">> \o v
    <2>1. Reread(a) = ParseShortcut(s)
      <3>1. json = Text(s) BY <1>5 DEF MarshalSimple
      <3> QED BY <1>3, <3>1
    <2>2. s # <<>> /\ Head(s) = "cmd:" /\ Tail(s) = v
      <3>1. "cmd:" \in Tokens BY TokensAssumption
      <3> QED BY <1>1, <3>1, Prefixed
    <2> HIDE DEF s
    <2>3. ParseShortcut(s) = Act("command", v) BY <1>1, <2>2 DEF ParseShortcut
    <2>4. a \in PlainSimple BY <1>5 DEF PlainSimple
    <2> QED BY <1>1, <1>5, <2>1, <2>3, <2>4
  <1>6. CASE a.type = "text"
    <2>1. json = JSON("object", "text", v, <<>>) BY <1>6 DEF MarshalSimple
    <2>2. json.kind = "object" /\ json.type = "text" /\ json.value = v BY <2>1 DEF JSON
    <2> HIDE DEF json
    <2>3. UnmarshalOf(UnmarshalJSON, json) = Validated(Act("text", v))
      BY <2>2 DEF UnmarshalOf
    <2>4. Reread(a) = a BY <1>1, <1>2, <1>6, <2>3 DEF Validated, Validate
    <2>5. a \in PlainSimple BY <1>6 DEF PlainSimple
    <2> QED BY <2>4, <2>5
  <1> QED BY <1>1, <1>4, <1>5, <1>6

\* A macro is read as its steps are.
LEMMA MacroIsReread ==
  ASSUME NEW a \in Actions, a.type = "macro"
  PROVE  Reread(a) = Validated(MacroOf([i \in DOMAIN a.steps |-> Reread(a.steps[i])]))
  <1> DEFINE items == [i \in DOMAIN a.steps |-> MarshalJSON[a.steps[i]]]
             json == MarshalJSON[a]
  <1>1. json = JSON("array", "macro", NoString, items) BY MarshalMacro
  <1>2. json \in JSONs BY WrittenIsJSON
  <1>3. json.kind = "array" /\ json.items = items BY <1>1 DEF JSON
  <1>4. UnmarshalJSON[json] = UnmarshalOf(UnmarshalJSON, json) BY <1>2, UnmarshalAt
  <1> HIDE DEF json
  <1>5. UnmarshalJSON[json] = Validated(MacroOf([i \in DOMAIN items |-> UnmarshalJSON[items[i]]]))
    BY <1>3, <1>4 DEF UnmarshalOf
  <1>6. DOMAIN items = DOMAIN a.steps OBVIOUS
  <1>7. \A i \in DOMAIN a.steps : items[i] = MarshalJSON[a.steps[i]] OBVIOUS
  <1> HIDE DEF items
  <1>8. \A i \in DOMAIN a.steps : UnmarshalJSON[items[i]] = Reread(a.steps[i])
    BY <1>7 DEF Reread
  <1>9. [i \in DOMAIN items |-> UnmarshalJSON[items[i]]]
          = [i \in DOMAIN a.steps |-> Reread(a.steps[i])]
    BY <1>6, <1>8
  <1> QED BY <1>5, <1>9 DEF json, Reread

LEMMA PlainIsReread ==
  ASSUME NEW d \in Depths
  PROVE  \A a \in Nested(PlainSimple)[d] : Reread(a) = a
  <1> DEFINE P == {e \in Depths : \A a \in Nested(PlainSimple)[e] : Reread(a) = a}
  <1>1. ASSUME NEW e \in Depths, NEW a \in Nested(PlainSimple)[e], a.type # "macro"
        PROVE  Reread(a) = a
    <2>1. a \in PlainSimple BY <1>1, PlainIsSimple, NestedSteps
    <2> QED BY <2>1, PlainIsSimple, SimpleIsReread
  <1>2. 0 \in P
    <2>1. 0 \in Depths /\ 0 - 1 \notin Depths BY NestingAssumption DEF Depths
    <2>2. \A a \in Nested(PlainSimple)[0] : a.type # "macro" BY <2>1, PlainIsSimple, NestedSteps
    <2> QED BY <1>1, <2>1, <2>2
  <1>3. ASSUME NEW e \in Depths, e \in P, e + 1 \in Depths PROVE e + 1 \in P
    <2>1. \A a \in Nested(PlainSimple)[e] : Reread(a) = a BY <1>3
    <2>2. (e + 1) - 1 = e BY DEF Depths
    <2>3. ASSUME NEW a \in Nested(PlainSimple)[e + 1], a.type = "macro"
          PROVE  Reread(a) = a
      <3>1. a \in Actions BY <1>3, PlainIsAction, NestedBelow DEF Actions
      <3>2. Reread(a) = Validated(MacroOf([i \in DOMAIN a.steps |-> Reread(a.steps[i])]))
        BY <2>3, <3>1, MacroIsReread
      <3>3. /\ \A i \in DOMAIN a.steps : a.steps[i] \in Nested(PlainSimple)[e]
            /\ a = MacroOf(a.steps)
        BY <1>3, <2>2, <2>3, PlainIsSimple, StepsOf
      <3>4. a.steps = [i \in DOMAIN a.steps |-> a.steps[i]]
        <4>1. a.steps \in Seq(Nested(PlainSimple)[(e + 1) - 1])
          BY <1>3, <2>3, PlainIsSimple, NestedSteps
        <4>2. a.steps \in [1..Len(a.steps) -> Nested(PlainSimple)[(e + 1) - 1]]
          BY <4>1, LenProperties
        <4> QED BY <4>2
      <3>5. [i \in DOMAIN a.steps |-> Reread(a.steps[i])] = a.steps BY <2>1, <3>3, <3>4
      <3> QED BY <3>1, <3>2, <3>3, <3>5 DEF Validated, Validate
    <2> QED BY <1>1, <1>3, <2>3
  <1> HIDE DEF P
  <1>4. Depths \subseteq P BY <1>2, <1>3, DepthInduction
  <1> QED BY <1>4 DEF P

(* A plain action is read back as it was written (MarshalJSON,             *)
(* UnmarshalJSON).                                                         *)
THEOREM PlainReadsBack ==
  ASSUME NEW a, IsPlain(a)
  PROVE  a \in Actions /\ Reread(a) = a
  <1>1. MaxNesting \in Depths BY NestingAssumption DEF Depths
  <1> QED BY <1>1, PlainIsAction, PlainIsReread DEF IsPlain, Actions

LEMMA NestedNext ==
  ASSUME NEW S, NEW d \in Depths, d + 1 \in Depths
  PROVE  Nested(S)[d + 1] = S \cup MacrosOf(Nested(S)[d])
  <1>1. d + 1 # 0 /\ (d + 1) - 1 = d BY DEF Depths
  <1> DEFINE N == Nested(S)
  <1>2. N[d + 1] = IF d + 1 = 0 THEN S ELSE S \cup MacrosOf(N[(d + 1) - 1]) BY NestedAt
  <1> HIDE DEF N
  <1>3. N[d + 1] = S \cup MacrosOf(N[d]) BY <1>1, <1>2
  <1> QED BY <1>3 DEF N

LEMMA ErrorIsNoAction == Error \notin Actions
  BY NestingAssumption DEF Actions

\* A step that could not be read makes the macro one that cannot be.
LEMMA NoErrorStep ==
  ASSUME NEW steps, NEW i \in DOMAIN steps, steps[i] = Error
  PROVE  MacroOf(steps) \notin Actions
  <1> SUFFICES ASSUME MacroOf(steps) \in Actions PROVE FALSE OBVIOUS
  <1>1. MaxNesting \in Depths BY NestingAssumption DEF Depths
  <1> DEFINE a == MacroOf(steps)
  <1>2. a.type = "macro" /\ a.steps = steps BY DEF MacroOf
  <1>3. a \in Nested(Simple)[MaxNesting] BY DEF Actions
  <1> HIDE DEF a
  <1>4. MaxNesting - 1 \in Depths /\ \A k \in DOMAIN a.steps : a.steps[k] \in Nested(Simple)[MaxNesting - 1]
    BY <1>1, <1>2, <1>3, StepsOf
  <1>5. Error \in Nested(Simple)[MaxNesting - 1] BY <1>2, <1>4
  <1> QED BY <1>4, <1>5, NestingAssumption DEF Depths

LEMMA RereadIsNested ==
  ASSUME NEW d \in Depths
  PROVE  \A a \in Nested(Simple)[d] : Reread(a) \in Nested(PlainSimple)[d] \cup {Error}
  <1> DEFINE P == {e \in Depths : \A a \in Nested(Simple)[e] :
                                     Reread(a) \in Nested(PlainSimple)[e] \cup {Error}}
  <1>0. \A e \in Depths : PlainSimple \subseteq Nested(PlainSimple)[e]
    BY NestedAt
  <1>1. ASSUME NEW e \in Depths, NEW a \in Nested(Simple)[e], a.type # "macro"
        PROVE  Reread(a) \in Nested(PlainSimple)[e] \cup {Error}
    <2>1. a \in Simple BY <1>1, NestedSteps
    <2> QED BY <1>0, <2>1, SimpleIsReread
  <1>2. 0 \in P
    <2>1. 0 \in Depths /\ 0 - 1 \notin Depths BY NestingAssumption DEF Depths
    <2>2. \A a \in Nested(Simple)[0] : a.type # "macro" BY <2>1, NestedSteps
    <2> QED BY <1>1, <2>1, <2>2
  <1>3. ASSUME NEW e \in Depths, e \in P, e + 1 \in Depths PROVE e + 1 \in P
    <2>1. \A a \in Nested(Simple)[e] : Reread(a) \in Nested(PlainSimple)[e] \cup {Error}
      BY <1>3
    <2>2. (e + 1) - 1 = e /\ e + 1 # 0 BY DEF Depths
    <2>3. ASSUME NEW a \in Nested(Simple)[e + 1], a.type = "macro"
          PROVE  Reread(a) \in Nested(PlainSimple)[e + 1] \cup {Error}
      <3> DEFINE steps == [i \in DOMAIN a.steps |-> Reread(a.steps[i])]
      <3>1. a \in Actions BY <1>3, NestedBelow DEF Actions
      <3>2. Reread(a) = Validated(MacroOf(steps)) BY <2>3, <3>1, MacroIsReread
      <3>3. /\ DOMAIN a.steps = 1..Len(a.steps) /\ Len(a.steps) \in Nat /\ Len(a.steps) # 0
            /\ \A i \in DOMAIN a.steps : a.steps[i] \in Nested(Simple)[e]
        BY <1>3, <2>2, <2>3, StepsOf
      <3>4. \A i \in DOMAIN a.steps : steps[i] \in Nested(PlainSimple)[e] \cup {Error}
        BY <2>1, <3>3
      <3>5. CASE \A i \in DOMAIN a.steps : steps[i] # Error
        <4>1. \A i \in 1..Len(a.steps) : Reread(a.steps[i]) \in Nested(PlainSimple)[e]
          BY <3>3, <3>4, <3>5
        <4>2. steps \in Seq(Nested(PlainSimple)[e]) BY <3>3, <4>1
        <4>3. Len(steps) = Len(a.steps) BY <3>3
        <4> HIDE DEF steps
        <4>4. steps # <<>> BY <3>3, <4>3, EmptySeq
        <4>5. MacroOf(steps) \in MacrosOf(Nested(PlainSimple)[e])
          BY <4>2, <4>4 DEF MacroOf, MacrosOf, NoString
        <4>6. Nested(PlainSimple)[e + 1] = PlainSimple \cup MacrosOf(Nested(PlainSimple)[e])
          BY <1>3, NestedNext
        <4>7. MacroOf(steps) \in Nested(PlainSimple)[e + 1] BY <4>5, <4>6
        <4> QED BY <3>2, <4>7 DEF Validated
      <3>6. CASE \E i \in DOMAIN a.steps : steps[i] = Error
        <4>1. PICK i \in DOMAIN a.steps : steps[i] = Error BY <3>6
        <4>2. DOMAIN steps = DOMAIN a.steps OBVIOUS
        <4> HIDE DEF steps
        <4>3. MacroOf(steps) \notin Actions
          BY <4>1, <4>2, NoErrorStep
        <4> QED BY <3>2, <4>3 DEF Validated, Validate
      <3> QED BY <3>5, <3>6
    <2> QED BY <1>1, <1>3, <2>3
  <1> HIDE DEF P
  <1>4. Depths \subseteq P BY <1>2, <1>3, DepthInduction
  <1> QED BY <1>4 DEF P

(* What was written once is plain from then on: whatever a valid action    *)
(* is read back as is an error or is read back as it is (MarshalJSON,      *)
(* UnmarshalJSON).                                                         *)
THEOREM RereadIsPlain ==
  \A a \in Actions : Reread(a) = Error \/ IsPlain(Reread(a))
  <1>1. MaxNesting \in Depths BY NestingAssumption DEF Depths
  <1> QED BY <1>1, RereadIsNested DEF Actions, IsPlain

=============================================================================
