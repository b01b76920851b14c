---------------------------- MODULE MacroProofs ----------------------------
(***************************************************************************)
(* Proofs about the macros of ActionHandler, along the path of InputPath,  *)
(* for every set of actions and every nesting: what scheduleMacro comes to *)
(* is what the macro amounts to.                                           *)
(*                                                                         *)
(* Leaves is defined by recursion on the depth, so the proof needs         *)
(* induction on the natural numbers; it is stated with sets of numbers.    *)
(***************************************************************************)
EXTENDS InputPathProofs, WellFoundedInduction

-----------------------------------------------------------------------------
(* Induction on the natural numbers, stated with sets.                     *)

LessThan == {pair \in Nat \X Nat : pair[1] < pair[2]}

LEMMA NatWellFounded == IsWellFoundedOn(LessThan, Nat)
  <1>1. OpToRel(<, Nat) = LessThan BY Zenon DEF OpToRel, LessThan
  <1> QED BY <1>1, NatLessThanWellFounded, Zenon

LEMMA LeastNumber ==
  ASSUME NEW S \in SUBSET Nat, S # {}
  PROVE  \E n \in S : \A m \in S : n <= m
  <1>1. PICK n \in S : \A m \in S : ~(<<m, n>> \in LessThan)
    BY WFMin, NatWellFounded, Zenon
  <1>2. \A m \in S : ~(m < n)
    <2> TAKE m \in S
    <2>1. <<m, n>> \in Nat \X Nat => (m < n => <<m, n>> \in LessThan) BY Zenon DEF LessThan
    <2> QED BY <1>1, <2>1
  <1> QED BY <1>2

LEMMA NatSetInduction ==
  ASSUME NEW S \in SUBSET Nat, 0 \in S, \A n \in S : n + 1 \in S
  PROVE  S = Nat
  <1> SUFFICES ASSUME Nat \ S # {} PROVE FALSE OBVIOUS
  <1>1. PICK n \in Nat \ S : \A m \in Nat \ S : n <= m BY LeastNumber
  <1>2. n # 0 /\ n - 1 \in Nat /\ n - 1 \in S BY <1>1
  <1> QED BY <1>2

-----------------------------------------------------------------------------
(* FlattenSeq.                                                             *)

\* The facts about concatenation the lemmas use; its definition stays hidden.
Cat(a, b) == a \o b

LEMMA CatType ==
  ASSUME NEW S
  PROVE  \A a, b \in Seq(S) : Cat(a, b) \in Seq(S)
  BY ConcatProperties DEF Cat

LEMMA CatAssociative ==
  ASSUME NEW S
  PROVE  \A a, b, c \in Seq(S) : Cat(Cat(a, b), c) = Cat(a, Cat(b, c))
  BY ConcatAssociative DEF Cat

LEMMA CatEmpty ==
  ASSUME NEW S
  PROVE  \A a \in Seq(S) : Cat(a, <<>>) = a /\ Cat(<<>>, a) = a
  BY ConcatEmptySeq DEF Cat

\* f lists the flattenings of the first 1, 2, ..., n members of s.
Flattens(f, s, n) ==
    f = [i \in 1..n |-> IF i = 1 THEN s[i] ELSE Cat(f[i - 1], s[i])]

LEMMA FlattensAt ==
  ASSUME NEW f, NEW s, NEW n, Flattens(f, s, n)
  PROVE  \A i \in 1..n : f[i] = IF i = 1 THEN s[i] ELSE Cat(f[i - 1], s[i])
  <1> DEFINE h == [j \in 1..n |-> IF j = 1 THEN s[j] ELSE Cat(f[j - 1], s[j])]
  <1>1. f = h BY DEF Flattens
  <1>2. \A i \in 1..n : h[i] = IF i = 1 THEN s[i] ELSE Cat(f[i - 1], s[i]) OBVIOUS
  <1> HIDE DEF h
  <1> QED BY <1>1, <1>2

LEMMA FlattensExists ==
  ASSUME NEW s, NEW n \in Nat
  PROVE  \E f : Flattens(f, s, n)
  <1> DEFINE P == {k \in Nat : \E f : Flattens(f, s, k)}
  <1>1. 0 \in P
    <2>1. Flattens([i \in 1..0 |-> s], s, 0) BY DEF Flattens
    <2> QED BY <2>1
  <1>2. ASSUME NEW k \in P PROVE k + 1 \in P
    <2>1. PICK f : Flattens(f, s, k) OBVIOUS
    <2> DEFINE g == [i \in 1..(k + 1) |-> IF i = 1 THEN s[i] ELSE Cat(f[i - 1], s[i])]
    <2>2. \A i \in 1..k : g[i] = f[i] BY <2>1, FlattensAt
    <2>3. \A i \in 1..(k + 1) : i # 1 => i - 1 \in 1..k OBVIOUS
    <2>4. \A i \in 1..(k + 1) : i # 1 => g[i - 1] = f[i - 1] BY <2>2, <2>3
    <2>5. g = [i \in 1..(k + 1) |-> IF i = 1 THEN s[i] ELSE Cat(g[i - 1], s[i])]
      BY <2>4
    <2>6. Flattens(g, s, k + 1) BY <2>5 DEF Flattens
    <2> HIDE DEF g
    <2> QED BY <2>6
  <1> HIDE DEF P
  <1>3. P = Nat
    <2>1. P \in SUBSET Nat BY DEF P
    <2> QED BY <1>1, <1>2, <2>1, NatSetInduction
  <1> QED BY <1>3 DEF P

LEMMA FlattensAgree ==
  ASSUME NEW f, NEW s, NEW m \in Nat, Flattens(f, s, m),
         NEW g, NEW t, NEW n \in Nat, Flattens(g, t, n),
         m <= n, \A i \in 1..m : s[i] = t[i]
  PROVE  \A i \in 1..m : f[i] = g[i]
  <1> DEFINE P == {j \in Nat : \A i \in 1..m : i <= j => f[i] = g[i]}
  <1>1. 0 \in P OBVIOUS
  <1>2. ASSUME NEW j \in P PROVE j + 1 \in P
    <2>1. ASSUME NEW i \in 1..m, i <= j + 1 PROVE f[i] = g[i]
      <3>1. /\ f[i] = IF i = 1 THEN s[i] ELSE Cat(f[i - 1], s[i])
            /\ g[i] = IF i = 1 THEN t[i] ELSE Cat(g[i - 1], t[i])
        BY FlattensAt
      <3>2. CASE i = 1 BY <3>1, <3>2
      <3>3. CASE i # 1
        <4>1. i - 1 \in 1..m /\ i - 1 <= j BY <2>1, <3>3
        <4>2. f[i - 1] = g[i - 1] BY <4>1
        <4> QED BY <3>1, <3>3, <4>2
      <3> QED BY <3>2, <3>3
    <2> QED BY <2>1
  <1> HIDE DEF P
  <1>3. P = Nat
    <2>1. P \in SUBSET Nat BY DEF P
    <2> QED BY <1>1, <1>2, <2>1, NatSetInduction
  <1> QED BY <1>3 DEF P

LEMMA FlattensType ==
  ASSUME NEW S, NEW s \in Seq(Seq(S)), NEW f, Flattens(f, s, Len(s))
  PROVE  \A i \in 1..Len(s) : f[i] \in Seq(S)
  <1> DEFINE P == {j \in Nat : \A i \in 1..Len(s) : i <= j => f[i] \in Seq(S)}
  <1>0. Len(s) \in Nat BY LenProperties
  <1>1. 0 \in P OBVIOUS
  <1>2. ASSUME NEW j \in P PROVE j + 1 \in P
    <2>1. ASSUME NEW i \in 1..Len(s), i <= j + 1 PROVE f[i] \in Seq(S)
      <3>1. f[i] = IF i = 1 THEN s[i] ELSE Cat(f[i - 1], s[i]) BY FlattensAt
      <3>2. s[i] \in Seq(S) BY ElementOfSeq
      <3>3. CASE i = 1 BY <3>1, <3>2, <3>3
      <3>4. CASE i # 1
        <4>1. i - 1 \in 1..Len(s) /\ i - 1 <= j BY <1>0, <2>1, <3>4
        <4>2. f[i - 1] \in Seq(S) BY <4>1
        <4> QED BY <3>1, <3>2, <3>4, <4>2, CatType
      <3> QED BY <3>3, <3>4
    <2> QED BY <2>1
  <1> HIDE DEF P
  <1>3. P = Nat
    <2>1. P \in SUBSET Nat BY DEF P
    <2> QED BY <1>1, <1>2, <2>1, NatSetInduction
  <1>4. Len(s) \in P BY <1>0, <1>3
  <1> QED BY <1>0, <1>4 DEF P

LEMMA FlattenSeqIs ==
  ASSUME NEW S, NEW s \in Seq(S), s # <<>>
  PROVE  \E f : Flattens(f, s, Len(s)) /\ FlattenSeq(s) = f[Len(s)]
  <1>1. Len(s) \in Nat /\ Len(s) # 0 BY LenProperties, EmptySeq
  <1> DEFINE f == CHOOSE f : f = [i \in 1..Len(s) |-> IF i = 1 THEN s[i] ELSE Cat(f[i - 1], s[i])]
  <1>2. \E g : Flattens(g, s, Len(s)) BY <1>1, FlattensExists
  <1>3. Flattens(f, s, Len(s)) BY <1>2 DEF Flattens
  <1>4. FlattenSeq(s) = f[Len(s)] BY <1>1 DEF FlattenSeq, Cat
  <1> QED BY <1>3, <1>4

LEMMA FlattenSeqType ==
  ASSUME NEW S, NEW s \in Seq(Seq(S))
  PROVE  FlattenSeq(s) \in Seq(S)
  <1>1. CASE s = <<>>
    <2>1. FlattenSeq(s) = <<>> BY <1>1, EmptySeq DEF FlattenSeq
    <2> QED BY <2>1, EmptySeq
  <1>2. CASE s # <<>>
    <2>1. PICK f : Flattens(f, s, Len(s)) /\ FlattenSeq(s) = f[Len(s)] BY <1>2, FlattenSeqIs
    <2>2. Len(s) \in 1..Len(s) BY <1>2, LenProperties, EmptySeq
    <2> QED BY <2>1, <2>2, FlattensType
  <1> QED BY <1>1, <1>2

LEMMA FlattenSeqEmpty == FlattenSeq(<<>>) = <<>>
  BY EmptySeq DEF FlattenSeq

LEMMA FlattenSeqAppend ==
  ASSUME NEW S, NEW s \in Seq(Seq(S)), NEW x \in Seq(S)
  PROVE  FlattenSeq(Append(s, x)) = Cat(FlattenSeq(s), x)
  <1> DEFINE t == Append(s, x)
             n == Len(s)
  <1>1. /\ n \in Nat /\ t \in Seq(Seq(S)) /\ Len(t) = n + 1 /\ t # <<>>
        /\ t[n + 1] = x /\ \A i \in 1..n : t[i] = s[i]
    BY LenProperties, AppendProperties
  <1>2. PICK g : Flattens(g, t, n + 1) /\ FlattenSeq(t) = g[n + 1]
    BY <1>1, FlattenSeqIs
  <1> HIDE DEF t, n
  <1>3. n + 1 \in 1..(n + 1) BY <1>1
  <1>4. g[n + 1] = IF n + 1 = 1 THEN t[n + 1] ELSE Cat(g[(n + 1) - 1], t[n + 1])
    BY <1>2, <1>3, FlattensAt
  <1>5. CASE s = <<>>
    <2>1. n = 0 BY <1>5, EmptySeq DEF n
    <2>2. Cat(FlattenSeq(s), x) = x BY <1>5, FlattenSeqEmpty, CatEmpty
    <2>3. FlattenSeq(t) = x BY <1>1, <1>2, <1>4, <2>1
    <2> QED BY <2>2, <2>3 DEF t
  <1>6. CASE s # <<>>
    <2>1. n # 0 BY <1>6, EmptySeq DEF n
    <2>2. PICK f : Flattens(f, s, n) /\ FlattenSeq(s) = f[n] BY <1>6, FlattenSeqIs DEF n
    <2>3. n \in 1..n /\ n + 1 \in Nat /\ n <= n /\ n <= n + 1 BY <1>1, <2>1
    <2>4. g[n] = f[n]
      <3>1. \A i \in 1..n : s[i] = t[i] BY <1>1
      <3> DEFINE m == n + 1
      <3>2. m \in Nat /\ n <= m /\ Flattens(g, t, m) BY <1>1, <1>2
      <3> HIDE DEF m
      <3>3. \A i \in 1..n : f[i] = g[i] BY <1>1, <2>2, <3>1, <3>2, FlattensAgree
      <3> QED BY <2>3, <3>3
    <2>5. (n + 1) - 1 = n /\ n + 1 # 1 BY <1>1, <2>1
    <2>6. FlattenSeq(t) = Cat(g[n], x) BY <1>1, <1>2, <1>4, <2>5
    <2> QED BY <2>2, <2>4, <2>6 DEF t
  <1> QED BY <1>5, <1>6

\* f puts a before what is flattened of t.
PutsBefore(f, a, t, n) == f[1] = a /\ \A i \in 1..n : f[i + 1] = Cat(f[i], t[i])
AllIn(V, f, n) == \A i \in 1..n : f[i] \in V
AssociativeOn(V) == \A x, y, z \in V : Cat(Cat(x, y), z) = Cat(x, Cat(y, z))

\* Each flattening of s is its first member before one of the rest.
LEMMA FlattensShift ==
  ASSUME NEW V, AssociativeOn(V), NEW n \in Nat, NEW a \in V,
         NEW t, AllIn(V, t, n), NEW g, AllIn(V, g, n), Flattens(g, t, n),
         NEW f, PutsBefore(f, a, t, n)
  PROVE  \A i \in 1..n : f[i + 1] = Cat(a, g[i])
  <1>1. \A i \in 1..n : g[i] = IF i = 1 THEN t[i] ELSE Cat(g[i - 1], t[i])
    BY FlattensAt
  <1>2. \A i \in 1..n : i - 1 \in 1..n =>
           Cat(Cat(a, g[i - 1]), t[i]) = Cat(a, Cat(g[i - 1], t[i]))
    BY DEF AssociativeOn, AllIn
  <1> DEFINE P == {j \in Nat : \A i \in 1..n : i <= j => f[i + 1] = Cat(a, g[i])}
  <1>3. 0 \in P
    <2>1. \A i \in 1..n : ~(i <= 0) OBVIOUS
    <2> QED BY <2>1
  <1>4. ASSUME NEW j \in P PROVE j + 1 \in P
    <2>1. ASSUME NEW i \in 1..n, i <= j + 1 PROVE f[i + 1] = Cat(a, g[i])
      <3>1. f[1] = a /\ f[i + 1] = Cat(f[i], t[i]) BY DEF PutsBefore
      <3>2. CASE i = 1 BY <1>1, <3>1, <3>2
      <3>3. CASE i # 1
        <4>1. i - 1 \in 1..n /\ i - 1 <= j /\ (i - 1) + 1 = i BY <2>1, <3>3
        <4>2. f[i] = Cat(a, g[i - 1]) BY <4>1
        <4>3. g[i] = Cat(g[i - 1], t[i]) BY <1>1, <3>3
        <4> QED BY <1>2, <3>1, <4>1, <4>2, <4>3
      <3> QED BY <3>2, <3>3
    <2>2. j \in Nat /\ j + 1 \in Nat OBVIOUS
    <2> QED BY <2>1, <2>2
  <1> HIDE DEF P
  <1>5. P = Nat
    <2>1. P \in SUBSET Nat BY DEF P
    <2> QED BY <1>3, <1>4, <2>1, NatSetInduction
  <1>6. n \in P /\ \A i \in 1..n : i <= n BY <1>5
  <1> QED BY <1>6, Zenon DEF P

LEMMA FlattenSeqCons ==
  ASSUME NEW S, NEW s \in Seq(Seq(S)), s # <<>>
  PROVE  FlattenSeq(s) = Cat(Head(s), FlattenSeq(Tail(s)))
  <1> DEFINE t == Tail(s)
             n == Len(t)
             a == s[1]
             V == Seq(S)
  <1>1. /\ a \in V /\ Head(s) = a /\ t \in Seq(V) /\ Len(s) = n + 1
        /\ n \in Nat /\ \A i \in 1..n : t[i] = s[i + 1]
    <2>1. Len(s) \in Nat \ {0} BY LenProperties, EmptySeq
    <2> QED BY <2>1, HeadTailProperties, LenProperties
  <1>2. PICK f : Flattens(f, s, n + 1) /\ FlattenSeq(s) = f[n + 1]
    BY <1>1, FlattenSeqIs
  <1>3. n = 0 <=> t = <<>> BY <1>1, EmptySeq
  <1>4. AllIn(V, t, n) BY <1>1, ElementOfSeq DEF AllIn
  <1>5. n # 0 => \E g : /\ Flattens(g, t, n) /\ FlattenSeq(t) = g[n]
                        /\ AllIn(V, g, n)
    BY <1>1, <1>3, FlattenSeqIs, FlattensType DEF AllIn
  <1>6. AssociativeOn(V) BY CatAssociative DEF AssociativeOn
  <1>7. Cat(a, <<>>) = a BY <1>1, CatEmpty
  <1> HIDE DEF t, n, V
  <1>8. \A i \in 1..(n + 1) : f[i] = IF i = 1 THEN s[i] ELSE Cat(f[i - 1], s[i])
    BY <1>2, FlattensAt
  <1>9. PutsBefore(f, a, t, n)
    <2>1. 1 \in 1..(n + 1) BY <1>1
    <2>2. f[1] = a BY <1>8, <2>1
    <2>3. ASSUME NEW i \in 1..n PROVE f[i + 1] = Cat(f[i], t[i])
      <3>1. i + 1 \in 1..(n + 1) /\ i + 1 # 1 /\ (i + 1) - 1 = i BY <1>1
      <3>2. f[i + 1] = Cat(f[i], s[i + 1]) BY <1>8, <3>1
      <3> QED BY <1>1, <3>2
    <2> QED BY <2>2, <2>3 DEF PutsBefore
  <1> HIDE DEF a
  <1>10. CASE n = 0
    <2>1. Cat(a, FlattenSeq(t)) = a BY <1>3, <1>7, <1>10, FlattenSeqEmpty
    <2>2. f[n + 1] = a BY <1>9, <1>10 DEF PutsBefore
    <2> QED BY <1>1, <1>2, <2>1, <2>2 DEF t
  <1>11. CASE n # 0
    <2>1. PICK g : /\ Flattens(g, t, n) /\ FlattenSeq(t) = g[n]
                   /\ AllIn(V, g, n)
      BY <1>5, <1>11
    <2>2. \A i \in 1..n : f[i + 1] = Cat(a, g[i])
      <3>1. a \in V /\ n \in Nat BY <1>1
      <3> QED BY <1>4, <1>6, <1>9, <2>1, <3>1, FlattensShift
    <2>3. n \in 1..n BY <1>1, <1>11
    <2> QED BY <1>1, <1>2, <2>1, <2>2, <2>3 DEF t
  <1> QED BY <1>10, <1>11

-----------------------------------------------------------------------------
(* Leaves.                                                                 *)

Depths == 0..maxMacroDepth + 1

\* What an action amounts to at depth d, if f tells what one level deeper is.
Level(f, d, a) ==
    IF a.type # "macro" THEN <<a>>
    ELSE IF d > maxMacroDepth THEN <<>>
    ELSE FlattenSeq([i \in DOMAIN a.macro |-> f[d + 1][a.macro[i]]])

\* f is right for the k + 1 deepest levels.
Deepest(f, k) ==
    f = [d \in Depths |-> [a \in Actions |->
            IF d + k >= maxMacroDepth + 1 THEN Level(f, d, a) ELSE <<>>]]

LEMMA MacroSteps ==
  ASSUME NEW a \in Actions, a.type = "macro"
  PROVE  /\ a.macro \in Seq(Actions) /\ DOMAIN a.macro = 1..Len(a.macro) /\ Len(a.macro) \in Nat
         /\ \A i \in DOMAIN a.macro : a.macro[i] \in Actions
  <1>1. a.macro \in Seq(Actions) BY HandlerAssumption
  <1> QED BY <1>1, LenProperties, ElementOfSeq

LEMMA LevelAgrees ==
  ASSUME NEW f, NEW g, NEW d \in Depths, NEW a \in Actions,
         d <= maxMacroDepth => \A b \in Actions : f[d + 1][b] = g[d + 1][b]
  PROVE  Level(f, d, a) = Level(g, d, a)
  <1>1. CASE a.type = "macro" /\ ~(d > maxMacroDepth)
    <2>1. \A i \in DOMAIN a.macro : a.macro[i] \in Actions BY <1>1, MacroSteps
    <2>2. d <= maxMacroDepth BY <1>1, HandlerAssumption DEF Depths
    <2>3. \A i \in DOMAIN a.macro : f[d + 1][a.macro[i]] = g[d + 1][a.macro[i]]
      BY <2>1, <2>2
    <2>4. [i \in DOMAIN a.macro |-> f[d + 1][a.macro[i]]]
           = [i \in DOMAIN a.macro |-> g[d + 1][a.macro[i]]]
      BY <2>3
    <2> QED BY <1>1, <2>4 DEF Level
  <1>2. CASE ~(a.type = "macro" /\ ~(d > maxMacroDepth)) BY <1>2 DEF Level
  <1> QED BY <1>1, <1>2

LEMMA DeepestAt ==
  ASSUME NEW f, NEW k \in Nat, Deepest(f, k)
  PROVE  \A d \in Depths, a \in Actions :
            f[d][a] = IF d + k >= maxMacroDepth + 1 THEN Level(f, d, a) ELSE <<>>
  <1> DEFINE h == [d \in Depths |-> [a \in Actions |->
                      IF d + k >= maxMacroDepth + 1 THEN Level(f, d, a) ELSE <<>>]]
  <1>1. f = h BY DEF Deepest
  <1>2. \A d \in Depths, a \in Actions :
           h[d][a] = IF d + k >= maxMacroDepth + 1 THEN Level(f, d, a) ELSE <<>>
    OBVIOUS
  <1> HIDE DEF h
  <1> QED BY <1>1, <1>2

LEMMA DeepestExists ==
  ASSUME NEW n \in Nat
  PROVE  \E f : Deepest(f, n)
  <1> DEFINE P == {k \in Nat : \E f : Deepest(f, k)}
  <1>0. maxMacroDepth \in Nat BY HandlerAssumption
  <1>1. 0 \in P
    <2> DEFINE g == [d \in Depths |-> [a \in Actions |-> <<>>]]
               f == [d \in Depths |-> [a \in Actions |->
                        IF d + 0 >= maxMacroDepth + 1 THEN Level(g, d, a) ELSE <<>>]]
    <2>1. \A d \in Depths, a \in Actions :
             d + 0 >= maxMacroDepth + 1 => Level(f, d, a) = Level(g, d, a)
      <3> TAKE d \in Depths, a \in Actions
      <3> HAVE d + 0 >= maxMacroDepth + 1
      <3>1. ~(d <= maxMacroDepth) BY <1>0 DEF Depths
      <3> HIDE DEF f, g
      <3> QED BY <3>1, LevelAgrees
    <2>2. f = [d \in Depths |-> [a \in Actions |->
                  IF d + 0 >= maxMacroDepth + 1 THEN Level(f, d, a) ELSE <<>>]]
      BY <2>1
    <2>3. Deepest(f, 0) BY <2>2 DEF Deepest
    <2> HIDE DEF f
    <2> QED BY <2>3
  <1>2. ASSUME NEW k \in P PROVE k + 1 \in P
    <2>1. PICK g : Deepest(g, k) OBVIOUS
    <2>2. k \in Nat OBVIOUS
    <2> HIDE DEF P
    <2> DEFINE f == [d \in Depths |-> [a \in Actions |->
                        IF d + (k + 1) >= maxMacroDepth + 1 THEN Level(g, d, a) ELSE <<>>]]
    <2>3. \A d \in Depths, a \in Actions :
             g[d][a] = IF d + k >= maxMacroDepth + 1 THEN Level(g, d, a) ELSE <<>>
      BY <2>1, <2>2, DeepestAt
    <2>4. \A d \in Depths, a \in Actions : f[d][a] =
             IF d + (k + 1) >= maxMacroDepth + 1 THEN Level(g, d, a) ELSE <<>>
      OBVIOUS
    <2> HIDE DEF f
    <2>5. \A d \in Depths, a \in Actions :
             d + (k + 1) >= maxMacroDepth + 1 => Level(f, d, a) = Level(g, d, a)
      <3> TAKE d \in Depths, a \in Actions
      <3> HAVE d + (k + 1) >= maxMacroDepth + 1
      <3>1. ASSUME d <= maxMacroDepth, NEW b \in Actions PROVE f[d + 1][b] = g[d + 1][b]
        <4>1. /\ d + 1 \in Depths /\ (d + 1) + k >= maxMacroDepth + 1
              /\ (d + 1) + (k + 1) >= maxMacroDepth + 1
          BY <1>0, <2>2, <3>1 DEF Depths
        <4> QED BY <2>3, <2>4, <4>1
      <3> QED BY <3>1, LevelAgrees
    <2>6. f = [d \in Depths |-> [a \in Actions |->
                  IF d + (k + 1) >= maxMacroDepth + 1 THEN Level(f, d, a) ELSE <<>>]]
      BY <2>5 DEF f
    <2>7. Deepest(f, k + 1) BY <2>6 DEF Deepest
    <2> QED BY <2>2, <2>7 DEF P
  <1> HIDE DEF P
  <1>3. P = Nat
    <2>1. P \in SUBSET Nat BY DEF P
    <2> QED BY <1>1, <1>2, <2>1, NatSetInduction
  <1> QED BY <1>3 DEF P

\* The recursion of Leaves has a solution, so Leaves is one.
LEMMA LeavesAt ==
  ASSUME NEW d \in Depths, NEW a \in Actions
  PROVE  Leaves[d][a] = Level(Leaves, d, a)
  <1> DEFINE M == maxMacroDepth + 1
  <1>1. M \in Nat BY HandlerAssumption
  <1>2. \E f : f = [e \in Depths |-> [b \in Actions |-> Level(f, e, b)]]
    <2>1. PICK f : Deepest(f, M) BY <1>1, DeepestExists
    <2>2. \A e \in Depths : e + M >= M BY <1>1 DEF Depths
    <2>3. f = [e \in Depths |-> [b \in Actions |-> Level(f, e, b)]] BY <2>1, <2>2 DEF Deepest
    <2> QED BY <2>3
  <1>3. Leaves = [e \in Depths |-> [b \in Actions |-> Level(Leaves, e, b)]]
    BY <1>2, Zenon DEF Leaves, Depths, Level
  <1> DEFINE h == [e \in Depths |-> [b \in Actions |-> Level(Leaves, e, b)]]
  <1>4. Leaves = h BY <1>3
  <1>5. h[d][a] = Level(Leaves, d, a) OBVIOUS
  <1> HIDE DEF h
  <1> QED BY <1>4, <1>5

LEMMA LeavesType ==
  ASSUME NEW e \in Depths, NEW b \in Actions
  PROVE  Leaves[e][b] \in Seq(Actions)
  <1> DEFINE P == {k \in Nat : \A d \in Depths : d + k >= maxMacroDepth + 1 =>
                                  \A a \in Actions : Leaves[d][a] \in Seq(Actions)}
  <1>0. maxMacroDepth \in Nat BY HandlerAssumption
  <1>1. ASSUME NEW d \in Depths,
               d <= maxMacroDepth => \A a \in Actions : Leaves[d + 1][a] \in Seq(Actions)
        PROVE  \A a \in Actions : Leaves[d][a] \in Seq(Actions)
    <2> TAKE a \in Actions
    <2>1. Leaves[d][a] = Level(Leaves, d, a) BY LeavesAt
    <2>2. CASE a.type # "macro" BY <2>1, <2>2, OneEvent DEF Level
    <2>3. CASE a.type = "macro" /\ d > maxMacroDepth BY <2>1, <2>3, EmptySeq DEF Level
    <2>4. CASE a.type = "macro" /\ ~(d > maxMacroDepth)
      <3>1. d <= maxMacroDepth BY <1>0, <2>4 DEF Depths
      <3>2. \A i \in 1..Len(a.macro) : Leaves[d + 1][a.macro[i]] \in Seq(Actions)
        BY <1>1, <2>4, <3>1, MacroSteps
      <3>3. [i \in DOMAIN a.macro |-> Leaves[d + 1][a.macro[i]]] \in Seq(Seq(Actions))
        BY <2>4, <3>2, MacroSteps
      <3>4. FlattenSeq([i \in DOMAIN a.macro |-> Leaves[d + 1][a.macro[i]]]) \in Seq(Actions)
        BY <3>3, FlattenSeqType
      <3> QED BY <2>1, <2>4, <3>4 DEF Level
    <2> QED BY <2>2, <2>3, <2>4
  <1>2. 0 \in P
    <2>1. \A d \in Depths : d + 0 >= maxMacroDepth + 1 => ~(d <= maxMacroDepth)
      BY <1>0 DEF Depths
    <2> QED BY <1>1, <2>1
  <1>3. ASSUME NEW k \in P PROVE k + 1 \in P
    <2>1. /\ k \in Nat
          /\ \A d \in Depths : d + k >= maxMacroDepth + 1 =>
                 \A a \in Actions : Leaves[d][a] \in Seq(Actions)
      OBVIOUS
    <2>2. ASSUME NEW d \in Depths, d + (k + 1) >= maxMacroDepth + 1
          PROVE  \A a \in Actions : Leaves[d][a] \in Seq(Actions)
      <3>1. d <= maxMacroDepth => d + 1 \in Depths /\ (d + 1) + k >= maxMacroDepth + 1
        BY <1>0, <2>1, <2>2 DEF Depths
      <3> QED BY <1>1, <2>1, <3>1
    <2> QED BY <2>1, <2>2
  <1> HIDE DEF P
  <1>4. P = Nat
    <2>1. P \in SUBSET Nat BY DEF P
    <2> QED BY <1>2, <1>3, <2>1, NatSetInduction
  <1>5. maxMacroDepth + 1 \in P /\ e + (maxMacroDepth + 1) >= maxMacroDepth + 1
    BY <1>0, <1>4 DEF Depths
  <1> QED BY <1>5 DEF P

-----------------------------------------------------------------------------
(* Histories: their keys, and what they hold for a request.                *)

Maps(F, T, V) == F \in [T -> V]
Mapped(F, h) == [i \in DOMAIN h |-> F[h[i]]]

LEMMA MapAppend ==
  ASSUME NEW T, NEW V, NEW F, Maps(F, T, V), NEW h \in Seq(T), NEW e \in T
  PROVE  /\ Mapped(F, h) \in Seq(V) /\ F[e] \in V
         /\ Mapped(F, Append(h, e)) = Append(Mapped(F, h), F[e])
  <1> DEFINE n == Len(h)
             a == Append(h, e)
             m == [i \in 1..n |-> F[h[i]]]
  <1>1. /\ n \in Nat /\ DOMAIN h = 1..n /\ \A i \in 1..n : h[i] \in T
        /\ a \in Seq(T) /\ Len(a) = n + 1 /\ DOMAIN a = 1..(n + 1)
        /\ a[n + 1] = e /\ \A i \in 1..n : a[i] = h[i]
    BY LenProperties, AppendProperties, ElementOfSeq
  <1>0. F \in [T -> V] BY DEF Maps
  <1>2. \A i \in 1..(n + 1) : a[i] \in T BY <1>1
  <1> HIDE DEF n, a
  <1>3. m \in Seq(V) /\ Len(m) = n BY <1>0, <1>1
  <1>4. [i \in 1..(n + 1) |-> F[a[i]]] \in Seq(V) BY <1>0, <1>1, <1>2
  <1>5. F[e] \in V /\ Append(m, F[e]) \in Seq(V) /\ Len(Append(m, F[e])) = n + 1
    <2>1. F[e] \in V BY <1>0
    <2> HIDE DEF m
    <2> QED BY <1>3, <2>1, AppendProperties
  <1>6. \A i \in 1..(n + 1) : Append(m, F[e])[i] = F[a[i]]
    <2> TAKE i \in 1..(n + 1)
    <2>1. CASE i = n + 1 BY <1>1, <1>3, <1>5, <2>1, AppendProperties
    <2>2. CASE i \in 1..n BY <1>1, <1>3, <1>5, <2>2, AppendProperties
    <2> QED BY <1>1, <2>1, <2>2
  <1>7. DOMAIN Append(m, F[e]) = 1..(n + 1) BY <1>1, <1>5, LenProperties
  <1>8. Append(m, F[e]) = [i \in 1..(n + 1) |-> F[a[i]]]
    <2> DEFINE p == Append(m, F[e])
               q == [i \in 1..(n + 1) |-> F[a[i]]]
    <2>1. /\ p \in Seq(V) /\ q \in Seq(V) /\ Len(p) = n + 1 /\ Len(q) = n + 1
          /\ \A i \in 1..(n + 1) : p[i] = q[i]
      BY <1>1, <1>4, <1>5, <1>6
    <2> HIDE DEF p, q
    <2>2. p = q BY <2>1, SeqEqual
    <2> QED BY <2>2 DEF p, q
  <1> QED BY <1>1, <1>3, <1>5, <1>8 DEF a, Mapped

LEMMA KeysAppend ==
  ASSUME NEW h \in Seq(Entries), NEW e \in Entries
  PROVE  /\ Keys(h) \in Seq(Entries)
         /\ Keys(Append(h, e)) = Cat(Keys(h), IF IsInput(e[2]) THEN <<e>> ELSE <<>>)
  <1> DEFINE F == [x \in Entries |-> IF IsInput(x[2]) THEN <<x>> ELSE <<>>]
             g == Append(h, e)
  <1>1. Maps(F, Entries, Seq(Entries))
    <2>1. \A x \in Entries : <<x>> \in Seq(Entries) /\ <<>> \in Seq(Entries)
      BY OneEvent, EmptySeq
    <2> QED BY <2>1 DEF Maps
  <1>2. \A x \in Entries : F[x] = IF IsInput(x[2]) THEN <<x>> ELSE <<>> OBVIOUS
  <1>3. g \in Seq(Entries) BY AppendProperties
  <1>4. (\A i \in DOMAIN h : h[i] \in Entries) /\ (\A i \in DOMAIN g : g[i] \in Entries)
    BY <1>3, LenProperties, ElementOfSeq
  <1> HIDE DEF F, g
  <1>5. Keys(h) = FlattenSeq(Mapped(F, h))
    <2>1. [i \in DOMAIN h |-> IF IsInput(h[i][2]) THEN <<h[i]>> ELSE <<>>]
            = Mapped(F, h)
      BY <1>2, <1>4 DEF Mapped
    <2> QED BY <2>1 DEF Keys
  <1>6. Keys(g) = FlattenSeq(Mapped(F, g))
    <2>1. [i \in DOMAIN g |-> IF IsInput(g[i][2]) THEN <<g[i]>> ELSE <<>>]
            = Mapped(F, g)
      BY <1>2, <1>4 DEF Mapped
    <2> QED BY <2>1 DEF Keys
  <1> DEFINE m == Mapped(F, h)
  <1>7. m \in Seq(Seq(Entries)) /\ F[e] \in Seq(Entries) /\ Mapped(F, g) = Append(m, F[e])
    BY <1>1, MapAppend DEF g
  <1> HIDE DEF m
  <1>8. FlattenSeq(Append(m, F[e])) = Cat(FlattenSeq(m), F[e]) /\ FlattenSeq(m) \in Seq(Entries)
    BY <1>7, FlattenSeqAppend, FlattenSeqType
  <1> QED BY <1>2, <1>5, <1>6, <1>7, <1>8 DEF g, m

LEMMA ActionsOfAppend ==
  ASSUME NEW id, NEW h \in Seq(Entries), NEW e \in Entries
  PROVE  /\ ActionsOf(id, h) \in Seq(Actions)
         /\ ActionsOf(id, Append(h, e))
              = Cat(ActionsOf(id, h), IF e[1] = id THEN <<e[2]>> ELSE <<>>)
  <1> DEFINE F == [x \in Entries |-> IF x[1] = id THEN <<x[2]>> ELSE <<>>]
             g == Append(h, e)
  <1>1. Maps(F, Entries, Seq(Actions))
    <2>1. \A x \in Entries : <<x[2]>> \in Seq(Actions) /\ <<>> \in Seq(Actions)
      <3> TAKE x \in Entries
      <3>1. x[2] \in Actions BY DEF Entries
      <3> QED BY <3>1, OneEvent, EmptySeq
    <2> QED BY <2>1 DEF Maps
  <1>2. \A x \in Entries : F[x] = IF x[1] = id THEN <<x[2]>> ELSE <<>> OBVIOUS
  <1>3. g \in Seq(Entries) BY AppendProperties
  <1>4. (\A i \in DOMAIN h : h[i] \in Entries) /\ (\A i \in DOMAIN g : g[i] \in Entries)
    BY <1>3, LenProperties, ElementOfSeq
  <1> HIDE DEF F, g
  <1>5. ActionsOf(id, h) = FlattenSeq(Mapped(F, h))
    <2>1. [i \in DOMAIN h |-> IF h[i][1] = id THEN <<h[i][2]>> ELSE <<>>]
            = Mapped(F, h)
      BY <1>2, <1>4 DEF Mapped
    <2> QED BY <2>1 DEF ActionsOf
  <1>6. ActionsOf(id, g) = FlattenSeq(Mapped(F, g))
    <2>1. [i \in DOMAIN g |-> IF g[i][1] = id THEN <<g[i][2]>> ELSE <<>>]
            = Mapped(F, g)
      BY <1>2, <1>4 DEF Mapped
    <2> QED BY <2>1 DEF ActionsOf
  <1> DEFINE m == Mapped(F, h)
  <1>7. m \in Seq(Seq(Actions)) /\ F[e] \in Seq(Actions) /\ Mapped(F, g) = Append(m, F[e])
    BY <1>1, MapAppend DEF g
  <1> HIDE DEF m
  <1>8. FlattenSeq(Append(m, F[e])) = Cat(FlattenSeq(m), F[e]) /\ FlattenSeq(m) \in Seq(Actions)
    BY <1>7, FlattenSeqAppend, FlattenSeqType
  <1> QED BY <1>2, <1>5, <1>6, <1>7, <1>8 DEF g, m

\* A request that nothing was scheduled for has no actions.
LEMMA ActionsOfNone ==
  ASSUME NEW id, NEW h \in Seq(Entries), \A i \in DOMAIN h : h[i][1] # id
  PROVE  ActionsOf(id, h) = <<>>
  <1> DEFINE m == [i \in DOMAIN h |-> IF h[i][1] = id THEN <<h[i][2]>> ELSE <<>>]
  <1>1. m \in Seq(Seq({}))
    <2>1. Len(h) \in Nat /\ DOMAIN h = 1..Len(h) BY LenProperties
    <2>2. <<>> \in Seq({}) BY EmptySeq
    <2>3. \A i \in 1..Len(h) : m[i] = <<>> BY <2>1
    <2> QED BY <2>1, <2>2, <2>3
  <1>2. ActionsOf(id, h) = FlattenSeq(m) BY DEF ActionsOf
  <1> HIDE DEF m
  <1>3. FlattenSeq(m) \in Seq({}) BY <1>1, FlattenSeqType
  <1>4. \A s \in Seq({}) : s = <<>>
    <2> TAKE s \in Seq({})
    <2>1. Len(s) \in Nat /\ \A i \in 1..Len(s) : s[i] \in {} BY LenProperties, ElementOfSeq
    <2>2. Len(s) = 0 BY <2>1
    <2> QED BY <2>2, EmptySeq
  <1> QED BY <1>2, <1>3, <1>4

-----------------------------------------------------------------------------
(* What is left to do of the macro being played.                           *)

\* What the steps of one macro amount to, at depth d, ...
Rest(d, steps) == FlattenSeq([i \in DOMAIN steps |-> Leaves[d][steps[i]]])

\* ... and what is left of a macro and of those around it, innermost first.
Todo(stack) ==
    FlattenSeq([j \in 1..Len(stack) |->
                   Rest(Len(stack) + 1 - j, stack[Len(stack) + 1 - j])])

LEMMA RestIs ==
  ASSUME NEW d \in Depths, NEW steps \in Seq(Actions)
  PROVE  /\ Rest(d, steps) \in Seq(Actions)
         /\ steps = <<>> => Rest(d, steps) = <<>>
         /\ steps # <<>> =>
               Rest(d, steps) = Cat(Leaves[d][Head(steps)], Rest(d, Tail(steps)))
  <1> DEFINE m == [i \in DOMAIN steps |-> Leaves[d][steps[i]]]
             u == [i \in DOMAIN Tail(steps) |-> Leaves[d][Tail(steps)[i]]]
  <1>1. Len(steps) \in Nat /\ DOMAIN steps = 1..Len(steps) BY LenProperties
  <1>2. \A i \in 1..Len(steps) : Leaves[d][steps[i]] \in Seq(Actions)
    BY ElementOfSeq, LeavesType
  <1>3. m \in Seq(Seq(Actions)) /\ Len(m) = Len(steps) BY <1>1, <1>2
  <1>4. ASSUME steps = <<>> PROVE m = <<>>
    <2>1. Len(m) = 0 BY <1>3, <1>4, EmptySeq
    <2> QED BY <1>3, <2>1, EmptySeq
  <1>5. ASSUME steps # <<>> PROVE /\ m # <<>> /\ Head(m) = Leaves[d][Head(steps)]
                                  /\ Tail(m) = u
    <2>1. Len(steps) # 0 BY <1>5, EmptySeq
    <2>2. m # <<>> BY <1>3, <2>1, EmptySeq
    <2>3. Head(m) = Leaves[d][Head(steps)] BY <1>1, <1>3, <2>1
    <2>4. /\ Len(Tail(steps)) = Len(steps) - 1 /\ Tail(steps) \in Seq(Actions)
          /\ \A i \in 1..Len(Tail(steps)) : Tail(steps)[i] = steps[i + 1]
      BY <1>1, <1>5, HeadTailProperties
    <2>5. /\ Len(Tail(m)) = Len(m) - 1 /\ Tail(m) \in Seq(Seq(Actions))
          /\ \A i \in 1..Len(Tail(m)) : Tail(m)[i] = m[i + 1]
      BY <1>3, <2>2, HeadTailProperties
    <2>6. DOMAIN Tail(steps) = 1..(Len(steps) - 1) BY <1>1, <2>1, <2>4, LenProperties
    <2>7. \A i \in 1..(Len(steps) - 1) : i + 1 \in 1..Len(steps) BY <1>1, <2>1
    <2>8. \A i \in 1..(Len(steps) - 1) : Tail(m)[i] = u[i]
      <3> TAKE i \in 1..(Len(steps) - 1)
      <3>1. Tail(m)[i] = m[i + 1] /\ Tail(steps)[i] = steps[i + 1] BY <1>3, <2>4, <2>5
      <3>2. m[i + 1] = Leaves[d][steps[i + 1]] BY <1>1, <2>7
      <3>3. u[i] = Leaves[d][Tail(steps)[i]] BY <2>6
      <3> QED BY <3>1, <3>2, <3>3
    <2>9. u \in Seq(Seq(Actions)) /\ Len(u) = Len(steps) - 1
      <3>1. \A i \in 1..(Len(steps) - 1) : Leaves[d][Tail(steps)[i]] \in Seq(Actions)
        BY <1>2, <2>4, <2>6, <2>7
      <3> QED BY <1>1, <2>1, <2>6, <3>1
    <2> HIDE DEF m, u
    <2>10. Tail(m) = u BY <1>3, <2>5, <2>8, <2>9, SeqEqual
    <2> QED BY <2>2, <2>3, <2>10
  <1>6. Rest(d, steps) = FlattenSeq(m) /\ Rest(d, Tail(steps)) = FlattenSeq(u) BY DEF Rest
  <1> HIDE DEF m, u
  <1>7. FlattenSeq(m) \in Seq(Actions) BY <1>3, FlattenSeqType
  <1>8. steps # <<>> => FlattenSeq(m) = Cat(Head(m), FlattenSeq(Tail(m)))
    BY <1>3, <1>5, FlattenSeqCons
  <1> QED BY <1>4, <1>5, <1>6, <1>7, <1>8, FlattenSeqEmpty

\* The macro that is not too deep amounts to its steps, one level deeper.
LEMMA NestedLeaves ==
  ASSUME NEW d \in Depths, NEW a \in Actions
  PROVE  /\ a.type # "macro" => Leaves[d][a] = <<a>>
         /\ a.type = "macro" /\ d > maxMacroDepth => Leaves[d][a] = <<>>
         /\ a.type = "macro" /\ ~(d > maxMacroDepth) => Leaves[d][a] = Rest(d + 1, a.macro)
  BY LeavesAt DEF Level, Rest

Stacks == {s \in Seq(Seq(Actions)) : Len(s) <= maxMacroDepth + 1}

LEMMA TodoIs ==
  ASSUME NEW stack \in Stacks
  PROVE  /\ Todo(stack) \in Seq(Actions)
         /\ stack = <<>> => Todo(stack) = <<>>
         /\ stack # <<>> =>
               /\ Len(stack) \in Depths /\ Last(stack) \in Seq(Actions) /\ Front(stack) \in Stacks
               /\ Todo(stack) = Cat(Rest(Len(stack), Last(stack)), Todo(Front(stack)))
  <1> DEFINE n == Len(stack)
             F(j) == Rest(n + 1 - j, stack[n + 1 - j])
             m == [j \in 1..n |-> Rest(n + 1 - j, stack[n + 1 - j])]
             r == Front(stack)
             k == Len(r)
             u == [j \in 1..k |-> Rest(k + 1 - j, r[k + 1 - j])]
  <1>0. maxMacroDepth \in Nat BY HandlerAssumption
  <1>1. n \in Nat /\ n <= maxMacroDepth + 1 /\ stack \in Seq(Seq(Actions))
    BY LenProperties DEF Stacks
  <1>2. \A i \in 1..n : i \in Depths /\ stack[i] \in Seq(Actions) /\ Rest(i, stack[i]) \in Seq(Actions)
    BY <1>0, <1>1, ElementOfSeq, RestIs DEF Depths
  <1>3. \A j \in 1..n : n + 1 - j \in 1..n BY <1>1
  <1>4. m \in Seq(Seq(Actions)) /\ Len(m) = n
    <2>1. \A j \in 1..n : Rest(n + 1 - j, stack[n + 1 - j]) \in Seq(Actions) BY <1>2, <1>3
    <2> HIDE DEF n
    <2> QED BY <1>1, <2>1
  <1>5. ASSUME stack = <<>> PROVE m = <<>>
    <2>1. Len(m) = 0 BY <1>4, <1>5, EmptySeq
    <2> QED BY <1>4, <2>1, EmptySeq
  <1>6. Todo(stack) = FlattenSeq(m) /\ Todo(r) = FlattenSeq(u) BY DEF Todo
  <1>7. ASSUME stack # <<>>
        PROVE  /\ n \in Depths /\ Last(stack) \in Seq(Actions) /\ r \in Stacks
               /\ m # <<>> /\ Head(m) = Rest(n, Last(stack)) /\ Tail(m) = u
    <2>1. n # 0 /\ n \in 1..n BY <1>1, <1>7, EmptySeq
    <2>2. Last(stack) = stack[n] BY DEF Last
    <2>3. /\ r \in Seq(Seq(Actions)) /\ k = n - 1 /\ \A i \in 1..(n - 1) : r[i] = stack[i]
      <3>1. \A i \in 1..(n - 1) : stack[i] \in Seq(Actions) BY <1>1, <1>2, <2>1
      <3>2. r = SubSeq(stack, 1, n - 1) BY DEF Front
      <3> HIDE DEF n, r
      <3>3. /\ SubSeq(stack, 1, n - 1) \in Seq(Seq(Actions))
            /\ Len(SubSeq(stack, 1, n - 1)) = IF 1 <= n - 1 THEN n - 1 - 1 + 1 ELSE 0
            /\ \A i \in 1..(n - 1 - 1 + 1) : SubSeq(stack, 1, n - 1)[i] = stack[1 + i - 1]
        BY <1>1, <3>1, SubSeqProperties
      <3> QED BY <1>1, <2>1, <3>2, <3>3
    <2>4. r \in Stacks BY <1>0, <1>1, <2>1, <2>3 DEF Stacks
    <2>5. m # <<>> BY <1>4, <2>1, EmptySeq
    <2>6. Head(m) = Rest(n, Last(stack))
      <3>1. 1 \in 1..n /\ n + 1 - 1 = n BY <1>1, <2>1
      <3>2. m[1] = Rest(n, stack[n]) BY <3>1
      <3> HIDE DEF m, n
      <3> QED BY <1>4, <2>2, <2>5, <3>2, HeadTailProperties
    <2>7. /\ Len(Tail(m)) = n - 1 /\ Tail(m) \in Seq(Seq(Actions))
          /\ \A j \in 1..(n - 1) : Tail(m)[j] = m[j + 1]
      <3> HIDE DEF m, n
      <3> QED BY <1>4, <2>5, HeadTailProperties
    <2>8. \A j \in 1..(n - 1) : /\ j + 1 \in 1..n /\ n + 1 - (j + 1) = k + 1 - j
                                /\ k + 1 - j \in 1..(n - 1) /\ k + 1 - j \in 1..n
      <3> HIDE DEF n, k
      <3> QED BY <1>1, <2>1, <2>3
    <2>9. \A j \in 1..(n - 1) : Tail(m)[j] = u[j] /\ u[j] \in Seq(Actions)
      <3> TAKE j \in 1..(n - 1)
      <3>1. m[j + 1] = Rest(k + 1 - j, stack[k + 1 - j]) BY <2>8
      <3>2. u[j] = Rest(k + 1 - j, r[k + 1 - j]) BY <2>3
      <3>3. r[k + 1 - j] = stack[k + 1 - j] BY <2>3, <2>8
      <3>4. Rest(k + 1 - j, stack[k + 1 - j]) \in Seq(Actions) BY <1>2, <2>8
      <3> HIDE DEF m, n, k, r, u
      <3> QED BY <2>7, <3>1, <3>2, <3>3, <3>4
    <2>10. u \in Seq(Seq(Actions)) /\ Len(u) = n - 1
      <3>0. k \in Nat /\ k = n - 1
        <4> HIDE DEF k, n
        <4> QED BY <1>1, <2>1, <2>3
      <3> DEFINE v == [j \in 1..k |-> u[j]]
      <3>1. u = v OBVIOUS
      <3> HIDE DEF u, n, k
      <3>2. k \in Nat /\ \A j \in 1..k : u[j] \in Seq(Actions) BY <3>0, <2>9
      <3>3. v \in Seq(Seq(Actions)) /\ Len(v) = k BY <3>2
      <3> HIDE DEF v
      <3> QED BY <2>3, <3>1, <3>3
    <2> HIDE DEF m, u, n
    <2>11. Tail(m) = u BY <2>7, <2>9, <2>10, SeqEqual
    <2> QED BY <1>2, <2>1, <2>2, <2>4, <2>5, <2>6, <2>11
  <1> HIDE DEF m, u
  <1>8. FlattenSeq(m) \in Seq(Actions) BY <1>4, FlattenSeqType
  <1>9. stack # <<>> => FlattenSeq(m) = Cat(Head(m), FlattenSeq(Tail(m)))
    BY <1>4, <1>7, FlattenSeqCons
  <1> QED BY <1>5, <1>6, <1>7, <1>8, <1>9, FlattenSeqEmpty

-----------------------------------------------------------------------------
(* The inductive invariant.                                                *)

\* The entries of s for the request p, with rest after them, are the macro.
Spelled(p, s, rest) == Leaves[0][p.action] = Cat(ActionsOf(p.id, s), rest)

\* What was scheduled of the request in hand and what is on the stack make up
\* the macro; once the handler is closed the stack may be given up, save while
\* the worker is about to pass a step on.
WorkInv ==
    /\ queued = Keys(scheduled)
    /\ backPc \notin {"play", "enqueue"} => frames = <<>>
    /\ playing # None => \E rest \in Seq(Actions) : Spelled(playing, scheduled, rest)
    /\ playing # None /\ (~closed \/ backPc = "enqueue") =>
          Spelled(playing, scheduled, Todo(frames))

\* A number names one request: those that wait have not begun, and those on
\* their way to the queue are not known to it.
Begun(id) ==
    \/ playing # None /\ playing.id = id
    \/ \E i \in DOMAIN scheduled : scheduled[i][1] = id
Known(id) == Begun(id) \/ \E i \in DOMAIN backgroundQueue : backgroundQueue[i].id = id

NumbersInv ==
    /\ \A i, j \in DOMAIN backgroundQueue :
          backgroundQueue[i].id = backgroundQueue[j].id => i = j
    /\ \A i \in DOMAIN backgroundQueue : ~Begun(backgroundQueue[i].id)
    /\ processor = "dispatch" => ~Known(event.id)
    /\ window = "test" => ~Known(testing.id)
    /\ processor = "dispatch" /\ window = "test" => event.id # testing.id

MacroInv == WorkInv /\ NumbersInv

-----------------------------------------------------------------------------
(* The background worker keeps WorkInv.                                    *)

LEMMA SpelledStep ==
  ASSUME NEW p \in Requests, NEW s \in Seq(Entries), NEW a \in Actions,
         NEW rest \in Seq(Actions), Spelled(p, s, Cat(<<a>>, rest))
  PROVE  Spelled(p, Append(s, <<p.id, a>>), rest)
  <1> DEFINE e == <<p.id, a>>
             done == ActionsOf(p.id, s)
             one == <<a>>
  <1>1. e \in Entries /\ e[1] = p.id /\ e[2] = a BY RequestIs DEF Entries
  <1>2. one \in Seq(Actions) BY OneEvent
  <1> HIDE DEF e, one
  <1>3. done \in Seq(Actions) /\ ActionsOf(p.id, Append(s, e)) = Cat(done, one)
    BY <1>1, ActionsOfAppend DEF one
  <1> HIDE DEF done
  <1>4. Cat(Cat(done, one), rest) = Cat(done, Cat(one, rest))
    BY <1>2, <1>3, CatAssociative
  <1>5. Leaves[0][p.action] = Cat(done, Cat(one, rest)) BY DEF Spelled, done, one
  <1>6. Leaves[0][p.action] = Cat(ActionsOf(p.id, Append(s, e)), rest) BY <1>3, <1>4, <1>5
  <1> QED BY <1>6 DEF Spelled, e

LEMMA StackIs ==
  ASSUME HandlerTypes
  PROVE  frames \in Stacks
  BY DEF HandlerTypes, BackTypes, Stacks

LEMMA TodoAdvance ==
  ASSUME HandlerTypes, backPc \in {"play", "enqueue"}, Last(frames) # <<>>
  PROVE  /\ Len(frames) \in Depths /\ Advance \in Stacks /\ Len(Advance) = Len(frames)
         /\ Head(Last(frames)) \in Actions
         /\ Leaves[Len(frames)][Head(Last(frames))] \in Seq(Actions)
         /\ Todo(Advance) \in Seq(Actions)
         /\ Todo(frames) = Cat(Leaves[Len(frames)][Head(Last(frames))], Todo(Advance))
  <1> DEFINE n == Len(frames)
             step == Head(Last(frames))
             steps == Last(frames)
  <1>1. frames \in Seq(Seq(Actions)) /\ frames # <<>> /\ frames \in Stacks
    BY StackIs DEF HandlerTypes, BackTypes
  <1>2. /\ n \in Nat \ {0} /\ steps \in Seq(Actions) /\ step \in Actions
        /\ Advance \in Seq(Seq(Actions)) /\ Len(Advance) = n
    BY <1>1, FramesAre
  <1>3. Advance \in Stacks BY <1>1, <1>2 DEF Stacks
  <1>4. Advance # <<>> BY <1>2, EmptySeq
  <1>5. Advance = [frames EXCEPT ![n] = Tail(steps)] /\ steps = frames[n]
    BY DEF Advance, Last
  <1>6. DOMAIN frames = 1..n BY <1>1, LenProperties
  <1>7. Last(Advance) = Tail(steps)
    <2>1. Last(Advance) = Advance[n] BY <1>2 DEF Last
    <2>2. n \in DOMAIN frames BY <1>2, <1>6
    <2> HIDE DEF n, steps
    <2>3. Advance = [frames EXCEPT ![n] = Tail(steps)] BY <1>5
    <2> QED BY <2>1, <2>2, <2>3
  <1>8. Front(Advance) = Front(frames)
    <2>1. Front(Advance) = SubSeq(Advance, 1, n - 1) /\ Front(frames) = SubSeq(frames, 1, n - 1)
      BY <1>2 DEF Front
    <2>2. \A i \in 1..(n - 1) : i \in 1..n /\ i # n BY <1>2
    <2> HIDE DEF n, steps
    <2>3. \A i \in 1..(n - 1) : Advance[i] = frames[i] /\ frames[i] \in Seq(Actions)
      BY <1>1, <1>5, <1>6, <2>2, ElementOfSeq DEF n
    <2>4. /\ SubSeq(Advance, 1, n - 1) \in Seq(Seq(Actions))
          /\ Len(SubSeq(Advance, 1, n - 1)) = IF 1 <= n - 1 THEN n - 1 - 1 + 1 ELSE 0
          /\ \A i \in 1..(n - 1 - 1 + 1) : SubSeq(Advance, 1, n - 1)[i] = Advance[1 + i - 1]
      BY <1>2, <2>3, SubSeqProperties
    <2>5. /\ SubSeq(frames, 1, n - 1) \in Seq(Seq(Actions))
          /\ Len(SubSeq(frames, 1, n - 1)) = IF 1 <= n - 1 THEN n - 1 - 1 + 1 ELSE 0
          /\ \A i \in 1..(n - 1 - 1 + 1) : SubSeq(frames, 1, n - 1)[i] = frames[1 + i - 1]
      BY <1>2, <2>3, SubSeqProperties
    <2> DEFINE x == SubSeq(Advance, 1, n - 1)
               y == SubSeq(frames, 1, n - 1)
    <2>6. /\ x \in Seq(Seq(Actions)) /\ y \in Seq(Seq(Actions)) /\ Len(x) = Len(y)
          /\ Len(x) = IF 1 <= n - 1 THEN n - 1 - 1 + 1 ELSE 0
      BY <2>4, <2>5
    <2>7. \A i \in 1..Len(x) : x[i] = y[i]
      <3> TAKE i \in 1..Len(x)
      <3>1. i \in 1..(n - 1 - 1 + 1) /\ i \in 1..(n - 1) /\ 1 + i - 1 = i BY <1>2, <2>6
      <3>2. x[i] = Advance[i] /\ y[i] = frames[i] BY <2>4, <2>5, <3>1
      <3> QED BY <2>3, <3>1, <3>2
    <2> HIDE DEF x, y
    <2>8. x = y BY <2>6, <2>7, SeqEqual
    <2> QED BY <2>1, <2>8 DEF x, y
  <1> DEFINE inner == Front(frames)
  <1>9. /\ n \in Depths /\ inner \in Stacks
        /\ Todo(frames) = Cat(Rest(n, steps), Todo(inner))
    BY <1>1, TodoIs
  <1>10. Todo(Advance) \in Seq(Actions) /\ Todo(Advance) = Cat(Rest(n, Tail(steps)), Todo(inner))
    BY <1>2, <1>3, <1>4, <1>7, <1>8, TodoIs
  <1>11. Todo(inner) \in Seq(Actions) BY <1>9, TodoIs
  <1>12. Tail(steps) \in Seq(Actions) BY <1>2, HeadTailProperties
  <1>13. Rest(n, steps) = Cat(Leaves[n][step], Rest(n, Tail(steps)))
    BY <1>2, <1>9, RestIs
  <1>14. Leaves[n][step] \in Seq(Actions) /\ Rest(n, Tail(steps)) \in Seq(Actions)
    BY <1>2, <1>9, <1>12, LeavesType, RestIs
  <1> DEFINE a == Leaves[n][step]
             b == Rest(n, Tail(steps))
             c == Todo(inner)
  <1>15. Cat(Cat(a, b), c) = Cat(a, Cat(b, c))
    <2>1. a \in Seq(Actions) /\ b \in Seq(Actions) /\ c \in Seq(Actions) BY <1>11, <1>14
    <2> HIDE DEF a, b, c
    <2> QED BY <2>1, CatAssociative
  <1>16. Todo(frames) = Cat(a, Todo(Advance))
    <2> HIDE DEF n, steps, step, inner
    <2> QED BY <1>9, <1>10, <1>13, <1>15
  <1> QED BY <1>2, <1>3, <1>9, <1>10, <1>14, <1>16

LEMMA BackWorkTakes ==
  ASSUME HandlerTypes, OrderInv, WorkInv, Takes,
         \A i \in DOMAIN backgroundQueue : ~Begun(backgroundQueue[i].id)
  PROVE  WorkInv'
  <1> DEFINE h == Head(backgroundQueue)
             a == h.action
  <1>1. h \in Requests \ Steps
    <2>1. backgroundQueue \in Seq(Requests \ Steps) /\ backgroundQueue # <<>>
      BY DEF HandlerTypes, QueueTypes, Takes
    <2> QED BY <2>1, TailKeepsType
  <1>2. /\ a \in Actions /\ h.id \in Nat /\ ~IsInput(a) /\ h # None
        /\ Name(h) \in Entries /\ Name(h) = <<h.id, a>>
    BY <1>1, RequestIs, StepsAre DEF Steps, Name
  <1>3. scheduled \in Seq(Entries) BY DEF OrderInv
  <1>4. \A i \in DOMAIN scheduled : scheduled[i][1] # h.id
    <2>1. 1 \in DOMAIN backgroundQueue /\ h = backgroundQueue[1] BY TakenIs DEF Takes
    <2> QED BY <2>1 DEF Begun
  <1>5. ActionsOf(h.id, scheduled) = <<>>
    <2> DEFINE id == h.id
    <2> HIDE DEF id
    <2>1. \A i \in DOMAIN scheduled : scheduled[i][1] # id BY <1>4 DEF id
    <2>2. ActionsOf(id, scheduled) = <<>> BY <1>3, <2>1, ActionsOfNone
    <2> QED BY <2>2 DEF id
  <1>6. /\ queued = Keys(scheduled) /\ frames = <<>> /\ playing' = h /\ closed' = closed
        /\ queued' = queued
    BY DEF WorkInv, Takes, BackRests
  <1>7. 0 \in Depths /\ ~(0 > maxMacroDepth) /\ 0 + 1 = 1 /\ 1 \in Depths
    BY HandlerAssumption DEF Depths
  <1> DEFINE one == <<a>>
             e == Name(h)
  <1>8. CASE a.type = "command" /\ scheduled' = Append(scheduled, Name(h)) /\ UNCHANGED <<backPc, frames>>
    <2>1. e[1] = h.id /\ e[2] = a /\ one \in Seq(Actions) BY <1>2, OneEvent
    <2> HIDE DEF e, h
    <2>2. ActionsOf(h.id, Append(scheduled, e)) = Cat(<<>>, one)
      BY <1>2, <1>3, <1>5, <2>1, ActionsOfAppend DEF e
    <2> HIDE DEF one
    <2>3. Cat(<<>>, one) = one /\ Cat(one, <<>>) = one BY <2>1, CatEmpty
    <2>4. Leaves[0][a] = one BY <1>2, <1>7, <1>8, NestedLeaves DEF one
    <2>5. Spelled(h, Append(scheduled, e), <<>>) BY <2>2, <2>3, <2>4 DEF Spelled
    <2>6. Todo(<<>>) = <<>> /\ <<>> \in Seq(Actions)
      BY EmptySeq, FlattenSeqEmpty DEF Todo
    <2>7. Keys(Append(scheduled, e)) = Keys(scheduled)
      <3>1. Keys(scheduled) \in Seq(Entries) /\ Keys(Append(scheduled, e)) = Cat(Keys(scheduled), <<>>)
        BY <1>2, <1>3, <2>1, KeysAppend DEF e
      <3> QED BY <3>1, CatEmpty
    <2>8. scheduled' = Append(scheduled, e) /\ frames' = <<>> BY <1>6, <1>8 DEF e
    <2>9. Spelled(playing', scheduled', <<>>) BY <1>6, <2>5, <2>8
    <2>10. queued' = Keys(scheduled') BY <1>6, <2>7, <2>8
    <2> QED BY <2>6, <2>8, <2>9, <2>10 DEF WorkInv
  <1>9. CASE a.type # "command" /\ backPc' = "play" /\ frames' = <<a.macro>> /\ UNCHANGED scheduled
    <2>1. a.type = "macro" /\ a.macro \in Seq(Actions) BY <1>2, <1>9, HandlerAssumption DEF IsInput
    <2> HIDE DEF a, h
    <2> DEFINE stack == <<a.macro>>
               rest == Rest(1, a.macro)
    <2>2. /\ stack \in Seq(Seq(Actions)) /\ Len(stack) = 1 /\ stack # <<>> /\ stack[1] = a.macro
      BY <2>1, OneEvent
    <2>3. stack \in Stacks BY <2>2, HandlerAssumption DEF Stacks
    <2> HIDE DEF stack
    <2>4. Last(stack) = a.macro BY <2>2 DEF Last
    <2>5. Front(stack) = <<>>
      <3>1. Front(stack) = SubSeq(stack, 1, 1 - 1) BY <2>2 DEF Front
      <3> QED BY <3>1, SubSeqEmpty
    <2>6. Todo(stack) = Cat(rest, Todo(<<>>)) /\ Todo(stack) \in Seq(Actions)
      BY <2>2, <2>3, <2>4, <2>5, TodoIs
    <2>7. Todo(<<>>) = <<>> BY EmptySeq, FlattenSeqEmpty DEF Todo
    <2>8. rest \in Seq(Actions) BY <1>7, <2>1, RestIs
    <2>9. Leaves[0][a] = rest BY <1>2, <1>7, <2>1, NestedLeaves
    <2> HIDE DEF rest
    <2>10. Cat(rest, <<>>) = rest /\ Cat(<<>>, rest) = rest BY <2>8, CatEmpty
    <2>11. Spelled(h, scheduled, Todo(stack)) BY <1>5, <2>6, <2>7, <2>9, <2>10 DEF Spelled, a
    <2>12. frames' = stack /\ scheduled' = scheduled /\ backPc' = "play" BY <1>9 DEF stack
    <2>13. Spelled(playing', scheduled', Todo(frames')) BY <1>6, <2>11, <2>12
    <2>14. Todo(frames') \in Seq(Actions) BY <2>6, <2>12
    <2>15. queued' = Keys(scheduled') BY <1>6, <2>12
    <2> QED BY <2>12, <2>13, <2>14, <2>15 DEF WorkInv
  <1> QED BY <1>8, <1>9 DEF Takes

\* The stack an open handler has is what is left to do.
LEMMA LeftToDo ==
  ASSUME HandlerTypes, WorkInv, playing # None, ~closed \/ backPc = "enqueue"
  PROVE  Spelled(playing, scheduled, Todo(frames)) /\ playing \in Requests
  BY DEF WorkInv, HandlerTypes, BackTypes

LEMMA BackWorkReturns ==
  ASSUME HandlerTypes, WorkInv, Returns
  PROVE  WorkInv'
  <1>1. UNCHANGED <<playing, scheduled, queued, closed>> BY DEF Returns, BackRests
  <1>2. frames \in Stacks /\ frames # <<>> /\ frames \in Seq(Seq(Actions))
    BY StackIs DEF Returns, HandlerTypes, BackTypes
  <1>3. /\ Len(frames) \in Depths /\ Last(frames) \in Seq(Actions) /\ Front(frames) \in Stacks
        /\ Todo(frames) = Cat(Rest(Len(frames), Last(frames)), Todo(Front(frames)))
        /\ Len(frames) \in Nat /\ Len(Front(frames)) = Len(frames) - 1
    BY <1>2, TodoIs, FramesAre
  <1>4. Todo(Front(frames)) \in Seq(Actions) BY <1>3, TodoIs
  <1>5. backPc' # "enqueue" /\ (backPc' # "play" => frames' = <<>>)
    <2>1. Len(frames) = 1 => Front(frames) = <<>>
      <3>1. Front(frames) \in Seq(Seq(Actions)) BY <1>3 DEF Stacks
      <3> QED BY <1>3, <3>1, EmptySeq
    <2> QED BY <2>1 DEF Returns
  <1>6. ASSUME playing # None, ~closed PROVE Spelled(playing, scheduled, Todo(Front(frames)))
    <2>1. Last(frames) = <<>> BY <1>6 DEF Returns
    <2>2. Rest(Len(frames), Last(frames)) = <<>> BY <1>3, <2>1, RestIs
    <2>3. Todo(frames) = Todo(Front(frames)) BY <1>3, <1>4, <2>2, CatEmpty
    <2> QED BY <1>6, <2>3, LeftToDo
  <1>7. frames' = Front(frames) BY DEF Returns
  <1> QED BY <1>1, <1>5, <1>6, <1>7 DEF WorkInv

\* What is left after a step that schedules nothing is what was left.
LEMMA WorkStays ==
  ASSUME WorkInv, playing # None, Todo(frames') \in Seq(Actions),
         Spelled(playing, scheduled, Todo(frames')),
         backPc' \in {"play", "enqueue"}, UNCHANGED <<playing, scheduled, queued>>
  PROVE  WorkInv'
  BY DEF WorkInv

\* A step that is scheduled is the first of what was left.
LEMMA WorkMoves ==
  ASSUME HandlerTypes, OrderInv, WorkInv, NEW step \in Actions, playing # None,
         ~closed \/ backPc = "enqueue",
         Todo(frames') \in Seq(Actions), Todo(frames) = Cat(<<step>>, Todo(frames')),
         backPc' \in {"play", "enqueue"}, playing' = playing, scheduled' = Scheduled(step),
         queued' = IF IsInput(step) THEN Append(queued, <<playing.id, step>>) ELSE queued
  PROVE  WorkInv'
  <1> DEFINE e == <<playing.id, step>>
             t == Todo(frames')
  <1>1. Spelled(playing, scheduled, Cat(<<step>>, t)) /\ playing \in Requests BY LeftToDo
  <1>2. scheduled \in Seq(Entries) /\ queued = Keys(scheduled) BY DEF OrderInv, WorkInv
  <1>3. e \in Entries /\ e[2] = step BY <1>1, RequestIs DEF Entries
  <1>4. scheduled' = Append(scheduled, e) BY DEF Scheduled
  <1>5. t \in Seq(Actions) OBVIOUS
  <1> HIDE DEF t
  <1>6. Spelled(playing, Append(scheduled, <<playing.id, step>>), t)
    BY <1>1, <1>2, <1>5, SpelledStep
  <1>7. Spelled(playing', scheduled', t) BY <1>4, <1>6
  <1> HIDE DEF e
  <1>8. /\ Keys(scheduled) \in Seq(Entries)
        /\ Keys(Append(scheduled, e)) = Cat(Keys(scheduled), IF IsInput(step) THEN <<e>> ELSE <<>>)
    BY <1>2, <1>3, KeysAppend
  <1>9. queued' = Keys(scheduled')
    <2>1. CASE IsInput(step)
      <3>1. Append(queued, e) = Cat(queued, <<e>>)
        BY <1>2, <1>3, <1>8, AppendIsConcat DEF Cat
      <3>2. queued' = Append(queued, e) BY <2>1 DEF e
      <3> QED BY <1>2, <1>4, <1>8, <2>1, <3>1, <3>2
    <2>2. CASE ~IsInput(step)
      <3>1. Cat(Keys(scheduled), <<>>) = Keys(scheduled) BY <1>8, CatEmpty
      <3> QED BY <1>2, <1>4, <1>8, <2>2, <3>1
    <2> QED BY <2>1, <2>2
  <1> QED BY <1>5, <1>7, <1>9 DEF WorkInv, t

LEMMA BackWorkStep ==
  ASSUME HandlerTypes, HandlerTypes', OrderInv, WorkInv, BackStepIs,
         \A i \in DOMAIN backgroundQueue : ~Begun(backgroundQueue[i].id)
  PROVE  WorkInv'
  <1> DEFINE n == Len(frames)
             step == Head(Last(frames))
  <1>1. CASE BackEnds
    <2>1. UNCHANGED <<playing, scheduled, queued, closed, frames>> /\ backPc = "idle" /\ backPc' = "done"
      BY <1>1 DEF BackEnds, BackRests
    <2> QED BY <2>1 DEF WorkInv
  <1>2. CASE Takes BY <1>2, BackWorkTakes
  <1>3. CASE Returns BY <1>3, BackWorkReturns
  <1>4. CASE Comes
    <2>1. UNCHANGED <<playing, scheduled, queued, closed, frames>> /\ ~closed
          /\ backPc = "play" /\ backPc' = "enqueue"
      BY <1>4 DEF Comes, BackRests
    <2> QED BY <2>1 DEF WorkInv
  <1>5. ASSUME Runs \/ Nests \/ Passes
        PROVE  /\ backPc \in {"play", "enqueue"} /\ Last(frames) # <<>> /\ playing # None
               /\ ~closed \/ backPc = "enqueue"
               /\ backPc' \in {"play", "enqueue"} /\ playing' = playing
    BY <1>5 DEF Runs, Nests, Passes, HandlerTypes, BackTypes
  <1>6. ASSUME Runs \/ Nests \/ Passes
        PROVE  /\ n \in Depths /\ Advance \in Stacks /\ Len(Advance) = n /\ step \in Actions
               /\ Todo(Advance) \in Seq(Actions)
               /\ Leaves[n][step] \in Seq(Actions)
               /\ Todo(frames) = Cat(Leaves[n][step], Todo(Advance))
    BY <1>5, <1>6, TodoAdvance
  <1>7. \A a \in Actions : a.type \notin {"key", "text", "combo", "command"} => a.type = "macro"
    BY HandlerAssumption
  <1> HIDE DEF n
  <1>8. CASE Runs
    <2>1. CASE step.type = "command" /\ scheduled' = Scheduled(step)
      <3>1. Leaves[n][step] = <<step>> /\ ~IsInput(step) BY <1>6, <1>8, <2>1, NestedLeaves DEF IsInput
      <3>2. frames' = Advance /\ queued' = queued BY <1>8 DEF Runs
      <3> HIDE DEF step
      <3> QED BY <1>5, <1>6, <1>8, <2>1, <3>1, <3>2, WorkMoves
    <2>2. CASE /\ step.type \notin {"key", "text", "combo", "command"}
               /\ TooDeep /\ UNCHANGED scheduled
      <3>1. n > maxMacroDepth BY <2>2 DEF TooDeep, n
      <3>2. Leaves[n][step] = <<>> BY <1>6, <1>7, <1>8, <2>2, <3>1, NestedLeaves
      <3>3. Todo(frames) = Todo(Advance) BY <1>6, <1>8, <3>2, CatEmpty
      <3>4. frames' = Advance /\ UNCHANGED <<playing, scheduled, queued>> BY <1>8, <2>2 DEF Runs
      <3>5. Spelled(playing, scheduled, Todo(frames)) BY <1>5, <1>8, LeftToDo
      <3> QED BY <1>5, <1>6, <1>8, <3>3, <3>4, <3>5, WorkStays
    <2> QED BY <1>8, <2>1, <2>2 DEF Runs
  <1>9. CASE Nests
    <2>1. step.type = "macro" /\ ~(n > maxMacroDepth) BY <1>6, <1>7, <1>9 DEF Nests, TooDeep, n
    <2>2. Leaves[n][step] = Rest(n + 1, step.macro) BY <1>6, <1>9, <2>1, NestedLeaves
    <2>3. frames' = Append(Advance, step.macro) /\ UNCHANGED <<playing, scheduled, queued>>
      BY <1>9 DEF Nests
    <2>4. frames' \in Stacks
      <3>1. (frames \in Stacks)' BY StackIs DEF HandlerTypes, BackTypes, Stacks
      <3> QED BY <3>1
    <2>5. step.macro \in Seq(Actions) /\ Advance \in Seq(Seq(Actions)) /\ n \in Nat
      BY <1>6, <1>9, <2>1, HandlerAssumption DEF Stacks, Depths
    <2> DEFINE a == Advance
               m == step.macro
               s == Append(a, m)
    <2>6. a \in Seq(Seq(Actions)) /\ m \in Seq(Actions) /\ Len(a) = n BY <1>6, <1>9, <2>5
    <2> HIDE DEF a, m
    <2>7. /\ s # <<>> /\ Len(s) = n + 1 /\ s[n + 1] = m /\ s \in Seq(Seq(Actions))
          /\ \A i \in 1..n : s[i] = a[i]
      <3> DEFINE T == Seq(Actions)
      <3>1. a \in Seq(T) /\ m \in T BY <2>6
      <3> HIDE DEF T
      <3>2. s # <<>> /\ Len(s) = Len(a) + 1 /\ s \in Seq(T) BY <3>1, AppendProperties
      <3>3. s[Len(a) + 1] = m /\ \A i \in 1..Len(a) : s[i] = a[i] BY <3>1, AppendProperties
      <3> HIDE DEF s
      <3> QED BY <2>6, <3>2, <3>3 DEF T
    <2>8. Last(s) = m BY <2>7 DEF Last
    <2>9. Front(s) = a
      <3>1. Front(s) = SubSeq(s, 1, (n + 1) - 1) BY <2>7 DEF Front
      <3>2. (n + 1) - 1 = n BY <2>5
      <3>3. SubSeq(s, 1, n) = a
        <4>1. \A i \in 1..n : s[i] \in Seq(Actions) BY <2>6, <2>7, ElementOfSeq
        <4> HIDE DEF s
        <4>2. /\ SubSeq(s, 1, n) \in Seq(Seq(Actions))
              /\ Len(SubSeq(s, 1, n)) = IF 1 <= n THEN n - 1 + 1 ELSE 0
              /\ \A i \in 1..(n - 1 + 1) : SubSeq(s, 1, n)[i] = s[1 + i - 1]
          BY <2>5, <4>1, SubSeqProperties
        <4> DEFINE x == SubSeq(s, 1, n)
        <4>3. x \in Seq(Seq(Actions)) /\ Len(x) = n /\ \A i \in 1..n : x[i] = s[i]
          <5>1. \A i \in 1..n : i \in 1..(n - 1 + 1) /\ 1 + i - 1 = i BY <2>5
          <5> QED BY <2>5, <4>2, <5>1
        <4> HIDE DEF x
        <4>4. x = a
          <5> DEFINE T == Seq(Actions)
          <5>1. x \in Seq(T) /\ a \in Seq(T) /\ Len(x) = Len(a) BY <2>6, <4>3
          <5>2. \A i \in 1..Len(x) : x[i] = a[i] BY <2>7, <4>3
          <5> HIDE DEF T
          <5> QED BY <5>1, <5>2, SeqEqual
        <4> QED BY <4>4 DEF x
      <3> HIDE DEF s
      <3> QED BY <3>1, <3>2, <3>3
    <2>10. s \in Stacks BY <2>3, <2>4 DEF s, a, m
    <2> HIDE DEF s
    <2>11. Todo(s) = Cat(Rest(n + 1, m), Todo(a)) /\ Todo(s) \in Seq(Actions)
      BY <2>7, <2>8, <2>9, <2>10, TodoIs
    <2>12. Todo(frames') = Todo(frames) /\ Todo(frames') \in Seq(Actions)
      BY <1>6, <1>9, <2>2, <2>3, <2>11 DEF s, a, m
    <2>13. Spelled(playing, scheduled, Todo(frames)) BY <1>5, <1>9, LeftToDo
    <2> QED BY <1>5, <1>9, <2>3, <2>12, <2>13, WorkStays
  <1>10. CASE Passes
    <2>1. IsInput(step) BY <1>10 DEF Passes, HandlerTypes, BackTypes
    <2>2. Leaves[n][step] = <<step>> BY <1>6, <1>10, <2>1, NestedLeaves DEF IsInput
    <2>3. /\ frames' = Advance /\ scheduled' = Scheduled(step)
          /\ queued' = Append(queued, <<playing.id, step>>)
      BY <1>10 DEF Passes
    <2> HIDE DEF step
    <2> QED BY <1>5, <1>6, <1>10, <2>1, <2>2, <2>3, WorkMoves
  <1> QED BY <1>1, <1>2, <1>3, <1>4, <1>8, <1>9, <1>10 DEF BackStepIs

\* A step of another goroutine leaves the macro as it is; the closing of the
\* handler frees the worker from what is left.
LEMMA WorkRests ==
  ASSUME WorkInv, UNCHANGED <<queued, scheduled, backPc, frames, playing>>,
         closed' = closed \/ closed'
  PROVE  WorkInv'
  BY DEF WorkInv

-----------------------------------------------------------------------------
(* The numbers.                                                            *)

\* The numbers the handler has seen are of events and tests that took place.
LEMMA KnownIsPast ==
  ASSUME PathInv, NEW id, Known(id)
  PROVE  id \in 1..serial
  BY DEF Known, Begun, PathInv, CapturesInv, HandlerPassed, Passed

LEMMA NumbersRest ==
  ASSUME NumbersInv, UNCHANGED <<playing, scheduled, backgroundQueue>>,
         processor' = "dispatch" => processor = "dispatch" /\ event' = event,
         window' = "test" => window = "test" /\ testing' = testing
  PROVE  NumbersInv'
  BY DEF NumbersInv, Known, Begun

\* The head of the background queue begins.
LEMMA TakesNumbers ==
  ASSUME HandlerTypes, OrderInv, NumbersInv, Takes, UNCHANGED pathVars
  PROVE  NumbersInv'
  <1> DEFINE q == backgroundQueue
             t == Tail(q)
             h == Head(q)
             e == Name(h)
  <1>1. q \in Seq(Requests \ Steps) /\ q # <<>> BY DEF Takes, HandlerTypes, QueueTypes
  <1>2. /\ Len(q) \in Nat /\ DOMAIN q = 1..Len(q) /\ DOMAIN t = 1..Len(t) /\ Len(t) = Len(q) - 1
        /\ \A i \in 1..Len(t) : t[i] = q[i + 1]
    BY <1>1, HeadTailProperties, LenProperties
  <1>3. h = q[1] /\ 1 \in DOMAIN q /\ h.id = e[1] /\ e \in Entries BY <1>1, TakenIs
  <1>4. q' = t /\ playing' = h BY DEF Takes
  <1>5. \A i \in DOMAIN t : i + 1 \in DOMAIN q /\ t[i] = q[i + 1] /\ i + 1 # 1 BY <1>2
  <1>6. \A i, j \in DOMAIN t : i + 1 = j + 1 => i = j BY <1>2
  <1>7. scheduled' = scheduled \/ scheduled' = Append(scheduled, e) BY DEF Takes
  <1>8. scheduled \in Seq(Entries) BY DEF OrderInv
  <1>9. \A x : (\E i \in DOMAIN scheduled' : scheduled'[i][1] = x)
                  => x = h.id \/ \E i \in DOMAIN scheduled : scheduled[i][1] = x
    <2> HIDE DEF e, h
    <2>1. /\ Len(scheduled) \in Nat /\ DOMAIN scheduled = 1..Len(scheduled)
          /\ DOMAIN Append(scheduled, e) = 1..Len(scheduled) + 1
          /\ Append(scheduled, e)[Len(scheduled) + 1] = e
          /\ \A i \in 1..Len(scheduled) : Append(scheduled, e)[i] = scheduled[i]
      BY <1>3, <1>8, LenProperties, AppendProperties
    <2>2. \A i \in 1..Len(scheduled) + 1 : i \in 1..Len(scheduled) \/ i = Len(scheduled) + 1 BY <2>1
    <2>3. \A i \in DOMAIN Append(scheduled, e) :
             Append(scheduled, e)[i][1] = h.id
             \/ \E j \in DOMAIN scheduled : scheduled[j][1] = Append(scheduled, e)[i][1]
      BY <1>3, <2>1, <2>2
    <2> QED BY <1>7, <2>3
  <1> HIDE DEF t, h, e
  <1>10. \A x : Begun(x)' => Begun(x) \/ x = h.id BY <1>4, <1>9 DEF Begun
  <1>11. \A x : Known(x)' => Known(x) BY <1>3, <1>4, <1>5, <1>10 DEF Known
  <1>12. /\ \A i, j \in DOMAIN q : q[i].id = q[j].id => i = j
         /\ \A i \in DOMAIN q : ~Begun(q[i].id)
    BY DEF NumbersInv
  <1>13. \A i, j \in DOMAIN t : t[i].id = t[j].id => i = j BY <1>5, <1>6, <1>12
  <1>14. (\A i \in DOMAIN backgroundQueue : ~Begun(backgroundQueue[i].id))'
    <2>1. \A i \in DOMAIN t : ~Begun(t[i].id) /\ t[i].id # h.id BY <1>3, <1>5, <1>12
    <2>2. \A x : (\E i \in DOMAIN q' : x = q'[i].id) => ~Begun(x) /\ x # h.id BY <1>4, <2>1
    <2>3. \A x : (\E i \in DOMAIN q' : x = q'[i].id) => ~Begun(x)' BY <1>10, <2>2
    <2> QED BY <2>3 DEF Begun
  <1>15. (\A i, j \in DOMAIN backgroundQueue : backgroundQueue[i].id = backgroundQueue[j].id => i = j)'
    BY <1>4, <1>13
  <1>16. (processor = "dispatch" => ~Known(event.id))' /\ (window = "test" => ~Known(testing.id))'
    <2>1. processor' = processor /\ window' = window /\ event' = event /\ testing' = testing
      BY DEF pathVars
    <2>2. (processor = "dispatch" => ~Known(event.id)) /\ (window = "test" => ~Known(testing.id))
      BY DEF NumbersInv
    <2>3. Known(event.id)' => Known(event.id)
      <3>1. \A x : x = event' => (Known(x.id)' => Known(x.id)) BY <1>11
      <3> QED BY <2>1, <3>1 DEF Known, Begun
    <2>4. Known(testing.id)' => Known(testing.id)
      <3>1. \A x : x = testing' => (Known(x.id)' => Known(x.id)) BY <1>11
      <3> QED BY <2>1, <3>1 DEF Known, Begun
    <2> QED BY <2>1, <2>2, <2>3, <2>4
  <1>17. (processor = "dispatch" /\ window = "test" => event.id # testing.id)'
    BY DEF NumbersInv, pathVars
  <1> QED BY <1>14, <1>15, <1>16, <1>17 DEF NumbersInv

\* Every other step of the worker is for the request in hand.
LEMMA WorksNumbers ==
  ASSUME HandlerTypes, OrderInv, NumbersInv, UNCHANGED <<playing, backgroundQueue, pathVars>>,
         \/ scheduled' = scheduled
         \/ \E a \in Actions : scheduled' = Scheduled(a) /\ playing # None
  PROVE  NumbersInv'
  <1>1. CASE scheduled' = scheduled BY <1>1, NumbersRest DEF pathVars
  <1>2. ASSUME NEW a \in Actions, scheduled' = Scheduled(a), playing # None
        PROVE  NumbersInv'
    <2> DEFINE e == <<playing.id, a>>
    <2>1. playing \in Requests BY <1>2 DEF HandlerTypes, BackTypes
    <2>2. e \in Entries /\ e[1] = playing.id BY <2>1, RequestIs DEF Entries
    <2>3. scheduled' = Append(scheduled, e) /\ scheduled \in Seq(Entries) BY <1>2 DEF Scheduled, OrderInv
    <2> HIDE DEF e
    <2>4. /\ Len(scheduled) \in Nat /\ DOMAIN scheduled = 1..Len(scheduled)
          /\ DOMAIN Append(scheduled, e) = 1..Len(scheduled) + 1
          /\ Append(scheduled, e)[Len(scheduled) + 1] = e
          /\ \A i \in 1..Len(scheduled) : Append(scheduled, e)[i] = scheduled[i]
      BY <2>2, <2>3, LenProperties, AppendProperties
    <2>5. \A i \in 1..Len(scheduled) + 1 : i \in 1..Len(scheduled) \/ i = Len(scheduled) + 1 BY <2>4
    <2>6. \A i \in DOMAIN scheduled' :
             scheduled'[i][1] = playing.id
             \/ \E j \in DOMAIN scheduled : scheduled[j][1] = scheduled'[i][1]
      BY <2>2, <2>3, <2>4, <2>5
    <2>7. \A x : Begun(x)' => Begun(x) BY <1>2, <2>6 DEF Begun
    <2>8. \A x : Known(x)' => Known(x) BY <2>7 DEF Known
    <2>9. \A i \in DOMAIN backgroundQueue : ~Begun(backgroundQueue[i].id)' BY <2>7 DEF NumbersInv, Begun
    <2> QED BY <2>8, <2>9 DEF NumbersInv, pathVars
  <1> QED BY <1>1, <1>2

LEMMA BackNumbersStep ==
  ASSUME HandlerTypes, OrderInv, NumbersInv, BackStepIs, UNCHANGED pathVars
  PROVE  NumbersInv'
  <1> DEFINE step == Head(Last(frames))
  <1>1. CASE BackEnds \/ Returns \/ Comes \/ Nests
    <2>1. UNCHANGED <<playing, backgroundQueue, scheduled>> BY <1>1 DEF BackEnds, Returns, Comes, Nests
    <2> QED BY <2>1, WorksNumbers
  <1>2. CASE Takes BY <1>2, TakesNumbers
  <1>3. CASE Runs \/ Passes
    <2>1. backPc \in {"play", "enqueue"} /\ Last(frames) # <<>>
      BY <1>3 DEF Runs, Passes, HandlerTypes, BackTypes
    <2>2. step \in Actions /\ playing # None BY <2>1, PlayedIs
    <2>3. /\ UNCHANGED <<playing, backgroundQueue>>
          /\ scheduled' = scheduled \/ scheduled' = Scheduled(step)
      BY <1>3 DEF Runs, Passes
    <2> HIDE DEF step
    <2> QED BY <2>2, <2>3, WorksNumbers
  <1> QED BY <1>1, <1>2, <1>3 DEF BackStepIs

\* A request the handler does not know is put in a queue.
LEMMA CallNumbers ==
  ASSUME HandlerTypes, NumbersInv, NEW a \in Actions, NEW id \in Nat, ~Known(id),
         HandleAction(a, id, 0)
  PROVE  /\ \A i, j \in DOMAIN backgroundQueue' :
               backgroundQueue'[i].id = backgroundQueue'[j].id => i = j
         /\ \A i \in DOMAIN backgroundQueue' : ~Begun(backgroundQueue'[i].id)
         /\ \A x : Known(x)' => Known(x) \/ x = id
         /\ UNCHANGED <<playing, scheduled>>
  <1> USE DEF backVars, historyVars
  <1>1. CASE isBackgroundAction(a)
    <2> DEFINE q == backgroundQueue
               r == Request(a, id, 0)
               n == Len(q)
    <2>1. tryEnqueueBackground(a, id) BY <1>1 DEF HandleAction
    <2>2. r \in Requests /\ r.id = id BY RequestType
    <2>3. q \in Seq(Requests) BY SeqMonotonic, Zenon DEF HandlerTypes, QueueTypes
    <2>4. q' = Append(q, r) /\ UNCHANGED <<playing, scheduled>> BY <2>1 DEF tryEnqueueBackground
    <2> HIDE DEF r
    <2>5. /\ n \in Nat /\ DOMAIN q = 1..n /\ DOMAIN q' = 1..n + 1
          /\ q'[n + 1] = r /\ \A i \in 1..n : q'[i] = q[i]
      BY <2>2, <2>3, <2>4, LenProperties, AppendProperties
    <2>6. \A i \in DOMAIN q' : (i \in DOMAIN q /\ q'[i] = q[i]) \/ (i = n + 1 /\ q'[i] = r)
      <3>1. \A i \in 1..n + 1 : i \in 1..n \/ i = n + 1 BY <2>5
      <3> QED BY <2>5, <3>1
    <2>7. \A i \in DOMAIN q : ~Begun(q[i].id) /\ q[i].id # id BY DEF NumbersInv, Known
    <2>8. ~Begun(id) BY DEF Known
    <2>9. \A i, j \in DOMAIN q : q[i].id = q[j].id => i = j BY DEF NumbersInv
    <2> HIDE DEF n
    <2>10. \A i, j \in DOMAIN q' : q'[i].id = q'[j].id => i = j BY <2>2, <2>6, <2>7, <2>9
    <2>11. \A i \in DOMAIN q' : ~Begun(q'[i].id) BY <2>2, <2>6, <2>7, <2>8
    <2>12. \A x : Begun(x)' => Begun(x) BY <2>4 DEF Begun
    <2>13. \A x : Known(x)' => Known(x) \/ x = id BY <2>2, <2>6, <2>12 DEF Known
    <2> QED BY <2>4, <2>10, <2>11, <2>13
  <1>2. CASE ~isBackgroundAction(a)
    <2>1. UNCHANGED <<playing, scheduled, backgroundQueue>> BY <1>2 DEF HandleAction, enqueueRealtime
    <2>2. \A x : Known(x)' => Known(x) BY <2>1 DEF Known, Begun
    <2> QED BY <2>1, <2>2 DEF NumbersInv
  <1> QED BY <1>1, <1>2

\* A request is handed over, or refused.
LEMMA CallNumbersStep ==
  ASSUME PathInv, NumbersInv, NEW a \in Actions, NEW id \in Nat, ~Known(id),
         HandleAction(a, id, 0) \/ UNCHANGED handlerVars,
         processor' = "dispatch" => processor = "dispatch" /\ event' = event /\ event.id # id,
         window' = "test" => window = "test" /\ testing' = testing /\ testing.id # id,
         ~(processor' = "dispatch" /\ window' = "test")
  PROVE  NumbersInv'
  <1>1. CASE UNCHANGED handlerVars
    BY <1>1, NumbersRest DEF handlerVars, queueVars, backVars, historyVars
  <1>2. CASE HandleAction(a, id, 0)
    <2>1. HandlerTypes BY DEF PathInv, TypeOK
    <2>2. /\ \A i, j \in DOMAIN backgroundQueue' :
                backgroundQueue'[i].id = backgroundQueue'[j].id => i = j
          /\ \A i \in DOMAIN backgroundQueue' : ~Begun(backgroundQueue'[i].id)
          /\ \A x : Known(x)' => Known(x) \/ x = id
          /\ UNCHANGED <<playing, scheduled>>
      BY <1>2, <2>1, CallNumbers
    <2>3. \A x : Begun(x)' <=> Begun(x) BY <2>2 DEF Begun
    <2>4. (\A i \in DOMAIN backgroundQueue : ~Begun(backgroundQueue[i].id))' BY <2>2 DEF Begun
    <2>5. processor' = "dispatch" => ~Known(event.id)' BY <2>2 DEF NumbersInv
    <2>6. window' = "test" => ~Known(testing.id)' BY <2>2 DEF NumbersInv
    <2> QED BY <2>2, <2>4, <2>5, <2>6 DEF NumbersInv, Known, Begun
  <1> QED BY <1>1, <1>2

\* The number of an event or a test is new.
LEMMA FreshNumbersStep ==
  ASSUME PathInv, NumbersInv
  PROVE  /\ ~Known(serial + 1)
         /\ processor = "dispatch" => event.id # serial + 1
         /\ window = "test" => testing.id # serial + 1
  <1>1. PathTypes BY TypesAre DEF PathInv
  <1>2. serial + 1 \notin 1..serial BY <1>1, InputPathAssumption DEF PathTypes
  <1>3. ~Known(serial + 1) BY <1>2, KnownIsPast
  <1> QED BY <1>1, <1>2, <1>3 DEF PathTypes

LEMMA ReceiveNumbers ==
  ASSUME PathInv, NumbersInv, NEW e \in Events, Receive(e)
  PROVE  NumbersInv'
  <1> DEFINE new == serial + 1
  <1>1. UNCHANGED <<playing, scheduled, backgroundQueue, window, testing>>
    BY DEF Receive, handlerVars, queueVars, backVars, historyVars
  <1>2. ~Known(new) /\ (window = "test" => testing.id # new) BY FreshNumbersStep
  <1>3. processor' = "dispatch" => event' = [id |-> new, action |-> e.action]
    BY DEF Receive
  <1> HIDE DEF new
  <1>4. processor' = "dispatch" => event'.id = new BY <1>3
  <1>5. \A x : Known(x)' <=> Known(x) BY <1>1 DEF Known, Begun
  <1>6. (processor = "dispatch" => ~Known(event.id))' BY <1>1, <1>2, <1>4 DEF Known, Begun
  <1>7. (processor = "dispatch" /\ window = "test" => event.id # testing.id)' BY <1>1, <1>2, <1>4
  <1>8. (window = "test" => ~Known(testing.id))' BY <1>1 DEF NumbersInv, Known, Begun
  <1>9. /\ (\A i, j \in DOMAIN backgroundQueue :
               backgroundQueue[i].id = backgroundQueue[j].id => i = j)'
        /\ (\A i \in DOMAIN backgroundQueue : ~Begun(backgroundQueue[i].id))'
    BY <1>1 DEF NumbersInv, Begun
  <1> QED BY <1>6, <1>7, <1>8, <1>9 DEF NumbersInv

LEMMA ClickTestNumbers ==
  ASSUME PathInv, NumbersInv, NEW a \in Tests, ClickTest(a)
  PROVE  NumbersInv'
  <1> DEFINE new == serial + 1
  <1>1. UNCHANGED <<playing, scheduled, backgroundQueue, processor, event>>
    BY DEF ClickTest, handlerVars, queueVars, backVars, historyVars
  <1>2. ~Known(new) /\ (processor = "dispatch" => event.id # new) BY FreshNumbersStep
  <1>3. testing' = [id |-> new, action |-> a] BY DEF ClickTest
  <1> HIDE DEF new
  <1>4. testing'.id = new BY <1>3
  <1>6. (window = "test" => ~Known(testing.id))' BY <1>1, <1>2, <1>4 DEF Known, Begun
  <1>7. (processor = "dispatch" /\ window = "test" => event.id # testing.id)' BY <1>1, <1>2, <1>4
  <1>8. (processor = "dispatch" => ~Known(event.id))' BY <1>1 DEF NumbersInv, Known, Begun
  <1>9. /\ (\A i, j \in DOMAIN backgroundQueue :
               backgroundQueue[i].id = backgroundQueue[j].id => i = j)'
        /\ (\A i \in DOMAIN backgroundQueue : ~Begun(backgroundQueue[i].id))'
    BY <1>1 DEF NumbersInv, Begun
  <1> QED BY <1>6, <1>7, <1>8, <1>9 DEF NumbersInv

LEMMA DispatchNumbers ==
  ASSUME PathInv, NumbersInv, Dispatch
  PROVE  NumbersInv'
  <1> DEFINE a == event.action
             id == event.id
  <1>1. PathTypes BY TypesAre DEF PathInv
  <1>2. a \in Actions /\ id \in Nat /\ ~Known(id) BY <1>1 DEF Dispatch, PathTypes, NumbersInv
  <1>3. HandleAction(a, id, 0) \/ UNCHANGED handlerVars BY DEF Dispatch
  <1>4. /\ processor' = "recv" /\ window' = window /\ testing' = testing
        /\ window = "test" => testing.id # id
    BY DEF Dispatch, ProcessorStays, NumbersInv
  <1> HIDE DEF a, id
  <1> QED BY <1>2, <1>3, <1>4, CallNumbersStep

LEMMA RunTestNumbers ==
  ASSUME PathInv, NumbersInv, RunTest
  PROVE  NumbersInv'
  <1> DEFINE a == testing.action
             id == testing.id
  <1>1. PathTypes BY TypesAre DEF PathInv
  <1>2. a \in Actions /\ id \in Nat /\ ~Known(id) BY <1>1 DEF RunTest, PathTypes, NumbersInv
  <1>3. HandleAction(a, id, 0) \/ UNCHANGED handlerVars BY DEF RunTest
  <1>4. /\ window' = "drain" /\ processor' = processor /\ event' = event
        /\ processor = "dispatch" => event.id # id
    BY DEF RunTest, WindowStays, NumbersInv
  <1> HIDE DEF a, id
  <1> QED BY <1>2, <1>3, <1>4, CallNumbersStep

-----------------------------------------------------------------------------
(* The invariant holds.                                                    *)

LEMMA CatPrefix ==
  ASSUME NEW S, NEW s \in Seq(S), NEW t \in Seq(S)
  PROVE  IsPrefix(s, Cat(s, t))
  <1> DEFINE c == Cat(s, t)
  <1>1. /\ c \in Seq(S) /\ Len(c) = Len(s) + Len(t)
        /\ \A i \in 1..Len(s) : c[i] = s[i]
    BY ConcatProperties DEF Cat
  <1>2. Len(s) \in Nat /\ Len(t) \in Nat BY LenProperties
  <1> HIDE DEF c
  <1>3. SubSeq(c, 1, Len(s)) = SubSeq(s, 1, Len(s))
    <2> DEFINE n == Len(s)
    <2>1. \A i \in 1..n : c[i] \in S /\ s[i] \in S /\ c[i] = s[i] BY <1>1, ElementOfSeq
    <2>2. n \in Nat BY <1>2
    <2> HIDE DEF n
    <2>3. SubSeq(c, 1, n) = [i \in 1..n |-> c[i]] BY <2>2
    <2>4. SubSeq(s, 1, n) = [i \in 1..n |-> s[i]] BY <2>2
    <2>5. SubSeq(c, 1, n) = SubSeq(s, 1, n) BY <2>1, <2>3, <2>4
    <2> QED BY <2>5 DEF n
  <1> QED BY <1>1, <1>2, <1>3 DEF IsPrefix, c

LEMMA MacroStarts == Init => MacroInv
  <1> SUFFICES ASSUME Init PROVE MacroInv OBVIOUS
  <1> USE DEF Init, HandlerInit
  <1>1. Keys(<<>>) = <<>>
    <2> DEFINE m == [i \in DOMAIN <<>> |-> IF IsInput(<<>>[i][2]) THEN <<<<>>[i]>> ELSE <<>>]
    <2>1. m = <<>> OBVIOUS
    <2>2. Keys(<<>>) = FlattenSeq(m) BY DEF Keys
    <2> HIDE DEF m
    <2> QED BY <2>1, <2>2, FlattenSeqEmpty
  <1>2. DOMAIN <<>> = {} OBVIOUS
  <1>3. WorkInv BY <1>1 DEF WorkInv
  <1>4. NumbersInv BY <1>2 DEF NumbersInv
  <1> QED BY <1>3, <1>4 DEF MacroInv

\* What the goroutines around the handler do to the macros and the numbers.
LEMMA MacroWorkersStep ==
  ASSUME PathInv, MacroInv, Workers, PathInv'
  PROVE  MacroInv'
  <1> USE DEF MacroInv
  <1>1. HandlerTypes /\ HandlerTypes' /\ OrderInv /\ UNCHANGED pathVars
    BY DEF PathInv, TypeOK, Workers
  <1>2. CASE InputWorker \/ Inject
    <2>1. InputStepIs BY <1>2, InputWorkerIs
    <2>2. UNCHANGED <<queued, scheduled, backPc, frames, playing, closed, backgroundQueue>>
      BY <2>1 DEF InputStepIs, Ends, Realtime, Waits, TakesStep, Plays, Rests, Injects,
                  queueVars, backVars, historyVars
    <2> QED BY <1>1, <2>2, WorkRests, NumbersRest DEF pathVars
  <1>3. CASE BackgroundWorker
    <2>1. BackStepIs BY <1>3, BackgroundWorkerIs
    <2>2. \A i \in DOMAIN backgroundQueue : ~Begun(backgroundQueue[i].id) BY DEF NumbersInv
    <2> QED BY <1>1, <2>1, <2>2, BackWorkStep, BackNumbersStep
  <1> QED BY <1>2, <1>3 DEF Workers

LEMMA MacroStep == PathInv /\ MacroInv /\ [Next]_vars => MacroInv'
  <1> SUFFICES ASSUME PathInv, MacroInv, [Next]_vars PROVE MacroInv' OBVIOUS
  <1>1. PathInv' BY PathStep
  <1>2. CASE Workers BY <1>1, <1>2, MacroWorkersStep
  <1>3. CASE Processor
    <2>1. UNCHANGED <<queued, scheduled, backPc, frames, playing, closed>>
      <3>1. CASE HandleAction(event.action, event.id, 0)
        BY <3>1 DEF HandleAction, tryEnqueueBackground, enqueueRealtime, backVars, historyVars
      <3>2. CASE UNCHANGED handlerVars BY <3>2 DEF handlerVars, backVars, historyVars
      <3> QED BY <1>3, <3>1, <3>2 DEF Processor, Deliver, Dispatch, StopProcessor
    <2>2. CASE Deliver \/ StopProcessor
      <3>1. UNCHANGED <<playing, scheduled, backgroundQueue, window, testing>> /\ processor' # "dispatch"
        BY <2>2 DEF Deliver, StopProcessor, ProcessorStays, handlerVars, queueVars, backVars, historyVars
      <3> QED BY <2>1, <3>1, WorkRests, NumbersRest DEF MacroInv
    <2>3. CASE Dispatch BY <2>1, <2>3, WorkRests, DispatchNumbers DEF MacroInv
    <2> QED BY <1>3, <2>2, <2>3 DEF Processor
  <1>4. CASE Closing
    <2>1. UNCHANGED <<queued, scheduled, backPc, frames, playing>> /\ (closed' = closed \/ closed')
      <3>1. CASE HandleAction(testing.action, testing.id, 0)
        BY <3>1 DEF HandleAction, tryEnqueueBackground, enqueueRealtime, backVars, historyVars
      <3>2. CASE UNCHANGED handlerVars BY <3>2 DEF handlerVars, backVars, historyVars
      <3>3. CASE CloseHandler BY <3>3 DEF CloseHandler, backVars, historyVars
      <3> QED BY <1>4, <3>1, <3>2, <3>3 DEF Closing, RunTest, Drain, CloseAll, End
    <2>2. CASE Drain \/ CloseAll \/ End
      <3>1. /\ UNCHANGED <<playing, scheduled, backgroundQueue, processor, event>>
            /\ window' = "test" => window = "test" /\ testing' = testing
        BY <2>2 DEF Drain, CloseAll, End, CloseHandler, WindowStays,
                    handlerVars, queueVars, backVars, historyVars
      <3> QED BY <2>1, <3>1, WorkRests, NumbersRest DEF MacroInv
    <2>3. CASE RunTest BY <2>1, <2>3, WorkRests, RunTestNumbers DEF MacroInv
    <2> QED BY <1>4, <2>2, <2>3 DEF Closing
  <1>5. ASSUME NEW e \in Events, Receive(e) PROVE MacroInv'
    <2>1. UNCHANGED <<queued, scheduled, backPc, frames, playing, closed>>
      BY <1>5 DEF Receive, handlerVars, backVars, historyVars
    <2> QED BY <1>5, <2>1, WorkRests, ReceiveNumbers DEF MacroInv
  <1>6. ASSUME NEW a \in Tests, ClickTest(a) PROVE MacroInv'
    <2>1. UNCHANGED <<queued, scheduled, backPc, frames, playing, closed>>
      BY <1>6 DEF ClickTest, handlerVars, backVars, historyVars
    <2> QED BY <1>6, <2>1, WorkRests, ClickTestNumbers DEF MacroInv
  <1>7. CASE Frame \/ BeginCapture \/ Navigate \/ Destroy \/ UNCHANGED vars
    <2>1. /\ UNCHANGED <<queued, scheduled, backPc, frames, playing, closed, backgroundQueue>>
          /\ UNCHANGED <<processor, event>>
          /\ window' = "test" => window = "test" /\ testing' = testing
      BY <1>7 DEF Frame, BeginCapture, Navigate, Destroy, WindowStays, vars, pathVars,
                  handlerVars, queueVars, backVars, historyVars
    <2> QED BY <2>1, WorkRests, NumbersRest DEF MacroInv
  <1> QED BY <1>2, <1>3, <1>4, <1>5, <1>6, <1>7 DEF Next

THEOREM MacroInvAlways == Spec => [](PathInv /\ MacroInv)
  BY PathInit, PathStep, MacroStarts, MacroStep, PTL DEF Spec

-----------------------------------------------------------------------------
(* What the runs check.                                                    *)

\* However macros nest, and wherever the closing of the handler stops one, the
\* steps scheduleMacro came to for the request in hand are the first of those
\* the macro amounts to, in its order; and what it passed on to the input
\* worker are the keys among all it came to.
THEOREM MacroInOrderAlways == Spec => []MacroInOrder
  <1>1. PathInv /\ MacroInv => MacroInOrder
    <2> SUFFICES ASSUME PathInv, MacroInv PROVE MacroInOrder OBVIOUS
    <2>1. queued = Keys(scheduled) BY DEF MacroInv, WorkInv
    <2>2. ASSUME playing # None
          PROVE  IsPrefix(ActionsOf(playing.id, scheduled), Leaves[0][playing.action])
      <3> DEFINE done == ActionsOf(playing.id, scheduled)
                 all == Leaves[0][playing.action]
      <3>1. scheduled \in Seq(Entries) BY DEF PathInv, OrderInv
      <3>2. done \in Seq(Actions)
        <4>1. playing \in Requests BY <2>2 DEF PathInv, TypeOK, HandlerTypes, BackTypes
        <4>2. playing.id \in Nat /\ playing.action \in Actions BY <4>1, RequestIs
        <4> DEFINE e == <<playing.id, playing.action>>
        <4>3. e \in Entries BY <4>2 DEF Entries
        <4> HIDE DEF e
        <4> QED BY <3>1, <4>3, ActionsOfAppend
      <3>3. PICK rest \in Seq(Actions) : all = Cat(done, rest)
        BY <2>2 DEF MacroInv, WorkInv, Spelled
      <3> HIDE DEF done, all
      <3>4. IsPrefix(done, Cat(done, rest)) BY <3>2, CatPrefix
      <3> QED BY <3>3, <3>4 DEF done, all
    <2> QED BY <2>1, <2>2 DEF MacroInOrder
  <1> QED BY <1>1, MacroInvAlways, PTL
=============================================================================
