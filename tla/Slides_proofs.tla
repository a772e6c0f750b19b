---------------------------- MODULE Slides_proofs ----------------------------
(***************************************************************************)
(* Theorems about Slides: for any presentation, any number of slides,      *)
(* clicks and pages, and whatever the user does.                           *)
(***************************************************************************)
EXTENDS Slides, SequenceTheorems, FiniteSetTheorems, WellFoundedInduction, TLAPS

-----------------------------------------------------------------------------
(* The slides are numbered from 1, and each has so many clicks. *)
LEMMA SlidesAreNumbered ==
  /\ Slides = 1..Len(Actions) /\ Len(Actions) \in Nat
  /\ 1 \in Slides
  /\ \A s \in Slides : Len(Actions[s]) \in Nat
<1>1. Actions \in Seq(Seq(Nat \ {0})) /\ Actions # <<>>
  BY SlidesAssumption
<1>2. Slides = 1..Len(Actions) /\ Len(Actions) \in Nat
  BY <1>1 DEF Slides
<1>3. Len(Actions) # 0
  BY <1>1
<1>4. ASSUME NEW s \in Slides
      PROVE Len(Actions[s]) \in Nat
  <2>1. Actions[s] \in Seq(Nat \ {0})
    BY <1>1, <1>2
  <2> QED
    BY <2>1
<1> QED
  BY <1>2, <1>3, <1>4

(* Before the presenter is there no slide has been shown. *)
LEMMA InitSteps == Init => StepsInOrder
<1> SUFFICES ASSUME Init PROVE StepsInOrder
  OBVIOUS
<1>1. index = 0 /\ step = [s \in Slides |-> -1]
  BY DEF Init
<1> QED
  BY <1>1, SlidesAreNumbered DEF StepsInOrder

(* One step of the presenter: a click, a step back, or anything else,      *)
(* which leaves index and step as they are.                                *)
LEMMA NextSteps == StepsInOrder /\ [Next]_vars => StepsInOrder'
<1> SUFFICES ASSUME StepsInOrder, [Next]_vars PROVE StepsInOrder'
  OBVIOUS
<1> USE SlidesAreNumbered DEF StepsInOrder
<1>1. CASE OnAddSlidePresenter
  <2>1. index = 0 /\ index' = 1 /\ step' = [step EXCEPT ![1] = 0]
    BY <1>1 DEF OnAddSlidePresenter
  <2> QED
    BY <2>1
<1>2. CASE OnNextAction
  <2>1. PICK s : /\ s = IF step[index] < Len(Actions[index]) THEN index ELSE index + 1
                 /\ s \in Slides
                 /\ index' = s
                 /\ step' = [step EXCEPT ![s] = @ + 1]
    BY <1>2 DEF OnNextAction
  <2>2. index # 0 /\ index \in Slides
    BY <1>2 DEF OnNextAction, Does
  <2>3. CASE step[index] < Len(Actions[index])
    <3>1. s = index
      BY <2>1, <2>3
    <3> QED
      BY <2>1, <2>2, <2>3, <3>1
  <2>4. CASE ~(step[index] < Len(Actions[index]))
    <3>1. s = index + 1
      BY <2>1, <2>4
    <3>2. step[index] = Len(Actions[index]) /\ step[s] = -1
      BY <2>1, <2>2, <2>4, <3>1
    <3> QED
      BY <2>1, <2>2, <3>1, <3>2
  <2> QED
    BY <2>3, <2>4
<1>3. CASE OnPreviousAction
  <2>1. /\ index > 1 /\ index' = index - 1
        /\ step' = [s \in Slides |-> IF s = index - 1 THEN 0
                                     ELSE IF s >= index THEN -1 ELSE step[s]]
    BY <1>3 DEF OnPreviousAction
  <2> QED
    BY <2>1
<1>4. CASE (\E z \in Sizes : SendSizeAnimation(z)) \/ (\E p \in PageIds : OnSelectPage(p))
  <2>1. UNCHANGED <<index, step>>
    BY <1>4 DEF SendSizeAnimation, OnSelectPage
  <2> QED
    BY <2>1
<1>5. CASE UNCHANGED vars
  <2>1. UNCHANGED <<index, step>>
    BY <1>5 DEF vars
  <2> QED
    BY <2>1
<1> QED
  BY <1>1, <1>2, <1>3, <1>4, <1>5 DEF Next

-----------------------------------------------------------------------------
(* A set of naturals that is not empty has a least element. *)
LEMMA Least ==
  ASSUME NEW T \in SUBSET Nat, T # {}
  PROVE  \E x \in T : \A y \in T : x <= y
<1>1. \E x \in T : \A y \in T : ~(y < x)
  <2> DEFINE R == OpToRel(<, Nat)
  <2>1. IsWellFoundedOn(R, Nat)  BY NatLessThanWellFounded
  <2>2. \A x, y \in Nat : y < x => <<y, x>> \in R  BY DEF OpToRel
  <2> HIDE DEF R
  <2>3. PICK x \in T : \A y \in T : ~(<<y, x>> \in R)  BY <2>1, WFMin
  <2>4. \A y \in T : ~(y < x)  BY <2>2, <2>3, Zenon
  <2> QED BY <2>4
<1>2. PICK x \in T : \A y \in T : ~(y < x)  BY <1>1
<1>3. \A y \in T : x <= y  BY <1>2
<1> QED BY <1>3

(* Induction over the naturals, stated of a set. *)
LEMMA AllNaturals ==
  ASSUME NEW T \in SUBSET Nat, 0 \in T, \A n \in T : n + 1 \in T
  PROVE  T = Nat
<1> SUFFICES ASSUME NEW m \in Nat, m \notin T PROVE FALSE
  OBVIOUS
<1>1. PICK x \in Nat \ T : \A y \in Nat \ T : x <= y
  BY Least
<1>2. x # 0 /\ x - 1 \in Nat  BY <1>1
<1>3. x - 1 \in T  BY <1>1, <1>2
<1>4. (x - 1) + 1 \in T BY <1>3
<1>5. (x - 1) + 1 = x BY <1>1
<1> QED BY <1>1, <1>4, <1>5

(* Induction up to a bound. *)
LEMMA Upward ==
  ASSUME NEW n \in Nat, NEW T \in SUBSET (0..n), 0 \in T,
         \A i \in 1..n : i - 1 \in T => i \in T
  PROVE  T = 0..n
<1> DEFINE U == {i \in Nat : i <= n => i \in T}
<1>1. U \in SUBSET Nat /\ 0 \in U  OBVIOUS
<1>2. \A i \in U : i + 1 \in U
  <2> SUFFICES ASSUME NEW i \in Nat, i <= n => i \in T, i + 1 <= n PROVE i + 1 \in T
    OBVIOUS
  <2>1. i + 1 \in 1..n /\ (i + 1) - 1 = i /\ i <= n  OBVIOUS
  <2> QED BY <2>1
<1> HIDE DEF U
<1>3. U = Nat  BY <1>1, <1>2, AllNaturals
<1>4. \A i \in 0..n : i \in T
  <2> SUFFICES ASSUME NEW i \in 0..n PROVE i \in T
    OBVIOUS
  <2>1. i \in U /\ i <= n  BY <1>3
  <2> QED BY <2>1 DEF U
<1> QED BY <1>4

(* Two functions that agree at first, and at every place where they agree  *)
(* at the one before, agree.                                               *)
AgreeByStep(f, g, n) == f[0] = g[0] /\ \A i \in 1..n : f[i - 1] = g[i - 1] => f[i] = g[i]

(* What AgreeByStep is for. *)
LEMMA SameValues ==
  ASSUME NEW n \in Nat, NEW f, NEW g, AgreeByStep(f, g, n)
  PROVE  \A i \in 0..n : f[i] = g[i]
<1> DEFINE T == {i \in 0..n : f[i] = g[i]}
<1>1. T \in SUBSET (0..n) /\ 0 \in T  BY DEF AgreeByStep
<1>2. \A i \in 1..n : i - 1 \in T => i \in T  BY DEF AgreeByStep
<1>3. T = 0..n
  <2> HIDE DEF T
  <2> QED BY <1>1, <1>2, Upward
<1> QED BY <1>3

(* The functions with a given first value and given steps.                 *)
ByRecursion(B, n, x, next) ==
  {f \in [0..n -> B] : f[0] = x /\ \A i \in 1..n : f[i] = next[i][f[i - 1]]}

(* There is one. *)
LEMMA RecursionWorks ==
  ASSUME NEW B, NEW n \in Nat, NEW x \in B, NEW next \in [1..n -> [B -> B]]
  PROVE  \E f : f \in ByRecursion(B, n, x, next)
<1> DEFINE Is(k, f) == f[0] = x /\ \A i \in 1..k : f[i] = next[i][f[i - 1]]
           T == {k \in 0..n : \E f \in [0..k -> B] : Is(k, f)}
<1>1. 0 \in T
  <2> DEFINE f == [i \in 0..0 |-> x]
  <2>1. f \in [0..0 -> B] /\ f[0] = x  OBVIOUS
  <2> HIDE DEF f
  <2>2. \A i \in 1..0 : FALSE  OBVIOUS
  <2> QED BY <2>1, <2>2
<1>2. ASSUME NEW k \in 1..n, NEW f \in [0..(k - 1) -> B], Is(k - 1, f)
      PROVE  \E g \in [0..k -> B] : Is(k, g)
  <2> DEFINE g == [i \in 0..k |-> IF i = k THEN next[k][f[k - 1]] ELSE f[i]]
  <2>1. f[k - 1] \in B /\ next[k][f[k - 1]] \in B  OBVIOUS
  <2>2. g \in [0..k -> B]  BY <2>1
  <2>3. g[0] = x  BY <1>2
  <2>4. ASSUME NEW i \in 1..k PROVE g[i] = next[i][g[i - 1]]
    <3>1. g[i - 1] = f[i - 1]  OBVIOUS
    <3>2. CASE i = k  BY <3>1, <3>2
    <3>3. CASE i # k
      <4>1. i \in 1..(k - 1) /\ g[i] = f[i]  BY <3>3
      <4> QED BY <1>2, <3>1, <4>1
    <3> QED BY <3>2, <3>3
  <2> HIDE DEF g
  <2> QED BY <2>2, <2>3, <2>4
<1>3. \A k \in 1..n : k - 1 \in T => k \in T
  <2> DEFINE Able(k) == \E f \in [0..k -> B] : Is(k, f)
  <2> HIDE DEF Is
  <2>1. \A k \in 1..n : Able(k - 1) => Able(k)  BY <1>2
  <2>2. T = {k \in 0..n : Able(k)}  OBVIOUS
  <2> HIDE DEF Able, T
  <2> QED BY <2>1, <2>2
<1>4. T = 0..n
  <2>1. T \in SUBSET (0..n)  OBVIOUS
  <2> HIDE DEF T
  <2> QED BY <1>1, <1>3, <2>1, Upward
<1>5. n \in T  BY <1>4
<1> QED BY <1>5 DEF ByRecursion

-----------------------------------------------------------------------------
(* Lists.                                                                  *)

(* What is in a list. *)
LEMMA InList ==
  ASSUME NEW S, NEW s \in Seq(S)
  PROVE  /\ Len(s) \in Nat /\ DOMAIN s = 1..Len(s)
         /\ ToSet(s) = {s[i] : i \in 1..Len(s)} /\ ToSet(s) \subseteq S
<1>1. Len(s) \in Nat /\ DOMAIN s = 1..Len(s) /\ \A i \in 1..Len(s) : s[i] \in S
  BY LenProperties, ElementOfSeq
<1> QED BY <1>1 DEF ToSet

(* Adding one. *)
LEMMA AppendSet ==
  ASSUME NEW S, NEW s \in Seq(S), NEW x \in S
  PROVE  Append(s, x) \in Seq(S) /\ ToSet(Append(s, x)) = ToSet(s) \cup {x}
<1> DEFINE n == Len(s)
           t == Append(s, x)
<1>1. /\ t \in Seq(S) /\ Len(t) = n + 1 /\ \A i \in 1..n : t[i] = s[i]
      /\ t[n + 1] = x
  BY AppendProperties
<1>2. n \in Nat /\ ToSet(s) = {s[i] : i \in 1..n}  BY InList
<1>3. ToSet(t) = {t[i] : i \in 1..n + 1}
  <2> HIDE DEF t, n
  <2> QED BY <1>1, InList
<1> HIDE DEF t, n
<1>4. \A i \in 1..n + 1 : i \in 1..n \/ i = n + 1  BY <1>2
<1>5. 1..n \subseteq 1..n + 1 /\ n + 1 \in 1..n + 1  BY <1>2
<1>6. ToSet(t) = ToSet(s) \cup {x}  BY <1>1, <1>2, <1>3, <1>4, <1>5
<1> QED BY <1>1, <1>6 DEF t

(* Putting two together. *)
LEMMA ConcatSet ==
  ASSUME NEW S, NEW s \in Seq(S), NEW t \in Seq(S)
  PROVE  s \o t \in Seq(S) /\ ToSet(s \o t) = ToSet(s) \cup ToSet(t)
<1> DEFINE m == Len(s)
           n == Len(t)
           r == s \o t
<1>1. /\ r \in Seq(S) /\ Len(r) = m + n
      /\ \A i \in 1..m + n : r[i] = IF i <= m THEN s[i] ELSE t[i - m]
  BY ConcatProperties
<1>2. m \in Nat /\ ToSet(s) = {s[i] : i \in 1..m}  BY InList
<1>3. n \in Nat /\ ToSet(t) = {t[i] : i \in 1..n}  BY InList
<1>4. ToSet(r) = {r[i] : i \in 1..m + n}
  <2> HIDE DEF r, m, n
  <2> QED BY <1>1, InList
<1> HIDE DEF r, m, n
<1>5. ASSUME NEW x \in ToSet(r) PROVE x \in ToSet(s) \cup ToSet(t)
  <2>1. PICK i \in 1..m + n : x = r[i]  BY <1>4
  <2>2. CASE i <= m
    <3>1. i \in 1..m /\ x = s[i]  BY <1>1, <1>2, <2>1, <2>2
    <3> QED BY <1>2, <3>1
  <2>3. CASE ~(i <= m)
    <3>1. i - m \in 1..n /\ x = t[i - m]  BY <1>1, <1>2, <1>3, <2>1, <2>3
    <3> QED BY <1>3, <3>1
  <2> QED BY <2>2, <2>3
<1>6. ASSUME NEW x \in ToSet(s) PROVE x \in ToSet(r)
  <2>1. PICK i \in 1..m : x = s[i]  BY <1>2
  <2>2. i \in 1..m + n /\ i <= m  BY <1>2, <1>3
  <2>3. r[i] = x  BY <1>1, <2>1, <2>2
  <2> QED BY <1>4, <2>2, <2>3
<1>7. ASSUME NEW x \in ToSet(t) PROVE x \in ToSet(r)
  <2>1. PICK i \in 1..n : x = t[i]  BY <1>3
  <2>2. m + i \in 1..m + n /\ ~(m + i <= m) /\ (m + i) - m = i  BY <1>2, <1>3
  <2>3. r[m + i] = x  BY <1>1, <2>1, <2>2
  <2> QED BY <1>4, <2>2, <2>3
<1>8. ToSet(r) = ToSet(s) \cup ToSet(t)  BY <1>5, <1>6, <1>7
<1> QED BY <1>1, <1>8 DEF r

(* What the recursion of Without makes of a list. *)
Rests(S, s, u) ==
  {rest \in [0..Len(s) -> Seq(S)] :
     /\ rest[0] = <<>>
     /\ \A i \in 1..Len(s) : rest[i] = IF s[i] = u THEN rest[i - 1]
                                       ELSE Append(rest[i - 1], s[i])}

(* PlayHideAction leaves what the recursion ends with. *)
LEMMA WithoutIs ==
  ASSUME NEW S, NEW s \in Seq(S), NEW u
  PROVE  \E rest \in Rests(S, s, u) : Without(s, u) = rest[Len(s)]
<1> DEFINE n == Len(s)
           Rec(f) == [i \in 0..n |-> IF i = 0 THEN <<>>
                                     ELSE IF s[i] = u THEN f[i - 1] ELSE Append(f[i - 1], s[i])]
           rest == CHOOSE f : f = Rec(f)
           next == [i \in 1..n |-> [t \in Seq(S) |-> IF s[i] = u THEN t ELSE Append(t, s[i])]]
<1>0. n \in Nat /\ <<>> \in Seq(S) /\ \A i \in 1..n : s[i] \in S
  BY LenProperties, EmptySeq, ElementOfSeq
<1>1. Without(s, u) = rest[n]  BY DEF Without
<1> HIDE DEF n
<1>2. next \in [1..n -> [Seq(S) -> Seq(S)]]
  <2>1. \A i \in 1..n, t \in Seq(S) : (IF s[i] = u THEN t ELSE Append(t, s[i])) \in Seq(S)
    BY <1>0, AppendProperties
  <2> QED BY <2>1
<1>3. PICK f \in [0..n -> Seq(S)] : f[0] = <<>> /\ \A i \in 1..n : f[i] = next[i][f[i - 1]]
  <2> DEFINE B == Seq(S)
             x == <<>>
  <2>1. n \in Nat /\ x \in B /\ next \in [1..n -> [B -> B]]  BY <1>0, <1>2
  <2> HIDE DEF next, B, x
  <2>2. PICK f : f \in ByRecursion(B, n, x, next)  BY <2>1, RecursionWorks
  <2> QED BY <2>2, Zenon DEF B, x, ByRecursion
<1>4. \A i \in 1..n : f[i] = IF s[i] = u THEN f[i - 1] ELSE Append(f[i - 1], s[i])
  <2> SUFFICES ASSUME NEW i \in 1..n
               PROVE  f[i] = IF s[i] = u THEN f[i - 1] ELSE Append(f[i - 1], s[i])
    OBVIOUS
  <2>1. f[i - 1] \in Seq(S)  BY <1>0
  <2> QED BY <1>3, <2>1
<1>5. f = Rec(f)
  <2>1. \A i \in 0..n : i = 0 \/ i \in 1..n  BY <1>0
  <2>2. \A i \in 0..n : f[i] = IF i = 0 THEN <<>> ELSE IF s[i] = u THEN f[i - 1]
                               ELSE Append(f[i - 1], s[i])
    BY <1>3, <1>4, <2>1, Zenon
  <2> QED BY <2>2
<1>6. rest = Rec(rest)  BY <1>5
<1>7. /\ rest[0] = <<>>
      /\ \A i \in 1..n : rest[i] = IF s[i] = u THEN rest[i - 1] ELSE Append(rest[i - 1], s[i])
  <2>1. \A i \in 0..n : Rec(rest)[i] = IF i = 0 THEN <<>> ELSE IF s[i] = u THEN rest[i - 1]
                                       ELSE Append(rest[i - 1], s[i])
    OBVIOUS
  <2> HIDE DEF rest, Rec
  <2>2. \A i \in 0..n : rest[i] = IF i = 0 THEN <<>> ELSE IF s[i] = u THEN rest[i - 1]
                                  ELSE Append(rest[i - 1], s[i])
    BY <1>6, <2>1
  <2> QED BY <1>0, <2>2
<1>8. f[n] = rest[n]
  <2> HIDE DEF rest
  <2>1. \A i \in 1..n : f[i - 1] = rest[i - 1] => f[i] = rest[i]
    BY <1>4, <1>7, Zenon
  <2>2. f[0] = rest[0]  BY <1>3, <1>7, Zenon
  <2>3. AgreeByStep(f, rest, n)  BY <2>1, <2>2, Zenon DEF AgreeByStep
  <2>4. \A i \in 0..n : f[i] = rest[i]  BY <1>0, <2>3, SameValues, Zenon
  <2> QED BY <1>0, <2>4
<1>9. f \in Rests(S, s, u)  BY <1>3, <1>4, Zenon DEF n, Rests
<1> QED BY <1>1, <1>8, <1>9 DEF n

(* What is left in the list, each once if it was there once. *)
Distinct(s) == \A i, j \in DOMAIN s : s[i] = s[j] => i = j

(* Removing an element. *)
LEMMA WithoutSet ==
  ASSUME NEW S, NEW s \in Seq(S), NEW u
  PROVE  Without(s, u) \in Seq(S) /\ ToSet(Without(s, u)) = ToSet(s) \ {u}
<1> DEFINE n == Len(s)
<1>0. n \in Nat /\ ToSet(s) = {s[i] : i \in 1..n} /\ \A i \in 1..n : s[i] \in S
  BY InList, ElementOfSeq
<1>1. PICK rest \in [0..n -> Seq(S)] :
        /\ rest[0] = <<>> /\ Without(s, u) = rest[n]
        /\ \A i \in 1..n : rest[i] = IF s[i] = u THEN rest[i - 1] ELSE Append(rest[i - 1], s[i])
  <2>1. PICK rest \in Rests(S, s, u) : Without(s, u) = rest[Len(s)]  BY WithoutIs
  <2> QED BY <2>1, Zenon DEF Rests
<1> HIDE DEF n
<1> DEFINE To(i) == {s[j] : j \in 1..i} \ {u}
           T == {i \in 0..n : ToSet(rest[i]) = To(i)}
<1>2. 0 \in T
  <2>1. ToSet(<<>>) = {}  BY DEF ToSet
  <2>2. To(0) = {}  OBVIOUS
  <2> HIDE DEF To
  <2>3. 0 \in 0..n  BY <1>0
  <2>4. ToSet(rest[0]) = To(0)  BY <1>1, <2>1, <2>2, Zenon
  <2> QED BY <2>3, <2>4
<1>3. ASSUME NEW i \in 1..n, i - 1 \in T PROVE i \in T
  <2>1. rest[i - 1] \in Seq(S) /\ s[i] \in S  BY <1>0
  <2>2. {s[j] : j \in 1..i} = {s[j] : j \in 1..i - 1} \cup {s[i]}
    <3>1. \A j \in 1..i : j \in 1..i - 1 \/ j = i  OBVIOUS
    <3>2. 1..i - 1 \subseteq 1..i /\ i \in 1..i  OBVIOUS
    <3> QED BY <3>1, <3>2
  <2>3. To(i) = To(i - 1) \cup ({s[i]} \ {u})  BY <2>2
  <2>4. ToSet(rest[i - 1]) = To(i - 1)  BY <1>3
  <2> HIDE DEF To
  <2>5. ToSet(rest[i]) = ToSet(rest[i - 1]) \cup ({s[i]} \ {u})
    <3>1. CASE s[i] = u  BY <1>1, <3>1
    <3>2. CASE s[i] # u
      <4>1. rest[i] = Append(rest[i - 1], s[i])  BY <1>1, <3>2
      <4> QED BY <2>1, <3>2, <4>1, AppendSet
    <3> QED BY <3>1, <3>2
  <2>6. ToSet(rest[i]) = To(i)  BY <2>3, <2>4, <2>5
  <2> QED BY <2>6
<1>4. T = 0..n
  <2>1. T \in SUBSET (0..n)  OBVIOUS
  <2> HIDE DEF T
  <2> QED BY <1>0, <1>2, <1>3, <2>1, Upward
<1>5. n \in 0..n  BY <1>0
<1>6. ToSet(rest[n]) = To(n) /\ rest[n] \in Seq(S)
  <2>1. n \in T  BY <1>4, <1>5
  <2> HIDE DEF To
  <2> QED BY <1>1, <1>5, <2>1
<1> QED BY <1>0, <1>1, <1>6

(* A list without repetitions, and one more. *)
LEMMA AppendDistinct ==
  ASSUME NEW S, NEW s \in Seq(S), Distinct(s), NEW x \in S, x \notin ToSet(s)
  PROVE  Distinct(Append(s, x))
<1> DEFINE n == Len(s)
           t == Append(s, x)
<1>1. /\ t \in Seq(S) /\ Len(t) = n + 1 /\ \A i \in 1..n : t[i] = s[i]
      /\ t[n + 1] = x
  BY AppendProperties
<1>2. n \in Nat /\ ToSet(s) = {s[i] : i \in 1..n} /\ DOMAIN s = 1..n  BY InList
<1>3. DOMAIN t = 1..n + 1
  <2> HIDE DEF t, n
  <2> QED BY <1>1, InList
<1> HIDE DEF t, n
<1>4. \A i \in 1..n + 1 : i \in 1..n \/ i = n + 1  BY <1>2
<1>5. \A i \in 1..n : s[i] # x  BY <1>2
<1>6. \A i, j \in 1..n : s[i] = s[j] => i = j  BY <1>2 DEF Distinct
<1>7. ASSUME NEW i \in 1..n + 1, NEW j \in 1..n + 1, t[i] = t[j] PROVE i = j
  BY <1>1, <1>4, <1>5, <1>6, <1>7
<1> QED BY <1>3, <1>7 DEF t, Distinct

(* A list without repetitions, and one fewer. *)
LEMMA WithoutDistinct ==
  ASSUME NEW S, NEW s \in Seq(S), Distinct(s), NEW u
  PROVE  Distinct(Without(s, u))
<1> DEFINE n == Len(s)
<1>0. n \in Nat /\ DOMAIN s = 1..n /\ \A i \in 1..n : s[i] \in S
  BY InList, ElementOfSeq
<1>1. PICK rest \in [0..n -> Seq(S)] :
        /\ rest[0] = <<>> /\ Without(s, u) = rest[n]
        /\ \A i \in 1..n : rest[i] = IF s[i] = u THEN rest[i - 1] ELSE Append(rest[i - 1], s[i])
  <2>1. PICK rest \in Rests(S, s, u) : Without(s, u) = rest[Len(s)]  BY WithoutIs
  <2> QED BY <2>1, Zenon DEF Rests
<1> HIDE DEF n
<1> DEFINE To(i) == {s[j] : j \in 1..i}
           T == {i \in 0..n : ToSet(rest[i]) \subseteq To(i) /\ Distinct(rest[i])}
<1>2. 0 \in T
  <2>1. ToSet(<<>>) = {} /\ Distinct(<<>>)  BY DEF ToSet, Distinct
  <2> HIDE DEF To
  <2> QED BY <1>0, <1>1, <2>1
<1>3. ASSUME NEW i \in 1..n, i - 1 \in T PROVE i \in T
  <2>1. rest[i - 1] \in Seq(S) /\ s[i] \in S  BY <1>0
  <2>2. To(i - 1) \subseteq To(i) /\ s[i] \in To(i)
    <3>1. 1..i - 1 \subseteq 1..i /\ i \in 1..i  OBVIOUS
    <3> QED BY <3>1
  <2>3. s[i] \notin To(i - 1)
    <3>1. \A j \in 1..i - 1 : j \in DOMAIN s /\ j # i  BY <1>0
    <3> QED BY <1>0, <3>1 DEF Distinct
  <2>4. ToSet(rest[i - 1]) \subseteq To(i - 1) /\ Distinct(rest[i - 1])  BY <1>3
  <2> HIDE DEF To
  <2>5. CASE s[i] = u
    <3>1. rest[i] = rest[i - 1]  BY <1>1, <2>5
    <3> QED BY <2>2, <2>4, <3>1
  <2>6. CASE s[i] # u
    <3>1. rest[i] = Append(rest[i - 1], s[i])  BY <1>1, <2>6
    <3>2. ToSet(rest[i]) = ToSet(rest[i - 1]) \cup {s[i]}  BY <2>1, <3>1, AppendSet
    <3>3. s[i] \notin ToSet(rest[i - 1])  BY <2>3, <2>4
    <3>4. Distinct(rest[i])  BY <2>1, <2>4, <3>1, <3>3, AppendDistinct
    <3> QED BY <2>2, <2>4, <3>2, <3>4
  <2> QED BY <2>5, <2>6
<1>4. T = 0..n
  <2>1. T \in SUBSET (0..n)  OBVIOUS
  <2> HIDE DEF T
  <2> QED BY <1>0, <1>2, <1>3, <2>1, Upward
<1>5. n \in 0..n  BY <1>0
<1>6. n \in T  BY <1>4, <1>5
<1> QED BY <1>1, <1>6

(* Some u stands after every v. *)
Above(q, u, v) == \E i \in DOMAIN q : q[i] = u /\ \A j \in DOMAIN q : q[j] = v => j < i

(* What is put last is above. *)
LEMMA AboveNew ==
  ASSUME NEW S, NEW s \in Seq(S), NEW u \in S, NEW v, u # v
  PROVE  Above(Append(s, u), u, v)
<1> DEFINE n == Len(s)
           t == Append(s, u)
<1>1. t \in Seq(S) /\ Len(t) = n + 1 /\ t[n + 1] = u  BY AppendProperties
<1>2. n \in Nat  BY InList
<1>3. DOMAIN t = 1..n + 1
  <2> HIDE DEF t, n
  <2> QED BY <1>1, InList
<1> HIDE DEF t, n
<1>4. \A j \in 1..n + 1 : t[j] = v => j < n + 1  BY <1>1, <1>2
<1>5. n + 1 \in 1..n + 1  BY <1>2
<1> QED BY <1>1, <1>3, <1>4, <1>5 DEF t, Above

(* And stays above whatever else is added. *)
LEMMA AboveAppend ==
  ASSUME NEW S, NEW s \in Seq(S), NEW x \in S, NEW u, NEW v, x # v, Above(s, u, v)
  PROVE  Above(Append(s, x), u, v)
<1> DEFINE n == Len(s)
           t == Append(s, x)
<1>1. /\ t \in Seq(S) /\ Len(t) = n + 1 /\ \A i \in 1..n : t[i] = s[i]
      /\ t[n + 1] = x
  BY AppendProperties
<1>2. n \in Nat /\ DOMAIN s = 1..n  BY InList
<1>3. DOMAIN t = 1..n + 1
  <2> HIDE DEF t, n
  <2> QED BY <1>1, InList
<1> HIDE DEF t, n
<1>4. PICK k \in 1..n : s[k] = u /\ \A j \in 1..n : s[j] = v => j < k
  BY <1>2 DEF Above
<1>5. \A j \in 1..n + 1 : j \in 1..n \/ j = n + 1  BY <1>2
<1>6. k \in 1..n + 1 /\ t[k] = u  BY <1>1, <1>2, <1>4
<1>7. \A j \in 1..n + 1 : t[j] = v => j < k  BY <1>1, <1>4, <1>5
<1> QED BY <1>3, <1>6, <1>7 DEF t, Above

(* And whatever else is removed. *)
LEMMA AboveWithout ==
  ASSUME NEW S, NEW s \in Seq(S), NEW u, NEW v, NEW w, w # u, Above(s, u, v)
  PROVE  Above(Without(s, w), u, v)
<1> DEFINE n == Len(s)
<1>0. n \in Nat /\ DOMAIN s = 1..n /\ \A i \in 1..n : s[i] \in S
  BY InList, ElementOfSeq
<1>1. PICK rest \in [0..n -> Seq(S)] :
        /\ rest[0] = <<>> /\ Without(s, w) = rest[n]
        /\ \A i \in 1..n : rest[i] = IF s[i] = w THEN rest[i - 1] ELSE Append(rest[i - 1], s[i])
  <2>1. PICK rest \in Rests(S, s, w) : Without(s, w) = rest[Len(s)]  BY WithoutIs
  <2> QED BY <2>1, Zenon DEF Rests
<1> HIDE DEF n
<1>2. PICK k \in 1..n : s[k] = u /\ \A j \in 1..n : s[j] = v => j < k
  BY <1>0 DEF Above
<1>3. u # v
  <2>1. ~(k < k)  BY <1>0
  <2> QED BY <1>2, <2>1
<1> DEFINE T == {i \in 0..n : k <= i => Above(rest[i], u, v)}
<1>4. 0 \in T  BY <1>0
<1>5. ASSUME NEW i \in 1..n, i - 1 \in T PROVE i \in T
  <2> SUFFICES ASSUME k <= i PROVE Above(rest[i], u, v)
    OBVIOUS
  <2>1. rest[i - 1] \in Seq(S) /\ s[i] \in S  BY <1>0
  <2>2. CASE i = k
    <3>1. rest[i] = Append(rest[i - 1], u) /\ u \in S  BY <1>1, <1>2, <2>1, <2>2
    <3> QED BY <1>3, <2>1, <3>1, AboveNew
  <2>3. CASE i # k
    <3>1. k <= i - 1 /\ ~(i < k)  BY <2>3
    <3>2. Above(rest[i - 1], u, v) /\ s[i] # v  BY <1>2, <1>5, <3>1
    <3>3. CASE s[i] = w
      <4>1. rest[i] = rest[i - 1]  BY <1>1, <3>3
      <4> QED BY <3>2, <4>1
    <3>4. CASE s[i] # w
      <4>1. rest[i] = Append(rest[i - 1], s[i])  BY <1>1, <3>4
      <4> QED BY <2>1, <3>2, <4>1, AboveAppend
    <3> QED BY <3>3, <3>4
  <2> QED BY <2>2, <2>3
<1>6. T = 0..n
  <2>1. T \in SUBSET (0..n)  OBVIOUS
  <2> HIDE DEF T
  <2> QED BY <1>0, <1>4, <1>5, <2>1, Upward
<1>7. n \in 0..n /\ k <= n  BY <1>0
<1>8. n \in T  BY <1>6, <1>7
<1> QED BY <1>1, <1>7, <1>8

(* The least of some positions. *)
LEMMA LowestIs ==
  ASSUME NEW S \in SUBSET Nat, S # {}
  PROVE  Lowest(S) \in S /\ \A j \in S : Lowest(S) <= j
<1>1. \E i \in S : \A j \in S : i <= j  BY Least
<1> QED BY <1>1 DEF Lowest

(* A list without the element at a position. *)
LEMMA Removed ==
  ASSUME NEW S, NEW s \in Seq(S), NEW k \in 1..Len(s)
  PROVE  /\ RemoveAt(s, k) \in Seq(S)
         /\ Len(RemoveAt(s, k)) = Len(s) - 1
         /\ \A j \in 1..(Len(s) - 1) : RemoveAt(s, k)[j] = IF j < k THEN s[j] ELSE s[j + 1]
<1> DEFINE n == Len(s)
           front == SubSeq(s, 1, k - 1)
           back == SubSeq(s, k + 1, n)
<1>1. n \in Nat /\ k \in 1..n /\ \A i \in 1..n : s[i] \in S  BY LenProperties, ElementOfSeq
<1>2. /\ front \in Seq(S) /\ Len(front) = k - 1
      /\ \A i \in 1..(k - 1) : front[i] = s[i]
  <2>1. /\ front \in Seq(S)
        /\ Len(front) = IF 1 <= k - 1 THEN k - 1 - 1 + 1 ELSE 0
        /\ \A i \in 1..(k - 1 - 1 + 1) : front[i] = s[1 + i - 1]
    BY <1>1, SubSeqProperties
  <2> HIDE DEF front, n
  <2> QED BY <1>1, <2>1
<1>3. /\ back \in Seq(S) /\ Len(back) = n - k
      /\ \A i \in 1..(n - k) : back[i] = s[k + i]
  <2>1. /\ back \in Seq(S)
        /\ Len(back) = IF k + 1 <= n THEN n - (k + 1) + 1 ELSE 0
        /\ \A i \in 1..(n - (k + 1) + 1) : back[i] = s[(k + 1) + i - 1]
    BY <1>1, SubSeqProperties
  <2> HIDE DEF back, n
  <2> QED BY <1>1, <2>1
<1>4. RemoveAt(s, k) = front \o back  BY DEF RemoveAt
<1> HIDE DEF front, back
<1>5. /\ front \o back \in Seq(S) /\ Len(front \o back) = (k - 1) + (n - k)
      /\ \A i \in 1..((k - 1) + (n - k)) :
           (front \o back)[i] = IF i <= k - 1 THEN front[i] ELSE back[i - (k - 1)]
  <2>1. /\ front \o back \in Seq(S) /\ Len(front \o back) = Len(front) + Len(back)
        /\ \A i \in 1..(Len(front) + Len(back)) :
             (front \o back)[i] = IF i <= Len(front) THEN front[i] ELSE back[i - Len(front)]
    BY <1>2, <1>3, ConcatProperties
  <2> QED BY <1>2, <1>3, <2>1
<1> HIDE DEF n
<1>6. ASSUME NEW j \in 1..(n - 1)
      PROVE  (front \o back)[j] = IF j < k THEN s[j] ELSE s[j + 1]
  <2>1. j \in 1..((k - 1) + (n - k))  BY <1>1
  <2>2. CASE j < k
    <3>1. j \in 1..(k - 1)  BY <1>1, <2>2
    <3> QED BY <1>2, <1>5, <2>1, <2>2, <3>1
  <2>3. CASE ~(j < k)
    <3>1. j - (k - 1) \in 1..(n - k) /\ ~(j <= k - 1) /\ k + (j - (k - 1)) = j + 1
      BY <1>1, <2>3
    <3> QED BY <1>3, <1>5, <2>1, <2>3, <3>1
  <2> QED BY <2>2, <2>3
<1>7. Len(front \o back) = n - 1  BY <1>1, <1>5
<1> QED BY <1>4, <1>5, <1>6, <1>7 DEF n

-----------------------------------------------------------------------------
(* Pages, whatever the number of copies of an element.                     *)

(* The objects of a page, which are numbered. *)
Object == [id : Uuids, copy : Nat, look : Looks]
Fits(s, copies) == \A i \in 1..Len(s) : s[i].copy \in 1..copies[s[i].id]
Single(s) == \A i, j \in 1..Len(s) : SameObject(s[i], s[j]) => i = j
Disjoint(s, t) == \A i \in 1..Len(s), j \in 1..Len(t) : ~SameObject(s[i], t[j])
Lists(drawn, undos, copies) ==
  /\ drawn \in Seq(Object) /\ undos \in Seq(Object) /\ copies \in [Uuids -> Nat]
  /\ Fits(drawn, copies) /\ Fits(undos, copies)
  /\ Single(drawn) /\ Single(undos) /\ Disjoint(drawn, undos)

PageRecords == [drawn : Seq(Object), undos : Seq(Object), copies : [Uuids -> Nat],
                found : [Uuids -> Nat], disabled : BOOLEAN]
FoundIs(found, copies) ==
  /\ found \in [Uuids -> Nat]
  /\ \A u \in Uuids : found[u] <= copies[u] /\ (found[u] = 0 => copies[u] = 0)
Shaped(p) ==
  p \in PageRecords /\ Lists(p.drawn, p.undos, p.copies) /\ FoundIs(p.found, p.copies)

(* A list of objects, seen from its elements. *)
LEMMA ObjectsAre ==
  ASSUME NEW s \in Seq(Object)
  PROVE  /\ Len(s) \in Nat /\ DOMAIN s = 1..Len(s)
         /\ \A i \in 1..Len(s) : s[i] \in Object /\ s[i].id \in Uuids /\ s[i].copy \in Nat
                                 /\ s[i].look \in Looks
<1>1. Len(s) \in Nat /\ DOMAIN s = 1..Len(s) /\ \A i \in 1..Len(s) : s[i] \in Object
  BY LenProperties, ElementOfSeq
<1> QED BY <1>1 DEF Object

(* With few enough copies such a page is one as the runs have it. *)
LEMMA ShapedIsPage ==
  ASSUME NEW p, Shaped(p), MaxCopies \in Nat, \A u \in Uuids : p.copies[u] <= MaxCopies
  PROVE  IsPage(p)
<1>1. p \in PageRecords /\ Lists(p.drawn, p.undos, p.copies) /\ FoundIs(p.found, p.copies)
  BY DEF Shaped
<1>2. /\ p = [drawn |-> p.drawn, undos |-> p.undos, copies |-> p.copies, found |-> p.found,
              disabled |-> p.disabled]
      /\ p.drawn \in Seq(Object) /\ p.undos \in Seq(Object) /\ p.copies \in [Uuids -> Nat]
      /\ p.found \in [Uuids -> Nat] /\ p.disabled \in BOOLEAN
  BY <1>1, Zenon DEF PageRecords
<1> DEFINE d == p.drawn
           z == p.undos
           c == p.copies
           f == p.found
<1>3. ASSUME NEW s \in Seq(Object), Fits(s, c)
      PROVE  s \in Seq(Element)
  <2>1. Len(s) \in Nat /\ DOMAIN s = 1..Len(s)  BY ObjectsAre
  <2>2. ASSUME NEW i \in 1..Len(s) PROVE s[i] \in Element
    <3>1. s[i] \in Object /\ s[i].id \in Uuids  BY ObjectsAre
    <3>2. s[i].copy \in 1..c[s[i].id] /\ c[s[i].id] \in Nat /\ c[s[i].id] <= MaxCopies
      BY <1>2, <1>3, <3>1 DEF Fits
    <3>3. s[i].copy \in 1..MaxCopies
      <4> DEFINE n == s[i].copy
                 m == c[s[i].id]
      <4>1. n \in 1..m /\ m \in Nat /\ m <= MaxCopies  BY <3>2
      <4> HIDE DEF n, m
      <4>2. n \in 1..MaxCopies  BY <4>1
      <4> QED BY <4>2 DEF n
    <3> QED BY <3>1, <3>3 DEF Object, Element
  <2>3. \A i \in 1..Len(s) : s[i] \in Element  BY <2>2
  <2>4. s = [i \in 1..Len(s) |-> s[i]]  BY <2>1
  <2> QED BY <2>1, <2>3, <2>4, IsASeq
<1>4. Fits(d, c) /\ Fits(z, c) /\ Single(d) /\ Single(z) /\ Disjoint(d, z)
  BY <1>1, Zenon DEF Lists
<1>5. d \in Seq(Element) /\ z \in Seq(Element)  BY <1>2, <1>3, <1>4
<1>6. DOMAIN d = 1..Len(d) /\ DOMAIN z = 1..Len(z)  BY <1>2, ObjectsAre
<1>7. NoneTwice(d) /\ NoneTwice(z) /\ \A i \in DOMAIN d, j \in DOMAIN z : ~SameObject(d[i], z[j])
  <2> HIDE DEF d, z
  <2> QED BY <1>4, <1>6, Zenon DEF Single, Disjoint, NoneTwice
<1>8. \A u \in Uuids : f[u] \in Nat /\ c[u] \in Nat /\ f[u] <= c[u] /\ (f[u] = 0 => c[u] = 0)
                       /\ c[u] <= MaxCopies
  BY <1>1, <1>2 DEF FoundIs
<1>9. c \in [Uuids -> 0..MaxCopies] /\ f \in [Uuids -> 0..MaxCopies]
  <2>1. \A u \in Uuids : f[u] \in 0..MaxCopies /\ c[u] \in 0..MaxCopies
    <3> HIDE DEF f, c
    <3> QED BY <1>8
  <2> QED BY <1>2, <2>1
<1>10. p \in PageSet  BY <1>2, <1>5, <1>9, Zenon DEF PageSet
<1> QED BY <1>7, <1>8, <1>10, Zenon DEF IsPage

(* A new object has a number of its own. *)
LEMMA ListsAppend ==
  ASSUME NEW d, NEW z, NEW c, Lists(d, z, c), NEW u \in Uuids, NEW look \in Looks
  PROVE  LET e == [id |-> u, copy |-> c[u] + 1, look |-> look]
         IN e \in Object /\ Lists(Append(d, e), z, [c EXCEPT ![u] = @ + 1])
<1> DEFINE e == [id |-> u, copy |-> c[u] + 1, look |-> look]
           t == Append(d, e)
           b == [c EXCEPT ![u] = @ + 1]
           n == Len(d)
<1>1. /\ d \in Seq(Object) /\ z \in Seq(Object) /\ c \in [Uuids -> Nat]
      /\ Fits(d, c) /\ Fits(z, c) /\ Single(d) /\ Single(z) /\ Disjoint(d, z)
  BY Zenon DEF Lists
<1>2. e \in Object /\ e.id = u /\ e.copy = c[u] + 1  BY <1>1 DEF Object
<1>3. b \in [Uuids -> Nat] /\ \A v \in Uuids : b[v] = IF v = u THEN c[u] + 1 ELSE c[v]
  BY <1>1
<1> HIDE DEF b, e
<1>4. /\ t \in Seq(Object) /\ Len(t) = n + 1 /\ \A i \in 1..n : t[i] = d[i]
      /\ t[n + 1] = e /\ n \in Nat
  BY <1>1, <1>2, AppendProperties, ObjectsAre
<1> HIDE DEF t
<1>5. ASSUME NEW s \in Seq(Object), Fits(s, c), NEW i \in 1..Len(s)
      PROVE  s[i].copy \in 1..b[s[i].id] /\ ~SameObject(s[i], e)
  <2> DEFINE v == s[i].id
             k == s[i].copy
  <2>1. v \in Uuids /\ k \in 1..c[v] /\ c[v] \in Nat  BY <1>1, <1>5, ObjectsAre DEF Fits
  <2>2. SameObject(s[i], e) => v = u /\ k = c[u] + 1  BY <1>2 DEF SameObject
  <2> HIDE DEF v, k
  <2>3. k \in 1..b[v] /\ ~(v = u /\ k = c[u] + 1)  BY <1>3, <2>1
  <2> QED BY <2>2, <2>3 DEF v, k
<1>6. \A i \in 1..n + 1 : i \in 1..n \/ i = n + 1  BY <1>4
<1>7. Fits(t, b)
  <2>1. e.copy \in 1..b[e.id]  BY <1>1, <1>2, <1>3
  <2>2. \A i \in 1..n : d[i].copy \in 1..b[d[i].id]  BY <1>1, <1>5
  <2>3. \A i \in 1..n + 1 : t[i].copy \in 1..b[t[i].id]  BY <1>4, <1>6, <2>1, <2>2, Zenon
  <2> QED BY <1>4, <2>3 DEF Fits
<1>8. Fits(z, b)  BY <1>1, <1>5 DEF Fits
<1>9. Single(t)
  <2>1. \A i \in 1..n : ~SameObject(d[i], e) /\ ~SameObject(e, d[i])
    BY <1>1, <1>5 DEF SameObject
  <2>2. \A i, j \in 1..n : SameObject(d[i], d[j]) => i = j  BY <1>1 DEF Single
  <2>3. ASSUME NEW i \in 1..n + 1, NEW j \in 1..n + 1, SameObject(t[i], t[j])
        PROVE  i = j
    BY <1>4, <1>6, <2>1, <2>2, <2>3, Zenon
  <2> QED BY <1>4, <2>3 DEF Single
<1>10. Disjoint(t, z)
  <2>1. \A j \in 1..Len(z) : ~SameObject(e, z[j])  BY <1>1, <1>5 DEF SameObject
  <2>2. \A i \in 1..n + 1, j \in 1..Len(z) : ~SameObject(t[i], z[j])
    BY <1>1, <1>4, <1>6, <2>1, Zenon DEF Disjoint
  <2> QED BY <1>4, <2>2 DEF Disjoint
<1>11. Lists(t, z, b)  BY <1>1, <1>3, <1>4, <1>7, <1>8, <1>9, <1>10, Zenon DEF Lists
<1> QED BY <1>2, <1>11 DEF t, b, e

(* One that is gone. *)
LEMMA ListsRemove ==
  ASSUME NEW d, NEW z, NEW c, Lists(d, z, c), NEW k \in 1..Len(d)
  PROVE  Lists(RemoveAt(d, k), z, c)
<1> DEFINE t == RemoveAt(d, k)
           n == Len(d)
           at(j) == IF j < k THEN j ELSE j + 1
<1>1. /\ d \in Seq(Object) /\ z \in Seq(Object) /\ c \in [Uuids -> Nat]
      /\ Fits(d, c) /\ Fits(z, c) /\ Single(d) /\ Single(z) /\ Disjoint(d, z)
  BY Zenon DEF Lists
<1>2. /\ t \in Seq(Object) /\ Len(t) = n - 1 /\ n \in Nat
      /\ \A j \in 1..n - 1 : t[j] = IF j < k THEN d[j] ELSE d[j + 1]
  BY <1>1, Removed, ObjectsAre
<1> HIDE DEF t
<1>3. \A j \in 1..n - 1 : t[j] = d[at(j)]  BY <1>2
<1>4. /\ \A j \in 1..n - 1 : at(j) \in 1..n
      /\ \A i, j \in 1..n - 1 : at(i) = at(j) => i = j
  BY <1>2
<1> HIDE DEF at
<1>5. Fits(t, c)
  <2>1. \A j \in 1..n - 1 : t[j].copy \in 1..c[t[j].id]  BY <1>1, <1>3, <1>4, Zenon DEF Fits
  <2> QED BY <1>2, <2>1 DEF Fits
<1>6. Single(t)
  <2>1. \A i, j \in 1..n - 1 : SameObject(t[i], t[j]) => at(i) = at(j)
    BY <1>1, <1>3, <1>4, Zenon DEF Single
  <2>2. \A i, j \in 1..n - 1 : SameObject(t[i], t[j]) => i = j  BY <1>4, <2>1, Zenon
  <2> QED BY <1>2, <2>2 DEF Single
<1>7. Disjoint(t, z)
  <2>1. \A i \in 1..n - 1, j \in 1..Len(z) : ~SameObject(t[i], z[j])
    BY <1>1, <1>3, <1>4, Zenon DEF Disjoint
  <2> QED BY <1>2, <2>1 DEF Disjoint
<1>8. Lists(t, z, c)  BY <1>1, <1>2, <1>5, <1>6, <1>7, Zenon DEF Lists
<1> QED BY <1>8 DEF t

(* Objects that only look different are the same. *)
SameButLook(s, t) ==
  /\ t \in Seq(Object) /\ Len(t) = Len(s)
  /\ \A i \in 1..Len(s) : t[i].id = s[i].id /\ t[i].copy = s[i].copy

(* What changes looks leaves the lists as good as they were. *)
LEMMA ListsLook ==
  ASSUME NEW d, NEW z, NEW c, Lists(d, z, c), NEW s, NEW t, SameButLook(d, s), SameButLook(z, t)
  PROVE  Lists(s, t, c)
<1>1. /\ d \in Seq(Object) /\ z \in Seq(Object) /\ c \in [Uuids -> Nat]
      /\ Fits(d, c) /\ Fits(z, c) /\ Single(d) /\ Single(z) /\ Disjoint(d, z)
  BY Zenon DEF Lists
<1>2. /\ s \in Seq(Object) /\ Len(s) = Len(d)
      /\ \A i \in 1..Len(d) : s[i].id = d[i].id /\ s[i].copy = d[i].copy
      /\ t \in Seq(Object) /\ Len(t) = Len(z)
      /\ \A i \in 1..Len(z) : t[i].id = z[i].id /\ t[i].copy = z[i].copy
  BY DEF SameButLook
<1>3. Fits(s, c) /\ Fits(t, c)  BY <1>1, <1>2 DEF Fits
<1>4. Single(s) /\ Single(t)  BY <1>1, <1>2 DEF Single, SameObject
<1>5. Disjoint(s, t)  BY <1>1, <1>2 DEF Disjoint, SameObject
<1> QED BY <1>1, <1>2, <1>3, <1>4, <1>5, Zenon DEF Lists

(* An empty page. *)
LEMMA ShapedEmpty == \A disabled \in BOOLEAN : Shaped(EmptyPage(disabled))
<1> SUFFICES ASSUME NEW disabled \in BOOLEAN PROVE Shaped(EmptyPage(disabled))
  OBVIOUS
<1> DEFINE c == [u \in Uuids |-> 0]
           p == EmptyPage(disabled)
<1>1. <<>> \in Seq(Object) /\ Len(<<>>) = 0  BY EmptySeq
<1>2. c \in [Uuids -> Nat] /\ \A u \in Uuids : c[u] = 0  OBVIOUS
<1>3. /\ p = [drawn |-> <<>>, undos |-> <<>>, copies |-> c, found |-> c, disabled |-> disabled]
      /\ p.drawn = <<>> /\ p.undos = <<>> /\ p.copies = c /\ p.found = c
  BY DEF EmptyPage
<1> HIDE DEF c, p
<1>4. p \in PageRecords  BY <1>1, <1>2, <1>3, Zenon DEF PageRecords
<1>5. Lists(<<>>, <<>>, c)  BY <1>1, <1>2 DEF Lists, Fits, Single, Disjoint
<1>6. FoundIs(c, c)  BY <1>2 DEF FoundIs
<1>7. Shaped(p)  BY <1>3, <1>4, <1>5, <1>6, Zenon DEF Shaped
<1> QED BY <1>7 DEF p

(* The parts of a page. *)
LEMMA PageParts ==
  ASSUME NEW p \in PageRecords
  PROVE  /\ p.drawn \in Seq(Object) /\ p.undos \in Seq(Object) /\ p.copies \in [Uuids -> Nat]
         /\ p.found \in [Uuids -> Nat] /\ p.disabled \in BOOLEAN
  BY DEF PageRecords

(* An element shown, here or by a peer. *)
LEMMA ShapedInsert ==
  ASSUME NEW p, Shaped(p), NEW u \in Uuids, NEW look \in Looks, NEW q \in Insert(p, u, look)
  PROVE  /\ Shaped(q) /\ q.copies = [p.copies EXCEPT ![u] = @ + 1] /\ q.disabled = p.disabled
         /\ q.undos = p.undos
<1> DEFINE e == [id |-> u, copy |-> p.copies[u] + 1, look |-> look]
           t == Append(p.drawn, e)
           c == [p.copies EXCEPT ![u] = @ + 1]
<1>1. p \in PageRecords /\ Lists(p.drawn, p.undos, p.copies) /\ FoundIs(p.found, p.copies)
  BY DEF Shaped
<1>2. /\ p.drawn \in Seq(Object) /\ p.undos \in Seq(Object) /\ p.copies \in [Uuids -> Nat]
      /\ p.found \in [Uuids -> Nat] /\ p.disabled \in BOOLEAN
  BY <1>1, PageParts
<1>3. e \in Object /\ Lists(t, p.undos, c)  BY <1>1, ListsAppend
<1>4. PICK f \in Addresses(p, u) : q = [p EXCEPT !.drawn = t, !.copies = c, !.found = f]
  <2>1. PICK f \in Addresses(p, u) :
          q = [p EXCEPT !.drawn = Append(@, [id |-> u, copy |-> NewCopy(p, u), look |-> look]),
                        !.copies[u] = @ + 1, !.found = f]
    BY DEF Insert
  <2>2. [p EXCEPT !.drawn = Append(@, [id |-> u, copy |-> NewCopy(p, u), look |-> look]),
                  !.copies[u] = @ + 1, !.found = f]
        = [p EXCEPT !.drawn = t, !.copies = c, !.found = f]
    BY DEF NewCopy
  <2> QED BY <2>1, <2>2
<1>5. PICK n \in {p.copies[u] + 1} \cup ({p.found[u]} \ {0}) : f = [p.found EXCEPT ![u] = n]
  BY <1>4 DEF Addresses, NewCopy
<1>6. FoundIs(f, c)
  <2>1. n \in Nat /\ n <= p.copies[u] + 1 /\ n # 0
    BY <1>1, <1>2, <1>5 DEF FoundIs
  <2> QED BY <1>1, <1>2, <1>5, <2>1 DEF FoundIs
<1>7. t \in Seq(Object) /\ c \in [Uuids -> Nat] /\ f \in [Uuids -> Nat]
  BY <1>3, <1>6 DEF Lists, FoundIs
<1> HIDE DEF t, c
<1>8. q \in PageRecords  BY <1>1, <1>4, <1>7 DEF PageRecords
<1>9. q.drawn = t /\ q.undos = p.undos /\ q.copies = c /\ q.found = f /\ q.disabled = p.disabled
  BY <1>1, <1>4 DEF PageRecords
<1>10. Shaped(q)  BY <1>3, <1>6, <1>8, <1>9, Zenon DEF Shaped
<1> QED BY <1>9, <1>10 DEF c

(* One hidden by a peer. *)
LEMMA ShapedHide ==
  ASSUME NEW p, Shaped(p), NEW u \in Uuids
  PROVE  /\ Shaped(PlayHide(p, u)) /\ PlayHide(p, u).copies = p.copies
         /\ PlayHide(p, u).disabled = p.disabled /\ PlayHide(p, u).undos = p.undos
<1>1. p \in PageRecords /\ Lists(p.drawn, p.undos, p.copies) /\ FoundIs(p.found, p.copies)
  BY DEF Shaped
<1>2. p.drawn \in Seq(Object)  BY <1>1, PageParts
<1>3. CASE FoundAt(p, u) = {}
  <2>1. PlayHide(p, u) = p  BY <1>3 DEF PlayHide
  <2> QED BY <2>1
<1>4. CASE FoundAt(p, u) # {}
  <2> DEFINE k == Lowest(FoundAt(p, u))
             t == RemoveAt(p.drawn, k)
             q == PlayHide(p, u)
  <2>1. FoundAt(p, u) \in SUBSET (1..Len(p.drawn))  BY <1>2, ObjectsAre DEF FoundAt
  <2>2. Len(p.drawn) \in Nat  BY <1>2, ObjectsAre
  <2>3. FoundAt(p, u) \in SUBSET Nat  BY <2>1, <2>2
  <2>4. k \in FoundAt(p, u)  BY <1>4, <2>3, LowestIs
  <2>5. k \in 1..Len(p.drawn)  BY <2>1, <2>4
  <2> HIDE DEF k
  <2>6. Lists(t, p.undos, p.copies)  BY <1>1, <2>5, ListsRemove
  <2>7. q = [p EXCEPT !.drawn = t]  BY <1>4 DEF PlayHide, k
  <2>8. t \in Seq(Object)  BY <2>6 DEF Lists
  <2> HIDE DEF t, q
  <2>9. q \in PageRecords  BY <1>1, <2>7, <2>8 DEF PageRecords
  <2>10. /\ q.drawn = t /\ q.undos = p.undos /\ q.copies = p.copies /\ q.found = p.found
         /\ q.disabled = p.disabled
    BY <1>1, <2>7 DEF PageRecords
  <2>11. Shaped(q)  BY <1>1, <2>6, <2>9, <2>10, Zenon DEF Shaped
  <2> QED BY <2>10, <2>11 DEF q
<1> QED BY <1>3, <1>4

(* One that a peer is to draw otherwise. *)
LEMMA ShapedLook ==
  ASSUME NEW p, Shaped(p), NEW u \in Uuids, NEW look \in Looks
  PROVE  /\ Shaped(PlaySetLook(p, u, look)) /\ PlaySetLook(p, u, look).copies = p.copies
         /\ PlaySetLook(p, u, look).disabled = p.disabled
<1> DEFINE changed(s) == [i \in DOMAIN s |-> IF IsCopy(s[i], u, p.found[u])
                                             THEN [s[i] EXCEPT !.look = look] ELSE s[i]]
           q == PlaySetLook(p, u, look)
<1>1. p \in PageRecords /\ Lists(p.drawn, p.undos, p.copies) /\ FoundIs(p.found, p.copies)
  BY DEF Shaped
<1>2. p.drawn \in Seq(Object) /\ p.undos \in Seq(Object)  BY <1>1, PageParts
<1>3. ASSUME NEW s \in Seq(Object)
      PROVE  SameButLook(s, changed(s))
  <2> DEFINE n == Len(s)
             t == changed(s)
  <2>1. n \in Nat /\ DOMAIN s = 1..n /\ \A i \in 1..n : s[i] \in Object  BY ObjectsAre
  <2>2. ASSUME NEW e \in Object
        PROVE  LET f == [e EXCEPT !.look = look]
               IN f \in Object /\ f.id = e.id /\ f.copy = e.copy
    BY DEF Object
  <2> HIDE DEF n
  <2>3. \A i \in 1..n : t[i] \in Object /\ t[i].id = s[i].id /\ t[i].copy = s[i].copy
    <3> SUFFICES ASSUME NEW i \in 1..n
                 PROVE  t[i] \in Object /\ t[i].id = s[i].id /\ t[i].copy = s[i].copy
      OBVIOUS
    <3>1. s[i] \in Object  BY <2>1
    <3>2. t[i] = IF IsCopy(s[i], u, p.found[u]) THEN [s[i] EXCEPT !.look = look] ELSE s[i]
      BY <2>1
    <3>3. LET f == [s[i] EXCEPT !.look = look]
          IN f \in Object /\ f.id = s[i].id /\ f.copy = s[i].copy
      BY <2>2, <3>1
    <3> HIDE DEF t
    <3> QED BY <3>1, <3>2, <3>3
  <2>4. t = [i \in 1..n |-> t[i]]  BY <2>1
  <2> HIDE DEF t
  <2>5. t \in Seq(Object) /\ Len(t) = n  BY <2>1, <2>3, <2>4, IsASeq, LenProperties
  <2>6. SameButLook(s, t)  BY <2>3, <2>5 DEF SameButLook, n
  <2> QED BY <2>6 DEF t
<1> DEFINE d == changed(p.drawn)
           z == changed(p.undos)
<1>4. q = [p EXCEPT !.drawn = d, !.undos = z]  BY DEF PlaySetLook
<1>5. SameButLook(p.drawn, d) /\ SameButLook(p.undos, z)  BY <1>2, <1>3
<1> HIDE DEF d, z, q
<1>6. Lists(d, z, p.copies)  BY <1>1, <1>5, ListsLook
<1>7. d \in Seq(Object) /\ z \in Seq(Object)  BY <1>6 DEF Lists
<1>8. q \in PageRecords  BY <1>1, <1>4, <1>7 DEF PageRecords
<1>9. /\ q.drawn = d /\ q.undos = z /\ q.copies = p.copies /\ q.found = p.found
      /\ q.disabled = p.disabled
  BY <1>1, <1>4 DEF PageRecords
<1>10. Shaped(q)  BY <1>1, <1>6, <1>8, <1>9, Zenon DEF Shaped
<1> QED BY <1>9, <1>10 DEF q

(* A page as it is sent: what its elements are and how they look. *)
Sent == [id : Uuids, look : Looks]

(* How often a uuid occurs. *)
LEMMA OccurrencesAre ==
  ASSUME NEW content \in Seq(Sent), NEW u
  PROVE  /\ \A i \in 0..Len(content) : Occurrences(content, u, i) \in Nat
         /\ \A i, j \in 0..Len(content) : i <= j =>
              Occurrences(content, u, i) <= Occurrences(content, u, j)
         /\ \A i, j \in 0..Len(content) : i < j /\ content[j].id = u =>
              Occurrences(content, u, i) < Occurrences(content, u, j)
<1> DEFINE n == Len(content)
           At(i) == {j \in 1..i : content[j].id = u}
<1>1. n \in Nat  BY LenProperties
<1>2. \A i : Occurrences(content, u, i) = Cardinality(At(i))  BY DEF Occurrences
<1>3. ASSUME NEW i \in 0..n PROVE IsFiniteSet(At(i)) /\ Cardinality(At(i)) \in Nat
  <2>1. i \in Nat  BY <1>1
  <2>2. IsFiniteSet(1..i)  BY <2>1, FS_Interval
  <2>3. At(i) \in SUBSET (1..i)  OBVIOUS
  <2> HIDE DEF At
  <2>4. IsFiniteSet(At(i))  BY <2>2, <2>3, FS_Subset
  <2> QED BY <2>4, FS_CardinalityType
<1>4. ASSUME NEW i \in 0..n, NEW j \in 0..n, i <= j
      PROVE  /\ Cardinality(At(i)) <= Cardinality(At(j))
             /\ i < j /\ content[j].id = u => Cardinality(At(i)) # Cardinality(At(j))
  <2>1. At(i) \in SUBSET At(j)  BY <1>1, <1>4
  <2>2. i < j /\ content[j].id = u => j \in At(j) /\ j \notin At(i)  BY <1>1
  <2>3. IsFiniteSet(At(j))  BY <1>3
  <2> HIDE DEF At
  <2> QED BY <2>1, <2>2, <2>3, FS_Subset
<1> HIDE DEF At, n
<1>5. \A i \in 0..n : Cardinality(At(i)) \in Nat  BY <1>3
<1>6. \A i, j \in 0..n : i <= j => Cardinality(At(i)) <= Cardinality(At(j))  BY <1>4
<1>7. \A i, j \in 0..n : i < j /\ content[j].id = u => Cardinality(At(i)) < Cardinality(At(j))
  <2> SUFFICES ASSUME NEW i \in 0..n, NEW j \in 0..n, i < j, content[j].id = u
               PROVE  Cardinality(At(i)) < Cardinality(At(j))
    OBVIOUS
  <2>1. i <= j  BY <1>1
  <2>2. Cardinality(At(i)) <= Cardinality(At(j)) /\ Cardinality(At(i)) # Cardinality(At(j))
    BY <1>4, <2>1
  <2> QED BY <1>5, <2>2
<1> QED BY <1>2, <1>5, <1>6, <1>7, Zenon DEF n

(* What is there at most once occurs at most once. *)
LEMMA OccursOnce ==
  ASSUME NEW content \in Seq(Sent), NEW u,
         \A i, j \in 1..Len(content) : content[i].id = content[j].id => i = j
  PROVE  Occurrences(content, u, Len(content)) <= 1
<1> DEFINE A == {j \in 1..Len(content) : content[j].id = u}
<1>1. Occurrences(content, u, Len(content)) = Cardinality(A)  BY DEF Occurrences
<1>2. CASE A = {}
  <2>1. Cardinality(A) = 0  BY <1>2, FS_EmptySet
  <2> QED BY <1>1, <2>1
<1>3. CASE A # {}
  <2>1. PICK j \in A : A = {j}  BY <1>3
  <2>2. Cardinality(A) = 1  BY <2>1, FS_Singleton
  <2> QED BY <1>1, <2>2
<1> QED BY <1>2, <1>3

(* What is made of a page that came. *)
LEMMA RemadeIs ==
  ASSUME NEW content \in Seq(Sent)
  PROVE  /\ Remade(content) \in Seq(Object) /\ Len(Remade(content)) = Len(content)
         /\ \A i \in 1..Len(content) :
              /\ Remade(content)[i].id = content[i].id
              /\ Remade(content)[i].look = content[i].look
              /\ Remade(content)[i].copy = Occurrences(content, content[i].id, i)
<1> DEFINE n == Len(content)
           t == Remade(content)
<1>1. n \in Nat /\ DOMAIN content = 1..n /\ \A i \in 1..n : content[i] \in Sent
  BY LenProperties, ElementOfSeq
<1>2. \A i \in 1..n : content[i].id \in Uuids /\ content[i].look \in Looks  BY <1>1 DEF Sent
<1>3. \A i \in 1..n : t[i] = [id |-> content[i].id, look |-> content[i].look,
                              copy |-> Occurrences(content, content[i].id, i)]
  BY <1>1 DEF Remade
<1>4. t = [i \in 1..n |-> t[i]]  BY <1>1 DEF Remade
<1>5. \A i \in 1..n : Occurrences(content, content[i].id, i) \in Nat
  <2> SUFFICES ASSUME NEW i \in 1..n PROVE Occurrences(content, content[i].id, i) \in Nat
    OBVIOUS
  <2> DEFINE u == content[i].id
  <2>1. i \in 0..n  BY <1>1
  <2>2. \A j \in 0..n : Occurrences(content, u, j) \in Nat  BY OccurrencesAre
  <2> QED BY <2>1, <2>2
<1> HIDE DEF t
<1> HIDE DEF n
<1>6. ASSUME NEW i \in 1..n
      PROVE  /\ t[i] \in Object /\ t[i].id = content[i].id /\ t[i].look = content[i].look
             /\ t[i].copy = Occurrences(content, content[i].id, i)
  <2> DEFINE u == content[i].id
             look == content[i].look
             k == Occurrences(content, u, i)
  <2>1. u \in Uuids /\ look \in Looks /\ k \in Nat  BY <1>2, <1>5
  <2>2. t[i] = [id |-> u, look |-> look, copy |-> k]  BY <1>3
  <2> HIDE DEF u, look, k
  <2>3. t[i] \in Object /\ t[i].id = u /\ t[i].look = look /\ t[i].copy = k
    BY <2>1, <2>2 DEF Object
  <2> QED BY <2>3 DEF u, look, k
<1>7. t \in Seq(Object) /\ Len(t) = n
  <2>1. [i \in 1..n |-> t[i]] \in Seq(Object)  BY <1>1, <1>6, IsASeq
  <2>2. DOMAIN t = 1..n  BY <1>4
  <2> QED BY <1>1, <1>4, <2>1, <2>2, LenProperties
<1> QED BY <1>6, <1>7, Zenon DEF t, n

(* A page filled anew is as a page should be, whatever it was. *)
LEMMA ShapedData ==
  ASSUME NEW p, Shaped(p), NEW content \in Seq(Sent), NEW q \in SetMsgPackData(p, content)
  PROVE  /\ Shaped(q) /\ q.drawn = Remade(content) /\ q.undos = <<>>
         /\ \A u \in Uuids : q.copies[u] = Occurrences(content, u, Len(content))
<1> DEFINE n == Len(content)
           t == Remade(content)
           c == [u \in Uuids |-> Occurrences(content, u, n)]
<1>1. p \in PageRecords  BY DEF Shaped
<1>2. n \in Nat /\ 0..n \subseteq Nat /\ n \in 0..n /\ \A i \in 1..n : content[i] \in Sent
  BY LenProperties, ElementOfSeq
<1>3. /\ t \in Seq(Object) /\ Len(t) = n
      /\ \A i \in 1..n : t[i].id = content[i].id
                         /\ t[i].copy = Occurrences(content, content[i].id, i)
  BY RemadeIs
<1>4. c \in [Uuids -> Nat] /\ \A u \in Uuids : c[u] = Occurrences(content, u, n)
  <2>1. \A u \in Uuids : Occurrences(content, u, n) \in Nat  BY <1>2, OccurrencesAre
  <2> QED BY <2>1
<1>5. PICK f \in [Uuids -> 0..MaxCopies] :
        /\ \A u \in Uuids : f[u] <= c[u] /\ (f[u] = 0 => c[u] = 0)
        /\ q = [p EXCEPT !.drawn = t, !.undos = <<>>, !.copies = c, !.found = f]
  BY DEF SetMsgPackData
<1> HIDE DEF t, c
<1>6. f \in [Uuids -> Nat]
  <2>1. \A k \in 0..MaxCopies : k \in Nat  OBVIOUS
  <2> QED BY <2>1
<1>7. \A i \in 1..n : t[i].id \in Uuids  BY <1>2, <1>3 DEF Sent
<1>8. Fits(t, c)
  <2> SUFFICES ASSUME NEW i \in 1..n PROVE t[i].copy \in 1..c[t[i].id]
    BY <1>3 DEF Fits
  <2> DEFINE u == content[i].id
  <2>1. i \in 0..n /\ i - 1 \in 0..n /\ i - 1 < i /\ i <= n  BY <1>2
  <2>2. /\ Occurrences(content, u, i) \in Nat /\ Occurrences(content, u, i - 1) \in Nat
        /\ Occurrences(content, u, n) \in Nat
        /\ Occurrences(content, u, i) <= Occurrences(content, u, n)
        /\ Occurrences(content, u, i - 1) < Occurrences(content, u, i)
    BY <1>2, <2>1, OccurrencesAre
  <2>3. Occurrences(content, u, i) \in 1..Occurrences(content, u, n)  BY <2>2
  <2>4. c[u] = Occurrences(content, u, n)  BY <1>3, <1>4, <1>7
  <2> QED BY <1>3, <2>3, <2>4
<1>9. Single(t)
  <2>1. ASSUME NEW i \in 1..n, NEW j \in 1..n, i < j, t[i].id = t[j].id PROVE t[i].copy # t[j].copy
    <3> DEFINE u == content[j].id
    <3>1. content[i].id = u  BY <1>3, <2>1
    <3>2. i \in 0..n /\ j \in 0..n  BY <1>2
    <3>3. /\ Occurrences(content, u, i) \in Nat /\ Occurrences(content, u, j) \in Nat
          /\ Occurrences(content, u, i) < Occurrences(content, u, j)
      BY <2>1, <3>2, OccurrencesAre
    <3>4. t[i].copy = Occurrences(content, u, i) /\ t[j].copy = Occurrences(content, u, j)
      BY <1>3, <3>1
    <3> HIDE DEF u
    <3> QED BY <3>3, <3>4
  <2>2. \A i, j \in 1..n : i = j \/ i < j \/ j < i  BY <1>2
  <2>3. \A i, j \in 1..n : SameObject(t[i], t[j]) => i = j  BY <2>1, <2>2 DEF SameObject
  <2> QED BY <1>3, <2>3 DEF Single
<1>10. <<>> \in Seq(Object) /\ Len(<<>>) = 0  BY EmptySeq
<1>11. Fits(<<>>, c) /\ Single(<<>>) /\ Disjoint(t, <<>>)  BY <1>10 DEF Fits, Single, Disjoint
<1>12. Lists(t, <<>>, c)  BY <1>3, <1>4, <1>8, <1>9, <1>10, <1>11, Zenon DEF Lists
<1>13. FoundIs(f, c)  BY <1>5, <1>6 DEF FoundIs
<1>14. /\ q \in PageRecords /\ q.drawn = t /\ q.undos = <<>> /\ q.copies = c /\ q.found = f
       /\ q.disabled = p.disabled
  BY <1>1, <1>3, <1>4, <1>5, <1>6, <1>10 DEF PageRecords
<1>15. Shaped(q)  BY <1>12, <1>13, <1>14, Zenon DEF Shaped
<1> QED BY <1>4, <1>14, <1>15, Zenon DEF t

-----------------------------------------------------------------------------
(* Lists of lists.                                                         *)

(* What the recursion of FlattenSeq makes. *)
Flats(S, ss) ==
  {f \in [1..Len(ss) -> Seq(S)] :
     \A i \in 1..Len(ss) : f[i] = IF i = 1 THEN ss[i] ELSE f[i - 1] \o ss[i]}

(* FlattenSeq is what it ends with. *)
LEMMA FlattenIs ==
  ASSUME NEW S, NEW ss \in Seq(Seq(S)), Len(ss) # 0
  PROVE  \E f \in Flats(S, ss) : FlattenSeq(ss) = f[Len(ss)]
<1> DEFINE n == Len(ss)
           Rec(f) == [i \in 1..n |-> IF i = 1 THEN ss[i] ELSE f[i - 1] \o ss[i]]
           flat == CHOOSE f : f = Rec(f)
           next == [i \in 1..n |-> [t \in Seq(S) |-> t \o ss[i]]]
<1>0. n \in Nat /\ n # 0 /\ <<>> \in Seq(S) /\ \A i \in 1..n : ss[i] \in Seq(S)
  BY LenProperties, EmptySeq, ElementOfSeq
<1>1. FlattenSeq(ss) = flat[n]  BY DEF FlattenSeq
<1> HIDE DEF n
<1>2. next \in [1..n -> [Seq(S) -> Seq(S)]]
  <2>1. \A i \in 1..n, t \in Seq(S) : t \o ss[i] \in Seq(S)  BY <1>0, ConcatProperties
  <2> QED BY <2>1
<1>3. PICK f \in [0..n -> Seq(S)] : f[0] = <<>> /\ \A i \in 1..n : f[i] = next[i][f[i - 1]]
  <2> DEFINE B == Seq(S)
             x == <<>>
  <2>1. n \in Nat /\ x \in B /\ next \in [1..n -> [B -> B]]  BY <1>0, <1>2
  <2> HIDE DEF next, B, x
  <2>2. PICK f : f \in ByRecursion(B, n, x, next)  BY <2>1, RecursionWorks
  <2> QED BY <2>2, Zenon DEF B, x, ByRecursion
<1>4. \A i \in 1..n : f[i] = IF i = 1 THEN ss[i] ELSE f[i - 1] \o ss[i]
  <2> SUFFICES ASSUME NEW i \in 1..n PROVE f[i] = IF i = 1 THEN ss[i] ELSE f[i - 1] \o ss[i]
    OBVIOUS
  <2>1. f[i - 1] \in Seq(S)  BY <1>0
  <2>2. f[i] = f[i - 1] \o ss[i]  BY <1>3, <2>1
  <2>3. CASE i = 1
    <3>1. f[i - 1] = <<>>  BY <1>3, <2>3
    <3>2. <<>> \o ss[i] = ss[i]  BY <1>0, ConcatEmptySeq
    <3> QED BY <2>2, <2>3, <3>1, <3>2
  <2> QED BY <2>2, <2>3
<1> DEFINE g == [i \in 1..n |-> f[i]]
<1>5. /\ g \in [1..n -> Seq(S)]
      /\ \A i \in 1..n : g[i] = IF i = 1 THEN ss[i] ELSE g[i - 1] \o ss[i]
  <2>1. g \in [1..n -> Seq(S)] /\ \A i \in 1..n : g[i] = f[i]  BY <1>0
  <2> HIDE DEF g
  <2> SUFFICES ASSUME NEW i \in 1..n PROVE g[i] = IF i = 1 THEN ss[i] ELSE g[i - 1] \o ss[i]
    BY <2>1
  <2>2. CASE i = 1  BY <1>4, <2>1, <2>2
  <2>3. CASE i # 1
    <3>1. i - 1 \in 1..n  BY <1>0, <2>3
    <3> QED BY <1>4, <2>1, <2>3, <3>1
  <2> QED BY <2>2, <2>3
<1>6. g = Rec(g)
  <2>1. Rec(g) = [i \in 1..n |-> g[i]]  BY <1>5
  <2> QED BY <2>1
<1>7. flat = Rec(flat)  BY <1>6
<1>8. \A i \in 1..n : flat[i] = IF i = 1 THEN ss[i] ELSE flat[i - 1] \o ss[i]
  <2>1. \A i \in 1..n : Rec(flat)[i] = IF i = 1 THEN ss[i] ELSE flat[i - 1] \o ss[i]
    OBVIOUS
  <2> HIDE DEF flat, Rec
  <2> QED BY <1>7, <2>1
<1>9. g[n] = flat[n]
  <2> HIDE DEF flat, g
  <2> DEFINE T == {i \in 0..n : i = 0 \/ g[i] = flat[i]}
  <2>1. T \in SUBSET (0..n) /\ 0 \in T  BY <1>0
  <2>2. ASSUME NEW i \in 1..n, i - 1 \in T PROVE i \in T
    <3>1. i - 1 = 0 \/ g[i - 1] = flat[i - 1]  BY <2>2
    <3>2. i \in 0..n  BY <1>0
    <3>3. g[i] = flat[i]
      <4>1. CASE i = 1  BY <1>5, <1>8, <4>1
      <4>2. CASE i # 1
        <5>1. g[i - 1] = flat[i - 1]  BY <3>1, <4>2
        <5> QED BY <1>5, <1>8, <4>2, <5>1, Zenon
      <4> QED BY <4>1, <4>2
    <3> QED BY <3>2, <3>3
  <2> HIDE DEF T
  <2>3. T = 0..n  BY <1>0, <2>1, <2>2, Upward
  <2>4. n \in T  BY <1>0, <2>3
  <2> QED BY <1>0, <2>4 DEF T
<1>10. g \in Flats(S, ss)
  <2> HIDE DEF g
  <2> QED BY <1>5, Zenon DEF n, Flats
<1> HIDE DEF g, flat
<1> QED BY <1>1, <1>9, <1>10 DEF n

(* It holds what the lists hold. *)
LEMMA FlattenedSet ==
  ASSUME NEW S, NEW ss \in Seq(Seq(S))
  PROVE  /\ FlattenSeq(ss) \in Seq(S)
         /\ ToSet(FlattenSeq(ss)) = UNION {ToSet(ss[i]) : i \in 1..Len(ss)}
<1> DEFINE n == Len(ss)
<1>0. n \in Nat /\ \A i \in 1..n : ss[i] \in Seq(S)  BY LenProperties, ElementOfSeq
<1>1. CASE n = 0
  <2>1. ss = <<>>  BY <1>1, EmptySeq
  <2>2. FlattenSeq(ss) = <<>>  BY <1>1, <2>1 DEF FlattenSeq
  <2>3. ToSet(<<>>) = {}  BY DEF ToSet
  <2>4. {ToSet(ss[i]) : i \in 1..n} = {}  BY <1>1
  <2> QED BY <2>2, <2>3, <2>4, EmptySeq
<1>2. CASE n # 0
  <2>1. PICK f \in Flats(S, ss) : FlattenSeq(ss) = f[n]  BY <1>2, FlattenIs
  <2>2. f \in [1..n -> Seq(S)] /\ \A i \in 1..n : f[i] = IF i = 1 THEN ss[i] ELSE f[i - 1] \o ss[i]
    BY <2>1, Zenon DEF Flats
  <2> HIDE DEF n
  <2> DEFINE To(i) == UNION {ToSet(ss[j]) : j \in 1..i}
             T == {i \in 0..n : i = 0 \/ ToSet(f[i]) = To(i)}
  <2>3. T \in SUBSET (0..n) /\ 0 \in T
    <3> HIDE DEF To
    <3> QED BY <1>0
  <2>4. ASSUME NEW i \in 1..n, i - 1 \in T PROVE i \in T
    <3>1. To(i) = To(i - 1) \cup ToSet(ss[i])
      <4>1. \A j \in 1..i : j \in 1..i - 1 \/ j = i  OBVIOUS
      <4>2. 1..i - 1 \subseteq 1..i /\ i \in 1..i  OBVIOUS
      <4> QED BY <4>1, <4>2
    <3>2. ss[i] \in Seq(S)  BY <1>0
    <3>3. ToSet(f[i]) = To(i)
      <4>1. CASE i = 1
        <5>1. f[i] = ss[i]  BY <2>2, <4>1
        <5>2. 1..i = {i}  BY <4>1
        <5>3. {ToSet(ss[j]) : j \in 1..i} = {ToSet(ss[i])}  BY <5>2
        <5> QED BY <5>1, <5>3
      <4>2. CASE i # 1
        <5>0. i - 1 \in 1..n  BY <1>0, <4>2
        <5>1. f[i] = f[i - 1] \o ss[i] /\ i - 1 \in 1..n  BY <2>2, <4>2, <5>0, Zenon
        <5>2. f[i - 1] \in Seq(S) /\ i - 1 # 0  BY <2>2, <5>1
        <5>3. ToSet(f[i]) = ToSet(f[i - 1]) \cup ToSet(ss[i])  BY <3>2, <5>1, <5>2, ConcatSet
        <5>4. ToSet(f[i - 1]) = To(i - 1)  BY <2>4, <5>2
        <5> HIDE DEF To
        <5> QED BY <3>1, <5>3, <5>4
      <4> QED BY <4>1, <4>2
    <3>4. i \in 0..n  BY <1>0
    <3> HIDE DEF To
    <3> QED BY <3>3, <3>4
  <2>5. T = 0..n
    <3> HIDE DEF T
    <3> QED BY <1>0, <2>3, <2>4, Upward
  <2>6. n \in 0..n /\ n \in 1..n  BY <1>0, <1>2
  <2>7. ToSet(f[n]) = To(n)
    <3>1. n \in T  BY <2>5, <2>6
    <3> HIDE DEF To
    <3> QED BY <1>2, <3>1
  <2> QED BY <2>1, <2>2, <2>6, <2>7 DEF n
<1> QED BY <1>1, <1>2

-----------------------------------------------------------------------------
(* Boards, and what one call makes of one.                                 *)

Peers == {p \in PageRecords : Shaped(p)}
Boards ==
  [added : [PageIds -> SUBSET Uuids],
   drawn : [PageIds -> Seq(Uuids)], look : [PageIds -> [Uuids -> Looks]],
   shown : [PageIds -> Seq(Uuids)], at : [PageIds -> [Uuids -> Looks]],
   peer : Peers, turning : BOOLEAN]

(* What a call uses: where the image is then, for the window or as it is.  *)
LooksFit == \A u \in Uuids : Look(place'[u], 0) \in Looks /\ Look(place'[u], size') \in Looks
Wanted(u) == Look(place'[u], size')

(* The parts of a board. *)
LEMMA BoardParts ==
  ASSUME NEW b \in Boards
  PROVE  /\ b.added \in [PageIds -> SUBSET Uuids]
         /\ b.drawn \in [PageIds -> Seq(Uuids)] /\ b.look \in [PageIds -> [Uuids -> Looks]]
         /\ b.shown \in [PageIds -> Seq(Uuids)] /\ b.at \in [PageIds -> [Uuids -> Looks]]
         /\ Shaped(b.peer) /\ b.turning \in BOOLEAN
  BY DEF Boards, Peers

(* A call for an image of a page leaves all else as it was.                *)
Elsewhere(b, e, p) == \A q \in PageIds \ {p} :
  /\ e.added[q] = b.added[q] /\ e.drawn[q] = b.drawn[q] /\ e.look[q] = b.look[q]
  /\ e.shown[q] = b.shown[q] /\ e.at[q] = b.at[q]
OnlyImage(b, e, p, u) ==
  /\ e \in Boards /\ e.turning = b.turning /\ Elsewhere(b, e, p)
  /\ \A v \in Uuids \ {u} : e.look[p][v] = b.look[p][v] /\ e.at[p][v] = b.at[p][v]

(* It makes this of the page's lists and of how the image looks.           *)
Makes5(b, e, p, u, added, drawn, shown, look, at) ==
  /\ OnlyImage(b, e, p, u)
  /\ e.added[p] = added /\ e.drawn[p] = drawn /\ e.shown[p] = shown
  /\ e.look[p][u] = look /\ e.at[p][u] = at

(* One call after another for the same image. *)
LEMMA OnlyImageTwice ==
  ASSUME NEW b, NEW c, NEW e, NEW p, NEW u, OnlyImage(b, c, p, u), OnlyImage(c, e, p, u)
  PROVE  OnlyImage(b, e, p, u)
  BY Zenon DEF OnlyImage, Elsewhere

(* What the peer does is none of the page's here. *)
LEMMA PeerPlaysIs ==
  ASSUME NEW b \in Boards, NEW p \in PageIds, NEW u \in Uuids,
         NEW S \in SUBSET Peers, NEW e \in PeerPlays(b, S)
  PROVE  Makes5(b, e, p, u, b.added[p], b.drawn[p], b.shown[p], b.look[p][u], b.at[p][u])
<1>1. e = b \/ \E q \in Peers : e = [b EXCEPT !.peer = q]
  BY DEF PeerPlays
<1>2. /\ e \in Boards /\ e.turning = b.turning /\ e.added = b.added /\ e.drawn = b.drawn
      /\ e.look = b.look /\ e.shown = b.shown /\ e.at = b.at
  BY <1>1 DEF Boards
<1> QED BY <1>2, Zenon DEF Makes5, OnlyImage, Elsewhere

(* OnAnimationShow. *)
LEMMA AnimationShowIs ==
  ASSUME NEW b \in Boards, NEW p \in PageIds, NEW u \in Uuids, NEW look \in Looks,
         NEW e \in OnAnimationShow(b, p, u, look)
  PROVE  Makes5(b, e, p, u, b.added[p], b.drawn[p],
                IF Live THEN b.shown[p] ELSE Append(b.shown[p], u), b.look[p][u], b.at[p][u])
<1>1. CASE Live
  <2>1. PlayNetworkShow(b.peer, u, look) \in SUBSET Peers
    <3> SUFFICES ASSUME NEW q \in Insert(b.peer, u, look) PROVE q \in Peers
      BY DEF PlayNetworkShow
    <3>1. Shaped(b.peer)  BY BoardParts
    <3>2. Shaped(q)  BY <3>1, ShapedInsert
    <3> QED BY <3>2 DEF Shaped, Peers
  <2>2. e \in PeerPlays(b, PlayNetworkShow(b.peer, u, look))  BY <1>1 DEF OnAnimationShow
  <2>3. Makes5(b, e, p, u, b.added[p], b.drawn[p], b.shown[p], b.look[p][u], b.at[p][u])
    BY <2>1, <2>2, PeerPlaysIs
  <2> QED BY <1>1, <2>3
<1>2. CASE ~Live
  <2> DEFINE s == Append(b.shown[p], u)
             t == [b.shown EXCEPT ![p] = s]
  <2>1. e = [b EXCEPT !.shown[p] = Append(@, u)]  BY <1>2 DEF OnAnimationShow
  <2>2. b.shown \in [PageIds -> Seq(Uuids)] /\ b.shown[p] \in Seq(Uuids)  BY BoardParts
  <2>3. s \in Seq(Uuids)  BY <2>2, AppendProperties
  <2>4. e = [b EXCEPT !.shown = t]  BY <2>1
  <2> HIDE DEF s
  <2>5. t \in [PageIds -> Seq(Uuids)] /\ t[p] = s
        /\ \A q \in PageIds \ {p} : t[q] = b.shown[q]
    BY <2>2, <2>3
  <2> HIDE DEF t
  <2>6. /\ e \in Boards /\ e.turning = b.turning /\ e.added = b.added /\ e.drawn = b.drawn
        /\ e.look = b.look /\ e.shown = t /\ e.at = b.at
    BY <2>4, <2>5 DEF Boards
  <2>7. Makes5(b, e, p, u, b.added[p], b.drawn[p], s, b.look[p][u], b.at[p][u])
    BY <2>5, <2>6, Zenon DEF Makes5, OnlyImage, Elsewhere
  <2> QED BY <1>2, <2>7 DEF s
<1> QED BY <1>1, <1>2

(* OnAnimationHide. *)
LEMMA AnimationHideIs ==
  ASSUME NEW b \in Boards, NEW p \in PageIds, NEW u \in Uuids, NEW e \in OnAnimationHide(b, p, u)
  PROVE  Makes5(b, e, p, u, b.added[p], b.drawn[p],
                IF Live THEN b.shown[p] ELSE Without(b.shown[p], u), b.look[p][u], b.at[p][u])
<1>1. CASE Live
  <2>1. {PlayHide(b.peer, u)} \in SUBSET Peers
    <3>1. Shaped(b.peer)  BY BoardParts
    <3>2. Shaped(PlayHide(b.peer, u))  BY <3>1, ShapedHide
    <3> QED BY <3>2 DEF Shaped, Peers
  <2>2. e \in PeerPlays(b, {PlayHide(b.peer, u)})  BY <1>1 DEF OnAnimationHide
  <2>3. Makes5(b, e, p, u, b.added[p], b.drawn[p], b.shown[p], b.look[p][u], b.at[p][u])
    BY <2>1, <2>2, PeerPlaysIs
  <2> QED BY <1>1, <2>3
<1>2. CASE ~Live
  <2> DEFINE s == Without(b.shown[p], u)
             t == [b.shown EXCEPT ![p] = s]
  <2>1. e = [b EXCEPT !.shown[p] = Without(@, u)]  BY <1>2 DEF OnAnimationHide
  <2>2. b.shown \in [PageIds -> Seq(Uuids)] /\ b.shown[p] \in Seq(Uuids)  BY BoardParts
  <2>3. s \in Seq(Uuids)  BY <2>2, WithoutSet
  <2>4. e = [b EXCEPT !.shown = t]  BY <2>1
  <2> HIDE DEF s
  <2>5. t \in [PageIds -> Seq(Uuids)] /\ t[p] = s
        /\ \A q \in PageIds \ {p} : t[q] = b.shown[q]
    BY <2>2, <2>3
  <2> HIDE DEF t
  <2>6. /\ e \in Boards /\ e.turning = b.turning /\ e.added = b.added /\ e.drawn = b.drawn
        /\ e.look = b.look /\ e.shown = t /\ e.at = b.at
    BY <2>4, <2>5 DEF Boards
  <2>7. Makes5(b, e, p, u, b.added[p], b.drawn[p], s, b.look[p][u], b.at[p][u])
    BY <2>5, <2>6, Zenon DEF Makes5, OnlyImage, Elsewhere
  <2> QED BY <1>2, <2>7 DEF s
<1> QED BY <1>1, <1>2

(* A look that is set on a page, and only there. *)
LEMMA LookSet ==
  ASSUME NEW f \in [PageIds -> [Uuids -> Looks]], NEW p \in PageIds, NEW u \in Uuids,
         NEW look \in Looks
  PROVE  LET g == [f EXCEPT ![p][u] = look]
         IN /\ g \in [PageIds -> [Uuids -> Looks]] /\ g[p][u] = look
            /\ \A v \in Uuids \ {u} : g[p][v] = f[p][v]
            /\ \A q \in PageIds \ {p} : g[q] = f[q]
  OBVIOUS

(* OnAnimationSize. *)
LEMMA AnimationSizeIs ==
  ASSUME NEW b \in Boards, NEW p \in PageIds, NEW u \in Uuids, NEW look \in Looks,
         NEW e \in OnAnimationSize(b, p, u, look)
  PROVE  Makes5(b, e, p, u, b.added[p], b.drawn[p], b.shown[p], b.look[p][u],
                IF Live THEN b.at[p][u] ELSE look)
<1>1. CASE Live
  <2>1. {PlaySetLook(b.peer, u, look)} \in SUBSET Peers
    <3>1. Shaped(b.peer)  BY BoardParts
    <3>2. Shaped(PlaySetLook(b.peer, u, look))  BY <3>1, ShapedLook
    <3> QED BY <3>2 DEF Shaped, Peers
  <2>2. e \in PeerPlays(b, {PlaySetLook(b.peer, u, look)})  BY <1>1 DEF OnAnimationSize
  <2>3. Makes5(b, e, p, u, b.added[p], b.drawn[p], b.shown[p], b.look[p][u], b.at[p][u])
    BY <2>1, <2>2, PeerPlaysIs
  <2> QED BY <1>1, <2>3
<1>2. CASE ~Live
  <2> DEFINE t == [b.at EXCEPT ![p][u] = look]
  <2>1. e = [b EXCEPT !.at[p][u] = look]  BY <1>2 DEF OnAnimationSize
  <2>2. b.at \in [PageIds -> [Uuids -> Looks]]  BY BoardParts
  <2>3. e = [b EXCEPT !.at = t]  BY <2>1
  <2>4. /\ t \in [PageIds -> [Uuids -> Looks]] /\ t[p][u] = look
        /\ \A v \in Uuids \ {u} : t[p][v] = b.at[p][v]
        /\ \A q \in PageIds \ {p} : t[q] = b.at[q]
    BY <2>2, LookSet
  <2> HIDE DEF t
  <2>5. /\ e \in Boards /\ e.turning = b.turning /\ e.added = b.added /\ e.drawn = b.drawn
        /\ e.look = b.look /\ e.shown = b.shown /\ e.at = t
    BY <2>3, <2>4 DEF Boards
  <2>6. Makes5(b, e, p, u, b.added[p], b.drawn[p], b.shown[p], b.look[p][u], look)
    BY <2>4, <2>5, Zenon DEF Makes5, OnlyImage, Elsewhere
  <2> QED BY <1>2, <2>6
<1> QED BY <1>1, <1>2

(* What one list becomes when the image joins the page's drawing.          *)
Joined(q, u) == IF u \in ToSet(q) THEN q ELSE Append(q, u)

(* A page's list of drawn images, changed. *)
LEMMA DrawnSet ==
  ASSUME NEW b \in Boards, NEW p \in PageIds, NEW u \in Uuids, NEW s \in Seq(Uuids)
  PROVE  Makes5(b, [b EXCEPT !.drawn[p] = s], p, u, b.added[p], s, b.shown[p], b.look[p][u],
                b.at[p][u])
<1> DEFINE t == [b.drawn EXCEPT ![p] = s]
           e == [b EXCEPT !.drawn[p] = s]
<1>1. b.drawn \in [PageIds -> Seq(Uuids)]  BY BoardParts
<1>2. e = [b EXCEPT !.drawn = t]  OBVIOUS
<1>3. t \in [PageIds -> Seq(Uuids)] /\ t[p] = s /\ \A q \in PageIds \ {p} : t[q] = b.drawn[q]
  BY <1>1
<1> HIDE DEF t, e
<1>4. /\ e \in Boards /\ e.turning = b.turning /\ e.added = b.added /\ e.drawn = t
      /\ e.look = b.look /\ e.shown = b.shown /\ e.at = b.at
  BY <1>2, <1>3 DEF Boards
<1>5. Makes5(b, e, p, u, b.added[p], s, b.shown[p], b.look[p][u], b.at[p][u])
  BY <1>3, <1>4, Zenon DEF Makes5, OnlyImage, Elsewhere
<1> QED BY <1>5 DEF e

(* A look, changed. *)
LEMMA LookChanged ==
  ASSUME NEW b \in Boards, NEW p \in PageIds, NEW u \in Uuids, NEW look \in Looks
  PROVE  Makes5(b, [b EXCEPT !.look[p][u] = look], p, u, b.added[p], b.drawn[p], b.shown[p],
                look, b.at[p][u])
<1> DEFINE t == [b.look EXCEPT ![p][u] = look]
           e == [b EXCEPT !.look[p][u] = look]
<1>1. b.look \in [PageIds -> [Uuids -> Looks]]  BY BoardParts
<1>2. e = [b EXCEPT !.look = t]  OBVIOUS
<1>3. /\ t \in [PageIds -> [Uuids -> Looks]] /\ t[p][u] = look
      /\ \A v \in Uuids \ {u} : t[p][v] = b.look[p][v]
      /\ \A q \in PageIds \ {p} : t[q] = b.look[q]
  BY <1>1, LookSet
<1> HIDE DEF t, e
<1>4. /\ e \in Boards /\ e.turning = b.turning /\ e.added = b.added /\ e.drawn = b.drawn
      /\ e.look = t /\ e.shown = b.shown /\ e.at = b.at
  BY <1>2, <1>3 DEF Boards
<1>5. Makes5(b, e, p, u, b.added[p], b.drawn[p], b.shown[p], look, b.at[p][u])
  BY <1>3, <1>4, Zenon DEF Makes5, OnlyImage, Elsewhere
<1> QED BY <1>5 DEF e

(* AddToDrawing. *)
LEMMA AddToDrawingIs ==
  ASSUME NEW b \in Boards, NEW p \in PageIds, NEW u \in Uuids
  PROVE  Makes5(b, AddToDrawing(b, p, u), p, u, b.added[p], Joined(b.drawn[p], u), b.shown[p],
                b.look[p][u], b.at[p][u])
<1>1. b.drawn[p] \in Seq(Uuids)  BY BoardParts
<1>2. Append(b.drawn[p], u) \in Seq(Uuids)  BY <1>1, AppendProperties
<1>3. CASE u \in ToSet(b.drawn[p])
  BY <1>3, Zenon DEF AddToDrawing, Joined, Makes5, OnlyImage, Elsewhere
<1>4. CASE u \notin ToSet(b.drawn[p])
  <2> DEFINE s == Append(b.drawn[p], u)
  <2>1. AddToDrawing(b, p, u) = [b EXCEPT !.drawn[p] = s]  BY <1>4 DEF AddToDrawing
  <2>2. Joined(b.drawn[p], u) = s  BY <1>4 DEF Joined
  <2> HIDE DEF s
  <2>3. s \in Seq(Uuids)  BY <1>2 DEF s
  <2>4. Makes5(b, [b EXCEPT !.drawn[p] = s], p, u, b.added[p], s, b.shown[p], b.look[p][u],
               b.at[p][u])
    BY <2>3, DrawnSet
  <2> QED BY <2>1, <2>2, <2>4
<1> QED BY <1>3, <1>4

(* AddToBanBase of an image that the page does not know. *)
LEMMA AddToBanBaseNew ==
  ASSUME NEW b \in Boards, NEW p \in PageIds, NEW u \in Uuids, LooksFit,
         u \notin b.added[p], NEW e \in AddToBanBase(b, p, u)
  PROVE  Makes5(b, e, p, u, b.added[p] \cup {u}, Append(b.drawn[p], u),
                IF Live THEN b.shown[p] ELSE Append(b.shown[p], u),
                Look(place'[u], 0), Look(place'[u], 0))
<1> DEFINE look == Look(place'[u], 0)
           c == [b EXCEPT !.added[p] = @ \cup {u}, !.drawn[p] = Append(@, u),
                          !.look[p][u] = look, !.at[p][u] = look]
           added == [b.added EXCEPT ![p] = @ \cup {u}]
           s == Append(b.drawn[p], u)
           drawn == [b.drawn EXCEPT ![p] = s]
           l == [b.look EXCEPT ![p][u] = look]
           at == [b.at EXCEPT ![p][u] = look]
<1>1. look \in Looks  BY DEF LooksFit
<1>2. e \in OnAnimationShow(c, p, u, look)  BY DEF AddToBanBase
<1>3. /\ b.added \in [PageIds -> SUBSET Uuids] /\ b.drawn \in [PageIds -> Seq(Uuids)]
      /\ b.look \in [PageIds -> [Uuids -> Looks]] /\ b.at \in [PageIds -> [Uuids -> Looks]]
      /\ b.drawn[p] \in Seq(Uuids)
  BY BoardParts
<1>4. s \in Seq(Uuids)  BY <1>3, AppendProperties
<1>5. c = [b EXCEPT !.added = added, !.drawn = drawn, !.look = l, !.at = at]  OBVIOUS
<1> HIDE DEF c, look, s
<1>6. /\ added \in [PageIds -> SUBSET Uuids] /\ added[p] = b.added[p] \cup {u}
      /\ \A q \in PageIds \ {p} : added[q] = b.added[q]
  BY <1>3
<1>7. /\ drawn \in [PageIds -> Seq(Uuids)] /\ drawn[p] = s
      /\ \A q \in PageIds \ {p} : drawn[q] = b.drawn[q]
  BY <1>3, <1>4
<1>8. /\ l \in [PageIds -> [Uuids -> Looks]] /\ l[p][u] = look
      /\ \A v \in Uuids \ {u} : l[p][v] = b.look[p][v]
      /\ \A q \in PageIds \ {p} : l[q] = b.look[q]
  BY <1>1, <1>3, LookSet
<1>9. /\ at \in [PageIds -> [Uuids -> Looks]] /\ at[p][u] = look
      /\ \A v \in Uuids \ {u} : at[p][v] = b.at[p][v]
      /\ \A q \in PageIds \ {p} : at[q] = b.at[q]
  BY <1>1, <1>3, LookSet
<1> HIDE DEF added, drawn, l, at
<1>10. /\ c \in Boards /\ c.turning = b.turning /\ c.added = added /\ c.drawn = drawn
       /\ c.look = l /\ c.shown = b.shown /\ c.at = at
  BY <1>5, <1>6, <1>7, <1>8, <1>9 DEF Boards
<1>11. Makes5(b, c, p, u, b.added[p] \cup {u}, s, b.shown[p], look, look)
  BY <1>6, <1>7, <1>8, <1>9, <1>10, Zenon DEF Makes5, OnlyImage, Elsewhere
<1>12. Makes5(c, e, p, u, c.added[p], c.drawn[p],
              IF Live THEN c.shown[p] ELSE Append(c.shown[p], u), c.look[p][u], c.at[p][u])
  BY <1>1, <1>2, <1>10, AnimationShowIs
<1>13. OnlyImage(b, e, p, u)  BY <1>11, <1>12, OnlyImageTwice DEF Makes5
<1>14. /\ e.added[p] = b.added[p] \cup {u} /\ e.drawn[p] = s
       /\ e.shown[p] = IF Live THEN b.shown[p] ELSE Append(b.shown[p], u)
       /\ e.look[p][u] = look /\ e.at[p][u] = look
  BY <1>11, <1>12, Zenon DEF Makes5
<1> QED BY <1>13, <1>14, Zenon DEF Makes5, s, look

(* AddToBanBase, for an image known or not. *)
LEMMA AddToBanBaseIs ==
  ASSUME NEW b \in Boards, NEW p \in PageIds, NEW u \in Uuids, LooksFit,
         NEW e \in AddToBanBase(b, p, u)
  PROVE  LET new == u \notin b.added[p]
         IN Makes5(b, e, p, u, b.added[p] \cup {u},
                   IF new THEN Append(b.drawn[p], u) ELSE Joined(b.drawn[p], u),
                   IF new /\ ~Live THEN Append(b.shown[p], u) ELSE b.shown[p],
                   IF new THEN Look(place'[u], 0) ELSE b.look[p][u],
                   IF new THEN Look(place'[u], 0) ELSE b.at[p][u])
<1>1. CASE u \notin b.added[p]
  <2>1. Makes5(b, e, p, u, b.added[p] \cup {u}, Append(b.drawn[p], u),
               IF Live THEN b.shown[p] ELSE Append(b.shown[p], u),
               Look(place'[u], 0), Look(place'[u], 0))
    BY <1>1, AddToBanBaseNew
  <2> QED BY <1>1, <2>1, Zenon
<1>2. CASE u \in b.added[p]
  <2>1. e = AddToDrawing(b, p, u)  BY <1>2 DEF AddToBanBase
  <2>2. b.added[p] \cup {u} = b.added[p]  BY <1>2
  <2>3. Makes5(b, e, p, u, b.added[p], Joined(b.drawn[p], u), b.shown[p], b.look[p][u],
               b.at[p][u])
    BY <2>1, AddToDrawingIs
  <2> QED BY <1>2, <2>2, <2>3, Zenon
<1> QED BY <1>1, <1>2


(* What a call does to the image on the page it is called for.             *)
DrawsIt(b, e, p, do, u) ==
  /\ do # "hide" => ToSet(e.drawn[p]) = ToSet(b.drawn[p]) \cup {u}
  /\ do = "hide" => ToSet(e.drawn[p]) = ToSet(b.drawn[p]) \ {u}
  /\ Distinct(b.drawn[p]) /\ ToSet(b.drawn[p]) \subseteq b.added[p] => Distinct(e.drawn[p])
ShowsIt(b, e, p, do, u) ==
  LET known == IF u \in b.added[p] THEN b.shown[p] ELSE Append(b.shown[p], u)
  IN e.shown[p] = IF Live THEN b.shown[p]
                  ELSE IF do = "show" THEN Append(b.shown[p], u)
                  ELSE IF do = "size" THEN known
                  ELSE Without(known, u)
PutsIt(b, e, p, do, u) ==
  /\ do = "size" => e.look[p][u] = Wanted(u) /\ (~Live => e.at[p][u] = Wanted(u))
  /\ do # "size" /\ u \in b.added[p] => e.look[p][u] = b.look[p][u] /\ e.at[p][u] = b.at[p][u]
Effect(b, e, p, do, u) ==
  /\ OnlyImage(b, e, p, u)
  /\ e.added[p] = b.added[p] \cup {u}
  /\ DrawsIt(b, e, p, do, u) /\ ShowsIt(b, e, p, do, u) /\ PutsIt(b, e, p, do, u)

(* A page's drawn images after AddToBanBase. *)
Known(q, added, u) == IF u \in added THEN Joined(q, u) ELSE Append(q, u)

(* What joining a drawing does to the images drawn. *)
LEMMA KnownIs ==
  ASSUME NEW q \in Seq(Uuids), NEW u \in Uuids, NEW added \in SUBSET Uuids
  PROVE  /\ Known(q, added, u) \in Seq(Uuids) /\ ToSet(Known(q, added, u)) = ToSet(q) \cup {u}
         /\ Distinct(q) /\ ToSet(q) \subseteq added => Distinct(Known(q, added, u))
<1> DEFINE r == Append(q, u)
<1>1. r \in Seq(Uuids) /\ ToSet(r) = ToSet(q) \cup {u}  BY AppendSet
<1>2. Distinct(q) /\ u \notin ToSet(q) => Distinct(r)  BY AppendDistinct
<1> HIDE DEF r
<1>3. CASE u \in added /\ u \in ToSet(q)
  <2>1. Known(q, added, u) = q  BY <1>3 DEF Known, Joined
  <2> QED BY <1>3, <2>1
<1>4. CASE u \in added /\ u \notin ToSet(q)
  <2>1. Known(q, added, u) = r  BY <1>4 DEF Known, Joined, r
  <2> QED BY <1>1, <1>2, <1>4, <2>1
<1>5. CASE u \notin added
  <2>1. Known(q, added, u) = r  BY <1>5 DEF Known, r
  <2> QED BY <1>1, <1>2, <1>5, <2>1
<1> QED BY <1>3, <1>4, <1>5

(* AddShowAction. *)
LEMMA ShowDoes ==
  ASSUME NEW b \in Boards, NEW p \in PageIds, NEW u \in Uuids, LooksFit,
         NEW e \in AddShowAction(b, p, u)
  PROVE  Effect(b, e, p, "show", u)
<1>1. b.drawn[p] \in Seq(Uuids) /\ b.added[p] \in SUBSET Uuids  BY BoardParts
<1> DEFINE new == u \notin b.added[p]
           d == Known(b.drawn[p], b.added[p], u)
<1>2. /\ ToSet(d) = ToSet(b.drawn[p]) \cup {u}
      /\ Distinct(b.drawn[p]) /\ ToSet(b.drawn[p]) \subseteq b.added[p] => Distinct(d)
  BY <1>1, KnownIs
<1>3. /\ OnlyImage(b, e, p, u) /\ e.added[p] = b.added[p] \cup {u} /\ e.drawn[p] = d
      /\ e.shown[p] = IF Live THEN b.shown[p] ELSE Append(b.shown[p], u)
      /\ ~new => e.look[p][u] = b.look[p][u] /\ e.at[p][u] = b.at[p][u]
  <2>1. CASE new
    <3>1. e \in AddToBanBase(b, p, u)  BY <2>1 DEF AddShowAction
    <3>2. Makes5(b, e, p, u, b.added[p] \cup {u}, Append(b.drawn[p], u),
                 IF Live THEN b.shown[p] ELSE Append(b.shown[p], u),
                 Look(place'[u], 0), Look(place'[u], 0))
      BY <2>1, <3>1, AddToBanBaseNew
    <3> QED BY <2>1, <3>2, Zenon DEF Makes5, Known
  <2>2. CASE ~new
    <3> DEFINE c == AddToDrawing(b, p, u)
               look == Look(place'[u], 0)
    <3>1. Makes5(b, c, p, u, b.added[p], Joined(b.drawn[p], u), b.shown[p], b.look[p][u],
                 b.at[p][u])
      BY AddToDrawingIs
    <3>2. e \in OnAnimationShow(c, p, u, look)  BY <2>2 DEF AddShowAction
    <3>3. look \in Looks  BY DEF LooksFit
    <3> HIDE DEF c, look
    <3>4. c \in Boards  BY <3>1 DEF Makes5, OnlyImage
    <3>5. Makes5(c, e, p, u, c.added[p], c.drawn[p],
                 IF Live THEN c.shown[p] ELSE Append(c.shown[p], u), c.look[p][u], c.at[p][u])
      BY <3>2, <3>3, <3>4, AnimationShowIs
    <3>6. OnlyImage(b, e, p, u)  BY <3>1, <3>5, OnlyImageTwice DEF Makes5
    <3>7. b.added[p] \cup {u} = b.added[p]  BY <2>2
    <3> QED BY <2>2, <3>1, <3>5, <3>6, <3>7, Zenon DEF Makes5, Known
  <2> QED BY <2>1, <2>2
<1> HIDE DEF d
<1>4. DrawsIt(b, e, p, "show", u)  BY <1>2, <1>3 DEF DrawsIt
<1>5. ShowsIt(b, e, p, "show", u)  BY <1>3 DEF ShowsIt
<1>6. PutsIt(b, e, p, "show", u)  BY <1>3 DEF PutsIt
<1> QED BY <1>3, <1>4, <1>5, <1>6 DEF Effect

(* AddSizeAction. *)
LEMMA SizeDoes ==
  ASSUME NEW b \in Boards, NEW p \in PageIds, NEW u \in Uuids, LooksFit,
         NEW e \in AddSizeAction(b, p, u)
  PROVE  Effect(b, e, p, "size", u)
<1>1. b.drawn[p] \in Seq(Uuids) /\ b.added[p] \in SUBSET Uuids  BY BoardParts
<1> DEFINE d == Known(b.drawn[p], b.added[p], u)
           look == Wanted(u)
<1>2. /\ ToSet(d) = ToSet(b.drawn[p]) \cup {u}
      /\ Distinct(b.drawn[p]) /\ ToSet(b.drawn[p]) \subseteq b.added[p] => Distinct(d)
  BY <1>1, KnownIs
<1>3. look \in Looks  BY DEF LooksFit, Wanted
<1>4. PICK c \in AddToBanBase(b, p, u) :
        e \in OnAnimationSize([c EXCEPT !.look[p][u] = look], p, u, look)
  BY DEF AddSizeAction, Wanted
<1> DEFINE g == [c EXCEPT !.look[p][u] = look]
<1>5. /\ OnlyImage(b, c, p, u) /\ c.added[p] = b.added[p] \cup {u} /\ c.drawn[p] = d
      /\ c.shown[p] = IF u \notin b.added[p] /\ ~Live THEN Append(b.shown[p], u) ELSE b.shown[p]
  <2>1. LET new == u \notin b.added[p]
        IN Makes5(b, c, p, u, b.added[p] \cup {u},
                  IF new THEN Append(b.drawn[p], u) ELSE Joined(b.drawn[p], u),
                  IF new /\ ~Live THEN Append(b.shown[p], u) ELSE b.shown[p],
                  IF new THEN Look(place'[u], 0) ELSE b.look[p][u],
                  IF new THEN Look(place'[u], 0) ELSE b.at[p][u])
    BY AddToBanBaseIs
  <2> QED BY <2>1, Zenon DEF Makes5, Known
<1> HIDE DEF look, d
<1>6. c \in Boards  BY <1>5 DEF OnlyImage
<1>7. Makes5(c, g, p, u, c.added[p], c.drawn[p], c.shown[p], look, c.at[p][u])
  BY <1>3, <1>6, LookChanged
<1>8. e \in OnAnimationSize(g, p, u, look)  BY <1>4
<1> HIDE DEF g
<1>9. g \in Boards  BY <1>7 DEF Makes5, OnlyImage
<1>10. Makes5(g, e, p, u, g.added[p], g.drawn[p], g.shown[p], g.look[p][u],
              IF Live THEN g.at[p][u] ELSE look)
  BY <1>3, <1>8, <1>9, AnimationSizeIs
<1>11. OnlyImage(b, g, p, u)  BY <1>5, <1>7, OnlyImageTwice DEF Makes5
<1>12. OnlyImage(b, e, p, u)  BY <1>10, <1>11, OnlyImageTwice DEF Makes5
<1>13. /\ e.added[p] = b.added[p] \cup {u} /\ e.drawn[p] = d
       /\ e.shown[p] = IF u \notin b.added[p] /\ ~Live THEN Append(b.shown[p], u) ELSE b.shown[p]
       /\ e.look[p][u] = look /\ (~Live => e.at[p][u] = look)
  BY <1>5, <1>7, <1>10, Zenon DEF Makes5
<1>14. DrawsIt(b, e, p, "size", u)  BY <1>2, <1>13 DEF DrawsIt
<1>15. ShowsIt(b, e, p, "size", u)  BY <1>13 DEF ShowsIt
<1>16. PutsIt(b, e, p, "size", u)  BY <1>13 DEF PutsIt, look
<1> QED BY <1>12, <1>13, <1>14, <1>15, <1>16 DEF Effect

(* HideImageElement. *)
LEMMA HideDoes ==
  ASSUME NEW b \in Boards, NEW p \in PageIds, NEW u \in Uuids, LooksFit,
         NEW e \in HideImageElement(b, p, u)
  PROVE  Effect(b, e, p, "hide", u)
<1>1. b.drawn[p] \in Seq(Uuids) /\ b.added[p] \in SUBSET Uuids  BY BoardParts
<1> DEFINE d == Known(b.drawn[p], b.added[p], u)
           w == Without(d, u)
<1>2. /\ d \in Seq(Uuids) /\ ToSet(d) = ToSet(b.drawn[p]) \cup {u}
      /\ Distinct(b.drawn[p]) /\ ToSet(b.drawn[p]) \subseteq b.added[p] => Distinct(d)
  BY <1>1, KnownIs
<1>3. /\ w \in Seq(Uuids) /\ ToSet(w) = ToSet(b.drawn[p]) \ {u}
      /\ Distinct(b.drawn[p]) /\ ToSet(b.drawn[p]) \subseteq b.added[p] => Distinct(w)
  <2> HIDE DEF d
  <2>1. w \in Seq(Uuids) /\ ToSet(w) = ToSet(d) \ {u}  BY <1>2, WithoutSet
  <2>2. Distinct(d) => Distinct(w)  BY <1>2, WithoutDistinct
  <2> QED BY <1>2, <2>1, <2>2
<1>4. PICK c \in AddToBanBase(b, p, u) :
        e \in OnAnimationHide([c EXCEPT !.drawn[p] = Without(@, u)], p, u)
  BY DEF HideImageElement
<1> DEFINE g == [c EXCEPT !.drawn[p] = w]
           s == IF u \notin b.added[p] /\ ~Live THEN Append(b.shown[p], u) ELSE b.shown[p]
<1>5. /\ OnlyImage(b, c, p, u) /\ c.added[p] = b.added[p] \cup {u} /\ c.drawn[p] = d
      /\ c.shown[p] = s
      /\ u \in b.added[p] => c.look[p][u] = b.look[p][u] /\ c.at[p][u] = b.at[p][u]
  <2>1. LET new == u \notin b.added[p]
        IN Makes5(b, c, p, u, b.added[p] \cup {u},
                  IF new THEN Append(b.drawn[p], u) ELSE Joined(b.drawn[p], u),
                  IF new /\ ~Live THEN Append(b.shown[p], u) ELSE b.shown[p],
                  IF new THEN Look(place'[u], 0) ELSE b.look[p][u],
                  IF new THEN Look(place'[u], 0) ELSE b.at[p][u])
    BY AddToBanBaseIs
  <2> QED BY <2>1, Zenon DEF Makes5, Known
<1> HIDE DEF d, s
<1>6. c \in Boards  BY <1>5 DEF OnlyImage
<1>7. [c EXCEPT !.drawn[p] = Without(@, u)] = g  BY <1>5
<1> HIDE DEF w
<1>8. Makes5(c, g, p, u, c.added[p], w, c.shown[p], c.look[p][u], c.at[p][u])
  BY <1>3, <1>6, DrawnSet
<1>9. e \in OnAnimationHide(g, p, u)  BY <1>4, <1>7
<1> HIDE DEF g
<1>10. g \in Boards  BY <1>8 DEF Makes5, OnlyImage
<1>11. Makes5(g, e, p, u, g.added[p], g.drawn[p],
              IF Live THEN g.shown[p] ELSE Without(g.shown[p], u), g.look[p][u], g.at[p][u])
  BY <1>9, <1>10, AnimationHideIs
<1>12. OnlyImage(b, g, p, u)  BY <1>5, <1>8, OnlyImageTwice DEF Makes5
<1>13. OnlyImage(b, e, p, u)  BY <1>11, <1>12, OnlyImageTwice DEF Makes5
<1>14. /\ e.added[p] = b.added[p] \cup {u} /\ e.drawn[p] = w
       /\ e.shown[p] = IF Live THEN s ELSE Without(s, u)
       /\ u \in b.added[p] => e.look[p][u] = b.look[p][u] /\ e.at[p][u] = b.at[p][u]
  BY <1>5, <1>8, <1>11, Zenon DEF Makes5
<1>15. DrawsIt(b, e, p, "hide", u)  BY <1>3, <1>14 DEF DrawsIt
<1>16. ShowsIt(b, e, p, "hide", u)  BY <1>14 DEF ShowsIt, s
<1>17. PutsIt(b, e, p, "hide", u)  BY <1>14 DEF PutsIt
<1> QED BY <1>13, <1>14, <1>15, <1>16, <1>17 DEF Effect

CallSet == [do : {"show", "size", "hide"}, image : Uuids]

(* Any call. *)
LEMMA CallDoes ==
  ASSUME NEW b \in Boards, NEW p \in PageIds, NEW c \in CallSet, LooksFit,
         NEW e \in Call(b, p, c)
  PROVE  Effect(b, e, p, c.do, c.image) /\ c.image \in Uuids /\ e \in Boards
<1>1. c.image \in Uuids /\ c.do \in {"show", "size", "hide"}  BY DEF CallSet
<1>2. Effect(b, e, p, c.do, c.image)
  <2>1. CASE c.do = "show"
    <3>1. e \in AddShowAction(b, p, c.image)  BY <2>1 DEF Call
    <3> QED BY <1>1, <2>1, <3>1, ShowDoes
  <2>2. CASE c.do = "size"
    <3>1. e \in AddSizeAction(b, p, c.image)  BY <2>2 DEF Call
    <3> QED BY <1>1, <2>2, <3>1, SizeDoes
  <2>3. CASE c.do = "hide"
    <3>1. e \in HideImageElement(b, p, c.image)  BY <2>3 DEF Call
    <3> QED BY <1>1, <2>3, <3>1, HideDoes
  <2> QED BY <1>1, <2>1, <2>2, <2>3
<1> QED BY <1>1, <1>2 DEF Effect, OnlyImage

-----------------------------------------------------------------------------
(* Calls made one after the other.                                         *)

(* What the recursion of Calls makes. *)
Afters(b, p, cs) ==
  {after \in [0..Len(cs) -> SUBSET Boards] :
     /\ after[0] = {b}
     /\ \A i \in 1..Len(cs) : after[i] = UNION {Call(c, p, cs[i]) : c \in after[i - 1]}}
After(b, p, cs) == CHOOSE after \in Afters(b, p, cs) : TRUE

(* Calls is what it ends with. *)
LEMMA CallsAre ==
  ASSUME NEW b \in Boards, NEW p \in PageIds, NEW cs \in Seq(CallSet), LooksFit
  PROVE  After(b, p, cs) \in Afters(b, p, cs) /\ Calls(b, p, cs) = After(b, p, cs)[Len(cs)]
<1> DEFINE n == Len(cs)
           Rec(f) == [i \in 0..n |-> IF i = 0 THEN {b} ELSE UNION {Call(c, p, cs[i]) : c \in f[i - 1]}]
           after == CHOOSE f : f = Rec(f)
           next == [i \in 1..n |-> [B \in SUBSET Boards |-> UNION {Call(c, p, cs[i]) : c \in B}]]
<1>0. n \in Nat /\ \A i \in 1..n : cs[i] \in CallSet  BY LenProperties, ElementOfSeq
<1>1. Calls(b, p, cs) = after[n]  BY DEF Calls
<1> HIDE DEF n
<1>2. next \in [1..n -> [SUBSET Boards -> SUBSET Boards]]
  <2>1. ASSUME NEW i \in 1..n, NEW B \in SUBSET Boards
        PROVE  UNION {Call(c, p, cs[i]) : c \in B} \in SUBSET Boards
    <3> SUFFICES ASSUME NEW c \in B, NEW e \in Call(c, p, cs[i]) PROVE e \in Boards
      OBVIOUS
    <3>1. c \in Boards /\ cs[i] \in CallSet  BY <1>0
    <3> QED BY <3>1, CallDoes
  <2> QED BY <2>1
<1>3. PICK f \in [0..n -> SUBSET Boards] : f[0] = {b} /\ \A i \in 1..n : f[i] = next[i][f[i - 1]]
  <2> DEFINE B == SUBSET Boards
             x == {b}
  <2>1. n \in Nat /\ x \in B /\ next \in [1..n -> [B -> B]]  BY <1>0, <1>2
  <2> HIDE DEF next, B, x
  <2>2. PICK f : f \in ByRecursion(B, n, x, next)  BY <2>1, RecursionWorks
  <2> QED BY <2>2, Zenon DEF B, x, ByRecursion
<1>4. \A i \in 1..n : f[i] = UNION {Call(c, p, cs[i]) : c \in f[i - 1]}
  <2> SUFFICES ASSUME NEW i \in 1..n PROVE f[i] = UNION {Call(c, p, cs[i]) : c \in f[i - 1]}
    OBVIOUS
  <2>1. f[i - 1] \in SUBSET Boards  BY <1>0
  <2> QED BY <1>3, <2>1
<1>5. f = Rec(f)
  <2>1. \A i \in 0..n : i = 0 \/ i \in 1..n  BY <1>0
  <2>2. \A i \in 0..n : f[i] = IF i = 0 THEN {b} ELSE UNION {Call(c, p, cs[i]) : c \in f[i - 1]}
    BY <1>3, <1>4, <2>1, Zenon
  <2> QED BY <2>2
<1>6. after = Rec(after)  BY <1>5
<1>7. after[0] = {b} /\ \A i \in 1..n : after[i] = UNION {Call(c, p, cs[i]) : c \in after[i - 1]}
  <2>1. \A i \in 0..n : Rec(after)[i] = IF i = 0 THEN {b}
                                        ELSE UNION {Call(c, p, cs[i]) : c \in after[i - 1]}
    OBVIOUS
  <2> HIDE DEF after, Rec
  <2>2. \A i \in 0..n : after[i] = IF i = 0 THEN {b}
                                   ELSE UNION {Call(c, p, cs[i]) : c \in after[i - 1]}
    BY <1>6, <2>1
  <2>3. 0 \in 0..n /\ \A i \in 1..n : i \in 0..n /\ i # 0  BY <1>0
  <2> QED BY <2>2, <2>3, Zenon
<1>8. \A g : /\ g[0] = {b}
             /\ \A i \in 1..n : g[i] = UNION {Call(c, p, cs[i]) : c \in g[i - 1]}
             => g[n] = f[n]
  <2> SUFFICES ASSUME NEW g, g[0] = {b},
                      \A i \in 1..n : g[i] = UNION {Call(c, p, cs[i]) : c \in g[i - 1]}
               PROVE  g[n] = f[n]
    OBVIOUS
  <2>1. \A i \in 1..n : g[i - 1] = f[i - 1] => g[i] = f[i]  BY <1>4, Zenon
  <2>2. g[0] = f[0]  BY <1>3, Zenon
  <2>3. AgreeByStep(g, f, n)  BY <2>1, <2>2, Zenon DEF AgreeByStep
  <2>4. \A i \in 0..n : g[i] = f[i]
    <3>1. n \in Nat  BY <1>0
    <3> QED BY <2>3, <3>1, SameValues
  <2>5. n \in 0..n  BY <1>0
  <2> QED BY <2>4, <2>5
<1>9. f \in Afters(b, p, cs)  BY <1>3, <1>4, Zenon DEF n, Afters
<1>10. After(b, p, cs) \in Afters(b, p, cs)  BY <1>9 DEF After
<1> DEFINE g == After(b, p, cs)
<1>11. g[0] = {b} /\ \A i \in 1..n : g[i] = UNION {Call(c, p, cs[i]) : c \in g[i - 1]}
  <2> HIDE DEF g
  <2>1. g \in Afters(b, p, cs)  BY <1>10 DEF g
  <2> QED BY <2>1, Zenon DEF Afters, n
<1> HIDE DEF after, g
<1>12. after[n] = f[n] /\ g[n] = f[n]  BY <1>7, <1>8, <1>11, Zenon
<1> QED BY <1>1, <1>10, <1>12 DEF g, n

(* It is some function of the right kind. *)
LEMMA AfterIs ==
  ASSUME NEW b \in Boards, NEW p \in PageIds, NEW cs \in Seq(CallSet), LooksFit
  PROVE  /\ After(b, p, cs) \in [0..Len(cs) -> SUBSET Boards] /\ After(b, p, cs)[0] = {b}
         /\ \A i \in 1..Len(cs) :
              After(b, p, cs)[i] = UNION {Call(c, p, cs[i]) : c \in After(b, p, cs)[i - 1]}
         /\ Calls(b, p, cs) = After(b, p, cs)[Len(cs)]
<1> DEFINE f == After(b, p, cs)
<1>1. f \in Afters(b, p, cs) /\ Calls(b, p, cs) = f[Len(cs)]  BY CallsAre
<1> HIDE DEF f
<1>2. /\ f \in [0..Len(cs) -> SUBSET Boards] /\ f[0] = {b}
      /\ \A i \in 1..Len(cs) : f[i] = UNION {Call(c, p, cs[i]) : c \in f[i - 1]}
  BY <1>1, Zenon DEF Afters
<1> QED BY <1>1, <1>2 DEF f

(* No call of cs leads out of S. *)
Closed(S, p, cs) == \A c \in ToSet(cs) : \A b \in S \cap Boards : Call(b, p, c) \subseteq S
Leads(S, T, p, c) == \A b \in S \cap Boards : Call(b, p, c) \subseteq T

(* What every call keeps holds in the end. *)
LEMMA CallsKeep ==
  ASSUME NEW S, NEW b \in Boards \cap S, NEW p \in PageIds, NEW cs \in Seq(CallSet), LooksFit,
         Closed(S, p, cs)
  PROVE  Calls(b, p, cs) \subseteq Boards \cap S
<1> DEFINE n == Len(cs)
           f == After(b, p, cs)
           T == {i \in 0..n : f[i] \subseteq S}
<1>1. n \in Nat /\ ToSet(cs) = {cs[i] : i \in 1..n}  BY InList
<1>2. /\ f \in [0..n -> SUBSET Boards] /\ f[0] = {b} /\ Calls(b, p, cs) = f[n]
      /\ \A i \in 1..n : f[i] = UNION {Call(c, p, cs[i]) : c \in f[i - 1]}
  BY AfterIs
<1> HIDE DEF n, f
<1>3. T \in SUBSET (0..n) /\ 0 \in T  BY <1>1, <1>2
<1>4. ASSUME NEW i \in 1..n, i - 1 \in T PROVE i \in T
  <2>1. f[i - 1] \subseteq S /\ f[i - 1] \subseteq Boards /\ i \in 0..n  BY <1>1, <1>2, <1>4
  <2>2. cs[i] \in ToSet(cs)  BY <1>1
  <2>3. \A c \in f[i - 1] : Call(c, p, cs[i]) \subseteq S  BY <2>1, <2>2 DEF Closed
  <2>4. f[i] = UNION {Call(c, p, cs[i]) : c \in f[i - 1]}  BY <1>2
  <2>5. f[i] \subseteq S  BY <2>3, <2>4, Zenon
  <2> QED BY <2>1, <2>5
<1>5. T = 0..n
  <2> HIDE DEF T
  <2> QED BY <1>1, <1>3, <1>4, Upward
<1>6. n \in 0..n  BY <1>1
<1>7. f[n] \subseteq S /\ f[n] \subseteq Boards  BY <1>2, <1>5, <1>6
<1> QED BY <1>2, <1>7

(* What one call brings about and every call keeps holds in the end. *)
LEMMA CallsReach ==
  ASSUME NEW S, NEW T, NEW b \in Boards \cap S, NEW p \in PageIds, NEW cs \in Seq(CallSet),
         LooksFit, Closed(S, p, cs), Closed(T, p, cs), NEW d \in ToSet(cs), Leads(S, T, p, d)
  PROVE  Calls(b, p, cs) \subseteq Boards \cap T
<1> DEFINE n == Len(cs)
           f == After(b, p, cs)
<1>1. n \in Nat /\ ToSet(cs) = {cs[i] : i \in 1..n}  BY InList
<1>2. /\ f \in [0..n -> SUBSET Boards] /\ f[0] = {b} /\ Calls(b, p, cs) = f[n]
      /\ \A i \in 1..n : f[i] = UNION {Call(c, p, cs[i]) : c \in f[i - 1]}
  BY AfterIs
<1> HIDE DEF n, f
<1>3. PICK k \in 1..n : cs[k] = d  BY <1>1
<1> DEFINE U == {i \in 0..n : IF i < k THEN f[i] \subseteq S ELSE f[i] \subseteq T}
<1>4. U \in SUBSET (0..n) /\ 0 \in U  BY <1>1, <1>2
<1>5. ASSUME NEW i \in 1..n, i - 1 \in U PROVE i \in U
  <2>1. f[i - 1] \subseteq Boards /\ i \in 0..n  BY <1>1, <1>2
  <2>2. cs[i] \in ToSet(cs)  BY <1>1
  <2>3. f[i] = UNION {Call(c, p, cs[i]) : c \in f[i - 1]}  BY <1>2
  <2>4. CASE i < k
    <3>1. f[i - 1] \subseteq S  BY <1>5, <2>4
    <3>2. \A c \in f[i - 1] : Call(c, p, cs[i]) \subseteq S  BY <2>1, <2>2, <3>1 DEF Closed
    <3>3. f[i] \subseteq S  BY <2>3, <3>2, Zenon
    <3> QED BY <2>1, <2>4, <3>3
  <2>5. CASE i = k
    <3>1. f[i - 1] \subseteq S  BY <1>5, <2>5
    <3>2. \A c \in f[i - 1] : Call(c, p, cs[i]) \subseteq T  BY <1>3, <2>1, <2>5, <3>1 DEF Leads
    <3>3. f[i] \subseteq T  BY <2>3, <3>2, Zenon
    <3> QED BY <2>1, <2>5, <3>3
  <2>6. CASE k < i
    <3>1. f[i - 1] \subseteq T  BY <1>5, <2>6
    <3>2. \A c \in f[i - 1] : Call(c, p, cs[i]) \subseteq T  BY <2>1, <2>2, <3>1 DEF Closed
    <3>3. f[i] \subseteq T  BY <2>3, <3>2, Zenon
    <3> QED BY <2>1, <2>6, <3>3
  <2> QED BY <2>4, <2>5, <2>6
<1>6. U = 0..n
  <2> HIDE DEF U
  <2> QED BY <1>1, <1>4, <1>5, Upward
<1>7. n \in 0..n /\ ~(n < k)  BY <1>1
<1>8. n \in U  BY <1>6, <1>7
<1>9. f[n] \subseteq T /\ f[n] \subseteq Boards  BY <1>2, <1>7, <1>8
<1> QED BY <1>2, <1>9

(* First these calls, then those. *)
LEMMA CallsTwice ==
  ASSUME NEW b \in Boards, NEW p \in PageIds, NEW c1 \in Seq(CallSet), NEW c2 \in Seq(CallSet),
         LooksFit, NEW e \in Calls(b, p, c1 \o c2)
  PROVE  \E c \in Calls(b, p, c1) : c \in Boards /\ e \in Calls(c, p, c2)
<1>0. PICK cs \in Seq(CallSet) : cs = c1 \o c2  BY ConcatProperties
<1> DEFINE m == Len(c1)
           n == Len(c2)
           f == After(b, p, cs)
           g == After(b, p, c1)
           h(c) == After(c, p, c2)
<1>1. /\ m \in Nat /\ n \in Nat /\ cs \in Seq(CallSet) /\ Len(cs) = m + n
      /\ \A i \in 1..m + n : cs[i] = IF i <= m THEN c1[i] ELSE c2[i - m]
  BY <1>0, ConcatProperties, InList
<1>2. /\ f \in [0..m + n -> SUBSET Boards] /\ f[0] = {b} /\ e \in f[m + n]
      /\ \A i \in 1..m + n : f[i] = UNION {Call(c, p, cs[i]) : c \in f[i - 1]}
  <2>1. Len(cs) = m + n /\ cs \in Seq(CallSet) /\ e \in Calls(b, p, cs)  BY <1>0, <1>1
  <2>2. /\ f \in [0..Len(cs) -> SUBSET Boards] /\ f[0] = {b} /\ Calls(b, p, cs) = f[Len(cs)]
        /\ \A i \in 1..Len(cs) : f[i] = UNION {Call(c, p, cs[i]) : c \in f[i - 1]}
    BY AfterIs
  <2> HIDE DEF f, m, n
  <2> QED BY <2>1, <2>2, Zenon
<1>3. /\ g \in [0..m -> SUBSET Boards] /\ g[0] = {b} /\ Calls(b, p, c1) = g[m]
      /\ \A i \in 1..m : g[i] = UNION {Call(c, p, c1[i]) : c \in g[i - 1]}
  BY AfterIs
<1>4. \A c \in Boards : /\ h(c)[0] = {c} /\ Calls(c, p, c2) = h(c)[n]
                        /\ \A i \in 1..n : h(c)[i] = UNION {Call(x, p, c2[i]) : x \in h(c)[i - 1]}
  BY AfterIs
<1> HIDE DEF m, n, f, g, h
<1>5. f[m] = g[m]
  <2>1. \A i \in 1..m : f[i - 1] = g[i - 1] => f[i] = g[i]
    <3> SUFFICES ASSUME NEW i \in 1..m PROVE f[i - 1] = g[i - 1] => f[i] = g[i]
      OBVIOUS
    <3>1. i \in 1..m + n /\ i <= m  BY <1>1
    <3>2. cs[i] = c1[i]  BY <1>1, <3>1
    <3>3. f[i] = UNION {Call(c, p, cs[i]) : c \in f[i - 1]}  BY <1>2, <3>1
    <3>4. g[i] = UNION {Call(c, p, c1[i]) : c \in g[i - 1]}  BY <1>3
    <3> QED BY <3>2, <3>3, <3>4, Zenon
  <2>2. AgreeByStep(f, g, m)  BY <1>2, <1>3, <2>1, Zenon DEF AgreeByStep
  <2>3. \A i \in 0..m : f[i] = g[i]
    <3>1. m \in Nat  BY <1>1
    <3> QED BY <2>2, <3>1, SameValues
  <2>4. m \in 0..m  BY <1>1
  <2> QED BY <2>3, <2>4
<1>6. g[m] \subseteq Boards
  <2>1. m \in 0..m  BY <1>1
  <2> QED BY <1>3, <2>1
<1> DEFINE Is(i) == \A x \in f[m + i] : \E c \in g[m] : x \in h(c)[i]
           T == {i \in 0..n : Is(i)}
<1>7. T \in SUBSET (0..n) /\ 0 \in T
  <2>1. Is(0)
    <3>1. m + 0 = m  BY <1>1
    <3>2. \A c \in g[m] : c \in h(c)[0]  BY <1>4, <1>6
    <3> QED BY <1>5, <3>1, <3>2
  <2> HIDE DEF Is
  <2> QED BY <1>1, <2>1
<1>8. ASSUME NEW i \in 1..n, i - 1 \in T PROVE i \in T
  <2>1. i \in 0..n /\ m + i \in 1..m + n /\ ~(m + i <= m) /\ (m + i) - m = i
        /\ (m + i) - 1 = m + (i - 1)
    BY <1>1
  <2>2. cs[m + i] = c2[i]  BY <1>1, <2>1
  <2>3. f[m + i] = UNION {Call(x, p, c2[i]) : x \in f[m + (i - 1)]}
    <3>1. f[m + i] = UNION {Call(x, p, cs[m + i]) : x \in f[(m + i) - 1]}  BY <1>2, <2>1
    <3> QED BY <2>1, <2>2, <3>1, Zenon
  <2>4. Is(i - 1)  BY <1>8
  <2>5. Is(i)
    <3> SUFFICES ASSUME NEW x \in f[m + i] PROVE \E c \in g[m] : x \in h(c)[i]
      OBVIOUS
    <3>1. PICK y \in f[m + (i - 1)] : x \in Call(y, p, c2[i])  BY <2>3
    <3>2. PICK c \in g[m] : y \in h(c)[i - 1]  BY <2>4, <3>1
    <3>3. h(c)[i] = UNION {Call(z, p, c2[i]) : z \in h(c)[i - 1]}  BY <1>4, <1>6, <3>2
    <3>4. x \in h(c)[i]  BY <3>1, <3>2, <3>3, Zenon
    <3> QED BY <3>2, <3>4
  <2> HIDE DEF Is
  <2> QED BY <2>1, <2>5
<1>9. T = 0..n
  <2> HIDE DEF T
  <2> QED BY <1>1, <1>7, <1>8, Upward
<1>10. n \in 0..n  BY <1>1
<1>11. Is(n)
  <2> HIDE DEF Is
  <2> QED BY <1>9, <1>10
<1>12. PICK c \in g[m] : e \in h(c)[n]  BY <1>2, <1>11
<1>13. c \in Calls(b, p, c1) /\ c \in Boards /\ e \in Calls(c, p, c2)
  BY <1>3, <1>4, <1>6, <1>12
<1> QED BY <1>13

-----------------------------------------------------------------------------
(* What the calls made for an image do to it: in a live class to the       *)
(* page's own elements, in a lesson to those that its player draws.        *)

Seen(b, p) == IF Live THEN ToSet(b.drawn[p]) ELSE ToSet(b.shown[p])
At(b, p, u) == IF Live THEN b.look[p][u] ELSE b.at[p][u]

(* One call. *)
LEMMA CallSees ==
  ASSUME NEW b \in Boards, NEW p \in PageIds, NEW c \in CallSet, LooksFit,
         NEW e \in Call(b, p, c)
  PROVE  /\ e.added[p] = b.added[p] \cup {c.image}
         /\ c.do = "show" => Seen(e, p) = Seen(b, p) \cup {c.image}
         /\ c.do = "hide" => Seen(e, p) = Seen(b, p) \ {c.image}
         /\ c.do = "size" => /\ Seen(b, p) \subseteq Seen(e, p)
                             /\ Seen(e, p) \subseteq Seen(b, p) \cup {c.image}
                             /\ At(e, p, c.image) = Wanted(c.image)
         /\ \A v \in Uuids \ {c.image} : At(e, p, v) = At(b, p, v)
         /\ c.do # "size" /\ c.image \in b.added[p] => At(e, p, c.image) = At(b, p, c.image)
<1> DEFINE u == c.image
           do == c.do
<1>1. Effect(b, e, p, do, u) /\ u \in Uuids /\ e \in Boards /\ do \in {"show", "size", "hide"}
  BY CallDoes DEF CallSet
<1> HIDE DEF u, do
<1>2. /\ OnlyImage(b, e, p, u) /\ e.added[p] = b.added[p] \cup {u}
      /\ DrawsIt(b, e, p, do, u) /\ ShowsIt(b, e, p, do, u) /\ PutsIt(b, e, p, do, u)
  BY <1>1 DEF Effect
<1>3. \A v \in Uuids \ {u} : At(e, p, v) = At(b, p, v)
  BY <1>2 DEF OnlyImage, At
<1>4. do = "size" => At(e, p, u) = Wanted(u)  BY <1>2 DEF PutsIt, At
<1>5. do # "size" /\ u \in b.added[p] => At(e, p, u) = At(b, p, u)
  BY <1>2 DEF PutsIt, At
<1>6. /\ do = "show" => Seen(e, p) = Seen(b, p) \cup {u}
      /\ do = "hide" => Seen(e, p) = Seen(b, p) \ {u}
      /\ do = "size" => /\ Seen(b, p) \subseteq Seen(e, p)
                        /\ Seen(e, p) \subseteq Seen(b, p) \cup {u}
  <2>1. CASE Live
    BY <1>2, <2>1 DEF DrawsIt, Seen
  <2>2. CASE ~Live
    <3> DEFINE s == b.shown[p]
               t == Append(s, u)
               known == IF u \in b.added[p] THEN s ELSE t
               w == Without(known, u)
    <3>1. s \in Seq(Uuids)  BY BoardParts
    <3>2. t \in Seq(Uuids) /\ ToSet(t) = ToSet(s) \cup {u}  BY <1>1, <3>1, AppendSet
    <3>3. known \in Seq(Uuids)  BY <3>1, <3>2
    <3>4. ToSet(known) = ToSet(s) \/ ToSet(known) = ToSet(s) \cup {u}  BY <3>2
    <3>5. e.shown[p] = IF do = "show" THEN t ELSE IF do = "size" THEN known ELSE w
      BY <1>2, <2>2 DEF ShowsIt
    <3> HIDE DEF known
    <3>6. ToSet(w) = ToSet(known) \ {u}  BY <3>3, WithoutSet
    <3> HIDE DEF s, t, w
    <3>7. Seen(e, p) = ToSet(e.shown[p]) /\ Seen(b, p) = ToSet(s)
      BY <2>2 DEF Seen, s
    <3> QED BY <1>1, <3>2, <3>4, <3>5, <3>6, <3>7
  <2> QED BY <2>1, <2>2
<1> QED BY <1>2, <1>3, <1>4, <1>5, <1>6 DEF u, do

(* A call is one to do something with an image. *)
LEMMA CallIs ==
  /\ \A c \in CallSet : c = Do(c.do, c.image) /\ c.image \in Uuids /\ c.do \in {"show", "size", "hide"}
  /\ \A do \in {"show", "size", "hide"}, u \in Uuids : Do(do, u) \in CallSet
  BY DEF CallSet, Do

(* Which of the calls are for an image. *)
IsShown(cs, u) == Do("show", u) \in ToSet(cs)
IsSized(cs, u) == Do("size", u) \in ToSet(cs)
IsHidden(cs, u) == Do("hide", u) \in ToSet(cs)

(* An image that is neither shown nor sized is not seen after the calls,   *)
(* if it was not seen before or is hidden.                                 *)
LEMMA NotSeenAfter ==
  ASSUME NEW b \in Boards, NEW p \in PageIds, NEW cs \in Seq(CallSet), LooksFit, NEW u \in Uuids,
         ~IsShown(cs, u), ~IsSized(cs, u), u \notin Seen(b, p) \/ IsHidden(cs, u),
         NEW e \in Calls(b, p, cs)
  PROVE  u \notin Seen(e, p)
<1> DEFINE T == {x \in Boards : u \notin Seen(x, p)}
<1>1. \A c \in ToSet(cs) : c \in CallSet /\ (c.image = u => c.do = "hide")
  BY InList, CallIs, Zenon DEF IsShown, IsSized
<1>2. Closed(T, p, cs)
  <2> SUFFICES ASSUME NEW c \in ToSet(cs), NEW x \in T, NEW y \in Call(x, p, c) PROVE y \in T
    BY DEF Closed
  <2>1. c \in CallSet /\ x \in Boards /\ u \notin Seen(x, p)  BY <1>1
  <2>2. y \in Boards  BY <2>1, CallDoes
  <2>3. u \notin Seen(y, p)
    <3>1. c.do = "hide" \/ (c.image # u /\ c.do \in {"show", "size", "hide"})  BY <1>1, CallIs
    <3> QED BY <2>1, <3>1, CallSees
  <2> QED BY <2>2, <2>3
<1>3. CASE u \notin Seen(b, p)
  <2>1. b \in Boards \cap T  BY <1>3
  <2> HIDE DEF T
  <2>2. e \in T  BY <1>2, <2>1, CallsKeep
  <2> QED BY <2>2 DEF T
<1>4. CASE IsHidden(cs, u)
  <2> DEFINE d == Do("hide", u)
  <2>1. d \in ToSet(cs) /\ d \in CallSet /\ d.do = "hide" /\ d.image = u
    BY <1>4, CallIs DEF IsHidden, Do
  <2> HIDE DEF d
  <2>2. Closed(Boards, p, cs)  BY <1>1, CallDoes DEF Closed
  <2>3. Leads(Boards, T, p, d)
    <3> SUFFICES ASSUME NEW x \in Boards, NEW y \in Call(x, p, d) PROVE y \in T
      BY DEF Leads
    <3>1. y \in Boards  BY <2>1, CallDoes
    <3>2. u \notin Seen(y, p)  BY <2>1, CallSees
    <3> QED BY <3>1, <3>2
  <2> DEFINE S == Boards
  <2> HIDE DEF T, S
  <2>4. b \in Boards \cap S /\ Closed(S, p, cs) /\ Leads(S, T, p, d)  BY <2>2, <2>3 DEF S
  <2>5. e \in T  BY <1>2, <2>1, <2>4, CallsReach
  <2> QED BY <2>5 DEF T
<1> QED BY <1>3, <1>4

(* An image that is not hidden is seen after the calls, if it was seen     *)
(* before or is shown.                                                     *)
LEMMA SeenAfter ==
  ASSUME NEW b \in Boards, NEW p \in PageIds, NEW cs \in Seq(CallSet), LooksFit, NEW u \in Uuids,
         ~IsHidden(cs, u), u \in b.added[p] \cap Seen(b, p) \/ IsShown(cs, u),
         NEW e \in Calls(b, p, cs)
  PROVE  u \in e.added[p] \cap Seen(e, p)
<1> DEFINE T == {x \in Boards : u \in x.added[p] \cap Seen(x, p)}
<1>1. \A c \in ToSet(cs) : c \in CallSet /\ (c.image = u => c.do # "hide")
  BY InList, CallIs, Zenon DEF IsHidden
<1>2. Closed(T, p, cs)
  <2> SUFFICES ASSUME NEW c \in ToSet(cs), NEW x \in T, NEW y \in Call(x, p, c) PROVE y \in T
    BY DEF Closed
  <2>1. c \in CallSet /\ x \in Boards /\ u \in x.added[p] /\ u \in Seen(x, p)  BY <1>1
  <2>2. y \in Boards  BY <2>1, CallDoes
  <2>3. u \in y.added[p] /\ u \in Seen(y, p)
    <3>1. c.do \in {"show", "size", "hide"} /\ (c.do = "hide" => c.image # u)  BY <1>1, CallIs
    <3> QED BY <2>1, <3>1, CallSees
  <2> QED BY <2>2, <2>3
<1>3. CASE u \in b.added[p] \cap Seen(b, p)
  <2>1. b \in Boards \cap T  BY <1>3
  <2> HIDE DEF T
  <2>2. e \in T  BY <1>2, <2>1, CallsKeep
  <2> QED BY <2>2 DEF T
<1>4. CASE IsShown(cs, u)
  <2> DEFINE d == Do("show", u)
  <2>1. d \in ToSet(cs) /\ d \in CallSet /\ d.do = "show" /\ d.image = u
    BY <1>4, CallIs DEF IsShown, Do
  <2> HIDE DEF d
  <2>2. Closed(Boards, p, cs)  BY <1>1, CallDoes DEF Closed
  <2>3. Leads(Boards, T, p, d)
    <3> SUFFICES ASSUME NEW x \in Boards, NEW y \in Call(x, p, d) PROVE y \in T
      BY DEF Leads
    <3>1. y \in Boards  BY <2>1, CallDoes
    <3>2. u \in y.added[p] /\ u \in Seen(y, p)  BY <2>1, CallSees
    <3> QED BY <3>1, <3>2
  <2> DEFINE S == Boards
  <2> HIDE DEF T, S
  <2>4. b \in Boards \cap S /\ Closed(S, p, cs) /\ Leads(S, T, p, d)  BY <2>2, <2>3 DEF S
  <2>5. e \in T  BY <1>2, <2>1, <2>4, CallsReach
  <2> QED BY <2>5 DEF T
<1> QED BY <1>3, <1>4

(* An image is where it is wanted after the calls, if it was there before  *)
(* or is sized.                                                            *)
LEMMA PutAfter ==
  ASSUME NEW b \in Boards, NEW p \in PageIds, NEW cs \in Seq(CallSet), LooksFit, NEW u \in Uuids,
         (u \in b.added[p] /\ At(b, p, u) = Wanted(u)) \/ IsSized(cs, u),
         NEW e \in Calls(b, p, cs)
  PROVE  u \in e.added[p] /\ At(e, p, u) = Wanted(u)
<1> DEFINE T == {x \in Boards : u \in x.added[p] /\ At(x, p, u) = Wanted(u)}
<1>1. \A c \in ToSet(cs) : c \in CallSet  BY InList
<1>2. Closed(T, p, cs)
  <2> SUFFICES ASSUME NEW c \in ToSet(cs), NEW x \in T, NEW y \in Call(x, p, c) PROVE y \in T
    BY DEF Closed
  <2>1. c \in CallSet /\ x \in Boards /\ u \in x.added[p] /\ At(x, p, u) = Wanted(u)  BY <1>1
  <2>2. y \in Boards  BY <2>1, CallDoes
  <2>3. u \in y.added[p] /\ At(y, p, u) = Wanted(u)
    <3>1. CASE c.image # u  BY <2>1, <3>1, CallSees
    <3>2. CASE c.image = u
      <4>1. c.do = "size" \/ c.do # "size"  OBVIOUS
      <4> QED BY <2>1, <3>2, <4>1, CallSees
    <3> QED BY <3>1, <3>2
  <2> QED BY <2>2, <2>3
<1>3. CASE u \in b.added[p] /\ At(b, p, u) = Wanted(u)
  <2>1. b \in Boards \cap T  BY <1>3
  <2> HIDE DEF T
  <2>2. e \in T  BY <1>2, <2>1, CallsKeep
  <2> QED BY <2>2 DEF T
<1>4. CASE IsSized(cs, u)
  <2> DEFINE d == Do("size", u)
  <2>1. d \in ToSet(cs) /\ d \in CallSet /\ d.do = "size" /\ d.image = u
    BY <1>4, CallIs DEF IsSized, Do
  <2> HIDE DEF d
  <2>2. Closed(Boards, p, cs)  BY <1>1, CallDoes DEF Closed
  <2>3. Leads(Boards, T, p, d)
    <3> SUFFICES ASSUME NEW x \in Boards, NEW y \in Call(x, p, d) PROVE y \in T
      BY DEF Leads
    <3>1. y \in Boards  BY <2>1, CallDoes
    <3>2. u \in y.added[p] /\ At(y, p, u) = Wanted(u)  BY <2>1, CallSees
    <3> QED BY <3>1, <3>2
  <2> DEFINE S == Boards
  <2> HIDE DEF T, S
  <2>4. b \in Boards \cap S /\ Closed(S, p, cs) /\ Leads(S, T, p, d)  BY <2>2, <2>3 DEF S
  <2>5. e \in T  BY <1>2, <2>1, <2>4, CallsReach
  <2> QED BY <2>5 DEF T
<1> QED BY <1>3, <1>4

(* In a lesson: an image that is not hidden lies above another, known one  *)
(* that is not shown again, if it did before or is shown.                  *)
LEMMA AboveAfter ==
  ASSUME NEW b \in Boards, NEW p \in PageIds, NEW cs \in Seq(CallSet), LooksFit, NEW u \in Uuids,
         ~Live, NEW v \in b.added[p], u # v, ~IsHidden(cs, u), ~IsShown(cs, v),
         Above(b.shown[p], u, v) \/ IsShown(cs, u), NEW e \in Calls(b, p, cs)
  PROVE  Above(e.shown[p], u, v)
<1> DEFINE S == {x \in Boards : v \in x.added[p]}
           T == {x \in Boards : v \in x.added[p] /\ Above(x.shown[p], u, v)}
<1>1. /\ \A c \in ToSet(cs) : c \in CallSet
      /\ \A c \in ToSet(cs) : (c.image = u => c.do # "hide") /\ (c.image = v => c.do # "show")
  BY InList, CallIs, Zenon DEF IsHidden, IsShown
<1>2. ASSUME NEW c \in CallSet, NEW x \in Boards, v \in x.added[p], NEW y \in Call(x, p, c)
      PROVE  y \in Boards /\ v \in y.added[p] /\ ShowsIt(x, y, p, c.do, c.image)
  <2>1. Effect(x, y, p, c.do, c.image) /\ y \in Boards  BY CallDoes
  <2> QED BY <1>2, <2>1 DEF Effect
<1>3. Closed(S, p, cs)  BY <1>1, <1>2 DEF Closed
<1>4. Closed(T, p, cs)
  <2> SUFFICES ASSUME NEW c \in ToSet(cs), NEW x \in T, NEW y \in Call(x, p, c) PROVE y \in T
    BY DEF Closed
  <2> DEFINE w == c.image
             s == x.shown[p]
             t == Append(s, w)
             known == IF w \in x.added[p] THEN s ELSE t
  <2>1. c \in CallSet /\ x \in Boards /\ v \in x.added[p] /\ Above(s, u, v)  BY <1>1
  <2>2. y \in Boards /\ v \in y.added[p] /\ ShowsIt(x, y, p, c.do, w)  BY <1>2, <2>1
  <2>3. s \in Seq(Uuids) /\ w \in Uuids  BY <2>1, BoardParts, CallIs
  <2>4. y.shown[p] = IF c.do = "show" THEN t ELSE IF c.do = "size" THEN known
                     ELSE Without(known, w)
    BY <2>2 DEF ShowsIt
  <2>5. (w = u => c.do # "hide") /\ (w = v => c.do # "show")  BY <1>1
  <2> HIDE DEF w, s
  <2>6. w # v => Above(t, u, v)  BY <2>1, <2>3, AboveAppend
  <2>7. Above(known, u, v) /\ known \in Seq(Uuids)
    <3>1. t \in Seq(Uuids)  BY <2>3, AppendSet
    <3>2. w = v => w \in x.added[p]  BY <2>1
    <3> HIDE DEF t
    <3> QED BY <2>1, <2>3, <2>6, <3>1, <3>2
  <2> HIDE DEF t, known
  <2>8. w # u => Above(Without(known, w), u, v)  BY <2>7, AboveWithout
  <2>9. c.do \in {"show", "size", "hide"}  BY <2>1, CallIs
  <2>10. Above(y.shown[p], u, v)  BY <2>4, <2>5, <2>6, <2>7, <2>8, <2>9
  <2> QED BY <2>2, <2>10
<1>5. CASE Above(b.shown[p], u, v)
  <2>1. b \in Boards \cap T  BY <1>5
  <2> HIDE DEF T
  <2>2. e \in T  BY <1>4, <2>1, CallsKeep
  <2> QED BY <2>2 DEF T
<1>6. CASE IsShown(cs, u)
  <2> DEFINE d == Do("show", u)
  <2>1. d \in ToSet(cs) /\ d \in CallSet /\ d.do = "show" /\ d.image = u
    BY <1>6, CallIs DEF IsShown, Do
  <2> HIDE DEF d
  <2>2. Leads(S, T, p, d)
    <3> SUFFICES ASSUME NEW x \in S, NEW y \in Call(x, p, d) PROVE y \in T
      BY DEF Leads
    <3>1. y \in Boards /\ v \in y.added[p] /\ ShowsIt(x, y, p, d.do, d.image)  BY <1>2, <2>1
    <3>2. y.shown[p] = Append(x.shown[p], u)  BY <2>1, <3>1 DEF ShowsIt
    <3>3. x.shown[p] \in Seq(Uuids)  BY BoardParts
    <3>4. Above(y.shown[p], u, v)  BY <3>2, <3>3, AboveNew
    <3> QED BY <3>1, <3>4
  <2>3. b \in Boards \cap S  OBVIOUS
  <2> HIDE DEF S, T
  <2>4. e \in T  BY <1>3, <1>4, <2>1, <2>2, <2>3, CallsReach
  <2> QED BY <2>4 DEF T
<1> QED BY <1>5, <1>6

(* What no page but the one the calls are for loses, and what is drawn     *)
(* there once.                                                             *)
DrawnOnce(b, p) == Distinct(b.drawn[p]) /\ ToSet(b.drawn[p]) \subseteq b.added[p]

(* The calls for a page leave the others as they were, and each image      *)
(* drawn on it is drawn once.                                              *)
LEMMA PagesAfter ==
  ASSUME NEW b \in Boards, NEW p \in PageIds, NEW cs \in Seq(CallSet), LooksFit,
         NEW e \in Calls(b, p, cs)
  PROVE  /\ e \in Boards /\ Elsewhere(b, e, p) /\ e.turning = b.turning
         /\ DrawnOnce(b, p) => DrawnOnce(e, p)
<1> DEFINE S == {x \in Boards : Elsewhere(b, x, p) /\ x.turning = b.turning
                                /\ (DrawnOnce(b, p) => DrawnOnce(x, p))}
<1>1. \A c \in ToSet(cs) : c \in CallSet  BY InList
<1>2. Closed(S, p, cs)
  <2> SUFFICES ASSUME NEW c \in ToSet(cs), NEW x \in S, NEW y \in Call(x, p, c) PROVE y \in S
    BY DEF Closed
  <2> DEFINE u == c.image
             do == c.do
  <2>1. c \in CallSet /\ x \in Boards  BY <1>1
  <2>2. Effect(x, y, p, do, u) /\ y \in Boards /\ u \in Uuids /\ do \in {"show", "size", "hide"}
    BY <2>1, CallDoes, CallIs
  <2> HIDE DEF u, do
  <2>3. /\ OnlyImage(x, y, p, u) /\ y.added[p] = x.added[p] \cup {u} /\ DrawsIt(x, y, p, do, u)
    BY <2>2 DEF Effect
  <2>4. Elsewhere(b, y, p) /\ y.turning = b.turning
    <3>1. Elsewhere(b, x, p) /\ x.turning = b.turning  OBVIOUS
    <3>2. Elsewhere(x, y, p) /\ y.turning = x.turning  BY <2>3 DEF OnlyImage
    <3> HIDE DEF S
    <3> QED BY <3>1, <3>2, Zenon DEF Elsewhere
  <2>5. DrawnOnce(x, p) => DrawnOnce(y, p)
    BY <2>2, <2>3 DEF DrawnOnce, DrawsIt
  <2> QED BY <2>2, <2>4, <2>5
<1>3. b \in Boards \cap S
  <2>1. Elsewhere(b, b, p)  BY DEF Elsewhere
  <2> QED BY <2>1
<1> HIDE DEF S
<1>4. e \in Boards \cap S  BY <1>2, <1>3, CallsKeep
<1> QED BY <1>4 DEF S

(* A change to another part of a board is none to the peer. *)
LEMMA PeerIsElsewhere ==
  ASSUME NEW b \in Boards, NEW p, NEW u, NEW s
  PROVE  /\ [b EXCEPT !.drawn[p] = s].peer = b.peer /\ [b EXCEPT !.shown[p] = s].peer = b.peer
         /\ [b EXCEPT !.look[p][u] = s].peer = b.peer /\ [b EXCEPT !.at[p][u] = s].peer = b.peer
  BY DEF Boards

(* AddToBanBase in a lesson. *)
LEMMA AddForLesson ==
  ASSUME NEW b \in Boards, NEW p \in PageIds, NEW u \in Uuids, LooksFit, ~Live,
         NEW e \in AddToBanBase(b, p, u)
  PROVE  e.peer = b.peer
<1>1. CASE u \in b.added[p]
  <2>1. e = AddToDrawing(b, p, u)  BY <1>1 DEF AddToBanBase
  <2> QED BY <2>1, PeerIsElsewhere DEF AddToDrawing
<1>2. CASE u \notin b.added[p]
  <2> DEFINE look == Look(place'[u], 0)
             c == [b EXCEPT !.added[p] = @ \cup {u}, !.drawn[p] = Append(@, u),
                            !.look[p][u] = look, !.at[p][u] = look]
  <2>1. e \in OnAnimationShow(c, p, u, look)  BY <1>2 DEF AddToBanBase
  <2>2. e = [c EXCEPT !.shown[p] = Append(@, u)]  BY <2>1 DEF OnAnimationShow
  <2> QED BY <2>2 DEF Boards
<1> QED BY <1>1, <1>2

(* No call for a lesson's board comes to a peer. *)
LEMMA CallForLesson ==
  ASSUME NEW b \in Boards, NEW p \in PageIds, NEW c \in CallSet, LooksFit, ~Live,
         NEW e \in Call(b, p, c)
  PROVE  e.peer = b.peer
<1> DEFINE u == c.image
<1>1. u \in Uuids /\ c.do \in {"show", "size", "hide"}  BY CallIs
<1>2. \A x \in AddToBanBase(b, p, u) : x \in Boards /\ x.peer = b.peer
  BY <1>1, AddForLesson, AddToBanBaseIs DEF Makes5, OnlyImage
<1>3. CASE c.do = "show"
  <2>1. e \in AddShowAction(b, p, u)  BY <1>3 DEF Call
  <2>2. CASE u \notin b.added[p]  BY <1>2, <2>1, <2>2 DEF AddShowAction
  <2>3. CASE u \in b.added[p]
    <3> DEFINE a == AddToDrawing(b, p, u)
    <3>1. a \in Boards /\ a.peer = b.peer
      <4>1. a \in Boards  BY <1>1, AddToDrawingIs DEF Makes5, OnlyImage
      <4> QED BY <4>1, PeerIsElsewhere DEF AddToDrawing
    <3>2. e \in OnAnimationShow(a, p, u, Look(place'[u], 0))  BY <2>1, <2>3 DEF AddShowAction
    <3> HIDE DEF a
    <3>3. e = [a EXCEPT !.shown[p] = Append(@, u)]  BY <3>2 DEF OnAnimationShow
    <3> QED BY <3>1, <3>3 DEF Boards
  <2> QED BY <2>2, <2>3
<1>4. CASE c.do = "size"
  <2> DEFINE look == Look(place'[u], size')
  <2>1. e \in AddSizeAction(b, p, u)  BY <1>4 DEF Call
  <2>2. PICK x \in AddToBanBase(b, p, u) : e \in OnAnimationSize([x EXCEPT !.look[p][u] = look], p, u, look)
    BY <2>1 DEF AddSizeAction
  <2>3. look \in Looks  BY <1>1 DEF LooksFit
  <2> HIDE DEF look
  <2> DEFINE y == [x EXCEPT !.look[p][u] = look]
  <2>4. y \in Boards /\ y.peer = b.peer
    <3>1. y \in Boards  BY <1>1, <1>2, <2>3, LookChanged DEF Makes5, OnlyImage
    <3> QED BY <1>2, <3>1, PeerIsElsewhere
  <2> HIDE DEF y
  <2>5. e \in OnAnimationSize(y, p, u, look)  BY <2>2 DEF y
  <2>6. e = [y EXCEPT !.at[p][u] = look]  BY <2>5 DEF OnAnimationSize
  <2> QED BY <2>4, <2>6, PeerIsElsewhere
<1>5. CASE c.do = "hide"
  <2>1. e \in HideImageElement(b, p, u)  BY <1>5 DEF Call
  <2>2. PICK x \in AddToBanBase(b, p, u) : e \in OnAnimationHide([x EXCEPT !.drawn[p] = Without(@, u)], p, u)
    BY <2>1 DEF HideImageElement
  <2> DEFINE y == [x EXCEPT !.drawn[p] = Without(@, u)]
             w == Without(x.drawn[p], u)
  <2>3. y \in Boards /\ y.peer = b.peer
    <3>1. x \in Boards /\ x.drawn[p] \in Seq(Uuids)  BY <1>2, BoardParts
    <3>2. w \in Seq(Uuids)  BY <3>1, WithoutSet
    <3>3. y = [x EXCEPT !.drawn[p] = w]  OBVIOUS
    <3> HIDE DEF w, y
    <3>4. y \in Boards  BY <1>1, <3>1, <3>2, <3>3, DrawnSet DEF Makes5, OnlyImage
    <3> QED BY <1>2, <3>1, <3>3, <3>4, PeerIsElsewhere
  <2> HIDE DEF y
  <2>4. e \in OnAnimationHide(y, p, u)  BY <2>2 DEF y
  <2>5. e = [y EXCEPT !.shown[p] = Without(@, u)]  BY <2>4 DEF OnAnimationHide
  <2> QED BY <2>3, <2>5 DEF Boards
<1> QED BY <1>1, <1>3, <1>4, <1>5

(* Nor do many. *)
LEMMA PeerAfter ==
  ASSUME NEW b \in Boards, NEW p \in PageIds, NEW cs \in Seq(CallSet), LooksFit, ~Live,
         NEW e \in Calls(b, p, cs)
  PROVE  e.peer = b.peer
<1> DEFINE S == {x \in Boards : x.peer = b.peer}
<1>1. \A c \in ToSet(cs) : c \in CallSet  BY InList
<1>2. Closed(S, p, cs)  BY <1>1, CallForLesson, CallDoes DEF Closed
<1>3. b \in Boards \cap S  OBVIOUS
<1> HIDE DEF S
<1>4. e \in S  BY <1>2, <1>3, CallsKeep
<1> QED BY <1>4 DEF S

-----------------------------------------------------------------------------
(* The methods of a slide, by the images they show, size and hide.         *)

Images(s, k) == {Background(s)} \cup {Shape(s, i) : i \in 1..k}
Clicks(s, k) == s \in Slides /\ k \in Int /\ -1 <= k /\ k <= Len(Actions[s])

Orders(cs, shows, sizes, hides) ==
  /\ cs \in Seq(CallSet)
  /\ \A u \in Uuids : /\ IsShown(cs, u) <=> u \in shows
                      /\ IsSized(cs, u) <=> u \in sizes
                      /\ IsHidden(cs, u) <=> u \in hides

(* The images of a slide are those of no other, and a shape is no          *)
(* background.                                                             *)
LEMMA ImagesAre ==
  /\ \A s \in Slides : Background(s) \in Uuids /\ SlideOf(Background(s)) = s
  /\ \A s \in Slides : \A i \in 1..Len(Actions[s]) :
       /\ Shape(s, i) \in Uuids /\ SlideOf(Shape(s, i)) = s
       /\ \A t \in Slides : Shape(s, i) # Background(t)
       /\ \A j \in 1..Len(Actions[s]) : Shape(s, i) = Shape(s, j) => Actions[s][i] = Actions[s][j]
  /\ \A u \in Uuids : SlideOf(u) \in Slides
<1>1. /\ Uuids = UNION {{Background(s)} \cup {Shape(s, i) : i \in DOMAIN Actions[s]} : s \in Slides}
      /\ Actions \in Seq(Seq(Nat \ {0}))
  BY SlidesAssumption
<1>2. \A s \in Slides : DOMAIN Actions[s] = 1..Len(Actions[s])
                        /\ \A i \in 1..Len(Actions[s]) : Actions[s][i] \in Nat \ {0}
  <2> SUFFICES ASSUME NEW s \in Slides
               PROVE  DOMAIN Actions[s] = 1..Len(Actions[s])
                      /\ \A i \in 1..Len(Actions[s]) : Actions[s][i] \in Nat \ {0}
    OBVIOUS
  <2>1. Actions[s] \in Seq(Nat \ {0})  BY <1>1, SlidesAreNumbered
  <2> QED BY <2>1, LenProperties, ElementOfSeq
<1>3. \A s \in Slides : /\ Background(s) \in Uuids
                        /\ \A i \in 1..Len(Actions[s]) : Shape(s, i) \in Uuids
  BY <1>1, <1>2
<1>4. \A u \in Uuids : \E s \in Slides : u = Background(s) \/ \E i \in DOMAIN Actions[s] : u = Shape(s, i)
  BY <1>1
<1>5. \A s : SlideOf(Background(s)) = s /\ \A i : SlideOf(Shape(s, i)) = s
  BY DEF SlideOf, Background, Shape
<1>6. \A s \in Slides : \A i \in 1..Len(Actions[s]) :
       /\ \A t \in Slides : Shape(s, i) # Background(t)
       /\ \A j \in 1..Len(Actions[s]) : Shape(s, i) = Shape(s, j) => Actions[s][i] = Actions[s][j]
  BY <1>2 DEF Shape, Background
<1> QED BY <1>3, <1>4, <1>5, <1>6

(* A slide's images as a list. *)
LEMMA ImagesListed ==
  ASSUME NEW s, NEW k, Clicks(s, k)
  PROVE  LET images == <<Background(s)>> \o ShapesTo(s, k)
         IN /\ images \in Seq(Uuids) /\ ToSet(images) = Images(s, k)
            /\ ToSet(ShapesTo(s, k)) = {Shape(s, i) : i \in 1..k}
            /\ Images(s, k) \subseteq Uuids
<1> DEFINE all == [i \in DOMAIN Actions[s] |-> Shape(s, i)]
           n == Len(Actions[s])
           t == ShapesTo(s, k)
           b == Background(s)
           o == <<b>>
<1>1. n \in Nat /\ s \in Slides /\ k \in Int /\ -1 <= k /\ k <= n /\ DOMAIN Actions[s] = 1..n
  <2>1. Actions[s] \in Seq(Nat \ {0})  BY SlidesAssumption, SlidesAreNumbered DEF Clicks
  <2> QED BY <2>1, LenProperties, SlidesAreNumbered DEF Clicks
<1>2. all = [i \in 1..n |-> Shape(s, i)] /\ t = SubSeq(all, 1, k)  BY <1>1 DEF ShapesTo
<1>3. all \in Seq(Uuids) /\ Len(all) = n /\ \A i \in 1..n : all[i] = Shape(s, i)
  <2>1. \A i \in 1..n : Shape(s, i) \in Uuids  BY <1>1, ImagesAre
  <2> HIDE DEF n, all
  <2>2. all \in [1..n -> Uuids] /\ \A i \in 1..n : all[i] = Shape(s, i)  BY <1>2, <2>1
  <2> QED BY <1>1, <2>2
<1> HIDE DEF n, all
<1>4. t \in Seq(Uuids) /\ ToSet(t) = {Shape(s, i) : i \in 1..k}
  <2>1. CASE k < 1
    <3>1. t = <<>>  BY <1>1, <1>2, <1>3, <2>1
    <3>2. t \in Seq(Uuids) /\ Len(t) = 0  BY <3>1
    <3> HIDE DEF t
    <3>3. ToSet(t) = {t[i] : i \in 1..0}  BY <3>2, InList
    <3> QED BY <1>1, <2>1, <3>2, <3>3
  <2>2. CASE 1 <= k
    <3>1. t \in Seq(Uuids) /\ Len(t) = k /\ \A i \in 1..k : t[i] = all[i]
      BY <1>1, <1>2, <1>3, <2>2, SubSeqProperties
    <3> HIDE DEF t
    <3>2. ToSet(t) = {t[i] : i \in 1..k}  BY <3>1, InList
    <3>3. \A i \in 1..k : t[i] = Shape(s, i)  BY <1>1, <1>3, <3>1
    <3> QED BY <3>1, <3>2, <3>3
  <2> QED BY <1>1, <2>1, <2>2
<1>5. b \in Uuids  BY <1>1, ImagesAre
<1> HIDE DEF b, t
<1>6. o \in Seq(Uuids) /\ ToSet(o) = {b}
  <2>1. o \in Seq(Uuids) /\ Len(o) = 1 /\ o[1] = b  BY <1>5
  <2> HIDE DEF o
  <2>2. ToSet(o) = {o[i] : i \in 1..1}  BY <2>1, InList
  <2> QED BY <2>1, <2>2
<1> HIDE DEF o
<1>7. o \o t \in Seq(Uuids) /\ ToSet(o \o t) = ToSet(o) \cup ToSet(t)  BY <1>4, <1>6, ConcatSet
<1>8. ToSet(o \o t) = Images(s, k)  BY <1>4, <1>6, <1>7 DEF Images, b
<1>9. Images(s, k) \subseteq Uuids  BY <1>7, <1>8, InList
<1> QED BY <1>4, <1>7, <1>8, <1>9 DEF o, b, t

(* One call for each of a list of images. *)
LEMMA DoneToEach ==
  ASSUME NEW images \in Seq(Uuids), NEW do \in {"show", "size", "hide"}
  PROVE  LET cs == [i \in DOMAIN images |-> Do(do, images[i])]
         IN cs \in Seq(CallSet) /\ ToSet(cs) = {Do(do, u) : u \in ToSet(images)}
<1> DEFINE n == Len(images)
           cs == [i \in DOMAIN images |-> Do(do, images[i])]
<1>1. /\ n \in Nat /\ DOMAIN images = 1..n /\ ToSet(images) = {images[i] : i \in 1..n}
      /\ \A i \in 1..n : images[i] \in Uuids
  BY InList, ElementOfSeq
<1> HIDE DEF n
<1>2. cs = [i \in 1..n |-> Do(do, images[i])]  BY <1>1
<1>3. cs \in Seq(CallSet) /\ Len(cs) = n /\ \A i \in 1..n : cs[i] = Do(do, images[i])
  <2>1. \A i \in 1..n : Do(do, images[i]) \in CallSet  BY <1>1, CallIs
  <2> QED BY <1>1, <1>2, <2>1
<1> HIDE DEF cs
<1>4. ToSet(cs) = {cs[i] : i \in 1..n}  BY <1>3, InList
<1>5. ToSet(cs) = {Do(do, u) : u \in ToSet(images)}  BY <1>1, <1>3, <1>4
<1> QED BY <1>3, <1>5 DEF cs

(* Orders, from the calls there are. *)
LEMMA OrdersAre ==
  ASSUME NEW cs \in Seq(CallSet), NEW shows, NEW sizes, NEW hides,
         ToSet(cs) = {Do("show", u) : u \in shows} \cup {Do("size", u) : u \in sizes}
                       \cup {Do("hide", u) : u \in hides}
  PROVE  Orders(cs, shows, sizes, hides)
<1>1. \A d, u : Do(d, u).do = d /\ Do(d, u).image = u  BY DEF Do
<1>2. \A u : /\ IsShown(cs, u) <=> u \in shows
             /\ IsSized(cs, u) <=> u \in sizes
             /\ IsHidden(cs, u) <=> u \in hides
  <2> SUFFICES ASSUME NEW u
               PROVE  /\ IsShown(cs, u) <=> u \in shows
                      /\ IsSized(cs, u) <=> u \in sizes
                      /\ IsHidden(cs, u) <=> u \in hides
    OBVIOUS
  <2>1. "show" # "size" /\ "show" # "hide" /\ "size" # "hide"  OBVIOUS
  <2>2. \A d : Do(d, u) \in ToSet(cs) <=> \/ d = "show" /\ u \in shows
                                          \/ d = "size" /\ u \in sizes
                                          \/ d = "hide" /\ u \in hides
    <3> SUFFICES ASSUME NEW d
                 PROVE  Do(d, u) \in ToSet(cs) <=> \/ d = "show" /\ u \in shows
                                                   \/ d = "size" /\ u \in sizes
                                                   \/ d = "hide" /\ u \in hides
      OBVIOUS
    <3>1. \A c, v : Do(d, u) = Do(c, v) <=> d = c /\ u = v  BY <1>1
    <3> QED BY <3>1
  <2> QED BY <2>1, <2>2 DEF IsShown, IsSized, IsHidden
<1> QED BY <1>2 DEF Orders

(* First these calls, then those. *)
LEMMA OrdersBoth ==
  ASSUME NEW c, NEW c1, NEW c2, NEW c3, NEW d, NEW d1, NEW d2, NEW d3,
         Orders(c, c1, c2, c3), Orders(d, d1, d2, d3)
  PROVE  Orders(c \o d, c1 \cup d1, c2 \cup d2, c3 \cup d3)
<1>1. c \in Seq(CallSet) /\ d \in Seq(CallSet)  BY DEF Orders
<1>2. c \o d \in Seq(CallSet) /\ ToSet(c \o d) = ToSet(c) \cup ToSet(d)  BY <1>1, ConcatSet
<1>3. \A u \in Uuids : /\ IsShown(c \o d, u) <=> IsShown(c, u) \/ IsShown(d, u)
                       /\ IsSized(c \o d, u) <=> IsSized(c, u) \/ IsSized(d, u)
                       /\ IsHidden(c \o d, u) <=> IsHidden(c, u) \/ IsHidden(d, u)
  BY <1>2 DEF IsShown, IsSized, IsHidden
<1>4. \A u \in Uuids : /\ IsShown(c, u) <=> u \in c1
                       /\ IsSized(c, u) <=> u \in c2
                       /\ IsHidden(c, u) <=> u \in c3
  BY DEF Orders
<1>5. \A u \in Uuids : /\ IsShown(d, u) <=> u \in d1
                       /\ IsSized(d, u) <=> u \in d2
                       /\ IsHidden(d, u) <=> u \in d3
  BY DEF Orders
<1>6. \A u \in Uuids : /\ IsShown(c \o d, u) <=> u \in c1 \cup d1
                       /\ IsSized(c \o d, u) <=> u \in c2 \cup d2
                       /\ IsHidden(c \o d, u) <=> u \in c3 \cup d3
  BY <1>3, <1>4, <1>5
<1> QED BY <1>2, <1>6 DEF Orders

(* No calls. *)
LEMMA OrdersNone == Orders(<<>>, {}, {}, {})
<1> DEFINE e == <<>>
<1>1. e \in Seq(CallSet) /\ Len(e) = 0  OBVIOUS
<1> HIDE DEF e
<1>2. ToSet(e) = {e[i] : i \in 1..0}  BY <1>1, InList
<1>3. ToSet(e) = {}  BY <1>2
<1> QED BY <1>1, <1>3, OrdersAre DEF e

(* Slide::Hide and SetNewSize. *)
LEMMA HideOrders ==
  ASSUME NEW s, NEW k, Clicks(s, k)
  PROVE  /\ Orders(Hide(s, k), {}, {}, Images(s, k))
         /\ Orders(SetNewSize(s, k), {}, Images(s, k), {})
<1> DEFINE images == <<Background(s)>> \o ShapesTo(s, k)
<1>1. images \in Seq(Uuids) /\ ToSet(images) = Images(s, k)  BY ImagesListed
<1>2. /\ Hide(s, k) = [i \in DOMAIN images |-> Do("hide", images[i])]
      /\ SetNewSize(s, k) = [i \in DOMAIN images |-> Do("size", images[i])]
  BY DEF Hide, SetNewSize
<1> HIDE DEF images
<1>3. Hide(s, k) \in Seq(CallSet) /\ ToSet(Hide(s, k)) = {Do("hide", u) : u \in Images(s, k)}
  BY <1>1, <1>2, DoneToEach
<1>4. SetNewSize(s, k) \in Seq(CallSet) /\ ToSet(SetNewSize(s, k)) = {Do("size", u) : u \in Images(s, k)}
  BY <1>1, <1>2, DoneToEach
<1> QED BY <1>3, <1>4, OrdersAre

(* The largest of some numbers. *)
LEMMA Greatest ==
  ASSUME NEW n \in Nat, NEW T \in SUBSET (0..n), T # {}
  PROVE  \E x \in T : \A y \in T : y <= x
<1> DEFINE U == {n - y : y \in T}
<1>1. U \in SUBSET Nat /\ U # {}
  <2>1. \A y \in T : n - y \in Nat  OBVIOUS
  <2>2. U \subseteq Nat  BY <2>1, Zenon
  <2>3. PICK y \in T : TRUE  BY Zenon
  <2>4. n - y \in U  BY Zenon
  <2> QED BY <2>2, <2>4, Zenon
<1>2. PICK d \in U : \A e \in U : d <= e
  <2> HIDE DEF U
  <2> QED BY <1>1, Least
<1>3. PICK x \in T : d = n - x  BY <1>2
<1>4. \A y \in T : n - x <= n - y  BY <1>2, <1>3
<1> QED BY <1>3, <1>4

(* Among the clicks so far, each shape has a last one. *)
LEMMA LastClick ==
  ASSUME NEW s \in Slides, NEW k \in 0..Len(Actions[s]), NEW i \in 1..k
  PROVE  \E j \in 1..k : Shape(s, j) = Shape(s, i) /\ ~HasMoreMoveAction(s, j, k)
<1> DEFINE T == {j \in 1..k : Actions[s][j] = Actions[s][i]}
<1>1. k \in Nat  BY SlidesAreNumbered
<1>2. T \in SUBSET (0..k) /\ i \in T  BY <1>1
<1>3. PICK x \in T : \A y \in T : y <= x
  <2> HIDE DEF T
  <2> QED BY <1>1, <1>2, Greatest
<1>4. ~HasMoreMoveAction(s, x, k)
  <2> SUFFICES ASSUME NEW j \in x + 1..k, Actions[s][j] = Actions[s][x] PROVE FALSE
    BY DEF HasMoreMoveAction
  <2>1. j \in T  BY <1>1, <1>3
  <2>2. ~(j <= x)  BY <1>1, <1>3
  <2> QED BY <1>3, <2>1, <2>2
<1>5. Shape(s, x) = Shape(s, i)  BY <1>3 DEF Shape
<1> QED BY <1>3, <1>4, <1>5

(* Two last clicks of one shape are the same click. *)
LEMMA LastClickOnce ==
  ASSUME NEW s \in Slides, NEW k \in 0..Len(Actions[s]), NEW i \in 1..k, NEW j \in 1..k,
         Shape(s, i) = Shape(s, j), ~HasMoreMoveAction(s, i, k), ~HasMoreMoveAction(s, j, k)
  PROVE  i = j
<1>1. k \in Nat /\ k <= Len(Actions[s]) /\ Len(Actions[s]) \in Nat  BY SlidesAreNumbered
<1>2. Actions[s][i] = Actions[s][j]
  <2>1. i \in 1..Len(Actions[s]) /\ j \in 1..Len(Actions[s])  BY <1>1
  <2> QED BY <2>1, ImagesAre
<1>3. ~(i < j)
  <2> SUFFICES ASSUME i < j PROVE FALSE  OBVIOUS
  <2>1. j \in i + 1..k  BY <1>1
  <2> QED BY <1>2, <2>1 DEF HasMoreMoveAction
<1>4. ~(j < i)
  <2> SUFFICES ASSUME j < i PROVE FALSE  OBVIOUS
  <2>1. i \in j + 1..k  BY <1>1
  <2> QED BY <1>2, <2>1 DEF HasMoreMoveAction
<1> QED BY <1>1, <1>3, <1>4

(* ShowResized. *)
LEMMA ShowResizedIs ==
  ASSUME NEW u \in Uuids
  PROVE  ShowResized(u) \in Seq(CallSet) /\ ToSet(ShowResized(u)) = {Do("show", u), Do("size", u)}
<1> DEFINE c == Do("show", u)
           d == Do("size", u)
           t == <<c, d>>
<1>1. c \in CallSet /\ d \in CallSet  BY CallIs
<1> HIDE DEF c, d
<1>2. t \in Seq(CallSet) /\ Len(t) = 2 /\ t[1] = c /\ t[2] = d  BY <1>1
<1> HIDE DEF t
<1>3. ToSet(t) = {t[i] : i \in 1..2}  BY <1>2, InList
<1>4. 1..2 = {1, 2}  OBVIOUS
<1>5. ToSet(t) = {c, d}  BY <1>2, <1>3, <1>4
<1> QED BY <1>2, <1>5 DEF c, d, t, ShowResized

(* Slide::UpdateBanBase. *)
LEMMA UpdateBanBaseOrders ==
  ASSUME NEW s, NEW k, Clicks(s, k)
  PROVE  Orders(UpdateBanBase(s, k), Images(s, k), Images(s, k), {})
<1> DEFINE images == <<Background(s)>> \o ShapesTo(s, k)
           n == Len(images)
           ss == [i \in DOMAIN images |-> ShowResized(images[i])]
           cs == FlattenSeq(ss)
<1>1. images \in Seq(Uuids) /\ ToSet(images) = Images(s, k)  BY ImagesListed
<1>2. UpdateBanBase(s, k) = cs  BY DEF UpdateBanBase
<1> HIDE DEF images
<1>3. /\ n \in Nat /\ DOMAIN images = 1..n /\ ToSet(images) = {images[i] : i \in 1..n}
      /\ \A i \in 1..n : images[i] \in Uuids
  BY <1>1, InList, ElementOfSeq
<1> HIDE DEF n
<1>4. ss = [i \in 1..n |-> ShowResized(images[i])]  BY <1>3
<1>5. \A i \in 1..n : /\ ShowResized(images[i]) \in Seq(CallSet)
                      /\ ToSet(ShowResized(images[i])) = {Do("show", images[i]), Do("size", images[i])}
  BY <1>3, ShowResizedIs
<1> HIDE DEF ss
<1>6. ss \in [1..n -> Seq(CallSet)] /\ \A i \in 1..n : ss[i] = ShowResized(images[i])
  BY <1>4, <1>5
<1>7. ss \in Seq(Seq(CallSet)) /\ Len(ss) = n  BY <1>3, <1>6
<1>8. cs \in Seq(CallSet) /\ ToSet(cs) = UNION {ToSet(ss[i]) : i \in 1..n}  BY <1>7, FlattenedSet
<1> HIDE DEF cs
<1>9. \A i \in 1..n : ToSet(ss[i]) = {Do("show", images[i]), Do("size", images[i])}
  BY <1>5, <1>6
<1>10. ToSet(cs) = {Do("show", u) : u \in Images(s, k)} \cup {Do("size", u) : u \in Images(s, k)}
                     \cup {Do("hide", u) : u \in {}}
  <2> DEFINE U == Images(s, k)
  <2>1. U = {images[i] : i \in 1..n}  BY <1>1, <1>3
  <2> HIDE DEF U
  <2>2. ASSUME NEW c \in ToSet(cs) PROVE \E u \in U : c = Do("show", u) \/ c = Do("size", u)
    <3>1. PICK i \in 1..n : c \in ToSet(ss[i])  BY <1>8
    <3>2. c = Do("show", images[i]) \/ c = Do("size", images[i])  BY <1>9, <3>1
    <3> QED BY <2>1, <3>2
  <2>3. ASSUME NEW u \in U PROVE Do("show", u) \in ToSet(cs) /\ Do("size", u) \in ToSet(cs)
    <3>1. PICK i \in 1..n : u = images[i]  BY <2>1
    <3>2. ToSet(ss[i]) = {Do("show", u), Do("size", u)}  BY <1>9, <3>1
    <3> QED BY <1>8, <3>2
  <2>4. ToSet(cs) = {Do("show", u) : u \in U} \cup {Do("size", u) : u \in U}
                      \cup {Do("hide", u) : u \in {}}
    BY <2>2, <2>3
  <2> QED BY <2>4 DEF U
<1> QED BY <1>2, <1>8, <1>10, OrdersAre

(* What NextAction shows: the background of a slide that begins, and after *)
(* that every shape of the clicks so far.                                  *)
Newest(s, k) == IF k = 0 THEN {Background(s)} ELSE {Shape(s, i) : i \in 1..k}

(* Slide::NextAction. *)
LEMMA NextActionOrders ==
  ASSUME NEW s \in Slides, NEW k \in 0..Len(Actions[s])
  PROVE  Orders(NextAction(s, k), Newest(s, k), Newest(s, k), {})
<1>1. CASE k = 0
  <2> DEFINE b == Background(s)
  <2>1. NextAction(s, k) = ShowResized(b) /\ Newest(s, k) = {b} /\ b \in Uuids
    BY <1>1, ImagesAre DEF NextAction, Newest
  <2> HIDE DEF b
  <2>2. ShowResized(b) \in Seq(CallSet) /\ ToSet(ShowResized(b)) = {Do("show", b), Do("size", b)}
    BY <2>1, ShowResizedIs
  <2>3. ToSet(ShowResized(b)) = {Do("show", u) : u \in {b}} \cup {Do("size", u) : u \in {b}}
                                  \cup {Do("hide", u) : u \in {}}
    BY <2>2
  <2> QED BY <2>1, <2>2, <2>3, OrdersAre
<1>2. CASE k # 0
  <2> DEFINE last(i) == ~HasMoreMoveAction(s, i, k)
             ss == [i \in 1..k |-> IF HasMoreMoveAction(s, i, k) THEN <<>>
                                   ELSE ShowResized(Shape(s, i))]
             cs == FlattenSeq(ss)
             e == <<>>
  <2>1. NextAction(s, k) = cs /\ Newest(s, k) = {Shape(s, i) : i \in 1..k}
    BY <1>2 DEF NextAction, Newest
  <2>2. k \in Nat /\ \A i \in 1..k : Shape(s, i) \in Uuids
    <3>1. k \in Nat /\ Len(Actions[s]) \in Nat /\ k <= Len(Actions[s])  BY SlidesAreNumbered
    <3>2. \A i \in 1..k : i \in 1..Len(Actions[s])  BY <3>1
    <3> QED BY <3>1, <3>2, ImagesAre
  <2>3. \A i \in 1..k : /\ ShowResized(Shape(s, i)) \in Seq(CallSet)
                        /\ ToSet(ShowResized(Shape(s, i))) = {Do("show", Shape(s, i)), Do("size", Shape(s, i))}
    BY <2>2, ShowResizedIs
  <2>4. e \in Seq(CallSet) /\ ToSet(e) = {}
    <3>1. e \in Seq(CallSet) /\ Len(e) = 0  OBVIOUS
    <3> HIDE DEF e
    <3>2. ToSet(e) = {e[i] : i \in 1..0}  BY <3>1, InList
    <3> QED BY <3>1, <3>2
  <2>5. ss = [i \in 1..k |-> IF last(i) THEN ShowResized(Shape(s, i)) ELSE e]  OBVIOUS
  <2> HIDE DEF ss, e
  <2>6. ss \in [1..k -> Seq(CallSet)] /\ \A i \in 1..k : ss[i] = IF last(i) THEN ShowResized(Shape(s, i)) ELSE e
    <3> HIDE DEF last
    <3> QED BY <2>3, <2>4, <2>5
  <2>7. ss \in Seq(Seq(CallSet)) /\ Len(ss) = k  BY <2>2, <2>6
  <2>8. cs \in Seq(CallSet) /\ ToSet(cs) = UNION {ToSet(ss[i]) : i \in 1..k}  BY <2>7, FlattenedSet
  <2> HIDE DEF cs
  <2>9. \A i \in 1..k : ToSet(ss[i]) = IF last(i) THEN {Do("show", Shape(s, i)), Do("size", Shape(s, i))} ELSE {}
    <3> HIDE DEF last
    <3> QED BY <2>3, <2>4, <2>6
  <2>10. \A i \in 1..k : \E j \in 1..k : Shape(s, j) = Shape(s, i) /\ last(j)  BY LastClick
  <2> DEFINE U == {Shape(s, i) : i \in 1..k}
  <2>11. ToSet(cs) = {Do("show", u) : u \in U} \cup {Do("size", u) : u \in U}
                       \cup {Do("hide", u) : u \in {}}
    <3> HIDE DEF last
    <3>1. ASSUME NEW c \in ToSet(cs) PROVE \E u \in U : c = Do("show", u) \/ c = Do("size", u)
      <4>1. PICK i \in 1..k : c \in ToSet(ss[i])  BY <2>8
      <4>2. c = Do("show", Shape(s, i)) \/ c = Do("size", Shape(s, i))  BY <2>9, <4>1
      <4> QED BY <4>2
    <3>2. ASSUME NEW u \in U PROVE Do("show", u) \in ToSet(cs) /\ Do("size", u) \in ToSet(cs)
      <4>1. PICK i \in 1..k : u = Shape(s, i)  OBVIOUS
      <4>2. PICK j \in 1..k : Shape(s, j) = u /\ last(j)  BY <2>10, <4>1
      <4>3. ToSet(ss[j]) = {Do("show", u), Do("size", u)}  BY <2>9, <4>2
      <4> QED BY <2>8, <4>3
    <3> HIDE DEF U
    <3> QED BY <3>1, <3>2
  <2> HIDE DEF U
  <2>12. Orders(cs, U, U, {})  BY <2>8, <2>11, OrdersAre
  <2> QED BY <2>1, <2>12 DEF U
<1> QED BY <1>1, <1>2

(* The steps of the slides, as far as each has been clicked. *)
Steps(steps) == steps \in [Slides -> Int] /\ \A s \in Slides : Clicks(s, steps[s])

(* Every slide is hidden. *)
LEMMA HideAllOrders ==
  ASSUME NEW steps, Steps(steps)
  PROVE  Orders(HideAll(steps), {}, {}, UNION {Images(s, steps[s]) : s \in Slides})
<1> DEFINE n == Len(Actions)
           ss == [s \in Slides |-> Hide(s, steps[s])]
           cs == FlattenSeq(ss)
           U == UNION {Images(s, steps[s]) : s \in Slides}
<1>1. n \in Nat /\ Slides = 1..n /\ HideAll(steps) = cs  BY SlidesAreNumbered DEF HideAll
<1>2. \A s \in Slides : Orders(Hide(s, steps[s]), {}, {}, Images(s, steps[s]))
  BY HideOrders DEF Steps
<1> HIDE DEF n
<1>3. \A s \in Slides : ss[s] \in Seq(CallSet) /\ ss[s] = Hide(s, steps[s])  BY <1>2 DEF Orders
<1>4. ss \in [1..n -> Seq(CallSet)]
  <2>1. ss = [s \in 1..n |-> Hide(s, steps[s])]  BY <1>1
  <2>2. \A s \in 1..n : Hide(s, steps[s]) \in Seq(CallSet)  BY <1>1, <1>3
  <2> HIDE DEF ss
  <2> QED BY <2>1, <2>2
<1> HIDE DEF ss
<1>5. ss \in Seq(Seq(CallSet)) /\ Len(ss) = n  BY <1>1, <1>4
<1>6. cs \in Seq(CallSet) /\ ToSet(cs) = UNION {ToSet(ss[s]) : s \in 1..n}  BY <1>5, FlattenedSet
<1> HIDE DEF cs
<1>7. \A c : c \in ToSet(cs) <=> \E s \in Slides : c \in ToSet(Hide(s, steps[s]))
  BY <1>1, <1>3, <1>6
<1>8. \A u \in Uuids : /\ ~IsShown(cs, u) /\ ~IsSized(cs, u)
                       /\ IsHidden(cs, u) <=> \E s \in Slides : u \in Images(s, steps[s])
  BY <1>2, <1>7 DEF Orders, IsShown, IsSized, IsHidden
<1>9. Orders(cs, {}, {}, U)  BY <1>6, <1>8 DEF Orders
<1> QED BY <1>1, <1>9

(* The images of the slides next to one. *)
Beside(s, steps) == UNION {Images(t, steps[t]) : t \in {s - 1, s + 1} \cap Slides}

(* What OnNextAction does for a slide. *)
LEMMA ShowsOrders ==
  ASSUME NEW steps, Steps(steps), NEW s \in Slides, steps[s] \in 0..Len(Actions[s])
  PROVE  Orders(Shows(s, steps), Newest(s, steps[s]), Newest(s, steps[s]), Beside(s, steps))
<1> DEFINE before == IF s - 1 \in Slides THEN Hide(s - 1, steps[s - 1]) ELSE <<>>
           after == IF s + 1 \in Slides THEN Hide(s + 1, steps[s + 1]) ELSE <<>>
           B == IF s - 1 \in Slides THEN Images(s - 1, steps[s - 1]) ELSE {}
           A == IF s + 1 \in Slides THEN Images(s + 1, steps[s + 1]) ELSE {}
           N == Newest(s, steps[s])
           k == steps[s]
           next == NextAction(s, k)
<1>1. Shows(s, steps) = next \o (before \o after)  BY DEF Shows, Neighbours
<1>2. Orders(before, {}, {}, B)  BY HideOrders, OrdersNone DEF Steps
<1>3. Orders(after, {}, {}, A)  BY HideOrders, OrdersNone DEF Steps
<1>4. Orders(next, N, N, {})  BY NextActionOrders
<1>5. Beside(s, steps) = B \cup A
  <2>1. \A u : u \in Beside(s, steps) <=> \E t \in {s - 1, s + 1} \cap Slides : u \in Images(t, steps[t])
    BY DEF Beside
  <2>2. \A u : u \in B \cup A <=> \/ s - 1 \in Slides /\ u \in Images(s - 1, steps[s - 1])
                                  \/ s + 1 \in Slides /\ u \in Images(s + 1, steps[s + 1])
    OBVIOUS
  <2> QED BY <2>1, <2>2
<1> HIDE DEF before, after, A, B, N, next
<1>6. Orders(before \o after, {} \cup {}, {} \cup {}, B \cup A)  BY <1>2, <1>3, OrdersBoth
<1> DEFINE both == before \o after
           Z == {} \cup {}
<1>7. Orders(both, Z, Z, B \cup A)  BY <1>6
<1> HIDE DEF both, Z
<1>8. Orders(next \o both, N \cup Z, N \cup Z, {} \cup (B \cup A))  BY <1>4, <1>7, OrdersBoth
<1>9. N \cup Z = N /\ {} \cup (B \cup A) = Beside(s, steps)  BY <1>5 DEF Z
<1> QED BY <1>1, <1>8, <1>9 DEF both, N

-----------------------------------------------------------------------------
(* The slide on the page after the calls of a handler.                     *)

(* Where the images are: a background where it is in its slide, a shape at *)
(* one of the slide's clicks.                                              *)
PlacesFit ==
  /\ place \in [Uuids -> Nat]
  /\ \A u \in Uuids : place[u] <= Len(Actions[SlideOf(u)])
  /\ \A s \in Slides : place[Background(s)] = 0
LastPlaced(s, k) ==
  \A i \in 1..k : ~HasMoreMoveAction(s, i, k) => place[Shape(s, i)] = i

(* UpdateSizes puts every shape where the last of its clicks so far does.  *)
LEMMA UpdateSizesPlaces ==
  ASSUME PlacesFit, NEW s \in Slides, NEW k \in 0..Len(Actions[s]), UpdateSizes(s, k)
  PROVE  /\ PlacesFit'
         /\ \A i \in 1..k : ~HasMoreMoveAction(s, i, k) => place'[Shape(s, i)] = i
<1> DEFINE n == Len(Actions[s])
           moved == ToSet(ShapesTo(s, k))
           at(u) == CHOOSE i \in 1..k : Shape(s, i) = u /\ ~HasMoreMoveAction(s, i, k)
<1>1. n \in Nat /\ k \in Nat /\ k <= n /\ Clicks(s, k)  BY SlidesAreNumbered DEF Clicks
<1>2. moved = {Shape(s, i) : i \in 1..k}  BY <1>1, ImagesListed
<1>3. place' = [u \in Uuids |-> IF u \in moved THEN at(u) ELSE place[u]]
  BY DEF UpdateSizes
<1> HIDE DEF moved
<1>4. ASSUME NEW u \in moved
      PROVE  at(u) \in 1..k /\ Shape(s, at(u)) = u /\ ~HasMoreMoveAction(s, at(u), k)
  <2>1. PICK i \in 1..k : u = Shape(s, i)  BY <1>2
  <2>2. \E j \in 1..k : Shape(s, j) = u /\ ~HasMoreMoveAction(s, j, k)  BY <2>1, LastClick
  <2> QED BY <2>2
<1> HIDE DEF at
<1>5. \A u \in Uuids : place'[u] = IF u \in moved THEN at(u) ELSE place[u]  BY <1>3
<1>6. \A u \in moved : SlideOf(u) = s
  <2>1. \A i \in 1..k : i \in 1..Len(Actions[s])  BY <1>1
  <2> QED BY <1>2, <2>1, ImagesAre
<1>7. \A u \in Uuids : place'[u] \in Nat /\ place'[u] <= Len(Actions[SlideOf(u)])
  <2> SUFFICES ASSUME NEW u \in Uuids
               PROVE  place'[u] \in Nat /\ place'[u] <= Len(Actions[SlideOf(u)])
    OBVIOUS
  <2>1. CASE u \in moved
    <3>1. at(u) \in Nat /\ at(u) <= n  BY <1>1, <1>4, <2>1
    <3> QED BY <1>5, <1>6, <2>1, <3>1
  <2>2. CASE u \notin moved
    <3>1. place[u] \in Nat /\ place[u] <= Len(Actions[SlideOf(u)])  BY DEF PlacesFit
    <3> QED BY <1>5, <2>2, <3>1
  <2> QED BY <2>1, <2>2
<1>8. \A t \in Slides : place'[Background(t)] = 0
  <2> SUFFICES ASSUME NEW t \in Slides PROVE place'[Background(t)] = 0
    OBVIOUS
  <2>1. Background(t) \in Uuids /\ Background(t) \notin moved
    <3>1. \A i \in 1..k : i \in 1..Len(Actions[s])  BY <1>1
    <3> QED BY <1>2, <3>1, ImagesAre
  <2> QED BY <1>5, <2>1 DEF PlacesFit
<1>9. PlacesFit'
  <2>1. place' \in [Uuids -> Nat]  BY <1>3, <1>5, <1>7
  <2> QED BY <1>7, <1>8, <2>1 DEF PlacesFit
<1>10. ASSUME NEW i \in 1..k, ~HasMoreMoveAction(s, i, k) PROVE place'[Shape(s, i)] = i
  <2> DEFINE u == Shape(s, i)
  <2>1. u \in moved /\ i \in 1..Len(Actions[s])  BY <1>1, <1>2
  <2>2. u \in Uuids  BY <2>1, ImagesAre
  <2>3. place'[u] = at(u)  BY <1>5, <2>1, <2>2
  <2>4. at(u) \in 1..k /\ Shape(s, at(u)) = u /\ ~HasMoreMoveAction(s, at(u), k)  BY <1>4, <2>1
  <2>5. at(u) = i
    <3> DEFINE j == at(u)
    <3>1. j \in 1..k /\ Shape(s, j) = Shape(s, i) /\ ~HasMoreMoveAction(s, j, k)  BY <2>4
    <3> HIDE DEF j
    <3>2. j = i  BY <1>10, <3>1, LastClickOnce
    <3> QED BY <3>2 DEF j
  <2> QED BY <2>3, <2>5
<1> QED BY <1>9, <1>10

(* What fits is a look that elements may have. *)
LEMMA PlacesLook == PlacesFit' /\ size' \in Sizes => LooksFit
<1> SUFFICES ASSUME PlacesFit', size' \in Sizes, NEW u \in Uuids
             PROVE  Look(place'[u], 0) \in Looks /\ Look(place'[u], size') \in Looks
  BY DEF LooksFit
<1> DEFINE s == SlideOf(u)
           i == place'[u]
<1>1. s \in Slides /\ i \in Nat /\ i <= Len(Actions[s])
  BY ImagesAre DEF PlacesFit
<1>2. Len(Actions[s]) \in Nat  BY <1>1, SlidesAreNumbered
<1> HIDE DEF s, i
<1>3. i \in 0..Len(Actions[s])  BY <1>1, <1>2
<1>4. size' \in Sizes \cup {0} /\ 0 \in Sizes \cup {0}  OBVIOUS
<1>5. \A t \in Slides : \A j \in 0..Len(Actions[t]) : \A z \in Sizes \cup {0} : Look(j, z) \in Looks
  BY SlidesAssumption
<1>6. Look(i, 0) \in Looks /\ Look(i, size') \in Looks  BY <1>1, <1>3, <1>4, <1>5
<1> QED BY <1>6 DEF i

(* The images of a slide's clicks so far are seen; nothing else is, unless *)
(* the user goes back; in a lesson the shapes lie above the background;    *)
(* and all is where it is wanted.                                          *)
AreSeen(b, p, s, k) ==
  /\ \A u \in Images(s, k) : u \in b.added[p] /\ u \in Seen(b, p)
  /\ "previous" \notin usage => Seen(b, p) \subseteq Images(s, k)
LieAbove(b, p, s, k) ==
  ~Live => \A i \in 1..k : Above(b.shown[p], Shape(s, i), Background(s))
ArePut(b, p, s, k) == \A u \in Images(s, k) : At(b, p, u) = Wanted(u)

(* Only images are ever seen. *)
LEMMA SeenAreImages ==
  ASSUME NEW b \in Boards, NEW p \in PageIds
  PROVE  Seen(b, p) \subseteq Uuids
<1>1. b.drawn[p] \in Seq(Uuids) /\ b.shown[p] \in Seq(Uuids)  BY BoardParts
<1> QED BY <1>1, InList DEF Seen

(* The images of the clicks of a slide. *)
LEMMA ClickedImages ==
  ASSUME NEW s \in Slides, NEW k \in 0..Len(Actions[s])
  PROVE  /\ Clicks(s, k) /\ Images(s, k) \subseteq Uuids /\ Background(s) \in Images(s, k)
         /\ Newest(s, k) \subseteq Images(s, k)
         /\ \A u \in Images(s, k) : u \in Newest(s, k) \/ (k # 0 /\ u = Background(s))
         /\ \A i \in 1..k : /\ Shape(s, i) \in Images(s, k) /\ Shape(s, i) # Background(s)
                            /\ k # 0 /\ Shape(s, i) \in Newest(s, k)
         /\ \A u \in Images(s, k) : SlideOf(u) = s
         /\ k # 0 => Background(s) \notin Newest(s, k)
<1>1. k \in Nat /\ k <= Len(Actions[s]) /\ Len(Actions[s]) \in Nat  BY SlidesAreNumbered
<1>2. Clicks(s, k)  BY <1>1 DEF Clicks
<1>3. Images(s, k) \subseteq Uuids  BY <1>2, ImagesListed
<1>4. \A i \in 1..k : i \in 1..Len(Actions[s])  BY <1>1
<1>5. \A i \in 1..k : Shape(s, i) # Background(s) /\ SlideOf(Shape(s, i)) = s /\ k # 0
  BY <1>1, <1>4, ImagesAre
<1>6. SlideOf(Background(s)) = s  BY ImagesAre
<1> QED BY <1>2, <1>3, <1>5, <1>6 DEF Images, Newest

(* SetNewSize, when the slide is seen. *)
LEMMA ResizedSlide ==
  ASSUME NEW b \in Boards, NEW p \in PageIds, LooksFit, NEW s \in Slides,
         NEW k \in 0..Len(Actions[s]), AreSeen(b, p, s, k), LieAbove(b, p, s, k),
         NEW e \in Calls(b, p, SetNewSize(s, k))
  PROVE  AreSeen(e, p, s, k) /\ LieAbove(e, p, s, k) /\ ArePut(e, p, s, k)
<1> DEFINE cs == SetNewSize(s, k)
           I == Images(s, k)
           bg == Background(s)
<1>1. /\ Clicks(s, k) /\ I \subseteq Uuids /\ bg \in I
      /\ \A i \in 1..k : Shape(s, i) \in I /\ Shape(s, i) # bg
  BY ClickedImages
<1>2. cs \in Seq(CallSet) /\ \A u \in Uuids : ~IsShown(cs, u) /\ ~IsHidden(cs, u)
                                              /\ (IsSized(cs, u) <=> u \in I)
  BY <1>1, HideOrders DEF Orders
<1>3. /\ \A u \in I : u \in b.added[p] /\ u \in Seen(b, p)
      /\ "previous" \notin usage => Seen(b, p) \subseteq I
  BY DEF AreSeen
<1> HIDE DEF cs, I, bg
<1>4. e \in Calls(b, p, cs)  BY DEF cs
<1>5. e \in Boards  BY <1>2, <1>4, PagesAfter
<1>6. \A u \in I : u \in e.added[p] /\ u \in Seen(e, p)
  <2> SUFFICES ASSUME NEW u \in I PROVE u \in e.added[p] \cap Seen(e, p)
    OBVIOUS
  <2>1. u \in Uuids /\ ~IsHidden(cs, u) /\ u \in b.added[p] \cap Seen(b, p)  BY <1>1, <1>2, <1>3
  <2> QED BY <1>2, <1>4, <2>1, SeenAfter
<1>7. \A u \in I : At(e, p, u) = Wanted(u)
  <2> SUFFICES ASSUME NEW u \in I PROVE At(e, p, u) = Wanted(u)
    OBVIOUS
  <2>1. u \in Uuids /\ IsSized(cs, u)  BY <1>1, <1>2
  <2> QED BY <1>2, <1>4, <2>1, PutAfter
<1>8. "previous" \notin usage => Seen(e, p) \subseteq I
  <2> SUFFICES ASSUME "previous" \notin usage, NEW u \in Seen(e, p), u \notin I PROVE FALSE
    OBVIOUS
  <2>1. u \in Uuids  BY <1>5, SeenAreImages
  <2>2. u \notin Seen(b, p) /\ ~IsShown(cs, u) /\ ~IsSized(cs, u)  BY <1>2, <1>3, <2>1
  <2> QED BY <1>2, <1>4, <2>1, <2>2, NotSeenAfter
<1>9. LieAbove(e, p, s, k)
  <2> SUFFICES ASSUME ~Live, NEW i \in 1..k PROVE Above(e.shown[p], Shape(s, i), bg)
    BY DEF LieAbove, bg
  <2> DEFINE u == Shape(s, i)
  <2>1. u \in Uuids /\ u # bg /\ bg \in b.added[p] /\ ~IsHidden(cs, u) /\ ~IsShown(cs, bg)
    BY <1>1, <1>2, <1>3
  <2>2. Above(b.shown[p], u, bg)  BY DEF LieAbove, bg
  <2> HIDE DEF u
  <2>3. Above(e.shown[p], u, bg)  BY <1>2, <1>4, <2>1, <2>2, AboveAfter
  <2> QED BY <2>3 DEF u
<1>10. AreSeen(e, p, s, k)  BY <1>6, <1>8 DEF AreSeen, I
<1>11. ArePut(e, p, s, k)  BY <1>7 DEF ArePut, I
<1> QED BY <1>9, <1>10, <1>11

(* OnNextAction and OnPreviousAction: the slide is seen if its background  *)
(* was, or is shown, and nothing was seen but the slide and its neighbours.*)
LEMMA ShownSlide ==
  ASSUME NEW b \in Boards, NEW p \in PageIds, LooksFit, NEW steps, Steps(steps),
         NEW s \in Slides, NEW k \in 0..Len(Actions[s]), k = steps[s],
         k # 0 => /\ Background(s) \in b.added[p] /\ Background(s) \in Seen(b, p)
                  /\ At(b, p, Background(s)) = Wanted(Background(s)),
         "previous" \notin usage => Seen(b, p) \subseteq Images(s, k) \cup Beside(s, steps),
         NEW e \in Calls(b, p, Shows(s, steps))
  PROVE  AreSeen(e, p, s, k) /\ LieAbove(e, p, s, k) /\ ArePut(e, p, s, k)
<1> DEFINE cs == Shows(s, steps)
           I == Images(s, k)
           N == Newest(s, k)
           B == Beside(s, steps)
           bg == Background(s)
<1>1. /\ I \subseteq Uuids /\ bg \in I /\ N \subseteq I
      /\ \A u \in I : u \in N \/ (k # 0 /\ u = bg)
      /\ \A i \in 1..k : Shape(s, i) \in I /\ Shape(s, i) # bg /\ k # 0 /\ Shape(s, i) \in N
      /\ k # 0 => bg \notin N
  BY ClickedImages
<1>2. Orders(cs, N, N, B)  BY ShowsOrders
<1>3. /\ cs \in Seq(CallSet)
      /\ \A u \in Uuids : (IsShown(cs, u) <=> u \in N) /\ (IsSized(cs, u) <=> u \in N)
                          /\ (IsHidden(cs, u) <=> u \in B)
  BY <1>2 DEF Orders
<1>4. I \cap B = {}
  <2> SUFFICES ASSUME NEW u \in I, u \in B PROVE FALSE
    OBVIOUS
  <2>1. SlideOf(u) = s  BY ClickedImages
  <2>2. PICK t \in {s - 1, s + 1} \cap Slides : u \in Images(t, steps[t])  BY DEF Beside
  <2>3. SlideOf(u) = t
    <3>1. Clicks(t, steps[t])  BY <2>2 DEF Steps
    <3>2. u = Background(t) \/ \E i \in 1..steps[t] : u = Shape(t, i)  BY <2>2 DEF Images
    <3>3. \A i \in 1..steps[t] : i \in 1..Len(Actions[t])  BY <3>1, SlidesAreNumbered DEF Clicks
    <3> QED BY <2>2, <3>2, <3>3, ImagesAre
  <2> QED BY <2>1, <2>2, <2>3, SlidesAreNumbered
<1>5. /\ k # 0 => bg \in b.added[p] /\ bg \in Seen(b, p) /\ At(b, p, bg) = Wanted(bg)
      /\ "previous" \notin usage => Seen(b, p) \subseteq I \cup B
  OBVIOUS
<1> HIDE DEF cs, I, N, B, bg
<1>6. e \in Calls(b, p, cs)  BY DEF cs
<1>7. e \in Boards  BY <1>3, <1>6, PagesAfter
<1>8. \A u \in I : u \in e.added[p] /\ u \in Seen(e, p)
  <2> SUFFICES ASSUME NEW u \in I PROVE u \in e.added[p] \cap Seen(e, p)
    OBVIOUS
  <2>1. u \in Uuids /\ ~IsHidden(cs, u)  BY <1>1, <1>3, <1>4
  <2>2. IsShown(cs, u) \/ u \in b.added[p] \cap Seen(b, p)  BY <1>1, <1>3, <1>5, <2>1
  <2> QED BY <1>3, <1>6, <2>1, <2>2, SeenAfter
<1>9. \A u \in I : At(e, p, u) = Wanted(u)
  <2> SUFFICES ASSUME NEW u \in I PROVE At(e, p, u) = Wanted(u)
    OBVIOUS
  <2>1. u \in Uuids /\ (IsSized(cs, u) \/ (u \in b.added[p] /\ At(b, p, u) = Wanted(u)))
    BY <1>1, <1>3, <1>5
  <2> QED BY <1>3, <1>6, <2>1, PutAfter
<1>10. "previous" \notin usage => Seen(e, p) \subseteq I
  <2> SUFFICES ASSUME "previous" \notin usage, NEW u \in Seen(e, p), u \notin I PROVE FALSE
    OBVIOUS
  <2>1. u \in Uuids  BY <1>7, SeenAreImages
  <2>2. ~IsShown(cs, u) /\ ~IsSized(cs, u) /\ (u \notin Seen(b, p) \/ IsHidden(cs, u))
    BY <1>1, <1>3, <1>5, <2>1
  <2> QED BY <1>3, <1>6, <2>1, <2>2, NotSeenAfter
<1>11. LieAbove(e, p, s, k)
  <2> SUFFICES ASSUME ~Live, NEW i \in 1..k PROVE Above(e.shown[p], Shape(s, i), bg)
    BY DEF LieAbove, bg
  <2> DEFINE u == Shape(s, i)
  <2>1. /\ u \in Uuids /\ u # bg /\ bg \in b.added[p] /\ ~IsHidden(cs, u) /\ ~IsShown(cs, bg)
        /\ IsShown(cs, u)
    BY <1>1, <1>3, <1>4, <1>5
  <2> HIDE DEF u
  <2>2. Above(e.shown[p], u, bg)  BY <1>3, <1>6, <2>1, AboveAfter
  <2> QED BY <2>2 DEF u
<1>12. AreSeen(e, p, s, k)  BY <1>8, <1>10 DEF AreSeen, I
<1>13. ArePut(e, p, s, k)  BY <1>9 DEF ArePut, I
<1> QED BY <1>11, <1>12, <1>13

(* HideAll, when no image but those of the clicks so far was seen.         *)
LEMMA AllHidden ==
  ASSUME NEW b \in Boards, NEW p \in PageIds, LooksFit, NEW steps, Steps(steps),
         NEW e \in Calls(b, p, HideAll(steps))
  PROVE  /\ e \in Boards
         /\ "previous" \notin usage /\ (\A u \in Seen(b, p) : \E s \in Slides : u \in Images(s, steps[s]))
              => Seen(e, p) = {}
<1> DEFINE cs == HideAll(steps)
           H == UNION {Images(s, steps[s]) : s \in Slides}
<1>1. Orders(cs, {}, {}, H)  BY HideAllOrders
<1>2. /\ cs \in Seq(CallSet)
      /\ \A u \in Uuids : ~IsShown(cs, u) /\ ~IsSized(cs, u) /\ (IsHidden(cs, u) <=> u \in H)
  BY <1>1 DEF Orders
<1>3. \A u : u \in H <=> \E s \in Slides : u \in Images(s, steps[s])  OBVIOUS
<1> HIDE DEF cs, H
<1>4. e \in Calls(b, p, cs)  BY DEF cs
<1>5. e \in Boards  BY <1>2, <1>4, PagesAfter
<1>6. ASSUME \A u \in Seen(b, p) : \E s \in Slides : u \in Images(s, steps[s]), NEW u \in Seen(e, p)
      PROVE  FALSE
  <2>1. u \in Uuids  BY <1>5, SeenAreImages
  <2>2. u \notin Seen(b, p) \/ IsHidden(cs, u)  BY <1>2, <1>3, <1>6, <2>1
  <2>3. ~IsShown(cs, u) /\ ~IsSized(cs, u)  BY <1>2, <2>1
  <2> QED BY <1>2, <1>4, <2>1, <2>2, <2>3, NotSeenAfter
<1> QED BY <1>5, <1>6

(* ChangeParent: the slide is taken to a page on which nothing is seen but *)
(* images of the clicks so far.                                            *)
LEMMA MovedSlide ==
  ASSUME NEW b \in Boards, NEW p \in PageIds, LooksFit, NEW steps, Steps(steps),
         NEW s \in Slides, NEW k \in 0..Len(Actions[s]), k = steps[s],
         "previous" \notin usage =>
            \A u \in Seen(b, p) : \E t \in Slides : u \in Images(t, steps[t]),
         NEW e \in Calls(b, p, HideAll(steps) \o UpdateBanBase(s, k) \o NextAction(s, k)
                                 \o SetNewSize(s, k))
  PROVE  AreSeen(e, p, s, k) /\ LieAbove(e, p, s, k) /\ ArePut(e, p, s, k)
<1> DEFINE hides == HideAll(steps)
           shows == UpdateBanBase(s, k)
           new == NextAction(s, k)
           sizes == SetNewSize(s, k)
           first == hides \o shows
           second == first \o new
           I == Images(s, k)
           N == Newest(s, k)
           bg == Background(s)
<1>1. /\ Clicks(s, k) /\ I \subseteq Uuids /\ bg \in I /\ N \subseteq I
      /\ \A i \in 1..k : Shape(s, i) \in I /\ Shape(s, i) # bg /\ k # 0 /\ Shape(s, i) \in N
      /\ k # 0 => bg \notin N
  BY ClickedImages
<1>2. /\ Orders(shows, I, I, {}) /\ Orders(new, N, N, {}) /\ Orders(sizes, {}, I, {})
  BY <1>1, UpdateBanBaseOrders, NextActionOrders, HideOrders
<1>3. hides \in Seq(CallSet)  BY HideAllOrders DEF Orders
<1>4. /\ shows \in Seq(CallSet) /\ new \in Seq(CallSet) /\ sizes \in Seq(CallSet)
      /\ \A u \in Uuids : /\ (IsShown(shows, u) <=> u \in I) /\ (IsSized(shows, u) <=> u \in I)
                          /\ ~IsHidden(shows, u)
                          /\ (IsShown(new, u) <=> u \in N) /\ (IsSized(new, u) <=> u \in N)
                          /\ ~IsHidden(new, u)
  BY <1>2 DEF Orders
<1>5. e \in Calls(b, p, second \o sizes)  OBVIOUS
<1> HIDE DEF hides, shows, new, sizes, I, N, bg
<1>6. first \in Seq(CallSet)  BY <1>3, <1>4, ConcatSet
<1> HIDE DEF first
<1>7. second \in Seq(CallSet)  BY <1>4, <1>6, ConcatSet
<1> HIDE DEF second
<1>8. PICK b3 \in Calls(b, p, second) : b3 \in Boards /\ e \in Calls(b3, p, sizes)
  BY <1>4, <1>5, <1>7, CallsTwice
<1>9. PICK b2 \in Calls(b, p, first) : b2 \in Boards /\ b3 \in Calls(b2, p, new)
  <2>1. b3 \in Calls(b, p, first \o new)  BY <1>8 DEF second
  <2> QED BY <1>4, <1>6, <2>1, CallsTwice
<1>10. PICK b1 \in Calls(b, p, hides) : b1 \in Boards /\ b2 \in Calls(b1, p, shows)
  <2>1. b2 \in Calls(b, p, hides \o shows)  BY <1>9 DEF first
  <2> QED BY <1>3, <1>4, <2>1, CallsTwice
<1>11. "previous" \notin usage => Seen(b1, p) = {}
  <2>1. b1 \in Calls(b, p, HideAll(steps))  BY <1>10 DEF hides
  <2> QED BY <2>1, AllHidden
<1>12. AreSeen(b2, p, s, k)
  <2>1. ASSUME NEW u \in I PROVE u \in b2.added[p] \cap Seen(b2, p)
    <3>1. u \in Uuids /\ IsShown(shows, u) /\ ~IsHidden(shows, u)  BY <1>1, <1>4
    <3> QED BY <1>4, <1>10, <3>1, SeenAfter
  <2>2. ASSUME "previous" \notin usage, NEW u \in Seen(b2, p), u \notin I PROVE FALSE
    <3>1. u \in Uuids  BY <1>9, SeenAreImages
    <3>2. u \notin Seen(b1, p) /\ ~IsShown(shows, u) /\ ~IsSized(shows, u)
      BY <1>4, <1>11, <2>2, <3>1
    <3> QED BY <1>4, <1>10, <2>2, <3>1, <3>2, NotSeenAfter
  <2> QED BY <2>1, <2>2, Zenon DEF AreSeen, I
<1>13. AreSeen(b3, p, s, k)
  <2>0. /\ \A u \in I : u \in b2.added[p] /\ u \in Seen(b2, p)
        /\ "previous" \notin usage => Seen(b2, p) \subseteq I
    BY <1>12 DEF AreSeen, I
  <2>1. ASSUME NEW u \in I PROVE u \in b3.added[p] \cap Seen(b3, p)
    <3>1. u \in Uuids /\ ~IsHidden(new, u) /\ u \in b2.added[p] \cap Seen(b2, p)
      BY <1>1, <1>4, <2>0
    <3> QED BY <1>4, <1>9, <3>1, SeenAfter
  <2>2. ASSUME "previous" \notin usage, NEW u \in Seen(b3, p), u \notin I PROVE FALSE
    <3>1. u \in Uuids  BY <1>8, SeenAreImages
    <3>2. u \notin Seen(b2, p) /\ ~IsShown(new, u) /\ ~IsSized(new, u)
      BY <1>1, <1>4, <2>0, <2>2, <3>1
    <3> QED BY <1>4, <1>9, <2>2, <3>1, <3>2, NotSeenAfter
  <2> QED BY <2>1, <2>2, Zenon DEF AreSeen, I
<1>14. LieAbove(b3, p, s, k)
  <2> SUFFICES ASSUME ~Live, NEW i \in 1..k PROVE Above(b3.shown[p], Shape(s, i), bg)
    BY DEF LieAbove, bg
  <2> DEFINE u == Shape(s, i)
  <2>1. bg \in b2.added[p]  BY <1>1, <1>12 DEF AreSeen, I
  <2>2. u \in Uuids /\ u # bg /\ bg \in Uuids /\ ~IsHidden(new, u) /\ ~IsShown(new, bg) /\ IsShown(new, u)
    BY <1>1, <1>4
  <2> HIDE DEF u
  <2>3. Above(b3.shown[p], u, bg)  BY <1>4, <1>9, <2>1, <2>2, AboveAfter
  <2> QED BY <2>3 DEF u
<1>15. e \in Calls(b3, p, SetNewSize(s, k))  BY <1>8 DEF sizes
<1> QED BY <1>8, <1>13, <1>14, <1>15, ResizedSlide

(* OnAddSlidePresenter, on a page on which nothing is seen.                *)
LEMMA BegunSlide ==
  ASSUME NEW b \in Boards, NEW p \in PageIds, LooksFit, NEW steps, Steps(steps),
         NEW new, Steps(new), new[1] = 0, Seen(b, p) = {},
         NEW e \in Calls(b, p, HideAll(steps) \o Shows(1, new) \o SetNewSize(1, 0))
  PROVE  AreSeen(e, p, 1, 0) /\ LieAbove(e, p, 1, 0) /\ ArePut(e, p, 1, 0)
<1> DEFINE hides == HideAll(steps)
           shows == Shows(1, new)
           sizes == SetNewSize(1, 0)
           first == hides \o shows
<1>1. 1 \in Slides /\ 0 \in 0..Len(Actions[1]) /\ Clicks(1, 0)
  BY SlidesAreNumbered DEF Clicks
<1>2. hides \in Seq(CallSet) /\ shows \in Seq(CallSet) /\ sizes \in Seq(CallSet)
  BY <1>1, HideAllOrders, ShowsOrders, HideOrders DEF Orders
<1>3. e \in Calls(b, p, first \o sizes)  OBVIOUS
<1> HIDE DEF hides, shows, sizes
<1>4. first \in Seq(CallSet)  BY <1>2, ConcatSet
<1> HIDE DEF first
<1>5. PICK b2 \in Calls(b, p, first) : b2 \in Boards /\ e \in Calls(b2, p, sizes)
  BY <1>2, <1>3, <1>4, CallsTwice
<1>6. PICK b1 \in Calls(b, p, hides) : b1 \in Boards /\ b2 \in Calls(b1, p, shows)
  <2>1. b2 \in Calls(b, p, hides \o shows)  BY <1>5 DEF first
  <2> QED BY <1>2, <2>1, CallsTwice
<1>7. "previous" \notin usage => Seen(b1, p) = {}
  <2>1. b1 \in Calls(b, p, HideAll(steps))  BY <1>6 DEF hides
  <2> QED BY <2>1, AllHidden
<1>8. AreSeen(b2, p, 1, 0) /\ LieAbove(b2, p, 1, 0)
  <2>1. b2 \in Calls(b1, p, Shows(1, new))  BY <1>6 DEF shows
  <2>2. "previous" \notin usage => Seen(b1, p) \subseteq Images(1, 0) \cup Beside(1, new)
    BY <1>7
  <2>3. 0 = new[1]  OBVIOUS
  <2> QED BY <1>1, <1>6, <2>1, <2>2, <2>3, ShownSlide
<1>9. e \in Calls(b2, p, SetNewSize(1, 0))  BY <1>5 DEF sizes
<1> QED BY <1>1, <1>5, <1>8, <1>9, ResizedSlide

-----------------------------------------------------------------------------
(* The invariant.                                                          *)

(* The slide is on the presenter's page, where its images are wanted.      *)
SlideSeen == index # 0 =>
  /\ AreSeen(board, page, index, step[index]) /\ LieAbove(board, page, index, step[index])
  /\ \A u \in Images(index, step[index]) : At(board, page, u) = Look(place[u], size)
  /\ LastPlaced(index, step[index])

(* Unless the user goes back, every page shows only images of the clicks   *)
(* so far, which HideAll hides; before the presenter is there, none.       *)
OthersHidden == \A q \in PageIds :
  /\ index = 0 => Seen(board, q) = {}
  /\ "previous" \notin usage =>
       \A u \in Seen(board, q) : \E s \in Slides : u \in Images(s, step[s])

AllDrawnOnce == \A q \in PageIds : DrawnOnce(board, q)
FewCopies == \A u \in Uuids : board.peer.copies[u] <= MaxCopies

Inv ==
  /\ StepsInOrder /\ PlacesFit
  /\ size \in Sizes /\ page \in PageIds /\ usage \in Usages
  /\ board \in Boards /\ FewCopies
  /\ SlideSeen /\ OthersHidden /\ AllDrawnOnce

(* The slides' steps are clicks. *)
LEMMA StepsAreClicks ==
  ASSUME StepsInOrder
  PROVE  /\ Steps(step)
         /\ index # 0 => index \in Slides /\ step[index] \in 0..Len(Actions[index])
<1>1. /\ step \in [Slides -> Int] /\ index \in Slides \cup {0}
      /\ \A s \in Slides : /\ s < index => step[s] = Len(Actions[s])
                           /\ s = index => step[s] \in 0..Len(Actions[s])
                           /\ s > index => step[s] = -1
  BY DEF StepsInOrder
<1>2. /\ \A s \in Slides : s \in Int /\ Len(Actions[s]) \in Nat
      /\ index \in Int
  BY <1>1, SlidesAreNumbered
<1>3. \A s \in Slides : Clicks(s, step[s])
  <2> SUFFICES ASSUME NEW s \in Slides PROVE Clicks(s, step[s])
    OBVIOUS
  <2>1. s < index \/ s = index \/ s > index  BY <1>2
  <2> QED BY <1>1, <1>2, <2>1 DEF Clicks
<1> QED BY <1>1, <1>3 DEF Steps

(* In the beginning. *)
LEMMA InitInv == Init => Inv
<1> SUFFICES ASSUME Init PROVE Inv
  OBVIOUS
<1>1. /\ index = 0 /\ place = [u \in Uuids |-> 0] /\ size \in Sizes /\ page \in PageIds
      /\ board = EmptyBoard /\ usage \in Usages
  BY DEF Init
<1>2. StepsInOrder  BY InitSteps
<1>3. PlacesFit
  <2>1. \A s \in Slides : Background(s) \in Uuids /\ Len(Actions[s]) \in Nat
    BY ImagesAre, SlidesAreNumbered
  <2>2. \A u \in Uuids : SlideOf(u) \in Slides  BY ImagesAre
  <2> QED BY <1>1, <2>1, <2>2 DEF PlacesFit
<1> DEFINE none == [p \in PageIds |-> {}]
           no == [p \in PageIds |-> <<>>]
           l == [p \in PageIds |-> [u \in Uuids |-> Look(0, 0)]]
           q == EmptyPage(TRUE)
<1>4. Look(0, 0) \in Looks
  <2>1. 1 \in Slides /\ 0 \in 0..Len(Actions[1]) /\ 0 \in Sizes \cup {0}  BY SlidesAreNumbered
  <2> QED BY <2>1, SlidesAssumption
<1>5. /\ none \in [PageIds -> SUBSET Uuids] /\ no \in [PageIds -> Seq(Uuids)]
      /\ l \in [PageIds -> [Uuids -> Looks]]
      /\ \A p \in PageIds : none[p] = {} /\ no[p] = <<>>
  <2>1. <<>> \in Seq(Uuids)  OBVIOUS
  <2> QED BY <1>4, <2>1
<1>6. q \in Peers /\ \A u \in Uuids : q.copies[u] = 0
  <2>1. Shaped(q)  BY ShapedEmpty
  <2>2. q.copies = [u \in Uuids |-> 0]  BY DEF EmptyPage
  <2> HIDE DEF q
  <2> QED BY <2>1, <2>2 DEF Shaped, Peers
<1>7. EmptyBoard = [added |-> none, drawn |-> no, look |-> l, shown |-> no, at |-> l,
                    peer |-> q, turning |-> FALSE]
  BY DEF EmptyBoard
<1> HIDE DEF none, no, l, q
<1>8. board \in Boards  BY <1>1, <1>5, <1>6, <1>7 DEF Boards
<1>9. board.peer = q /\ board.drawn = no /\ board.shown = no  BY <1>1, <1>7
<1>10. FewCopies
  <2>1. MaxCopies \in Nat \ {0}  BY SlidesAssumption
  <2> QED BY <1>6, <1>9, <2>1 DEF FewCopies
<1>11. \A p \in PageIds : Seen(board, p) = {} /\ DrawnOnce(board, p)
  <2> SUFFICES ASSUME NEW p \in PageIds PROVE Seen(board, p) = {} /\ DrawnOnce(board, p)
    OBVIOUS
  <2> DEFINE s == board.drawn[p]
  <2>1. s = <<>> /\ board.shown[p] = s  BY <1>5, <1>9
  <2>2. s \in Seq(Uuids) /\ Len(s) = 0  BY <2>1
  <2> HIDE DEF s
  <2>3. ToSet(s) = {s[i] : i \in 1..0} /\ DOMAIN s = 1..0  BY <2>2, InList
  <2>4. ToSet(s) = {} /\ Distinct(s)  BY <2>3 DEF Distinct
  <2> QED BY <2>1, <2>4 DEF Seen, DrawnOnce, s
<1> QED BY <1>1, <1>2, <1>3, <1>8, <1>10, <1>11 DEF Inv, SlideSeen, OthersHidden, AllDrawnOnce

(* A step keeps the invariant if it leaves the slide on the presenter's    *)
(* page and the other pages alone, and loses no click.                     *)
LEMMA StepKeeps ==
  ASSUME Inv, StepsInOrder', PlacesFit', usage' = usage, size' \in Sizes, page' \in PageIds,
         index' # 0, board' \in Boards, FewCopies', Elsewhere(board, board', page'),
         DrawnOnce(board, page') => DrawnOnce(board', page'),
         AreSeen(board', page', index', step'[index']),
         LieAbove(board', page', index', step'[index']),
         ArePut(board', page', index', step'[index']), LastPlaced(index, step[index])',
         "previous" \notin usage =>
           \A s \in Slides : Images(s, step[s]) \subseteq Images(s, step'[s])
  PROVE  Inv'
<1>1. Live' = Live  BY DEF Live
<1>2. \A q \in PageIds : Seen(board, q)' = Seen(board', q)
  BY <1>1 DEF Seen
<1>3. SlideSeen'
  <2>1. AreSeen(board, page, index, step[index])'
    <3>1. Seen(board, page)' = Seen(board', page')  BY <1>1 DEF Seen
    <3> QED BY <3>1 DEF AreSeen
  <2>2. LieAbove(board, page, index, step[index])'  BY <1>1 DEF LieAbove
  <2>3. \A u \in Images(index', step'[index']) : At(board, page, u)' = Look(place'[u], size')
    BY <1>1 DEF ArePut, Wanted, At
  <2> QED BY <2>1, <2>2, <2>3 DEF SlideSeen, Images
<1>4. \A q \in PageIds \ {page'} : /\ Seen(board', q) = Seen(board, q)
                                   /\ DrawnOnce(board, q) => DrawnOnce(board', q)
  BY DEF Elsewhere, Seen, DrawnOnce
<1>5. OthersHidden'
  <2>1. ASSUME NEW q \in PageIds, "previous" \notin usage, NEW u \in Seen(board', q)
        PROVE  \E s \in Slides : u \in Images(s, step'[s])
    <3>1. CASE q = page'
      <4>1. u \in Images(index', step'[index'])  BY <2>1, <3>1 DEF AreSeen
      <4>2. index' \in Slides  BY DEF StepsInOrder
      <4> QED BY <4>1, <4>2
    <3>2. CASE q # page'
      <4>1. u \in Seen(board, q)  BY <1>4, <2>1, <3>2
      <4>2. PICK s \in Slides : u \in Images(s, step[s])  BY <2>1, <4>1 DEF Inv, OthersHidden
      <4> QED BY <2>1, <4>2
    <3> QED BY <3>1, <3>2
  <2>2. \A q \in PageIds : "previous" \notin usage' =>
          \A u \in Seen(board, q)' : \E s \in Slides : u \in Images(s, step'[s])
    BY <1>2, <2>1
  <2> QED BY <2>2 DEF OthersHidden, Images
<1>6. AllDrawnOnce'
  <2>1. \A q \in PageIds : DrawnOnce(board, q)  BY DEF Inv, AllDrawnOnce
  <2>2. \A q \in PageIds : DrawnOnce(board', q)  BY <1>4, <2>1
  <2> QED BY <2>2 DEF AllDrawnOnce, DrawnOnce
<1>7. usage' \in Usages  BY DEF Inv
<1> QED BY <1>3, <1>5, <1>6, <1>7 DEF Inv

(* The methods' calls are calls. *)
LEMMA CallLists ==
  ASSUME NEW steps, Steps(steps), NEW new, Steps(new), NEW s \in Slides,
         NEW k \in 0..Len(Actions[s]), new[s] \in 0..Len(Actions[s])
  PROVE  /\ HideAll(steps) \o Shows(s, new) \o SetNewSize(s, k) \in Seq(CallSet)
         /\ Shows(s, new) \in Seq(CallSet) /\ SetNewSize(s, k) \in Seq(CallSet)
         /\ HideAll(steps) \o UpdateBanBase(s, k) \o NextAction(s, k) \o SetNewSize(s, k)
              \in Seq(CallSet)
<1> DEFINE hides == HideAll(steps)
           shows == Shows(s, new)
           update == UpdateBanBase(s, k)
           click == NextAction(s, k)
           sizes == SetNewSize(s, k)
           one == hides \o shows
           two == hides \o update
           three == two \o click
<1>1. Clicks(s, k)  BY ClickedImages
<1>2. /\ hides \in Seq(CallSet) /\ shows \in Seq(CallSet) /\ update \in Seq(CallSet)
      /\ click \in Seq(CallSet) /\ sizes \in Seq(CallSet)
  BY <1>1, HideAllOrders, ShowsOrders, UpdateBanBaseOrders, NextActionOrders, HideOrders DEF Orders
<1> HIDE DEF hides, shows, update, click, sizes
<1>3. one \in Seq(CallSet) /\ two \in Seq(CallSet)  BY <1>2, ConcatSet
<1> HIDE DEF one, two
<1>4. three \in Seq(CallSet) /\ one \o sizes \in Seq(CallSet)  BY <1>2, <1>3, ConcatSet
<1> HIDE DEF three
<1>5. three \o sizes \in Seq(CallSet)  BY <1>2, <1>4, ConcatSet
<1> QED BY <1>2, <1>4, <1>5 DEF hides, shows, update, click, sizes, one, two, three

(* More clicks, more images. *)
LEMMA ImagesGrow ==
  ASSUME NEW s, NEW k \in Int, NEW j \in Int, k <= j
  PROVE  Images(s, k) \subseteq Images(s, j)
<1>1. \A i \in 1..k : i \in 1..j  OBVIOUS
<1> QED BY <1>1 DEF Images

(* After a step the slides' steps are clicks again. *)
LEMMA StepsAreClicksThen ==
  StepsInOrder' => /\ Steps(step')
                   /\ index' # 0 => index' \in Slides /\ step'[index'] \in 0..Len(Actions[index'])
<1>1. StepsInOrder => /\ Steps(step)
                      /\ index # 0 => index \in Slides /\ step[index] \in 0..Len(Actions[index])
  BY StepsAreClicks
<1>2. StepsInOrder' => /\ Steps(step)'
                       /\ (index # 0 => index \in Slides /\ step[index] \in 0..Len(Actions[index]))'
  BY <1>1, PTL
<1> QED BY <1>2 DEF Steps, Clicks, Slides

(* What Makes says. *)
LEMMA MakesIs ==
  ASSUME NEW p, NEW cs, Makes(p, cs)
  PROVE  board' \in Calls(board, p, cs) /\ FewCopies'
  BY DEF Makes, FewCopies

(* The presenter is added. *)
LEMMA AddKeeps == Inv /\ StepsInOrder' /\ OnAddSlidePresenter => Inv'
<1> SUFFICES ASSUME Inv, StepsInOrder', OnAddSlidePresenter PROVE Inv'
  OBVIOUS
<1> DEFINE cs == HideAll(step) \o Shows(1, step') \o SetNewSize(1, 0)
<1>1. /\ index = 0 /\ index' = 1 /\ step' = [step EXCEPT ![1] = 0] /\ place' = place
      /\ size' = size /\ page' = page /\ usage' = usage /\ Makes(page, cs)
  BY DEF OnAddSlidePresenter
<1>2. StepsInOrder /\ PlacesFit /\ size \in Sizes /\ page \in PageIds /\ board \in Boards
      /\ OthersHidden
  BY DEF Inv
<1>3. PlacesFit' /\ size' \in Sizes /\ page' \in PageIds  BY <1>1, <1>2 DEF PlacesFit
<1>4. LooksFit  BY <1>3, PlacesLook
<1>5. Steps(step) /\ Steps(step') /\ 1 \in Slides /\ 0 \in 0..Len(Actions[1])
  BY <1>2, StepsAreClicks, StepsAreClicksThen, SlidesAreNumbered
<1>6. step' \in [Slides -> Int] /\ step \in [Slides -> Int] /\ step'[1] = 0 /\ step[1] = -1
      /\ \A s \in Slides \ {1} : step'[s] = step[s]
  <2>1. step[1] = -1  BY <1>1, <1>2, <1>5 DEF StepsInOrder
  <2> QED BY <1>1, <1>5, <2>1 DEF Steps
<1> HIDE DEF cs
<1>7. board' \in Calls(board, page, cs) /\ FewCopies'  BY <1>1, MakesIs
<1>8. cs \in Seq(CallSet)  BY <1>5, <1>6, CallLists DEF cs
<1>9. board' \in Boards /\ Elsewhere(board, board', page)
      /\ (DrawnOnce(board, page) => DrawnOnce(board', page))
  BY <1>2, <1>4, <1>7, <1>8, PagesAfter
<1>10. Seen(board, page) = {}  BY <1>1, <1>2 DEF OthersHidden
<1>11. AreSeen(board', page, 1, 0) /\ LieAbove(board', page, 1, 0) /\ ArePut(board', page, 1, 0)
  <2>1. board' \in Calls(board, page, HideAll(step) \o Shows(1, step') \o SetNewSize(1, 0))
    BY <1>7 DEF cs
  <2> QED BY <1>2, <1>4, <1>5, <1>6, <1>10, <2>1, BegunSlide
<1>12. LastPlaced(index, step[index])'
  <2>1. 1..step'[index'] = {}  BY <1>1, <1>6
  <2> QED BY <2>1 DEF LastPlaced
<1>13. \A s \in Slides : Images(s, step[s]) \subseteq Images(s, step'[s])
  <2>1. \A s \in Slides : step[s] \in Int /\ step'[s] \in Int /\ step[s] <= step'[s]  BY <1>6
  <2> QED BY <2>1, ImagesGrow
<1>14. index' # 0 /\ page' = page /\ step'[index'] = 0 /\ index' = 1  BY <1>1, <1>6
<1> QED BY <1>1, <1>3, <1>7, <1>9, <1>11, <1>12, <1>13, <1>14, StepKeeps

(* The slide's background, where it is wanted. *)
LEMMA BackgroundStays ==
  ASSUME Inv, PlacesFit', size' = size, index # 0
  PROVE  LET u == Background(index)
         IN u \in board.added[page] /\ u \in Seen(board, page) /\ At(board, page, u) = Wanted(u)
<1> DEFINE u == Background(index)
<1>1. SlideSeen /\ PlacesFit /\ StepsInOrder  BY DEF Inv
<1>2. index \in Slides /\ u \in Images(index, step[index])  BY <1>1 DEF StepsInOrder, Images
<1>3. place[u] = 0 /\ place'[u] = 0  BY <1>1, <1>2 DEF PlacesFit
<1>4. u \in board.added[page] /\ u \in Seen(board, page) /\ At(board, page, u) = Look(place[u], size)
  BY <1>1, <1>2 DEF SlideSeen, AreSeen
<1> QED BY <1>3, <1>4 DEF Wanted

(* The next click. *)
LEMMA NextKeeps == Inv /\ StepsInOrder' /\ OnNextAction => Inv'
<1> SUFFICES ASSUME Inv, StepsInOrder', OnNextAction PROVE Inv'
  OBVIOUS
<1>1. PICK s \in Slides :
        /\ s = IF step[index] < Len(Actions[index]) THEN index ELSE index + 1
        /\ index' = s /\ step' = [step EXCEPT ![s] = @ + 1] /\ UpdateSizes(s, step'[s])
        /\ size' = size /\ page' = page /\ usage' = usage /\ Makes(page, Shows(s, step'))
  BY DEF OnNextAction
<1>2. index # 0  BY DEF OnNextAction, Does
<1>3. StepsInOrder /\ PlacesFit /\ size \in Sizes /\ page \in PageIds /\ board \in Boards
      /\ SlideSeen /\ OthersHidden
  BY DEF Inv
<1> DEFINE k == step'[s]
           cs == Shows(s, step')
<1>4. /\ Steps(step) /\ Steps(step') /\ index \in Slides /\ step[index] \in 0..Len(Actions[index])
      /\ index' # 0 /\ k \in 0..Len(Actions[s])
  <2>1. s # 0  BY SlidesAreNumbered
  <2> QED BY <1>1, <1>2, <1>3, <2>1, StepsAreClicks, StepsAreClicksThen
<1>5. /\ step \in [Slides -> Int] /\ step' \in [Slides -> Int] /\ k = step[s] + 1
      /\ \A t \in Slides \ {s} : step'[t] = step[t]
  BY <1>1, <1>4 DEF Steps
<1>6. /\ PlacesFit' /\ \A i \in 1..k : ~HasMoreMoveAction(s, i, k) => place'[Shape(s, i)] = i
  BY <1>1, <1>3, <1>4, UpdateSizesPlaces
<1>7. LooksFit /\ size' \in Sizes /\ page' \in PageIds  BY <1>1, <1>3, <1>6, PlacesLook
<1>8. board' \in Calls(board, page, cs) /\ FewCopies'  BY <1>1, MakesIs
<1>9. cs \in Seq(CallSet)  BY <1>4, CallLists
<1>10. board' \in Boards /\ Elsewhere(board, board', page)
       /\ (DrawnOnce(board, page) => DrawnOnce(board', page))
  <2> HIDE DEF cs
  <2> QED BY <1>3, <1>7, <1>8, <1>9, PagesAfter
<1>11. s = index \/ (s = index + 1 /\ k = 0 /\ index = s - 1)
  <2>1. CASE step[index] < Len(Actions[index])  BY <1>1, <2>1
  <2>2. CASE ~(step[index] < Len(Actions[index]))
    <3>1. s = index + 1 /\ index \in Int  BY <1>1, <1>4, <2>2, SlidesAreNumbered
    <3>2. step[s] = -1  BY <1>3, <3>1 DEF StepsInOrder
    <3> QED BY <1>5, <3>1, <3>2
  <2> QED BY <2>1, <2>2
<1>12. k # 0 => /\ Background(s) \in board.added[page] /\ Background(s) \in Seen(board, page)
                /\ At(board, page, Background(s)) = Wanted(Background(s))
  <2> SUFFICES ASSUME k # 0
               PROVE  /\ Background(s) \in board.added[page] /\ Background(s) \in Seen(board, page)
                      /\ At(board, page, Background(s)) = Wanted(Background(s))
    OBVIOUS
  <2>1. s = index  BY <1>11
  <2> QED BY <1>1, <1>2, <1>6, <2>1, BackgroundStays
<1>13. "previous" \notin usage => Seen(board, page) \subseteq Images(s, k) \cup Beside(s, step')
  <2> SUFFICES ASSUME "previous" \notin usage
               PROVE  Seen(board, page) \subseteq Images(s, k) \cup Beside(s, step')
    OBVIOUS
  <2>1. Seen(board, page) \subseteq Images(index, step[index])  BY <1>2, <1>3 DEF SlideSeen, AreSeen
  <2>2. CASE s = index
    <3>1. Images(s, step[s]) \subseteq Images(s, k)
      <4>1. step[s] \in Int /\ k \in Int /\ step[s] <= k  BY <1>5
      <4> HIDE DEF k
      <4> QED BY <4>1, ImagesGrow
    <3> QED BY <2>1, <2>2, <3>1
  <2>3. CASE s = index + 1 /\ index = s - 1
    <3>1. step'[index] = step[index]  BY <1>4, <1>5, <2>3, SlidesAreNumbered
    <3>2. index \in {s - 1, s + 1} \cap Slides  BY <1>4, <2>3
    <3>3. Images(index, step'[index]) \subseteq Beside(s, step')  BY <3>2 DEF Beside
    <3> QED BY <2>1, <3>1, <3>3
  <2> QED BY <1>11, <2>2, <2>3
<1>14. AreSeen(board', page, s, k) /\ LieAbove(board', page, s, k) /\ ArePut(board', page, s, k)
  <2>1. board' \in Calls(board, page, Shows(s, step'))  BY <1>8
  <2> QED BY <1>3, <1>4, <1>7, <1>12, <1>13, <2>1, ShownSlide
<1>15. LastPlaced(index, step[index])'  BY <1>1, <1>6 DEF LastPlaced, HasMoreMoveAction, Shape
<1>16. \A t \in Slides : Images(t, step[t]) \subseteq Images(t, step'[t])
  <2>1. \A t \in Slides : step[t] \in Int /\ step'[t] \in Int /\ step[t] <= step'[t]  BY <1>5
  <2> QED BY <2>1, ImagesGrow
<1>17. AreSeen(board', page', index', step'[index']) /\ LieAbove(board', page', index', step'[index'])
       /\ ArePut(board', page', index', step'[index'])
  BY <1>1, <1>14
<1>18. Elsewhere(board, board', page') /\ (DrawnOnce(board, page') => DrawnOnce(board', page'))
  BY <1>1, <1>10
<1> QED BY <1>1, <1>4, <1>6, <1>7, <1>8, <1>10, <1>15, <1>16, <1>17, <1>18, StepKeeps

(* A step back. *)
LEMMA PreviousKeeps == Inv /\ StepsInOrder' /\ OnPreviousAction => Inv'
<1> SUFFICES ASSUME Inv, StepsInOrder', OnPreviousAction PROVE Inv'
  OBVIOUS
<1>1. /\ index > 1 /\ index' = index - 1 /\ place' = place /\ size' = size /\ page' = page
      /\ usage' = usage /\ Makes(page, Shows(index - 1, step')) /\ "previous" \in usage
      /\ step' = [s \in Slides |-> IF s = index - 1 THEN 0 ELSE IF s >= index THEN -1 ELSE step[s]]
  BY DEF OnPreviousAction, Does
<1>2. StepsInOrder /\ PlacesFit /\ size \in Sizes /\ page \in PageIds /\ board \in Boards
  BY DEF Inv
<1>3. PlacesFit' /\ size' \in Sizes /\ page' \in PageIds  BY <1>1, <1>2 DEF PlacesFit
<1>4. LooksFit  BY <1>3, PlacesLook
<1>5. index \in Slides /\ index - 1 \in Slides /\ index' # 0
  BY <1>1, <1>2, SlidesAreNumbered DEF StepsInOrder
<1> DEFINE s == index - 1
           cs == Shows(s, step')
<1>6. /\ Steps(step') /\ Steps(step) /\ step'[s] = 0 /\ 0 \in 0..Len(Actions[s])
  BY <1>1, <1>2, <1>5, StepsAreClicks, StepsAreClicksThen, SlidesAreNumbered
<1>7. board' \in Calls(board, page, cs) /\ FewCopies'  BY <1>1, MakesIs
<1>8. s \in Slides  BY <1>5
<1> HIDE DEF s
<1>9. cs \in Seq(CallSet)  BY <1>6, <1>8, CallLists
<1>10. board' \in Boards /\ Elsewhere(board, board', page)
       /\ (DrawnOnce(board, page) => DrawnOnce(board', page))
  <2> HIDE DEF cs
  <2> QED BY <1>2, <1>4, <1>7, <1>9, PagesAfter
<1>11. AreSeen(board', page, s, 0) /\ LieAbove(board', page, s, 0) /\ ArePut(board', page, s, 0)
  <2>1. board' \in Calls(board, page, Shows(s, step')) /\ 0 = step'[s]  BY <1>6, <1>7
  <2> QED BY <1>1, <1>2, <1>4, <1>6, <1>8, <2>1, ShownSlide
<1>12. index' = s /\ step'[index'] = 0  BY <1>1, <1>6 DEF s
<1>13. LastPlaced(index, step[index])'
  <2>1. 1..step'[index'] = {}  BY <1>12
  <2> QED BY <2>1 DEF LastPlaced
<1>14. AreSeen(board', page', index', step'[index']) /\ LieAbove(board', page', index', step'[index'])
       /\ ArePut(board', page', index', step'[index'])
  BY <1>1, <1>11, <1>12
<1>15. Elsewhere(board, board', page') /\ (DrawnOnce(board, page') => DrawnOnce(board', page'))
  BY <1>1, <1>10
<1> QED BY <1>1, <1>3, <1>5, <1>7, <1>10, <1>13, <1>14, <1>15, StepKeeps

(* The window is moved or resized. *)
LEMMA ResizeKeeps ==
  ASSUME Inv, StepsInOrder', NEW z \in Sizes, SendSizeAnimation(z)
  PROVE  Inv'
<1> DEFINE s == index
           k == step[index]
           cs == SetNewSize(s, k)
<1>1. /\ index # 0 /\ size' = z /\ index' = index /\ step' = step /\ place' = place
      /\ page' = page /\ usage' = usage /\ Makes(page, cs)
  BY DEF SendSizeAnimation, Does
<1>2. StepsInOrder /\ PlacesFit /\ size \in Sizes /\ page \in PageIds /\ board \in Boards /\ SlideSeen
  BY DEF Inv
<1>3. PlacesFit' /\ size' \in Sizes /\ page' \in PageIds  BY <1>1, <1>2 DEF PlacesFit
<1>4. LooksFit  BY <1>3, PlacesLook
<1>5. Steps(step) /\ s \in Slides /\ k \in 0..Len(Actions[s])  BY <1>1, <1>2, StepsAreClicks
<1>6. board' \in Calls(board, page, cs) /\ FewCopies'  BY <1>1, MakesIs
<1>7. AreSeen(board, page, s, k) /\ LieAbove(board, page, s, k) /\ LastPlaced(s, k)
  BY <1>1, <1>2 DEF SlideSeen
<1> HIDE DEF s, k
<1>8. cs \in Seq(CallSet)
  <2>1. Clicks(s, k)  BY <1>5, ClickedImages
  <2> QED BY <2>1, HideOrders DEF Orders
<1>9. board' \in Boards /\ Elsewhere(board, board', page)
       /\ (DrawnOnce(board, page) => DrawnOnce(board', page))
  <2> HIDE DEF cs
  <2> QED BY <1>2, <1>4, <1>6, <1>8, PagesAfter
<1>10. AreSeen(board', page, s, k) /\ LieAbove(board', page, s, k) /\ ArePut(board', page, s, k)
  <2>1. board' \in Calls(board, page, SetNewSize(s, k))  BY <1>6
  <2> QED BY <1>2, <1>4, <1>5, <1>7, <2>1, ResizedSlide
<1>11. index' = s /\ step'[index'] = k  BY <1>1 DEF s, k
<1>12. LastPlaced(index, step[index])'
  BY <1>1, <1>7, <1>11 DEF LastPlaced, HasMoreMoveAction, Shape
<1>13. AreSeen(board', page', index', step'[index']) /\ LieAbove(board', page', index', step'[index'])
       /\ ArePut(board', page', index', step'[index'])
  BY <1>1, <1>10, <1>11
<1>14. Elsewhere(board, board', page') /\ (DrawnOnce(board, page') => DrawnOnce(board', page'))
  BY <1>1, <1>9
<1>15. \A t \in Slides : Images(t, step[t]) \subseteq Images(t, step'[t])  BY <1>1
<1> QED BY <1>1, <1>3, <1>6, <1>9, <1>12, <1>13, <1>14, <1>15, StepKeeps

(* Boards with the same pages, which may differ in what a peer has.        *)
SamePages(b, c) ==
  /\ c.added = b.added /\ c.drawn = b.drawn /\ c.look = b.look
  /\ c.shown = b.shown /\ c.at = b.at

(* What a page sends of itself. *)
LEMMA ContentIs ==
  ASSUME NEW b \in Boards, NEW p \in PageIds
  PROVE  /\ Content(b, p) \in Seq(Sent) /\ Len(Content(b, p)) = Len(b.drawn[p])
         /\ Len(b.drawn[p]) \in Nat
         /\ \A i \in 1..Len(b.drawn[p]) :
              /\ Content(b, p)[i].id = b.drawn[p][i]
              /\ Content(b, p)[i].look = b.look[p][b.drawn[p][i]]
<1> DEFINE s == b.drawn[p]
           n == Len(s)
           t == [i \in 1..n |-> [id |-> s[i], look |-> b.look[p][s[i]]]]
<1>1. s \in Seq(Uuids) /\ b.look \in [PageIds -> [Uuids -> Looks]]  BY BoardParts
<1>2. n \in Nat /\ DOMAIN s = 1..n /\ \A i \in 1..n : s[i] \in Uuids
  BY <1>1, InList, ElementOfSeq
<1>3. Content(b, p) = t  BY <1>2 DEF Content
<1> HIDE DEF n, s
<1>4. \A i \in 1..n : [id |-> s[i], look |-> b.look[p][s[i]]] \in Sent
  BY <1>1, <1>2 DEF Sent
<1>5. /\ t \in [1..n -> Sent]
      /\ \A i \in 1..n : t[i] = [id |-> s[i], look |-> b.look[p][s[i]]]
  BY <1>4
<1> HIDE DEF t
<1>6. t \in Seq(Sent) /\ Len(t) = n  BY <1>2, <1>5
<1>7. \A i \in 1..n : t[i].id = s[i] /\ t[i].look = b.look[p][s[i]]  BY <1>5
<1> DEFINE c == Content(b, p)
<1>8. c = t  BY <1>3
<1> HIDE DEF c
<1>9. /\ c \in Seq(Sent) /\ Len(c) = n /\ n \in Nat
      /\ \A i \in 1..n : c[i].id = s[i] /\ c[i].look = b.look[p][s[i]]
  BY <1>2, <1>6, <1>7, <1>8
<1> QED BY <1>9 DEF n, s, c

(* The parts of OnSelectPage. *)
Start == [board EXCEPT !.turning = Live]
PeersThen(b, p) == IF Live THEN SetMsgPackData(b.peer, Content(b, p)) ELSE {b.peer}
Chosen(b, q) == [b EXCEPT !.peer = q, !.turning = FALSE]

(* A page is chosen: what comes of the board, whatever calls are made.     *)
LEMMA ChosenPage ==
  ASSUME Inv, NEW p \in PageIds, NEW cs \in Seq(CallSet), LooksFit,
         NEW b \in Calls(Start, p, cs), NEW q \in PeersThen(b, p), NEW c, c = Chosen(b, q)
  PROVE  /\ b \in Boards /\ c \in Boards /\ SamePages(b, c) /\ c.peer = q
         /\ Elsewhere(board, c, p) /\ DrawnOnce(c, p)
         /\ \A u \in Uuids : c.peer.copies[u] <= MaxCopies
         /\ Live => c.peer.drawn = Remade(Content(b, p))
<1>1. board \in Boards /\ FewCopies /\ AllDrawnOnce  BY DEF Inv
<1>2. Start \in Boards /\ SamePages(board, Start) /\ Start.peer = board.peer
  <2>1. Live \in BOOLEAN  BY DEF Live
  <2> DEFINE l == Live
  <2>2. l \in BOOLEAN /\ Start = [board EXCEPT !.turning = l]  BY <2>1 DEF Start
  <2> HIDE DEF l
  <2> QED BY <1>1, <2>2 DEF Boards, SamePages
<1>3. b \in Calls(Start, p, cs)  OBVIOUS
<1>4. b \in Boards /\ Elsewhere(Start, b, p) /\ (DrawnOnce(Start, p) => DrawnOnce(b, p))
  BY <1>2, <1>3, PagesAfter
<1>5. DrawnOnce(b, p)  BY <1>1, <1>2, <1>4 DEF AllDrawnOnce, DrawnOnce, SamePages
<1>6. /\ q \in Peers /\ \A u \in Uuids : q.copies[u] <= MaxCopies
      /\ Live => q.drawn = Remade(Content(b, p))
  <2>1. CASE Live
    <3> DEFINE t == Content(b, p)
               n == Len(b.drawn[p])
    <3>1. Shaped(b.peer)  BY <1>4, BoardParts
    <3>2. /\ t \in Seq(Sent) /\ Len(t) = n /\ n \in Nat
          /\ \A i \in 1..n : t[i].id = b.drawn[p][i]
      BY <1>4, ContentIs
    <3>3. q \in SetMsgPackData(b.peer, t)  BY <2>1 DEF PeersThen
    <3>4. \A i, j \in 1..n : b.drawn[p][i] = b.drawn[p][j] => i = j
      <4>1. DOMAIN b.drawn[p] = 1..n
        <5>1. b.drawn[p] \in Seq(Uuids)  BY <1>4, BoardParts
        <5> QED BY <5>1, InList
      <4> HIDE DEF n
      <4> QED BY <1>5, <4>1 DEF DrawnOnce, Distinct
    <3> HIDE DEF t, n
    <3>5. \A i, j \in 1..Len(t) : t[i].id = t[j].id => i = j  BY <3>2, <3>4
    <3>6. /\ Shaped(q) /\ q.drawn = Remade(t)
          /\ \A u \in Uuids : q.copies[u] = Occurrences(t, u, Len(t))
      BY <3>1, <3>2, <3>3, ShapedData
    <3>7. ASSUME NEW u \in Uuids PROVE q.copies[u] <= MaxCopies
      <4>1. Occurrences(t, u, Len(t)) <= 1  BY <3>2, <3>5, OccursOnce
      <4>2. Occurrences(t, u, Len(t)) \in Nat
        <5>1. Len(t) \in 0..Len(t)  BY <3>2
        <5> QED BY <3>2, <5>1, OccurrencesAre
      <4>3. MaxCopies \in Nat \ {0}  BY SlidesAssumption
      <4>4. q.copies[u] = Occurrences(t, u, Len(t))  BY <3>6
      <4> QED BY <4>1, <4>2, <4>3, <4>4
    <3>8. q \in Peers  BY <3>6 DEF Peers, Shaped
    <3> QED BY <3>6, <3>7, <3>8 DEF t
  <2>2. CASE ~Live
    <3>1. q = b.peer  BY <2>2 DEF PeersThen
    <3>2. b.peer = board.peer  BY <1>2, <1>3, <2>2, PeerAfter
    <3>3. b.peer \in Peers  BY <1>4 DEF Boards
    <3> QED BY <1>1, <2>2, <3>1, <3>2, <3>3 DEF FewCopies
  <2> QED BY <2>1, <2>2
<1>7. c \in Boards /\ SamePages(b, c) /\ c.peer = q
  BY <1>4, <1>6 DEF Boards, SamePages, Chosen
<1>8. Elsewhere(board, c, p)  BY <1>2, <1>4, <1>7 DEF Elsewhere, SamePages
<1>9. DrawnOnce(c, p)  BY <1>5, <1>7 DEF DrawnOnce, SamePages
<1> QED BY <1>4, <1>6, <1>7, <1>8, <1>9

(* Another page is chosen, with a slide to take along.                     *)
LEMMA PageKeepsSlide ==
  ASSUME Inv, StepsInOrder', NEW p \in PageIds, OnSelectPage(p), index # 0
  PROVE  Inv'
<1> DEFINE s == index
           k == step[index]
           cs == HideAll(step) \o UpdateBanBase(s, k) \o NextAction(s, k) \o SetNewSize(s, k)
<1>1. /\ size' = size /\ index' = index /\ step' = step /\ place' = place
      /\ page' = p /\ usage' = usage
  BY DEF OnSelectPage
<1>2. PICK b \in Calls(Start, p, cs) :
        \E q \in PeersThen(b, p) : board' = Chosen(b, q)
  BY DEF OnSelectPage, ChangeParent, Start, PeersThen, Chosen
<1>3. PICK q \in PeersThen(b, p) : board' = Chosen(b, q)
  BY <1>2
<1>4. StepsInOrder /\ PlacesFit /\ size \in Sizes /\ board \in Boards /\ SlideSeen /\ OthersHidden
  BY DEF Inv
<1>5. PlacesFit' /\ size' \in Sizes /\ page' \in PageIds  BY <1>1, <1>4 DEF PlacesFit
<1>6. LooksFit  BY <1>5, PlacesLook
<1>7. Steps(step) /\ s \in Slides /\ k \in 0..Len(Actions[s])  BY <1>4, StepsAreClicks
<1>8. LastPlaced(s, k)  BY <1>4 DEF SlideSeen
<1>9. k = step[s]  OBVIOUS
<1>10. index' = s /\ step'[index'] = k  BY <1>1
<1> HIDE DEF s, k
<1>11. cs \in Seq(CallSet)  BY <1>7, <1>9, CallLists
<1>12. Start \in Boards /\ Seen(Start, p) = Seen(board, p)
  <2>1. Live \in BOOLEAN  BY DEF Live
  <2> DEFINE l == Live
  <2>2. l \in BOOLEAN /\ Start = [board EXCEPT !.turning = l]  BY <2>1 DEF Start
  <2> HIDE DEF l
  <2>3. Start \in Boards /\ Start.drawn = board.drawn /\ Start.shown = board.shown
    BY <1>4, <2>2 DEF Boards
  <2> QED BY <2>3 DEF Seen
<1>13. /\ b \in Boards /\ board' \in Boards /\ SamePages(b, board')
       /\ Elsewhere(board, board', p) /\ DrawnOnce(board', p)
       /\ \A u \in Uuids : board'.peer.copies[u] <= MaxCopies
  <2> HIDE DEF cs
  <2> QED BY <1>2, <1>3, <1>6, <1>11, ChosenPage
<1>14. AreSeen(b, p, s, k) /\ LieAbove(b, p, s, k) /\ ArePut(b, p, s, k)
  <2>1. "previous" \notin usage =>
          \A u \in Seen(Start, p) : \E t \in Slides : u \in Images(t, step[t])
    BY <1>4, <1>12 DEF OthersHidden
  <2>2. b \in Calls(Start, p, HideAll(step) \o UpdateBanBase(s, k) \o NextAction(s, k)
                                \o SetNewSize(s, k))
    BY <1>2
  <2> QED BY <1>6, <1>7, <1>9, <1>12, <2>1, <2>2, MovedSlide
<1> HIDE DEF cs
<1>15. AreSeen(board', p, s, k) /\ LieAbove(board', p, s, k) /\ ArePut(board', p, s, k)
  <2>1. Seen(board', p) = Seen(b, p) /\ \A u : At(board', p, u) = At(b, p, u)
    BY <1>13 DEF SamePages, Seen, At
  <2>2. board'.added = b.added /\ board'.shown = b.shown  BY <1>13 DEF SamePages
  <2> QED BY <1>14, <2>1, <2>2 DEF AreSeen, LieAbove, ArePut
<1>16. LastPlaced(index, step[index])'
  BY <1>1, <1>8, <1>10 DEF LastPlaced, HasMoreMoveAction, Shape
<1>17. AreSeen(board', page', index', step'[index']) /\ LieAbove(board', page', index', step'[index'])
       /\ ArePut(board', page', index', step'[index'])
  BY <1>1, <1>10, <1>15
<1>18. Elsewhere(board, board', page') /\ (DrawnOnce(board, page') => DrawnOnce(board', page'))
  BY <1>1, <1>13
<1>19. \A t \in Slides : Images(t, step[t]) \subseteq Images(t, step'[t])  BY <1>1
<1>20. FewCopies'  BY <1>13 DEF FewCopies
<1>21. index' # 0  BY <1>1
<1> QED BY <1>1, <1>5, <1>13, <1>16, <1>17, <1>18, <1>19, <1>20, <1>21, StepKeeps

(* Another page is chosen before there is a presenter: its elements, if    *)
(* any, are none of a slide's.                                             *)
LEMMA PageKeepsEmpty ==
  ASSUME Inv, StepsInOrder', NEW p \in PageIds, OnSelectPage(p), index = 0
  PROVE  Inv'
<1> DEFINE cs == <<>>
<1>1. /\ size' = size /\ index' = index /\ step' = step /\ place' = place
      /\ page' = p /\ usage' = usage
  BY DEF OnSelectPage
<1>2. PICK b \in Calls(Start, p, cs) :
        \E q \in PeersThen(b, p) : board' = Chosen(b, q)
  BY DEF OnSelectPage, ChangeParent, Start, PeersThen, Chosen
<1>3. PICK q \in PeersThen(b, p) : board' = Chosen(b, q)
  BY <1>2
<1>4. PlacesFit /\ size \in Sizes /\ board \in Boards /\ OthersHidden /\ AllDrawnOnce /\ usage \in Usages
  BY DEF Inv
<1>5. PlacesFit' /\ size' \in Sizes /\ page' \in PageIds  BY <1>1, <1>4 DEF PlacesFit
<1>6. LooksFit  BY <1>5, PlacesLook
<1>7. /\ cs \in Seq(CallSet)
      /\ \A u \in Uuids : ~IsShown(cs, u) /\ ~IsSized(cs, u)
  BY OrdersNone DEF Orders
<1>8. Start \in Boards /\ Seen(Start, p) = {}
  <2>1. Live \in BOOLEAN  BY DEF Live
  <2> DEFINE l == Live
  <2>2. l \in BOOLEAN /\ Start = [board EXCEPT !.turning = l]  BY <2>1 DEF Start
  <2> HIDE DEF l
  <2>3. Start \in Boards /\ Start.drawn = board.drawn /\ Start.shown = board.shown
    BY <1>4, <2>2 DEF Boards
  <2> QED BY <1>4, <2>3 DEF Seen, OthersHidden
<1>9. /\ b \in Boards /\ board' \in Boards /\ SamePages(b, board')
       /\ Elsewhere(board, board', p) /\ DrawnOnce(board', p)
       /\ \A u \in Uuids : board'.peer.copies[u] <= MaxCopies
  <2> HIDE DEF cs
  <2> QED BY <1>2, <1>3, <1>6, <1>7, ChosenPage
<1>10. Seen(b, p) = {}
  <2> SUFFICES ASSUME NEW u \in Seen(b, p) PROVE FALSE
    OBVIOUS
  <2> HIDE DEF cs
  <2>1. u \in Uuids  BY <1>9, SeenAreImages
  <2>2. u \notin Seen(Start, p) /\ ~IsShown(cs, u) /\ ~IsSized(cs, u)  BY <1>7, <1>8, <2>1
  <2> QED BY <1>2, <1>6, <1>7, <1>8, <2>1, <2>2, NotSeenAfter
<1> HIDE DEF cs
<1>11. Live' = Live  BY <1>1 DEF Live
<1>12. \A r \in PageIds : Seen(board', r) = {} /\ DrawnOnce(board', r)
  <2>1. Seen(board', p) = {}  BY <1>9, <1>10 DEF SamePages, Seen
  <2>2. \A r \in PageIds \ {p} : /\ Seen(board', r) = Seen(board, r)
                                 /\ DrawnOnce(board, r) => DrawnOnce(board', r)
    BY <1>9 DEF Elsewhere, Seen, DrawnOnce
  <2>3. \A r \in PageIds : Seen(board, r) = {} /\ DrawnOnce(board, r)
    BY <1>4 DEF OthersHidden, AllDrawnOnce
  <2> QED BY <1>9, <2>1, <2>2, <2>3
<1>13. OthersHidden' /\ AllDrawnOnce'
  <2>1. \A r \in PageIds : Seen(board, r)' = {}  BY <1>11, <1>12 DEF Seen
  <2> QED BY <1>12, <2>1 DEF OthersHidden, AllDrawnOnce, DrawnOnce
<1>14. SlideSeen' /\ FewCopies'  BY <1>1, <1>9 DEF SlideSeen, FewCopies
<1> QED BY <1>1, <1>4, <1>5, <1>9, <1>13, <1>14 DEF Inv

(* Every step keeps the invariant. *)
LEMMA NextInv == Inv /\ [Next]_vars => Inv'
<1> SUFFICES ASSUME Inv, [Next]_vars PROVE Inv'
  OBVIOUS
<1>1. StepsInOrder'  BY NextSteps DEF Inv
<1>2. CASE OnAddSlidePresenter  BY <1>1, <1>2, AddKeeps
<1>3. CASE OnNextAction  BY <1>1, <1>3, NextKeeps
<1>4. CASE OnPreviousAction  BY <1>1, <1>4, PreviousKeeps
<1>5. ASSUME NEW z \in Sizes, SendSizeAnimation(z) PROVE Inv'  BY <1>1, <1>5, ResizeKeeps
<1>6. ASSUME NEW p \in PageIds, OnSelectPage(p) PROVE Inv'
  BY <1>1, <1>6, PageKeepsSlide, PageKeepsEmpty
<1>7. CASE UNCHANGED vars
  <2>1. /\ index' = index /\ step' = step /\ place' = place /\ size' = size /\ page' = page
        /\ board' = board /\ usage' = usage
    BY <1>7 DEF vars
  <2> QED BY <2>1 DEF Inv, StepsInOrder, PlacesFit, FewCopies, SlideSeen, OthersHidden,
                      AllDrawnOnce, AreSeen, LieAbove, LastPlaced, Seen, At, Live, DrawnOnce
<1> QED BY <1>2, <1>3, <1>4, <1>5, <1>6, <1>7 DEF Next

(* The invariant holds. *)
LEMMA InvHolds == Spec => []Inv
<1> QED BY InitInv, NextInv, PTL DEF Spec

-----------------------------------------------------------------------------
(* What follows from it.                                                   *)

(* A slide shows its background and every shape where its last click so    *)
(* far puts it: these are its images, where they are in the invariant.     *)
LEMMA PresentedIs ==
  ASSUME StepsInOrder, PlacesFit, index # 0, LastPlaced(index, step[index])
  PROVE  Presented = {<<u, Look(place[u], size)>> : u \in Images(index, step[index])}
<1> DEFINE s == index
           k == step[index]
           last(i) == ~HasMoreMoveAction(s, i, k)
           bg == Background(s)
           R == {<<u, Look(place[u], size)>> : u \in Images(s, k)}
<1>1. s \in Slides /\ k \in 0..Len(Actions[s])  BY StepsAreClicks
<1>2. place[bg] = 0 /\ \A i \in 1..k : last(i) => place[Shape(s, i)] = i
  BY <1>1 DEF PlacesFit, LastPlaced
<1>3. \A i \in 1..k : \E j \in 1..k : Shape(s, j) = Shape(s, i) /\ last(j)  BY <1>1, LastClick
<1>4. Presented = {<<bg, Look(0, size)>>}
                    \cup {<<Shape(s, i), Look(i, size)>> : i \in {j \in 1..k : last(j)}}
  BY DEF Presented
<1>5. \A u : u \in Images(s, k) <=> u = bg \/ \E i \in 1..k : u = Shape(s, i)  BY DEF Images
<1> HIDE DEF s, k, last, bg
<1>6. ASSUME NEW x \in Presented PROVE x \in R
  <2>1. CASE x = <<bg, Look(0, size)>>  BY <1>2, <1>5, <2>1
  <2>2. CASE \E i \in {j \in 1..k : last(j)} : x = <<Shape(s, i), Look(i, size)>>
    <3>1. PICK i \in 1..k : last(i) /\ x = <<Shape(s, i), Look(i, size)>>  BY <2>2
    <3>2. place[Shape(s, i)] = i /\ Shape(s, i) \in Images(s, k)  BY <1>2, <1>5, <3>1
    <3> QED BY <3>1, <3>2
  <2> QED BY <1>4, <1>6, <2>1, <2>2
<1>7. ASSUME NEW u \in Images(s, k) PROVE <<u, Look(place[u], size)>> \in Presented
  <2>1. CASE u = bg  BY <1>2, <1>4, <2>1
  <2>2. CASE \E i \in 1..k : u = Shape(s, i)
    <3>1. PICK j \in 1..k : u = Shape(s, j) /\ last(j)  BY <1>3, <2>2
    <3>2. place[u] = j  BY <1>2, <3>1
    <3> QED BY <1>4, <3>1, <3>2
  <2> QED BY <1>5, <2>1, <2>2
<1>8. Presented = R  BY <1>6, <1>7
<1> QED BY <1>8 DEF s, k

(* The same after a step. *)
LEMMA PresentedThen ==
  StepsInOrder' /\ PlacesFit' /\ index' # 0 /\ LastPlaced(index, step[index])' =>
    Presented' = {<<u, Look(place[u], size)>> : u \in Images(index, step[index])}'
<1>1. StepsInOrder /\ PlacesFit /\ index # 0 /\ LastPlaced(index, step[index]) =>
        Presented = {<<u, Look(place[u], size)>> : u \in Images(index, step[index])}
  BY PresentedIs
<1>2. (StepsInOrder /\ PlacesFit /\ index # 0 /\ LastPlaced(index, step[index]) =>
        Presented = {<<u, Look(place[u], size)>> : u \in Images(index, step[index])})'
  BY <1>1, PTL
<1> QED BY <1>2

(* The pages, the steps and the places are what they should be; a peer's   *)
(* page is a page.                                                         *)
LEMMA InvImpliesType == Inv => TypeOK
<1> SUFFICES ASSUME Inv PROVE TypeOK
  OBVIOUS
<1>1. IsPage(board.peer)
  <2>1. Shaped(board.peer)  BY BoardParts DEF Inv
  <2>2. MaxCopies \in Nat /\ \A u \in Uuids : board.peer.copies[u] <= MaxCopies
    BY SlidesAssumption DEF Inv, FewCopies
  <2> QED BY <2>1, <2>2, ShapedIsPage
<1> QED BY <1>1 DEF Inv, TypeOK, PlacesFit

(* A lesson shows the slide. *)
LEMMA InvImpliesLesson == Inv => LessonShowsSlide
<1> SUFFICES ASSUME Inv, index # 0, ~Live
             PROVE  /\ IF "previous" \in usage THEN Presented \subseteq InLesson
                       ELSE InLesson = Presented
                    /\ ShapesAreSeen
  BY DEF LessonShowsSlide
<1> DEFINE s == index
           k == step[index]
           I == Images(s, k)
           bg == Background(s)
<1>1. StepsInOrder /\ PlacesFit /\ SlideSeen  BY DEF Inv
<1>2. /\ AreSeen(board, page, s, k) /\ LieAbove(board, page, s, k) /\ LastPlaced(s, k)
      /\ \A u \in I : At(board, page, u) = Look(place[u], size)
  BY <1>1 DEF SlideSeen
<1>3. s \in Slides /\ k \in 0..Len(Actions[s])  BY <1>1, StepsAreClicks
<1>4. Presented = {<<u, Look(place[u], size)>> : u \in I}  BY <1>1, <1>2, PresentedIs
<1> HIDE DEF s, k
<1>5. /\ \A u \in I : u \in ToSet(board.shown[page]) /\ board.at[page][u] = Look(place[u], size)
      /\ "previous" \notin usage => ToSet(board.shown[page]) \subseteq I
  BY <1>2 DEF AreSeen, Seen, At
<1> DEFINE S == ToSet(board.shown[page])
<1>6. InLesson = {<<u, board.at[page][u]>> : u \in S}  BY DEF InLesson
<1> HIDE DEF I, S
<1>7. /\ \A u \in I : u \in S /\ board.at[page][u] = Look(place[u], size)
      /\ "previous" \notin usage => S \subseteq I
  BY <1>5 DEF S
<1>8. Presented \subseteq InLesson  BY <1>4, <1>6, <1>7
<1>9. "previous" \notin usage => InLesson = Presented
  <2> SUFFICES ASSUME "previous" \notin usage PROVE InLesson \subseteq Presented
    BY <1>8
  <2>1. \A u \in S : u \in I /\ board.at[page][u] = Look(place[u], size)  BY <1>7
  <2> QED BY <1>4, <1>6, <2>1
<1>10. ShapesAreSeen
  <2> DEFINE q == board.shown[page]
  <2> SUFFICES ASSUME NEW e \in Presented, e[1] # Background(index)
               PROVE  \E i \in DOMAIN q : q[i] = e[1] /\ \A j \in DOMAIN q : q[j] = Background(index) => j < i
    BY DEF ShapesAreSeen
  <2>1. PICK u \in I : e = <<u, Look(place[u], size)>>  BY <1>4
  <2>2. e[1] = u  BY <2>1
  <2>3. u # Background(s)  BY <2>2 DEF s
  <2>4. PICK i \in 1..k : u = Shape(s, i)  BY <2>1, <2>3 DEF I, Images
  <2>5. Above(q, u, Background(s))  BY <1>2, <2>4 DEF LieAbove
  <2> HIDE DEF q
  <2> QED BY <2>2, <2>5 DEF Above, s
<1> QED BY <1>8, <1>9, <1>10

(* The page that is sent shows the slide. *)
LEMMA ChoosingMends ==
  ASSUME Inv, Inv', NEW p \in PageIds, OnSelectPage(p), Live, index # 0
  PROVE  IF "previous" \in usage THEN Presented' \subseteq PeerSees' ELSE PeerSees' = Presented'
<1> DEFINE s == index
           k == step[index]
           I == Images(s, k)
           cs == HideAll(step) \o UpdateBanBase(s, k) \o NextAction(s, k) \o SetNewSize(s, k)
<1>1. /\ size' = size /\ index' = index /\ step' = step /\ place' = place
      /\ page' = p /\ usage' = usage
  BY DEF OnSelectPage
<1>2. PICK b \in Calls(Start, p, cs) :
        \E q \in PeersThen(b, p) : board' = Chosen(b, q)
  BY DEF OnSelectPage, ChangeParent, Start, PeersThen, Chosen
<1>3. PICK q \in PeersThen(b, p) : board' = Chosen(b, q)
  BY <1>2
<1>4. StepsInOrder' /\ PlacesFit' /\ size' \in Sizes /\ SlideSeen'  BY DEF Inv
<1>5. LooksFit  BY <1>4, PlacesLook
<1>6. Steps(step) /\ s \in Slides /\ k \in 0..Len(Actions[s])
  BY StepsAreClicks DEF Inv
<1>7. cs \in Seq(CallSet)
  <2>1. k = step[s]  OBVIOUS
  <2> HIDE DEF s, k
  <2> QED BY <1>6, <2>1, CallLists
<1>8. b \in Boards /\ SamePages(b, board') /\ board'.peer.drawn = Remade(Content(b, p))
  <2> HIDE DEF cs
  <2> QED BY <1>2, <1>3, <1>5, <1>7, ChosenPage
<1>9. Live'  BY <1>1 DEF Live
<1>10. /\ \A u \in I : u \in ToSet(b.drawn[p]) /\ b.look[p][u] = Look(place'[u], size')
       /\ "previous" \notin usage => ToSet(b.drawn[p]) \subseteq I
  <2>1. /\ AreSeen(board, page, index, step[index])'
        /\ \A u \in Images(index', step'[index']) : At(board, page, u)' = Look(place'[u], size')
    BY <1>1, <1>4 DEF SlideSeen, Images
  <2>2. Images(index, step[index])' = I  BY <1>1 DEF Images, Background, Shape
  <2>3. Seen(board, page)' = ToSet(board'.drawn[p]) /\ \A u : At(board, page, u)' = board'.look[p][u]
    BY <1>1, <1>9 DEF Seen, At
  <2>4. board'.drawn = b.drawn /\ board'.look = b.look  BY <1>8 DEF SamePages
  <2>5. /\ \A u \in I : u \in Seen(board, page)'
        /\ "previous" \notin usage => Seen(board, page)' \subseteq I
    BY <1>1, <2>1, <2>2 DEF AreSeen
  <2>6. \A u \in I : At(board, page, u)' = Look(place'[u], size')  BY <1>1, <2>1
  <2> QED BY <2>3, <2>4, <2>5, <2>6
<1>11. Presented' = {<<u, Look(place'[u], size')>> : u \in I}
  <2>1. LastPlaced(index, step[index])' /\ index' # 0  BY <1>1, <1>4 DEF SlideSeen
  <2>2. Presented' = {<<u, Look(place[u], size)>> : u \in Images(index, step[index])}'
    BY <1>4, <2>1, PresentedThen
  <2>3. Images(index, step[index])' = I  BY <1>1 DEF Images, Background, Shape
  <2> QED BY <2>2, <2>3
<1> DEFINE D == ToSet(b.drawn[p])
           t == Content(b, p)
           r == Remade(t)
           n == Len(b.drawn[p])
<1>12. PeerSees' = {<<u, b.look[p][u]>> : u \in D}
  <2>1. /\ t \in Seq(Sent) /\ Len(t) = n /\ n \in Nat
        /\ \A i \in 1..n : t[i].id = b.drawn[p][i] /\ t[i].look = b.look[p][b.drawn[p][i]]
    BY <1>8, ContentIs
  <2>2. D = {b.drawn[p][i] : i \in 1..n}
    <3>1. b.drawn[p] \in Seq(Uuids)  BY <1>8, BoardParts
    <3> QED BY <3>1, InList
  <2> HIDE DEF t, n, D
  <2>3. /\ r \in Seq(Object) /\ Len(r) = n
        /\ \A i \in 1..n : r[i].id = t[i].id /\ r[i].look = t[i].look
    BY <2>1, RemadeIs
  <2>4. board'.peer.drawn = r  BY <1>8 DEF t
  <2> HIDE DEF r
  <2>5. ToSet(r) = {r[i] : i \in 1..n}  BY <2>3, InList
  <2>6. PeerSees' = {<<e.id, e.look>> : e \in ToSet(r)}  BY <2>4 DEF PeerSees
  <2>7. \A i \in 1..n : r[i].id = b.drawn[p][i] /\ r[i].look = b.look[p][b.drawn[p][i]]
    BY <2>1, <2>3
  <2>8. ASSUME NEW x \in PeerSees' PROVE \E u \in D : x = <<u, b.look[p][u]>>
    <3>1. PICK i \in 1..n : x = <<r[i].id, r[i].look>>  BY <2>5, <2>6
    <3> QED BY <2>2, <2>7, <3>1
  <2>9. ASSUME NEW u \in D PROVE <<u, b.look[p][u]>> \in PeerSees'
    <3>1. PICK i \in 1..n : u = b.drawn[p][i]  BY <2>2
    <3>2. <<r[i].id, r[i].look>> \in PeerSees'  BY <2>5, <2>6
    <3> QED BY <2>7, <3>1, <3>2
  <2> QED BY <2>8, <2>9
<1> HIDE DEF I, D
<1>13. /\ \A u \in I : u \in D /\ b.look[p][u] = Look(place'[u], size')
       /\ "previous" \notin usage => D \subseteq I
  BY <1>10 DEF D
<1>14. Presented' \subseteq PeerSees'  BY <1>11, <1>12, <1>13
<1>15. "previous" \notin usage => PeerSees' \subseteq Presented'  BY <1>11, <1>12, <1>13
<1>16. "previous" \notin usage => PeerSees' = Presented'  BY <1>14, <1>15
<1> QED BY <1>14, <1>16, Zenon

(* Pages, steps, places and the peer's page have their types, and no image *)
(* has more copies at a peer than are counted.                             *)
THEOREM SlidesTypeCorrect == Spec => []TypeOK
<1> QED BY InvHolds, InvImpliesType, PTL

(* Whatever is clicked, moved or resized, in whatever order, and whichever *)
(* pages the presenter is taken to: a lesson shows the slide as it was     *)
(* presented, with its shapes above its background, and nothing of another *)
(* slide unless the user has gone back.                                    *)
THEOREM LessonShowsSlideHolds == Spec => []LessonShowsSlide
<1> QED BY InvHolds, InvImpliesLesson, PTL

(* The page that is sent when the user chooses one shows a peer the slide, *)
(* whatever the peer had made of the clicks before.                        *)
THEOREM PageMendsPeerHolds == Spec => PageMendsPeer
<1> DEFINE Mends == \A p \in PageIds : OnSelectPage(p) /\ Live /\ index # 0 =>
                      IF "previous" \in usage THEN Presented' \subseteq PeerSees'
                      ELSE PeerSees' = Presented'
<1>1. Inv /\ [Next]_vars => [Mends]_vars
  <2> SUFFICES ASSUME Inv, [Next]_vars PROVE Mends
    OBVIOUS
  <2>1. Inv'  BY NextInv
  <2> QED BY <2>1, ChoosingMends
<1>2. PageMendsPeer <=> [][Mends]_vars  BY DEF PageMendsPeer
<1> QED BY <1>1, <1>2, InvHolds, PTL DEF Spec
=============================================================================
