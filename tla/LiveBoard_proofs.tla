-------------------------- MODULE LiveBoard_proofs --------------------------
(***************************************************************************)
(* Theorems about the shared blackboard with its pages, for any number of  *)
(* clients, pages, elements and looks and any interleaving.                *)
(*                                                                         *)
(*   ImplementsFloorHolds  every step is a step of FloorControl or leaves  *)
(*                         the floor alone                                 *)
(*   FloorKept             what FloorControl_proofs shows of the floor     *)
(*                         holds of the flags and queues with the pages    *)
(*   FloorDecided          so does, when every user has one session, what  *)
(*                         it shows of who has the board                   *)
(*   BoardTypeCorrect      every client's pages are pages, listed once     *)
(*                         each, with the one it shows among them          *)
(*   NoneMultipliedHolds   no page holds an element more often than users  *)
(*                         put it on a page                                *)
(*                                                                         *)
(* The last two rest on counting (BoardInv): what a page holds of an       *)
(* element, and the commands on their way that will add to it, are         *)
(* together no more than the times users have shown it; so is what a page  *)
(* switch on its way carries, with the commands behind it.                 *)
(***************************************************************************)
EXTENDS LiveBoard, SequenceTheorems, FiniteSetTheorems, WellFoundedInduction, TLAPS

-----------------------------------------------------------------------------
(* A set of naturals that is not empty has a least element. *)
LEMMA Least ==
  ASSUME NEW T \in SUBSET Nat, T # {}
  PROVE  \E x \in T : \A y \in T : x <= y
<1>1. \E x \in T : \A y \in T : ~(y < x)
  <2> DEFINE R == OpToRel(<, Nat)
  <2>1. IsWellFoundedOn(R, Nat)  BY NatLessThanWellFounded
  <2>2. \A x, y \in Nat : y < x => <<y, x>> \in R  BY DEF OpToRel
  <2> HIDE DEF R
  <2>3. PICK x \in T : \A y \in T : ~(<<y, x>> \in R)  BY <2>1, WFMin
  <2>4. \A y \in T : ~(y < x)  BY <2>2, <2>3, Zenon
  <2> QED BY <2>4
<1>2. PICK x \in T : \A y \in T : ~(y < x)  BY <1>1
<1>3. \A y \in T : x <= y  BY <1>2
<1> QED BY <1>3

(* Induction over the naturals, stated of a set. *)
LEMMA AllNaturals ==
  ASSUME NEW T \in SUBSET Nat, 0 \in T, \A n \in T : n + 1 \in T
  PROVE  T = Nat
<1> SUFFICES ASSUME NEW m \in Nat, m \notin T PROVE FALSE
  OBVIOUS
<1>1. PICK x \in Nat \ T : \A y \in Nat \ T : x <= y
  BY Least
<1>2. x # 0 /\ x - 1 \in Nat  BY <1>1
<1>3. x - 1 \in T  BY <1>1, <1>2
<1>4. (x - 1) + 1 \in T BY <1>3
<1>5. (x - 1) + 1 = x BY <1>1
<1> QED BY <1>1, <1>4, <1>5

(* Induction up to a bound. *)
LEMMA Upward ==
  ASSUME NEW n \in Nat, NEW T \in SUBSET (0..n), 0 \in T,
         \A i \in 1..n : i - 1 \in T => i \in T
  PROVE  T = 0..n
<1> DEFINE U == {i \in Nat : i <= n => i \in T}
<1>1. U \in SUBSET Nat /\ 0 \in U  OBVIOUS
<1>2. \A i \in U : i + 1 \in U
  <2> SUFFICES ASSUME NEW i \in Nat, i <= n => i \in T, i + 1 <= n PROVE i + 1 \in T
    OBVIOUS
  <2>1. i + 1 \in 1..n /\ (i + 1) - 1 = i /\ i <= n  OBVIOUS
  <2> QED BY <2>1
<1> HIDE DEF U
<1>3. U = Nat  BY <1>1, <1>2, AllNaturals
<1>4. \A i \in 0..n : i \in T
  <2> SUFFICES ASSUME NEW i \in 0..n PROVE i \in T
    OBVIOUS
  <2>1. i \in U /\ i <= n  BY <1>3
  <2> QED BY <2>1 DEF U
<1> QED BY <1>4

(* Two functions that agree at first, and at every place where they agree  *)
(* at the one before, agree.                                               *)
AgreeByStep(f, g, n) == f[0] = g[0] /\ \A i \in 1..n : f[i - 1] = g[i - 1] => f[i] = g[i]

(* What AgreeByStep is for. *)
LEMMA SameValues ==
  ASSUME NEW n \in Nat, NEW f, NEW g, AgreeByStep(f, g, n)
  PROVE  \A i \in 0..n : f[i] = g[i]
<1> DEFINE T == {i \in 0..n : f[i] = g[i]}
<1>1. T \in SUBSET (0..n) /\ 0 \in T  BY DEF AgreeByStep
<1>2. \A i \in 1..n : i - 1 \in T => i \in T  BY DEF AgreeByStep
<1>3. T = 0..n
  <2> HIDE DEF T
  <2> QED BY <1>1, <1>2, Upward
<1> QED BY <1>3

(* The functions with a given first value and given steps.                 *)
ByRecursion(B, n, x, step) ==
  {f \in [0..n -> B] : f[0] = x /\ \A i \in 1..n : f[i] = step[i][f[i - 1]]}

(* There is one. *)
LEMMA RecursionWorks ==
  ASSUME NEW B, NEW n \in Nat, NEW x \in B, NEW step \in [1..n -> [B -> B]]
  PROVE  \E f : f \in ByRecursion(B, n, x, step)
<1> DEFINE Is(k, f) == f[0] = x /\ \A i \in 1..k : f[i] = step[i][f[i - 1]]
           T == {k \in 0..n : \E f \in [0..k -> B] : Is(k, f)}
<1>1. 0 \in T
  <2> DEFINE f == [i \in 0..0 |-> x]
  <2>1. f \in [0..0 -> B] /\ f[0] = x  OBVIOUS
  <2> HIDE DEF f
  <2>2. \A i \in 1..0 : FALSE  OBVIOUS
  <2> QED BY <2>1, <2>2
<1>2. ASSUME NEW k \in 1..n, NEW f \in [0..(k - 1) -> B], Is(k - 1, f)
      PROVE  \E g \in [0..k -> B] : Is(k, g)
  <2> DEFINE g == [i \in 0..k |-> IF i = k THEN step[k][f[k - 1]] ELSE f[i]]
  <2>1. f[k - 1] \in B /\ step[k][f[k - 1]] \in B  OBVIOUS
  <2>2. g \in [0..k -> B]  BY <2>1
  <2>3. g[0] = x  BY <1>2
  <2>4. ASSUME NEW i \in 1..k PROVE g[i] = step[i][g[i - 1]]
    <3>1. g[i - 1] = f[i - 1]  OBVIOUS
    <3>2. CASE i = k  BY <3>1, <3>2
    <3>3. CASE i # k
      <4>1. i \in 1..(k - 1) /\ g[i] = f[i]  BY <3>3
      <4> QED BY <1>2, <3>1, <4>1
    <3> QED BY <3>2, <3>3
  <2> HIDE DEF g
  <2> QED BY <2>2, <2>3, <2>4
<1>3. \A k \in 1..n : k - 1 \in T => k \in T
  <2> DEFINE Able(k) == \E f \in [0..k -> B] : Is(k, f)
  <2> HIDE DEF Is
  <2>1. \A k \in 1..n : Able(k - 1) => Able(k)  BY <1>2
  <2>2. T = {k \in 0..n : Able(k)}  OBVIOUS
  <2> HIDE DEF Able, T
  <2> QED BY <2>1, <2>2
<1>4. T = 0..n
  <2>1. T \in SUBSET (0..n)  OBVIOUS
  <2> HIDE DEF T
  <2> QED BY <1>1, <1>3, <2>1, Upward
<1>5. n \in T  BY <1>4
<1> QED BY <1>5 DEF ByRecursion

-----------------------------------------------------------------------------
(* The floor's part of a queue.                                            *)

Bares(S) == {Bare(m) : m \in S}
IsEdit(m) == m.type = "Edit"

(* What the recursion of FloorQueue makes of a queue. *)
Floors(S, q) ==
  {floor \in [0..Len(q) -> Seq(Bares(S))] :
     /\ floor[0] = <<>>
     /\ \A i \in 1..Len(q) : floor[i] = IF IsEdit(q[i]) THEN floor[i - 1]
                                         ELSE Append(floor[i - 1], Bare(q[i]))}

(* FloorQueue is what the recursion ends with. *)
LEMMA FloorQueueIs ==
  ASSUME NEW S, NEW q \in Seq(S)
  PROVE  \E floor \in Floors(S, q) : FloorQueue(q) = floor[Len(q)]
<1> DEFINE n == Len(q)
           T == Seq(Bares(S))
           Rec(f) == [i \in 0..n |-> IF i = 0 THEN <<>>
                                     ELSE IF q[i].type = "Edit" THEN f[i - 1]
                                     ELSE Append(f[i - 1], Bare(q[i]))]
           floor == CHOOSE f : f = Rec(f)
           step == [i \in 1..n |-> [t \in T |-> IF IsEdit(q[i]) THEN t
                                                 ELSE Append(t, Bare(q[i]))]]
<1>0. n \in Nat /\ <<>> \in T /\ \A i \in 1..n : Bare(q[i]) \in Bares(S)
  BY LenProperties, EmptySeq, ElementOfSeq DEF Bares
<1>1. FloorQueue(q) = floor[n]  BY DEF FloorQueue
<1> HIDE DEF n
<1>2. step \in [1..n -> [T -> T]]
  <2>1. \A i \in 1..n, t \in T : (IF IsEdit(q[i]) THEN t ELSE Append(t, Bare(q[i]))) \in T
    BY <1>0, AppendProperties
  <2> HIDE DEF T
  <2> QED BY <2>1
<1>3. PICK f \in [0..n -> T] : f[0] = <<>> /\ \A i \in 1..n : f[i] = step[i][f[i - 1]]
  <2> DEFINE x == <<>>
  <2>1. n \in Nat /\ x \in T /\ step \in [1..n -> [T -> T]]  BY <1>0, <1>2
  <2> HIDE DEF step, T, x
  <2>2. PICK f : f \in ByRecursion(T, n, x, step)  BY <2>1, RecursionWorks
  <2> QED BY <2>2, Zenon DEF x, ByRecursion
<1>4. \A i \in 1..n : f[i] = IF IsEdit(q[i]) THEN f[i - 1] ELSE Append(f[i - 1], Bare(q[i]))
  <2> SUFFICES ASSUME NEW i \in 1..n
               PROVE  f[i] = IF IsEdit(q[i]) THEN f[i - 1] ELSE Append(f[i - 1], Bare(q[i]))
    OBVIOUS
  <2> HIDE DEF T
  <2>1. f[i - 1] \in T  BY <1>0
  <2> QED BY <1>3, <2>1
<1>5. f = Rec(f)
  <2>1. \A i \in 0..n : i = 0 \/ i \in 1..n  BY <1>0
  <2>2. \A i \in 0..n : f[i] = IF i = 0 THEN <<>> ELSE IF q[i].type = "Edit" THEN f[i - 1]
                               ELSE Append(f[i - 1], Bare(q[i]))
    BY <1>3, <1>4, <2>1, Zenon DEF IsEdit
  <2> QED BY <2>2
<1>6. floor = Rec(floor)  BY <1>5
<1>7. /\ floor[0] = <<>>
      /\ \A i \in 1..n : floor[i] = IF IsEdit(q[i]) THEN floor[i - 1]
                                     ELSE Append(floor[i - 1], Bare(q[i]))
  <2>1. \A i \in 0..n : Rec(floor)[i] = IF i = 0 THEN <<>>
                                        ELSE IF q[i].type = "Edit" THEN floor[i - 1]
                                        ELSE Append(floor[i - 1], Bare(q[i]))
    OBVIOUS
  <2> HIDE DEF floor, Rec
  <2>2. \A i \in 0..n : floor[i] = IF i = 0 THEN <<>> ELSE IF q[i].type = "Edit" THEN floor[i - 1]
                                   ELSE Append(floor[i - 1], Bare(q[i]))
    BY <1>6, <2>1
  <2> QED BY <1>0, <2>2 DEF IsEdit
<1>8. f[n] = floor[n]
  <2> HIDE DEF floor
  <2>1. \A i \in 1..n : f[i - 1] = floor[i - 1] => f[i] = floor[i]
    BY <1>4, <1>7, Zenon
  <2>2. f[0] = floor[0]  BY <1>3, <1>7, Zenon
  <2>3. AgreeByStep(f, floor, n)  BY <2>1, <2>2, Zenon DEF AgreeByStep
  <2>4. \A i \in 0..n : f[i] = floor[i]  BY <1>0, <2>3, SameValues, Zenon
  <2> QED BY <1>0, <2>4
<1>9. f \in Floors(S, q)  BY <1>3, <1>4, Zenon DEF n, Floors
<1> QED BY <1>1, <1>8, <1>9 DEF n

(* An empty queue has no floor commands. *)
LEMMA FloorEmpty == FloorQueue(<<>>) = <<>>
<1>1. <<>> \in Seq({}) /\ Len(<<>>) = 0  BY EmptySeq
<1>2. PICK floor \in Floors({}, <<>>) : FloorQueue(<<>>) = floor[Len(<<>>)]
  BY <1>1, FloorQueueIs
<1> QED BY <1>1, <1>2, Zenon DEF Floors

(* The floor's part of a queue is a queue of floor commands. *)
LEMMA FloorType ==
  ASSUME NEW S, NEW q \in Seq(S)
  PROVE  FloorQueue(q) \in Seq(Bares(S))
<1>1. PICK floor \in Floors(S, q) : FloorQueue(q) = floor[Len(q)]  BY FloorQueueIs
<1>2. floor \in [0..Len(q) -> Seq(Bares(S))] /\ Len(q) \in 0..Len(q)
  BY LenProperties DEF Floors
<1> QED BY <1>1, <1>2

(* What joins a queue joins the floor's part of it, or is not seen there.  *)
LEMMA FloorAppend ==
  ASSUME NEW S, NEW q \in Seq(S), NEW m \in S
  PROVE  FloorQueue(Append(q, m)) = IF IsEdit(m) THEN FloorQueue(q)
                                    ELSE Append(FloorQueue(q), Bare(m))
<1> DEFINE n == Len(q)
           r == Append(q, m)
<1>0. /\ n \in Nat /\ r \in Seq(S) /\ Len(r) = n + 1 /\ r[n + 1] = m
      /\ \A i \in 1..n : r[i] = q[i]
  BY AppendProperties, LenProperties
<1>1. PICK f \in Floors(S, q) : FloorQueue(q) = f[n]  BY FloorQueueIs
<1>2. PICK g \in Floors(S, r) : FloorQueue(r) = g[n + 1]
  <2> HIDE DEF n, r
  <2> QED BY <1>0, FloorQueueIs
<1> HIDE DEF r
<1>3. /\ f[0] = <<>>
      /\ \A i \in 1..n : f[i] = IF IsEdit(q[i]) THEN f[i - 1] ELSE Append(f[i - 1], Bare(q[i]))
  BY <1>1, Zenon DEF Floors
<1> HIDE DEF n
<1>4. /\ g[0] = <<>>
      /\ \A i \in 1..n + 1 : g[i] = IF IsEdit(r[i]) THEN g[i - 1]
                                     ELSE Append(g[i - 1], Bare(r[i]))
  BY <1>0, <1>2, Zenon DEF Floors
<1>5. \A i \in 1..n : g[i] = IF IsEdit(q[i]) THEN g[i - 1] ELSE Append(g[i - 1], Bare(q[i]))
  BY <1>0, <1>4
<1>6. f[n] = g[n]
  <2>1. \A i \in 1..n : f[i - 1] = g[i - 1] => f[i] = g[i]  BY <1>3, <1>5, Zenon
  <2>2. AgreeByStep(f, g, n)  BY <1>3, <1>4, <2>1, Zenon DEF AgreeByStep
  <2>3. n \in Nat  BY <1>0
  <2>4. \A i \in 0..n : f[i] = g[i]  BY <2>2, <2>3, SameValues, Zenon
  <2> QED BY <2>3, <2>4
<1>7. g[n + 1] = IF IsEdit(m) THEN g[n] ELSE Append(g[n], Bare(m))
  <2>1. n + 1 \in 1..n + 1 /\ (n + 1) - 1 = n  BY <1>0
  <2> QED BY <1>0, <1>4, <2>1
<1> QED BY <1>1, <1>2, <1>6, <1>7, Zenon DEF r

(* What leaves a queue was the head of the floor's part, or not in it.     *)
LEMMA FloorTail ==
  ASSUME NEW S, NEW q \in Seq(S), q # <<>>
  PROVE  IF IsEdit(Head(q)) THEN FloorQueue(Tail(q)) = FloorQueue(q)
         ELSE /\ FloorQueue(q) # <<>>
              /\ Head(FloorQueue(q)) = Bare(Head(q))
              /\ FloorQueue(Tail(q)) = Tail(FloorQueue(q))
<1> DEFINE n == Len(q) - 1
           r == Tail(q)
           h == Head(q)
<1>0. /\ n \in Nat /\ r \in Seq(S) /\ Len(q) = n + 1 /\ Len(r) = n /\ q[1] = h /\ h \in S
      /\ \A i \in 1..n : r[i] = q[i + 1]
  BY HeadTailProperties, EmptySeq, LenProperties
<1>1. PICK f \in Floors(S, q) : FloorQueue(q) = f[n + 1]
  <2> HIDE DEF n
  <2> QED BY <1>0, FloorQueueIs
<1>2. PICK g \in Floors(S, r) : FloorQueue(r) = g[n]
  <2> HIDE DEF n, r
  <2> QED BY <1>0, FloorQueueIs
<1> HIDE DEF r, n, h
<1>3. /\ f \in [0..n + 1 -> Seq(Bares(S))] /\ f[0] = <<>>
      /\ \A i \in 1..n + 1 : f[i] = IF IsEdit(q[i]) THEN f[i - 1]
                                     ELSE Append(f[i - 1], Bare(q[i]))
  BY <1>0, <1>1, Zenon DEF Floors
<1>4. /\ g[0] = <<>>
      /\ \A i \in 1..n : g[i] = IF IsEdit(r[i]) THEN g[i - 1] ELSE Append(g[i - 1], Bare(r[i]))
  BY <1>0, <1>2, Zenon DEF Floors
<1>5. \A i \in 1..n : f[i + 1] = IF IsEdit(r[i]) THEN f[i] ELSE Append(f[i], Bare(r[i]))
  <2> SUFFICES ASSUME NEW i \in 1..n
               PROVE  f[i + 1] = IF IsEdit(r[i]) THEN f[i] ELSE Append(f[i], Bare(r[i]))
    OBVIOUS
  <2>1. i + 1 \in 1..n + 1 /\ (i + 1) - 1 = i /\ r[i] = q[i + 1]  BY <1>0
  <2> QED BY <1>3, <2>1
<1>6. f[1] = IF IsEdit(h) THEN <<>> ELSE Append(<<>>, Bare(h))
  <2>1. 1 \in 1..n + 1 /\ 1 - 1 = 0  BY <1>0
  <2> QED BY <1>0, <1>3, <2>1
<1>7. ASSUME IsEdit(h) PROVE f[n + 1] = g[n]
  <2> DEFINE T == {i \in 0..n : f[i + 1] = g[i]}
  <2>1. T \in SUBSET (0..n)  OBVIOUS
  <2>2. 0 \in T  BY <1>0, <1>4, <1>6, <1>7
  <2>3. ASSUME NEW i \in 1..n, i - 1 \in T PROVE i \in T
    <3>1. f[i] = g[i - 1] /\ i \in 0..n
      <4>1. (i - 1) + 1 = i  OBVIOUS
      <4> QED BY <2>3, <4>1
    <3> QED BY <1>4, <1>5, <3>1
  <2> HIDE DEF T
  <2>4. T = 0..n  BY <1>0, <2>1, <2>2, <2>3, Upward
  <2>5. n \in T  BY <1>0, <2>4
  <2> QED BY <2>5 DEF T
<1>8. ASSUME ~IsEdit(h)
      PROVE  f[n + 1] # <<>> /\ Head(f[n + 1]) = Bare(h) /\ Tail(f[n + 1]) = g[n]
  <2> DEFINE Is(i) == f[i + 1] # <<>> /\ Head(f[i + 1]) = Bare(h) /\ Tail(f[i + 1]) = g[i]
             T == {i \in 0..n : Is(i)}
  <2>1. T \in SUBSET (0..n)  OBVIOUS
  <2>2. 0 \in T
    <3>1. f[1] = <<Bare(h)>>  BY <1>6, <1>8
    <3>2. <<Bare(h)>> # <<>> /\ Head(<<Bare(h)>>) = Bare(h) /\ Tail(<<Bare(h)>>) = <<>>
      OBVIOUS
    <3>3. Is(0)
      <4>1. 0 + 1 = 1  OBVIOUS
      <4> QED BY <1>4, <3>1, <3>2, <4>1, Zenon
    <3> HIDE DEF Is
    <3> QED BY <1>0, <3>3
  <2>3. ASSUME NEW i \in 1..n, i - 1 \in T PROVE i \in T
    <3>1. i \in 0..n /\ i \in 0..n + 1 /\ (i - 1) + 1 = i  BY <1>0
    <3>2. f[i] # <<>> /\ Head(f[i]) = Bare(h) /\ Tail(f[i]) = g[i - 1]  BY <2>3, <3>1
    <3>3. f[i] \in Seq(Bares(S))  BY <1>3, <3>1
    <3>4. CASE IsEdit(r[i])
      <4>1. f[i + 1] = f[i] /\ g[i] = g[i - 1]  BY <1>4, <1>5, <3>4, Zenon
      <4> QED BY <3>1, <3>2, <4>1
    <3>5. CASE ~IsEdit(r[i])
      <4> DEFINE b == Bare(r[i])
                 s == f[i]
      <4>1. f[i + 1] = Append(s, b) /\ g[i] = Append(g[i - 1], b)  BY <1>4, <1>5, <3>5, Zenon
      <4>2. b \in Bares(S)  BY <1>0, ElementOfSeq DEF Bares
      <4>3. s \in Seq(Bares(S)) /\ s # <<>>  BY <3>2, <3>3
      <4> HIDE DEF b, s
      <4>4. Append(s, b) # <<>> /\ Head(Append(s, b)) = Head(s) /\ Tail(Append(s, b)) = Append(Tail(s), b)
        BY <4>2, <4>3, AppendProperties, HeadTailAppend
      <4>5. Head(s) = Bare(h) /\ Tail(s) = g[i - 1]  BY <3>2 DEF s
      <4>6. Is(i)  BY <4>1, <4>4, <4>5, Zenon
      <4> HIDE DEF Is
      <4> QED BY <3>1, <4>6
    <3> QED BY <3>4, <3>5
  <2> HIDE DEF T
  <2>4. T = 0..n  BY <1>0, <2>1, <2>2, <2>3, Upward
  <2>5. n \in T  BY <1>0, <2>4
  <2> QED BY <2>5 DEF T
<1> QED BY <1>1, <1>2, <1>7, <1>8, Zenon DEF r, h

-----------------------------------------------------------------------------
(* The queues hold commands.  Which ones does not matter to the floor.     *)

Holding(S) == toServer \in [Clients -> Seq(S)] /\ toClient \in [Clients -> Seq(S)]
Queued == \E S : Holding(S)

FloorServer == [c \in Clients |-> FloorQueue(toServer[c])]
FloorClient == [c \in Clients |-> FloorQueue(toClient[c])]

(* A queue of some commands is a queue of more. *)
LEMMA SeqMore ==
  ASSUME NEW S, NEW T, S \subseteq T, NEW q \in Seq(S)
  PROVE  q \in Seq(T)
<1>1. Len(q) \in Nat /\ q \in [1..Len(q) -> S]  BY SeqDef, LenProperties
<1>2. q \in [1..Len(q) -> T]  BY <1>1
<1> QED BY <1>1, <1>2, SeqDef

(* Queues of some commands are queues of more. *)
LEMMA HoldingMore ==
  ASSUME NEW S, NEW T, S \subseteq T, Holding(S)
  PROVE  Holding(T)
BY SeqMore DEF Holding

(* A client sends a command. *)
LEMMA SendsHolding ==
  ASSUME NEW S, Holding(S), NEW c \in Clients, NEW m, Send(c, m), UNCHANGED toClient
  PROVE  /\ Queued'
         /\ FloorClient' = FloorClient
         /\ FloorServer' = IF IsEdit(m) THEN FloorServer
                           ELSE [FloorServer EXCEPT ![c] = Append(@, Bare(m))]
<1> DEFINE T == S \cup {m}
<1>1. Holding(T) /\ m \in T  BY HoldingMore
<1> HIDE DEF T
<1>2. /\ toServer \in [Clients -> Seq(T)] /\ toClient' = toClient
      /\ toServer' = [toServer EXCEPT ![c] = Append(toServer[c], m)]
  BY <1>1 DEF Send, Holding
<1>3. Append(toServer[c], m) \in Seq(T)  BY <1>1, <1>2, AppendProperties
<1>4. Holding(T)'  BY <1>1, <1>2, <1>3 DEF Holding
<1>5. FloorQueue(Append(toServer[c], m)) = IF IsEdit(m) THEN FloorQueue(toServer[c])
                                           ELSE Append(FloorQueue(toServer[c]), Bare(m))
  BY <1>1, <1>2, FloorAppend
<1>6. \A d \in Clients :
        FloorQueue(toServer'[d]) = IF d = c /\ ~IsEdit(m)
                                   THEN Append(FloorQueue(toServer[c]), Bare(m))
                                   ELSE FloorQueue(toServer[d])
  BY <1>2, <1>5
<1>7. FloorServer' = IF IsEdit(m) THEN FloorServer
                     ELSE [FloorServer EXCEPT ![c] = Append(@, Bare(m))]
  BY <1>6, Zenon DEF FloorServer
<1> QED BY <1>2, <1>4, <1>7 DEF Queued, FloorClient

(* A client takes the first command that came. *)
LEMMA ReceivesHolding ==
  ASSUME NEW S, Holding(S), NEW c \in Clients, NEW floor, FromServer(c, floor)
  PROVE  /\ toClient' \in [Clients -> Seq(S)]
         /\ floor = FALSE => FloorClient' = FloorClient
<1>1. /\ toClient \in [Clients -> Seq(S)] /\ toClient[c] # <<>>
      /\ toClient' = [toClient EXCEPT ![c] = Tail(toClient[c])]
  BY DEF FromServer, Holding
<1>2. Tail(toClient[c]) \in Seq(S)  BY <1>1, HeadTailProperties, EmptySeq
<1>3. ASSUME floor = FALSE PROVE FloorClient' = FloorClient
  <2>1. IsEdit(Head(toClient[c]))  BY <1>3 DEF FromServer, IsEdit
  <2>2. FloorQueue(Tail(toClient[c])) = FloorQueue(toClient[c])
    BY <1>1, <2>1, FloorTail
  <2>3. \A d \in Clients : FloorQueue(toClient'[d]) = FloorQueue(toClient[d])
    BY <1>1, <2>2
  <2> QED BY <2>3, Zenon DEF FloorClient
<1> QED BY <1>1, <1>2, <1>3

(* The server takes the first command of a client. *)
LEMMA HandlesHolding ==
  ASSUME NEW S, Holding(S), NEW c \in Clients, NEW floor, FromClient(c, floor)
  PROVE  /\ toServer' \in [Clients -> Seq(S)]
         /\ Head(toServer[c]) \in S
         /\ floor = FALSE => FloorServer' = FloorServer /\ IsEdit(Head(toServer[c]))
<1>1. /\ toServer \in [Clients -> Seq(S)] /\ toServer[c] # <<>>
      /\ toServer' = [toServer EXCEPT ![c] = Tail(toServer[c])]
  BY DEF FromClient, Holding
<1>2. Tail(toServer[c]) \in Seq(S) /\ Head(toServer[c]) \in S
  BY <1>1, HeadTailProperties, EmptySeq
<1>3. ASSUME floor = FALSE PROVE FloorServer' = FloorServer /\ IsEdit(Head(toServer[c]))
  <2>1. IsEdit(Head(toServer[c]))  BY <1>3 DEF FromClient, IsEdit
  <2>2. FloorQueue(Tail(toServer[c])) = FloorQueue(toServer[c])
    BY <1>1, <2>1, FloorTail
  <2>3. \A d \in Clients : FloorQueue(toServer'[d]) = FloorQueue(toServer[d])
    BY <1>1, <2>2
  <2> QED BY <2>1, <2>3, Zenon DEF FloorServer
<1> QED BY <1>1, <1>2, <1>3

(* The server writes a command to some clients. *)
LEMMA WritesHolding ==
  ASSUME NEW S, NEW queues \in [Clients -> Seq(S)], NEW R, NEW m \in S
  PROVE  /\ Write(queues, R, m) \in [Clients -> Seq(S)]
         /\ IsEdit(m) => \A d \in Clients :
              FloorQueue(Write(queues, R, m)[d]) = FloorQueue(queues[d])
<1>1. \A d \in Clients : /\ Append(queues[d], m) \in Seq(S)
                         /\ IsEdit(m) => FloorQueue(Append(queues[d], m)) = FloorQueue(queues[d])
  BY AppendProperties, FloorAppend
<1> QED BY <1>1 DEF Write

-----------------------------------------------------------------------------
(* Steps of the floor, and steps that leave it alone.                      *)

(* The floor's variables are these.  *)
LEMMA FloorStutters ==
  ASSUME UNCHANGED floorVars, FloorServer' = FloorServer, FloorClient' = FloorClient
  PROVE  UNCHANGED Floor!vars
BY Zenon DEF floorVars, FloorServer, FloorClient, Floor!vars, Floor!serverVars, Floor!netVars,
       Floor!clientVars

(* The server. *)
LEMMA ServeFloor ==
  ASSUME Queued, NEW c \in Clients, Serve(c)
  PROVE  Queued' /\ (Floor!Next \/ UNCHANGED Floor!vars)
<1>1. PICK S : Holding(S)  BY DEF Queued
<1>2. CASE HandleLogin(c)
  <2>1. Floor!Next  BY <1>2 DEF HandleLogin, Floor!Next, Floor!Handle
  <2>2. toServer' \in [Clients -> Seq(S)]  BY <1>1, <1>2, HandlesHolding DEF HandleLogin
  <2> DEFINE T == S \cup {Plain(Floor!Reply(TRUE)), Plain(Floor!Reply(FALSE)), Plain(Floor!Peer)}
  <2>3. Holding(T) /\ toServer' \in [Clients -> Seq(T)]
    BY <1>1, <2>2, HoldingMore, SeqMore
  <2>4. /\ Plain(Floor!Reply(TRUE)) \in T /\ Plain(Floor!Reply(FALSE)) \in T
        /\ Plain(Floor!Peer) \in T
    OBVIOUS
  <2> HIDE DEF T
  <2>5. toClient \in [Clients -> Seq(T)]  BY <2>3 DEF Holding
  <2>6. \A R, m : m \in T => Write(toClient, R, m) \in [Clients -> Seq(T)]
    BY <2>5, WritesHolding
  <2>7. \A R : Write(Write(toClient, {c}, Plain(Floor!Reply(TRUE))), R, Plain(Floor!Peer))
                 \in [Clients -> Seq(T)]
    BY <2>4, <2>6, WritesHolding
  <2>8. toClient' \in [Clients -> Seq(T)]
    <3>1. \/ toClient' = Write(toClient, {c}, Plain(Floor!Reply(FALSE)))
          \/ toClient' = Write(Write(toClient, {c}, Plain(Floor!Reply(TRUE))),
                               classUsers \ {c}, Plain(Floor!Peer))
      BY <1>2, Zenon DEF HandleLogin
    <3>2. Write(toClient, {c}, Plain(Floor!Reply(FALSE))) \in [Clients -> Seq(T)]
      BY <2>4, <2>6
    <3>3. Write(Write(toClient, {c}, Plain(Floor!Reply(TRUE))), classUsers \ {c},
                Plain(Floor!Peer)) \in [Clients -> Seq(T)]
      BY <2>7
    <3> QED BY <3>1, <3>2, <3>3, Zenon
  <2> QED BY <2>1, <2>3, <2>8 DEF Queued, Holding
<1>3. CASE HandleFloor(c)
  <2>1. Floor!Next  BY <1>3 DEF HandleFloor, Floor!Next, Floor!Handle
  <2>2. toServer' \in [Clients -> Seq(S)] /\ Head(toServer[c]) \in S
    BY <1>1, <1>3, HandlesHolding DEF HandleFloor
  <2>3. \A R : Write(toClient, R, Head(toServer[c])) \in [Clients -> Seq(S)]
    BY <1>1, <2>2, WritesHolding DEF Holding
  <2>4. toClient' \in [Clients -> Seq(S)]  BY <1>3, <2>3 DEF HandleFloor
  <2> QED BY <2>1, <2>2, <2>4 DEF Queued, Holding
<1>4. CASE HandleEdit(c)
  <2> DEFINE m == Head(toServer[c])
             R == classUsers \ {c}
  <2>1. toServer' \in [Clients -> Seq(S)] /\ m \in S /\ FloorServer' = FloorServer /\ IsEdit(m)
    BY <1>1, <1>4, HandlesHolding DEF HandleEdit
  <2>2. toClient' = Write(toClient, R, m) /\ UNCHANGED floorVars  BY <1>4 DEF HandleEdit
  <2> HIDE DEF m, R
  <2>3. /\ toClient' \in [Clients -> Seq(S)]
        /\ \A d \in Clients : FloorQueue(toClient'[d]) = FloorQueue(toClient[d])
    <3>1. toClient \in [Clients -> Seq(S)] /\ m \in S /\ IsEdit(m)  BY <1>1, <2>1 DEF Holding
    <3>2. /\ Write(toClient, R, m) \in [Clients -> Seq(S)]
          /\ \A d \in Clients :
               FloorQueue(Write(toClient, R, m)[d]) = FloorQueue(toClient[d])
      BY <3>1, WritesHolding
    <3>3. toClient' = Write(toClient, R, m)  BY <2>2
    <3> QED BY <3>2, <3>3, Zenon
  <2>4. FloorClient' = FloorClient  BY <2>3, Zenon DEF FloorClient
  <2>5. Queued'  BY <2>1, <2>3 DEF Queued, Holding
  <2>6. UNCHANGED Floor!vars  BY <2>1, <2>2, <2>4, FloorStutters
  <2> QED BY <2>5, <2>6
<1> QED BY <1>2, <1>3, <1>4 DEF Serve

(* The clients' handlers. *)
LEMMA ReceiveFloor ==
  ASSUME Queued, NEW c \in Clients, Receive(c)
  PROVE  Queued' /\ (Floor!Next \/ UNCHANGED Floor!vars)
<1>1. PICK S : Holding(S)  BY DEF Queued
<1>2. ASSUME NEW floor, FromServer(c, floor), UNCHANGED toServer
      PROVE  Queued' /\ FloorServer' = FloorServer
  BY <1>1, <1>2, ReceivesHolding, Zenon DEF Queued, Holding, FloorServer
<1>3. CASE OnBoardLogin(c)
  <2>1. FromServer(c, TRUE) /\ UNCHANGED toServer /\ Floor!OnBoardLogin(c)
    BY <1>3 DEF OnBoardLogin
  <2>2. Floor!Next  BY <2>1 DEF Floor!Next, Floor!Receive
  <2> QED BY <1>2, <2>1, <2>2
<1>4. CASE OnPeerLogin(c)
  <2>1. Floor!Next  BY <1>4 DEF OnPeerLogin, Floor!Next, Floor!Receive
  <2>2. toClient' \in [Clients -> Seq(S)]  BY <1>1, <1>4, ReceivesHolding DEF OnPeerLogin
  <2> DEFINE m == NetworkSwitchPage(current[c], Page(c))
             T == S \cup {m}
  <2>3. toServer' = [toServer EXCEPT ![c] = Append(toServer[c], m)] \/ toServer' = toServer
    BY <1>4 DEF OnPeerLogin, Send
  <2> HIDE DEF m
  <2>4. Holding(T) /\ toClient' \in [Clients -> Seq(T)] /\ m \in T
    BY <1>1, <2>2, HoldingMore, SeqMore
  <2> HIDE DEF T
  <2>5. toServer \in [Clients -> Seq(T)] /\ Append(toServer[c], m) \in Seq(T)
    BY <2>4, AppendProperties DEF Holding
  <2>6. toServer' \in [Clients -> Seq(T)]  BY <2>3, <2>5
  <2> QED BY <2>1, <2>4, <2>6 DEF Queued, Holding
<1>5. CASE OnStudentApplyBoard(c)
  BY <1>2, <1>5 DEF OnStudentApplyBoard, Floor!Next, Floor!Receive
<1>6. CASE OnTeacherAgreeBoard(c)
  BY <1>2, <1>6 DEF OnTeacherAgreeBoard, Floor!Next, Floor!Receive
<1>7. CASE OnTeacherTakeBoard(c)
  BY <1>2, <1>7 DEF OnTeacherTakeBoard, Floor!Next, Floor!Receive
<1>8. CASE PlayNetworkSwitchPage(c)
  <2>1. FromServer(c, TRUE) /\ UNCHANGED toServer /\ Floor!PlayNetworkSwitchPage(c)
    BY <1>8 DEF PlayNetworkSwitchPage
  <2>2. Floor!Next  BY <2>1 DEF Floor!Next, Floor!Receive
  <2> QED BY <1>2, <2>1, <2>2
<1>9. CASE PlayAction(c)
  <2>1. FromServer(c, FALSE) /\ UNCHANGED toServer /\ UNCHANGED floorVars
    BY <1>9 DEF PlayAction
  <2>2. FloorClient' = FloorClient  BY <1>1, <2>1, ReceivesHolding
  <2> QED BY <1>2, <2>1, <2>2, FloorStutters
<1> QED BY <1>3, <1>4, <1>5, <1>6, <1>7, <1>8, <1>9 DEF Receive

(* Joining, asking for the board, taking and giving it. *)
LEMMA AskFloor ==
  ASSUME Queued, NEW c \in Clients, AskForBoard(c)
  PROVE  Queued' /\ (Floor!Next \/ UNCHANGED Floor!vars)
<1>1. PICK S : Holding(S)  BY DEF Queued
<1>2. ASSUME NEW m, Send(c, m), UNCHANGED toClient PROVE Queued'
  BY <1>1, <1>2, SendsHolding
<1>3. CASE Connect(c)
  BY <1>2, <1>3 DEF Connect, Floor!Next, Floor!Input
<1>4. CASE OnApplyBoard(c)
  BY <1>2, <1>4 DEF OnApplyBoard, Floor!Next, Floor!Input
<1>5. CASE OnTakeBoard(c)
  BY <1>2, <1>5 DEF OnTakeBoard, Floor!Next, Floor!Input
<1>6. CASE \E yes \in BOOLEAN : AnswerApply(c, yes)
  BY <1>2, <1>6 DEF AnswerApply, Floor!Next, Floor!Input
<1> QED BY <1>3, <1>4, <1>5, <1>6 DEF AskForBoard

(* What is drawn is sent, but not to the floor. *)
LEMMA ActsFloor ==
  ASSUME Queued, NEW c \in Clients, NEW input, NEW action, NEW u, NEW look, NEW q,
         Acts(c, input, action, u, look, q)
  PROVE  Queued' /\ UNCHANGED Floor!vars
<1>1. PICK S : Holding(S)  BY DEF Queued
<1>2. UNCHANGED floorVars /\ UNCHANGED toClient  BY DEF Acts
<1> DEFINE m == Edit(action, u, look)
<1>3. Send(c, m) \/ UNCHANGED toServer  BY DEF Acts, AddActionTriggered
<1>4. IsEdit(m)  BY DEF IsEdit, Edit, With, Floor!Command
<1> HIDE DEF m
<1>5. CASE Send(c, m)
  BY <1>1, <1>2, <1>4, <1>5, SendsHolding, FloorStutters
<1>6. CASE UNCHANGED toServer
  <2>1. FloorServer' = FloorServer /\ FloorClient' = FloorClient
    BY <1>2, <1>6, Zenon DEF FloorServer, FloorClient
  <2>2. Queued'  BY <1>1, <1>2, <1>6 DEF Queued, Holding
  <2> QED BY <1>2, <2>1, <2>2, FloorStutters
<1> QED BY <1>3, <1>5, <1>6

(* Drawing, undoing, redoing and changing what is selected. *)
LEMMA EditFloor ==
  ASSUME Queued, NEW c \in Clients, EditPage(c)
  PROVE  Queued' /\ UNCHANGED Floor!vars
<1>1. CASE Draw(c)  BY <1>1, ActsFloor DEF Draw
<1>2. CASE Undo(c)  BY <1>2, ActsFloor DEF Undo
<1>3. CASE Redo(c)  BY <1>3, ActsFloor DEF Redo
<1>4. CASE OnSelected(c)  BY <1>4, ActsFloor DEF OnSelected
<1> QED BY <1>1, <1>2, <1>3, <1>4 DEF EditPage

(* A page is sent by a client in control, and then the floor's page switch *)
(* is made; the others turn pages without the floor.                       *)
LEMMA SwitchesFloor ==
  ASSUME Queued, NEW c \in Clients, NEW p, NEW page, Room, Floor!AtDesk(c),
         AddActionTriggered(c, NetworkSwitchPage(p, page)), UNCHANGED <<floorVars, toClient>>
  PROVE  Queued' /\ (Floor!SwitchPage(c) \/ UNCHANGED Floor!vars)
<1>1. PICK S : Holding(S)  BY DEF Queued
<1> DEFINE m == NetworkSwitchPage(p, page)
<1>2. IF controling[c] THEN Send(c, m) ELSE UNCHANGED toServer  BY DEF AddActionTriggered
<1>3. ~IsEdit(m) /\ Bare(m) = Floor!Switch
  BY DEF IsEdit, NetworkSwitchPage, With, Bare, Floor!Switch, Floor!Command
<1> HIDE DEF m
<1>4. CASE controling[c]
  <2>1. Send(c, m) /\ UNCHANGED toClient  BY <1>2, <1>4
  <2>2. /\ Queued' /\ FloorClient' = FloorClient
        /\ FloorServer' = [FloorServer EXCEPT ![c] = Append(@, Floor!Switch)]
    BY <1>1, <1>3, <2>1, SendsHolding
  <2>3. Floor!Room  BY DEF Room
  <2>4. UNCHANGED floorVars  OBVIOUS
  <2>5. Floor!Send(c, Floor!Switch)  BY <2>2, Zenon DEF Floor!Send, FloorServer
  <2>6. UNCHANGED <<Floor!serverVars, FloorClient, Floor!clientVars>>
    BY <2>2, <2>4, Zenon DEF floorVars, Floor!serverVars, Floor!clientVars
  <2>7. Floor!SwitchPage(c)
    BY <1>4, <2>3, <2>5, <2>6, Zenon DEF Floor!SwitchPage, FloorClient
  <2> QED BY <2>2, <2>7
<1>5. CASE ~controling[c]
  <2>1. UNCHANGED toServer /\ UNCHANGED toClient /\ UNCHANGED floorVars  BY <1>2, <1>5
  <2>2. FloorServer' = FloorServer /\ FloorClient' = FloorClient
    BY <2>1, Zenon DEF FloorServer, FloorClient
  <2>3. Queued'  BY <1>1, <2>1 DEF Queued, Holding
  <2> QED BY <2>1, <2>2, <2>3, FloorStutters
<1> QED BY <1>4, <1>5

(* New pages, selected pages, and the pages dialog. *)
LEMMA TurnFloor ==
  ASSUME Queued, NEW c \in Clients, TurnPages(c)
  PROVE  Queued' /\ (Floor!Next \/ UNCHANGED Floor!vars)
<1>1. ASSUME Floor!SwitchPage(c) PROVE Floor!Next
  BY <1>1 DEF Floor!Next, Floor!Input
<1>2. ASSUME UNCHANGED <<floorVars, toServer, toClient>>
      PROVE  Queued' /\ UNCHANGED Floor!vars
  <2>1. FloorServer' = FloorServer /\ FloorClient' = FloorClient
    BY <1>2, Zenon DEF FloorServer, FloorClient
  <2>2. PICK S : Holding(S)  BY DEF Queued
  <2>3. Queued'  BY <1>2, <2>2 DEF Queued, Holding
  <2> QED BY <1>2, <2>1, <2>3, FloorStutters
<1>3. CASE OnNewPage(c)
  BY <1>1, <1>3, SwitchesFloor DEF OnNewPage, May, AtDesk
<1>4. ASSUME NEW i, OnSelectPage(c, i), Room, Floor!AtDesk(c)
      PROVE  Queued' /\ (Floor!Next \/ UNCHANGED Floor!vars)
  BY <1>1, <1>4, SwitchesFloor DEF OnSelectPage
<1>5. CASE OnSwitchPage(c)  BY <1>2, <1>5 DEF OnSwitchPage
<1>6. CASE OnItemDoubleClick(c)  BY <1>4, <1>6 DEF OnItemDoubleClick
<1>7. CASE CloseDialog(c)  BY <1>2, <1>7 DEF CloseDialog
<1>8. CASE OnPreviousPage(c)  BY <1>4, <1>8 DEF OnPreviousPage, May, AtDesk
<1>9. CASE OnNextPage(c)  BY <1>4, <1>9 DEF OnNextPage, May, AtDesk
<1> QED BY <1>3, <1>5, <1>6, <1>7, <1>8, <1>9 DEF TurnPages

(* The queues begin empty. *)
LEMMA InitFloor == Init => Queued /\ Floor!Init
<1>1. <<>> \in Seq({})  BY EmptySeq
<1> QED BY <1>1 DEF Init, Queued, Holding

(* The queues stay queues, and every step is one of the floor or none.     *)
LEMMA StepFloor ==
  ASSUME Queued, [Next]_vars
  PROVE  Queued' /\ (Floor!Next \/ UNCHANGED Floor!vars)
<1>1. CASE UNCHANGED vars
  <2>1. UNCHANGED <<toServer, toClient>> /\ UNCHANGED floorVars  BY <1>1 DEF vars
  <2>2. FloorServer' = FloorServer /\ FloorClient' = FloorClient
    BY <2>1, Zenon DEF FloorServer, FloorClient
  <2>3. PICK S : Holding(S)  BY DEF Queued
  <2>4. Queued'  BY <2>1, <2>3 DEF Queued, Holding
  <2> QED BY <2>1, <2>2, <2>4, FloorStutters
<1>2. CASE Next
  BY <1>2, ServeFloor, ReceiveFloor, AskFloor, EditFloor, TurnFloor DEF Next
<1> QED BY <1>1, <1>2

(* LiveBoard implements FloorControl: whatever is drawn or turned, control *)
(* changes as AddActionTriggered and the handlers of the floor's commands  *)
(* change it, and in no other way.                                         *)
THEOREM ImplementsFloorHolds == Spec => ImplementsFloor
<1>1. Init => Queued /\ Floor!Init  BY InitFloor
<1>2. Queued /\ [Next]_vars => Queued'  BY StepFloor
<1>3. Queued /\ [Next]_vars => [Floor!Next]_(Floor!vars)  BY StepFloor
<1> QED BY <1>1, <1>2, <1>3, PTL DEF Spec, ImplementsFloor, Floor!Spec

-----------------------------------------------------------------------------
(* What is proved of the floor alone holds with the pages.                 *)

FloorTheorems == INSTANCE FloorControl_proofs WITH
  toServer <- [c \in Clients |-> FloorQueue(toServer[c])],
  toClient <- [c \in Clients |-> FloorQueue(toClient[c])]

(* The class is one that FloorControl assumes. *)
LEMMA ClassOfFloor ==
  /\ Teachers \subseteq Clients
  /\ Students \subseteq Clients
  /\ Teachers \cap Students = {}
  /\ AllTeachers \in BOOLEAN
  /\ UserId \in [Clients -> Users]
  /\ NoUser \notin Users
  /\ NoClient \notin Clients
  /\ MaxInFlight \in Nat
BY BoardAssumption

(* Both instances of FloorControl make the same steps. *)
LEMMA SameFloor ==
  /\ Floor!Init <=> FloorTheorems!Init
  /\ Floor!Next <=> FloorTheorems!Next
  /\ Floor!vars = FloorTheorems!vars
<1>1. Floor!InFlight = FloorTheorems!InFlight
  BY DEF Floor!InFlight, FloorTheorems!InFlight, Floor!SumFunction,
     FloorTheorems!SumFunction, Floor!SumFunctionOnSet,
     FloorTheorems!SumFunctionOnSet, Floor!FoldFunctionOnSet,
     FloorTheorems!FoldFunctionOnSet, Floor!MapThenFoldSet,
     FloorTheorems!MapThenFoldSet
<1>2. \A c : Floor!HandleLogin(c) <=> FloorTheorems!HandleLogin(c)
  BY DEF Floor!HandleLogin, FloorTheorems!HandleLogin, Floor!Handles,
     FloorTheorems!Handles, Floor!Login, FloorTheorems!Login, Floor!Command,
     FloorTheorems!Command, Floor!Relay, FloorTheorems!Relay, Floor!Write,
     FloorTheorems!Write, Floor!Writable, FloorTheorems!Writable, Floor!Runs, FloorTheorems!Runs, Floor!Reply,
     FloorTheorems!Reply, Floor!AddClassUser, FloorTheorems!AddClassUser,
     Floor!IsTeacher, FloorTheorems!IsTeacher, Floor!Peer, FloorTheorems!Peer,
     Floor!clientVars, FloorTheorems!clientVars
<1>3. \A c : Floor!HandleApply(c) <=> FloorTheorems!HandleApply(c)
  BY DEF Floor!HandleApply, FloorTheorems!HandleApply, Floor!Handles,
     FloorTheorems!Handles, Floor!Apply, FloorTheorems!Apply, Floor!Relay,
     FloorTheorems!Relay, Floor!Write, FloorTheorems!Write, Floor!Writable,
     FloorTheorems!Writable, Floor!Runs, FloorTheorems!Runs, Floor!serverVars, FloorTheorems!serverVars,
     Floor!clientVars, FloorTheorems!clientVars
<1>4. \A c : Floor!HandleAgree(c) <=> FloorTheorems!HandleAgree(c)
  BY DEF Floor!HandleAgree, FloorTheorems!HandleAgree, Floor!Handles,
     FloorTheorems!Handles, Floor!Agree, FloorTheorems!Agree, Floor!Relay,
     FloorTheorems!Relay, Floor!Write, FloorTheorems!Write, Floor!Writable,
     FloorTheorems!Writable, Floor!Runs, FloorTheorems!Runs, Floor!clientVars, FloorTheorems!clientVars
<1>5. \A c : Floor!HandleTake(c) <=> FloorTheorems!HandleTake(c)
  BY DEF Floor!HandleTake, FloorTheorems!HandleTake, Floor!Handles,
     FloorTheorems!Handles, Floor!Take, FloorTheorems!Take, Floor!Command,
     FloorTheorems!Command, Floor!Relay, FloorTheorems!Relay, Floor!Write,
     FloorTheorems!Write, Floor!Writable, FloorTheorems!Writable, Floor!Runs, FloorTheorems!Runs,
     Floor!clientVars, FloorTheorems!clientVars
<1>6. \A c : Floor!HandleBoardData(c) <=> FloorTheorems!HandleBoardData(c)
  BY DEF Floor!HandleBoardData, FloorTheorems!HandleBoardData, Floor!Handles,
     FloorTheorems!Handles, Floor!Switch, FloorTheorems!Switch, Floor!Command,
     FloorTheorems!Command, Floor!Relay, FloorTheorems!Relay, Floor!Write,
     FloorTheorems!Write, Floor!Writable, FloorTheorems!Writable, Floor!Runs, FloorTheorems!Runs,
     Floor!serverVars, FloorTheorems!serverVars, Floor!clientVars,
     FloorTheorems!clientVars
<1>7. \A c : Floor!ReadEnds(c) <=> FloorTheorems!ReadEnds(c)
  BY DEF Floor!ReadEnds, FloorTheorems!ReadEnds, Floor!clientVars,
     FloorTheorems!clientVars
<1>8. \A c : Floor!OnClose(c) <=> FloorTheorems!OnClose(c)
  BY DEF Floor!OnClose, FloorTheorems!OnClose, Floor!RemoveUser,
     FloorTheorems!RemoveUser, Floor!netVars, FloorTheorems!netVars,
     Floor!clientVars, FloorTheorems!clientVars
<1>9. \A c : Floor!OnBoardLogin(c) <=> FloorTheorems!OnBoardLogin(c)
  BY DEF Floor!Runs, FloorTheorems!Runs, Floor!OnBoardLogin, FloorTheorems!OnBoardLogin, Floor!Receives,
     FloorTheorems!Receives, Floor!Reply, FloorTheorems!Reply, Floor!Show,
     FloorTheorems!Show, Floor!SetEnabled, FloorTheorems!SetEnabled,
     Floor!IsDemo, FloorTheorems!IsDemo, Floor!SetEnableCurrentPage,
     FloorTheorems!SetEnableCurrentPage, Floor!IsTeacher,
     FloorTheorems!IsTeacher, Floor!serverVars, FloorTheorems!serverVars
<1>10. \A c : Floor!OnPeerLogin(c) <=> FloorTheorems!OnPeerLogin(c)
  BY DEF Floor!Runs, FloorTheorems!Runs, Floor!OnPeerLogin, FloorTheorems!OnPeerLogin, Floor!Receives,
     FloorTheorems!Receives, Floor!Peer, FloorTheorems!Peer, Floor!Command,
     FloorTheorems!Command, Floor!IsTeacher, FloorTheorems!IsTeacher,
     Floor!Send, FloorTheorems!Send, Floor!Switch, FloorTheorems!Switch,
     Floor!serverVars, FloorTheorems!serverVars, Floor!clientVars,
     FloorTheorems!clientVars
<1>11. \A c : Floor!OnStudentApplyBoard(c) <=> FloorTheorems!OnStudentApplyBoard(c)
  BY DEF Floor!Runs, FloorTheorems!Runs, Floor!OnStudentApplyBoard, FloorTheorems!OnStudentApplyBoard,
     Floor!Receives, FloorTheorems!Receives, Floor!Apply, FloorTheorems!Apply,
     Floor!serverVars, FloorTheorems!serverVars
<1>12. \A c : Floor!OnTeacherAgreeBoard(c) <=> FloorTheorems!OnTeacherAgreeBoard(c)
  BY DEF Floor!Runs, FloorTheorems!Runs, Floor!OnTeacherAgreeBoard, FloorTheorems!OnTeacherAgreeBoard,
     Floor!Receives, FloorTheorems!Receives, Floor!Agree, FloorTheorems!Agree,
     Floor!IsTeacher, FloorTheorems!IsTeacher, Floor!Show, FloorTheorems!Show,
     Floor!SetEnabled, FloorTheorems!SetEnabled, Floor!SetEnableCurrentPage,
     FloorTheorems!SetEnableCurrentPage, Floor!serverVars,
     FloorTheorems!serverVars
<1>13. \A c : Floor!OnTeacherTakeBoard(c) <=> FloorTheorems!OnTeacherTakeBoard(c)
  BY DEF Floor!Runs, FloorTheorems!Runs, Floor!OnTeacherTakeBoard, FloorTheorems!OnTeacherTakeBoard,
     Floor!Receives, FloorTheorems!Receives, Floor!Take, FloorTheorems!Take,
     Floor!Command, FloorTheorems!Command, Floor!Show, FloorTheorems!Show,
     Floor!SetEnabled, FloorTheorems!SetEnabled, Floor!IsDemo,
     FloorTheorems!IsDemo, Floor!IsTeacher, FloorTheorems!IsTeacher,
     Floor!SetEnableCurrentPage, FloorTheorems!SetEnableCurrentPage,
     Floor!serverVars, FloorTheorems!serverVars
<1>14. \A c : Floor!PlayNetworkSwitchPage(c) <=> FloorTheorems!PlayNetworkSwitchPage(c)
  BY DEF Floor!Runs, FloorTheorems!Runs, Floor!PlayNetworkSwitchPage, FloorTheorems!PlayNetworkSwitchPage,
     Floor!Receives, FloorTheorems!Receives, Floor!Switch,
     FloorTheorems!Switch, Floor!Command, FloorTheorems!Command,
     Floor!SetEnableCurrentPage, FloorTheorems!SetEnableCurrentPage,
     Floor!serverVars, FloorTheorems!serverVars
<1>15. \A c : Floor!Connect(c) <=> FloorTheorems!Connect(c)
  BY <1>1 DEF Floor!Connect, FloorTheorems!Connect, Floor!Room,
     FloorTheorems!Room, Floor!Send, FloorTheorems!Send, Floor!Login,
     FloorTheorems!Login, Floor!Command, FloorTheorems!Command
<1>16. \A c : Floor!OnApplyBoard(c) <=> FloorTheorems!OnApplyBoard(c)
  BY <1>1 DEF Floor!Runs, FloorTheorems!Runs, Floor!OnApplyBoard, FloorTheorems!OnApplyBoard, Floor!AtDesk,
     FloorTheorems!AtDesk, Floor!Room, FloorTheorems!Room, Floor!Send,
     FloorTheorems!Send, Floor!Apply, FloorTheorems!Apply, Floor!serverVars,
     FloorTheorems!serverVars, Floor!clientVars, FloorTheorems!clientVars
<1>17. \A c : Floor!OnTakeBoard(c) <=> FloorTheorems!OnTakeBoard(c)
  BY <1>1 DEF Floor!Runs, FloorTheorems!Runs, Floor!OnTakeBoard, FloorTheorems!OnTakeBoard, Floor!AtDesk,
     FloorTheorems!AtDesk, Floor!Room, FloorTheorems!Room, Floor!Send,
     FloorTheorems!Send, Floor!Take, FloorTheorems!Take, Floor!Command,
     FloorTheorems!Command, Floor!Show, FloorTheorems!Show, Floor!SetEnabled,
     FloorTheorems!SetEnabled, Floor!SetEnableCurrentPage,
     FloorTheorems!SetEnableCurrentPage, Floor!serverVars,
     FloorTheorems!serverVars
<1>18. \A c : Floor!SwitchPage(c) <=> FloorTheorems!SwitchPage(c)
  BY <1>1 DEF Floor!Runs, FloorTheorems!Runs, Floor!SwitchPage, FloorTheorems!SwitchPage, Floor!AtDesk,
     FloorTheorems!AtDesk, Floor!Room, FloorTheorems!Room, Floor!Send,
     FloorTheorems!Send, Floor!Switch, FloorTheorems!Switch, Floor!Command,
     FloorTheorems!Command, Floor!serverVars, FloorTheorems!serverVars,
     Floor!clientVars, FloorTheorems!clientVars
<1>19. \A c, yes : Floor!AnswerApply(c, yes) <=> FloorTheorems!AnswerApply(c, yes)
  BY DEF Floor!Runs, FloorTheorems!Runs, Floor!AnswerApply, FloorTheorems!AnswerApply, Floor!Send,
     FloorTheorems!Send, Floor!Agree, FloorTheorems!Agree, Floor!Show,
     FloorTheorems!Show, Floor!SetEnabled, FloorTheorems!SetEnabled,
     Floor!SetEnableCurrentPage, FloorTheorems!SetEnableCurrentPage,
     Floor!serverVars, FloorTheorems!serverVars
<1>20. \A c : Floor!Leave(c) <=> FloorTheorems!Leave(c)
  BY DEF Floor!Runs, FloorTheorems!Runs, Floor!Leave, FloorTheorems!Leave, Floor!Blank, FloorTheorems!Blank,
     Floor!serverVars, FloorTheorems!serverVars
<1>21. \A c, d : Floor!ShowNetworkRetry(c, d) <=> FloorTheorems!ShowNetworkRetry(c, d)
  BY DEF Floor!ShowNetworkRetry, FloorTheorems!ShowNetworkRetry, Floor!Blank,
     FloorTheorems!Blank, Floor!Login, FloorTheorems!Login, Floor!Command,
     FloorTheorems!Command
<1>22. Floor!Next <=> FloorTheorems!Next
  BY <1>21, <1>2, <1>3, <1>4, <1>5, <1>6, <1>7, <1>8, <1>9, <1>10, <1>11, <1>12, <1>13, <1>14, <1>15, <1>16, <1>17, <1>18, <1>19, <1>20, Zenon
     DEF Floor!Next, FloorTheorems!Next, Floor!Handle, FloorTheorems!Handle, Floor!Receive,
         FloorTheorems!Receive, Floor!Input, FloorTheorems!Input
<1>23. Floor!Init <=> FloorTheorems!Init
  BY DEF Floor!Init, FloorTheorems!Init, Floor!Blank, FloorTheorems!Blank
<1>24. Floor!vars = FloorTheorems!vars
  BY DEF Floor!vars, FloorTheorems!vars, Floor!serverVars,
     FloorTheorems!serverVars, Floor!netVars, FloorTheorems!netVars,
     Floor!clientVars, FloorTheorems!clientVars
<1> QED BY <1>22, <1>23, <1>24

(* The behaviours of this module are behaviours of the floor. *)
LEMMA FloorSpec == Spec => FloorTheorems!Spec
<1>1. Init => Queued /\ FloorTheorems!Init  BY InitFloor, SameFloor
<1>2. Queued /\ [Next]_vars => Queued'  BY StepFloor
<1>3. Queued /\ [Next]_vars => [FloorTheorems!Next]_(FloorTheorems!vars)
  <2>1. Floor!vars' = FloorTheorems!vars'
    BY DEF Floor!vars, FloorTheorems!vars, Floor!serverVars, FloorTheorems!serverVars,
           Floor!netVars, FloorTheorems!netVars, Floor!clientVars, FloorTheorems!clientVars
  <2> QED BY <2>1, StepFloor, SameFloor
<1> QED BY <1>1, <1>2, <1>3, PTL DEF Spec, FloorTheorems!Spec

(* With the pages, too: the class holds no deleted user, a login's answer  *)
(* comes first, and whoever controls the board has its tools.              *)
THEOREM FloorKept ==
  Spec => [](Floor!TypeOK /\ Floor!NoDeletedUser /\ Floor!ReplyFirst /\ Floor!ControllerHasTools)
<1>1. Spec => [](/\ FloorTheorems!TypeOK /\ FloorTheorems!NoDeletedUser
                 /\ FloorTheorems!ReplyFirst /\ FloorTheorems!ControllerHasTools)
  <2>1. FloorTheorems!Spec => []FloorTheorems!TypeOK
    BY ClassOfFloor, FloorTheorems!TypeCorrect
  <2>2. FloorTheorems!Spec => []FloorTheorems!NoDeletedUser
    BY ClassOfFloor, FloorTheorems!NoDeletedUserHolds
  <2>3. FloorTheorems!Spec => []FloorTheorems!ReplyFirst
    BY ClassOfFloor, FloorTheorems!ReplyFirstHolds
  <2>4. FloorTheorems!Spec => []FloorTheorems!ControllerHasTools
    BY ClassOfFloor, FloorTheorems!ControllerHasToolsHolds
  <2> QED BY <2>1, <2>2, <2>3, <2>4, FloorSpec, PTL
<1>2. FloorTheorems!TypeOK => Floor!TypeOK
  BY DEF FloorTheorems!TypeOK, Floor!TypeOK, FloorTheorems!Msg, Floor!Msg
<1>3. FloorTheorems!NoDeletedUser => Floor!NoDeletedUser
  BY DEF FloorTheorems!NoDeletedUser, Floor!NoDeletedUser
<1>4. FloorTheorems!ReplyFirst => Floor!ReplyFirst
  BY DEF FloorTheorems!ReplyFirst, Floor!ReplyFirst
<1>5. FloorTheorems!ControllerHasTools => Floor!ControllerHasTools
  BY DEF FloorTheorems!ControllerHasTools, Floor!ControllerHasTools
<1> QED BY <1>1, <1>2, <1>3, <1>4, <1>5, PTL

(* Two clients have the board at once only while what ends it is under     *)
(* way, and once all is handled only the one the relay chose has it,       *)
(* whatever is drawn, played and turned meanwhile.                         *)
THEOREM FloorDecided ==
  ASSUME FloorTheorems!OneTeacher
  PROVE  Spec => [](Floor!ConflictInFlight /\ Floor!SettledHolder)
<1>1. Spec => [](FloorTheorems!ConflictInFlight /\ FloorTheorems!SettledHolder)
  <2>1. FloorTheorems!Spec => []FloorTheorems!ConflictInFlight
    BY ClassOfFloor, FloorTheorems!ConflictInFlightHolds
  <2>2. FloorTheorems!Spec => []FloorTheorems!SettledHolder
    BY ClassOfFloor, FloorTheorems!SettledHolderHolds
  <2> QED BY <2>1, <2>2, FloorSpec, PTL
<1>2. FloorTheorems!ConflictInFlight => Floor!ConflictInFlight
  BY DEF FloorTheorems!ConflictInFlight, Floor!ConflictInFlight, FloorTheorems!Taking,
     Floor!Taking, FloorTheorems!Losing, Floor!Losing, FloorTheorems!Revokes, Floor!Revokes,
     FloorTheorems!IsTeacher, Floor!IsTeacher, FloorTheorems!CameBack, Floor!CameBack
<1>3. FloorTheorems!SettledHolder => Floor!SettledHolder
  BY DEF FloorTheorems!SettledHolder, Floor!SettledHolder, FloorTheorems!Settled,
     Floor!Settled, FloorTheorems!TeacherBack, Floor!TeacherBack, FloorTheorems!CameBack,
     Floor!CameBack
<1> QED BY <1>1, <1>2, <1>3, PTL

(* The least of some positions. *)
LEMMA LowestIs ==
  ASSUME NEW S \in SUBSET Nat, S # {}
  PROVE  Lowest(S) \in S /\ \A j \in S : Lowest(S) <= j
<1>1. \E i \in S : \A j \in S : i <= j  BY Least
<1> QED BY <1>1 DEF Lowest

(* A list without the element at a position. *)
LEMMA Removed ==
  ASSUME NEW S, NEW s \in Seq(S), NEW k \in 1..Len(s)
  PROVE  /\ RemoveAt(s, k) \in Seq(S)
         /\ Len(RemoveAt(s, k)) = Len(s) - 1
         /\ \A j \in 1..(Len(s) - 1) : RemoveAt(s, k)[j] = IF j < k THEN s[j] ELSE s[j + 1]
<1> DEFINE n == Len(s)
           front == SubSeq(s, 1, k - 1)
           back == SubSeq(s, k + 1, n)
<1>1. n \in Nat /\ k \in 1..n /\ \A i \in 1..n : s[i] \in S  BY LenProperties, ElementOfSeq
<1>2. /\ front \in Seq(S) /\ Len(front) = k - 1
      /\ \A i \in 1..(k - 1) : front[i] = s[i]
  <2>1. /\ front \in Seq(S)
        /\ Len(front) = IF 1 <= k - 1 THEN k - 1 - 1 + 1 ELSE 0
        /\ \A i \in 1..(k - 1 - 1 + 1) : front[i] = s[1 + i - 1]
    BY <1>1, SubSeqProperties
  <2> HIDE DEF front, n
  <2> QED BY <1>1, <2>1
<1>3. /\ back \in Seq(S) /\ Len(back) = n - k
      /\ \A i \in 1..(n - k) : back[i] = s[k + i]
  <2>1. /\ back \in Seq(S)
        /\ Len(back) = IF k + 1 <= n THEN n - (k + 1) + 1 ELSE 0
        /\ \A i \in 1..(n - (k + 1) + 1) : back[i] = s[(k + 1) + i - 1]
    BY <1>1, SubSeqProperties
  <2> HIDE DEF back, n
  <2> QED BY <1>1, <2>1
<1>4. RemoveAt(s, k) = front \o back  BY DEF RemoveAt
<1> HIDE DEF front, back
<1>5. /\ front \o back \in Seq(S) /\ Len(front \o back) = (k - 1) + (n - k)
      /\ \A i \in 1..((k - 1) + (n - k)) :
           (front \o back)[i] = IF i <= k - 1 THEN front[i] ELSE back[i - (k - 1)]
  <2>1. /\ front \o back \in Seq(S) /\ Len(front \o back) = Len(front) + Len(back)
        /\ \A i \in 1..(Len(front) + Len(back)) :
             (front \o back)[i] = IF i <= Len(front) THEN front[i] ELSE back[i - Len(front)]
    BY <1>2, <1>3, ConcatProperties
  <2> QED BY <1>2, <1>3, <2>1
<1> HIDE DEF n
<1>6. ASSUME NEW j \in 1..(n - 1)
      PROVE  (front \o back)[j] = IF j < k THEN s[j] ELSE s[j + 1]
  <2>1. j \in 1..((k - 1) + (n - k))  BY <1>1
  <2>2. CASE j < k
    <3>1. j \in 1..(k - 1)  BY <1>1, <2>2
    <3> QED BY <1>2, <1>5, <2>1, <2>2, <3>1
  <2>3. CASE ~(j < k)
    <3>1. j - (k - 1) \in 1..(n - k) /\ ~(j <= k - 1) /\ k + (j - (k - 1)) = j + 1
      BY <1>1, <2>3
    <3> QED BY <1>3, <1>5, <2>1, <2>3, <3>1
  <2> QED BY <2>2, <2>3
<1>7. Len(front \o back) = n - 1  BY <1>1, <1>5
<1> QED BY <1>4, <1>5, <1>6, <1>7 DEF n

(* Dropping the last is taking it out. *)
LEMMA FrontIs ==
  ASSUME NEW S, NEW s \in Seq(S), s # <<>>
  PROVE  Len(s) \in 1..Len(s) /\ Front(s) = RemoveAt(s, Len(s)) /\ Last(s) = s[Len(s)]
<1> DEFINE n == Len(s)
<1>1. n \in Nat /\ n # 0 /\ n \in 1..n  BY LenProperties, EmptySeq
<1>2. /\ RemoveAt(s, n) \in Seq(S) /\ Len(RemoveAt(s, n)) = n - 1
      /\ \A j \in 1..(n - 1) : RemoveAt(s, n)[j] = IF j < n THEN s[j] ELSE s[j + 1]
  BY <1>1, Removed
<1>3. Front(s) = SubSeq(s, 1, n - 1) /\ Last(s) = s[n]  BY DEF Front, Last
<1>4. /\ SubSeq(s, 1, n - 1) \in Seq(S) /\ Len(SubSeq(s, 1, n - 1)) = n - 1
      /\ \A i \in 1..(n - 1) : SubSeq(s, 1, n - 1)[i] = s[i]
  <2>0. 1 \in Nat /\ n - 1 \in Nat /\ \A i \in 1..(n - 1) : s[i] \in S /\ i \in 1..n
    BY <1>1, ElementOfSeq
  <2>1. /\ SubSeq(s, 1, n - 1) \in Seq(S)
        /\ Len(SubSeq(s, 1, n - 1)) = IF 1 <= n - 1 THEN n - 1 - 1 + 1 ELSE 0
        /\ \A i \in 1..(n - 1 - 1 + 1) : SubSeq(s, 1, n - 1)[i] = s[1 + i - 1]
    BY <1>1, <2>0, SubSeqProperties
  <2> HIDE DEF n
  <2> QED BY <1>1, <2>1
<1> HIDE DEF n
<1>5. \A i \in 1..(n - 1) : SubSeq(s, 1, n - 1)[i] = RemoveAt(s, n)[i]  BY <1>1, <1>2, <1>4
<1>6. SubSeq(s, 1, n - 1) = RemoveAt(s, n)  BY <1>2, <1>4, <1>5, SeqEqual
<1> QED BY <1>1, <1>3, <1>6 DEF n

-----------------------------------------------------------------------------
(* Pages, whatever the number of copies of an element.                     *)

(* The objects of a page, which are numbered. *)
Object == [id : Uuids, copy : Nat, look : Looks]
Fits(s, copies) == \A i \in 1..Len(s) : s[i].copy \in 1..copies[s[i].id]
Single(s) == \A i, j \in 1..Len(s) : SameObject(s[i], s[j]) => i = j
Disjoint(s, t) == \A i \in 1..Len(s), j \in 1..Len(t) : ~SameObject(s[i], t[j])
Lists(drawn, undos, copies) ==
  /\ drawn \in Seq(Object) /\ undos \in Seq(Object) /\ copies \in [Uuids -> Nat]
  /\ Fits(drawn, copies) /\ Fits(undos, copies)
  /\ Single(drawn) /\ Single(undos) /\ Disjoint(drawn, undos)

PageRecords == [drawn : Seq(Object), undos : Seq(Object), copies : [Uuids -> Nat],
                found : [Uuids -> Nat], disabled : BOOLEAN]
FoundIs(found, copies) ==
  /\ found \in [Uuids -> Nat]
  /\ \A u \in Uuids : found[u] <= copies[u] /\ (found[u] = 0 => copies[u] = 0)
Shaped(p) ==
  p \in PageRecords /\ Lists(p.drawn, p.undos, p.copies) /\ FoundIs(p.found, p.copies)

(* A list of objects, seen from its elements. *)
LEMMA ObjectsAre ==
  ASSUME NEW s \in Seq(Object)
  PROVE  /\ Len(s) \in Nat /\ DOMAIN s = 1..Len(s)
         /\ \A i \in 1..Len(s) : s[i] \in Object /\ s[i].id \in Uuids /\ s[i].copy \in Nat
                                 /\ s[i].look \in Looks
<1>1. Len(s) \in Nat /\ DOMAIN s = 1..Len(s) /\ \A i \in 1..Len(s) : s[i] \in Object
  BY LenProperties, ElementOfSeq
<1> QED BY <1>1 DEF Object

(* With few enough copies such a page is one as the runs have it. *)
LEMMA ShapedIsPage ==
  ASSUME NEW p, Shaped(p), MaxCopies \in Nat, \A u \in Uuids : p.copies[u] <= MaxCopies
  PROVE  IsPage(p)
<1>1. p \in PageRecords /\ Lists(p.drawn, p.undos, p.copies) /\ FoundIs(p.found, p.copies)
  BY DEF Shaped
<1>2. /\ p = [drawn |-> p.drawn, undos |-> p.undos, copies |-> p.copies, found |-> p.found,
              disabled |-> p.disabled]
      /\ p.drawn \in Seq(Object) /\ p.undos \in Seq(Object) /\ p.copies \in [Uuids -> Nat]
      /\ p.found \in [Uuids -> Nat] /\ p.disabled \in BOOLEAN
  BY <1>1, Zenon DEF PageRecords
<1> DEFINE d == p.drawn
           z == p.undos
           c == p.copies
           f == p.found
<1>3. ASSUME NEW s \in Seq(Object), Fits(s, c)
      PROVE  s \in Seq(Element)
  <2>1. Len(s) \in Nat /\ DOMAIN s = 1..Len(s)  BY ObjectsAre
  <2>2. ASSUME NEW i \in 1..Len(s) PROVE s[i] \in Element
    <3>1. s[i] \in Object /\ s[i].id \in Uuids  BY ObjectsAre
    <3>2. s[i].copy \in 1..c[s[i].id] /\ c[s[i].id] \in Nat /\ c[s[i].id] <= MaxCopies
      BY <1>2, <1>3, <3>1 DEF Fits
    <3>3. s[i].copy \in 1..MaxCopies
      <4> DEFINE n == s[i].copy
                 m == c[s[i].id]
      <4>1. n \in 1..m /\ m \in Nat /\ m <= MaxCopies  BY <3>2
      <4> HIDE DEF n, m
      <4>2. n \in 1..MaxCopies  BY <4>1
      <4> QED BY <4>2 DEF n
    <3> QED BY <3>1, <3>3 DEF Object, Element
  <2>3. \A i \in 1..Len(s) : s[i] \in Element  BY <2>2
  <2>4. s = [i \in 1..Len(s) |-> s[i]]  BY <2>1
  <2> QED BY <2>1, <2>3, <2>4, IsASeq
<1>4. Fits(d, c) /\ Fits(z, c) /\ Single(d) /\ Single(z) /\ Disjoint(d, z)
  BY <1>1, Zenon DEF Lists
<1>5. d \in Seq(Element) /\ z \in Seq(Element)  BY <1>2, <1>3, <1>4
<1>6. DOMAIN d = 1..Len(d) /\ DOMAIN z = 1..Len(z)  BY <1>2, ObjectsAre
<1>7. NoneTwice(d) /\ NoneTwice(z) /\ \A i \in DOMAIN d, j \in DOMAIN z : ~SameObject(d[i], z[j])
  <2> HIDE DEF d, z
  <2> QED BY <1>4, <1>6, Zenon DEF Single, Disjoint, NoneTwice
<1>8. \A u \in Uuids : f[u] \in Nat /\ c[u] \in Nat /\ f[u] <= c[u] /\ (f[u] = 0 => c[u] = 0)
                       /\ c[u] <= MaxCopies
  BY <1>1, <1>2 DEF FoundIs
<1>9. c \in [Uuids -> 0..MaxCopies] /\ f \in [Uuids -> 0..MaxCopies]
  <2>1. \A u \in Uuids : f[u] \in 0..MaxCopies /\ c[u] \in 0..MaxCopies
    <3> HIDE DEF f, c
    <3> QED BY <1>8
  <2> QED BY <1>2, <2>1
<1>10. p \in PageSet  BY <1>2, <1>5, <1>9, Zenon DEF PageSet
<1> QED BY <1>7, <1>8, <1>10, Zenon DEF IsPage

(* A new object has a number of its own. *)
LEMMA ListsAppend ==
  ASSUME NEW d, NEW z, NEW c, Lists(d, z, c), NEW u \in Uuids, NEW look \in Looks
  PROVE  LET e == [id |-> u, copy |-> c[u] + 1, look |-> look]
         IN e \in Object /\ Lists(Append(d, e), z, [c EXCEPT ![u] = @ + 1])
<1> DEFINE e == [id |-> u, copy |-> c[u] + 1, look |-> look]
           t == Append(d, e)
           b == [c EXCEPT ![u] = @ + 1]
           n == Len(d)
<1>1. /\ d \in Seq(Object) /\ z \in Seq(Object) /\ c \in [Uuids -> Nat]
      /\ Fits(d, c) /\ Fits(z, c) /\ Single(d) /\ Single(z) /\ Disjoint(d, z)
  BY Zenon DEF Lists
<1>2. e \in Object /\ e.id = u /\ e.copy = c[u] + 1  BY <1>1 DEF Object
<1>3. b \in [Uuids -> Nat] /\ \A v \in Uuids : b[v] = IF v = u THEN c[u] + 1 ELSE c[v]
  BY <1>1
<1> HIDE DEF b, e
<1>4. /\ t \in Seq(Object) /\ Len(t) = n + 1 /\ \A i \in 1..n : t[i] = d[i]
      /\ t[n + 1] = e /\ n \in Nat
  BY <1>1, <1>2, AppendProperties, ObjectsAre
<1> HIDE DEF t
<1>5. ASSUME NEW s \in Seq(Object), Fits(s, c), NEW i \in 1..Len(s)
      PROVE  s[i].copy \in 1..b[s[i].id] /\ ~SameObject(s[i], e)
  <2> DEFINE v == s[i].id
             k == s[i].copy
  <2>1. v \in Uuids /\ k \in 1..c[v] /\ c[v] \in Nat  BY <1>1, <1>5, ObjectsAre DEF Fits
  <2>2. SameObject(s[i], e) => v = u /\ k = c[u] + 1  BY <1>2 DEF SameObject
  <2> HIDE DEF v, k
  <2>3. k \in 1..b[v] /\ ~(v = u /\ k = c[u] + 1)  BY <1>3, <2>1
  <2> QED BY <2>2, <2>3 DEF v, k
<1>6. \A i \in 1..n + 1 : i \in 1..n \/ i = n + 1  BY <1>4
<1>7. Fits(t, b)
  <2>1. e.copy \in 1..b[e.id]  BY <1>1, <1>2, <1>3
  <2>2. \A i \in 1..n : d[i].copy \in 1..b[d[i].id]  BY <1>1, <1>5
  <2>3. \A i \in 1..n + 1 : t[i].copy \in 1..b[t[i].id]  BY <1>4, <1>6, <2>1, <2>2, Zenon
  <2> QED BY <1>4, <2>3 DEF Fits
<1>8. Fits(z, b)  BY <1>1, <1>5 DEF Fits
<1>9. Single(t)
  <2>1. \A i \in 1..n : ~SameObject(d[i], e) /\ ~SameObject(e, d[i])
    BY <1>1, <1>5 DEF SameObject
  <2>2. \A i, j \in 1..n : SameObject(d[i], d[j]) => i = j  BY <1>1 DEF Single
  <2>3. ASSUME NEW i \in 1..n + 1, NEW j \in 1..n + 1, SameObject(t[i], t[j])
        PROVE  i = j
    BY <1>4, <1>6, <2>1, <2>2, <2>3, Zenon
  <2> QED BY <1>4, <2>3 DEF Single
<1>10. Disjoint(t, z)
  <2>1. \A j \in 1..Len(z) : ~SameObject(e, z[j])  BY <1>1, <1>5 DEF SameObject
  <2>2. \A i \in 1..n + 1, j \in 1..Len(z) : ~SameObject(t[i], z[j])
    BY <1>1, <1>4, <1>6, <2>1, Zenon DEF Disjoint
  <2> QED BY <1>4, <2>2 DEF Disjoint
<1>11. Lists(t, z, b)  BY <1>1, <1>3, <1>4, <1>7, <1>8, <1>9, <1>10, Zenon DEF Lists
<1> QED BY <1>2, <1>11 DEF t, b, e

(* One that is gone. *)
LEMMA ListsRemove ==
  ASSUME NEW d, NEW z, NEW c, Lists(d, z, c), NEW k \in 1..Len(d)
  PROVE  Lists(RemoveAt(d, k), z, c)
<1> DEFINE t == RemoveAt(d, k)
           n == Len(d)
           at(j) == IF j < k THEN j ELSE j + 1
<1>1. /\ d \in Seq(Object) /\ z \in Seq(Object) /\ c \in [Uuids -> Nat]
      /\ Fits(d, c) /\ Fits(z, c) /\ Single(d) /\ Single(z) /\ Disjoint(d, z)
  BY Zenon DEF Lists
<1>2. /\ t \in Seq(Object) /\ Len(t) = n - 1 /\ n \in Nat
      /\ \A j \in 1..n - 1 : t[j] = IF j < k THEN d[j] ELSE d[j + 1]
  BY <1>1, Removed, ObjectsAre
<1> HIDE DEF t
<1>3. \A j \in 1..n - 1 : t[j] = d[at(j)]  BY <1>2
<1>4. /\ \A j \in 1..n - 1 : at(j) \in 1..n
      /\ \A i, j \in 1..n - 1 : at(i) = at(j) => i = j
  BY <1>2
<1> HIDE DEF at
<1>5. Fits(t, c)
  <2>1. \A j \in 1..n - 1 : t[j].copy \in 1..c[t[j].id]  BY <1>1, <1>3, <1>4, Zenon DEF Fits
  <2> QED BY <1>2, <2>1 DEF Fits
<1>6. Single(t)
  <2>1. \A i, j \in 1..n - 1 : SameObject(t[i], t[j]) => at(i) = at(j)
    BY <1>1, <1>3, <1>4, Zenon DEF Single
  <2>2. \A i, j \in 1..n - 1 : SameObject(t[i], t[j]) => i = j  BY <1>4, <2>1, Zenon
  <2> QED BY <1>2, <2>2 DEF Single
<1>7. Disjoint(t, z)
  <2>1. \A i \in 1..n - 1, j \in 1..Len(z) : ~SameObject(t[i], z[j])
    BY <1>1, <1>3, <1>4, Zenon DEF Disjoint
  <2> QED BY <1>2, <2>1 DEF Disjoint
<1>8. Lists(t, z, c)  BY <1>1, <1>2, <1>5, <1>6, <1>7, Zenon DEF Lists
<1> QED BY <1>8 DEF t

(* Objects that only look different are the same. *)
SameButLook(s, t) ==
  /\ t \in Seq(Object) /\ Len(t) = Len(s)
  /\ \A i \in 1..Len(s) : t[i].id = s[i].id /\ t[i].copy = s[i].copy

(* What changes looks leaves the lists as good as they were. *)
LEMMA ListsLook ==
  ASSUME NEW d, NEW z, NEW c, Lists(d, z, c), NEW s, NEW t, SameButLook(d, s), SameButLook(z, t)
  PROVE  Lists(s, t, c)
<1>1. /\ d \in Seq(Object) /\ z \in Seq(Object) /\ c \in [Uuids -> Nat]
      /\ Fits(d, c) /\ Fits(z, c) /\ Single(d) /\ Single(z) /\ Disjoint(d, z)
  BY Zenon DEF Lists
<1>2. /\ s \in Seq(Object) /\ Len(s) = Len(d)
      /\ \A i \in 1..Len(d) : s[i].id = d[i].id /\ s[i].copy = d[i].copy
      /\ t \in Seq(Object) /\ Len(t) = Len(z)
      /\ \A i \in 1..Len(z) : t[i].id = z[i].id /\ t[i].copy = z[i].copy
  BY DEF SameButLook
<1>3. Fits(s, c) /\ Fits(t, c)  BY <1>1, <1>2 DEF Fits
<1>4. Single(s) /\ Single(t)  BY <1>1, <1>2 DEF Single, SameObject
<1>5. Disjoint(s, t)  BY <1>1, <1>2 DEF Disjoint, SameObject
<1> QED BY <1>1, <1>2, <1>3, <1>4, <1>5, Zenon DEF Lists

(* An empty page. *)
LEMMA ShapedEmpty == \A disabled \in BOOLEAN : Shaped(EmptyPage(disabled))
<1> SUFFICES ASSUME NEW disabled \in BOOLEAN PROVE Shaped(EmptyPage(disabled))
  OBVIOUS
<1> DEFINE c == [u \in Uuids |-> 0]
           p == EmptyPage(disabled)
<1>1. <<>> \in Seq(Object) /\ Len(<<>>) = 0  BY EmptySeq
<1>2. c \in [Uuids -> Nat] /\ \A u \in Uuids : c[u] = 0  OBVIOUS
<1>3. /\ p = [drawn |-> <<>>, undos |-> <<>>, copies |-> c, found |-> c, disabled |-> disabled]
      /\ p.drawn = <<>> /\ p.undos = <<>> /\ p.copies = c /\ p.found = c
  BY DEF EmptyPage
<1> HIDE DEF c, p
<1>4. p \in PageRecords  BY <1>1, <1>2, <1>3, Zenon DEF PageRecords
<1>5. Lists(<<>>, <<>>, c)  BY <1>1, <1>2 DEF Lists, Fits, Single, Disjoint
<1>6. FoundIs(c, c)  BY <1>2 DEF FoundIs
<1>7. Shaped(p)  BY <1>3, <1>4, <1>5, <1>6, Zenon DEF Shaped
<1> QED BY <1>7 DEF p

(* The parts of a page. *)
LEMMA PageParts ==
  ASSUME NEW p \in PageRecords
  PROVE  /\ p.drawn \in Seq(Object) /\ p.undos \in Seq(Object) /\ p.copies \in [Uuids -> Nat]
         /\ p.found \in [Uuids -> Nat] /\ p.disabled \in BOOLEAN
  BY DEF PageRecords

(* An element shown, here or by a peer. *)
LEMMA ShapedInsert ==
  ASSUME NEW p, Shaped(p), NEW u \in Uuids, NEW look \in Looks, NEW q \in Insert(p, u, look)
  PROVE  /\ Shaped(q) /\ q.copies = [p.copies EXCEPT ![u] = @ + 1] /\ q.disabled = p.disabled
         /\ q.undos = p.undos
<1> DEFINE e == [id |-> u, copy |-> p.copies[u] + 1, look |-> look]
           t == Append(p.drawn, e)
           c == [p.copies EXCEPT ![u] = @ + 1]
<1>1. p \in PageRecords /\ Lists(p.drawn, p.undos, p.copies) /\ FoundIs(p.found, p.copies)
  BY DEF Shaped
<1>2. /\ p.drawn \in Seq(Object) /\ p.undos \in Seq(Object) /\ p.copies \in [Uuids -> Nat]
      /\ p.found \in [Uuids -> Nat] /\ p.disabled \in BOOLEAN
  BY <1>1, PageParts
<1>3. e \in Object /\ Lists(t, p.undos, c)  BY <1>1, ListsAppend
<1>4. PICK f \in Addresses(p, u) : q = [p EXCEPT !.drawn = t, !.copies = c, !.found = f]
  <2>1. PICK f \in Addresses(p, u) :
          q = [p EXCEPT !.drawn = Append(@, [id |-> u, copy |-> NewCopy(p, u), look |-> look]),
                        !.copies[u] = @ + 1, !.found = f]
    BY DEF Insert
  <2>2. [p EXCEPT !.drawn = Append(@, [id |-> u, copy |-> NewCopy(p, u), look |-> look]),
                  !.copies[u] = @ + 1, !.found = f]
        = [p EXCEPT !.drawn = t, !.copies = c, !.found = f]
    BY DEF NewCopy
  <2> QED BY <2>1, <2>2
<1>5. PICK n \in {p.copies[u] + 1} \cup ({p.found[u]} \ {0}) : f = [p.found EXCEPT ![u] = n]
  BY <1>4 DEF Addresses, NewCopy
<1>6. FoundIs(f, c)
  <2>1. n \in Nat /\ n <= p.copies[u] + 1 /\ n # 0
    BY <1>1, <1>2, <1>5 DEF FoundIs
  <2> QED BY <1>1, <1>2, <1>5, <2>1 DEF FoundIs
<1>7. t \in Seq(Object) /\ c \in [Uuids -> Nat] /\ f \in [Uuids -> Nat]
  BY <1>3, <1>6 DEF Lists, FoundIs
<1> HIDE DEF t, c
<1>8. q \in PageRecords  BY <1>1, <1>4, <1>7 DEF PageRecords
<1>9. q.drawn = t /\ q.undos = p.undos /\ q.copies = c /\ q.found = f /\ q.disabled = p.disabled
  BY <1>1, <1>4 DEF PageRecords
<1>10. Shaped(q)  BY <1>3, <1>6, <1>8, <1>9, Zenon DEF Shaped
<1> QED BY <1>9, <1>10 DEF c

(* One hidden by a peer. *)
LEMMA ShapedHide ==
  ASSUME NEW p, Shaped(p), NEW u \in Uuids
  PROVE  /\ Shaped(PlayHide(p, u)) /\ PlayHide(p, u).copies = p.copies
         /\ PlayHide(p, u).disabled = p.disabled /\ PlayHide(p, u).undos = p.undos
<1>1. p \in PageRecords /\ Lists(p.drawn, p.undos, p.copies) /\ FoundIs(p.found, p.copies)
  BY DEF Shaped
<1>2. p.drawn \in Seq(Object)  BY <1>1, PageParts
<1>3. CASE FoundAt(p, u) = {}
  <2>1. PlayHide(p, u) = p  BY <1>3 DEF PlayHide
  <2> QED BY <2>1
<1>4. CASE FoundAt(p, u) # {}
  <2> DEFINE k == Lowest(FoundAt(p, u))
             t == RemoveAt(p.drawn, k)
             q == PlayHide(p, u)
  <2>1. FoundAt(p, u) \in SUBSET (1..Len(p.drawn))  BY <1>2, ObjectsAre DEF FoundAt
  <2>2. Len(p.drawn) \in Nat  BY <1>2, ObjectsAre
  <2>3. FoundAt(p, u) \in SUBSET Nat  BY <2>1, <2>2
  <2>4. k \in FoundAt(p, u)  BY <1>4, <2>3, LowestIs
  <2>5. k \in 1..Len(p.drawn)  BY <2>1, <2>4
  <2> HIDE DEF k
  <2>6. Lists(t, p.undos, p.copies)  BY <1>1, <2>5, ListsRemove
  <2>7. q = [p EXCEPT !.drawn = t]  BY <1>4 DEF PlayHide, k
  <2>8. t \in Seq(Object)  BY <2>6 DEF Lists
  <2> HIDE DEF t, q
  <2>9. q \in PageRecords  BY <1>1, <2>7, <2>8 DEF PageRecords
  <2>10. /\ q.drawn = t /\ q.undos = p.undos /\ q.copies = p.copies /\ q.found = p.found
         /\ q.disabled = p.disabled
    BY <1>1, <2>7 DEF PageRecords
  <2>11. Shaped(q)  BY <1>1, <2>6, <2>9, <2>10, Zenon DEF Shaped
  <2> QED BY <2>10, <2>11 DEF q
<1> QED BY <1>3, <1>4

(* One that a peer is to draw otherwise. *)
LEMMA ShapedLook ==
  ASSUME NEW p, Shaped(p), NEW u \in Uuids, NEW look \in Looks
  PROVE  /\ Shaped(PlaySetLook(p, u, look)) /\ PlaySetLook(p, u, look).copies = p.copies
         /\ PlaySetLook(p, u, look).disabled = p.disabled
<1> DEFINE changed(s) == [i \in DOMAIN s |-> IF IsCopy(s[i], u, p.found[u])
                                             THEN [s[i] EXCEPT !.look = look] ELSE s[i]]
           q == PlaySetLook(p, u, look)
<1>1. p \in PageRecords /\ Lists(p.drawn, p.undos, p.copies) /\ FoundIs(p.found, p.copies)
  BY DEF Shaped
<1>2. p.drawn \in Seq(Object) /\ p.undos \in Seq(Object)  BY <1>1, PageParts
<1>3. ASSUME NEW s \in Seq(Object)
      PROVE  SameButLook(s, changed(s))
  <2> DEFINE n == Len(s)
             t == changed(s)
  <2>1. n \in Nat /\ DOMAIN s = 1..n /\ \A i \in 1..n : s[i] \in Object  BY ObjectsAre
  <2>2. ASSUME NEW e \in Object
        PROVE  LET f == [e EXCEPT !.look = look]
               IN f \in Object /\ f.id = e.id /\ f.copy = e.copy
    BY DEF Object
  <2> HIDE DEF n
  <2>3. \A i \in 1..n : t[i] \in Object /\ t[i].id = s[i].id /\ t[i].copy = s[i].copy
    <3> SUFFICES ASSUME NEW i \in 1..n
                 PROVE  t[i] \in Object /\ t[i].id = s[i].id /\ t[i].copy = s[i].copy
      OBVIOUS
    <3>1. s[i] \in Object  BY <2>1
    <3>2. t[i] = IF IsCopy(s[i], u, p.found[u]) THEN [s[i] EXCEPT !.look = look] ELSE s[i]
      BY <2>1
    <3>3. LET f == [s[i] EXCEPT !.look = look]
          IN f \in Object /\ f.id = s[i].id /\ f.copy = s[i].copy
      BY <2>2, <3>1
    <3> HIDE DEF t
    <3> QED BY <3>1, <3>2, <3>3
  <2>4. t = [i \in 1..n |-> t[i]]  BY <2>1
  <2> HIDE DEF t
  <2>5. t \in Seq(Object) /\ Len(t) = n  BY <2>1, <2>3, <2>4, IsASeq, LenProperties
  <2>6. SameButLook(s, t)  BY <2>3, <2>5 DEF SameButLook, n
  <2> QED BY <2>6 DEF t
<1> DEFINE d == changed(p.drawn)
           z == changed(p.undos)
<1>4. q = [p EXCEPT !.drawn = d, !.undos = z]  BY DEF PlaySetLook
<1>5. SameButLook(p.drawn, d) /\ SameButLook(p.undos, z)  BY <1>2, <1>3
<1> HIDE DEF d, z, q
<1>6. Lists(d, z, p.copies)  BY <1>1, <1>5, ListsLook
<1>7. d \in Seq(Object) /\ z \in Seq(Object)  BY <1>6 DEF Lists
<1>8. q \in PageRecords  BY <1>1, <1>4, <1>7 DEF PageRecords
<1>9. /\ q.drawn = d /\ q.undos = z /\ q.copies = p.copies /\ q.found = p.found
      /\ q.disabled = p.disabled
  BY <1>1, <1>4 DEF PageRecords
<1>10. Shaped(q)  BY <1>1, <1>6, <1>8, <1>9, Zenon DEF Shaped
<1> QED BY <1>9, <1>10 DEF q

(* A page as it is sent: what its elements are and how they look. *)
Sent == [id : Uuids, look : Looks]

(* How often a uuid occurs. *)
LEMMA OccurrencesAre ==
  ASSUME NEW content \in Seq(Sent), NEW u
  PROVE  /\ \A i \in 0..Len(content) : Occurrences(content, u, i) \in Nat
         /\ \A i, j \in 0..Len(content) : i <= j =>
              Occurrences(content, u, i) <= Occurrences(content, u, j)
         /\ \A i, j \in 0..Len(content) : i < j /\ content[j].id = u =>
              Occurrences(content, u, i) < Occurrences(content, u, j)
<1> DEFINE n == Len(content)
           At(i) == {j \in 1..i : content[j].id = u}
<1>1. n \in Nat  BY LenProperties
<1>2. \A i : Occurrences(content, u, i) = Cardinality(At(i))  BY DEF Occurrences
<1>3. ASSUME NEW i \in 0..n PROVE IsFiniteSet(At(i)) /\ Cardinality(At(i)) \in Nat
  <2>1. i \in Nat  BY <1>1
  <2>2. IsFiniteSet(1..i)  BY <2>1, FS_Interval
  <2>3. At(i) \in SUBSET (1..i)  OBVIOUS
  <2> HIDE DEF At
  <2>4. IsFiniteSet(At(i))  BY <2>2, <2>3, FS_Subset
  <2> QED BY <2>4, FS_CardinalityType
<1>4. ASSUME NEW i \in 0..n, NEW j \in 0..n, i <= j
      PROVE  /\ Cardinality(At(i)) <= Cardinality(At(j))
             /\ i < j /\ content[j].id = u => Cardinality(At(i)) # Cardinality(At(j))
  <2>1. At(i) \in SUBSET At(j)  BY <1>1, <1>4
  <2>2. i < j /\ content[j].id = u => j \in At(j) /\ j \notin At(i)  BY <1>1
  <2>3. IsFiniteSet(At(j))  BY <1>3
  <2> HIDE DEF At
  <2> QED BY <2>1, <2>2, <2>3, FS_Subset
<1> HIDE DEF At, n
<1>5. \A i \in 0..n : Cardinality(At(i)) \in Nat  BY <1>3
<1>6. \A i, j \in 0..n : i <= j => Cardinality(At(i)) <= Cardinality(At(j))  BY <1>4
<1>7. \A i, j \in 0..n : i < j /\ content[j].id = u => Cardinality(At(i)) < Cardinality(At(j))
  <2> SUFFICES ASSUME NEW i \in 0..n, NEW j \in 0..n, i < j, content[j].id = u
               PROVE  Cardinality(At(i)) < Cardinality(At(j))
    OBVIOUS
  <2>1. i <= j  BY <1>1
  <2>2. Cardinality(At(i)) <= Cardinality(At(j)) /\ Cardinality(At(i)) # Cardinality(At(j))
    BY <1>4, <2>1
  <2> QED BY <1>5, <2>2
<1> QED BY <1>2, <1>5, <1>6, <1>7, Zenon DEF n

(* What is made of a page that came. *)
LEMMA RemadeIs ==
  ASSUME NEW content \in Seq(Sent)
  PROVE  /\ Remade(content) \in Seq(Object) /\ Len(Remade(content)) = Len(content)
         /\ \A i \in 1..Len(content) :
              /\ Remade(content)[i].id = content[i].id
              /\ Remade(content)[i].look = content[i].look
              /\ Remade(content)[i].copy = Occurrences(content, content[i].id, i)
<1> DEFINE n == Len(content)
           t == Remade(content)
<1>1. n \in Nat /\ DOMAIN content = 1..n /\ \A i \in 1..n : content[i] \in Sent
  BY LenProperties, ElementOfSeq
<1>2. \A i \in 1..n : content[i].id \in Uuids /\ content[i].look \in Looks  BY <1>1 DEF Sent
<1>3. \A i \in 1..n : t[i] = [id |-> content[i].id, look |-> content[i].look,
                              copy |-> Occurrences(content, content[i].id, i)]
  BY <1>1 DEF Remade
<1>4. t = [i \in 1..n |-> t[i]]  BY <1>1 DEF Remade
<1>5. \A i \in 1..n : Occurrences(content, content[i].id, i) \in Nat
  <2> SUFFICES ASSUME NEW i \in 1..n PROVE Occurrences(content, content[i].id, i) \in Nat
    OBVIOUS
  <2> DEFINE u == content[i].id
  <2>1. i \in 0..n  BY <1>1
  <2>2. \A j \in 0..n : Occurrences(content, u, j) \in Nat  BY OccurrencesAre
  <2> QED BY <2>1, <2>2
<1> HIDE DEF t
<1> HIDE DEF n
<1>6. ASSUME NEW i \in 1..n
      PROVE  /\ t[i] \in Object /\ t[i].id = content[i].id /\ t[i].look = content[i].look
             /\ t[i].copy = Occurrences(content, content[i].id, i)
  <2> DEFINE u == content[i].id
             look == content[i].look
             k == Occurrences(content, u, i)
  <2>1. u \in Uuids /\ look \in Looks /\ k \in Nat  BY <1>2, <1>5
  <2>2. t[i] = [id |-> u, look |-> look, copy |-> k]  BY <1>3
  <2> HIDE DEF u, look, k
  <2>3. t[i] \in Object /\ t[i].id = u /\ t[i].look = look /\ t[i].copy = k
    BY <2>1, <2>2 DEF Object
  <2> QED BY <2>3 DEF u, look, k
<1>7. t \in Seq(Object) /\ Len(t) = n
  <2>1. [i \in 1..n |-> t[i]] \in Seq(Object)  BY <1>1, <1>6, IsASeq
  <2>2. DOMAIN t = 1..n  BY <1>4
  <2> QED BY <1>1, <1>4, <2>1, <2>2, LenProperties
<1> QED BY <1>6, <1>7, Zenon DEF t, n

(* A page filled anew is as a page should be, whatever it was. *)
LEMMA ShapedData ==
  ASSUME NEW p, Shaped(p), NEW content \in Seq(Sent), NEW q \in SetMsgPackData(p, content)
  PROVE  /\ Shaped(q) /\ q.drawn = Remade(content) /\ q.undos = <<>>
         /\ \A u \in Uuids : q.copies[u] = Occurrences(content, u, Len(content))
<1> DEFINE n == Len(content)
           t == Remade(content)
           c == [u \in Uuids |-> Occurrences(content, u, n)]
<1>1. p \in PageRecords  BY DEF Shaped
<1>2. n \in Nat /\ 0..n \subseteq Nat /\ n \in 0..n /\ \A i \in 1..n : content[i] \in Sent
  BY LenProperties, ElementOfSeq
<1>3. /\ t \in Seq(Object) /\ Len(t) = n
      /\ \A i \in 1..n : t[i].id = content[i].id
                         /\ t[i].copy = Occurrences(content, content[i].id, i)
  BY RemadeIs
<1>4. c \in [Uuids -> Nat] /\ \A u \in Uuids : c[u] = Occurrences(content, u, n)
  <2>1. \A u \in Uuids : Occurrences(content, u, n) \in Nat  BY <1>2, OccurrencesAre
  <2> QED BY <2>1
<1>5. PICK f \in [Uuids -> 0..MaxCopies] :
        /\ \A u \in Uuids : f[u] <= c[u] /\ (f[u] = 0 => c[u] = 0)
        /\ q = [p EXCEPT !.drawn = t, !.undos = <<>>, !.copies = c, !.found = f]
  BY DEF SetMsgPackData
<1> HIDE DEF t, c
<1>6. f \in [Uuids -> Nat]
  <2>1. \A k \in 0..MaxCopies : k \in Nat  OBVIOUS
  <2> QED BY <2>1
<1>7. \A i \in 1..n : t[i].id \in Uuids  BY <1>2, <1>3 DEF Sent
<1>8. Fits(t, c)
  <2> SUFFICES ASSUME NEW i \in 1..n PROVE t[i].copy \in 1..c[t[i].id]
    BY <1>3 DEF Fits
  <2> DEFINE u == content[i].id
  <2>1. i \in 0..n /\ i - 1 \in 0..n /\ i - 1 < i /\ i <= n  BY <1>2
  <2>2. /\ Occurrences(content, u, i) \in Nat /\ Occurrences(content, u, i - 1) \in Nat
        /\ Occurrences(content, u, n) \in Nat
        /\ Occurrences(content, u, i) <= Occurrences(content, u, n)
        /\ Occurrences(content, u, i - 1) < Occurrences(content, u, i)
    BY <1>2, <2>1, OccurrencesAre
  <2>3. Occurrences(content, u, i) \in 1..Occurrences(content, u, n)  BY <2>2
  <2>4. c[u] = Occurrences(content, u, n)  BY <1>3, <1>4, <1>7
  <2> QED BY <1>3, <2>3, <2>4
<1>9. Single(t)
  <2>1. ASSUME NEW i \in 1..n, NEW j \in 1..n, i < j, t[i].id = t[j].id PROVE t[i].copy # t[j].copy
    <3> DEFINE u == content[j].id
    <3>1. content[i].id = u  BY <1>3, <2>1
    <3>2. i \in 0..n /\ j \in 0..n  BY <1>2
    <3>3. /\ Occurrences(content, u, i) \in Nat /\ Occurrences(content, u, j) \in Nat
          /\ Occurrences(content, u, i) < Occurrences(content, u, j)
      BY <2>1, <3>2, OccurrencesAre
    <3>4. t[i].copy = Occurrences(content, u, i) /\ t[j].copy = Occurrences(content, u, j)
      BY <1>3, <3>1
    <3> HIDE DEF u
    <3> QED BY <3>3, <3>4
  <2>2. \A i, j \in 1..n : i = j \/ i < j \/ j < i  BY <1>2
  <2>3. \A i, j \in 1..n : SameObject(t[i], t[j]) => i = j  BY <2>1, <2>2 DEF SameObject
  <2> QED BY <1>3, <2>3 DEF Single
<1>10. <<>> \in Seq(Object) /\ Len(<<>>) = 0  BY EmptySeq
<1>11. Fits(<<>>, c) /\ Single(<<>>) /\ Disjoint(t, <<>>)  BY <1>10 DEF Fits, Single, Disjoint
<1>12. Lists(t, <<>>, c)  BY <1>3, <1>4, <1>8, <1>9, <1>10, <1>11, Zenon DEF Lists
<1>13. FoundIs(f, c)  BY <1>5, <1>6 DEF FoundIs
<1>14. /\ q \in PageRecords /\ q.drawn = t /\ q.undos = <<>> /\ q.copies = c /\ q.found = f
       /\ q.disabled = p.disabled
  BY <1>1, <1>3, <1>4, <1>5, <1>6, <1>10 DEF PageRecords
<1>15. Shaped(q)  BY <1>12, <1>13, <1>14, Zenon DEF Shaped
<1> QED BY <1>4, <1>14, <1>15, Zenon DEF t

-----------------------------------------------------------------------------
(* What the user of a page does to its lists.                              *)

(* An object that has a number, and is not among the others. *)
Free(e, d, z, c) ==
  /\ e \in Object /\ e.copy \in 1..c[e.id]
  /\ \A i \in 1..Len(d) : ~SameObject(d[i], e)
  /\ \A j \in 1..Len(z) : ~SameObject(z[j], e)

(* The parts of lists. *)
LEMMA ListsAre ==
  ASSUME NEW d, NEW z, NEW c, Lists(d, z, c)
  PROVE  /\ d \in Seq(Object) /\ z \in Seq(Object) /\ c \in [Uuids -> Nat]
         /\ Fits(d, c) /\ Fits(z, c) /\ Single(d) /\ Single(z) /\ Disjoint(d, z)
  BY Zenon DEF Lists

(* Drawn or undone is the same to lists. *)
LEMMA ListsSwapped ==
  ASSUME NEW d, NEW z, NEW c, Lists(d, z, c)
  PROVE  Lists(z, d, c)
<1>1. Disjoint(z, d)
  BY ListsAre DEF Disjoint, SameObject
<1> QED BY <1>1, ListsAre, Zenon DEF Lists

(* What is taken out of a list is free then. *)
LEMMA ListsTaken ==
  ASSUME NEW d, NEW z, NEW c, Lists(d, z, c), NEW k \in 1..Len(d)
  PROVE  Lists(RemoveAt(d, k), z, c) /\ Free(d[k], RemoveAt(d, k), z, c)
<1> DEFINE t == RemoveAt(d, k)
           n == Len(d)
           e == d[k]
<1>1. /\ d \in Seq(Object) /\ Fits(d, c) /\ Single(d) /\ Disjoint(d, z)  BY ListsAre
<1>2. Lists(t, z, c)  BY ListsRemove
<1>3. /\ Len(t) = n - 1 /\ n \in Nat /\ k \in 1..n
      /\ \A j \in 1..n - 1 : t[j] = IF j < k THEN d[j] ELSE d[j + 1]
  BY <1>1, Removed, ObjectsAre
<1>4. e \in Object /\ e.copy \in 1..c[e.id]  BY <1>1, ObjectsAre DEF Fits
<1>5. \A i \in 1..n : SameObject(d[i], d[k]) => i = k  BY <1>1, <1>3 DEF Single
<1>6. \A j \in 1..Len(z) : ~SameObject(z[j], e)
  <2>1. \A j \in 1..Len(z) : ~SameObject(d[k], z[j])  BY <1>1, <1>3, Zenon DEF Disjoint
  <2> QED BY <2>1 DEF SameObject
<1> HIDE DEF t
<1>7. ASSUME NEW j \in 1..Len(t) PROVE ~SameObject(t[j], d[k])
  <2>1. j \in 1..n - 1  BY <1>3
  <2>2. CASE j < k
    <3>1. t[j] = d[j] /\ j \in 1..n /\ j # k  BY <1>3, <2>1, <2>2
    <3> QED BY <1>5, <3>1
  <2>3. CASE ~(j < k)
    <3>1. t[j] = d[j + 1] /\ j + 1 \in 1..n /\ j + 1 # k  BY <1>3, <2>1, <2>3
    <3> QED BY <1>5, <3>1
  <2> QED BY <2>2, <2>3
<1>8. Free(e, t, z, c)  BY <1>4, <1>6, <1>7 DEF Free
<1> QED BY <1>2, <1>8 DEF t, e

(* What is free may be put on top. *)
LEMMA ListsPut ==
  ASSUME NEW d, NEW z, NEW c, Lists(d, z, c), NEW e, Free(e, d, z, c)
  PROVE  Lists(Append(d, e), z, c)
<1> DEFINE t == Append(d, e)
           n == Len(d)
<1>1. /\ d \in Seq(Object) /\ z \in Seq(Object) /\ c \in [Uuids -> Nat]
      /\ Fits(d, c) /\ Fits(z, c) /\ Single(d) /\ Single(z) /\ Disjoint(d, z)
  BY ListsAre
<1>2. /\ e \in Object /\ e.copy \in 1..c[e.id]
      /\ \A i \in 1..n : ~SameObject(d[i], e) /\ ~SameObject(e, d[i])
      /\ \A j \in 1..Len(z) : ~SameObject(e, z[j])
  BY DEF Free, SameObject
<1>3. /\ t \in Seq(Object) /\ Len(t) = n + 1 /\ \A i \in 1..n : t[i] = d[i]
      /\ t[n + 1] = e /\ n \in Nat
  BY <1>1, <1>2, AppendProperties, ObjectsAre
<1> HIDE DEF t, n
<1>4. \A i \in 1..n + 1 : i \in 1..n \/ i = n + 1  BY <1>3
<1>5. Fits(t, c)
  <2>1. \A i \in 1..n : d[i].copy \in 1..c[d[i].id]  BY <1>1 DEF Fits, n
  <2>2. \A i \in 1..n + 1 : t[i].copy \in 1..c[t[i].id]  BY <1>2, <1>3, <1>4, <2>1, Zenon
  <2> QED BY <1>3, <2>2 DEF Fits
<1>6. Single(t)
  <2>1. \A i, j \in 1..n : SameObject(d[i], d[j]) => i = j  BY <1>1 DEF Single, n
  <2>2. ASSUME NEW i \in 1..n + 1, NEW j \in 1..n + 1, SameObject(t[i], t[j])
        PROVE  i = j
    BY <1>2, <1>3, <1>4, <2>1, <2>2, Zenon
  <2> QED BY <1>3, <2>2 DEF Single
<1>7. Disjoint(t, z)
  <2>1. \A i \in 1..n, j \in 1..Len(z) : ~SameObject(d[i], z[j])  BY <1>1 DEF Disjoint, n
  <2>2. \A i \in 1..n + 1, j \in 1..Len(z) : ~SameObject(t[i], z[j])
    BY <1>2, <1>3, <1>4, <2>1, Zenon
  <2> QED BY <1>3, <2>2 DEF Disjoint
<1>8. Lists(t, z, c)  BY <1>1, <1>3, <1>5, <1>6, <1>7, Zenon DEF Lists
<1> QED BY <1>8 DEF t

(* Or under everything else. *)
LEMMA ListsPutBelow ==
  ASSUME NEW d, NEW z, NEW c, Lists(d, z, c), NEW e, Free(e, d, z, c)
  PROVE  Lists(<<e>> \o d, z, c)
<1> DEFINE t == <<e>> \o d
           n == Len(d)
<1>1. /\ d \in Seq(Object) /\ z \in Seq(Object) /\ c \in [Uuids -> Nat]
      /\ Fits(d, c) /\ Fits(z, c) /\ Single(d) /\ Single(z) /\ Disjoint(d, z)
  BY ListsAre
<1>2. /\ e \in Object /\ e.copy \in 1..c[e.id]
      /\ \A i \in 1..n : ~SameObject(d[i], e) /\ ~SameObject(e, d[i])
      /\ \A j \in 1..Len(z) : ~SameObject(e, z[j])
  BY DEF Free, SameObject
<1>3. /\ t \in Seq(Object) /\ Len(t) = n + 1 /\ \A i \in 1..n : t[i + 1] = d[i]
      /\ t[1] = e /\ n \in Nat
  <2> DEFINE one == <<e>>
  <2>1. one \in Seq(Object) /\ Len(one) = 1 /\ one[1] = e /\ n \in Nat
    BY <1>1, <1>2, ObjectsAre
  <2> HIDE DEF one
  <2>2. /\ one \o d \in Seq(Object) /\ Len(one \o d) = 1 + n
        /\ \A i \in 1..(1 + n) : (one \o d)[i] = IF i <= 1 THEN one[i] ELSE d[i - 1]
    <3>1. /\ one \o d \in Seq(Object) /\ Len(one \o d) = Len(one) + Len(d)
          /\ \A i \in 1..(Len(one) + Len(d)) :
               (one \o d)[i] = IF i <= Len(one) THEN one[i] ELSE d[i - Len(one)]
      BY <1>1, <2>1, ConcatProperties
    <3> QED BY <2>1, <3>1
  <2>3. t = one \o d  BY DEF one
  <2> HIDE DEF t, n
  <2>4. 1 \in 1..(1 + n) /\ \A i \in 1..n : i + 1 \in 1..(1 + n) /\ ~(i + 1 <= 1) /\ (i + 1) - 1 = i
    BY <2>1
  <2>5. \A i \in 1..n : t[i + 1] = d[i]  BY <2>2, <2>3, <2>4
  <2> QED BY <2>1, <2>2, <2>3, <2>4, <2>5
<1> HIDE DEF t, n
<1>4. \A i \in 1..n + 1 : i = 1 \/ (i - 1 \in 1..n /\ (i - 1) + 1 = i)  BY <1>3
<1>5. \A i \in 1..n + 1 : t[i] = IF i = 1 THEN e ELSE d[i - 1]
  <2> SUFFICES ASSUME NEW i \in 1..n + 1 PROVE t[i] = IF i = 1 THEN e ELSE d[i - 1]
    OBVIOUS
  <2>1. CASE i = 1  BY <1>3, <2>1
  <2>2. CASE i # 1
    <3>1. i - 1 \in 1..n /\ (i - 1) + 1 = i  BY <1>4, <2>2
    <3>2. t[(i - 1) + 1] = d[i - 1]  BY <1>3, <3>1
    <3> QED BY <2>2, <3>1, <3>2
  <2> QED BY <2>1, <2>2
<1>6. \A i, j \in 1..n + 1 : i - 1 = j - 1 => i = j  BY <1>3
<1>7. Fits(t, c)
  <2>1. \A i \in 1..n : d[i].copy \in 1..c[d[i].id]  BY <1>1 DEF Fits, n
  <2>2. \A i \in 1..n + 1 : t[i].copy \in 1..c[t[i].id]  BY <1>2, <1>4, <1>5, <2>1, Zenon
  <2> QED BY <1>3, <2>2 DEF Fits
<1>8. Single(t)
  <2>1. \A i, j \in 1..n : SameObject(d[i], d[j]) => i = j  BY <1>1 DEF Single, n
  <2>2. ASSUME NEW i \in 1..n + 1, NEW j \in 1..n + 1, SameObject(t[i], t[j])
        PROVE  i = j
    <3>1. CASE i = 1 /\ j = 1  BY <3>1
    <3>2. CASE i = 1 /\ j # 1
      <4>1. j - 1 \in 1..n /\ t[i] = e /\ t[j] = d[j - 1]  BY <1>4, <1>5, <3>2
      <4> QED BY <1>2, <2>2, <4>1
    <3>3. CASE i # 1 /\ j = 1
      <4>1. i - 1 \in 1..n /\ t[j] = e /\ t[i] = d[i - 1]  BY <1>4, <1>5, <3>3
      <4> QED BY <1>2, <2>2, <4>1
    <3>4. CASE i # 1 /\ j # 1
      <4>1. i - 1 \in 1..n /\ j - 1 \in 1..n /\ t[i] = d[i - 1] /\ t[j] = d[j - 1]
        BY <1>4, <1>5, <3>4
      <4>2. i - 1 = j - 1  BY <2>1, <2>2, <4>1
      <4> QED BY <1>6, <4>2
    <3> QED BY <3>1, <3>2, <3>3, <3>4
  <2> QED BY <1>3, <2>2 DEF Single
<1>9. Disjoint(t, z)
  <2>1. \A i \in 1..n, j \in 1..Len(z) : ~SameObject(d[i], z[j])  BY <1>1 DEF Disjoint, n
  <2>2. \A i \in 1..n + 1, j \in 1..Len(z) : ~SameObject(t[i], z[j])
    BY <1>2, <1>4, <1>5, <2>1, Zenon
  <2> QED BY <1>3, <2>2 DEF Disjoint
<1>10. Lists(t, z, c)  BY <1>1, <1>3, <1>7, <1>8, <1>9, Zenon DEF Lists
<1> QED BY <1>10 DEF t

(* A page with other lists of its objects. *)
Relisted(p, d, z) == [p EXCEPT !.drawn = d, !.undos = z]

(* It is as good as its lists. *)
LEMMA ShapedLists ==
  ASSUME NEW p, Shaped(p), NEW d, NEW z, Lists(d, z, p.copies)
  PROVE  Shaped(Relisted(p, d, z)) /\ Relisted(p, d, z).copies = p.copies
<1> DEFINE q == Relisted(p, d, z)
<1>1. p \in PageRecords /\ FoundIs(p.found, p.copies)  BY DEF Shaped
<1>2. d \in Seq(Object) /\ z \in Seq(Object)  BY ListsAre
<1>3. q \in PageRecords  BY <1>1, <1>2 DEF PageRecords, Relisted
<1>4. /\ q.drawn = d /\ q.undos = z /\ q.copies = p.copies /\ q.found = p.found
  BY <1>1 DEF PageRecords, Relisted
<1> HIDE DEF q
<1>5. Shaped(q)  BY <1>1, <1>3, <1>4, Zenon DEF Shaped
<1> QED BY <1>4, <1>5 DEF q

(* A page with a flag of its own. *)
LEMMA ShapedFlag ==
  ASSUME NEW p, Shaped(p), NEW flag \in BOOLEAN
  PROVE  LET q == [p EXCEPT !.disabled = flag]
         IN Shaped(q) /\ q.copies = p.copies
<1> DEFINE q == [p EXCEPT !.disabled = flag]
<1>1. p \in PageRecords /\ Lists(p.drawn, p.undos, p.copies) /\ FoundIs(p.found, p.copies)
  BY DEF Shaped
<1>2. q \in PageRecords /\ q.drawn = p.drawn /\ q.undos = p.undos /\ q.copies = p.copies
      /\ q.found = p.found
  BY <1>1 DEF PageRecords
<1> HIDE DEF q
<1>3. Shaped(q)  BY <1>1, <1>2, Zenon DEF Shaped
<1> QED BY <1>2, <1>3 DEF q

-----------------------------------------------------------------------------
(* What the user does, and what is played, keeps a page what it should be, *)
(* and makes no object but where an element is put on it.                  *)

KeepsCopies(p, q) == Shaped(q) /\ q.copies = p.copies
OneMore(p, q, u) == Shaped(q) /\ q.copies = [p.copies EXCEPT ![u] = @ + 1]

(* Something new is drawn. *)
LEMMA AddElementIs ==
  ASSUME NEW p, Shaped(p), NEW u \in Uuids, NEW look \in Looks, NEW q \in AddElement(p, u, look)
  PROVE  OneMore(p, q, u)
<1>1. PICK r \in Insert(p, u, look) : q = [r EXCEPT !.undos = <<>>]  BY DEF AddElement
<1>2. Shaped(r) /\ r.copies = [p.copies EXCEPT ![u] = @ + 1]  BY ShapedInsert
<1>3. r \in PageRecords /\ Lists(r.drawn, r.undos, r.copies)  BY <1>2 DEF Shaped
<1>4. <<>> \in Seq(Object) /\ Len(<<>>) = 0  BY EmptySeq
<1>5. Fits(<<>>, r.copies) /\ Single(<<>>) /\ Disjoint(r.drawn, <<>>)
  BY <1>4 DEF Fits, Single, Disjoint
<1>6. Lists(r.drawn, <<>>, r.copies)
  <2>1. /\ r.drawn \in Seq(Object) /\ r.copies \in [Uuids -> Nat]
        /\ Fits(r.drawn, r.copies) /\ Single(r.drawn)
    BY <1>3, ListsAre
  <2> QED BY <1>4, <1>5, <2>1, Zenon DEF Lists
<1>7. q = Relisted(r, r.drawn, <<>>)  BY <1>1, <1>3 DEF PageRecords, Relisted
<1>8. Shaped(q) /\ q.copies = r.copies  BY <1>2, <1>6, <1>7, ShapedLists
<1> QED BY <1>2, <1>8 DEF OneMore

(* What is drawn is a list of objects. *)
LEMMA ShapedDrawn ==
  ASSUME NEW p, Shaped(p)
  PROVE  /\ p \in PageRecords /\ Lists(p.drawn, p.undos, p.copies)
         /\ p.drawn \in Seq(Object) /\ p.undos \in Seq(Object) /\ p.copies \in [Uuids -> Nat]
         /\ Len(p.drawn) \in Nat /\ DOMAIN p.drawn = 1..Len(p.drawn)
<1>1. p \in PageRecords /\ Lists(p.drawn, p.undos, p.copies)  BY DEF Shaped
<1>2. p.drawn \in Seq(Object) /\ p.undos \in Seq(Object) /\ p.copies \in [Uuids -> Nat]
  BY <1>1, ListsAre
<1> QED BY <1>1, <1>2, ObjectsAre

(* One is removed, and may come back. *)
LEMMA RemoveDrawnIs ==
  ASSUME NEW p, Shaped(p), NEW k \in 1..Len(p.drawn)
  PROVE  KeepsCopies(p, RemoveDrawn(p, k))
<1> DEFINE d == RemoveAt(p.drawn, k)
           e == p.drawn[k]
           z == Append(p.undos, e)
<1>1. Lists(p.drawn, p.undos, p.copies)  BY ShapedDrawn
<1>2. Lists(d, p.undos, p.copies) /\ Free(e, d, p.undos, p.copies)  BY <1>1, ListsTaken
<1>3. RemoveDrawn(p, k) = Relisted(p, d, z)  BY DEF RemoveDrawn, Relisted
<1> HIDE DEF d, e
<1>4. Lists(p.undos, d, p.copies) /\ Free(e, p.undos, d, p.copies)
  BY <1>2, ListsSwapped DEF Free
<1>5. Lists(d, z, p.copies)  BY <1>4, ListsPut, ListsSwapped
<1> HIDE DEF z
<1>6. Shaped(RemoveDrawn(p, k)) /\ RemoveDrawn(p, k).copies = p.copies
  BY <1>3, <1>5, ShapedLists
<1> QED BY <1>6 DEF KeepsCopies

(* The last is undone. *)
LEMMA OnUndoIs ==
  ASSUME NEW p, Shaped(p), p.drawn # <<>>
  PROVE  KeepsCopies(p, OnUndo(p)) /\ Last(p.drawn).id \in Uuids
<1>1. Len(p.drawn) \in 1..Len(p.drawn) /\ Last(p.drawn) = p.drawn[Len(p.drawn)]
  BY ShapedDrawn, FrontIs
<1>2. Last(p.drawn).id \in Uuids  BY <1>1, ShapedDrawn, ObjectsAre
<1> QED BY <1>1, <1>2, RemoveDrawnIs DEF OnUndo

(* The last that was undone comes back. *)
LEMMA OnRedoIs ==
  ASSUME NEW p, Shaped(p), p.undos # <<>>
  PROVE  /\ KeepsCopies(p, OnRedo(p))
         /\ Last(p.undos).id \in Uuids /\ Last(p.undos).look \in Looks
<1> DEFINE k == Len(p.undos)
           e == Last(p.undos)
           z == Front(p.undos)
           d == Append(p.drawn, e)
<1>1. /\ k \in 1..Len(p.undos) /\ z = RemoveAt(p.undos, k) /\ e = p.undos[k]
  BY ShapedDrawn, FrontIs
<1>2. e.id \in Uuids /\ e.look \in Looks  BY <1>1, ShapedDrawn, ObjectsAre
<1>3. OnRedo(p) = Relisted(p, d, z)  BY DEF OnRedo, Relisted
<1> HIDE DEF k, e, z
<1>4. Lists(p.undos, p.drawn, p.copies)  BY ShapedDrawn, ListsSwapped
<1>5. Lists(z, p.drawn, p.copies) /\ Free(e, z, p.drawn, p.copies)
  BY <1>1, <1>4, ListsTaken
<1>6. Lists(p.drawn, z, p.copies) /\ Free(e, p.drawn, z, p.copies)
  BY <1>5, ListsSwapped DEF Free
<1>7. Lists(d, z, p.copies)  BY <1>6, ListsPut
<1> HIDE DEF d
<1>8. Shaped(OnRedo(p)) /\ OnRedo(p).copies = p.copies  BY <1>3, <1>7, ShapedLists
<1> QED BY <1>2, <1>8 DEF KeepsCopies, e

(* One is put on top of all others. *)
LEMMA TopMostIs ==
  ASSUME NEW p, Shaped(p), NEW k \in 1..Len(p.drawn)
  PROVE  KeepsCopies(p, TopMost(p, k))
<1> DEFINE r == RemoveAt(p.drawn, k)
           e == p.drawn[k]
           d == Append(r, e)
<1>1. Lists(p.drawn, p.undos, p.copies) /\ p \in PageRecords  BY ShapedDrawn
<1>2. Lists(r, p.undos, p.copies) /\ Free(e, r, p.undos, p.copies)  BY <1>1, ListsTaken
<1>3. TopMost(p, k) = [p EXCEPT !.drawn = d]  BY DEF TopMost
<1> HIDE DEF r, e
<1>4. Lists(d, p.undos, p.copies)  BY <1>2, ListsPut
<1> HIDE DEF d
<1>5. TopMost(p, k) = Relisted(p, d, p.undos)  BY <1>1, <1>3 DEF PageRecords, Relisted
<1>6. Shaped(TopMost(p, k)) /\ TopMost(p, k).copies = p.copies  BY <1>4, <1>5, ShapedLists
<1> QED BY <1>6 DEF KeepsCopies

(* Or under them. *)
LEMMA BottomMostIs ==
  ASSUME NEW p, Shaped(p), NEW k \in 1..Len(p.drawn)
  PROVE  KeepsCopies(p, BottomMost(p, k))
<1> DEFINE r == RemoveAt(p.drawn, k)
           e == p.drawn[k]
           d == <<e>> \o r
<1>1. Lists(p.drawn, p.undos, p.copies) /\ p \in PageRecords  BY ShapedDrawn
<1>2. Lists(r, p.undos, p.copies) /\ Free(e, r, p.undos, p.copies)  BY <1>1, ListsTaken
<1>3. BottomMost(p, k) = [p EXCEPT !.drawn = d]  BY DEF BottomMost
<1> HIDE DEF r, e
<1>4. Lists(d, p.undos, p.copies)  BY <1>2, ListsPutBelow
<1> HIDE DEF d
<1>5. BottomMost(p, k) = Relisted(p, d, p.undos)
  BY <1>1, <1>3 DEF PageRecords, Relisted
<1>6. Shaped(BottomMost(p, k)) /\ BottomMost(p, k).copies = p.copies
  BY <1>4, <1>5, ShapedLists
<1> QED BY <1>6 DEF KeepsCopies

(* One is changed. *)
LEMMA SetLookIs ==
  ASSUME NEW p, Shaped(p), NEW k \in 1..Len(p.drawn), NEW look \in Looks
  PROVE  KeepsCopies(p, SetLook(p, k, look))
<1> DEFINE d == p.drawn
           s == [d EXCEPT ![k].look = look]
           q == SetLook(p, k, look)
<1>1. /\ p \in PageRecords /\ Lists(d, p.undos, p.copies) /\ d \in Seq(Object)
      /\ p.undos \in Seq(Object) /\ Len(d) \in Nat /\ DOMAIN d = 1..Len(d)
  BY ShapedDrawn
<1>2. \A i \in 1..Len(d) : d[i] \in Object  BY <1>1, ObjectsAre
<1>3. q = [p EXCEPT !.drawn = s]  BY DEF SetLook
<1> HIDE DEF d
<1>4. SameButLook(d, s)
  <2> DEFINE e == [d[k] EXCEPT !.look = look]
  <2>1. e \in Object /\ e.id = d[k].id /\ e.copy = d[k].copy  BY <1>2 DEF Object, d
  <2>2. s = [d EXCEPT ![k] = e]  OBVIOUS
  <2> HIDE DEF e, s
  <2>3. \A i \in 1..Len(d) : s[i] = IF i = k THEN e ELSE d[i]  BY <1>1, <2>2
  <2>4. s \in Seq(Object) /\ Len(s) = Len(d)
    <3>1. d \in [1..Len(d) -> Object]  BY <1>1, <1>2, LenProperties
    <3>2. s \in [1..Len(d) -> Object] /\ DOMAIN s = 1..Len(d)  BY <2>1, <2>2, <3>1
    <3>3. s \in Seq(Object)  BY <1>1, <3>2, SeqDef
    <3> QED BY <1>1, <3>2, <3>3, LenProperties
  <2>5. k \in 1..Len(d)  BY DEF d
  <2> QED BY <2>1, <2>3, <2>4, <2>5 DEF SameButLook
<1> HIDE DEF s
<1>5. SameButLook(p.undos, p.undos)  BY <1>1 DEF SameButLook
<1>6. Lists(s, p.undos, p.copies)  BY <1>1, <1>4, <1>5, ListsLook
<1>7. q = Relisted(p, s, p.undos)  BY <1>1, <1>3 DEF PageRecords, Relisted
<1> HIDE DEF q
<1>8. Shaped(q) /\ q.copies = p.copies  BY <1>6, <1>7, ShapedLists
<1> QED BY <1>8 DEF KeepsCopies, q

(* What a peer makes of an action. *)
LEMMA PlayedPage ==
  ASSUME NEW p, Shaped(p), NEW x, x.id \in Uuids, x.look \in Looks,
         x.action \in {"Show", "Hide", "Top", "Bottom", "Look"}, NEW q \in Played(p, x)
  PROVE  IF x.action = "Show" THEN OneMore(p, q, x.id) ELSE KeepsCopies(p, q)
<1> DEFINE named == Named(p, x.id)
           k == Lowest(named)
<1>0. KeepsCopies(p, p)  BY DEF KeepsCopies
<1>1. named # {} => k \in 1..Len(p.drawn)
  <2> SUFFICES ASSUME named # {} PROVE k \in 1..Len(p.drawn)
    OBVIOUS
  <2>1. Len(p.drawn) \in Nat /\ named \in SUBSET (1..Len(p.drawn))
    BY ShapedDrawn DEF Named
  <2>2. named \in SUBSET Nat  BY <2>1
  <2> HIDE DEF named
  <2> QED BY <2>1, <2>2, LowestIs
<1>2. CASE x.action = "Show"
  <2>1. q \in Insert(p, x.id, x.look)  BY <1>2 DEF Played, PlayNetworkShow
  <2> QED BY <1>2, <2>1, ShapedInsert DEF OneMore
<1>3. CASE x.action = "Hide"
  <2>1. q = PlayHide(p, x.id)  BY <1>3 DEF Played
  <2> QED BY <1>3, <2>1, ShapedHide DEF KeepsCopies
<1>4. CASE x.action = "Top"
  <2>1. q = PlayTopMost(p, x.id)  BY <1>4 DEF Played
  <2>2. q = IF named = {} THEN p ELSE TopMost(p, k)  BY <2>1 DEF PlayTopMost
  <2> HIDE DEF named, k
  <2> QED BY <1>0, <1>1, <1>4, <2>2, TopMostIs
<1>5. CASE x.action = "Bottom"
  <2>1. q = PlayBottomMost(p, x.id)  BY <1>5 DEF Played
  <2>2. q = IF named = {} THEN p ELSE BottomMost(p, k)  BY <2>1 DEF PlayBottomMost
  <2> HIDE DEF named, k
  <2> QED BY <1>0, <1>1, <1>5, <2>2, BottomMostIs
<1>6. CASE x.action = "Look"
  <2>1. q = PlaySetLook(p, x.id, x.look)  BY <1>6 DEF Played
  <2> QED BY <1>6, <2>1, ShapedLook DEF KeepsCopies
<1> QED BY <1>2, <1>3, <1>4, <1>5, <1>6

-----------------------------------------------------------------------------
(* A page as it is sent has no more elements of a uuid than the page.      *)
LEMMA ShownFits ==
  ASSUME NEW p, Shaped(p), NEW u \in Uuids
  PROVE  /\ Shown(p) \in Seq(Sent)
         /\ Occurrences(Shown(p), u, Len(Shown(p))) \in Nat
         /\ Occurrences(Shown(p), u, Len(Shown(p))) <= p.copies[u]
<1> DEFINE d == p.drawn
           n == Len(d)
           s == Shown(p)
           J == {j \in 1..n : s[j].id = u}
           m == p.copies[u]
           f == [j \in J |-> d[j].copy]
<1>1. /\ d \in Seq(Object) /\ n \in Nat /\ DOMAIN d = 1..n /\ p.copies \in [Uuids -> Nat]
      /\ Fits(d, p.copies) /\ Single(d)
  BY ShapedDrawn, ListsAre
<1>2. \A i \in 1..n : d[i].id \in Uuids /\ d[i].copy \in Nat /\ d[i].look \in Looks
  BY <1>1, ObjectsAre
<1>3. /\ s = [i \in 1..n |-> s[i]]
      /\ \A i \in 1..n : s[i] = [id |-> d[i].id, look |-> d[i].look]
  BY <1>1 DEF Shown
<1> HIDE DEF s
<1>4. \A i \in 1..n : s[i] \in Sent /\ s[i].id = d[i].id
  <2> SUFFICES ASSUME NEW i \in 1..n PROVE s[i] \in Sent /\ s[i].id = d[i].id
    OBVIOUS
  <2> DEFINE a == d[i].id
             look == d[i].look
  <2>1. s[i] = [id |-> a, look |-> look] /\ a \in Uuids /\ look \in Looks  BY <1>2, <1>3
  <2> HIDE DEF a, look
  <2>2. s[i] \in Sent /\ s[i].id = a  BY <2>1 DEF Sent
  <2> QED BY <2>2 DEF a
<1>5. s \in Seq(Sent) /\ Len(s) = n
  <2> DEFINE t == [i \in 1..n |-> s[i]]
  <2>1. t \in Seq(Sent) /\ DOMAIN t = 1..n  BY <1>1, <1>4, IsASeq
  <2>2. s = t  BY <1>3
  <2> HIDE DEF t
  <2>3. s \in Seq(Sent) /\ DOMAIN s = 1..n  BY <2>1, <2>2
  <2> QED BY <1>1, <2>3, LenProperties
<1>6. m \in Nat  BY <1>1
<1>7. \A j \in J : d[j].id = u /\ f[j] \in 1..m  BY <1>1, <1>4 DEF Fits
<1>8. \A i, j \in J : f[i] = f[j] => i = j
  <2>1. \A i, j \in J : f[i] = f[j] => SameObject(d[i], d[j])  BY <1>7 DEF SameObject
  <2> QED BY <1>1, <2>1 DEF Single
<1>9. f \in Injection(J, 1..m)
  <2>1. f \in [J -> 1..m]  BY <1>7
  <2> HIDE DEF f, J
  <2> QED BY <1>8, <2>1 DEF Injection, IsInjective
<1>10. IsFiniteSet(1..m) /\ Cardinality(1..m) = m
  <2>1. 1 \in Int /\ m \in Int  BY <1>6
  <2>2. IsFiniteSet(1..m) /\ Cardinality(1..m) = IF 1 > m THEN 0 ELSE m - 1 + 1
    BY <2>1, FS_Interval
  <2> QED BY <1>6, <2>2
<1>11. Cardinality(J) <= m
  <2> HIDE DEF J, f, m
  <2> QED BY <1>9, <1>10, FS_Injection
<1>12. Occurrences(s, u, n) = Cardinality(J)  BY DEF Occurrences
<1>13. Occurrences(s, u, Len(s)) \in Nat
  <2>1. Len(s) \in 0..Len(s)  BY <1>1, <1>5
  <2> QED BY <1>5, <2>1, OccurrencesAre
<1> QED BY <1>5, <1>11, <1>12, <1>13 DEF s

-----------------------------------------------------------------------------
(* Counting the elements that are shown by commands on their way.          *)

IsShow(m, u) == IsEdit(m) /\ m.data.action = "Show" /\ m.data.id = u
Weight(m, u) == IF IsShow(m, u) THEN 1 ELSE 0
(* In a queue after a position, and in the queues of some clients. *)
ShowsAfter(q, i, u) == {j \in 1..Len(q) : j > i /\ IsShow(q[j], u)}
After(q, i, u) == Cardinality(ShowsAfter(q, i, u))
ShowsOf(Q, T, u) == {x \in T \X Nat : x[2] \in ShowsAfter(Q[x[1]], 0, u)}
By(Q, T, u) == Cardinality(ShowsOf(Q, T, u))

(* A queue has so many. *)
LEMMA AfterIs ==
  ASSUME NEW S, NEW q \in Seq(S), NEW u, NEW i
  PROVE  /\ IsFiniteSet(ShowsAfter(q, i, u)) /\ After(q, i, u) \in Nat
         /\ ShowsAfter(q, i, u) \subseteq 1..Len(q)
<1>1. Len(q) \in Nat  BY LenProperties
<1>2. IsFiniteSet(1..Len(q))  BY <1>1, FS_Interval
<1>3. ShowsAfter(q, i, u) \in SUBSET (1..Len(q))  BY DEF ShowsAfter
<1>4. IsFiniteSet(ShowsAfter(q, i, u))  BY <1>2, <1>3, FS_Subset
<1> QED BY <1>3, <1>4, FS_CardinalityType DEF After

(* After the last there are none. *)
LEMMA AfterLast ==
  ASSUME NEW S, NEW q \in Seq(S), NEW u
  PROVE  After(q, Len(q), u) = 0
<1>1. Len(q) \in Nat  BY LenProperties
<1>2. ShowsAfter(q, Len(q), u) = {}  BY <1>1 DEF ShowsAfter
<1> QED BY <1>2, FS_EmptySet DEF After

(* One more at the end of a queue. *)
LEMMA AfterAppend ==
  ASSUME NEW S, NEW q \in Seq(S), NEW m \in S, NEW u, NEW i \in 0..Len(q)
  PROVE  After(Append(q, m), i, u) = After(q, i, u) + Weight(m, u)
<1> DEFINE n == Len(q)
           r == Append(q, m)
<1>1. n \in Nat /\ Len(r) = n + 1 /\ r[n + 1] = m /\ \A j \in 1..n : r[j] = q[j]
  BY LenProperties, AppendProperties
<1> HIDE DEF r
<1>2. ShowsAfter(r, i, u) = IF IsShow(m, u) THEN ShowsAfter(q, i, u) \cup {n + 1}
                                            ELSE ShowsAfter(q, i, u)
  <2>1. \A j \in 1..n + 1 : j \in 1..n \/ j = n + 1  BY <1>1
  <2>2. 1..n \subseteq 1..n + 1 /\ n + 1 \in 1..n + 1 /\ n + 1 > i  BY <1>1
  <2> QED BY <1>1, <2>1, <2>2 DEF ShowsAfter
<1>3. n + 1 \notin ShowsAfter(q, i, u)  BY <1>1 DEF ShowsAfter
<1>4. IsFiniteSet(ShowsAfter(q, i, u)) /\ After(q, i, u) \in Nat  BY AfterIs
<1>5. Cardinality(ShowsAfter(q, i, u) \cup {n + 1}) = Cardinality(ShowsAfter(q, i, u)) + 1
  BY <1>3, <1>4, FS_AddElement
<1> QED BY <1>2, <1>4, <1>5 DEF After, Weight, r

(* The head of a queue leaves. *)
LEMMA AfterTail ==
  ASSUME NEW S, NEW q \in Seq(S), q # <<>>, NEW u
  PROVE  /\ \A i \in Nat : After(Tail(q), i, u) = After(q, i + 1, u)
         /\ After(q, 0, u) = After(Tail(q), 0, u) + Weight(Head(q), u)
<1> DEFINE n == Len(q)
           r == Tail(q)
           A(i) == ShowsAfter(q, i + 1, u)
           B(i) == ShowsAfter(r, i, u)
<1>1. /\ n \in Nat /\ n >= 1 /\ r \in Seq(S) /\ Len(r) = n - 1 /\ q[1] = Head(q)
      /\ \A i \in 1..n - 1 : r[i] = q[i + 1]
  BY HeadTailProperties, EmptySeq, LenProperties
<1> HIDE DEF r
<1>2. ASSUME NEW i \in Nat
      PROVE  After(r, i, u) = After(q, i + 1, u)
  <2> DEFINE f == [j \in B(i) |-> j + 1]
  <2>1. \A j \in B(i) : j \in 1..n - 1 /\ j > i /\ IsShow(r[j], u)  BY <1>1 DEF ShowsAfter
  <2>2. \A j \in B(i) : f[j] = j + 1 /\ f[j] \in A(i)
    <3> SUFFICES ASSUME NEW j \in B(i) PROVE j + 1 \in A(i)
      OBVIOUS
    <3>1. j \in 1..n - 1 /\ j > i /\ IsShow(q[j + 1], u)  BY <1>1, <2>1
    <3> QED BY <1>1, <3>1 DEF ShowsAfter
  <2>3. \A k \in A(i) : k - 1 \in B(i) /\ (k - 1) + 1 = k
    <3> SUFFICES ASSUME NEW k \in A(i) PROVE k - 1 \in B(i) /\ (k - 1) + 1 = k
      OBVIOUS
    <3>1. k \in 1..n /\ k > i + 1 /\ IsShow(q[k], u)  BY DEF ShowsAfter
    <3>2. k - 1 \in 1..n - 1 /\ k - 1 > i /\ (k - 1) + 1 = k  BY <1>1, <3>1
    <3>3. r[k - 1] = q[k]  BY <1>1, <3>2
    <3> QED BY <1>1, <3>1, <3>2, <3>3 DEF ShowsAfter
  <2>4. \A j, k \in B(i) : j + 1 = k + 1 => j = k
    <3>1. \A j \in B(i) : j \in Int  BY <2>1
    <3> QED BY <3>1
  <2>5. IsFiniteSet(B(i))  BY <1>1, AfterIs
  <2> HIDE DEF A, B
  <2>6. f \in [B(i) -> A(i)]  BY <2>2
  <2>7. \A j, k \in B(i) : f[j] = f[k] => j = k  BY <2>2, <2>4
  <2>8. \A k \in A(i) : \E j \in B(i) : f[j] = k
    <3>1. \A k \in A(i) : k - 1 \in B(i) /\ f[k - 1] = k  BY <2>2, <2>3
    <3> QED BY <3>1
  <2> HIDE DEF f
  <2>9. f \in Bijection(B(i), A(i))
    BY <2>6, <2>7, <2>8 DEF Bijection, Injection, IsInjective, Surjection
  <2>10. ExistsBijection(B(i), A(i))  BY <2>9 DEF ExistsBijection
  <2>11. Cardinality(A(i)) = Cardinality(B(i))  BY <2>5, <2>10, FS_Bijection
  <2> QED BY <2>11 DEF A, B, After
<1>3. After(q, 0, u) = After(q, 1, u) + Weight(Head(q), u)
  <2>1. ShowsAfter(q, 0, u) = IF IsShow(Head(q), u) THEN ShowsAfter(q, 1, u) \cup {1}
                                                    ELSE ShowsAfter(q, 1, u)
    <3>1. \A j \in 1..n : j > 0 /\ (j > 1 \/ j = 1)  BY <1>1
    <3>2. 1 \in 1..n  BY <1>1
    <3> QED BY <1>1, <3>1, <3>2 DEF ShowsAfter
  <2>2. 1 \notin ShowsAfter(q, 1, u)  BY DEF ShowsAfter
  <2>3. IsFiniteSet(ShowsAfter(q, 1, u)) /\ After(q, 1, u) \in Nat  BY AfterIs
  <2>4. Cardinality(ShowsAfter(q, 1, u) \cup {1}) = Cardinality(ShowsAfter(q, 1, u)) + 1
    BY <2>2, <2>3, FS_AddElement
  <2>5. CASE IsShow(Head(q), u)
    <3>1. ShowsAfter(q, 0, u) = ShowsAfter(q, 1, u) \cup {1}  BY <2>1, <2>5, Zenon
    <3>2. After(q, 0, u) = After(q, 1, u) + 1  BY <2>4, <3>1, Zenon DEF After
    <3> QED BY <2>5, <3>2 DEF Weight
  <2>6. CASE ~IsShow(Head(q), u)
    <3>1. ShowsAfter(q, 0, u) = ShowsAfter(q, 1, u)  BY <2>1, <2>6, Zenon
    <3>2. After(q, 0, u) = After(q, 1, u)  BY <3>1, Zenon DEF After
    <3> QED BY <2>3, <2>6, <3>2 DEF Weight
  <2> QED BY <2>5, <2>6
<1>4. After(r, 0, u) = After(q, 1, u)
  <2>1. 0 \in Nat /\ 0 + 1 = 1  OBVIOUS
  <2> QED BY <1>2, <2>1
<1> QED BY <1>2, <1>3, <1>4 DEF r

(* The queues of some clients, with and without one of them.               *)
LEMMA ByOne ==
  ASSUME NEW S, NEW Q \in [Clients -> Seq(S)], NEW T \in SUBSET Clients, NEW a \in T, NEW u,
         IsFiniteSet(ShowsOf(Q, T \ {a}, u))
  PROVE  /\ IsFiniteSet(ShowsOf(Q, T, u))
         /\ By(Q, T, u) = By(Q, T \ {a}, u) + After(Q[a], 0, u)
         /\ By(Q, T, u) \in Nat /\ By(Q, T \ {a}, u) \in Nat
<1> DEFINE A == ShowsAfter(Q[a], 0, u)
           X == {x \in {a} \X Nat : x[2] \in A}
           Y == ShowsOf(Q, T \ {a}, u)
           f == [j \in A |-> <<a, j>>]
<1>1. IsFiniteSet(A) /\ A \subseteq Nat
  <2>1. Q[a] \in Seq(S)  OBVIOUS
  <2>2. IsFiniteSet(A) /\ A \subseteq 1..Len(Q[a])  BY <2>1, AfterIs
  <2>3. Len(Q[a]) \in Nat  BY <2>1, LenProperties
  <2> QED BY <2>2, <2>3
<1>2. ShowsOf(Q, T, u) = X \cup Y /\ X \cap Y = {}  BY DEF ShowsOf
<1> HIDE DEF Y
<1>3. IsFiniteSet(X) /\ Cardinality(X) = Cardinality(A)
  <2> HIDE DEF A
  <2>1. f \in [A -> X]  BY <1>1
  <2>2. \A j, k \in A : f[j] = f[k] => j = k  OBVIOUS
  <2>3. \A x \in X : \E j \in A : f[j] = x  BY <1>1
  <2> HIDE DEF f, X
  <2>4. f \in Bijection(A, X)
    BY <2>1, <2>2, <2>3 DEF Bijection, Injection, IsInjective, Surjection
  <2>5. ExistsBijection(A, X)  BY <2>4 DEF ExistsBijection
  <2> QED BY <1>1, <2>5, FS_Bijection
<1> HIDE DEF X, A
<1>4. IsFiniteSet(Y)  BY DEF Y
<1>5. /\ IsFiniteSet(X \cup Y)
      /\ Cardinality(X \cup Y) = Cardinality(X) + Cardinality(Y) - Cardinality(X \cap Y)
  BY <1>3, <1>4, FS_Union
<1>6. Cardinality(X \cap Y) = 0  BY <1>2, FS_EmptySet
<1>7. Cardinality(X) \in Nat /\ Cardinality(Y) \in Nat  BY <1>3, <1>4, FS_CardinalityType
<1>8. Cardinality(X \cup Y) = Cardinality(Y) + Cardinality(A)  BY <1>3, <1>5, <1>6, <1>7
<1>9. Cardinality(X \cup Y) \in Nat  BY <1>5, FS_CardinalityType
<1> QED BY <1>2, <1>5, <1>7, <1>8, <1>9, Zenon DEF By, After, A, Y

(* The queues of these clients are the same. *)
Alike(Q, R, T) == \A x \in T : R[x] = Q[x]

(* Fewer clients hold no more. *)
LEMMA ByFewer ==
  ASSUME NEW Q, NEW T, NEW V \in SUBSET T, NEW u, IsFiniteSet(ShowsOf(Q, T, u))
  PROVE  /\ IsFiniteSet(ShowsOf(Q, V, u))
         /\ By(Q, V, u) \in Nat /\ By(Q, T, u) \in Nat /\ By(Q, V, u) <= By(Q, T, u)
<1>1. ShowsOf(Q, V, u) \in SUBSET ShowsOf(Q, T, u)  BY DEF ShowsOf
<1>2. IsFiniteSet(ShowsOf(Q, V, u)) /\ By(Q, V, u) <= By(Q, T, u)  BY <1>1, FS_Subset DEF By
<1> QED BY <1>2, FS_CardinalityType DEF By

Others(c) == Clients \ {c}
FewShows(Q) == \A u \in Uuids : IsFiniteSet(ShowsOf(Q, Clients, u))

(* One client has sent more, and the others hear of it. *)
HasMore(Q, R, a, u, w) ==
  /\ Alike(Q, R, Clients \ {a}) /\ After(R[a], 0, u) = After(Q[a], 0, u) + w
  /\ IsFiniteSet(ShowsOf(Q, Clients, u)) \/ IsFiniteSet(ShowsOf(R, Clients, u))
HearMore(Q, R, a, u, w) ==
  /\ IsFiniteSet(ShowsOf(Q, Clients, u)) /\ IsFiniteSet(ShowsOf(R, Clients, u))
  /\ \A c \in Clients :
       /\ By(Q, Others(c), u) \in Nat /\ By(R, Others(c), u) \in Nat
       /\ By(R, Others(c), u) = By(Q, Others(c), u) + IF c = a THEN 0 ELSE w

(* Queues that differ for one client, in the number of its commands.       *)
LEMMA ByDiffer ==
  ASSUME NEW S, NEW Q \in [Clients -> Seq(S)], NEW R \in [Clients -> Seq(S)],
         NEW a \in Clients, NEW u, NEW w \in {0, 1}, HasMore(Q, R, a, u, w)
  PROVE  HearMore(Q, R, a, u, w)
<1>0. /\ Alike(Q, R, Clients \ {a}) /\ After(R[a], 0, u) = After(Q[a], 0, u) + w
      /\ IsFiniteSet(ShowsOf(Q, Clients, u)) \/ IsFiniteSet(ShowsOf(R, Clients, u))
  BY DEF HasMore
<1>1. ASSUME NEW T \in SUBSET Clients
      PROVE  /\ IsFiniteSet(ShowsOf(Q, T, u)) /\ IsFiniteSet(ShowsOf(R, T, u))
             /\ By(Q, T, u) \in Nat /\ By(R, T, u) \in Nat
             /\ By(R, T, u) = By(Q, T, u) + IF a \in T THEN w ELSE 0
  <2> DEFINE V == T \ {a}
  <2>1. Alike(Q, R, V)  BY <1>0 DEF Alike
  <2>2. V \in SUBSET Clients  OBVIOUS
  <2>3. a \notin T => V = T  OBVIOUS
  <2> HIDE DEF V
  <2>4. ShowsOf(R, V, u) = ShowsOf(Q, V, u) /\ By(R, V, u) = By(Q, V, u)
    <3>1. \A x \in V : R[x] = Q[x]  BY <2>1 DEF Alike
    <3>2. ShowsOf(R, V, u) = ShowsOf(Q, V, u)  BY <3>1 DEF ShowsOf
    <3> QED BY <3>2 DEF By
  <2>5. IsFiniteSet(ShowsOf(Q, V, u)) /\ By(Q, V, u) \in Nat
    <3>1. CASE IsFiniteSet(ShowsOf(Q, Clients, u))  BY <2>2, <3>1, ByFewer
    <3>2. CASE IsFiniteSet(ShowsOf(R, Clients, u))
      <4>1. IsFiniteSet(ShowsOf(R, V, u)) /\ By(R, V, u) \in Nat  BY <2>2, <3>2, ByFewer
      <4> QED BY <2>4, <4>1
    <3> QED BY <1>0, <3>1, <3>2
  <2>6. CASE a \in T
    <3>1. IsFiniteSet(ShowsOf(R, T \ {a}, u)) /\ IsFiniteSet(ShowsOf(Q, T \ {a}, u))
      BY <2>4, <2>5 DEF V
    <3>2. /\ IsFiniteSet(ShowsOf(R, T, u))
          /\ By(R, T, u) = By(R, V, u) + After(R[a], 0, u) /\ By(R, T, u) \in Nat
      BY <2>6, <3>1, ByOne DEF V
    <3>3. /\ IsFiniteSet(ShowsOf(Q, T, u))
          /\ By(Q, T, u) = By(Q, V, u) + After(Q[a], 0, u) /\ By(Q, T, u) \in Nat
      BY <2>6, <3>1, ByOne DEF V
    <3>4. After(Q[a], 0, u) \in Nat
      <4>1. Q[a] \in Seq(S)  OBVIOUS
      <4> QED BY <4>1, AfterIs
    <3> QED BY <1>0, <2>4, <2>5, <2>6, <3>2, <3>3, <3>4
  <2>7. CASE a \notin T
    BY <2>3, <2>4, <2>5, <2>7
  <2> QED BY <2>6, <2>7
<1>2. ASSUME NEW c \in Clients
      PROVE  /\ By(Q, Others(c), u) \in Nat /\ By(R, Others(c), u) \in Nat
             /\ By(R, Others(c), u) = By(Q, Others(c), u) + IF c = a THEN 0 ELSE w
  <2> DEFINE T == Others(c)
  <2>1. T \in SUBSET Clients /\ (a \in T <=> c # a)  BY DEF Others
  <2> HIDE DEF T
  <2>2. /\ By(R, T, u) \in Nat /\ By(Q, T, u) \in Nat
        /\ By(R, T, u) = By(Q, T, u) + IF a \in T THEN w ELSE 0
    BY <1>1, <2>1
  <2> QED BY <2>1, <2>2 DEF T
<1>3. Clients \in SUBSET Clients  OBVIOUS
<1> QED BY <1>1, <1>2, <1>3 DEF HearMore

(* One client sends one more: the others hear of one more.                 *)
HeardMore(Q, R, a, m) ==
  \A u \in Uuids, c \in Clients :
    /\ By(Q, Others(c), u) \in Nat /\ By(R, Others(c), u) \in Nat
    /\ By(R, Others(c), u) = By(Q, Others(c), u) + IF c = a THEN 0 ELSE Weight(m, u)

(* A command joins the queue of a client. *)
LEMMA BySent ==
  ASSUME NEW S, NEW Q \in [Clients -> Seq(S)], FewShows(Q), NEW a \in Clients, NEW m \in S,
         NEW R \in [Clients -> Seq(S)], R[a] = Append(Q[a], m), Alike(Q, R, Clients \ {a})
  PROVE  FewShows(R) /\ HeardMore(Q, R, a, m)
<1> SUFFICES ASSUME NEW u \in Uuids
             PROVE  /\ IsFiniteSet(ShowsOf(R, Clients, u))
                    /\ \A c \in Clients :
                         /\ By(Q, Others(c), u) \in Nat /\ By(R, Others(c), u) \in Nat
                         /\ By(R, Others(c), u) =
                              By(Q, Others(c), u) + IF c = a THEN 0 ELSE Weight(m, u)
  BY Zenon DEF FewShows, HeardMore
<1>1. IsFiniteSet(ShowsOf(Q, Clients, u))  BY DEF FewShows
<1>2. After(R[a], 0, u) = After(Q[a], 0, u) + Weight(m, u)
  <2>1. Q[a] \in Seq(S)  OBVIOUS
  <2>2. Len(Q[a]) \in Nat  BY <2>1, LenProperties
  <2>3. 0 \in 0..Len(Q[a])  BY <2>2
  <2> QED BY <2>1, <2>3, AfterAppend
<1> DEFINE w == Weight(m, u)
<1>3. w \in {0, 1}  BY DEF Weight
<1> HIDE DEF w
<1>4. HasMore(Q, R, a, u, w)  BY <1>1, <1>2 DEF HasMore, w
<1>5. HearMore(Q, R, a, u, w)  BY <1>3, <1>4, ByDiffer
<1> QED BY <1>5, Zenon DEF HearMore, w

(* A command is taken from the queue of a client. *)
LEMMA ByTaken ==
  ASSUME NEW S, NEW Q \in [Clients -> Seq(S)], FewShows(Q), NEW a \in Clients, Q[a] # <<>>,
         NEW R \in [Clients -> Seq(S)], R[a] = Tail(Q[a]), Alike(R, Q, Clients \ {a})
  PROVE  FewShows(R) /\ HeardMore(R, Q, a, Head(Q[a]))
<1> DEFINE m == Head(Q[a])
<1> SUFFICES ASSUME NEW u \in Uuids
             PROVE  /\ IsFiniteSet(ShowsOf(R, Clients, u))
                    /\ \A c \in Clients :
                         /\ By(R, Others(c), u) \in Nat /\ By(Q, Others(c), u) \in Nat
                         /\ By(Q, Others(c), u) =
                              By(R, Others(c), u) + IF c = a THEN 0 ELSE Weight(m, u)
  BY Zenon DEF FewShows, HeardMore
<1>1. IsFiniteSet(ShowsOf(Q, Clients, u))  BY DEF FewShows
<1>2. After(Q[a], 0, u) = After(R[a], 0, u) + Weight(m, u)
  <2>1. Q[a] \in Seq(S)  OBVIOUS
  <2> QED BY <2>1, AfterTail
<1> HIDE DEF m
<1> DEFINE w == Weight(m, u)
<1>3. w \in {0, 1}  BY DEF Weight
<1> HIDE DEF w
<1>4. HasMore(R, Q, a, u, w)  BY <1>1, <1>2 DEF HasMore, w
<1>5. HearMore(R, Q, a, u, w)  BY <1>3, <1>4, ByDiffer
<1> QED BY <1>5, Zenon DEF HearMore, w

-----------------------------------------------------------------------------
(* No element is anywhere, or on its way, more often than it was shown.    *)

(* What a page switch carries of a uuid. *)
Carried(m, u) == Occurrences(m.data.content, u, Len(m.data.content))
IsSwitch(m) == m.type = "Switch"

(* A client's pages, and the page switches of a queue, with k more to come.*)
HeldBelow(book, k, u, n) == \A p \in DOMAIN book : book[p].copies[u] + k <= n
SentBelow(q, k, u, n) ==
  \A i \in 1..Len(q) : IsSwitch(q[i]) => Carried(q[i], u) + After(q, i, u) + k <= n

(* What a client has, what the server has for it and what it has sent.     *)
CountedFor(Q, R, B, w, c, u) ==
  /\ HeldBelow(B[c], After(R[c], 0, u) + By(Q, Others(c), u), u, w[u])
  /\ SentBelow(R[c], By(Q, Others(c), u), u, w[u])
  /\ SentBelow(Q[c], By(Q, Others(c), u), u, w[u])
Counted(Q, R, B, w) ==
  FewShows(Q) /\ \A c \in Clients, u \in Uuids : CountedFor(Q, R, B, w, c, u)

(* The commands, pages and numbers counted. *)
Contents(S) == \A m \in S : IsSwitch(m) => m.data.content \in Seq(Sent)
Books(B) == \A c \in Clients : \A p \in DOMAIN B[c] : B[c][p].copies \in [Uuids -> Nat]
Countable(S, Q, R, B, w) ==
  /\ Q \in [Clients -> Seq(S)] /\ R \in [Clients -> Seq(S)] /\ Contents(S)
  /\ Books(B) /\ w \in [Uuids -> Nat]

(* What is carried is a number. *)
LEMMA CarriedIs ==
  ASSUME NEW S, Contents(S), NEW m \in S, IsSwitch(m), NEW u
  PROVE  Carried(m, u) \in Nat
<1> DEFINE s == m.data.content
<1>1. s \in Seq(Sent)  BY DEF Contents
<1> HIDE DEF s
<1>2. Len(s) \in Nat  BY <1>1, LenProperties
<1>3. Len(s) \in 0..Len(s)  BY <1>2
<1>4. Occurrences(s, u, Len(s)) \in Nat  BY <1>1, <1>3, OccurrencesAre
<1> QED BY <1>4 DEF Carried, s

(* With more shown, more may come. *)
LEMMA SentLoosen ==
  ASSUME NEW S, Contents(S), NEW q \in Seq(S), NEW u, NEW k \in Nat, NEW n \in Nat,
         SentBelow(q, k, u, n), NEW h \in Nat, NEW l \in Nat, h + n <= l + k
  PROVE  SentBelow(q, h, u, l)
<1> SUFFICES ASSUME NEW i \in 1..Len(q), IsSwitch(q[i])
             PROVE  Carried(q[i], u) + After(q, i, u) + h <= l
  BY DEF SentBelow
<1> DEFINE x == Carried(q[i], u)
           y == After(q, i, u)
<1>1. q[i] \in S  BY ElementOfSeq
<1>2. x \in Nat /\ y \in Nat  BY <1>1, CarriedIs, AfterIs
<1>3. x + y + k <= n  BY DEF SentBelow
<1> HIDE DEF x, y
<1>4. x + y + h <= l  BY <1>2, <1>3
<1> QED BY <1>4 DEF x, y

(* One more command, and what it carries. *)
LEMMA SentAppend ==
  ASSUME NEW S, Contents(S), NEW q \in Seq(S), NEW m \in S, NEW u, NEW k \in Nat, NEW n \in Nat,
         SentBelow(q, k, u, n), NEW h \in Nat, NEW l \in Nat,
         Weight(m, u) + h + n <= l + k, IsSwitch(m) => Carried(m, u) + h <= l
  PROVE  SentBelow(Append(q, m), h, u, l)
<1> DEFINE r == Append(q, m)
<1>0. /\ Len(q) \in Nat /\ Len(r) = Len(q) + 1 /\ r[Len(q) + 1] = m /\ r \in Seq(S)
      /\ \A i \in 1..Len(q) : r[i] = q[i]
  BY LenProperties, AppendProperties
<1> SUFFICES ASSUME NEW i \in 1..Len(r), IsSwitch(r[i])
             PROVE  Carried(r[i], u) + After(r, i, u) + h <= l
  BY DEF SentBelow
<1>1. CASE i = Len(r)
  <2>1. After(r, i, u) = 0  BY <1>0, <1>1, AfterLast
  <2>2. r[i] = m  BY <1>0, <1>1
  <2>3. Carried(m, u) \in Nat /\ Carried(m, u) + h <= l  BY <2>2, CarriedIs
  <2> HIDE DEF r
  <2> QED BY <2>1, <2>2, <2>3
<1>2. CASE i # Len(r)
  <2> DEFINE x == Carried(q[i], u)
             y == After(q, i, u)
             z == Weight(m, u)
  <2>1. i \in 1..Len(q) /\ i \in 0..Len(q) /\ r[i] = q[i]  BY <1>0, <1>2
  <2>2. After(r, i, u) = y + z  BY <2>1, AfterAppend
  <2>3. q[i] \in S  BY <2>1, ElementOfSeq
  <2>4. IsSwitch(q[i])  BY <2>1
  <2>5. x \in Nat /\ y \in Nat  BY <2>3, <2>4, CarriedIs, AfterIs
  <2>6. x + y + k <= n  BY <2>1, <2>4 DEF SentBelow
  <2>7. z \in Nat /\ z + h + n <= l + k  BY DEF Weight
  <2>8. Carried(r[i], u) = x  BY <2>1
  <2> HIDE DEF x, y, z, r
  <2>9. x + (y + z) + h <= l  BY <2>5, <2>6, <2>7
  <2> QED BY <2>2, <2>8, <2>9
<1> QED BY <1>1, <1>2

(* The first command leaves, with what it carries. *)
LEMMA SentTail ==
  ASSUME NEW S, Contents(S), NEW q \in Seq(S), q # <<>>, NEW u, NEW k \in Nat, NEW n \in Nat,
         SentBelow(q, k, u, n)
  PROVE  /\ SentBelow(Tail(q), k, u, n)
         /\ IsSwitch(Head(q)) =>
              Carried(Head(q), u) \in Nat /\ Carried(Head(q), u) + After(Tail(q), 0, u) + k <= n
<1> DEFINE r == Tail(q)
<1>1. /\ Len(q) \in Nat /\ Len(q) >= 1 /\ r \in Seq(S) /\ Len(r) = Len(q) - 1 /\ q[1] = Head(q)
      /\ \A i \in 1..Len(q) - 1 : r[i] = q[i + 1]
  BY HeadTailProperties, EmptySeq, LenProperties
<1>2. \A i \in Nat : After(r, i, u) = After(q, i + 1, u)  BY AfterTail
<1> HIDE DEF r
<1>3. SentBelow(r, k, u, n)
  <2> SUFFICES ASSUME NEW i \in 1..Len(r), IsSwitch(r[i])
               PROVE  Carried(r[i], u) + After(r, i, u) + k <= n
    BY DEF SentBelow
  <2>1. i \in 1..Len(q) - 1 /\ i \in Nat /\ i + 1 \in 1..Len(q)  BY <1>1
  <2>2. r[i] = q[i + 1] /\ After(r, i, u) = After(q, i + 1, u)  BY <1>1, <1>2, <2>1
  <2>3. Carried(q[i + 1], u) + After(q, i + 1, u) + k <= n  BY <2>1, <2>2 DEF SentBelow
  <2> QED BY <2>2, <2>3
<1>4. ASSUME IsSwitch(Head(q))
      PROVE  /\ Carried(Head(q), u) \in Nat
             /\ Carried(Head(q), u) + After(r, 0, u) + k <= n
  <2>1. 1 \in 1..Len(q) /\ Head(q) \in S  BY <1>1, ElementOfSeq
  <2>2. Carried(q[1], u) + After(q, 1, u) + k <= n  BY <1>1, <1>4, <2>1 DEF SentBelow
  <2>3. After(r, 0, u) = After(q, 1, u)
    <3>1. 0 \in Nat /\ 0 + 1 = 1  OBVIOUS
    <3> QED BY <1>2, <3>1
  <2>4. Carried(Head(q), u) \in Nat  BY <1>4, <2>1, CarriedIs
  <2> QED BY <1>1, <2>2, <2>3, <2>4
<1> QED BY <1>3, <1>4 DEF r

(* The numbers are numbers. *)
LEMMA CountsAre ==
  ASSUME NEW S, NEW Q, NEW R, NEW B, NEW w, Countable(S, Q, R, B, w), Counted(Q, R, B, w),
         NEW c \in Clients, NEW u \in Uuids
  PROVE  /\ w[u] \in Nat /\ By(Q, Others(c), u) \in Nat
         /\ \A i : After(R[c], i, u) \in Nat /\ After(Q[c], i, u) \in Nat
         /\ \A p \in DOMAIN B[c] : B[c][p].copies[u] \in Nat
         /\ CountedFor(Q, R, B, w, c, u)
         /\ R[c] \in Seq(S) /\ Q[c] \in Seq(S)
<1>1. /\ Q \in [Clients -> Seq(S)] /\ R \in [Clients -> Seq(S)] /\ w \in [Uuids -> Nat]
      /\ Books(B)
  BY DEF Countable
<1>2. R[c] \in Seq(S) /\ Q[c] \in Seq(S) /\ w[u] \in Nat  BY <1>1
<1>3. \A i : After(R[c], i, u) \in Nat /\ After(Q[c], i, u) \in Nat  BY <1>2, AfterIs
<1>4. By(Q, Others(c), u) \in Nat
  <2>1. IsFiniteSet(ShowsOf(Q, Clients, u))  BY DEF Counted, FewShows
  <2>2. Others(c) \in SUBSET Clients  BY DEF Others
  <2> QED BY <2>1, <2>2, ByFewer
<1>5. \A p \in DOMAIN B[c] : B[c][p].copies[u] \in Nat
  <2>1. \A p \in DOMAIN B[c] : B[c][p].copies \in [Uuids -> Nat]  BY <1>1 DEF Books
  <2> QED BY <2>1
<1>6. CountedFor(Q, R, B, w, c, u)  BY DEF Counted
<1> QED BY <1>2, <1>3, <1>4, <1>5, <1>6

(* A user does something to the pages, and more may have been shown.       *)
Grown(B, D, v, w, a) ==
  /\ \A c \in Clients \ {a} : D[c] = B[c]
  /\ \A u \in Uuids :
       /\ v[u] <= w[u]
       /\ \A p \in DOMAIN D[a] : \E r \in DOMAIN B[a] :
            D[a][p].copies[u] + v[u] <= B[a][r].copies[u] + w[u]
Sends(Q, P, a, m) == P[a] = Append(Q[a], m) /\ Alike(Q, P, Clients \ {a})

(* What a user puts on a page is counted. *)
LEMMA HeldGrown ==
  ASSUME NEW S, NEW Q, NEW R, NEW B, NEW v, Countable(S, Q, R, B, v), Counted(Q, R, B, v),
         NEW D, NEW w, Countable(S, Q, R, D, w), NEW a \in Clients, Grown(B, D, v, w, a),
         NEW c \in Clients, NEW u \in Uuids, NEW h \in Nat,
         IF c = a THEN h = By(Q, Others(c), u) ELSE h + v[u] <= By(Q, Others(c), u) + w[u]
  PROVE  HeldBelow(D[c], After(R[c], 0, u) + h, u, w[u])
<1> SUFFICES ASSUME NEW p \in DOMAIN D[c]
             PROVE  D[c][p].copies[u] + (After(R[c], 0, u) + h) <= w[u]
  BY DEF HeldBelow
<1> DEFINE k == By(Q, Others(c), u)
           y == After(R[c], 0, u)
           x == D[c][p].copies[u]
           s == v[u]
           t == w[u]
<1>1. /\ s \in Nat /\ k \in Nat /\ y \in Nat
      /\ \A r \in DOMAIN B[c] : B[c][r].copies[u] \in Nat
      /\ CountedFor(Q, R, B, v, c, u)
  BY CountsAre
<1>2. t \in Nat /\ x \in Nat
  <2>1. D[c][p].copies \in [Uuids -> Nat] /\ w \in [Uuids -> Nat]  BY DEF Countable, Books
  <2> QED BY <2>1
<1>3. \A r \in DOMAIN B[c] : B[c][r].copies[u] + (y + k) <= s
  BY <1>1, Zenon DEF CountedFor, HeldBelow
<1>4. CASE c = a
  <2>1. PICK r \in DOMAIN B[c] : x + s <= B[c][r].copies[u] + t  BY <1>4 DEF Grown
  <2> DEFINE z == B[c][r].copies[u]
  <2>2. z \in Nat /\ z + (y + k) <= s /\ h = k  BY <1>1, <1>3, <1>4
  <2>3. x + s <= z + t  BY <2>1
  <2> HIDE DEF x, y, k, s, t, z
  <2>4. x + (y + h) <= t  BY <1>1, <1>2, <2>2, <2>3
  <2> QED BY <2>4 DEF x, y, t
<1>5. CASE c # a
  <2>1. D[c] = B[c] /\ p \in DOMAIN B[c]  BY <1>5 DEF Grown
  <2>2. x + (y + k) <= s  BY <1>3, <2>1
  <2>3. h + s <= k + t  BY <1>5
  <2> HIDE DEF x, y, k, s, t
  <2>4. x + (y + h) <= t  BY <1>1, <1>2, <2>2, <2>3
  <2> QED BY <2>4 DEF x, y, t
<1> QED BY <1>4, <1>5

(* It is not sent. *)
LEMMA CountsUnsent ==
  ASSUME NEW S, NEW Q, NEW R, NEW B, NEW v, Countable(S, Q, R, B, v), Counted(Q, R, B, v),
         NEW D, NEW w, Countable(S, Q, R, D, w), NEW a \in Clients, Grown(B, D, v, w, a)
  PROVE  Counted(Q, R, D, w)
<1> SUFFICES ASSUME NEW c \in Clients, NEW u \in Uuids PROVE CountedFor(Q, R, D, w, c, u)
  BY DEF Counted
<1> DEFINE k == By(Q, Others(c), u)
           s == v[u]
           t == w[u]
<1>1. /\ s \in Nat /\ k \in Nat /\ CountedFor(Q, R, B, v, c, u)
      /\ R[c] \in Seq(S) /\ Q[c] \in Seq(S)
  BY CountsAre
<1>2. t \in Nat /\ s <= t
  <2>1. w \in [Uuids -> Nat] /\ v[u] <= w[u]  BY DEF Countable, Grown
  <2> QED BY <2>1
<1>3. Contents(S) /\ SentBelow(R[c], k, u, s) /\ SentBelow(Q[c], k, u, s)
  BY <1>1, Zenon DEF Countable, CountedFor
<1>4. k + s <= t + k /\ k + s <= k + t
  <2> HIDE DEF k, s, t
  <2> QED BY <1>1, <1>2
<1>5. HeldBelow(D[c], After(R[c], 0, u) + k, u, t)  BY <1>1, <1>4, HeldGrown
<1> HIDE DEF k, s, t
<1>6. SentBelow(R[c], k, u, t) /\ SentBelow(Q[c], k, u, t)
  BY <1>1, <1>2, <1>3, <1>4, SentLoosen
<1> QED BY <1>5, <1>6, Zenon DEF CountedFor, k, t

(* It is sent. *)
LEMMA CountsSent ==
  ASSUME NEW S, NEW Q, NEW R, NEW B, NEW v, Countable(S, Q, R, B, v), Counted(Q, R, B, v),
         NEW D, NEW w, NEW P, Countable(S, P, R, D, w), NEW a \in Clients, Grown(B, D, v, w, a),
         NEW m \in S, Sends(Q, P, a, m),
         \A u \in Uuids : /\ Weight(m, u) + v[u] <= w[u]
                          /\ IsSwitch(m) => Carried(m, u) + By(Q, Others(a), u) <= w[u]
  PROVE  Counted(P, R, D, w)
<1>1. FewShows(P) /\ HeardMore(Q, P, a, m)
  <2>1. Q \in [Clients -> Seq(S)] /\ P \in [Clients -> Seq(S)]  BY DEF Countable
  <2>2. FewShows(Q)  BY DEF Counted
  <2>3. P[a] = Append(Q[a], m) /\ Alike(Q, P, Clients \ {a})  BY DEF Sends
  <2> QED BY <2>1, <2>2, <2>3, BySent
<1> SUFFICES ASSUME NEW c \in Clients, NEW u \in Uuids PROVE CountedFor(P, R, D, w, c, u)
  BY <1>1 DEF Counted
<1> DEFINE k == By(Q, Others(c), u)
           h == By(P, Others(c), u)
           s == v[u]
           t == w[u]
           z == Weight(m, u)
<1>2. /\ s \in Nat /\ k \in Nat /\ CountedFor(Q, R, B, v, c, u)
      /\ R[c] \in Seq(S) /\ Q[c] \in Seq(S)
  BY CountsAre
<1>3. t \in Nat /\ z \in Nat /\ z + s <= t
  <2>1. w \in [Uuids -> Nat]  BY DEF Countable
  <2> QED BY <2>1 DEF Weight
<1>4. h \in Nat /\ h = k + IF c = a THEN 0 ELSE z  BY <1>1 DEF HeardMore
<1>5. Contents(S) /\ SentBelow(R[c], k, u, s) /\ SentBelow(Q[c], k, u, s)
  BY <1>2, Zenon DEF Countable, CountedFor
<1>6. Countable(S, Q, R, D, w)  BY DEF Countable
<1>7. IF c = a THEN h = k ELSE h + s <= k + t
  <2> HIDE DEF h, k, s, t, z
  <2> QED BY <1>2, <1>3, <1>4
<1>8. h + s <= t + k
  <2> HIDE DEF h, k, s, t, z
  <2> QED BY <1>2, <1>3, <1>4
<1>9. HeldBelow(D[c], After(R[c], 0, u) + h, u, t)  BY <1>4, <1>6, <1>7, HeldGrown
<1>10. c = a /\ IsSwitch(m) => Carried(m, u) + h <= t
  BY <1>7
<1> HIDE DEF h, k, s, t, z
<1>11. SentBelow(R[c], h, u, t)  BY <1>2, <1>3, <1>4, <1>5, <1>8, SentLoosen
<1>12. SentBelow(P[c], h, u, t)
  <2>1. CASE c = a
    <3>1. z + h + s <= t + k  BY <1>2, <1>3, <1>4, <2>1
    <3>2. IsSwitch(m) => Carried(m, u) + h <= t  BY <1>10, <2>1
    <3>3. SentBelow(Append(Q[c], m), h, u, t)
      BY <1>2, <1>3, <1>4, <1>5, <3>1, <3>2, SentAppend DEF z
    <3> QED BY <2>1, <3>3 DEF Sends
  <2>2. CASE c # a
    <3>1. P[c] = Q[c]  BY <2>2 DEF Sends, Alike
    <3>2. SentBelow(Q[c], h, u, t)  BY <1>2, <1>3, <1>4, <1>5, <1>8, SentLoosen
    <3> QED BY <3>1, <3>2
  <2> QED BY <2>1, <2>2
<1> QED BY <1>9, <1>11, <1>12, Zenon DEF CountedFor, h, t

(* A client takes the first command that came, and plays it on its pages.  *)
Takes(Q, P, a) == Q[a] # <<>> /\ P[a] = Tail(Q[a]) /\ Alike(P, Q, Clients \ {a})
PlaysOn(B, D, a, m) ==
  /\ \A c \in Clients \ {a} : D[c] = B[c]
  /\ \A u \in Uuids, p \in DOMAIN D[a] :
       \/ \E r \in DOMAIN B[a] : D[a][p].copies[u] <= B[a][r].copies[u] + Weight(m, u)
       \/ IsSwitch(m) /\ D[a][p].copies[u] <= Carried(m, u)

(* What is played was counted. *)
LEMMA CountsPlayed ==
  ASSUME NEW S, NEW Q, NEW R, NEW B, NEW w, Countable(S, Q, R, B, w), Counted(Q, R, B, w),
         NEW D, NEW P, Countable(S, Q, P, D, w), NEW a \in Clients, Takes(R, P, a),
         PlaysOn(B, D, a, Head(R[a]))
  PROVE  Counted(Q, P, D, w)
<1> SUFFICES ASSUME NEW c \in Clients, NEW u \in Uuids PROVE CountedFor(Q, P, D, w, c, u)
  BY DEF Counted
<1> DEFINE k == By(Q, Others(c), u)
           t == w[u]
<1>1. /\ t \in Nat /\ k \in Nat /\ CountedFor(Q, R, B, w, c, u)
      /\ R[c] \in Seq(S) /\ Q[c] \in Seq(S)
      /\ \A p \in DOMAIN B[c] : B[c][p].copies[u] \in Nat
  BY CountsAre
<1>2. /\ Contents(S) /\ SentBelow(R[c], k, u, t) /\ SentBelow(Q[c], k, u, t)
      /\ HeldBelow(B[c], After(R[c], 0, u) + k, u, t)
  BY <1>1, Zenon DEF Countable, CountedFor
<1>3. CASE c # a
  <2>1. P[c] = R[c] /\ D[c] = B[c]  BY <1>3 DEF Takes, Alike, PlaysOn
  <2> QED BY <1>2, <2>1, Zenon DEF CountedFor
<1>4. CASE c = a
  <2> DEFINE m == Head(R[a])
             y == After(P[c], 0, u)
             z == Weight(m, u)
  <2>1. P[c] = Tail(R[c]) /\ R[c] # <<>> /\ m = Head(R[c])  BY <1>4 DEF Takes
  <2>2. P[c] \in Seq(S)  BY <1>1, <2>1, HeadTailProperties
  <2>3. After(R[c], 0, u) = y + z /\ y \in Nat /\ z \in Nat
    <3>1. After(R[c], 0, u) = After(Tail(R[c]), 0, u) + Weight(Head(R[c]), u)
      BY <1>1, <2>1, AfterTail
    <3>2. y \in Nat  BY <2>2, AfterIs
    <3>3. z \in Nat  BY DEF Weight
    <3> HIDE DEF m
    <3> QED BY <2>1, <3>1, <3>2, <3>3
  <2>4. /\ SentBelow(P[c], k, u, t)
        /\ IsSwitch(m) => Carried(m, u) \in Nat /\ Carried(m, u) + y + k <= t
    <3> HIDE DEF m, k, t
    <3>1. /\ SentBelow(Tail(R[c]), k, u, t)
          /\ IsSwitch(Head(R[c])) => /\ Carried(Head(R[c]), u) \in Nat
                                     /\ Carried(Head(R[c]), u) + After(Tail(R[c]), 0, u) + k <= t
      BY <1>1, <1>2, <2>1, SentTail
    <3> QED BY <2>1, <3>1
  <2>5. ASSUME NEW p \in DOMAIN D[c] PROVE D[c][p].copies[u] + (y + k) <= t
    <3> DEFINE x == D[c][p].copies[u]
    <3>1. x \in Nat
      <4>1. D[c][p].copies \in [Uuids -> Nat]  BY DEF Countable, Books
      <4> QED BY <4>1
    <3>2. \/ \E r \in DOMAIN B[c] : x <= B[c][r].copies[u] + z
          \/ IsSwitch(m) /\ x <= Carried(m, u)
      BY <1>4 DEF PlaysOn
    <3>3. ASSUME NEW r \in DOMAIN B[c], x <= B[c][r].copies[u] + z PROVE x + (y + k) <= t
      <4> DEFINE b == B[c][r].copies[u]
      <4>1. b \in Nat /\ x <= b + z /\ b + ((y + z) + k) <= t
        BY <1>1, <1>2, <2>3, <3>3 DEF HeldBelow
      <4> HIDE DEF b, x, y, z, k, t
      <4> QED BY <1>1, <2>3, <3>1, <4>1
    <3>4. ASSUME IsSwitch(m), x <= Carried(m, u) PROVE x + (y + k) <= t
      <4> DEFINE b == Carried(m, u)
      <4>1. b \in Nat /\ b + y + k <= t /\ x <= b  BY <2>4, <3>4
      <4> HIDE DEF b, x, y, z, k, t
      <4> QED BY <1>1, <2>3, <3>1, <4>1
    <3>5. x + (y + k) <= t
      <4> HIDE DEF x, y, z, k, t, m
      <4> QED BY <3>2, <3>3, <3>4, Zenon
    <3> QED BY <3>5
  <2>6. HeldBelow(D[c], y + k, u, t)  BY <2>5, Zenon DEF HeldBelow
  <2> QED BY <1>2, <2>4, <2>6, Zenon DEF CountedFor
<1> QED BY <1>3, <1>4

(* The server takes the first command of a client, and writes it to some   *)
(* of the others, or to nobody.                                            *)
Writes(R, P, m) == \A c \in Clients : P[c] = R[c] \/ P[c] = Append(R[c], m)

(* What is relayed was counted. *)
LEMMA CountsRelayed ==
  ASSUME NEW S, NEW Q, NEW R, NEW B, NEW w, Countable(S, Q, R, B, w), Counted(Q, R, B, w),
         NEW O, NEW P, Countable(S, O, P, B, w), NEW a \in Clients, Takes(Q, O, a),
         Writes(R, P, Head(Q[a])), IsEdit(Head(Q[a])) => P[a] = R[a]
  PROVE  Counted(O, P, B, w)
<1> DEFINE m == Head(Q[a])
<1>0. /\ Q \in [Clients -> Seq(S)] /\ O \in [Clients -> Seq(S)] /\ P \in [Clients -> Seq(S)]
      /\ Contents(S)
  BY DEF Countable
<1>1. FewShows(O) /\ HeardMore(O, Q, a, m)
  <2>1. FewShows(Q)  BY DEF Counted
  <2>2. Q[a] # <<>> /\ O[a] = Tail(Q[a]) /\ Alike(O, Q, Clients \ {a})  BY DEF Takes
  <2> QED BY <1>0, <2>1, <2>2, ByTaken
<1>2. m \in S
  <2>1. Q[a] \in Seq(S) /\ Q[a] # <<>>  BY <1>0 DEF Takes
  <2> QED BY <2>1, HeadTailProperties
<1> SUFFICES ASSUME NEW c \in Clients, NEW u \in Uuids PROVE CountedFor(O, P, B, w, c, u)
  BY <1>1 DEF Counted
<1> DEFINE k == By(Q, Others(c), u)
           h == By(O, Others(c), u)
           t == w[u]
           y == After(R[c], 0, u)
           z == Weight(m, u)
<1>3. /\ t \in Nat /\ k \in Nat /\ y \in Nat /\ CountedFor(Q, R, B, w, c, u)
      /\ R[c] \in Seq(S) /\ Q[c] \in Seq(S)
      /\ \A p \in DOMAIN B[c] : B[c][p].copies[u] \in Nat
  BY CountsAre
<1>4. /\ SentBelow(R[c], k, u, t) /\ SentBelow(Q[c], k, u, t) /\ HeldBelow(B[c], y + k, u, t)
  BY <1>3, Zenon DEF CountedFor
<1>5. h \in Nat /\ k = h + IF c = a THEN 0 ELSE z  BY <1>1 DEF HeardMore
<1>6. z \in {0, 1} /\ (z = 1 => IsEdit(m))  BY DEF Weight, IsShow
<1>7. h + t <= t + k
  <2> HIDE DEF h, k, t, z
  <2> QED BY <1>3, <1>5, <1>6
<1>8. SentBelow(O[c], h, u, t)
  <2>1. SentBelow(Q[c], h, u, t)
    <3> HIDE DEF h, k, t
    <3> QED BY <1>0, <1>3, <1>4, <1>5, <1>7, SentLoosen
  <2>2. CASE c = a
    <3>1. O[c] = Tail(Q[c]) /\ Q[c] # <<>>  BY <2>2 DEF Takes
    <3> HIDE DEF h, t
    <3> QED BY <1>0, <1>3, <1>5, <2>1, <3>1, SentTail
  <2>3. CASE c # a
    <3>1. O[c] = Q[c]  BY <2>3 DEF Takes, Alike
    <3> QED BY <2>1, <3>1
  <2> QED BY <2>2, <2>3
<1>9. CASE P[c] = R[c]
  <2>1. SentBelow(P[c], h, u, t)
    <3> HIDE DEF h, k, t
    <3> QED BY <1>0, <1>3, <1>4, <1>5, <1>7, <1>9, SentLoosen
  <2>2. HeldBelow(B[c], y + h, u, t)
    <3> SUFFICES ASSUME NEW p \in DOMAIN B[c] PROVE B[c][p].copies[u] + (y + h) <= t
      BY DEF HeldBelow
    <3> DEFINE x == B[c][p].copies[u]
    <3>1. x \in Nat /\ x + (y + k) <= t  BY <1>3, <1>4 DEF HeldBelow
    <3> HIDE DEF x, y, h, k, t, z
    <3>2. x + (y + h) <= t  BY <1>3, <1>5, <1>6, <3>1
    <3> QED BY <3>2 DEF x
  <2> QED BY <1>8, <1>9, <2>1, <2>2, Zenon DEF CountedFor
<1>10. CASE P[c] # R[c]
  <2>1. P[c] = Append(R[c], m) /\ (c = a => ~IsEdit(m))  BY <1>10 DEF Writes
  <2>2. k = h + z
    <3>1. c = a => z = 0  BY <1>6, <2>1
    <3> HIDE DEF h, k, z
    <3> QED BY <1>5, <1>6, <3>1
  <2>3. After(P[c], 0, u) = y + z
    <3>1. Len(R[c]) \in Nat  BY <1>3, LenProperties
    <3>2. 0 \in 0..Len(R[c])  BY <3>1
    <3>3. After(Append(R[c], m), 0, u) = After(R[c], 0, u) + Weight(m, u)
      BY <1>2, <1>3, <3>2, AfterAppend
    <3> QED BY <2>1, <3>3
  <2>4. HeldBelow(B[c], After(P[c], 0, u) + h, u, t)
    <3> SUFFICES ASSUME NEW p \in DOMAIN B[c] PROVE B[c][p].copies[u] + ((y + z) + h) <= t
      BY <2>3 DEF HeldBelow
    <3> DEFINE x == B[c][p].copies[u]
    <3>1. x \in Nat /\ x + (y + k) <= t  BY <1>3, <1>4 DEF HeldBelow
    <3> HIDE DEF x, y, h, k, t, z
    <3>2. x + ((y + z) + h) <= t  BY <1>3, <1>5, <1>6, <2>2, <3>1
    <3> QED BY <3>2 DEF x
  <2>5. IsSwitch(m) => Carried(m, u) + h <= t
    <3> SUFFICES ASSUME IsSwitch(m) PROVE Carried(m, u) + h <= t
      OBVIOUS
    <3> DEFINE j == By(Q, Others(a), u)
               x == Carried(m, u)
               q == Q[a]
               v == After(Tail(q), 0, u)
    <3>1. j \in Nat /\ q \in Seq(S) /\ CountedFor(Q, R, B, w, a, u)  BY CountsAre
    <3>2. SentBelow(q, j, u, t) /\ q # <<>>  BY <3>1, Zenon DEF CountedFor, Takes
    <3>3. x \in Nat /\ x + v + j <= t
      <4> HIDE DEF j, q, t
      <4>1. IsSwitch(Head(q)) => /\ Carried(Head(q), u) \in Nat
                                 /\ Carried(Head(q), u) + After(Tail(q), 0, u) + j <= t
        BY <1>0, <1>3, <3>1, <3>2, SentTail
      <4> QED BY <4>1 DEF q
    <3>4. v \in Nat
      <4>1. Tail(q) \in Seq(S)  BY <3>1, <3>2, HeadTailProperties
      <4> QED BY <4>1, AfterIs
    <3>5. h <= v + j
      <4>1. IsFiniteSet(ShowsOf(O, Clients, u))  BY <1>1 DEF FewShows
      <4>2. Others(c) \in SUBSET Clients /\ Others(a) \in SUBSET Clients /\ Clients \in SUBSET Clients
        BY DEF Others
      <4>3. h <= By(O, Clients, u) /\ h \in Nat /\ By(O, Clients, u) \in Nat
        BY <4>1, <4>2, ByFewer
      <4>4. IsFiniteSet(ShowsOf(O, Clients \ {a}, u))  BY <4>1, <4>2, ByFewer DEF Others
      <4>5. By(O, Clients, u) = By(O, Others(a), u) + After(O[a], 0, u)
        BY <1>0, <4>2, <4>4, ByOne DEF Others
      <4>6. By(O, Others(a), u) \in Nat /\ j = By(O, Others(a), u) + 0
        BY <1>1 DEF HeardMore
      <4>7. O[a] = Tail(q)  BY DEF Takes
      <4>8. By(O, Clients, u) = By(O, Others(a), u) + v  BY <4>5, <4>7
      <4> DEFINE b == By(O, Others(a), u)
                 e == By(O, Clients, u)
      <4>9. b \in Nat /\ j = b + 0 /\ e = b + v /\ h <= e /\ e \in Nat  BY <4>3, <4>6, <4>8
      <4> HIDE DEF h, v, j, b, e
      <4> QED BY <1>5, <3>4, <4>9
    <3> HIDE DEF x, v, j, h, t
    <3>6. x + h <= t  BY <1>3, <1>5, <3>1, <3>3, <3>4, <3>5
    <3> QED BY <3>6 DEF x
  <2>6. SentBelow(Append(R[c], m), h, u, t)
    <3>1. z + h + t <= t + k
      <4> HIDE DEF h, k, t, z
      <4> QED BY <1>3, <1>5, <1>6, <2>2
    <3> HIDE DEF m, h, k, t
    <3> QED BY <1>0, <1>2, <1>3, <1>4, <1>5, <2>5, <3>1, SentAppend DEF z
  <2> QED BY <1>8, <2>1, <2>4, <2>6, Zenon DEF CountedFor
<1> QED BY <1>9, <1>10

(* What is neither shown nor a page is not counted. *)
LEMMA CountsPlain ==
  ASSUME NEW S, NEW Q, NEW R, NEW B, NEW w, Countable(S, Q, R, B, w), Counted(Q, R, B, w),
         NEW P, Countable(S, Q, P, B, w), NEW m \in S, ~IsEdit(m), ~IsSwitch(m), Writes(R, P, m)
  PROVE  Counted(Q, P, B, w)
<1> SUFFICES ASSUME NEW c \in Clients, NEW u \in Uuids PROVE CountedFor(Q, P, B, w, c, u)
  BY DEF Counted
<1> DEFINE k == By(Q, Others(c), u)
           t == w[u]
<1>1. /\ t \in Nat /\ k \in Nat /\ CountedFor(Q, R, B, w, c, u) /\ R[c] \in Seq(S)
      /\ After(R[c], 0, u) \in Nat
  BY CountsAre
<1>2. /\ Contents(S) /\ SentBelow(R[c], k, u, t) /\ SentBelow(Q[c], k, u, t)
      /\ HeldBelow(B[c], After(R[c], 0, u) + k, u, t)
  BY <1>1, Zenon DEF Countable, CountedFor
<1>3. CASE P[c] = R[c]
  BY <1>2, <1>3, Zenon DEF CountedFor
<1>4. CASE P[c] # R[c]
  <2>1. P[c] = Append(R[c], m)  BY <1>4 DEF Writes
  <2>2. Weight(m, u) = 0  BY DEF Weight, IsShow
  <2>3. After(P[c], 0, u) = After(R[c], 0, u)
    <3>1. Len(R[c]) \in Nat  BY <1>1, LenProperties
    <3>2. 0 \in 0..Len(R[c])  BY <3>1
    <3>3. After(Append(R[c], m), 0, u) = After(R[c], 0, u) + Weight(m, u)
      BY <1>1, <3>2, AfterAppend
    <3> QED BY <1>1, <2>1, <2>2, <3>3
  <2>4. SentBelow(Append(R[c], m), k, u, t)
    <3> HIDE DEF k, t
    <3>1. Weight(m, u) + k + t <= t + k  BY <1>1, <2>2
    <3> QED BY <1>1, <1>2, <3>1, SentAppend
  <2> QED BY <1>2, <2>1, <2>3, <2>4, Zenon DEF CountedFor
<1> QED BY <1>3, <1>4

-----------------------------------------------------------------------------
(* The commands on their way, and what they carry.                         *)

(* Commands about elements there are, and pages that were made. *)
Fine(m, M) ==
  /\ IsEdit(m) => /\ m.data.id \in Uuids /\ m.data.look \in Looks
                  /\ m.data.action \in {"Show", "Hide", "Top", "Bottom", "Look"}
  /\ IsSwitch(m) => m.data.page \in Clients \cup M /\ m.data.content \in Seq(Sent)
AllFine(S, M) == \A m \in S : Fine(m, M)
ShapedPages == {p \in PageRecords : Shaped(p)}
BookSet(M) == UNION {[D -> ShapedPages] : D \in SUBSET (Clients \cup M)}

Traffic(Q, R, B, M, w) ==
  \E S : /\ Q \in [Clients -> Seq(S)] /\ R \in [Clients -> Seq(S)] /\ AllFine(S, M)
         /\ Counted(Q, R, B, w)
Shelf(B, M, w) == B \in [Clients -> BookSet(M)] /\ w \in [Uuids -> Nat]

(* A book is a page for each of some uuids. *)
LEMMA BookIs ==
  ASSUME NEW M, NEW b
  PROVE  b \in BookSet(M) <=> /\ b = [p \in DOMAIN b |-> b[p]] /\ DOMAIN b \subseteq Clients \cup M
                              /\ \A p \in DOMAIN b : Shaped(b[p])
<1>1. ASSUME b \in BookSet(M)
      PROVE  /\ b = [p \in DOMAIN b |-> b[p]] /\ DOMAIN b \subseteq Clients \cup M
             /\ \A p \in DOMAIN b : Shaped(b[p])
  BY <1>1 DEF BookSet, ShapedPages
<1>2. ASSUME b = [p \in DOMAIN b |-> b[p]], DOMAIN b \subseteq Clients \cup M,
             \A p \in DOMAIN b : Shaped(b[p])
      PROVE  b \in BookSet(M)
  <2>1. \A p \in DOMAIN b : b[p] \in ShapedPages  BY <1>2 DEF ShapedPages, Shaped
  <2>2. b \in [DOMAIN b -> ShapedPages]  BY <1>2, <2>1
  <2> QED BY <1>2, <2>2 DEF BookSet
<1> QED BY <1>1, <1>2

(* What is fine stays so when pages are made. *)
LEMMA FineMore ==
  ASSUME NEW S, NEW M, NEW N, M \subseteq N, AllFine(S, M)
  PROVE  AllFine(S, N)
BY DEF AllFine, Fine

(* The commands, pages and numbers can be counted. *)
LEMMA ShelfCountable ==
  ASSUME NEW S, NEW Q \in [Clients -> Seq(S)], NEW R \in [Clients -> Seq(S)], NEW M, NEW N,
         AllFine(S, M), NEW B, NEW w, Shelf(B, N, w)
  PROVE  Countable(S, Q, R, B, w)
<1>1. Contents(S)  BY DEF AllFine, Fine, Contents
<1>2. Books(B)
  <2> SUFFICES ASSUME NEW c \in Clients, NEW p \in DOMAIN B[c]
               PROVE  B[c][p].copies \in [Uuids -> Nat]
    BY DEF Books
  <2>1. B[c] \in BookSet(N)  BY DEF Shelf
  <2>2. Shaped(B[c][p])  BY <2>1, BookIs
  <2> QED BY <2>2, ShapedDrawn
<1> QED BY <1>1, <1>2 DEF Countable, Shelf

(* A client sends a command, which carries no more than one of its pages.  *)
CarriesFrom(book, m) ==
  IsSwitch(m) => \A u \in Uuids : \E r \in DOMAIN book : Carried(m, u) <= book[r].copies[u]

(* The traffic after it. *)
LEMMA TrafficSent ==
  ASSUME NEW Q, NEW R, NEW B, NEW M, NEW v, Traffic(Q, R, B, M, v), Shelf(B, M, v),
         NEW D, NEW N, NEW w, Shelf(D, N, w), M \subseteq N, NEW a \in Clients,
         Grown(B, D, v, w, a), NEW m, Fine(m, N), CarriesFrom(B[a], m),
         \A u \in Uuids : Weight(m, u) + v[u] <= w[u]
  PROVE  Traffic([Q EXCEPT ![a] = Append(@, m)], R, D, N, w)
<1>1. PICK S : /\ Q \in [Clients -> Seq(S)] /\ R \in [Clients -> Seq(S)] /\ AllFine(S, M)
               /\ Counted(Q, R, B, v)
  BY DEF Traffic
<1> DEFINE T == S \cup {m}
           P == [Q EXCEPT ![a] = Append(@, m)]
<1>2. m \in T /\ S \subseteq T /\ AllFine(T, N)
  <2>1. AllFine(S, N)  BY <1>1, FineMore
  <2> QED BY <2>1 DEF AllFine
<1> HIDE DEF T
<1>3. Q \in [Clients -> Seq(T)] /\ R \in [Clients -> Seq(T)]
  <2>1. \A c \in Clients : Q[c] \in Seq(T) /\ R[c] \in Seq(T)
    <3> SUFFICES ASSUME NEW c \in Clients PROVE Q[c] \in Seq(T) /\ R[c] \in Seq(T)
      OBVIOUS
    <3>1. Q[c] \in Seq(S) /\ R[c] \in Seq(S)  BY <1>1
    <3> QED BY <1>2, <3>1, SeqMore
  <2> QED BY <1>1, <2>1
<1>4. P \in [Clients -> Seq(T)] /\ Sends(Q, P, a, m)
  <2>1. Append(Q[a], m) \in Seq(T)  BY <1>2, <1>3, AppendProperties
  <2> QED BY <1>3, <2>1 DEF Sends, Alike
<1> HIDE DEF P
<1>5. Countable(T, Q, R, B, v) /\ Countable(T, P, R, D, w)
  BY <1>2, <1>3, <1>4, ShelfCountable
<1>6. \A u \in Uuids : /\ Weight(m, u) + v[u] <= w[u]
                       /\ IsSwitch(m) => Carried(m, u) + By(Q, Others(a), u) <= w[u]
  <2> SUFFICES ASSUME NEW u \in Uuids, IsSwitch(m)
               PROVE  Carried(m, u) + By(Q, Others(a), u) <= w[u]
    OBVIOUS
  <2>1. PICK r \in DOMAIN B[a] : Carried(m, u) <= B[a][r].copies[u]  BY DEF CarriesFrom
  <2> DEFINE x == Carried(m, u)
             y == After(R[a], 0, u)
             k == By(Q, Others(a), u)
             z == B[a][r].copies[u]
             s == v[u]
             t == w[u]
  <2>2. /\ s \in Nat /\ k \in Nat /\ y \in Nat /\ z \in Nat /\ CountedFor(Q, R, B, v, a, u)
    BY <1>1, <1>5, CountsAre
  <2>3. z + (y + k) <= s  BY <2>2, Zenon DEF CountedFor, HeldBelow
  <2>4. x \in Nat
    <3>1. Contents(T)  BY <1>5 DEF Countable
    <3> QED BY <1>2, <3>1, CarriedIs
  <2>5. t \in Nat /\ s <= t
    <3>1. w \in [Uuids -> Nat] /\ v[u] <= w[u]  BY DEF Shelf, Grown
    <3> QED BY <3>1
  <2>6. x <= z  BY <2>1
  <2> HIDE DEF x, y, k, z, s, t
  <2>7. x + k <= t  BY <2>2, <2>3, <2>4, <2>5, <2>6
  <2> QED BY <2>7 DEF x, k, t
<1>7. Counted(P, R, D, w)  BY <1>1, <1>2, <1>4, <1>5, <1>6, CountsSent
<1> QED BY <1>2, <1>3, <1>4, <1>7 DEF Traffic, P

(* A client keeps what it does to itself. *)
LEMMA TrafficUnsent ==
  ASSUME NEW Q, NEW R, NEW B, NEW M, NEW v, Traffic(Q, R, B, M, v), Shelf(B, M, v),
         NEW D, NEW N, NEW w, Shelf(D, N, w), M \subseteq N, NEW a \in Clients,
         Grown(B, D, v, w, a)
  PROVE  Traffic(Q, R, D, N, w)
<1>1. PICK S : /\ Q \in [Clients -> Seq(S)] /\ R \in [Clients -> Seq(S)] /\ AllFine(S, M)
               /\ Counted(Q, R, B, v)
  BY DEF Traffic
<1>2. Countable(S, Q, R, B, v) /\ Countable(S, Q, R, D, w)  BY <1>1, ShelfCountable
<1>3. Counted(Q, R, D, w)  BY <1>1, <1>2, CountsUnsent
<1>4. AllFine(S, N)  BY <1>1, FineMore
<1> QED BY <1>1, <1>3, <1>4 DEF Traffic

(* A client plays a command. *)
LEMMA TrafficPlayed ==
  ASSUME NEW Q, NEW R, NEW B, NEW M, NEW w, Traffic(Q, R, B, M, w), Shelf(B, M, w),
         NEW D, Shelf(D, M, w), NEW a \in Clients, R[a] # <<>>, PlaysOn(B, D, a, Head(R[a]))
  PROVE  Traffic(Q, [R EXCEPT ![a] = Tail(@)], D, M, w)
<1>1. PICK S : /\ Q \in [Clients -> Seq(S)] /\ R \in [Clients -> Seq(S)] /\ AllFine(S, M)
               /\ Counted(Q, R, B, w)
  BY DEF Traffic
<1> DEFINE P == [R EXCEPT ![a] = Tail(@)]
<1>2. P \in [Clients -> Seq(S)] /\ Takes(R, P, a)
  <2>1. R[a] \in Seq(S)  BY <1>1
  <2>2. Tail(R[a]) \in Seq(S)  BY <2>1, HeadTailProperties
  <2> QED BY <1>1, <2>2 DEF Takes, Alike
<1> HIDE DEF P
<1>3. Countable(S, Q, R, B, w) /\ Countable(S, Q, P, D, w)  BY <1>1, <1>2, ShelfCountable
<1>4. Counted(Q, P, D, w)  BY <1>1, <1>2, <1>3, CountsPlayed
<1> QED BY <1>1, <1>2, <1>4 DEF Traffic, P

(* The first command of a client is fine. *)
LEMMA TrafficHead ==
  ASSUME NEW Q, NEW R, NEW B, NEW M, NEW w, Traffic(Q, R, B, M, w), NEW a \in Clients
  PROVE  /\ R[a] # <<>> => Fine(Head(R[a]), M)
         /\ Q[a] # <<>> => Fine(Head(Q[a]), M)
<1>1. PICK S : Q \in [Clients -> Seq(S)] /\ R \in [Clients -> Seq(S)] /\ AllFine(S, M)
  BY DEF Traffic
<1>2. Q[a] \in Seq(S) /\ R[a] \in Seq(S)  BY <1>1
<1>3. R[a] # <<>> => Head(R[a]) \in S  BY <1>2, HeadTailProperties
<1>4. Q[a] # <<>> => Head(Q[a]) \in S  BY <1>2, HeadTailProperties
<1> QED BY <1>1, <1>3, <1>4 DEF AllFine

(* The server relays a command. *)
LEMMA TrafficRelayed ==
  ASSUME NEW Q, NEW R, NEW B, NEW M, NEW w, Traffic(Q, R, B, M, w), Shelf(B, M, w),
         NEW a \in Clients, Q[a] # <<>>, NEW V, IsEdit(Head(Q[a])) => a \notin V
  PROVE  Traffic([Q EXCEPT ![a] = Tail(@)], Write(R, V, Head(Q[a])), B, M, w)
<1>1. PICK S : /\ Q \in [Clients -> Seq(S)] /\ R \in [Clients -> Seq(S)] /\ AllFine(S, M)
               /\ Counted(Q, R, B, w)
  BY DEF Traffic
<1> DEFINE O == [Q EXCEPT ![a] = Tail(@)]
           m == Head(Q[a])
           P == Write(R, V, m)
<1>2. O \in [Clients -> Seq(S)] /\ Takes(Q, O, a) /\ m \in S
  <2>1. Q[a] \in Seq(S)  BY <1>1
  <2>2. Tail(Q[a]) \in Seq(S) /\ Head(Q[a]) \in S  BY <2>1, HeadTailProperties
  <2> QED BY <1>1, <2>2 DEF Takes, Alike
<1>3. P \in [Clients -> Seq(S)]
  <2> HIDE DEF m
  <2> QED BY <1>1, <1>2, WritesHolding
<1>4. Writes(R, P, m) /\ (IsEdit(m) => P[a] = R[a])
  <2> HIDE DEF m
  <2> QED BY DEF Writes, Write, m
<1> HIDE DEF O, P
<1>5. Countable(S, Q, R, B, w) /\ Countable(S, O, P, B, w)  BY <1>1, <1>2, <1>3, ShelfCountable
<1>6. Counted(O, P, B, w)  BY <1>1, <1>2, <1>4, <1>5, CountsRelayed
<1> QED BY <1>1, <1>2, <1>3, <1>6 DEF Traffic, O, P

(* The server takes a command and relays nothing. *)
LEMMA TrafficHandled ==
  ASSUME NEW Q, NEW R, NEW B, NEW M, NEW w, Traffic(Q, R, B, M, w), Shelf(B, M, w),
         NEW a \in Clients, Q[a] # <<>>
  PROVE  Traffic([Q EXCEPT ![a] = Tail(@)], R, B, M, w)
<1>1. PICK S : R \in [Clients -> Seq(S)]  BY DEF Traffic
<1>2. Write(R, {}, Head(Q[a])) = R  BY <1>1 DEF Write
<1>3. Traffic([Q EXCEPT ![a] = Tail(@)], Write(R, {}, Head(Q[a])), B, M, w)
  BY TrafficRelayed
<1> QED BY <1>2, <1>3

(* The server writes a command of its own. *)
LEMMA TrafficWritten ==
  ASSUME NEW Q, NEW R, NEW B, NEW M, NEW w, Traffic(Q, R, B, M, w), Shelf(B, M, w), NEW V,
         NEW m, ~IsEdit(m), ~IsSwitch(m)
  PROVE  Traffic(Q, Write(R, V, m), B, M, w)
<1>1. PICK S : /\ Q \in [Clients -> Seq(S)] /\ R \in [Clients -> Seq(S)] /\ AllFine(S, M)
               /\ Counted(Q, R, B, w)
  BY DEF Traffic
<1> DEFINE T == S \cup {m}
           P == Write(R, V, m)
<1>2. m \in T /\ S \subseteq T /\ AllFine(T, M)  BY <1>1 DEF AllFine, Fine
<1> HIDE DEF T
<1>3. Q \in [Clients -> Seq(T)] /\ R \in [Clients -> Seq(T)]
  <2>1. \A c \in Clients : Q[c] \in Seq(T) /\ R[c] \in Seq(T)
    <3> SUFFICES ASSUME NEW c \in Clients PROVE Q[c] \in Seq(T) /\ R[c] \in Seq(T)
      OBVIOUS
    <3>1. Q[c] \in Seq(S) /\ R[c] \in Seq(S)  BY <1>1
    <3> QED BY <1>2, <3>1, SeqMore
  <2> QED BY <1>1, <2>1
<1>4. P \in [Clients -> Seq(T)]  BY <1>2, <1>3, WritesHolding
<1>5. Writes(R, P, m)  BY DEF Writes, Write
<1> HIDE DEF P
<1>6. Countable(T, Q, R, B, w) /\ Countable(T, Q, P, B, w)
  BY <1>2, <1>3, <1>4, ShelfCountable
<1>7. Counted(Q, P, B, w)  BY <1>1, <1>2, <1>5, <1>6, CountsPlain
<1> QED BY <1>2, <1>3, <1>4, <1>7 DEF Traffic, P

-----------------------------------------------------------------------------
(* The inductive invariant of the board.                                   *)

(* The pages of a client in their order, the one shown, and the dialog.    *)
ListedFor(list, i, p, n, book) ==
  /\ list \in Seq(PageIds) /\ IsInjective(list) /\ ToSet(list) = DOMAIN book
  /\ p \in DOMAIN book /\ i \in 1..Len(list) /\ n \in 0..Len(list)
Listed ==
  /\ order \in [Clients -> Seq(PageIds)] /\ index \in [Clients -> Nat]
  /\ current \in [Clients -> PageIds] /\ choosing \in [Clients -> Nat]
  /\ \A c \in Clients : ListedFor(order[c], index[c], current[c], choosing[c], pages[c])
Numbers == made \subseteq NewPages /\ shows \in [Uuids -> 0..MaxCopies] /\ usage \in Usages
BoardInv ==
  /\ Shelf(pages, made, shows) /\ Traffic(toServer, toClient, pages, made, shows)
  /\ Listed /\ Numbers

(* The page a client shows. *)
LEMMA PageIs ==
  ASSUME BoardInv, NEW c \in Clients
  PROVE  /\ pages \in [Clients -> BookSet(made)] /\ pages[c] \in BookSet(made)
         /\ current[c] \in DOMAIN pages[c] /\ Shaped(Page(c))
         /\ \A p \in DOMAIN pages[c] : Shaped(pages[c][p]) /\ pages[c][p].copies \in [Uuids -> Nat]
         /\ \A p \in DOMAIN pages[c], u \in Uuids : pages[c][p].copies[u] \in Nat
<1>1. pages \in [Clients -> BookSet(made)] /\ pages[c] \in BookSet(made)
  BY DEF BoardInv, Shelf
<1>2. current[c] \in DOMAIN pages[c]  BY DEF BoardInv, Listed, ListedFor
<1>3. \A p \in DOMAIN pages[c] : Shaped(pages[c][p])  BY <1>1, BookIs
<1>4. \A p \in DOMAIN pages[c] : pages[c][p].copies \in [Uuids -> Nat]
  BY <1>3, ShapedDrawn
<1>5. \A p \in DOMAIN pages[c], u \in Uuids : pages[c][p].copies[u] \in Nat  BY <1>4
<1> QED BY <1>1, <1>2, <1>3, <1>4, <1>5 DEF Page

(* A book with one page in the place of another, or beside them. *)
Placed(M, b, p, q, d) ==
  /\ d \in BookSet(M) /\ DOMAIN d = DOMAIN b \cup {p} /\ d[p] = q
  /\ \A r \in DOMAIN b : r # p => d[r] = b[r]
  /\ p \in DOMAIN b => d = [b EXCEPT ![p] = q]

(* Put places it. *)
LEMMA BookPut ==
  ASSUME NEW M, NEW b \in BookSet(M), NEW p \in Clients \cup M, NEW q, Shaped(q)
  PROVE  Placed(M, b, p, q, Put(b, p, q))
<1> DEFINE d == Put(b, p, q)
<1>1. b = [r \in DOMAIN b |-> b[r]] /\ DOMAIN b \subseteq Clients \cup M
      /\ \A r \in DOMAIN b : Shaped(b[r])
  BY BookIs
<1>2. /\ d = [r \in DOMAIN d |-> d[r]] /\ DOMAIN d = DOMAIN b \cup {p} /\ d[p] = q
      /\ \A r \in DOMAIN b : r # p => d[r] = b[r]
  BY DEF Put
<1>3. p \in DOMAIN b => d = [b EXCEPT ![p] = q]
  <2>1. p \in DOMAIN b => DOMAIN b \cup {p} = DOMAIN b  OBVIOUS
  <2> QED BY <1>1, <2>1 DEF Put
<1> HIDE DEF d
<1>4. DOMAIN d \subseteq Clients \cup M /\ \A r \in DOMAIN d : Shaped(d[r])  BY <1>1, <1>2
<1>5. d \in BookSet(M)  BY <1>2, <1>4, BookIs
<1> QED BY <1>2, <1>3, <1>5 DEF Placed, d

(* The books after a step in which one client changes its own.             *)
Rebound(B, D, c, d) == D[c] = d /\ \A x \in Clients \ {c} : D[x] = B[x]

(* The page that is shown is changed. *)
LEMMA PageChanged ==
  ASSUME BoardInv, NEW c \in Clients, NEW q, Shaped(q), ChangePage(c, q)
  PROVE  /\ pages' \in [Clients -> BookSet(made)]
         /\ Rebound(pages, pages', c, Put(pages[c], current[c], q))
         /\ DOMAIN Put(pages[c], current[c], q) = DOMAIN pages[c]
         /\ \A x \in Clients : DOMAIN pages'[x] = DOMAIN pages[x]
         /\ \A p \in DOMAIN pages'[c] : p \in DOMAIN pages[c]
              /\ pages'[c][p] = IF p = current[c] THEN q ELSE pages[c][p]
<1> DEFINE b == pages[c]
           p == current[c]
           d == Put(b, p, q)
<1>1. pages \in [Clients -> BookSet(made)] /\ b \in BookSet(made) /\ p \in DOMAIN b
  BY PageIs
<1>2. p \in Clients \cup made  BY <1>1, BookIs
<1>3. /\ d \in BookSet(made) /\ DOMAIN d = DOMAIN b \cup {p} /\ d = [b EXCEPT ![p] = q]
      /\ d[p] = q /\ \A r \in DOMAIN b : r # p => d[r] = b[r]
  <2> HIDE DEF b, p
  <2>1. Placed(made, b, p, q, d)  BY <1>1, <1>2, BookPut
  <2> HIDE DEF d
  <2> QED BY <1>1, <2>1 DEF Placed
<1>4. pages' = [pages EXCEPT ![c] = [b EXCEPT ![p] = q]]  BY DEF ChangePage
<1> HIDE DEF d
<1>5. pages' = [pages EXCEPT ![c] = d]  BY <1>3, <1>4
<1>6. pages' \in [Clients -> BookSet(made)] /\ Rebound(pages, pages', c, d)
  BY <1>1, <1>3, <1>5 DEF Rebound
<1>7. DOMAIN d = DOMAIN b  BY <1>1, <1>3
<1>8. pages'[c] = d  BY <1>6 DEF Rebound
<1>9. \A x \in Clients : DOMAIN pages'[x] = DOMAIN pages[x]  BY <1>6, <1>7 DEF Rebound
<1> QED BY <1>3, <1>6, <1>7, <1>8, <1>9 DEF d

(* The lists of pages stay as they are. *)
LEMMA SameLists ==
  ASSUME Listed, UNCHANGED <<order, index, current, choosing>>,
         \A x \in Clients : DOMAIN pages'[x] = DOMAIN pages[x]
  PROVE  Listed'
BY DEF Listed, ListedFor

(* What is done to the page shown, when more may have been shown. *)
LEMMA GrownPage ==
  ASSUME BoardInv, NEW c \in Clients, NEW q, Shaped(q), ChangePage(c, q), NEW w \in [Uuids -> Nat],
         \A u \in Uuids : /\ shows[u] <= w[u]
                          /\ q.copies[u] + shows[u] <= Page(c).copies[u] + w[u]
  PROVE  Grown(pages, pages', shows, w, c)
<1>1. /\ Rebound(pages, pages', c, Put(pages[c], current[c], q))
      /\ \A p \in DOMAIN pages'[c] : p \in DOMAIN pages[c]
           /\ pages'[c][p] = IF p = current[c] THEN q ELSE pages[c][p]
  BY PageChanged
<1>2. \A x \in Clients \ {c} : pages'[x] = pages[x]  BY <1>1 DEF Rebound
<1>3. shows \in [Uuids -> Nat]  BY DEF BoardInv, Shelf
<1>4. ASSUME NEW u \in Uuids, NEW p \in DOMAIN pages'[c]
      PROVE  pages'[c][p].copies[u] + shows[u] <= pages[c][p].copies[u] + w[u]
  <2>1. CASE p = current[c]
    <3>1. pages'[c][p] = q  BY <1>1, <2>1
    <3>2. pages[c][p] = Page(c)  BY <2>1 DEF Page
    <3> QED BY <3>1, <3>2
  <2>2. CASE p # current[c]
    <3>1. pages'[c][p] = pages[c][p] /\ p \in DOMAIN pages[c]  BY <1>1, <2>2
    <3>2. pages[c][p].copies[u] \in Nat  BY <3>1, PageIs
    <3>3. shows[u] \in Nat /\ w[u] \in Nat /\ shows[u] <= w[u]  BY <1>3
    <3> QED BY <3>1, <3>2, <3>3
  <2> QED BY <2>1, <2>2
<1>5. \A u \in Uuids, p \in DOMAIN pages'[c] : \E r \in DOMAIN pages[c] :
        pages'[c][p].copies[u] + shows[u] <= pages[c][r].copies[u] + w[u]
  BY <1>1, <1>4
<1> QED BY <1>2, <1>5 DEF Grown

(* What is played on the page shown. *)
LEMMA PlaysPage ==
  ASSUME BoardInv, NEW c \in Clients, NEW q, Shaped(q), ChangePage(c, q), NEW m,
         \A u \in Uuids : q.copies[u] <= Page(c).copies[u] + Weight(m, u)
  PROVE  PlaysOn(pages, pages', c, m)
<1>1. /\ Rebound(pages, pages', c, Put(pages[c], current[c], q))
      /\ \A p \in DOMAIN pages'[c] : p \in DOMAIN pages[c]
           /\ pages'[c][p] = IF p = current[c] THEN q ELSE pages[c][p]
  BY PageChanged
<1>2. \A x \in Clients \ {c} : pages'[x] = pages[x]  BY <1>1 DEF Rebound
<1>3. ASSUME NEW u \in Uuids, NEW p \in DOMAIN pages'[c]
      PROVE  pages'[c][p].copies[u] <= pages[c][p].copies[u] + Weight(m, u)
  <2>1. CASE p = current[c]
    <3>1. pages'[c][p] = q  BY <1>1, <2>1
    <3>2. pages[c][p] = Page(c)  BY <2>1 DEF Page
    <3> QED BY <3>1, <3>2
  <2>2. CASE p # current[c]
    <3>1. pages'[c][p] = pages[c][p] /\ p \in DOMAIN pages[c]  BY <1>1, <2>2
    <3>2. pages[c][p].copies[u] \in Nat  BY <3>1, PageIs
    <3>3. Weight(m, u) \in Nat  BY DEF Weight
    <3> QED BY <3>1, <3>2, <3>3
  <2> QED BY <2>1, <2>2
<1>4. \A u \in Uuids, p \in DOMAIN pages'[c] : \E r \in DOMAIN pages[c] :
        pages'[c][p].copies[u] <= pages[c][r].copies[u] + Weight(m, u)
  BY <1>1, <1>3
<1> QED BY <1>2, <1>4 DEF PlaysOn

(* A floor step enables the page shown, or leaves it. *)
Enables(c) == UNCHANGED pages \/ EnablePage(c)

(* The pages are what they were but for a flag. *)
LEMMA PageEnabled ==
  ASSUME BoardInv, NEW c \in Clients, Enables(c)
  PROVE  /\ pages' \in [Clients -> BookSet(made)]
         /\ \A x \in Clients : DOMAIN pages'[x] = DOMAIN pages[x]
         /\ Grown(pages, pages', shows, shows, c)
         /\ \A m : PlaysOn(pages, pages', c, m)
<1>1. CASE UNCHANGED pages
  <2>1. \A p \in DOMAIN pages[c], u \in Uuids : pages[c][p].copies[u] \in Nat
    BY PageIs
  <2>2. \A u \in Uuids : shows[u] \in Nat  BY DEF BoardInv, Shelf
  <2>3. Grown(pages, pages', shows, shows, c)  BY <1>1, <2>1, <2>2 DEF Grown
  <2>4. \A m, u : Weight(m, u) \in Nat  BY DEF Weight
  <2>5. \A m : PlaysOn(pages, pages', c, m)
    <3> SUFFICES ASSUME NEW m PROVE PlaysOn(pages, pages', c, m)
      OBVIOUS
    <3>1. \A u \in Uuids, p \in DOMAIN pages[c] :
            pages[c][p].copies[u] <= pages[c][p].copies[u] + Weight(m, u)
      BY <2>1, <2>4
    <3> QED BY <1>1, <3>1 DEF PlaysOn
  <2>6. pages \in [Clients -> BookSet(made)]  BY PageIs
  <2> QED BY <1>1, <2>3, <2>5, <2>6
<1>2. CASE EnablePage(c)
  <2> DEFINE flag == ~controling'[c]
             q == [Page(c) EXCEPT !.disabled = flag]
  <2>1. flag \in BOOLEAN  OBVIOUS
  <2>2. ChangePage(c, q)  BY <1>2 DEF EnablePage
  <2>3. Shaped(Page(c)) /\ \A u \in Uuids : Page(c).copies[u] \in Nat  BY PageIs DEF Page
  <2> HIDE DEF flag
  <2>4. Shaped(q) /\ q.copies = Page(c).copies  BY <2>1, <2>3, ShapedFlag
  <2> HIDE DEF q
  <2>5. shows \in [Uuids -> Nat]  BY DEF BoardInv, Shelf
  <2>6. \A u \in Uuids : shows[u] \in Nat  BY <2>5
  <2>7. Grown(pages, pages', shows, shows, c)
    <3>1. \A u \in Uuids : /\ shows[u] <= shows[u]
                           /\ q.copies[u] + shows[u] <= Page(c).copies[u] + shows[u]
      BY <2>3, <2>4, <2>6
    <3> QED BY <2>2, <2>4, <2>5, <3>1, GrownPage
  <2>8. \A m : PlaysOn(pages, pages', c, m)
    <3> SUFFICES ASSUME NEW m PROVE PlaysOn(pages, pages', c, m)
      OBVIOUS
    <3>1. \A u : Weight(m, u) \in Nat  BY DEF Weight
    <3>2. \A u \in Uuids : q.copies[u] <= Page(c).copies[u] + Weight(m, u)
      BY <2>3, <2>4, <3>1
    <3> QED BY <2>2, <2>4, <3>2, PlaysPage
  <2>9. /\ pages' \in [Clients -> BookSet(made)]
        /\ \A x \in Clients : DOMAIN pages'[x] = DOMAIN pages[x]
    BY <2>2, <2>4, PageChanged
  <2> QED BY <2>7, <2>8, <2>9
<1> QED BY <1>1, <1>2 DEF Enables

-----------------------------------------------------------------------------
(* Every step keeps the invariant.                                         *)

(* The floor's commands are neither edits nor page switches. *)
IsPlain(m) == ~IsEdit(m) /\ ~IsSwitch(m)

(* What is not of a page carries nothing. *)
LEMMA PlainIs ==
  ASSUME NEW m, IsPlain(m)
  PROVE  /\ \A M : Fine(m, M)
         /\ \A book : CarriesFrom(book, m)
         /\ \A u : Weight(m, u) = 0
BY DEF IsPlain, Fine, CarriesFrom, Weight, IsShow

(* The commands of the floor are plain. *)
LEMMA FloorPlain ==
  /\ IsPlain(Plain(Floor!Login)) /\ IsPlain(Plain(Floor!Peer)) /\ IsPlain(Plain(Floor!Take))
  /\ \A ok : IsPlain(Plain(Floor!Reply(ok)))
  /\ \A x : IsPlain(Plain(Floor!Apply(x)))
  /\ \A x, ok : IsPlain(Plain(Floor!Agree(x, ok)))
BY DEF IsPlain, IsEdit, IsSwitch, Plain, With, Floor!Login, Floor!Peer, Floor!Take, Floor!Reply,
       Floor!Apply, Floor!Agree, Floor!Command

(* The server keeps no pages. *)
LEMMA BoardSame ==
  ASSUME BoardInv, UNCHANGED boardVars, Traffic(toServer', toClient', pages, made, shows)
  PROVE  BoardInv'
<1>1. /\ pages' = pages /\ order' = order /\ index' = index /\ current' = current
      /\ choosing' = choosing /\ made' = made /\ shows' = shows /\ usage' = usage
  BY DEF boardVars
<1>2. Listed'
  <2>1. Listed  BY DEF BoardInv
  <2> QED BY <1>1, <2>1 DEF Listed
<1>3. Numbers'  BY <1>1 DEF BoardInv, Numbers
<1>4. Shelf(pages', made', shows')  BY <1>1 DEF BoardInv
<1>5. Traffic(toServer', toClient', pages', made', shows')  BY <1>1
<1> QED BY <1>2, <1>3, <1>4, <1>5 DEF BoardInv

(* The server takes a command. *)
LEMMA FromClientIs ==
  ASSUME NEW c \in Clients, NEW floor, FromClient(c, floor)
  PROVE  /\ toServer[c] # <<>> /\ toServer' = [toServer EXCEPT ![c] = Tail(@)]
         /\ floor = TRUE => ~IsEdit(Head(toServer[c]))
BY DEF FromClient, IsEdit

(* The server's steps. *)
LEMMA ServeBoard ==
  ASSUME BoardInv, NEW c \in Clients, Serve(c)
  PROVE  BoardInv'
<1>0. Shelf(pages, made, shows) /\ Traffic(toServer, toClient, pages, made, shows)
  BY DEF BoardInv
<1>1. CASE HandleLogin(c)
  <2>1. toServer[c] # <<>> /\ toServer' = [toServer EXCEPT ![c] = Tail(@)]
    BY <1>1, FromClientIs DEF HandleLogin
  <2>2. Traffic(toServer', toClient, pages, made, shows)
    BY <1>0, <2>1, TrafficHandled
  <2> DEFINE no == Plain(Floor!Reply(FALSE))
             yes == Plain(Floor!Reply(TRUE))
             peer == Plain(Floor!Peer)
             S == classUsers \ {c}
  <2>3. IsPlain(no) /\ IsPlain(yes) /\ IsPlain(peer)  BY FloorPlain
  <2>4. toClient' = Write(toClient, {c}, no) \/ toClient' = Write(Write(toClient, {c}, yes), S, peer)
    BY <1>1, Zenon DEF HandleLogin
  <2> HIDE DEF no, yes, peer, S
  <2>5. /\ Traffic(toServer', Write(toClient, {c}, no), pages, made, shows)
        /\ Traffic(toServer', Write(toClient, {c}, yes), pages, made, shows)
    BY <1>0, <2>2, <2>3, TrafficWritten DEF IsPlain
  <2>6. Traffic(toServer', Write(Write(toClient, {c}, yes), S, peer), pages, made, shows)
    BY <1>0, <2>3, <2>5, TrafficWritten DEF IsPlain
  <2>7. Traffic(toServer', toClient', pages, made, shows)  BY <2>4, <2>5, <2>6, Zenon
  <2>8. UNCHANGED boardVars  BY <1>1 DEF HandleLogin
  <2> QED BY <2>7, <2>8, BoardSame
<1>2. CASE HandleFloor(c)
  <2>1. /\ toServer[c] # <<>> /\ toServer' = [toServer EXCEPT ![c] = Tail(@)]
        /\ ~IsEdit(Head(toServer[c]))
    BY <1>2, FromClientIs DEF HandleFloor
  <2>2. PICK S \in SUBSET classUsers : toClient' = Write(toClient, S, Head(toServer[c]))
    BY <1>2 DEF HandleFloor
  <2>3. Traffic(toServer', toClient', pages, made, shows)
    BY <1>0, <2>1, <2>2, TrafficRelayed
  <2>4. UNCHANGED boardVars  BY <1>2 DEF HandleFloor
  <2> QED BY <2>3, <2>4, BoardSame
<1>3. CASE HandleEdit(c)
  <2> DEFINE S == classUsers \ {c}
  <2>1. /\ toServer[c] # <<>> /\ toServer' = [toServer EXCEPT ![c] = Tail(@)]
        /\ toClient' = Write(toClient, S, Head(toServer[c])) /\ UNCHANGED boardVars
    BY <1>3, FromClientIs DEF HandleEdit
  <2>2. c \notin S  OBVIOUS
  <2> HIDE DEF S
  <2>3. Traffic(toServer', toClient', pages, made, shows)
    BY <1>0, <2>1, <2>2, TrafficRelayed
  <2> QED BY <2>1, <2>3, BoardSame
<1> QED BY <1>1, <1>2, <1>3 DEF Serve

(* Steps that change a page, and no list of pages. *)
LEMMA BoardPages ==
  ASSUME BoardInv, UNCHANGED <<order, index, current, choosing, made, usage>>,
         pages' \in [Clients -> BookSet(made)],
         \A x \in Clients : DOMAIN pages'[x] = DOMAIN pages[x],
         shows' \in [Uuids -> 0..MaxCopies],
         Traffic(toServer', toClient', pages', made, shows')
  PROVE  BoardInv'
<1>1. Listed'
  <2>1. Listed  BY DEF BoardInv
  <2> QED BY <2>1, SameLists
<1>2. Numbers'  BY DEF BoardInv, Numbers
<1>3. shows' \in [Uuids -> Nat]
  <2>1. \A x \in 0..MaxCopies : x \in Nat  OBVIOUS
  <2> QED BY <2>1
<1>4. Shelf(pages', made', shows') /\ Traffic(toServer', toClient', pages', made', shows')
  BY <1>3 DEF Shelf
<1> QED BY <1>1, <1>2, <1>4 DEF BoardInv

(* A client takes a command. *)
LEMMA FromServerIs ==
  ASSUME NEW c \in Clients, NEW floor, FromServer(c, floor)
  PROVE  /\ toClient[c] # <<>> /\ toClient' = [toClient EXCEPT ![c] = Tail(@)]
         /\ floor = FALSE => IsEdit(Head(toClient[c]))
BY DEF FromServer, IsEdit

(* A floor command is handled. *)
LEMMA HeardBoard ==
  ASSUME BoardInv, NEW c \in Clients, FromServer(c, TRUE), UNCHANGED toServer, Enables(c), OnlyPages
  PROVE  BoardInv'
<1>1. /\ pages' \in [Clients -> BookSet(made)]
      /\ \A x \in Clients : DOMAIN pages'[x] = DOMAIN pages[x]
      /\ \A m : PlaysOn(pages, pages', c, m)
  BY PageEnabled
<1>2. /\ Shelf(pages, made, shows) /\ Traffic(toServer, toClient, pages, made, shows)
      /\ shows \in [Uuids -> 0..MaxCopies]
  BY DEF BoardInv, Numbers
<1>3. Shelf(pages', made, shows)  BY <1>1, <1>2 DEF Shelf
<1>4. toClient[c] # <<>> /\ toClient' = [toClient EXCEPT ![c] = Tail(@)]  BY FromServerIs
<1>5. PlaysOn(pages, pages', c, Head(toClient[c]))  BY <1>1
<1>6. Traffic(toServer, toClient', pages', made, shows)
  BY <1>2, <1>3, <1>4, <1>5, TrafficPlayed
<1>7. Traffic(toServer', toClient', pages', made, shows')  BY <1>6 DEF OnlyPages
<1> QED BY <1>1, <1>2, <1>7, BoardPages DEF OnlyPages

(* A client sends a floor command. *)
LEMMA SaidBoard ==
  ASSUME BoardInv, NEW c \in Clients, NEW m, IsPlain(m), Send(c, m), UNCHANGED toClient,
         Enables(c), OnlyPages
  PROVE  BoardInv'
<1>1. /\ pages' \in [Clients -> BookSet(made)]
      /\ \A x \in Clients : DOMAIN pages'[x] = DOMAIN pages[x]
      /\ Grown(pages, pages', shows, shows, c)
  BY PageEnabled
<1>2. /\ Shelf(pages, made, shows) /\ Traffic(toServer, toClient, pages, made, shows)
      /\ shows \in [Uuids -> 0..MaxCopies]
  BY DEF BoardInv, Numbers
<1>3. Shelf(pages', made, shows)  BY <1>1, <1>2 DEF Shelf
<1>4. Fine(m, made) /\ CarriesFrom(pages[c], m) /\ \A u \in Uuids : Weight(m, u) + shows[u] <= shows[u]
  <2>1. \A u \in Uuids : shows[u] \in Nat  BY <1>2 DEF Shelf
  <2> QED BY <2>1, PlainIs
<1>5. Traffic([toServer EXCEPT ![c] = Append(@, m)], toClient, pages', made, shows)
  BY <1>1, <1>2, <1>3, <1>4, TrafficSent
<1>6. Traffic(toServer', toClient', pages', made, shows')  BY <1>5 DEF OnlyPages, Send
<1> QED BY <1>1, <1>2, <1>6, BoardPages DEF OnlyPages

(* A page that is sent, and what is sent of a page. *)
LEMMA SwitchIs ==
  ASSUME NEW M, NEW p \in Clients \cup M, NEW page, Shaped(page)
  PROVE  LET m == NetworkSwitchPage(p, page)
         IN /\ Fine(m, M) /\ IsSwitch(m)
            /\ \A u \in Uuids : Weight(m, u) = 0 /\ Carried(m, u) <= page.copies[u]
<1> DEFINE s == Shown(page)
           d == [page |-> p, content |-> s]
           m == [type |-> "Switch", user |-> NoUser, yes |-> FALSE, data |-> d]
<1>1. NetworkSwitchPage(p, page) = m
  BY DEF NetworkSwitchPage, With, Floor!Switch, Floor!Command
<1>2. /\ s \in Seq(Sent) \/ Uuids = {}
      /\ \A u \in Uuids : Occurrences(s, u, Len(s)) <= page.copies[u]
  BY ShownFits
<1>3. s \in Seq(Sent)
  <2>1. /\ page.drawn \in Seq(Object) /\ Len(page.drawn) \in Nat
        /\ DOMAIN page.drawn = 1..Len(page.drawn)
    BY ShapedDrawn
  <2>2. CASE Uuids # {}
    BY <1>2, <2>2
  <2>3. CASE Uuids = {}
    <3>1. \A i \in 1..Len(page.drawn) : FALSE
      BY <2>1, <2>3, ObjectsAre
    <3>2. DOMAIN page.drawn = {}  BY <2>1, <3>1
    <3>3. s = <<>>  BY <3>2 DEF Shown
    <3> QED BY <3>3, EmptySeq
  <2> QED BY <2>2, <2>3
<1> HIDE DEF s
<1>4. m.type = "Switch" /\ m.data = d /\ d.page = p /\ d.content = s  OBVIOUS
<1> HIDE DEF m, d
<1>5. ~IsEdit(m) /\ IsSwitch(m)  BY <1>4 DEF IsEdit, IsSwitch
<1>6. Fine(m, M)  BY <1>3, <1>4, <1>5 DEF Fine
<1>7. \A u \in Uuids : Weight(m, u) = 0 /\ Carried(m, u) <= page.copies[u]
  BY <1>2, <1>4, <1>5 DEF Weight, IsShow, Carried
<1> QED BY <1>1, <1>5, <1>6, <1>7

(* A client sends a page of its own. *)
LEMMA SwitchSent ==
  ASSUME BoardInv, NEW c \in Clients, NEW p \in DOMAIN pages[c], NEW Q, NEW R,
         Traffic(Q, R, pages, made, shows)
  PROVE  Traffic([Q EXCEPT ![c] = Append(@, NetworkSwitchPage(p, pages[c][p]))], R, pages, made,
                 shows)
<1> DEFINE page == pages[c][p]
           m == NetworkSwitchPage(p, page)
<1>1. pages[c] \in BookSet(made) /\ Shaped(page)  BY PageIs
<1>2. p \in Clients \cup made  BY <1>1, BookIs
<1>3. /\ Fine(m, made) /\ \A u \in Uuids : Weight(m, u) = 0 /\ Carried(m, u) <= page.copies[u]
  <2> HIDE DEF page
  <2> QED BY <1>1, <1>2, SwitchIs
<1> HIDE DEF m
<1>4. CarriesFrom(pages[c], m)  BY <1>3 DEF CarriesFrom
<1>5. Shelf(pages, made, shows) /\ Grown(pages, pages, shows, shows, c)
  <2>1. Shelf(pages, made, shows)  BY DEF BoardInv
  <2>2. shows \in [Uuids -> Nat]  BY <2>1 DEF Shelf
  <2>3. \A u \in Uuids : shows[u] \in Nat  BY <2>2
  <2>4. \A r \in DOMAIN pages[c], u \in Uuids : pages[c][r].copies[u] \in Nat  BY PageIs
  <2>5. \A u \in Uuids, r \in DOMAIN pages[c] :
          pages[c][r].copies[u] + shows[u] <= pages[c][r].copies[u] + shows[u]
    BY <2>3, <2>4
  <2> QED BY <2>1, <2>3, <2>5 DEF Grown
<1>6. \A u \in Uuids : Weight(m, u) + shows[u] <= shows[u]
  <2>1. shows \in [Uuids -> Nat]  BY <1>5 DEF Shelf
  <2>2. \A u \in Uuids : shows[u] \in Nat  BY <2>1
  <2> QED BY <1>3, <2>2
<1>7. Traffic([Q EXCEPT ![c] = Append(@, m)], R, pages, made, shows)
  BY <1>3, <1>4, <1>5, <1>6, TrafficSent
<1> QED BY <1>7 DEF m

(* A page that comes is the one shown: it was there, or joins the others.  *)
LEMMA PageComes ==
  ASSUME NEW list, NEW i, NEW q, NEW n, NEW book, ListedFor(list, i, q, n, book), NEW p \in PageIds
  PROVE  /\ p \in DOMAIN book => ListedFor(list, i, p, n, book)
         /\ p \notin DOMAIN book =>
              \A b : DOMAIN b = DOMAIN book \cup {p} =>
                ListedFor(Append(list, p), Len(list) + 1, p, n, b)
<1>1. p \in DOMAIN book => ListedFor(list, i, p, n, book)  BY DEF ListedFor
<1>2. ASSUME p \notin DOMAIN book, NEW b, DOMAIN b = DOMAIN book \cup {p}
      PROVE  ListedFor(Append(list, p), Len(list) + 1, p, n, b)
  <2> DEFINE s == Append(list, p)
             k == Len(list)
  <2>1. /\ list \in Seq(PageIds) /\ IsInjective(list) /\ ToSet(list) = DOMAIN book
        /\ n \in 0..k
    BY DEF ListedFor
  <2>2. /\ s \in Seq(PageIds) /\ k \in Nat /\ Len(s) = k + 1 /\ s[k + 1] = p
        /\ \A j \in 1..k : s[j] = list[j]
    BY <2>1, AppendProperties, LenProperties
  <2>3. DOMAIN s = 1..k + 1 /\ DOMAIN list = 1..k  BY <2>1, <2>2, LenProperties
  <2> HIDE DEF s, k
  <2>4. \A j \in 1..k : list[j] \in DOMAIN book  BY <2>1, <2>3 DEF ToSet
  <2>5. \A j \in 1..k + 1 : j \in 1..k \/ j = k + 1  BY <2>2
  <2>6. IsInjective(s)
    <3> SUFFICES ASSUME NEW g \in 1..k + 1, NEW h \in 1..k + 1, s[g] = s[h] PROVE g = h
      BY <2>3 DEF IsInjective
    <3>1. \A x, y \in 1..k : list[x] = list[y] => x = y  BY <2>1, <2>3 DEF IsInjective
    <3> QED BY <1>2, <2>2, <2>4, <2>5, <3>1
  <2>7. ToSet(s) = DOMAIN b
    <3>1. ToSet(s) = {s[j] : j \in 1..k + 1}  BY <2>3 DEF ToSet
    <3>2. ToSet(list) = {list[j] : j \in 1..k}  BY <2>3 DEF ToSet
    <3>3. \A j \in 1..k : j \in 1..k + 1  BY <2>2
    <3>4. k + 1 \in 1..k + 1  BY <2>2
    <3>5. {s[j] : j \in 1..k + 1} = {list[j] : j \in 1..k} \cup {p}  BY <2>2, <2>5, <3>3, <3>4
    <3> QED BY <1>2, <2>1, <3>1, <3>2, <3>5
  <2>8. p \in DOMAIN b /\ k + 1 \in 1..k + 1 /\ n \in 0..k + 1  BY <1>2, <2>1, <2>2
  <2>9. ListedFor(s, k + 1, p, n, b)  BY <2>2, <2>6, <2>7, <2>8 DEF ListedFor
  <2> QED BY <2>9 DEF s, k
<1> QED BY <1>1, <1>2

(* One client's list, page shown or dialog changes. *)
LEMMA ListsAfter ==
  ASSUME Listed, NEW c \in Clients, NEW l, NEW i, NEW p, NEW n,
         order' = [order EXCEPT ![c] = l], index' = [index EXCEPT ![c] = i],
         current' = [current EXCEPT ![c] = p], choosing' = [choosing EXCEPT ![c] = n],
         ListedFor(l, i, p, n, pages'[c]),
         \A x \in Clients \ {c} : DOMAIN pages'[x] = DOMAIN pages[x]
  PROVE  Listed'
<1>1. /\ order \in [Clients -> Seq(PageIds)] /\ index \in [Clients -> Nat]
      /\ current \in [Clients -> PageIds] /\ choosing \in [Clients -> Nat]
      /\ \A x \in Clients : ListedFor(order[x], index[x], current[x], choosing[x], pages[x])
  BY DEF Listed
<1>2. l \in Seq(PageIds) /\ Len(l) \in Nat /\ i \in Nat /\ n \in Nat /\ p \in PageIds
  <2>1. /\ l \in Seq(PageIds) /\ ToSet(l) = DOMAIN pages'[c] /\ p \in DOMAIN pages'[c]
        /\ i \in 1..Len(l) /\ n \in 0..Len(l)
    BY DEF ListedFor
  <2>2. Len(l) \in Nat /\ DOMAIN l = 1..Len(l)  BY <2>1, LenProperties
  <2>3. \A j \in 1..Len(l) : l[j] \in PageIds  BY <2>1, ElementOfSeq
  <2>4. p \in PageIds  BY <2>1, <2>2, <2>3 DEF ToSet
  <2> QED BY <2>1, <2>2, <2>4
<1>3. /\ order' \in [Clients -> Seq(PageIds)] /\ index' \in [Clients -> Nat]
      /\ current' \in [Clients -> PageIds] /\ choosing' \in [Clients -> Nat]
      /\ order'[c] = l /\ index'[c] = i /\ current'[c] = p /\ choosing'[c] = n
  BY <1>1, <1>2
<1>4. ASSUME NEW x \in Clients
      PROVE  ListedFor(order'[x], index'[x], current'[x], choosing'[x], pages'[x])
  <2>1. CASE x = c  BY <1>3, <2>1
  <2>2. CASE x # c
    <3>1. /\ order'[x] = order[x] /\ index'[x] = index[x] /\ current'[x] = current[x]
          /\ choosing'[x] = choosing[x] /\ DOMAIN pages'[x] = DOMAIN pages[x]
      BY <1>1, <2>2
    <3>2. ListedFor(order[x], index[x], current[x], choosing[x], pages[x])  BY <1>1
    <3> QED BY <3>1, <3>2 DEF ListedFor
  <2> QED BY <2>1, <2>2
<1> QED BY <1>3, <1>4 DEF Listed

(* A page switch comes. *)
LEMMA SwitchComes ==
  ASSUME BoardInv, Queued, NEW c \in Clients, PlayNetworkSwitchPage(c)
  PROVE  BoardInv'
<1> DEFINE m == Head(toClient[c])
           p == m.data.page
           s == m.data.content
           known == p \in DOMAIN pages[c]
           old == IF known THEN pages[c][p] ELSE EmptyPage(FALSE)
<1>0. /\ Shelf(pages, made, shows) /\ Traffic(toServer, toClient, pages, made, shows)
      /\ Listed /\ Numbers
  BY DEF BoardInv
<1>1. /\ toClient[c] # <<>> /\ toClient' = [toClient EXCEPT ![c] = Tail(@)]
      /\ toServer' = toServer
  BY FromServerIs DEF PlayNetworkSwitchPage
<1>2. IsSwitch(m) /\ ~IsEdit(m)
  <2>1. ~IsEdit(m)  BY DEF PlayNetworkSwitchPage, FromServer, IsEdit
  <2>2. PICK S : toClient \in [Clients -> Seq(S)]  BY DEF Queued, Holding
  <2>3. toClient[c] \in Seq(S)  BY <2>2
  <2>4. Head(FloorQueue(toClient[c])) = Bare(m)  BY <1>1, <2>1, <2>3, FloorTail
  <2>5. Head(FloorQueue(toClient[c])).type = "Switch"
    BY DEF PlayNetworkSwitchPage, Floor!PlayNetworkSwitchPage, Floor!Receives
  <2> HIDE DEF m
  <2>6. Bare(m).type = m.type  BY DEF Bare
  <2> QED BY <2>1, <2>4, <2>5, <2>6 DEF IsSwitch
<1>3. p \in Clients \cup made /\ s \in Seq(Sent)
  <2>1. Fine(m, made)  BY <1>0, <1>1, TrafficHead
  <2> HIDE DEF m
  <2> QED BY <1>2, <2>1 DEF Fine
<1>4. Shaped(old)
  <2>1. known => Shaped(pages[c][p])  BY PageIs
  <2>2. Shaped(EmptyPage(FALSE))  BY ShapedEmpty
  <2> QED BY <2>1, <2>2
<1>5. /\ \E q \in SetMsgPackData(old, s) :
           pages' = [pages EXCEPT ![c] = Put(@, p, [q EXCEPT !.disabled = TRUE])]
      /\ current' = [current EXCEPT ![c] = p]
      /\ IF known THEN UNCHANGED <<order, index>> ELSE ListPage(c, p)
      /\ UNCHANGED <<choosing, made, shows, usage>>
  BY DEF PlayNetworkSwitchPage
<1> HIDE DEF m, p, s, old
<1>6. PICK q \in SetMsgPackData(old, s) :
        pages' = [pages EXCEPT ![c] = Put(@, p, [q EXCEPT !.disabled = TRUE])]
  BY <1>5
<1> DEFINE r == [q EXCEPT !.disabled = TRUE]
           b == Put(pages[c], p, r)
<1>7. Shaped(r) /\ \A u \in Uuids : r.copies[u] = Carried(m, u)
  <2>1. Shaped(q) /\ \A u \in Uuids : q.copies[u] = Occurrences(s, u, Len(s))
    BY <1>3, <1>4, ShapedData
  <2>2. Shaped(r) /\ r.copies = q.copies
    <3> DEFINE flag == TRUE
    <3>1. flag \in BOOLEAN  OBVIOUS
    <3>2. Shaped([q EXCEPT !.disabled = flag]) /\ [q EXCEPT !.disabled = flag].copies = q.copies
      BY <2>1, <3>1, ShapedFlag
    <3> QED BY <3>2
  <2> HIDE DEF r
  <2> QED BY <2>1, <2>2 DEF Carried, s
<1>8. pages' = [pages EXCEPT ![c] = b]  BY <1>6
<1> HIDE DEF r
<1>9. Placed(made, pages[c], p, r, b)
  <2>1. pages[c] \in BookSet(made)  BY PageIs
  <2> QED BY <1>3, <1>7, <2>1, BookPut
<1> HIDE DEF b
<1>10. /\ pages' \in [Clients -> BookSet(made)] /\ pages'[c] = b
       /\ \A x \in Clients \ {c} : pages'[x] = pages[x]
  BY <1>0, <1>8, <1>9 DEF Shelf, Placed
<1>11. DOMAIN b = DOMAIN pages[c] \cup {p} /\ b[p] = r
       /\ \A x \in DOMAIN pages[c] : x # p => b[x] = pages[c][x]
  BY <1>9, Zenon DEF Placed
<1>12. PlaysOn(pages, pages', c, m)
  <2> SUFFICES ASSUME NEW u \in Uuids, NEW x \in DOMAIN b
               PROVE  \/ \E y \in DOMAIN pages[c] :
                           b[x].copies[u] <= pages[c][y].copies[u] + Weight(m, u)
                      \/ IsSwitch(m) /\ b[x].copies[u] <= Carried(m, u)
    BY <1>10 DEF PlaysOn
  <2>1. CASE x = p
    <3>1. b[x].copies[u] = Carried(m, u)  BY <1>7, <1>11, <2>1
    <3>2. r.copies[u] \in Nat
      <4>1. r.copies \in [Uuids -> Nat]  BY <1>7, ShapedDrawn
      <4> QED BY <4>1
    <3>3. Carried(m, u) \in Nat  BY <1>7, <3>2
    <3> QED BY <1>2, <3>1, <3>3
  <2>2. CASE x # p
    <3>1. x \in DOMAIN pages[c] /\ b[x] = pages[c][x]  BY <1>11, <2>2
    <3>2. pages[c][x].copies[u] \in Nat  BY <3>1, PageIs
    <3>3. Weight(m, u) \in Nat  BY DEF Weight
    <3> QED BY <3>1, <3>2, <3>3
  <2> QED BY <2>1, <2>2
<1>13. Shelf(pages', made, shows)  BY <1>0, <1>10 DEF Shelf
<1>14. Traffic(toServer', toClient', pages', made', shows')
  <2>1. Traffic(toServer, toClient', pages', made, shows)
    BY <1>0, <1>1, <1>12, <1>13, TrafficPlayed DEF m
  <2> QED BY <1>1, <1>5, <2>1
<1>15. Listed'
  <2>1. /\ order \in [Clients -> Seq(PageIds)] /\ index \in [Clients -> Nat]
        /\ choosing \in [Clients -> Nat]
        /\ ListedFor(order[c], index[c], current[c], choosing[c], pages[c])
    BY <1>0 DEF Listed
  <2>2. p \in PageIds
    <3>1. made \subseteq NewPages  BY <1>0 DEF Numbers
    <3> QED BY <1>3, <3>1 DEF PageIds
  <2>3. /\ p \in DOMAIN pages[c] => ListedFor(order[c], index[c], p, choosing[c], pages[c])
        /\ p \notin DOMAIN pages[c] =>
             ListedFor(Append(order[c], p), Len(order[c]) + 1, p, choosing[c], b)
    BY <1>11, <2>1, <2>2, PageComes
  <2>4. /\ \A x \in Clients \ {c} : DOMAIN pages'[x] = DOMAIN pages[x]
        /\ current' = [current EXCEPT ![c] = p]
        /\ choosing' = [choosing EXCEPT ![c] = choosing[c]]
    <3>1. choosing = [choosing EXCEPT ![c] = choosing[c]]  BY <2>1
    <3>2. choosing' = choosing  BY <1>5
    <3>3. choosing' = [choosing EXCEPT ![c] = choosing[c]]  BY <3>1, <3>2, Zenon
    <3> QED BY <1>5, <1>10, <3>3
  <2>5. CASE known
    <3>1. ListedFor(order[c], index[c], p, choosing[c], b)
      <4>1. ListedFor(order[c], index[c], p, choosing[c], pages[c])  BY <2>3, <2>5
      <4>2. DOMAIN b = DOMAIN pages[c]  BY <1>11, <2>5
      <4> QED BY <4>1, <4>2 DEF ListedFor
    <3>2. order = [order EXCEPT ![c] = order[c]] /\ index = [index EXCEPT ![c] = index[c]]
      BY <2>1
    <3>3. order' = order /\ index' = index  BY <1>5, <2>5
    <3>4. order' = [order EXCEPT ![c] = order[c]] /\ index' = [index EXCEPT ![c] = index[c]]
      BY <3>2, <3>3, Zenon
    <3>5. ListedFor(order[c], index[c], p, choosing[c], pages'[c])  BY <1>10, <3>1
    <3> QED BY <1>0, <2>4, <3>4, <3>5, ListsAfter, Zenon
  <2>6. CASE ~known
    <3>1. ListedFor(Append(order[c], p), Len(order[c]) + 1, p, choosing[c], pages'[c])
      BY <1>10, <2>3, <2>6
    <3>2. /\ order' = [order EXCEPT ![c] = Append(order[c], p)]
          /\ index' = [index EXCEPT ![c] = Len(order[c]) + 1]
      BY <1>5, <2>6 DEF ListPage
    <3> QED BY <1>0, <2>4, <3>1, <3>2, ListsAfter, Zenon
  <2> QED BY <2>5, <2>6
<1>16. Numbers'  BY <1>0, <1>5 DEF Numbers
<1>17. Shelf(pages', made', shows')  BY <1>5, <1>13
<1> QED BY <1>14, <1>15, <1>16, <1>17 DEF BoardInv

(* An action comes. *)
LEMMA ActionComes ==
  ASSUME BoardInv, NEW c \in Clients, PlayAction(c)
  PROVE  BoardInv'
<1> DEFINE m == Head(toClient[c])
           d == m.data
           g == Page(c)
<1>0. /\ Shelf(pages, made, shows) /\ Traffic(toServer, toClient, pages, made, shows)
      /\ shows \in [Uuids -> 0..MaxCopies]
  BY DEF BoardInv, Numbers
<1>1. /\ toClient[c] # <<>> /\ toClient' = [toClient EXCEPT ![c] = Tail(@)] /\ IsEdit(m)
      /\ UNCHANGED toServer /\ OnlyPages
  BY FromServerIs DEF PlayAction
<1>2. Fine(m, made)  BY <1>0, <1>1, TrafficHead
<1>3. PICK q \in Played(g, d) : ChangePage(c, q)  BY DEF PlayAction, Replayed
<1>4. Shaped(g) /\ \A u \in Uuids : g.copies[u] \in Nat  BY PageIs DEF Page
<1> HIDE DEF m, g
<1>5. d.id \in Uuids /\ d.look \in Looks /\ d.action \in {"Show", "Hide", "Top", "Bottom", "Look"}
  BY <1>1, <1>2 DEF Fine
<1> DEFINE v == d.id
<1> HIDE DEF d
<1>6. IF d.action = "Show" THEN OneMore(g, q, v) ELSE KeepsCopies(g, q)
  BY <1>3, <1>4, <1>5, PlayedPage
<1>7. Shaped(q) /\ \A u \in Uuids : q.copies[u] <= g.copies[u] + Weight(m, u)
  <2>1. CASE d.action = "Show"
    <3>1. Shaped(q) /\ q.copies = [g.copies EXCEPT ![v] = @ + 1]  BY <1>6, <2>1 DEF OneMore
    <3>2. g.copies \in [Uuids -> Nat]  BY <1>4, ShapedDrawn
    <3>3. \A u \in Uuids : Weight(m, u) = IF u = v THEN 1 ELSE 0
      BY <1>1, <2>1 DEF Weight, IsShow, d
    <3>4. \A u \in Uuids : q.copies[u] = g.copies[u] + IF u = v THEN 1 ELSE 0
      BY <1>4, <3>1, <3>2
    <3>5. \A u \in Uuids : q.copies[u] <= g.copies[u] + Weight(m, u)  BY <1>4, <3>3, <3>4
    <3> QED BY <3>1, <3>5
  <2>2. CASE d.action # "Show"
    <3>1. Shaped(q) /\ q.copies = g.copies  BY <1>6, <2>2 DEF KeepsCopies
    <3>2. \A u : Weight(m, u) \in Nat  BY DEF Weight
    <3> QED BY <1>4, <3>1, <3>2
  <2> QED BY <2>1, <2>2
<1>8. PlaysOn(pages, pages', c, m)  BY <1>3, <1>7, PlaysPage DEF g
<1>9. /\ pages' \in [Clients -> BookSet(made)]
      /\ \A x \in Clients : DOMAIN pages'[x] = DOMAIN pages[x]
  BY <1>3, <1>7, PageChanged
<1>10. Shelf(pages', made, shows)  BY <1>0, <1>9 DEF Shelf
<1>11. Traffic(toServer, toClient', pages', made, shows)
  BY <1>0, <1>1, <1>8, <1>10, TrafficPlayed DEF m
<1>12. Traffic(toServer', toClient', pages', made, shows')  BY <1>1, <1>11 DEF OnlyPages
<1> QED BY <1>0, <1>1, <1>9, <1>12, BoardPages DEF OnlyPages

(* A newcomer is announced, and may be shown the page. *)
LEMMA PeerComes ==
  ASSUME BoardInv, NEW c \in Clients, OnPeerLogin(c)
  PROVE  BoardInv'
<1>0. /\ Shelf(pages, made, shows) /\ Traffic(toServer, toClient, pages, made, shows)
  BY DEF BoardInv
<1>1. /\ toClient[c] # <<>> /\ toClient' = [toClient EXCEPT ![c] = Tail(@)]
      /\ UNCHANGED boardVars
  BY FromServerIs DEF OnPeerLogin
<1>2. \A m : PlaysOn(pages, pages, c, m)
  <2>1. UNCHANGED pages => Enables(c)  BY DEF Enables
  <2>2. UNCHANGED pages  BY <1>1 DEF boardVars
  <2>3. \A m : PlaysOn(pages, pages', c, m)  BY <2>1, <2>2, PageEnabled
  <2> QED BY <2>2, <2>3
<1>3. Traffic(toServer, toClient', pages, made, shows)
  <2>1. PlaysOn(pages, pages, c, Head(toClient[c]))  BY <1>2
  <2> QED BY <1>0, <1>1, <2>1, TrafficPlayed
<1>4. Traffic(toServer', toClient', pages, made, shows)
  <2>1. \/ Send(c, NetworkSwitchPage(current[c], pages[c][current[c]]))
        \/ UNCHANGED toServer
    BY DEF OnPeerLogin, Page
  <2>2. current[c] \in DOMAIN pages[c]  BY PageIs
  <2>3. Traffic([toServer EXCEPT ![c] = Append(@, NetworkSwitchPage(current[c], pages[c][current[c]]))],
                toClient', pages, made, shows)
    BY <1>3, <2>2, SwitchSent
  <2>4. CASE Send(c, NetworkSwitchPage(current[c], pages[c][current[c]]))
    BY <2>3, <2>4 DEF Send
  <2>5. CASE UNCHANGED toServer
    BY <1>3, <2>5
  <2> QED BY <2>1, <2>4, <2>5
<1> QED BY <1>1, <1>4, BoardSame

(* The clients' handlers. *)
LEMMA ReceiveBoard ==
  ASSUME BoardInv, Queued, NEW c \in Clients, Receive(c)
  PROVE  BoardInv'
<1>1. CASE OnBoardLogin(c)
  BY <1>1, HeardBoard DEF OnBoardLogin, Enables
<1>2. CASE OnPeerLogin(c)
  BY <1>2, PeerComes
<1>3. CASE OnStudentApplyBoard(c)
  BY <1>3, HeardBoard DEF OnStudentApplyBoard, Enables, OnlyPages, boardVars
<1>4. CASE OnTeacherAgreeBoard(c)
  BY <1>4, HeardBoard DEF OnTeacherAgreeBoard, Enables
<1>5. CASE OnTeacherTakeBoard(c)
  BY <1>5, HeardBoard DEF OnTeacherTakeBoard, Enables
<1>6. CASE PlayNetworkSwitchPage(c)
  BY <1>6, SwitchComes
<1>7. CASE PlayAction(c)
  BY <1>7, ActionComes
<1> QED BY <1>1, <1>2, <1>3, <1>4, <1>5, <1>6, <1>7 DEF Receive

(* Joining, asking, taking and giving. *)
LEMMA AskBoard ==
  ASSUME BoardInv, NEW c \in Clients, AskForBoard(c)
  PROVE  BoardInv'
<1>1. CASE Connect(c)
  BY <1>1, SaidBoard, FloorPlain DEF Connect, Enables, OnlyPages, boardVars
<1>2. CASE OnApplyBoard(c)
  BY <1>2, SaidBoard, FloorPlain DEF OnApplyBoard, Enables, OnlyPages, boardVars
<1>3. CASE OnTakeBoard(c)
  BY <1>3, SaidBoard, FloorPlain DEF OnTakeBoard, Enables
<1>4. ASSUME NEW yes \in BOOLEAN, AnswerApply(c, yes) PROVE BoardInv'
  BY <1>4, SaidBoard, FloorPlain DEF AnswerApply, Enables
<1> QED BY <1>1, <1>2, <1>3, <1>4 DEF AskForBoard

(* A user acts on the page shown, and an element may have been shown more. *)
LEMMA ActsBoard ==
  ASSUME BoardInv, NEW c \in Clients, NEW input, NEW action, NEW u \in Uuids, NEW look \in Looks,
         NEW q, Acts(c, input, action, u, look, q),
         action \in {"Show", "Hide", "Top", "Bottom", "Look"}, Shaped(q),
         shows' \in [Uuids -> 0..MaxCopies],
         \A v \in Uuids : /\ Weight(Edit(action, u, look), v) + shows[v] <= shows'[v]
                          /\ q.copies[v] + shows[v] <= Page(c).copies[v] + shows'[v]
  PROVE  BoardInv'
<1> DEFINE m == Edit(action, u, look)
           w == shows'
<1>0. /\ Shelf(pages, made, shows) /\ Traffic(toServer, toClient, pages, made, shows)
      /\ shows \in [Uuids -> Nat]
  BY DEF BoardInv, Shelf
<1>1. /\ ChangePage(c, q) /\ toClient' = toClient
      /\ UNCHANGED <<order, index, current, choosing, made, usage>>
      /\ Send(c, m) \/ UNCHANGED toServer
  BY DEF Acts, AddActionTriggered
<1>2. Fine(m, made) /\ CarriesFrom(pages[c], m)
  <2> DEFINE d == [action |-> action, id |-> u, look |-> look]
             e == [type |-> "Edit", user |-> NoUser, yes |-> FALSE, data |-> d]
  <2>1. m = e  BY DEF Edit, With, Floor!Command
  <2>2. e.type = "Edit" /\ e.data = d /\ d.action = action /\ d.id = u /\ d.look = look  OBVIOUS
  <2> HIDE DEF e, d
  <2>3. Fine(e, made) /\ CarriesFrom(pages[c], e)  BY <2>2 DEF Fine, CarriesFrom, IsEdit, IsSwitch
  <2> QED BY <2>1, <2>3
<1> HIDE DEF m
<1>3. w \in [Uuids -> Nat]
  <2>1. \A x \in 0..MaxCopies : x \in Nat  OBVIOUS
  <2> QED BY <2>1
<1>4. \A v \in Uuids : Weight(m, v) + shows[v] <= w[v]  BY DEF m
<1>5. \A v \in Uuids : shows[v] <= w[v]
  <2> SUFFICES ASSUME NEW v \in Uuids PROVE shows[v] <= w[v]
    OBVIOUS
  <2>1. Weight(m, v) \in Nat /\ shows[v] \in Nat /\ w[v] \in Nat  BY <1>0, <1>3 DEF Weight
  <2>2. Weight(m, v) + shows[v] <= w[v]  BY <1>4
  <2> HIDE DEF w
  <2> QED BY <2>1, <2>2
<1>6. Grown(pages, pages', shows, w, c)
  <2>1. \A v \in Uuids : /\ shows[v] <= w[v]
                         /\ q.copies[v] + shows[v] <= Page(c).copies[v] + w[v]
    BY <1>5
  <2> QED BY <1>1, <1>3, <2>1, GrownPage
<1>7. /\ pages' \in [Clients -> BookSet(made)]
      /\ \A x \in Clients : DOMAIN pages'[x] = DOMAIN pages[x]
  BY <1>1, PageChanged
<1>8. Shelf(pages', made, w)  BY <1>3, <1>7 DEF Shelf
<1>9. Traffic(toServer', toClient', pages', made, shows')
  <2>1. CASE Send(c, m)
    <3>1. Traffic([toServer EXCEPT ![c] = Append(@, m)], toClient, pages', made, w)
      BY <1>0, <1>2, <1>4, <1>6, <1>8, TrafficSent
    <3> QED BY <1>1, <2>1, <3>1 DEF Send
  <2>2. CASE UNCHANGED toServer
    <3>1. Traffic(toServer, toClient, pages', made, w)
      BY <1>0, <1>6, <1>8, TrafficUnsent
    <3> QED BY <1>1, <2>2, <3>1
  <2> QED BY <1>1, <2>1, <2>2
<1> QED BY <1>1, <1>7, <1>9, BoardPages

(* What the command of an action shows. *)
LEMMA EditWeight ==
  ASSUME NEW action, NEW u, NEW look
  PROVE  \A v : Weight(Edit(action, u, look), v) = IF action = "Show" /\ v = u THEN 1 ELSE 0
<1> DEFINE d == [action |-> action, id |-> u, look |-> look]
           e == [type |-> "Edit", user |-> NoUser, yes |-> FALSE, data |-> d]
<1>1. Edit(action, u, look) = e  BY DEF Edit, With, Floor!Command
<1>2. e.type = "Edit" /\ e.data = d /\ d.action = action /\ d.id = u  OBVIOUS
<1> HIDE DEF e, d
<1>3. \A v : Weight(e, v) = IF action = "Show" /\ v = u THEN 1 ELSE 0
  BY <1>2 DEF Weight, IsShow, IsEdit
<1> QED BY <1>1, <1>3

(* An element is shown by a user, drawn or redone. *)
LEMMA ShownBoard ==
  ASSUME BoardInv, NEW c \in Clients, NEW input, NEW u \in Uuids, NEW look \in Looks, NEW q,
         Acts(c, input, "Show", u, look, q), OneMore(Page(c), q, u) \/ KeepsCopies(Page(c), q),
         shows[u] < MaxCopies, shows' = [shows EXCEPT ![u] = @ + 1]
  PROVE  BoardInv'
<1>1. Shaped(Page(c)) /\ Page(c).copies \in [Uuids -> Nat]
  <2>1. Shaped(Page(c))  BY PageIs
  <2> QED BY <2>1, ShapedDrawn
<1>2. shows \in [Uuids -> 0..MaxCopies] /\ MaxCopies \in Nat
  BY BoardAssumption DEF BoardInv, Numbers
<1>3. shows' \in [Uuids -> 0..MaxCopies] /\ \A v \in Uuids :
        shows[v] \in Nat /\ shows'[v] = IF v = u THEN shows[v] + 1 ELSE shows[v]
  BY <1>2
<1>4. Shaped(q) /\ \A v \in Uuids : q.copies[v] \in Nat /\ Page(c).copies[v] \in Nat
                      /\ q.copies[v] <= IF v = u THEN Page(c).copies[v] + 1 ELSE Page(c).copies[v]
  <2>1. CASE OneMore(Page(c), q, u)
    <3>1. Shaped(q) /\ q.copies = [Page(c).copies EXCEPT ![u] = @ + 1]  BY <2>1 DEF OneMore
    <3> QED BY <1>1, <3>1
  <2>2. CASE KeepsCopies(Page(c), q)
    <3>1. Shaped(q) /\ q.copies = Page(c).copies  BY <2>2 DEF KeepsCopies
    <3> QED BY <1>1, <3>1
  <2> QED BY <2>1, <2>2
<1>5. \A v \in Uuids : /\ Weight(Edit("Show", u, look), v) + shows[v] <= shows'[v]
                       /\ q.copies[v] + shows[v] <= Page(c).copies[v] + shows'[v]
  <2> SUFFICES ASSUME NEW v \in Uuids
               PROVE  /\ Weight(Edit("Show", u, look), v) + shows[v] <= shows'[v]
                      /\ q.copies[v] + shows[v] <= Page(c).copies[v] + shows'[v]
    OBVIOUS
  <2>1. Weight(Edit("Show", u, look), v) = IF v = u THEN 1 ELSE 0  BY EditWeight
  <2> QED BY <1>3, <1>4, <2>1
<1> QED BY <1>3, <1>4, <1>5, ActsBoard

(* Anything else that is done to the page. *)
LEMMA ChangedBoard ==
  ASSUME BoardInv, NEW c \in Clients, NEW input, NEW action, NEW u \in Uuids, NEW look \in Looks,
         NEW q, Acts(c, input, action, u, look, q), action \in {"Hide", "Top", "Bottom", "Look"},
         KeepsCopies(Page(c), q), UNCHANGED shows
  PROVE  BoardInv'
<1>1. \A v \in Uuids : Page(c).copies[v] \in Nat
  BY PageIs DEF Page
<1>2. shows \in [Uuids -> 0..MaxCopies] /\ MaxCopies \in Nat
  BY BoardAssumption DEF BoardInv, Numbers
<1>3. Shaped(q) /\ q.copies = Page(c).copies  BY DEF KeepsCopies
<1>4. \A v \in Uuids : /\ Weight(Edit(action, u, look), v) + shows[v] <= shows'[v]
                       /\ q.copies[v] + shows[v] <= Page(c).copies[v] + shows'[v]
  <2> SUFFICES ASSUME NEW v \in Uuids
               PROVE  /\ Weight(Edit(action, u, look), v) + shows[v] <= shows'[v]
                      /\ q.copies[v] + shows[v] <= Page(c).copies[v] + shows'[v]
    OBVIOUS
  <2>1. Weight(Edit(action, u, look), v) = 0  BY EditWeight
  <2>2. shows[v] \in Nat /\ shows'[v] = shows[v]  BY <1>2
  <2> QED BY <1>1, <1>3, <2>1, <2>2
<1> QED BY <1>2, <1>3, <1>4, ActsBoard

(* Drawing, undo and redo, and the buttons beside an element. *)
LEMMA EditBoard ==
  ASSUME BoardInv, NEW c \in Clients, EditPage(c)
  PROVE  BoardInv'
<1> DEFINE g == Page(c)
<1>1. AnyLook \in Looks  BY BoardAssumption DEF AnyLook
<1>2. /\ Shaped(g) /\ DOMAIN g.drawn = 1..Len(g.drawn) /\ g.drawn \in Seq(Object)
      /\ Len(g.drawn) \in Nat
  <2>1. Shaped(g)  BY PageIs
  <2> QED BY <2>1, ShapedDrawn
<1>3. shows \in [Uuids -> 0..MaxCopies] /\ MaxCopies \in Nat /\ 0 < MaxCopies
  BY BoardAssumption DEF BoardInv, Numbers
<1>4. CASE Draw(c)
  <2>1. PICK u \in Uuids : /\ shows[u] = 0 /\ shows' = [shows EXCEPT ![u] = 1]
                           /\ \E q \in AddElement(g, u, AnyLook) :
                                Acts(c, "draw", "Show", u, AnyLook, q)
    BY <1>4 DEF Draw
  <2>2. PICK q \in AddElement(g, u, AnyLook) : Acts(c, "draw", "Show", u, AnyLook, q)
    BY <2>1
  <2>3. shows[u] < MaxCopies /\ shows' = [shows EXCEPT ![u] = @ + 1]  BY <1>3, <2>1
  <2> HIDE DEF g
  <2>4. OneMore(g, q, u)  BY <1>1, <1>2, <2>2, AddElementIs
  <2> QED BY <1>1, <2>2, <2>3, <2>4, ShownBoard DEF g
<1>5. CASE Undo(c)
  <2> DEFINE u == Last(g.drawn).id
             q == OnUndo(g)
  <2>1. g.drawn # <<>> /\ Acts(c, "undo", "Hide", u, AnyLook, q) /\ UNCHANGED shows
    BY <1>5 DEF Undo
  <2> HIDE DEF g
  <2>2. KeepsCopies(g, q) /\ u \in Uuids  BY <1>2, <2>1, OnUndoIs
  <2> HIDE DEF u, q
  <2> QED BY <1>1, <2>1, <2>2, ChangedBoard DEF g
<1>6. CASE Redo(c)
  <2> DEFINE e == Last(g.undos)
             u == e.id
             l == e.look
             q == OnRedo(g)
  <2>1. /\ g.undos # <<>> /\ shows[u] < MaxCopies /\ Acts(c, "redo", "Show", u, l, q)
        /\ shows' = [shows EXCEPT ![u] = @ + 1]
    BY <1>6 DEF Redo
  <2> HIDE DEF g
  <2>2. KeepsCopies(g, q) /\ u \in Uuids /\ l \in Looks  BY <1>2, <2>1, OnRedoIs
  <2> HIDE DEF u, l, q
  <2> QED BY <2>1, <2>2, ShownBoard DEF g
<1>7. CASE OnSelected(c)
  <2>1. PICK i \in DOMAIN g.drawn :
          /\ \/ Acts(c, "delete", "Hide", g.drawn[i].id, AnyLook, RemoveDrawn(g, i))
             \/ Acts(c, "top", "Top", g.drawn[i].id, AnyLook, TopMost(g, i))
             \/ Acts(c, "bottom", "Bottom", g.drawn[i].id, AnyLook, BottomMost(g, i))
             \/ \E look \in Looks :
                  Acts(c, "change", "Look", g.drawn[i].id, look, SetLook(g, i, look))
          /\ UNCHANGED shows
    BY <1>7 DEF OnSelected
  <2> DEFINE u == g.drawn[i].id
  <2> HIDE DEF g
  <2>2. i \in 1..Len(g.drawn)  BY <1>2, <2>1
  <2>3. u \in Uuids
    <3>1. g.drawn[i] \in Object  BY <1>2, <2>2, ObjectsAre
    <3> QED BY <3>1 DEF Object
  <2>4. /\ KeepsCopies(g, RemoveDrawn(g, i)) /\ KeepsCopies(g, TopMost(g, i))
        /\ KeepsCopies(g, BottomMost(g, i))
        /\ \A look \in Looks : KeepsCopies(g, SetLook(g, i, look))
    BY <1>2, <2>2, RemoveDrawnIs, TopMostIs, BottomMostIs, SetLookIs
  <2> HIDE DEF u
  <2>5. \/ Acts(c, "delete", "Hide", u, AnyLook, RemoveDrawn(g, i))
        \/ Acts(c, "top", "Top", u, AnyLook, TopMost(g, i))
        \/ Acts(c, "bottom", "Bottom", u, AnyLook, BottomMost(g, i))
        \/ \E look \in Looks : Acts(c, "change", "Look", u, look, SetLook(g, i, look))
    BY <2>1 DEF u
  <2> QED BY <1>1, <2>1, <2>3, <2>4, <2>5, ChangedBoard DEF g
<1> QED BY <1>4, <1>5, <1>6, <1>7 DEF EditPage

(* A page of the list is selected. *)
LEMMA SelectBoard ==
  ASSUME BoardInv, NEW c \in Clients, NEW i \in 1..Len(order[c]), OnSelectPage(c, i),
         NEW n \in 0..Len(order[c]), choosing' = [choosing EXCEPT ![c] = n]
  PROVE  BoardInv'
<1> DEFINE l == order[c]
           p == l[i]
<1>0. /\ Shelf(pages, made, shows) /\ Traffic(toServer, toClient, pages, made, shows)
      /\ Listed /\ Numbers
  BY DEF BoardInv
<1>1. ListedFor(l, index[c], current[c], choosing[c], pages[c]) /\ order \in [Clients -> Seq(PageIds)]
  BY <1>0 DEF Listed
<1>2. p \in DOMAIN pages[c]
  <2>1. l \in Seq(PageIds) /\ ToSet(l) = DOMAIN pages[c]  BY <1>1 DEF ListedFor
  <2>2. i \in DOMAIN l  BY <2>1, LenProperties
  <2> QED BY <2>1, <2>2 DEF ToSet
<1>3. /\ index' = [index EXCEPT ![c] = i] /\ current' = [current EXCEPT ![c] = p]
      /\ \/ Send(c, NetworkSwitchPage(p, pages[c][p]))
         \/ UNCHANGED toServer
      /\ UNCHANGED <<toClient, pages, order, made, shows, usage>>
  BY DEF OnSelectPage, AddActionTriggered
<1>4. order' = [order EXCEPT ![c] = l]
  <2>1. order = [order EXCEPT ![c] = l]  BY <1>1
  <2>2. order' = order  BY <1>3
  <2> QED BY <2>1, <2>2, Zenon
<1> HIDE DEF l, p
<1>5. ListedFor(l, i, p, n, pages'[c])
  <2>1. ListedFor(l, i, p, n, pages[c])
    BY <1>1, <1>2 DEF ListedFor, l
  <2> QED BY <1>3, <2>1
<1>6. Listed'
  <2>1. \A x \in Clients \ {c} : DOMAIN pages'[x] = DOMAIN pages[x]  BY <1>3
  <2> QED BY <1>0, <1>3, <1>4, <1>5, <2>1, ListsAfter, Zenon
<1>7. Traffic(toServer', toClient, pages, made, shows)
  <2>1. Traffic([toServer EXCEPT ![c] = Append(@, NetworkSwitchPage(p, pages[c][p]))], toClient,
                pages, made, shows)
    BY <1>0, <1>2, SwitchSent
  <2>2. CASE Send(c, NetworkSwitchPage(p, pages[c][p]))
    BY <2>1, <2>2 DEF Send
  <2>3. CASE UNCHANGED toServer
    BY <1>0, <2>3
  <2> QED BY <1>3, <2>2, <2>3
<1>8. Traffic(toServer', toClient', pages', made', shows') /\ Shelf(pages', made', shows')
  BY <1>0, <1>3, <1>7
<1>9. Numbers'  BY <1>0, <1>3 DEF Numbers
<1> QED BY <1>6, <1>8, <1>9 DEF BoardInv

(* The dialog is opened or closed. *)
LEMMA DialogBoard ==
  ASSUME BoardInv, NEW c \in Clients, NEW n \in 0..Len(order[c]),
         choosing' = [choosing EXCEPT ![c] = n],
         UNCHANGED <<toServer, toClient, pages, order, index, current, made, shows, usage>>
  PROVE  BoardInv'
<1>0. /\ Shelf(pages, made, shows) /\ Traffic(toServer, toClient, pages, made, shows)
      /\ Listed /\ Numbers
  BY DEF BoardInv
<1>1. Listed'
  <2>1. /\ choosing \in [Clients -> Nat] /\ order \in [Clients -> Seq(PageIds)]
        /\ \A x \in Clients : ListedFor(order[x], index[x], current[x], choosing[x], pages[x])
    BY <1>0 DEF Listed
  <2>2. Len(order[c]) \in Nat /\ n \in Nat
    <3>1. Len(order[c]) \in Nat  BY <2>1, LenProperties
    <3> QED BY <3>1
  <2>3. choosing' \in [Clients -> Nat]  BY <2>1, <2>2
  <2>4. ASSUME NEW x \in Clients
        PROVE  ListedFor(order'[x], index'[x], current'[x], choosing'[x], pages'[x])
    <3>1. ListedFor(order[x], index[x], current[x], choosing[x], pages[x])  BY <2>1
    <3>2. choosing'[x] = IF x = c THEN n ELSE choosing[x]  BY <2>1
    <3> QED BY <3>1, <3>2 DEF ListedFor
  <2> QED BY <1>0, <2>3, <2>4 DEF Listed
<1>2. Traffic(toServer', toClient', pages', made', shows') /\ Shelf(pages', made', shows')
  BY <1>0
<1>3. Numbers'  BY <1>0 DEF Numbers
<1> QED BY <1>1, <1>2, <1>3 DEF BoardInv

(* A page is made. *)
LEMMA NewPageBoard ==
  ASSUME BoardInv, NEW c \in Clients, OnNewPage(c)
  PROVE  BoardInv'
<1> DEFINE e == EmptyPage(FALSE)
<1>0. /\ Shelf(pages, made, shows) /\ Traffic(toServer, toClient, pages, made, shows)
      /\ Listed /\ Numbers
  BY DEF BoardInv
<1>1. PICK p \in NewPages \ made :
        /\ pages' = [pages EXCEPT ![c] = Put(@, p, e)]
        /\ ListPage(c, p) /\ current' = [current EXCEPT ![c] = p] /\ made' = made \cup {p}
        /\ Send(c, NetworkSwitchPage(p, e)) \/ UNCHANGED toServer
  BY DEF OnNewPage, AddActionTriggered
<1>2. UNCHANGED <<toClient, choosing, shows, usage>>  BY DEF OnNewPage
<1> DEFINE N == made \cup {p}
           b == Put(pages[c], p, e)
           m == NetworkSwitchPage(p, e)
<1>3. Shaped(e) /\ \A u \in Uuids : e.copies[u] = 0
  <2>1. Shaped(e)  BY ShapedEmpty
  <2>2. e.copies = [u \in Uuids |-> 0]  BY DEF EmptyPage
  <2> QED BY <2>1, <2>2
<1>4. Shelf(pages, N, shows)
  <2>1. made \subseteq N /\ Clients \cup made \subseteq Clients \cup N  OBVIOUS
  <2>2. \A x \in Clients : pages[x] \in BookSet(N)
    <3> SUFFICES ASSUME NEW x \in Clients PROVE pages[x] \in BookSet(N)
      OBVIOUS
    <3>1. pages[x] \in BookSet(made)  BY PageIs
    <3>2. /\ pages[x] = [r \in DOMAIN pages[x] |-> pages[x][r]]
          /\ DOMAIN pages[x] \subseteq Clients \cup made
          /\ \A r \in DOMAIN pages[x] : Shaped(pages[x][r])
      BY <3>1, BookIs
    <3>3. DOMAIN pages[x] \subseteq Clients \cup N  BY <2>1, <3>2
    <3> HIDE DEF N
    <3> QED BY <3>2, <3>3, BookIs
  <2> HIDE DEF N
  <2> QED BY <1>0, <2>2 DEF Shelf
<1>5. p \notin DOMAIN pages[c] /\ p \in Clients \cup N /\ p \in PageIds
  <2>1. pages[c] \in BookSet(made)  BY PageIs
  <2>2. DOMAIN pages[c] \subseteq Clients \cup made  BY <2>1, BookIs
  <2>3. p \notin Clients  BY BoardAssumption
  <2> QED BY <2>2, <2>3 DEF PageIds
<1>6. N \subseteq NewPages /\ made \subseteq N  BY <1>0 DEF Numbers
<1> HIDE DEF e
<1>7. Placed(N, pages[c], p, e, b)
  <2>1. pages[c] \in BookSet(N)  BY <1>4 DEF Shelf
  <2> HIDE DEF N
  <2> QED BY <1>3, <1>5, <2>1, BookPut
<1>8. Fine(m, N) /\ \A u \in Uuids : Weight(m, u) = 0 /\ Carried(m, u) <= e.copies[u]
  <2> HIDE DEF N
  <2> QED BY <1>3, <1>5, SwitchIs
<1> HIDE DEF b, m, N
<1>9. b \in BookSet(N) /\ DOMAIN b = DOMAIN pages[c] \cup {p} /\ b[p] = e
      /\ \A r \in DOMAIN pages[c] : r # p => b[r] = pages[c][r]
  BY <1>7, Zenon DEF Placed
<1>10. /\ pages' = [pages EXCEPT ![c] = b] /\ made' = N
       /\ Send(c, m) \/ UNCHANGED toServer
  BY <1>1 DEF b, m, N
<1>11. pages' \in [Clients -> BookSet(N)] /\ pages'[c] = b /\ \A x \in Clients \ {c} : pages'[x] = pages[x]
  BY <1>4, <1>9, <1>10 DEF Shelf
<1>12. Shelf(pages', N, shows)  BY <1>0, <1>11 DEF Shelf
<1>13. \A u \in Uuids : shows[u] \in Nat  BY <1>0 DEF Shelf
<1>14. current[c] \in DOMAIN pages[c] /\ \A r \in DOMAIN pages[c], u \in Uuids : pages[c][r].copies[u] \in Nat
  BY PageIs
<1>15. Grown(pages, pages', shows, shows, c)
  <2>1. ASSUME NEW u \in Uuids, NEW r \in DOMAIN b
        PROVE  \E y \in DOMAIN pages[c] : b[r].copies[u] + shows[u] <= pages[c][y].copies[u] + shows[u]
    <3>1. CASE r = p
      <4>1. b[r].copies[u] = 0  BY <1>3, <1>9, <3>1
      <4>2. pages[c][current[c]].copies[u] \in Nat  BY <1>14
      <4>3. b[r].copies[u] + shows[u] <= pages[c][current[c]].copies[u] + shows[u]
        BY <1>13, <4>1, <4>2
      <4> QED BY <1>14, <4>3
    <3>2. CASE r # p
      <4>1. r \in DOMAIN pages[c] /\ b[r] = pages[c][r]  BY <1>9, <3>2
      <4>2. pages[c][r].copies[u] \in Nat  BY <1>14, <4>1
      <4>3. b[r].copies[u] + shows[u] <= pages[c][r].copies[u] + shows[u]
        BY <1>13, <4>1, <4>2
      <4> QED BY <4>1, <4>3
    <3> QED BY <3>1, <3>2
  <2> QED BY <1>11, <1>13, <2>1 DEF Grown
<1>16. CarriesFrom(pages[c], m)
  <2> SUFFICES ASSUME IsSwitch(m), NEW u \in Uuids
               PROVE  \E r \in DOMAIN pages[c] : Carried(m, u) <= pages[c][r].copies[u]
    BY DEF CarriesFrom
  <2>1. Carried(m, u) <= 0  BY <1>3, <1>8
  <2>2. Carried(m, u) \in Nat
    <3>1. Contents({m})  BY <1>8 DEF Contents, Fine
    <3> QED BY <3>1, CarriedIs
  <2>3. pages[c][current[c]].copies[u] \in Nat  BY <1>14
  <2>4. Carried(m, u) <= pages[c][current[c]].copies[u]  BY <2>1, <2>2, <2>3
  <2> QED BY <1>14, <2>4
<1>17. \A u \in Uuids : Weight(m, u) + shows[u] <= shows[u]  BY <1>8, <1>13
<1>18. Traffic(toServer', toClient, pages', N, shows)
  <2>1. CASE Send(c, m)
    <3>1. Traffic([toServer EXCEPT ![c] = Append(@, m)], toClient, pages', N, shows)
      BY <1>0, <1>6, <1>8, <1>12, <1>15, <1>16, <1>17, TrafficSent
    <3> QED BY <2>1, <3>1 DEF Send
  <2>2. CASE UNCHANGED toServer
    <3>1. Traffic(toServer, toClient, pages', N, shows)
      BY <1>0, <1>6, <1>12, <1>15, TrafficUnsent
    <3> QED BY <2>2, <3>1
  <2> QED BY <1>10, <2>1, <2>2
<1>19. Listed'
  <2>1. /\ choosing \in [Clients -> Nat]
        /\ ListedFor(order[c], index[c], current[c], choosing[c], pages[c])
    BY <1>0 DEF Listed
  <2>2. ListedFor(Append(order[c], p), Len(order[c]) + 1, p, choosing[c], pages'[c])
    BY <1>5, <1>9, <1>11, <2>1, PageComes
  <2>3. /\ order' = [order EXCEPT ![c] = Append(order[c], p)]
        /\ index' = [index EXCEPT ![c] = Len(order[c]) + 1]
        /\ current' = [current EXCEPT ![c] = p]
    BY <1>1 DEF ListPage
  <2>4. choosing' = [choosing EXCEPT ![c] = choosing[c]]
    <3>1. choosing = [choosing EXCEPT ![c] = choosing[c]]  BY <2>1
    <3>2. choosing' = choosing  BY <1>2
    <3> QED BY <3>1, <3>2, Zenon
  <2>5. \A x \in Clients \ {c} : DOMAIN pages'[x] = DOMAIN pages[x]  BY <1>11
  <2> QED BY <1>0, <2>2, <2>3, <2>4, <2>5, ListsAfter, Zenon
<1>20. Numbers'  BY <1>0, <1>2, <1>6, <1>10 DEF Numbers
<1>21. Traffic(toServer', toClient', pages', made', shows') /\ Shelf(pages', made', shows')
  BY <1>2, <1>10, <1>12, <1>18
<1> QED BY <1>19, <1>20, <1>21 DEF BoardInv

(* Pages made and selected. *)
LEMMA TurnBoard ==
  ASSUME BoardInv, NEW c \in Clients, TurnPages(c)
  PROVE  BoardInv'
<1> DEFINE l == order[c]
<1>0. /\ choosing \in [Clients -> Nat] /\ choosing[c] \in 0..Len(l) /\ Len(l) \in Nat
      /\ index[c] \in 1..Len(l)
  <2>1. /\ choosing \in [Clients -> Nat] /\ order \in [Clients -> Seq(PageIds)]
        /\ ListedFor(l, index[c], current[c], choosing[c], pages[c])
    BY DEF BoardInv, Listed
  <2>2. Len(l) \in Nat  BY <2>1, LenProperties
  <2> QED BY <2>1, <2>2 DEF ListedFor
<1>1. CASE OnNewPage(c)
  BY <1>1, NewPageBoard
<1>2. CASE OnSwitchPage(c)
  <2>1. Len(l) \in 0..Len(l)  BY <1>0
  <2>2. /\ choosing' = [choosing EXCEPT ![c] = Len(l)]
        /\ UNCHANGED <<toServer, toClient, pages, order, index, current, made, shows, usage>>
    BY <1>2 DEF OnSwitchPage
  <2> QED BY <2>1, <2>2, DialogBoard
<1>3. CASE OnItemDoubleClick(c)
  <2>1. PICK i \in 1..choosing[c] : OnSelectPage(c, i)
    BY <1>3 DEF OnItemDoubleClick
  <2>2. i \in 1..Len(l) /\ 0 \in 0..Len(l)  BY <1>0
  <2>3. choosing' = [choosing EXCEPT ![c] = 0]  BY <1>3 DEF OnItemDoubleClick
  <2> QED BY <2>1, <2>2, <2>3, SelectBoard
<1>4. CASE CloseDialog(c)
  <2>1. 0 \in 0..Len(l)  BY <1>0
  <2> QED BY <1>4, <2>1, DialogBoard DEF CloseDialog
<1>5. choosing = [choosing EXCEPT ![c] = choosing[c]]  BY <1>0
<1>6. CASE OnPreviousPage(c)
  <2>1. OnSelectPage(c, index[c] - 1) /\ index[c] - 1 \in 1..Len(l) /\ choosing' = choosing
    BY <1>0, <1>6 DEF OnPreviousPage
  <2>2. choosing' = [choosing EXCEPT ![c] = choosing[c]]  BY <1>5, <2>1, Zenon
  <2> QED BY <1>0, <2>1, <2>2, SelectBoard
<1>7. CASE OnNextPage(c)
  <2>1. OnSelectPage(c, index[c] + 1) /\ index[c] + 1 \in 1..Len(l) /\ choosing' = choosing
    BY <1>0, <1>7 DEF OnNextPage
  <2>2. choosing' = [choosing EXCEPT ![c] = choosing[c]]  BY <1>5, <2>1, Zenon
  <2> QED BY <1>0, <2>1, <2>2, SelectBoard
<1> QED BY <1>1, <1>2, <1>3, <1>4, <1>6, <1>7 DEF TurnPages

(* With nothing on its way and nothing drawn, nothing was shown. *)
LEMMA NothingShown ==
  ASSUME NEW Q, \A c \in Clients : Q[c] = <<>>, NEW B, NEW w, w \in [Uuids -> Nat],
         \A c \in Clients, u \in Uuids : \A p \in DOMAIN B[c] : B[c][p].copies[u] = 0
  PROVE  Counted(Q, Q, B, w)
<1>1. \A T, u : T \subseteq Clients => ShowsOf(Q, T, u) = {}
  <2> SUFFICES ASSUME NEW T \in SUBSET Clients, NEW u, NEW x \in ShowsOf(Q, T, u) PROVE FALSE
    OBVIOUS
  <2>1. x[1] \in T /\ x[2] \in ShowsAfter(Q[x[1]], 0, u)  BY DEF ShowsOf
  <2>2. Q[x[1]] = <<>>  BY <2>1
  <2>3. x[2] \in 1..Len(<<>>)  BY <2>1, <2>2 DEF ShowsAfter
  <2> QED BY <2>3, EmptySeq
<1>2. FewShows(Q) /\ \A c \in Clients, u \in Uuids : By(Q, Others(c), u) = 0
  BY <1>1, FS_EmptySet DEF FewShows, By, Others
<1>3. ASSUME NEW c \in Clients, NEW u \in Uuids PROVE CountedFor(Q, Q, B, w, c, u)
  <2>1. Q[c] = <<>> /\ Len(Q[c]) = 0  BY EmptySeq
  <2>2. After(Q[c], 0, u) = 0
    <3>1. ShowsAfter(Q[c], 0, u) = {}  BY <2>1 DEF ShowsAfter
    <3> QED BY <3>1, FS_EmptySet DEF After
  <2>3. w[u] \in Nat  OBVIOUS
  <2>4. HeldBelow(B[c], After(Q[c], 0, u) + By(Q, Others(c), u), u, w[u])
    <3> SUFFICES ASSUME NEW p \in DOMAIN B[c]
                 PROVE  B[c][p].copies[u] + (After(Q[c], 0, u) + By(Q, Others(c), u)) <= w[u]
      BY DEF HeldBelow
    <3>1. B[c][p].copies[u] = 0  OBVIOUS
    <3> QED BY <1>2, <2>2, <2>3, <3>1
  <2>5. SentBelow(Q[c], By(Q, Others(c), u), u, w[u])  BY <2>1 DEF SentBelow
  <2> QED BY <2>4, <2>5 DEF CountedFor
<1> QED BY <1>2, <1>3 DEF Counted

(* It holds when the class begins. *)
LEMMA InitBoard == Init => BoardInv
<1> SUFFICES ASSUME Init PROVE BoardInv
  OBVIOUS
<1> DEFINE e == EmptyPage(TRUE)
<1>1. Shaped(e) /\ \A u \in Uuids : e.copies[u] = 0
  <2>1. Shaped(e)  BY ShapedEmpty
  <2>2. e.copies = [u \in Uuids |-> 0]  BY DEF EmptyPage
  <2> QED BY <2>1, <2>2
<1>2. pages = [c \in Clients |-> [p \in {c} |-> e]]  BY DEF Init, FirstPage
<1> HIDE DEF e
<1>3. ASSUME NEW c \in Clients
      PROVE  pages[c] \in BookSet(made) /\ DOMAIN pages[c] = {c} /\ pages[c][c] = e
  <2> DEFINE b == [p \in {c} |-> e]
  <2>1. b = [p \in DOMAIN b |-> b[p]] /\ DOMAIN b = {c} /\ \A p \in DOMAIN b : b[p] = e
    OBVIOUS
  <2>2. pages[c] = b  BY <1>2
  <2> HIDE DEF b
  <2>3. DOMAIN b \subseteq Clients \cup made /\ \A p \in DOMAIN b : Shaped(b[p])
    BY <1>1, <2>1
  <2>4. b \in BookSet(made)  BY <2>1, <2>3, BookIs
  <2> QED BY <2>1, <2>2, <2>4
<1>4. shows \in [Uuids -> Nat] /\ shows \in [Uuids -> 0..MaxCopies]
  <2>1. 0 \in 0..MaxCopies  BY BoardAssumption
  <2> QED BY <2>1 DEF Init
<1>5. Shelf(pages, made, shows)
  <2>1. pages = [c \in Clients |-> pages[c]]  BY <1>2
  <2> QED BY <1>3, <1>4, <2>1 DEF Shelf
<1>6. Traffic(toServer, toClient, pages, made, shows)
  <2> DEFINE Q == [c \in Clients |-> <<>>]
  <2>1. toServer = Q /\ toClient = Q  BY DEF Init
  <2>2. Q \in [Clients -> Seq({})] /\ \A c \in Clients : Q[c] = <<>>
    <3>1. <<>> \in Seq({})  BY EmptySeq
    <3> QED BY <3>1
  <2> HIDE DEF Q
  <2>3. \A c \in Clients, u \in Uuids : \A p \in DOMAIN pages[c] : pages[c][p].copies[u] = 0
    BY <1>1, <1>3
  <2>4. Counted(Q, Q, pages, shows)  BY <1>4, <2>2, <2>3, NothingShown
  <2>5. AllFine({}, made)  BY DEF AllFine
  <2> QED BY <2>1, <2>2, <2>4, <2>5 DEF Traffic
<1>7. Listed
  <2>1. /\ order = [c \in Clients |-> <<c>>] /\ index = [c \in Clients |-> 1]
        /\ current = [c \in Clients |-> c] /\ choosing = [c \in Clients |-> 0]
    BY DEF Init, FirstPage
  <2>2. ASSUME NEW c \in Clients
        PROVE  <<c>> \in Seq(PageIds) /\ ListedFor(<<c>>, 1, c, 0, pages[c])
    <3>1. c \in PageIds  BY DEF PageIds
    <3>2. <<c>> \in Seq(PageIds) /\ Len(<<c>>) = 1 /\ <<c>>[1] = c /\ DOMAIN <<c>> = {1}
      BY <3>1
    <3>3. IsInjective(<<c>>) /\ ToSet(<<c>>) = {c}  BY <3>2 DEF IsInjective, ToSet
    <3>4. 1 \in 1..1 /\ 0 \in 0..1  OBVIOUS
    <3> QED BY <1>3, <3>2, <3>3, <3>4 DEF ListedFor
  <2>3. \A c \in Clients : c \in PageIds  BY DEF PageIds
  <2> QED BY <2>1, <2>2, <2>3 DEF Listed
<1>8. Numbers  BY <1>4 DEF Init, Numbers
<1> QED BY <1>5, <1>6, <1>7, <1>8 DEF BoardInv

(* Every step keeps it. *)
LEMMA StepBoard ==
  ASSUME BoardInv, Queued, [Next]_vars
  PROVE  BoardInv'
<1>1. CASE UNCHANGED vars
  <2>1. UNCHANGED <<toServer, toClient>> /\ UNCHANGED boardVars  BY <1>1 DEF vars
  <2>2. Traffic(toServer', toClient', pages, made, shows)  BY <2>1 DEF BoardInv
  <2> QED BY <2>1, <2>2, BoardSame
<1>2. CASE Next
  BY <1>2, ServeBoard, ReceiveBoard, AskBoard, EditBoard, TurnBoard DEF Next
<1> QED BY <1>1, <1>2

(* No page holds an element more often than users put it on a page. *)
LEMMA CopiesShown ==
  ASSUME BoardInv, NEW c \in Clients, NEW p \in DOMAIN pages[c], NEW u \in Uuids
  PROVE  pages[c][p].copies[u] <= shows[u]
<1>1. PICK S : /\ toServer \in [Clients -> Seq(S)] /\ toClient \in [Clients -> Seq(S)]
               /\ AllFine(S, made) /\ Counted(toServer, toClient, pages, shows)
  BY DEF BoardInv, Traffic
<1>2. Countable(S, toServer, toClient, pages, shows)  BY <1>1, ShelfCountable DEF BoardInv
<1> DEFINE k == After(toClient[c], 0, u)
           n == By(toServer, Others(c), u)
           x == pages[c][p].copies[u]
           y == shows[u]
<1>3. /\ y \in Nat /\ n \in Nat /\ k \in Nat /\ x \in Nat
      /\ CountedFor(toServer, toClient, pages, shows, c, u)
  BY <1>1, <1>2, CountsAre
<1>4. x + (k + n) <= y  BY <1>3, Zenon DEF CountedFor, HeldBelow
<1> HIDE DEF k, n, x, y
<1>5. x <= y  BY <1>3, <1>4
<1> QED BY <1>5 DEF x, y

(* The invariant gives the types. *)
LEMMA BoardTypes == BoardInv /\ Floor!TypeOK => TypeOK
<1> SUFFICES ASSUME BoardInv, Floor!TypeOK PROVE TypeOK
  OBVIOUS
<1>1. ASSUME NEW c \in Clients
      PROVE  /\ IsInjective(order[c]) /\ DOMAIN pages[c] = ToSet(order[c])
             /\ current[c] \in DOMAIN pages[c] /\ index[c] \in DOMAIN order[c]
             /\ choosing[c] \in 0..Len(order[c])
  <2>1. ListedFor(order[c], index[c], current[c], choosing[c], pages[c])
    BY DEF BoardInv, Listed
  <2>2. order[c] \in Seq(PageIds)  BY <2>1 DEF ListedFor
  <2>3. DOMAIN order[c] = 1..Len(order[c])  BY <2>2, LenProperties
  <2> QED BY <2>1, <2>3 DEF ListedFor
<1>2. shows \in [Uuids -> 0..MaxCopies] /\ MaxCopies \in Nat /\ made \subseteq NewPages
      /\ usage \in Usages
  BY BoardAssumption DEF BoardInv, Numbers
<1>3. ASSUME NEW c \in Clients
      PROVE  /\ DOMAIN pages[c] \subseteq Clients \cup made
             /\ \A p \in DOMAIN pages[c] : IsPage(pages[c][p])
  <2>1. pages[c] \in BookSet(made)  BY PageIs
  <2>2. DOMAIN pages[c] \subseteq Clients \cup made  BY <2>1, BookIs
  <2>3. ASSUME NEW p \in DOMAIN pages[c] PROVE IsPage(pages[c][p])
    <3>1. Shaped(pages[c][p]) /\ \A u \in Uuids : pages[c][p].copies[u] \in Nat
      BY PageIs
    <3>2. ASSUME NEW u \in Uuids PROVE pages[c][p].copies[u] <= MaxCopies
      <4>1. pages[c][p].copies[u] <= shows[u]  BY CopiesShown
      <4>2. shows[u] \in 0..MaxCopies  BY <1>2
      <4> QED BY <1>2, <3>1, <4>1, <4>2
    <3> QED BY <1>2, <3>1, <3>2, ShapedIsPage
  <2> QED BY <2>2, <2>3
<1> QED BY <1>1, <1>2, <1>3 DEF TypeOK

(* The pages and queues are what the invariant says, in every behaviour. *)
LEMMA BoardKept == Spec => []BoardInv
<1>1. Init => Queued /\ BoardInv  BY InitFloor, InitBoard
<1>2. Queued /\ BoardInv /\ [Next]_vars => Queued' /\ BoardInv'  BY StepFloor, StepBoard
<1> QED BY <1>1, <1>2, PTL DEF Spec

(* The pages of every client are pages, listed once each, with the one     *)
(* shown and its index among them, whatever the other clients do and       *)
(* however their page switches cross with it (_allPages, _currentPage and  *)
(* _currentPageIndex of LiveWidget, the lists of BanBaseWidget).           *)
THEOREM BoardTypeCorrect == Spec => []TypeOK
BY BoardKept, BoardTypes, FloorKept, PTL

(* However strokes, redos, page switches and hand-overs cross, no page     *)
(* holds more objects of an element than users have put it on a page       *)
(* (PlayNetworkShowAction, SetMsgPackData and the server's relay).         *)
THEOREM NoneMultipliedHolds == Spec => []NoneMultiplied
<1>1. BoardInv => NoneMultiplied  BY CopiesShown DEF NoneMultiplied
<1> QED BY <1>1, BoardKept, PTL
=============================================================================
