--------------------------- MODULE Player_proofs ---------------------------
(***************************************************************************)
(* Lessons of any length, on any pages, with any elements and looks, with  *)
(* any number of seeks, pauses and ends, filmed, or recorded anew once.    *)
(*                                                                         *)
(*   SoundFollows       the voice runs with the player's time              *)
(*   TypeOK             pages, film, board and actions have their shape    *)
(*   PlayedAsRecorded   the board shows what the teacher's board showed    *)
(*   RerecordKeepsPast  and does so of the past of a lesson recorded anew  *)
(*                                                                         *)
(* Replay[n] is the board after the first n actions, played one after the  *)
(* other.  FilmInv says, while the lesson is recorded, that the film shows *)
(* at each time the Replay of the actions until then.  Seen says, while    *)
(* the lesson is played, that each page of the board is as in Replay[m]    *)
(* for some m, and the page shown as in that of all the actions due.       *)
(***************************************************************************)
EXTENDS Player, SequenceTheorems, WellFoundedInduction, TLAPS

-----------------------------------------------------------------------------
(* A set of naturals that is not empty has a least element. *)
LEMMA Least ==
  ASSUME NEW T \in SUBSET Nat, T # {}
  PROVE  \E x \in T : \A y \in T : x <= y
<1>1. \E x \in T : \A y \in T : ~(y < x)
  <2> DEFINE R == OpToRel(<, Nat)
  <2>1. IsWellFoundedOn(R, Nat)  BY NatLessThanWellFounded
  <2>2. \A x, y \in Nat : y < x => <<y, x>> \in R  BY DEF OpToRel
  <2> HIDE DEF R
  <2>3. PICK x \in T : \A y \in T : ~(<<y, x>> \in R)  BY <2>1, WFMin
  <2>4. \A y \in T : ~(y < x)  BY <2>2, <2>3, Zenon
  <2> QED BY <2>4
<1>2. PICK x \in T : \A y \in T : ~(y < x)  BY <1>1
<1>3. \A y \in T : x <= y  BY <1>2
<1> QED BY <1>3

(* Induction over the naturals, stated of a set. *)
LEMMA AllNaturals ==
  ASSUME NEW T \in SUBSET Nat, 0 \in T, \A n \in T : n + 1 \in T
  PROVE  T = Nat
<1> SUFFICES ASSUME NEW m \in Nat, m \notin T PROVE FALSE
  OBVIOUS
<1>1. PICK x \in Nat \ T : \A y \in Nat \ T : x <= y
  BY Least
<1>2. x # 0 /\ x - 1 \in Nat  BY <1>1
<1>3. x - 1 \in T  BY <1>1, <1>2
<1>4. (x - 1) + 1 \in T BY <1>3
<1>5. (x - 1) + 1 = x BY <1>1
<1> QED BY <1>1, <1>4, <1>5

(* Induction up to a bound. *)
LEMMA Upward ==
  ASSUME NEW n \in Nat, NEW T \in SUBSET (0..n), 0 \in T,
         \A i \in 1..n : i - 1 \in T => i \in T
  PROVE  T = 0..n
<1> DEFINE U == {i \in Nat : i <= n => i \in T}
<1>1. U \in SUBSET Nat /\ 0 \in U  OBVIOUS
<1>2. \A i \in U : i + 1 \in U
  <2> SUFFICES ASSUME NEW i \in Nat, i <= n => i \in T, i + 1 <= n PROVE i + 1 \in T
    OBVIOUS
  <2>1. i + 1 \in 1..n /\ (i + 1) - 1 = i /\ i <= n  OBVIOUS
  <2> QED BY <2>1
<1> HIDE DEF U
<1>3. U = Nat  BY <1>1, <1>2, AllNaturals
<1>4. \A i \in 0..n : i \in T
  <2> SUFFICES ASSUME NEW i \in 0..n PROVE i \in T
    OBVIOUS
  <2>1. i \in U /\ i <= n  BY <1>3
  <2> QED BY <2>1 DEF U
<1> QED BY <1>4

(* Two functions that agree at first, and at every place where they agree  *)
(* at the one before, agree.                                               *)
AgreeByStep(f, g, n) == f[0] = g[0] /\ \A i \in 1..n : f[i - 1] = g[i - 1] => f[i] = g[i]

(* What AgreeByStep is for. *)
LEMMA SameValues ==
  ASSUME NEW n \in Nat, NEW f, NEW g, AgreeByStep(f, g, n)
  PROVE  \A i \in 0..n : f[i] = g[i]
<1> DEFINE T == {i \in 0..n : f[i] = g[i]}
<1>1. T \in SUBSET (0..n) /\ 0 \in T  BY DEF AgreeByStep
<1>2. \A i \in 1..n : i - 1 \in T => i \in T  BY DEF AgreeByStep
<1>3. T = 0..n
  <2> HIDE DEF T
  <2> QED BY <1>1, <1>2, Upward
<1> QED BY <1>3

(* The functions with a given first value and given steps.                 *)
ByRecursion(B, n, x, step) ==
  {f \in [0..n -> B] : f[0] = x /\ \A i \in 1..n : f[i] = step[i][f[i - 1]]}

(* There is one. *)
LEMMA RecursionWorks ==
  ASSUME NEW B, NEW n \in Nat, NEW x \in B, NEW step \in [1..n -> [B -> B]]
  PROVE  \E f : f \in ByRecursion(B, n, x, step)
<1> DEFINE Is(k, f) == f[0] = x /\ \A i \in 1..k : f[i] = step[i][f[i - 1]]
           T == {k \in 0..n : \E f \in [0..k -> B] : Is(k, f)}
<1>1. 0 \in T
  <2> DEFINE f == [i \in 0..0 |-> x]
  <2>1. f \in [0..0 -> B] /\ f[0] = x  OBVIOUS
  <2> HIDE DEF f
  <2>2. \A i \in 1..0 : FALSE  OBVIOUS
  <2> QED BY <2>1, <2>2
<1>2. ASSUME NEW k \in 1..n, NEW f \in [0..(k - 1) -> B], Is(k - 1, f)
      PROVE  \E g \in [0..k -> B] : Is(k, g)
  <2> DEFINE g == [i \in 0..k |-> IF i = k THEN step[k][f[k - 1]] ELSE f[i]]
  <2>1. f[k - 1] \in B /\ step[k][f[k - 1]] \in B  OBVIOUS
  <2>2. g \in [0..k -> B]  BY <2>1
  <2>3. g[0] = x  BY <1>2
  <2>4. ASSUME NEW i \in 1..k PROVE g[i] = step[i][g[i - 1]]
    <3>1. g[i - 1] = f[i - 1]  OBVIOUS
    <3>2. CASE i = k  BY <3>1, <3>2
    <3>3. CASE i # k
      <4>1. i \in 1..(k - 1) /\ g[i] = f[i]  BY <3>3
      <4> QED BY <1>2, <3>1, <4>1
    <3> QED BY <3>2, <3>3
  <2> HIDE DEF g
  <2> QED BY <2>2, <2>3, <2>4
<1>3. \A k \in 1..n : k - 1 \in T => k \in T
  <2> DEFINE Able(k) == \E f \in [0..k -> B] : Is(k, f)
  <2> HIDE DEF Is
  <2>1. \A k \in 1..n : Able(k - 1) => Able(k)  BY <1>2
  <2>2. T = {k \in 0..n : Able(k)}  OBVIOUS
  <2> HIDE DEF Able, T
  <2> QED BY <2>1, <2>2
<1>4. T = 0..n
  <2>1. T \in SUBSET (0..n)  OBVIOUS
  <2> HIDE DEF T
  <2> QED BY <1>1, <1>3, <2>1, Upward
<1>5. n \in T  BY <1>4
<1> QED BY <1>5 DEF ByRecursion

(* The first n positions of a list are positions of it. *)
LEMMA Positions ==
  ASSUME NEW S, NEW s \in Seq(S), NEW n \in 0..Len(s)
  PROVE  /\ n \in Nat /\ Len(s) \in Nat /\ n <= Len(s)
         /\ \A i \in 1..n : i \in 1..Len(s) /\ i \in 0..Len(s) /\ i - 1 \in 0..Len(s) /\ s[i] \in S
<1> DEFINE l == Len(s)
<1>1. l \in Nat /\ n \in 0..l /\ \A i \in 1..l : s[i] \in S  BY LenProperties, ElementOfSeq
<1> HIDE DEF l
<1>2. /\ n \in Nat /\ l \in Nat /\ n <= l
      /\ \A i \in 1..n : i \in 1..l /\ i \in 0..l /\ i - 1 \in 0..l /\ s[i] \in S
  BY <1>1
<1> QED BY <1>2 DEF l

(* Numbers up to a bound have a greatest one. *)
LEMMA Greatest ==
  ASSUME NEW n \in Nat, NEW S \in SUBSET (0..n), S # {}
  PROVE  \E k \in S : \A j \in S : j <= k
<1> DEFINE B == {k \in 0..n : \A j \in S : j <= k}
<1>1. n \in B  OBVIOUS
<1>2. PICK k \in B : \A j \in B : k <= j
  <2>1. B \in SUBSET Nat /\ B # {}  BY <1>1
  <2> HIDE DEF B
  <2> QED BY <2>1, Least
<1>3. k \in 0..n /\ \A j \in S : j <= k  BY <1>2
<1>4. ASSUME k \notin S PROVE FALSE
  <2>1. \A j \in S : j <= k - 1  BY <1>3, <1>4
  <2>2. k - 1 \in 0..n
    <3>1. PICK j \in S : TRUE  OBVIOUS
    <3>2. j \in 0..n /\ j <= k - 1  BY <2>1, <3>1
    <3> QED BY <1>3, <3>2
  <2>3. k - 1 \in B  BY <2>1, <2>2
  <2> QED BY <1>2, <1>3, <2>3
<1> QED BY <1>3, <1>4

(* The player's time is made of numbers and a state. *)
TimeOK ==
  /\ state \in States
  /\ base \in Nat
  /\ elapsed \in Nat
  /\ sound \in [on : BOOLEAN, at : Nat]

TimeInv == TimeOK /\ SoundFollows

(* A lesson begins with a player that stands still. *)
LEMMA InitTime == Init => TimeInv
  BY DEF Init, TimeInv, TimeOK, SoundFollows, States, NoSound, GetAnimatedTime

(* A step that leaves the time and the sound alone keeps the invariant. *)
LEMMA SameTime == TimeInv /\ UNCHANGED timeVars => TimeInv'
  BY DEF TimeInv, TimeOK, SoundFollows, timeVars, GetAnimatedTime

(* KeTime::Pause and KeTime::Reset, one after the other, silence the       *)
(* voice and leave KeTime at its start.                                    *)
LEMMA ResetTime ==
  TimeInv /\ PauseAndReset /\ elapsed' \in Nat => TimeInv'
<1> SUFFICES ASSUME TimeInv, PauseAndReset, elapsed' \in Nat PROVE TimeInv'
  OBVIOUS
<1>1. sound' \in [on : BOOLEAN, at : Nat] /\ sound'.on = FALSE
  BY DEF TimeInv, TimeOK, PauseAndReset
<1>2. TimeOK'
  BY <1>1 DEF PauseAndReset, TimeOK, States
<1>3. SoundFollows'
  BY <1>1 DEF PauseAndReset, SoundFollows
<1> QED BY <1>2, <1>3 DEF TimeInv

(* Setting the time of a player that stands still, or one after the end of *)
(* the lesson.                                                             *)
LEMMA SetTime ==
  ASSUME TimeInv, NEW time \in Nat, SetAnimatedTime(time),
         time > TotalTime \/ IsPausing
  PROVE  TimeInv'
<1>1. elapsed' \in Nat
  BY DEF SetAnimatedTime
<1>2. CASE time > TotalTime
  BY <1>1, <1>2, ResetTime DEF SetAnimatedTime
<1>3. CASE ~(time > TotalTime)
  <2>1. base' = time /\ UNCHANGED <<state, sound>> /\ state # "Working"
    BY <1>3 DEF SetAnimatedTime, IsPausing
  <2>2. TimeOK'
    BY <1>1, <2>1 DEF TimeInv, TimeOK
  <2>3. SoundFollows'
    BY <2>1 DEF TimeInv, SoundFollows
  <2> QED BY <2>2, <2>3 DEF TimeInv
<1> QED BY <1>2, <1>3

(* Every step keeps the voice with KeTime. *)
LEMMA StepTime == TimeInv /\ [Next]_vars => TimeInv'
<1> SUFFICES ASSUME TimeInv, [Next]_vars PROVE TimeInv'
  OBVIOUS
<1>1. CASE Record /\ UNCHANGED <<mode, timeVars, boardVars, cut>>
  BY <1>1, SameTime
<1>2. CASE Load
  BY <1>2 DEF Load, TimeInv, TimeOK, SoundFollows, States, NoSound, GetAnimatedTime
<1>3. CASE Start
  <2>1. state' = "Working" /\ elapsed' = 0 /\ sound' = [on |-> TRUE, at |-> base] /\ base' = base
    BY <1>3 DEF Start
  <2>2. TimeOK'
    BY <2>1 DEF TimeInv, TimeOK, States
  <2>3. SoundFollows'
    BY <2>1 DEF TimeInv, TimeOK, SoundFollows, GetAnimatedTime
  <2> QED BY <2>2, <2>3 DEF TimeInv
<1>4. CASE Pause
  <2>1. sound' \in [on : BOOLEAN, at : Nat] /\ sound'.on = FALSE
    BY <1>4 DEF Pause, TimeInv, TimeOK
  <2>2. state' = "Paused" /\ base' = base + elapsed /\ elapsed' = elapsed
    BY <1>4 DEF Pause
  <2>3. TimeOK'
    BY <2>1, <2>2 DEF TimeInv, TimeOK, States
  <2>4. SoundFollows'
    BY <2>1, <2>2 DEF SoundFollows
  <2> QED BY <2>3, <2>4 DEF TimeInv
<1>5. CASE Tick
  <2>1. sound' \in [on : BOOLEAN, at : Nat] /\ sound'.on = sound.on /\ sound'.at = sound.at + 1
    BY <1>5 DEF Tick, TimeInv, TimeOK
  <2>2. state' = "Working" /\ state = "Working" /\ base' = base /\ elapsed' = elapsed + 1
    BY <1>5 DEF Tick
  <2>3. TimeOK'
    BY <2>1, <2>2 DEF TimeInv, TimeOK
  <2>4. sound.on /\ sound.at = base + elapsed
    BY <2>2 DEF TimeInv, SoundFollows, GetAnimatedTime
  <2>5. sound'.at = base' + elapsed'
    BY <2>1, <2>2, <2>4 DEF TimeInv, TimeOK
  <2>6. SoundFollows'
    BY <2>1, <2>2, <2>4, <2>5 DEF SoundFollows, GetAnimatedTime
  <2> QED BY <2>3, <2>6 DEF TimeInv
<1>6. CASE AnimatedTriggered
  BY <1>6, SameTime DEF AnimatedTriggered
<1>7. CASE TimeIsUp
  BY <1>7, ResetTime DEF TimeIsUp, TimeInv, TimeOK
<1>8. ASSUME NEW time \in 0..MaxTime + 1, OnGotoPosition(time) PROVE TimeInv'
  <2>1. time \in Nat
    BY LessonAssumption
  <2>2. CASE time > TotalTime \/ IsPausing
    BY <1>8, <2>1, <2>2, SetTime DEF OnGotoPosition
  <2>3. CASE ~(time > TotalTime \/ IsPausing)
    <3>1. base' = time /\ elapsed' = 0 /\ state' = "Working" /\ sound' = [on |-> TRUE, at |-> time]
      BY <1>8, <2>3 DEF OnGotoPosition, IsPausing
    <3>2. TimeOK'
      BY <2>1, <3>1 DEF TimeOK, States
    <3>3. SoundFollows'
      BY <2>1, <3>1 DEF SoundFollows, GetAnimatedTime
    <3> QED BY <3>2, <3>3 DEF TimeInv
  <2> QED BY <2>2, <2>3
<1>9. ASSUME NEW time \in 0..MaxTime + 1, ConvertFrame(time) PROVE TimeInv'
  <2>1. time \in Nat
    BY LessonAssumption
  <2>2. SetAnimatedTime(time) /\ IsPausing
    BY <1>9 DEF ConvertFrame, GotoTime, IsPausing
  <2> QED BY <2>1, <2>2, SetTime
<1>10. CASE OnReRecord
  <2>1. IsPausing /\ SetAnimatedTime(GetAnimatedTime)
    BY <1>10 DEF OnReRecord, GotoTime
  <2>2. GetAnimatedTime \in Nat
    BY <2>1 DEF GetAnimatedTime, IsPausing, TimeInv, TimeOK
  <2> QED BY <2>1, <2>2, SetTime
<1>11. CASE UNCHANGED vars
  BY <1>11, SameTime DEF vars
<1> QED
  BY <1>1, <1>2, <1>3, <1>4, <1>5, <1>6, <1>7, <1>8, <1>9, <1>10, <1>11 DEF Next

(* Whatever is recorded, played, paused, sought, converted or recorded     *)
(* anew: the voice plays exactly while KeTime runs, from KeTime's          *)
(* position.                                                               *)
THEOREM SoundFollowsHolds == Spec => []SoundFollows
<1>1. TimeInv => SoundFollows
  BY DEF TimeInv
<1> QED BY InitTime, StepTime, <1>1, PTL DEF Spec

-----------------------------------------------------------------------------
(* Lists: taking one element out.                                          *)

(* The least of some positions. *)
LEMMA LowestIs ==
  ASSUME NEW S \in SUBSET Nat, S # {}
  PROVE  Lowest(S) \in S /\ \A j \in S : Lowest(S) <= j
<1>1. \E i \in S : \A j \in S : i <= j  BY Least
<1> QED BY <1>1 DEF Lowest

(* A list without the element at a position. *)
LEMMA Removed ==
  ASSUME NEW S, NEW s \in Seq(S), NEW k \in 1..Len(s)
  PROVE  /\ RemoveAt(s, k) \in Seq(S)
         /\ Len(RemoveAt(s, k)) = Len(s) - 1
         /\ \A j \in 1..(Len(s) - 1) : RemoveAt(s, k)[j] = IF j < k THEN s[j] ELSE s[j + 1]
<1> DEFINE n == Len(s)
           front == SubSeq(s, 1, k - 1)
           back == SubSeq(s, k + 1, n)
<1>1. n \in Nat /\ k \in 1..n /\ \A i \in 1..n : s[i] \in S  BY LenProperties, ElementOfSeq
<1>2. /\ front \in Seq(S) /\ Len(front) = k - 1
      /\ \A i \in 1..(k - 1) : front[i] = s[i]
  <2>1. /\ front \in Seq(S)
        /\ Len(front) = IF 1 <= k - 1 THEN k - 1 - 1 + 1 ELSE 0
        /\ \A i \in 1..(k - 1 - 1 + 1) : front[i] = s[1 + i - 1]
    BY <1>1, SubSeqProperties
  <2> HIDE DEF front, n
  <2> QED BY <1>1, <2>1
<1>3. /\ back \in Seq(S) /\ Len(back) = n - k
      /\ \A i \in 1..(n - k) : back[i] = s[k + i]
  <2>1. /\ back \in Seq(S)
        /\ Len(back) = IF k + 1 <= n THEN n - (k + 1) + 1 ELSE 0
        /\ \A i \in 1..(n - (k + 1) + 1) : back[i] = s[(k + 1) + i - 1]
    BY <1>1, SubSeqProperties
  <2> HIDE DEF back, n
  <2> QED BY <1>1, <2>1
<1>4. RemoveAt(s, k) = front \o back  BY DEF RemoveAt
<1> HIDE DEF front, back
<1>5. /\ front \o back \in Seq(S) /\ Len(front \o back) = (k - 1) + (n - k)
      /\ \A i \in 1..((k - 1) + (n - k)) :
           (front \o back)[i] = IF i <= k - 1 THEN front[i] ELSE back[i - (k - 1)]
  <2>1. /\ front \o back \in Seq(S) /\ Len(front \o back) = Len(front) + Len(back)
        /\ \A i \in 1..(Len(front) + Len(back)) :
             (front \o back)[i] = IF i <= Len(front) THEN front[i] ELSE back[i - Len(front)]
    BY <1>2, <1>3, ConcatProperties
  <2> QED BY <1>2, <1>3, <2>1
<1> HIDE DEF n
<1>6. ASSUME NEW j \in 1..(n - 1)
      PROVE  (front \o back)[j] = IF j < k THEN s[j] ELSE s[j + 1]
  <2>1. j \in 1..((k - 1) + (n - k))  BY <1>1
  <2>2. CASE j < k
    <3>1. j \in 1..(k - 1)  BY <1>1, <2>2
    <3> QED BY <1>2, <1>5, <2>1, <2>2, <3>1
  <2>3. CASE ~(j < k)
    <3>1. j - (k - 1) \in 1..(n - k) /\ ~(j <= k - 1) /\ k + (j - (k - 1)) = j + 1
      BY <1>1, <2>3
    <3> QED BY <1>3, <1>5, <2>1, <2>3, <3>1
  <2> QED BY <2>2, <2>3
<1>7. Len(front \o back) = n - 1  BY <1>1, <1>5
<1> QED BY <1>4, <1>5, <1>6, <1>7 DEF n

(* What the recursion of Without makes of a list. *)
Rests(S, s, u) ==
  {rest \in [0..Len(s) -> Seq(S)] :
     /\ rest[0] = <<>>
     /\ \A i \in 1..Len(s) : rest[i] = IF s[i] = u THEN rest[i - 1]
                                       ELSE Append(rest[i - 1], s[i])}

(* PlayHideAction leaves what the recursion ends with. *)
LEMMA WithoutIs ==
  ASSUME NEW S, NEW s \in Seq(S), NEW u
  PROVE  \E rest \in Rests(S, s, u) : Without(s, u) = rest[Len(s)]
<1> DEFINE n == Len(s)
           Rec(f) == [i \in 0..n |-> IF i = 0 THEN <<>>
                                     ELSE IF s[i] = u THEN f[i - 1] ELSE Append(f[i - 1], s[i])]
           rest == CHOOSE f : f = Rec(f)
           step == [i \in 1..n |-> [t \in Seq(S) |-> IF s[i] = u THEN t ELSE Append(t, s[i])]]
<1>0. n \in Nat /\ <<>> \in Seq(S) /\ \A i \in 1..n : s[i] \in S
  BY LenProperties, EmptySeq, ElementOfSeq
<1>1. Without(s, u) = rest[n]  BY DEF Without
<1> HIDE DEF n
<1>2. step \in [1..n -> [Seq(S) -> Seq(S)]]
  <2>1. \A i \in 1..n, t \in Seq(S) : (IF s[i] = u THEN t ELSE Append(t, s[i])) \in Seq(S)
    BY <1>0, AppendProperties
  <2> QED BY <2>1
<1>3. PICK f \in [0..n -> Seq(S)] : f[0] = <<>> /\ \A i \in 1..n : f[i] = step[i][f[i - 1]]
  <2> DEFINE B == Seq(S)
             x == <<>>
  <2>1. n \in Nat /\ x \in B /\ step \in [1..n -> [B -> B]]  BY <1>0, <1>2
  <2> HIDE DEF step, B, x
  <2>2. PICK f : f \in ByRecursion(B, n, x, step)  BY <2>1, RecursionWorks
  <2> QED BY <2>2, Zenon DEF B, x, ByRecursion
<1>4. \A i \in 1..n : f[i] = IF s[i] = u THEN f[i - 1] ELSE Append(f[i - 1], s[i])
  <2> SUFFICES ASSUME NEW i \in 1..n
               PROVE  f[i] = IF s[i] = u THEN f[i - 1] ELSE Append(f[i - 1], s[i])
    OBVIOUS
  <2>1. f[i - 1] \in Seq(S)  BY <1>0
  <2> QED BY <1>3, <2>1
<1>5. f = Rec(f)
  <2>1. \A i \in 0..n : i = 0 \/ i \in 1..n  BY <1>0
  <2>2. \A i \in 0..n : f[i] = IF i = 0 THEN <<>> ELSE IF s[i] = u THEN f[i - 1]
                               ELSE Append(f[i - 1], s[i])
    BY <1>3, <1>4, <2>1, Zenon
  <2> QED BY <2>2
<1>6. rest = Rec(rest)  BY <1>5
<1>7. /\ rest[0] = <<>>
      /\ \A i \in 1..n : rest[i] = IF s[i] = u THEN rest[i - 1] ELSE Append(rest[i - 1], s[i])
  <2>1. \A i \in 0..n : Rec(rest)[i] = IF i = 0 THEN <<>> ELSE IF s[i] = u THEN rest[i - 1]
                                       ELSE Append(rest[i - 1], s[i])
    OBVIOUS
  <2> HIDE DEF rest, Rec
  <2>2. \A i \in 0..n : rest[i] = IF i = 0 THEN <<>> ELSE IF s[i] = u THEN rest[i - 1]
                                  ELSE Append(rest[i - 1], s[i])
    BY <1>6, <2>1
  <2> QED BY <1>0, <2>2
<1>8. f[n] = rest[n]
  <2> HIDE DEF rest
  <2>1. \A i \in 1..n : f[i - 1] = rest[i - 1] => f[i] = rest[i]
    BY <1>4, <1>7, Zenon
  <2>2. f[0] = rest[0]  BY <1>3, <1>7, Zenon
  <2>3. AgreeByStep(f, rest, n)  BY <2>1, <2>2, Zenon DEF AgreeByStep
  <2>4. \A i \in 0..n : f[i] = rest[i]  BY <1>0, <2>3, SameValues, Zenon
  <2> QED BY <1>0, <2>4
<1>9. f \in Rests(S, s, u)  BY <1>3, <1>4, Zenon DEF n, Rests
<1> QED BY <1>1, <1>8, <1>9 DEF n

(* PlayHideAction removes an element that is drawn once as the board did. *)
LEMMA WithoutOne ==
  ASSUME NEW S, NEW s \in Seq(S), NEW k \in 1..Len(s),
         \A j \in 1..Len(s) : s[j] = s[k] => j = k
  PROVE  Without(s, s[k]) = RemoveAt(s, k)
<1> DEFINE n == Len(s)
<1>0. n \in Nat /\ k \in 1..n /\ \A i \in 1..n : s[i] \in S  BY LenProperties, ElementOfSeq
<1>1. PICK rest \in [0..n -> Seq(S)] :
        /\ rest[0] = <<>>
        /\ \A i \in 1..n : rest[i] = IF s[i] = s[k] THEN rest[i - 1]
                                     ELSE Append(rest[i - 1], s[i])
        /\ Without(s, s[k]) = rest[n]
  <2>1. PICK rest \in Rests(S, s, s[k]) : Without(s, s[k]) = rest[Len(s)]  BY WithoutIs
  <2> QED BY <2>1, Zenon DEF Rests
<1> DEFINE Is(i) == /\ Len(rest[i]) = IF i < k THEN i ELSE i - 1
                    /\ \A j \in 1..Len(rest[i]) : rest[i][j] = IF j < k THEN s[j] ELSE s[j + 1]
           T == {i \in 0..n : Is(i)}
<1> HIDE DEF n
<1>2. Is(0)  BY <1>1, EmptySeq
<1>3. ASSUME NEW i \in 1..n, Is(i - 1) PROVE Is(i)
  <2>1. rest[i - 1] \in Seq(S) /\ Len(rest[i - 1]) \in Nat  BY <1>0
  <2>2. CASE i = k
    <3>1. rest[i] = rest[i - 1]  BY <1>1, <2>2
    <3> QED BY <1>0, <1>3, <2>2, <3>1
  <2>3. CASE i # k
    <3>1. rest[i] = Append(rest[i - 1], s[i])  BY <1>1, <2>3 DEF n
    <3>2. /\ Len(rest[i]) = Len(rest[i - 1]) + 1
          /\ \A j \in 1..Len(rest[i - 1]) : rest[i][j] = rest[i - 1][j]
          /\ rest[i][Len(rest[i - 1]) + 1] = s[i]
      BY <1>0, <2>1, <3>1, AppendProperties
    <3>3. Len(rest[i - 1]) = IF i < k THEN i - 1 ELSE i - 2  BY <1>0, <1>3, <2>3
    <3>4. Len(rest[i]) = IF i < k THEN i ELSE i - 1  BY <1>0, <2>1, <3>2, <3>3
    <3>5. ASSUME NEW j \in 1..Len(rest[i]) PROVE rest[i][j] = IF j < k THEN s[j] ELSE s[j + 1]
      <4>1. CASE j \in 1..Len(rest[i - 1])  BY <1>3, <3>2, <4>1
      <4>2. CASE j = Len(rest[i - 1]) + 1
        <5>1. (i < k /\ j = i) \/ (k < i /\ j + 1 = i /\ ~(j < k))
          BY <1>0, <2>3, <3>3, <4>2
        <5> QED BY <3>2, <4>2, <5>1
      <4> QED BY <2>1, <3>2, <4>1, <4>2
    <3> QED BY <3>4, <3>5
  <2> QED BY <2>2, <2>3
<1>4. Is(n)
  <2> HIDE DEF Is
  <2>1. T \in SUBSET (0..n) /\ 0 \in T /\ \A i \in 1..n : i - 1 \in T => i \in T
    BY <1>0, <1>2, <1>3
  <2>2. n \in T
    <3> HIDE DEF T
    <3>1. T = 0..n  BY <1>0, <2>1, Upward
    <3> QED BY <1>0, <3>1
  <2> QED BY <2>2
<1>5. /\ RemoveAt(s, k) \in Seq(S) /\ Len(RemoveAt(s, k)) = n - 1
      /\ \A j \in 1..(n - 1) : RemoveAt(s, k)[j] = IF j < k THEN s[j] ELSE s[j + 1]
  BY Removed DEF n
<1>6. rest[n] \in Seq(S) /\ Len(rest[n]) = n - 1  BY <1>0, <1>4 DEF n
<1>7. \A j \in 1..Len(rest[n]) : rest[n][j] = RemoveAt(s, k)[j]
  BY <1>4, <1>5, <1>6
<1>8. rest[n] = RemoveAt(s, k)  BY <1>5, <1>6, <1>7, SeqEqual
<1> QED BY <1>1, <1>8

-----------------------------------------------------------------------------
(* What playing an action does to a board, part by part.                   *)

(* Of the elements drawn, only one that is shown is new. *)
LEMMA RedrawnIs ==
  ASSUME NEW file, NEW S, NEW s \in Seq(S), NEW a,
         a.type = "Show" /\ a.id \in file => a.id \in S
  PROVE  Redrawn(file, s, a) \in Seq(S)
<1>1. Without(s, a.id) \in Seq(S)
  <2>1. PICK rest \in Rests(S, s, a.id) : Without(s, a.id) = rest[Len(s)]  BY WithoutIs
  <2>2. rest \in [0..Len(s) -> Seq(S)]  BY DEF Rests
  <2>3. Len(s) \in 0..Len(s)  BY LenProperties
  <2> QED BY <2>1, <2>2, <2>3
<1>2. ASSUME Drawn(s, a.id) # {}
      PROVE  a.id \in S /\ Others(s, a.id) \in Seq(S)
  <2>1. /\ Drawn(s, a.id) \in SUBSET Nat
        /\ \A i \in Drawn(s, a.id) : i \in 1..Len(s) /\ s[i] = a.id /\ s[i] \in S
    BY LenProperties, ElementOfSeq DEF Drawn
  <2>2. Lowest(Drawn(s, a.id)) \in 1..Len(s)  BY <1>2, <2>1, LowestIs
  <2>3. a.id \in S  BY <1>2, <2>1
  <2> QED BY <2>2, <2>3, Removed DEF Others
<1>3. CASE a.type = "Show" /\ a.id \in file
  <2>1. Redrawn(file, s, a) = Append(s, a.id)  BY <1>3 DEF Redrawn
  <2> QED BY <1>3, <2>1, AppendProperties
<1>4. CASE a.type = "Hide"
  <2>1. Redrawn(file, s, a) = Without(s, a.id)  BY <1>4 DEF Redrawn
  <2> QED BY <1>1, <2>1
<1>5. CASE a.type = "TopMost" /\ Drawn(s, a.id) # {}
  <2>1. Redrawn(file, s, a) = Append(Others(s, a.id), a.id)  BY <1>5 DEF Redrawn
  <2> QED BY <1>2, <1>5, <2>1, AppendProperties
<1>6. CASE a.type = "BottomMost" /\ Drawn(s, a.id) # {}
  <2>1. Redrawn(file, s, a) = <<a.id>> \o Others(s, a.id)  BY <1>6 DEF Redrawn
  <2>2. <<a.id>> \in Seq(S)  BY <1>2, <1>6
  <2> QED BY <1>2, <1>6, <2>1, <2>2, ConcatProperties
<1>7. CASE /\ ~(a.type = "Show" /\ a.id \in file) /\ a.type # "Hide"
           /\ ~(a.type \in {"TopMost", "BottomMost"} /\ Drawn(s, a.id) # {})
  <2>1. Redrawn(file, s, a) = s  BY <1>7 DEF Redrawn
  <2> QED BY <2>1
<1> QED BY <1>3, <1>4, <1>5, <1>6, <1>7

(* An action plays on the elements of its page, on looks or on the page:   *)
(* first the elements of a page,                                           *)
LEMMA PlayedDrawn ==
  ASSUME NEW file \in SUBSET Uuids, NEW b \in Board, NEW a \in Action, NEW p \in PageIds
  PROVE  /\ p = a.page => PlayAction(file, b, a).drawn[p] = Redrawn(file, b.drawn[p], a)
         /\ p # a.page => PlayAction(file, b, a).drawn[p] = b.drawn[p]
<1>1. b.drawn \in [PageIds -> Seq(Uuids)] /\ a.page \in PageIds  BY DEF Board, Action
<1>2. PlayAction(file, b, a).drawn = [b.drawn EXCEPT ![a.page] = Redrawn(file, b.drawn[a.page], a)]
  BY DEF PlayAction
<1> QED BY <1>1, <1>2

(* then the look of an element,                                            *)
LEMMA PlayedLook ==
  ASSUME NEW file \in SUBSET Uuids, NEW b \in Board, NEW a \in Action, NEW u \in Uuids
  PROVE  /\ a.type = "Change" /\ u = a.id /\ u \in file => PlayAction(file, b, a).look[u] = a.look
         /\ ~(a.type = "Change" /\ u = a.id /\ u \in file) =>
              PlayAction(file, b, a).look[u] = b.look[u]
<1>1. b.look \in [Uuids -> Looks \cup {None}]  BY DEF Board
<1>2. PlayAction(file, b, a).look = IF a.type = "Change" /\ a.id \in file
                                    THEN [b.look EXCEPT ![a.id] = a.look] ELSE b.look
  BY DEF PlayAction
<1> QED BY <1>1, <1>2

(* A board stays one. *)
LEMMA PlayedIs ==
  ASSUME NEW file \in SUBSET Uuids, NEW b \in Board, NEW a \in Action
  PROVE  PlayAction(file, b, a) \in Board
<1> DEFINE drawn == [b.drawn EXCEPT ![a.page] = Redrawn(file, @, a)]
           look == IF a.type = "Change" /\ a.id \in file THEN [b.look EXCEPT ![a.id] = a.look]
                   ELSE b.look
           page == IF a.type = "Switch" THEN a.page ELSE b.page
<1>1. /\ b.drawn \in [PageIds -> Seq(Uuids)] /\ b.look \in [Uuids -> Looks \cup {None}]
      /\ b.page \in PageIds \cup {None}
      /\ a.page \in PageIds /\ a.look \in Looks \cup {None}
  BY DEF Board, Action
<1>2. Redrawn(file, b.drawn[a.page], a) \in Seq(Uuids)  BY <1>1, RedrawnIs
<1>3. drawn \in [PageIds -> Seq(Uuids)]  BY <1>1, <1>2
<1>4. look \in [Uuids -> Looks \cup {None}]  BY <1>1
<1>5. page \in PageIds \cup {None}  BY <1>1
<1>6. PlayAction(file, b, a) = [drawn |-> drawn, look |-> look, page |-> page]
  BY DEF PlayAction
<1> HIDE DEF drawn, look, page
<1> QED BY <1>3, <1>4, <1>5, <1>6 DEF Board

(* The boards that playing the actions of S one after the other makes.     *)
Runs(file, as, b, S) ==
  {f \in [0..Len(as) -> Board] :
     /\ f[0] = b
     /\ \A i \in 1..Len(as) : f[i] = IF i \in S THEN PlayAction(file, f[i - 1], as[i])
                                     ELSE f[i - 1]}

(* There are such boards. *)
LEMMA RunExists ==
  ASSUME NEW file \in SUBSET Uuids, NEW as \in Seq(Action), NEW b \in Board, NEW S
  PROVE  \E f : f \in Runs(file, as, b, S)
<1> DEFINE n == Len(as)
           step == [i \in 1..n |-> [c \in Board |-> IF i \in S THEN PlayAction(file, c, as[i])
                                                    ELSE c]]
<1>1. n \in Nat /\ \A i \in 1..n : as[i] \in Action  BY LenProperties, ElementOfSeq
<1>2. step \in [1..n -> [Board -> Board]]
  <2>1. \A i \in 1..n, c \in Board : (IF i \in S THEN PlayAction(file, c, as[i]) ELSE c) \in Board
    BY <1>1, PlayedIs
  <2> QED BY <2>1
<1>3. PICK f : f \in ByRecursion(Board, n, b, step)
  <2> HIDE DEF step, n
  <2> QED BY <1>1, <1>2, RecursionWorks
<1>4. f \in [0..n -> Board] /\ f[0] = b /\ \A i \in 1..n : f[i] = step[i][f[i - 1]]
  BY <1>3, Zenon DEF ByRecursion
<1>5. ASSUME NEW i \in 1..n
      PROVE  f[i] = IF i \in S THEN PlayAction(file, f[i - 1], as[i]) ELSE f[i - 1]
  <2>1. f[i - 1] \in Board
    <3>1. i - 1 \in 0..n
      <4> HIDE DEF n
      <4> QED BY <1>1
    <3> HIDE DEF n
    <3> QED BY <1>4, <3>1
  <2>2. step[i][f[i - 1]] = IF i \in S THEN PlayAction(file, f[i - 1], as[i]) ELSE f[i - 1]
    BY <2>1
  <2> QED BY <1>4, <2>2
<1>6. f \in Runs(file, as, b, S)  BY <1>4, <1>5, Zenon DEF Runs
<1> QED BY <1>6

(* PlayActions plays them. *)
LEMMA PlayActionsIs ==
  ASSUME actions \in Seq(Action), NEW b \in Board, NEW S, NEW f \in Runs(File, actions, b, S)
  PROVE  PlayActions(b, S) = f[Len(actions)]
<1> DEFINE n == Len(actions)
           Rec(g) == [i \in 0..n |-> IF i = 0 THEN b
                                     ELSE IF i \in S THEN PlayAction(File, g[i - 1], actions[i])
                                     ELSE g[i - 1]]
           play == CHOOSE g : g = Rec(g)
<1>0. n \in Nat  BY LenProperties
<1>1. PlayActions(b, S) = play[n]  BY DEF PlayActions
<1>2. /\ f \in [0..n -> Board] /\ f[0] = b
      /\ \A i \in 1..n : f[i] = IF i \in S THEN PlayAction(File, f[i - 1], actions[i])
                                ELSE f[i - 1]
  BY Zenon DEF Runs
<1>3. f = Rec(f)
  <2> HIDE DEF n
  <2>1. \A i \in 0..n : i = 0 \/ i \in 1..n  BY <1>0
  <2>2. \A i \in 0..n : f[i] = IF i = 0 THEN b
                               ELSE IF i \in S THEN PlayAction(File, f[i - 1], actions[i])
                               ELSE f[i - 1]
    BY <1>2, <2>1, Zenon
  <2> QED BY <1>2, <2>2
<1>4. play = Rec(play)  BY <1>3
<1>5. \A i \in 0..n : play[i] = IF i = 0 THEN b
                               ELSE IF i \in S THEN PlayAction(File, play[i - 1], actions[i])
                               ELSE play[i - 1]
  <2>1. \A i \in 0..n : Rec(play)[i] = IF i = 0 THEN b
                               ELSE IF i \in S THEN PlayAction(File, play[i - 1], actions[i])
                               ELSE play[i - 1]
    OBVIOUS
  <2> HIDE DEF play, Rec
  <2> QED BY <1>4, <2>1
<1>6. f[n] = play[n]
  <2> HIDE DEF play, n
  <2>1. 0 \in 0..n /\ \A i \in 1..n : i \in 0..n /\ i # 0  BY <1>0
  <2>2. f[0] = play[0]  BY <1>2, <1>5, <2>1, Zenon
  <2>3. \A i \in 1..n : f[i - 1] = play[i - 1] => f[i] = play[i]  BY <1>2, <1>5, <2>1, Zenon
  <2>4. AgreeByStep(f, play, n)  BY <2>2, <2>3, Zenon DEF AgreeByStep
  <2>5. \A i \in 0..n : f[i] = play[i]  BY <1>0, <2>4, SameValues, Zenon
  <2> QED BY <1>0, <2>5
<1> QED BY <1>1, <1>6

-----------------------------------------------------------------------------
(* The lesson played from its beginning to its end, without leaving        *)
(* anything out: what the player's board is compared with.                 *)

Nothing(ini) == [drawn |-> [p \in PageIds |-> <<>>], look |-> ini, page |-> None]
Whole(file, ini, as) == CHOOSE f : f \in Runs(file, as, Nothing(ini), 1..Len(as))

(* Its boards follow one another by the actions. *)
LEMMA WholeIs ==
  ASSUME NEW file \in SUBSET Uuids, NEW ini \in [Uuids -> Looks \cup {None}],
         NEW as \in Seq(Action)
  PROVE  /\ Nothing(ini) \in Board
         /\ Whole(file, ini, as) \in Runs(file, as, Nothing(ini), 1..Len(as))
         /\ Whole(file, ini, as) \in [0..Len(as) -> Board]
         /\ Whole(file, ini, as)[0] = Nothing(ini)
         /\ \A i \in 1..Len(as) :
              Whole(file, ini, as)[i] = PlayAction(file, Whole(file, ini, as)[i - 1], as[i])
<1>1. Nothing(ini) \in Board
  <2>1. [p \in PageIds |-> <<>>] \in [PageIds -> Seq(Uuids)]  BY EmptySeq
  <2> QED BY <2>1 DEF Nothing, Board
<1>2. \E f : f \in Runs(file, as, Nothing(ini), 1..Len(as))  BY <1>1, RunExists
<1>3. Whole(file, ini, as) \in Runs(file, as, Nothing(ini), 1..Len(as))
  BY <1>2, Zenon DEF Whole
<1> HIDE DEF Whole
<1> QED BY <1>1, <1>3, Zenon DEF Runs

(* Two boards that are alike on a page and in the looks of its elements.   *)
Like(b, c, p, U) == b.drawn[p] = c.drawn[p] /\ \A u \in U : b.look[u] = c.look[u]

(* An action makes alike boards alike. *)
LEMMA LikeStep ==
  ASSUME NEW file \in SUBSET Uuids, NEW b \in Board, NEW c \in Board, NEW a \in Action,
         NEW p \in PageIds, NEW U \in SUBSET Uuids, Like(b, c, p, U)
  PROVE  Like(PlayAction(file, b, a), PlayAction(file, c, a), p, U)
<1>1. PlayAction(file, b, a).drawn[p] = PlayAction(file, c, a).drawn[p]
  <2>1. b.drawn[p] = c.drawn[p]  BY DEF Like
  <2>2. CASE p = a.page  BY <2>1, <2>2, PlayedDrawn
  <2>3. CASE p # a.page  BY <2>1, <2>3, PlayedDrawn
  <2> QED BY <2>2, <2>3
<1>2. ASSUME NEW u \in U
      PROVE  PlayAction(file, b, a).look[u] = PlayAction(file, c, a).look[u]
  <2>1. u \in Uuids /\ b.look[u] = c.look[u]  BY DEF Like
  <2> QED BY <2>1, PlayedLook
<1> QED BY <1>1, <1>2 DEF Like

(* An action that is not about the page leaves it and its elements alone. *)
LEMMA LikeOther ==
  ASSUME NEW file \in SUBSET Uuids, NEW b \in Board, NEW a \in Action,
         NEW p \in PageIds, NEW U \in SUBSET Uuids,
         a.type = "Switch" \/ a.page # p,
         a.type = "Change" /\ a.id \in U => a.page = p
  PROVE  Like(PlayAction(file, b, a), b, p, U)
<1>1. PlayAction(file, b, a).drawn[p] = b.drawn[p]
  <2>1. CASE a.page # p  BY <2>1, PlayedDrawn
  <2>2. CASE a.type = "Switch"
    <3>1. Redrawn(file, b.drawn[p], a) = b.drawn[p]  BY <2>2 DEF Redrawn
    <3> QED BY <3>1, PlayedDrawn
  <2> QED BY <2>1, <2>2
<1>2. ASSUME NEW u \in U PROVE PlayAction(file, b, a).look[u] = b.look[u]
  <2>1. ~(a.type = "Change" /\ u = a.id /\ u \in file) /\ u \in Uuids  OBVIOUS
  <2> QED BY <2>1, PlayedLook
<1> QED BY <1>1, <1>2 DEF Like

(* S has, of the actions of the page, those from m to n; and only they     *)
(* change the elements of U.                                               *)
Fits(as, S, p, U, m, n) ==
  /\ \A i \in 1..Len(as) : as[i].type # "Switch" /\ as[i].page = p =>
                              (i \in S <=> m < i /\ i <= n)
  /\ \A i \in 1..Len(as) : as[i].type = "Change" /\ as[i].id \in U => as[i].page = p

(* A board on which a page is as after m actions, played on with the       *)
(* page's actions from m to n and with any of other pages, has the page as *)
(* after n actions.                                                        *)
LEMMA PlaysPage ==
  ASSUME NEW file \in SUBSET Uuids, NEW ini \in [Uuids -> Looks \cup {None}],
         NEW as \in Seq(Action), NEW b \in Board, NEW S, NEW h \in Runs(file, as, b, S),
         NEW p \in PageIds, NEW U \in SUBSET Uuids,
         NEW m \in 0..Len(as), NEW n \in m..Len(as),
         Fits(as, S, p, U, m, n), Like(b, Whole(file, ini, as)[m], p, U)
  PROVE  Like(h[Len(as)], Whole(file, ini, as)[n], p, U)
<1> DEFINE l == Len(as)
           f == Whole(file, ini, as)
           C(i) == IF i < m THEN m ELSE IF i > n THEN n ELSE i
           T == {i \in 0..l : Like(h[i], f[C(i)], p, U)}
<1>0. /\ l \in Nat /\ m \in 0..l /\ n \in m..l /\ \A i \in 1..l : as[i] \in Action
  BY LenProperties, ElementOfSeq
<1>1. /\ f \in [0..l -> Board]
      /\ \A i \in 1..l : f[i] = PlayAction(file, f[i - 1], as[i])
  BY WholeIs
<1>2. /\ h \in [0..l -> Board] /\ h[0] = b
      /\ \A i \in 1..l : h[i] = IF i \in S THEN PlayAction(file, h[i - 1], as[i]) ELSE h[i - 1]
  BY Zenon DEF Runs
<1>s. /\ \A i \in 1..l : as[i].type # "Switch" /\ as[i].page = p =>
                           (i \in S <=> m < i /\ i <= n)
      /\ \A i \in 1..l : as[i].type = "Change" /\ as[i].id \in U => as[i].page = p
      /\ Like(b, f[m], p, U)
  BY Zenon DEF Fits
<1> HIDE DEF l, f
<1>3. 0 \in T
  <2>1. C(0) = m /\ 0 \in 0..l  BY <1>0
  <2> QED BY <1>2, <1>s, <2>1
<1>4. ASSUME NEW i \in 1..l, Like(h[i - 1], f[C(i - 1)], p, U)
      PROVE  Like(h[i], f[C(i)], p, U)
  <2>1. /\ i - 1 \in 0..l /\ i \in 0..l /\ C(i) \in 0..l /\ C(i - 1) \in 0..l
        /\ (C(i) = C(i - 1) \/ (C(i) = i /\ C(i - 1) = i - 1 /\ m < i /\ i <= n))
        /\ ~(m < i /\ i <= n) => C(i) = C(i - 1)
    BY <1>0
  <2>2. h[i - 1] \in Board /\ f[i - 1] \in Board /\ f[C(i - 1)] \in Board /\ as[i] \in Action
    BY <1>0, <1>1, <1>2, <2>1
  <2> HIDE DEF C
  <2>3. CASE as[i].type # "Switch" /\ as[i].page = p
    <3>1. CASE m < i /\ i <= n
      <4>1. h[i] = PlayAction(file, h[i - 1], as[i]) /\ f[i] = PlayAction(file, f[i - 1], as[i])
        BY <1>1, <1>2, <1>s, <2>3, <3>1
      <4>2. C(i) = i /\ C(i - 1) = i - 1  BY <1>0, <3>1 DEF C
      <4> QED BY <1>4, <2>2, <4>1, <4>2, LikeStep
    <3>2. CASE ~(m < i /\ i <= n)
      <4>1. h[i] = h[i - 1]  BY <1>2, <1>s, <2>3, <3>2
      <4> QED BY <1>4, <2>1, <3>2, <4>1
    <3> QED BY <3>1, <3>2
  <2>4. CASE ~(as[i].type # "Switch" /\ as[i].page = p)
    <3>1. /\ Like(PlayAction(file, h[i - 1], as[i]), h[i - 1], p, U)
          /\ Like(PlayAction(file, f[i - 1], as[i]), f[i - 1], p, U)
      BY <1>s, <2>2, <2>4, LikeOther
    <3>2. Like(h[i], h[i - 1], p, U)
      <4>1. CASE i \in S  BY <1>2, <3>1, <4>1
      <4>2. CASE i \notin S  BY <1>2, <4>2 DEF Like
      <4> QED BY <4>1, <4>2
    <3>3. Like(f[C(i)], f[C(i - 1)], p, U)
      <4>1. CASE C(i) = C(i - 1)  BY <4>1 DEF Like
      <4>2. CASE C(i) = i /\ C(i - 1) = i - 1  BY <1>1, <3>1, <4>2
      <4> QED BY <2>1, <4>1, <4>2
    <3> QED BY <1>4, <3>2, <3>3 DEF Like
  <2> QED BY <2>3, <2>4
<1>5. T = 0..l
  <2> DEFINE Is(i) == Like(h[i], f[C(i)], p, U)
  <2> HIDE DEF C
  <2>1. T = {i \in 0..l : Is(i)}  OBVIOUS
  <2>2. \A i \in 1..l : Is(i - 1) => Is(i)  BY <1>4
  <2> HIDE DEF Is, T
  <2>3. T \in SUBSET (0..l) /\ \A i \in 1..l : i - 1 \in T => i \in T  BY <1>0, <2>1, <2>2
  <2> QED BY <1>0, <1>3, <2>3, Upward
<1>6. l \in T /\ C(l) = n  BY <1>0, <1>5
<1> QED BY <1>6 DEF l, f

(* The page shown after the first n actions: that of the last switch of S, *)
(* the k-th action, or without one that of the board b.                    *)
LastShown(as, b, S, n, k, page) ==
  /\ (k = 0 /\ page = b.page) \/ (k # 0 /\ k \in S /\ as[k].type = "Switch" /\ page = as[k].page)
  /\ \A i \in 1..n : i \in S /\ as[i].type = "Switch" => i <= k

(* The page shown is that of the last switch that is played. *)
LEMMA PlaysSwitch ==
  ASSUME NEW file \in SUBSET Uuids, NEW as \in Seq(Action), NEW b \in Board, NEW S,
         NEW h \in Runs(file, as, b, S), NEW n \in 0..Len(as), NEW k \in 0..n, NEW page,
         LastShown(as, b, S, n, k, page)
  PROVE  h[n].page = page
<1> (k = 0 /\ page = b.page) \/ (k # 0 /\ k \in S /\ as[k].type = "Switch" /\ page = as[k].page)
  BY Zenon DEF LastShown
<1> \A i \in 1..n : i \in S /\ as[i].type = "Switch" => i <= k
  BY Zenon DEF LastShown
<1> DEFINE T == {i \in 0..n : k <= i => h[i].page = page}
<1>0. n \in Nat /\ k \in 0..n /\ \A i \in 1..n : i \in 1..Len(as)
  BY Positions
<1>1. /\ h[0] = b
      /\ \A i \in 1..n : h[i] = IF i \in S THEN PlayAction(file, h[i - 1], as[i]) ELSE h[i - 1]
  BY <1>0, Zenon DEF Runs
<1>2. ASSUME NEW i \in 1..n, k <= i - 1 => h[i - 1].page = page, k <= i
      PROVE  h[i].page = page
  <2>2. /\ as[i].type = "Switch" => PlayAction(file, h[i - 1], as[i]).page = as[i].page
        /\ as[i].type # "Switch" => PlayAction(file, h[i - 1], as[i]).page = h[i - 1].page
    BY DEF PlayAction
  <2>3. CASE i = k
    <3>0. k # 0  BY <1>0, <2>3
    <3>1. k \in S /\ as[k].type = "Switch" /\ page = as[k].page  BY <3>0, Zenon
    <3>2. h[i] = PlayAction(file, h[i - 1], as[i])  BY <1>1, <2>3, <3>1
    <3> QED BY <2>2, <2>3, <3>1, <3>2
  <2>4. CASE i # k
    <3>1. k <= i - 1 /\ ~(i <= k)  BY <1>0, <1>2, <2>4
    <3>2. CASE i \in S
      <4>1. as[i].type # "Switch"  BY <3>1, <3>2
      <4> QED BY <1>1, <1>2, <2>2, <3>1, <3>2, <4>1
    <3>3. CASE i \notin S  BY <1>1, <1>2, <3>1, <3>3
    <3> QED BY <3>2, <3>3
  <2> QED BY <2>3, <2>4
<1>3. T = 0..n
  <2>0. k <= 0 => h[0].page = page
    <3>1. k <= 0 => k = 0  BY <1>0
    <3> QED BY <1>1, <3>1
  <2>1. 0 \in T  BY <1>0, <2>0
  <2>2. T \in SUBSET (0..n) /\ \A i \in 1..n : i - 1 \in T => i \in T  BY <1>0, <1>2
  <2> HIDE DEF T
  <2> QED BY <1>0, <2>1, <2>2, Upward
<1> QED BY <1>0, <1>3

-----------------------------------------------------------------------------
(* What the whole lesson comes to.                                         *)

Shows(file, as, p, n) ==
  {u \in file : \E i \in 1..n : as[i].type = "Show" /\ as[i].page = p /\ as[i].id = u}

(* The elements drawn on a page were shown there. *)
LEMMA DrawnFrom ==
  ASSUME NEW file \in SUBSET Uuids, NEW ini \in [Uuids -> Looks \cup {None}],
         NEW as \in Seq(Action), NEW p \in PageIds, NEW n \in 0..Len(as)
  PROVE  Whole(file, ini, as)[n].drawn[p] \in Seq(Shows(file, as, p, n))
<1> DEFINE l == Len(as)
           f == Whole(file, ini, as)
           D(i) == f[i].drawn[p] \in Seq(Shows(file, as, p, i))
           T == {i \in 0..l : D(i)}
<1>0. l \in Nat /\ n \in 0..l /\ \A i \in 1..l : as[i] \in Action  BY LenProperties, ElementOfSeq
<1>1. /\ f \in [0..l -> Board] /\ f[0] = Nothing(ini)
      /\ \A i \in 1..l : f[i] = PlayAction(file, f[i - 1], as[i])
  BY WholeIs
<1> HIDE DEF l, f
<1>2. D(0)
  <2>1. f[0].drawn[p] = <<>>  BY <1>1 DEF Nothing
  <2> QED BY <2>1, EmptySeq
<1>3. ASSUME NEW i \in 1..l, D(i - 1) PROVE D(i)
  <2> DEFINE A == Shows(file, as, p, i - 1)
             B == Shows(file, as, p, i)
             b == f[i - 1]
             a == as[i]
             s == b.drawn[p]
  <2>1. A \subseteq B
    <3>1. \A j \in 1..(i - 1) : j \in 1..i  BY <1>0
    <3> QED BY <3>1 DEF Shows
  <2>2. /\ s \in Seq(A) /\ b \in Board /\ a \in Action
        /\ f[i] = PlayAction(file, b, a)
    BY <1>0, <1>1, <1>3
  <2>3. s \in Seq(B)
    <3> HIDE DEF A, B, s
    <3> QED BY <2>1, <2>2
  <2>4. a.type = "Show" /\ a.id \in file /\ p = a.page => a.id \in B
    <3>1. i \in 1..i  BY <1>0
    <3> QED BY <3>1 DEF Shows
  <2> HIDE DEF a, b
  <2>5. CASE p = a.page
    <3>1. f[i].drawn[p] = Redrawn(file, s, a)  BY <2>2, <2>5, PlayedDrawn
    <3> HIDE DEF B, s
    <3>2. Redrawn(file, s, a) \in Seq(B)  BY <2>3, <2>4, <2>5, RedrawnIs
    <3> QED BY <3>1, <3>2 DEF B
  <2>6. CASE p # a.page
    <3>1. f[i].drawn[p] = s  BY <2>2, <2>6, PlayedDrawn
    <3> QED BY <2>3, <3>1
  <2> QED BY <2>5, <2>6
<1>4. n \in T
  <2> HIDE DEF D
  <2>1. T \in SUBSET (0..l) /\ 0 \in T /\ \A i \in 1..l : i - 1 \in T => i \in T
    BY <1>0, <1>2, <1>3
  <2> HIDE DEF T
  <2>2. T = 0..l  BY <1>0, <2>1, Upward
  <2> QED BY <1>0, <2>2
<1> QED BY <1>4 DEF f

(* An element that is never changed keeps its initial state. *)
LEMMA LookKept ==
  ASSUME NEW file \in SUBSET Uuids, NEW ini \in [Uuids -> Looks \cup {None}],
         NEW as \in Seq(Action), NEW n \in 0..Len(as), NEW u \in Uuids,
         \A i \in 1..n : ~(as[i].type = "Change" /\ as[i].id = u)
  PROVE  Whole(file, ini, as)[n].look[u] = ini[u]
<1> DEFINE f == Whole(file, ini, as)
           D(i) == f[i].look[u] = ini[u]
           T == {i \in 0..n : D(i)}
<1>0. /\ n \in Nat
      /\ \A i \in 1..n : as[i] \in Action /\ i \in 1..Len(as) /\ i - 1 \in 0..Len(as)
  BY Positions
<1>1. /\ f \in [0..Len(as) -> Board] /\ f[0] = Nothing(ini)
      /\ \A i \in 1..Len(as) : f[i] = PlayAction(file, f[i - 1], as[i])
  BY WholeIs
<1> HIDE DEF f
<1>2. D(0)  BY <1>1 DEF Nothing
<1>3. ASSUME NEW i \in 1..n, D(i - 1) PROVE D(i)
  <2>1. f[i - 1] \in Board /\ as[i] \in Action  BY <1>0, <1>1
  <2>2. f[i] = PlayAction(file, f[i - 1], as[i])  BY <1>0, <1>1
  <2>3. ~(as[i].type = "Change" /\ u = as[i].id /\ u \in file)  OBVIOUS
  <2>4. PlayAction(file, f[i - 1], as[i]).look[u] = f[i - 1].look[u]  BY <2>1, <2>3, PlayedLook
  <2> QED BY <1>3, <2>2, <2>4
<1>4. n \in T
  <2> HIDE DEF D
  <2>1. T \in SUBSET (0..n) /\ 0 \in T /\ \A i \in 1..n : i - 1 \in T => i \in T
    BY <1>0, <1>2, <1>3
  <2> HIDE DEF T
  <2>2. T = 0..n  BY <1>0, <2>1, Upward
  <2> QED BY <1>0, <2>2
<1> QED BY <1>4 DEF f

(* Boards alike but for some looks.                                        *)
Alike(b, c, U) ==
  /\ \A p \in PageIds : b.drawn[p] = c.drawn[p]
  /\ b.page = c.page
  /\ \A u \in U : b.look[u] = c.look[u]

(* Two lessons whose first actions are the same, and which have the same   *)
(* elements for them, come to the same but for the looks of the elements   *)
(* whose initial states are not the same.                                  *)
LEMMA SameLesson ==
  ASSUME NEW f1 \in SUBSET Uuids, NEW i1 \in [Uuids -> Looks \cup {None}], NEW as \in Seq(Action),
         NEW f2 \in SUBSET Uuids, NEW i2 \in [Uuids -> Looks \cup {None}], NEW bs \in Seq(Action),
         NEW U \in SUBSET Uuids, \A u \in U : i1[u] = i2[u],
         NEW n \in 0..Len(as), n <= Len(bs),
         \A i \in 1..n : as[i] = bs[i] /\ (as[i].id \in f1 <=> as[i].id \in f2)
  PROVE  Alike(Whole(f1, i1, as)[n], Whole(f2, i2, bs)[n], U)
<1> DEFINE f == Whole(f1, i1, as)
           g == Whole(f2, i2, bs)
           D(i) == Alike(f[i], g[i], U)
           T == {i \in 0..n : D(i)}
<1>0. /\ n \in Nat /\ \A i \in 1..n : as[i] \in Action
      /\ \A i \in 1..n : /\ i \in 1..Len(as) /\ i - 1 \in 0..Len(as)
                         /\ i \in 1..Len(bs) /\ i - 1 \in 0..Len(bs)
  <2>1. n \in Nat /\ \A i \in 1..n : as[i] \in Action /\ i \in 1..Len(as) /\ i - 1 \in 0..Len(as)
    BY Positions
  <2>2. n \in 0..Len(bs)
    <3>1. Len(bs) \in Nat /\ n <= Len(bs)  BY LenProperties
    <3> QED BY <2>1, <3>1
  <2>3. \A i \in 1..n : i \in 1..Len(bs) /\ i - 1 \in 0..Len(bs)  BY <2>2, Positions
  <2> QED BY <2>1, <2>3
<1>1. /\ f \in [0..Len(as) -> Board] /\ f[0] = Nothing(i1)
      /\ \A i \in 1..Len(as) : f[i] = PlayAction(f1, f[i - 1], as[i])
  BY WholeIs
<1>2. /\ g \in [0..Len(bs) -> Board] /\ g[0] = Nothing(i2)
      /\ \A i \in 1..Len(bs) : g[i] = PlayAction(f2, g[i - 1], bs[i])
  BY WholeIs
<1> HIDE DEF f, g
<1>3. D(0)  BY <1>1, <1>2 DEF Nothing, Alike
<1>4. ASSUME NEW i \in 1..n, D(i - 1) PROVE D(i)
  <2> DEFINE b == f[i - 1]
             c == g[i - 1]
             a == as[i]
  <2>1. b \in Board /\ c \in Board /\ a \in Action  BY <1>0, <1>1, <1>2
  <2>2. f[i] = PlayAction(f1, b, a) /\ g[i] = PlayAction(f2, c, a)  BY <1>0, <1>1, <1>2
  <2>3. Alike(b, c, U) /\ (a.id \in f1 <=> a.id \in f2)  BY <1>4
  <2> HIDE DEF b, c, a
  <2>4. ASSUME NEW p \in PageIds
        PROVE  PlayAction(f1, b, a).drawn[p] = PlayAction(f2, c, a).drawn[p]
    <3>1. b.drawn[p] = c.drawn[p]  BY <2>3 DEF Alike
    <3>2. Redrawn(f1, b.drawn[p], a) = Redrawn(f2, c.drawn[p], a)
      BY <2>3, <3>1, Zenon DEF Redrawn
    <3>3. CASE p = a.page  BY <2>1, <3>2, <3>3, PlayedDrawn
    <3>4. CASE p # a.page  BY <2>1, <3>1, <3>4, PlayedDrawn
    <3> QED BY <3>3, <3>4
  <2>5. PlayAction(f1, b, a).page = PlayAction(f2, c, a).page
    BY <2>3 DEF Alike, PlayAction
  <2>6. ASSUME NEW u \in U
        PROVE  PlayAction(f1, b, a).look[u] = PlayAction(f2, c, a).look[u]
    <3>1. b.look[u] = c.look[u] /\ u \in Uuids  BY <2>3 DEF Alike
    <3>2. CASE a.type = "Change" /\ u = a.id /\ u \in f1
      BY <2>1, <2>3, <3>1, <3>2, PlayedLook
    <3>3. CASE ~(a.type = "Change" /\ u = a.id /\ u \in f1)
      BY <2>1, <2>3, <3>1, <3>3, PlayedLook
    <3> QED BY <3>2, <3>3
  <2> QED BY <2>2, <2>4, <2>5, <2>6 DEF Alike
<1>5. n \in T
  <2> HIDE DEF D
  <2>1. T \in SUBSET (0..n) /\ 0 \in T /\ \A i \in 1..n : i - 1 \in T => i \in T
    BY <1>0, <1>3, <1>4
  <2> HIDE DEF T
  <2>2. T = 0..n  BY <1>0, <2>1, Upward
  <2> QED BY <1>0, <2>2
<1> QED BY <1>5 DEF f, g

-----------------------------------------------------------------------------
(* The elements of a page and their uuids.                                 *)

IdsOf(d) == [i \in 1..Len(d) |-> d[i].id]
Distinct(s) == \A i, j \in 1..Len(s) : s[i] = s[j] => i = j

(* The uuids of a list of elements. *)
LEMMA IdsIs ==
  ASSUME NEW d \in Seq(Element)
  PROVE  /\ IdsOf(d) \in Seq(Uuids) /\ Len(IdsOf(d)) = Len(d)
         /\ \A i \in 1..Len(d) : IdsOf(d)[i] = d[i].id
<1>1. Len(d) \in Nat /\ \A i \in 1..Len(d) : d[i].id \in Uuids
  <2>1. Len(d) \in Nat /\ \A i \in 1..Len(d) : d[i] \in Element  BY LenProperties, ElementOfSeq
  <2> QED BY <2>1 DEF Element
<1> DEFINE n == Len(d)
<1>2. IdsOf(d) = [i \in 1..n |-> d[i].id]  BY DEF IdsOf
<1>3. n \in Nat /\ \A i \in 1..n : d[i].id \in Uuids  BY <1>1
<1> HIDE DEF n
<1>4. [i \in 1..n |-> d[i].id] \in Seq(Uuids) /\ Len([i \in 1..n |-> d[i].id]) = n
  BY <1>3
<1> QED BY <1>2, <1>4 DEF n

(* An element put on top. *)
LEMMA IdsAppend ==
  ASSUME NEW d \in Seq(Element), NEW e \in Element
  PROVE  IdsOf(Append(d, e)) = Append(IdsOf(d), e.id)
<1> DEFINE n == Len(d)
           s == IdsOf(Append(d, e))
           t == Append(IdsOf(d), e.id)
<1>0. e.id \in Uuids  BY DEF Element
<1>1. n \in Nat /\ IdsOf(d) \in Seq(Uuids) /\ Len(IdsOf(d)) = n /\ \A i \in 1..n : IdsOf(d)[i] = d[i].id
  BY IdsIs, LenProperties
<1>2. /\ Append(d, e) \in Seq(Element) /\ Len(Append(d, e)) = n + 1
      /\ \A i \in 1..n : Append(d, e)[i] = d[i]
      /\ Append(d, e)[n + 1] = e
  BY AppendProperties
<1>3. /\ s \in Seq(Uuids) /\ Len(s) = Len(Append(d, e))
      /\ \A i \in 1..Len(Append(d, e)) : s[i] = Append(d, e)[i].id
  BY <1>2, IdsIs
<1>4. /\ t \in Seq(Uuids) /\ Len(t) = Len(IdsOf(d)) + 1
      /\ \A i \in 1..Len(IdsOf(d)) : t[i] = IdsOf(d)[i]
      /\ t[Len(IdsOf(d)) + 1] = e.id
  BY <1>0, <1>1, AppendProperties
<1> HIDE DEF s, t, n
<1>5. Len(s) = n + 1 /\ Len(t) = n + 1  BY <1>1, <1>2, <1>3, <1>4
<1>6. ASSUME NEW i \in 1..(n + 1) PROVE s[i] = t[i]
  <2>1. CASE i = n + 1  BY <1>1, <1>2, <1>3, <1>4, <2>1
  <2>2. CASE i \in 1..n  BY <1>1, <1>2, <1>3, <1>4, <2>2
  <2> QED BY <1>1, <2>1, <2>2
<1>7. s = t  BY <1>3, <1>4, <1>5, <1>6, SeqEqual
<1> QED BY <1>7 DEF s, t

(* An element taken out. *)
LEMMA IdsRemove ==
  ASSUME NEW d \in Seq(Element), NEW k \in 1..Len(d)
  PROVE  IdsOf(RemoveAt(d, k)) = RemoveAt(IdsOf(d), k)
<1> DEFINE n == Len(d)
           s == IdsOf(RemoveAt(d, k))
           t == RemoveAt(IdsOf(d), k)
<1>1. /\ n \in Nat /\ IdsOf(d) \in Seq(Uuids) /\ Len(IdsOf(d)) = n /\ k \in 1..n
      /\ \A i \in 1..n : IdsOf(d)[i] = d[i].id
  BY IdsIs, LenProperties
<1>2. /\ RemoveAt(d, k) \in Seq(Element) /\ Len(RemoveAt(d, k)) = n - 1
      /\ \A i \in 1..(n - 1) : RemoveAt(d, k)[i] = IF i < k THEN d[i] ELSE d[i + 1]
  BY Removed
<1>3. /\ s \in Seq(Uuids) /\ Len(s) = Len(RemoveAt(d, k))
      /\ \A i \in 1..Len(RemoveAt(d, k)) : s[i] = RemoveAt(d, k)[i].id
  BY <1>2, IdsIs
<1>4. /\ t \in Seq(Uuids) /\ Len(t) = Len(IdsOf(d)) - 1
      /\ \A i \in 1..(Len(IdsOf(d)) - 1) : t[i] = IF i < k THEN IdsOf(d)[i] ELSE IdsOf(d)[i + 1]
  BY <1>1, Removed
<1> HIDE DEF s, t, n
<1>5. Len(s) = n - 1 /\ Len(t) = n - 1  BY <1>1, <1>2, <1>3, <1>4
<1>6. ASSUME NEW i \in 1..(n - 1) PROVE s[i] = t[i]
  <2>1. i \in 1..n /\ i + 1 \in 1..n  BY <1>1
  <2>2. CASE i < k
    <3>1. s[i] = d[i].id /\ t[i] = IdsOf(d)[i]  BY <1>1, <1>2, <1>3, <1>4, <2>2
    <3> QED BY <1>1, <2>1, <3>1
  <2>3. CASE ~(i < k)
    <3>1. s[i] = d[i + 1].id /\ t[i] = IdsOf(d)[i + 1]  BY <1>1, <1>2, <1>3, <1>4, <2>3
    <3> QED BY <1>1, <2>1, <3>1
  <2> QED BY <2>2, <2>3
<1>7. s = t  BY <1>3, <1>4, <1>5, <1>6, SeqEqual
<1> QED BY <1>7 DEF s, t

(* A list with one element before it. *)
LEMMA Preceded ==
  ASSUME NEW S, NEW s \in Seq(S), NEW e \in S
  PROVE  /\ <<e>> \o s \in Seq(S) /\ Len(<<e>> \o s) = Len(s) + 1
         /\ (<<e>> \o s)[1] = e
         /\ \A i \in 1..Len(s) : (<<e>> \o s)[i + 1] = s[i]
<1> DEFINE n == Len(s)
           t == <<e>> \o s
<1>0. n \in Nat /\ <<e>> \in Seq(S) /\ Len(<<e>>) = 1 /\ <<e>>[1] = e  BY LenProperties
<1>1. /\ t \in Seq(S) /\ Len(t) = 1 + n
      /\ \A i \in 1..(1 + n) : t[i] = IF i <= 1 THEN <<e>>[i] ELSE s[i - 1]
  <2>1. /\ t \in Seq(S) /\ Len(t) = Len(<<e>>) + Len(s)
        /\ \A i \in 1..(Len(<<e>>) + Len(s)) : t[i] = IF i <= Len(<<e>>) THEN <<e>>[i] ELSE s[i - Len(<<e>>)]
    BY <1>0, ConcatProperties
  <2> QED BY <1>0, <2>1
<1> HIDE DEF n, t
<1>2. Len(t) = n + 1 /\ t[1] = e /\ \A i \in 1..n : t[i + 1] = s[i]  BY <1>0, <1>1
<1> QED BY <1>1, <1>2 DEF n, t

(* An element put below the others. *)
LEMMA IdsPreceded ==
  ASSUME NEW d \in Seq(Element), NEW e \in Element
  PROVE  IdsOf(<<e>> \o d) = <<e.id>> \o IdsOf(d)
<1> DEFINE n == Len(d)
           s == IdsOf(<<e>> \o d)
           t == <<e.id>> \o IdsOf(d)
<1>0. e.id \in Uuids  BY DEF Element
<1>1. n \in Nat /\ IdsOf(d) \in Seq(Uuids) /\ Len(IdsOf(d)) = n /\ \A i \in 1..n : IdsOf(d)[i] = d[i].id
  BY IdsIs, LenProperties
<1>2. /\ <<e>> \o d \in Seq(Element) /\ Len(<<e>> \o d) = n + 1
      /\ (<<e>> \o d)[1] = e /\ \A i \in 1..n : (<<e>> \o d)[i + 1] = d[i]
  BY Preceded
<1>3. /\ s \in Seq(Uuids) /\ Len(s) = Len(<<e>> \o d)
      /\ \A i \in 1..Len(<<e>> \o d) : s[i] = (<<e>> \o d)[i].id
  BY <1>2, IdsIs
<1>4. /\ t \in Seq(Uuids) /\ Len(t) = Len(IdsOf(d)) + 1
      /\ t[1] = e.id /\ \A i \in 1..Len(IdsOf(d)) : t[i + 1] = IdsOf(d)[i]
  BY <1>0, <1>1, Preceded
<1> HIDE DEF s, t, n
<1>5. Len(s) = n + 1 /\ Len(t) = n + 1  BY <1>1, <1>2, <1>3, <1>4
<1>6. ASSUME NEW i \in 1..(n + 1) PROVE s[i] = t[i]
  <2>1. CASE i = 1  BY <1>1, <1>2, <1>3, <1>4, <2>1
  <2>2. CASE i # 1
    <3>1. i - 1 \in 1..n /\ i = (i - 1) + 1  BY <1>1, <2>2
    <3>2. s[(i - 1) + 1] = d[i - 1].id /\ t[(i - 1) + 1] = IdsOf(d)[i - 1]
      BY <1>1, <1>2, <1>3, <1>4, <3>1
    <3> QED BY <1>1, <3>1, <3>2
  <2> QED BY <2>1, <2>2
<1>7. s = t  BY <1>3, <1>4, <1>5, <1>6, SeqEqual
<1> QED BY <1>7 DEF s, t

(* An element that is drawn once is found where it is. *)
LEMMA OthersOne ==
  ASSUME NEW s \in Seq(Uuids), NEW k \in 1..Len(s), Distinct(s)
  PROVE  Drawn(s, s[k]) # {} /\ Others(s, s[k]) = RemoveAt(s, k)
<1>1. Drawn(s, s[k]) = {k}
  <2>1. DOMAIN s = 1..Len(s)  BY LenProperties
  <2> QED BY <2>1 DEF Drawn, Distinct
<1>2. Lowest({k}) = k
  <2>1. k \in Nat  BY LenProperties
  <2> QED BY <2>1 DEF Lowest
<1> QED BY <1>1, <1>2 DEF Others

-----------------------------------------------------------------------------
(* Lists in which nothing comes twice, and pages, on which nothing does.   *)

Apart(s, t) == \A i \in 1..Len(s), j \in 1..Len(t) : s[i] # t[j]

(* Something new put on top. *)
LEMMA DistinctAppend ==
  ASSUME NEW S, NEW s \in Seq(S), NEW e \in S, Distinct(s), \A i \in 1..Len(s) : s[i] # e
  PROVE  Distinct(Append(s, e))
<1> DEFINE n == Len(s)
           t == Append(s, e)
<1>1. n \in Nat /\ Len(t) = n + 1 /\ (\A i \in 1..n : t[i] = s[i]) /\ t[n + 1] = e
  BY AppendProperties, LenProperties
<1>2. (\A i, j \in 1..n : s[i] = s[j] => i = j) /\ \A i \in 1..n : s[i] # e  BY DEF Distinct
<1> HIDE DEF n, t
<1>3. \A i, j \in 1..(n + 1) : t[i] = t[j] => i = j
  <2> SUFFICES ASSUME NEW i \in 1..(n + 1), NEW j \in 1..(n + 1), t[i] = t[j] PROVE i = j
    OBVIOUS
  <2>1. (i \in 1..n \/ i = n + 1) /\ (j \in 1..n \/ j = n + 1)  BY <1>1
  <2> QED BY <1>1, <1>2, <2>1
<1>4. Distinct(t)  BY <1>1, <1>3 DEF Distinct
<1> QED BY <1>4 DEF t

(* Something new put below. *)
LEMMA DistinctPreceded ==
  ASSUME NEW S, NEW s \in Seq(S), NEW e \in S, Distinct(s), \A i \in 1..Len(s) : s[i] # e
  PROVE  Distinct(<<e>> \o s)
<1> DEFINE n == Len(s)
           t == <<e>> \o s
<1>1. n \in Nat /\ Len(t) = n + 1 /\ (\A i \in 1..n : t[i + 1] = s[i]) /\ t[1] = e
  BY Preceded, LenProperties
<1>2. (\A i, j \in 1..n : s[i] = s[j] => i = j) /\ \A i \in 1..n : s[i] # e  BY DEF Distinct
<1> HIDE DEF n, t
<1>3. \A i, j \in 1..(n + 1) : t[i] = t[j] => i = j
  <2> SUFFICES ASSUME NEW i \in 1..(n + 1), NEW j \in 1..(n + 1), t[i] = t[j] PROVE i = j
    OBVIOUS
  <2>1. \A k \in 1..(n + 1) : k = 1 \/ (k - 1 \in 1..n /\ t[k] = s[k - 1])
    <3> SUFFICES ASSUME NEW k \in 1..(n + 1), k # 1 PROVE k - 1 \in 1..n /\ t[k] = s[k - 1]
      OBVIOUS
    <3>1. k - 1 \in 1..n /\ k = (k - 1) + 1  BY <1>1
    <3>2. t[(k - 1) + 1] = s[k - 1]  BY <1>1, <3>1
    <3> QED BY <3>1, <3>2
  <2>2. CASE i = 1 /\ j = 1  BY <2>2
  <2>3. CASE i = 1 /\ j # 1  BY <1>1, <1>2, <2>1, <2>3
  <2>4. CASE i # 1 /\ j = 1  BY <1>1, <1>2, <2>1, <2>4
  <2>5. CASE i # 1 /\ j # 1
    <3>1. i - 1 \in 1..n /\ j - 1 \in 1..n /\ s[i - 1] = s[j - 1]  BY <2>1, <2>5
    <3>2. i - 1 = j - 1  BY <1>2, <3>1
    <3> QED BY <1>1, <3>2
  <2> QED BY <2>2, <2>3, <2>4, <2>5
<1>4. Distinct(t)  BY <1>1, <1>3 DEF Distinct
<1> QED BY <1>4 DEF t

(* Something taken out is out. *)
LEMMA DistinctRemove ==
  ASSUME NEW S, NEW s \in Seq(S), NEW k \in 1..Len(s), Distinct(s)
  PROVE  /\ Distinct(RemoveAt(s, k))
         /\ \A i \in 1..Len(RemoveAt(s, k)) : /\ RemoveAt(s, k)[i] # s[k]
                                              /\ \E j \in 1..Len(s) : RemoveAt(s, k)[i] = s[j]
<1> DEFINE n == Len(s)
           t == RemoveAt(s, k)
           At(i) == IF i < k THEN i ELSE i + 1
<1>1. /\ n \in Nat /\ k \in 1..n /\ Len(t) = n - 1
      /\ \A i \in 1..(n - 1) : t[i] = IF i < k THEN s[i] ELSE s[i + 1]
  BY Removed, LenProperties
<1>2. \A i, j \in 1..n : s[i] = s[j] => i = j  BY DEF Distinct
<1> HIDE DEF n, t
<1>3. \A i \in 1..(n - 1) : At(i) \in 1..n /\ At(i) # k /\ t[i] = s[At(i)]
  BY <1>1
<1>4. \A i, j \in 1..(n - 1) : At(i) = At(j) => i = j
  BY <1>1
<1> HIDE DEF At
<1>5. \A i, j \in 1..(n - 1) : t[i] = t[j] => i = j  BY <1>2, <1>3, <1>4
<1>6. \A i \in 1..(n - 1) : t[i] # s[k] /\ \E j \in 1..n : t[i] = s[j]  BY <1>1, <1>2, <1>3
<1>7. Distinct(t)  BY <1>1, <1>5 DEF Distinct
<1> QED BY <1>1, <1>6, <1>7 DEF n, t

(* Dropping the last is taking it out. *)
LEMMA FrontIs ==
  ASSUME NEW S, NEW s \in Seq(S), s # <<>>
  PROVE  Len(s) \in 1..Len(s) /\ Front(s) = RemoveAt(s, Len(s)) /\ Last(s) = s[Len(s)]
<1> DEFINE n == Len(s)
<1>1. n \in Nat /\ n # 0 /\ n \in 1..n  BY LenProperties, EmptySeq
<1>2. /\ RemoveAt(s, n) \in Seq(S) /\ Len(RemoveAt(s, n)) = n - 1
      /\ \A j \in 1..(n - 1) : RemoveAt(s, n)[j] = IF j < n THEN s[j] ELSE s[j + 1]
  BY <1>1, Removed
<1>3. Front(s) = SubSeq(s, 1, n - 1) /\ Last(s) = s[n]  BY DEF Front, Last
<1>4. /\ SubSeq(s, 1, n - 1) \in Seq(S) /\ Len(SubSeq(s, 1, n - 1)) = n - 1
      /\ \A i \in 1..(n - 1) : SubSeq(s, 1, n - 1)[i] = s[i]
  <2>0. 1 \in Nat /\ n - 1 \in Nat /\ \A i \in 1..(n - 1) : s[i] \in S /\ i \in 1..n
    BY <1>1, ElementOfSeq
  <2>1. /\ SubSeq(s, 1, n - 1) \in Seq(S)
        /\ Len(SubSeq(s, 1, n - 1)) = IF 1 <= n - 1 THEN n - 1 - 1 + 1 ELSE 0
        /\ \A i \in 1..(n - 1 - 1 + 1) : SubSeq(s, 1, n - 1)[i] = s[1 + i - 1]
    BY <1>1, <2>0, SubSeqProperties
  <2> HIDE DEF n
  <2> QED BY <1>1, <2>1
<1> HIDE DEF n
<1>5. \A i \in 1..(n - 1) : SubSeq(s, 1, n - 1)[i] = RemoveAt(s, n)[i]  BY <1>1, <1>2, <1>4
<1>6. SubSeq(s, 1, n - 1) = RemoveAt(s, n)  BY <1>2, <1>4, <1>5, SeqEqual
<1> QED BY <1>1, <1>3, <1>6 DEF n

(* Of a uuid there is one object. *)
LEMMA OnceIs ==
  ASSUME NEW d \in Seq(Element)
  PROVE  NoneTwice(d) <=> Distinct(IdsOf(d))
<1>0. \A e, f \in Element : SameObject(e, f) <=> e.id = f.id
  BY LessonAssumption DEF Element, SameObject
<1>1. DOMAIN d = 1..Len(d) /\ \A i \in 1..Len(d) : d[i] \in Element
  BY LenProperties, ElementOfSeq
<1>2. Len(IdsOf(d)) = Len(d) /\ \A i \in 1..Len(d) : IdsOf(d)[i] = d[i].id
  BY IdsIs
<1> DEFINE n == Len(d)
           s == IdsOf(d)
<1> HIDE DEF n, s
<1>3. NoneTwice(d) <=> \A i, j \in 1..n : SameObject(d[i], d[j]) => i = j
  BY <1>1, Zenon DEF n, NoneTwice
<1>4. Distinct(s) <=> \A i, j \in 1..n : s[i] = s[j] => i = j
  BY <1>2, Zenon DEF n, s, Distinct
<1>5. \A i, j \in 1..n : SameObject(d[i], d[j]) <=> s[i] = s[j]
  <2>1. \A i \in 1..n : d[i] \in Element /\ s[i] = d[i].id  BY <1>1, <1>2 DEF n, s
  <2> QED BY <1>0, <2>1, Zenon
<1>6. NoneTwice(d) <=> Distinct(s)  BY <1>3, <1>4, <1>5, Zenon
<1> QED BY <1>6 DEF s

(* Two lists with no object in common have no uuid in common. *)
LEMMA ApartIs ==
  ASSUME NEW d \in Seq(Element), NEW c \in Seq(Element)
  PROVE  (\A i \in DOMAIN d, j \in DOMAIN c : ~SameObject(d[i], c[j])) <=> Apart(IdsOf(d), IdsOf(c))
<1>0. \A e, f \in Element : SameObject(e, f) <=> e.id = f.id
  BY LessonAssumption DEF Element, SameObject
<1>1. /\ DOMAIN d = 1..Len(d) /\ \A i \in 1..Len(d) : d[i] \in Element
      /\ DOMAIN c = 1..Len(c) /\ \A i \in 1..Len(c) : c[i] \in Element
  BY LenProperties, ElementOfSeq
<1>2. /\ Len(IdsOf(d)) = Len(d) /\ \A i \in 1..Len(d) : IdsOf(d)[i] = d[i].id
      /\ Len(IdsOf(c)) = Len(c) /\ \A i \in 1..Len(c) : IdsOf(c)[i] = c[i].id
  BY IdsIs
<1> DEFINE n == Len(d)
           s == IdsOf(d)
           m == Len(c)
           t == IdsOf(c)
<1> HIDE DEF n, s, m, t
<1>3. Apart(s, t) <=> \A i \in 1..n, j \in 1..m : s[i] # t[j]
  BY <1>2, Zenon DEF n, s, m, t, Apart
<1>4. \A i \in 1..n, j \in 1..m : SameObject(d[i], c[j]) <=> s[i] = t[j]
  <2>1. /\ \A i \in 1..n : d[i] \in Element /\ s[i] = d[i].id
        /\ \A j \in 1..m : c[j] \in Element /\ t[j] = c[j].id
    BY <1>1, <1>2 DEF n, s, m, t
  <2> QED BY <1>0, <2>1, Zenon
<1>5. DOMAIN d = 1..n /\ DOMAIN c = 1..m  BY <1>1 DEF n, m
<1>6. (\A i \in DOMAIN d, j \in DOMAIN c : ~SameObject(d[i], c[j])) <=> Apart(s, t)
  BY <1>3, <1>4, <1>5, Zenon
<1> QED BY <1>6 DEF s, t

(* What a page is, of uuids. *)
PageOfIds(p) ==
  /\ \A u \in Uuids : p.found[u] <= p.copies[u] /\ (p.found[u] = 0 => p.copies[u] = 0)
  /\ Distinct(IdsOf(p.drawn)) /\ Distinct(IdsOf(p.undos))
  /\ Apart(IdsOf(p.drawn), IdsOf(p.undos))

(* A page of the right shape is one in this sense. *)
LEMMA PageMeans ==
  ASSUME NEW p \in PageSet
  PROVE  IsPage(p) <=> PageOfIds(p)
<1>1. p.drawn \in Seq(Element) /\ p.undos \in Seq(Element)  BY DEF PageSet
<1>2. /\ NoneTwice(p.drawn) <=> Distinct(IdsOf(p.drawn))
      /\ NoneTwice(p.undos) <=> Distinct(IdsOf(p.undos))
  BY <1>1, OnceIs
<1>3. (\A i \in DOMAIN p.drawn, j \in DOMAIN p.undos : ~SameObject(p.drawn[i], p.undos[j]))
        <=> Apart(IdsOf(p.drawn), IdsOf(p.undos))
  BY <1>1, ApartIs
<1> QED BY <1>2, <1>3, Zenon DEF IsPage, PageOfIds

-----------------------------------------------------------------------------
(* What the operations of a page do to it and to its uuids, when all its   *)
(* elements are of A.                                                      *)

(* Taking the element at a place away. *)
LEMMA PageRemoved ==
  ASSUME NEW A \in SUBSET Element, NEW p \in PageSet, IsPage(p),
         p.drawn \in Seq(A), p.undos \in Seq(A), NEW k \in 1..Len(p.drawn)
  PROVE  /\ RemoveDrawn(p, k) \in PageSet /\ IsPage(RemoveDrawn(p, k))
         /\ RemoveDrawn(p, k).drawn = RemoveAt(p.drawn, k)
         /\ RemoveDrawn(p, k).drawn \in Seq(A) /\ RemoveDrawn(p, k).undos \in Seq(A)
         /\ RemoveDrawn(p, k).copies = p.copies
         /\ IdsOf(RemoveDrawn(p, k).drawn) = RemoveAt(IdsOf(p.drawn), k)
<1> DEFINE q == RemoveDrawn(p, k)
           d == p.drawn
           c == p.undos
           s == IdsOf(d)
           t == IdsOf(c)
<1>1. d \in Seq(Element) /\ c \in Seq(Element) /\ d[k] \in A /\ d[k] \in Element
  <2>1. p.drawn \in Seq(Element) /\ p.undos \in Seq(Element)  BY DEF PageSet
  <2> QED BY <2>1, ElementOfSeq
<1>2. /\ RemoveAt(d, k) \in Seq(A) /\ RemoveAt(d, k) \in Seq(Element)
      /\ Append(c, d[k]) \in Seq(A) /\ Append(c, d[k]) \in Seq(Element)
  BY <1>1, Removed, AppendProperties
<1>3. q = [p EXCEPT !.drawn = RemoveAt(d, k), !.undos = Append(c, d[k])]  BY DEF RemoveDrawn
<1>4. /\ q \in PageSet /\ q.drawn = RemoveAt(d, k) /\ q.undos = Append(c, d[k])
      /\ q.copies = p.copies /\ q.found = p.found
  BY <1>2, <1>3 DEF PageSet
<1>5. PageOfIds(p)  BY PageMeans
<1>6. /\ s \in Seq(Uuids) /\ Len(s) = Len(d) /\ t \in Seq(Uuids) /\ Len(t) = Len(c)
      /\ s[k] = d[k].id /\ s[k] \in Uuids
  <2>1. d[k].id \in Uuids  BY <1>1 DEF Element
  <2> QED BY <1>1, <2>1, IdsIs
<1>7. IdsOf(q.drawn) = RemoveAt(s, k) /\ IdsOf(q.undos) = Append(t, s[k])
  BY <1>1, <1>4, <1>6, IdsRemove, IdsAppend
<1> HIDE DEF q, d, c, s, t
<1>8. /\ Distinct(s) /\ Distinct(t) /\ Apart(s, t) /\ k \in 1..Len(s)
  BY <1>5, <1>6, Zenon DEF PageOfIds, s, t, d, c
<1>9. /\ Distinct(RemoveAt(s, k))
      /\ \A i \in 1..Len(RemoveAt(s, k)) : /\ RemoveAt(s, k)[i] # s[k]
                                           /\ \E j \in 1..Len(s) : RemoveAt(s, k)[i] = s[j]
  BY <1>6, <1>8, DistinctRemove
<1>10. Distinct(Append(t, s[k]))
  <2>1. \A i \in 1..Len(t) : t[i] # s[k]  BY <1>8, Zenon DEF Apart
  <2> QED BY <1>6, <1>8, <2>1, DistinctAppend
<1>11. Apart(RemoveAt(s, k), Append(t, s[k]))
  <2>1. /\ Len(t) \in Nat /\ Len(Append(t, s[k])) = Len(t) + 1
        /\ Append(t, s[k])[Len(t) + 1] = s[k]
        /\ \A j \in 1..Len(t) : Append(t, s[k])[j] = t[j]
    BY <1>6, AppendProperties, LenProperties
  <2> DEFINE m == Len(t)
  <2> HIDE DEF m
  <2>2. \A j \in 1..(m + 1) : j = m + 1 \/ j \in 1..m  BY <2>1 DEF m
  <2>3. \A j \in 1..Len(Append(t, s[k])) : Append(t, s[k])[j] = s[k] \/ \E n \in 1..Len(t) : Append(t, s[k])[j] = t[n]
    BY <2>1, <2>2, Zenon DEF m
  <2> QED BY <1>8, <1>9, <2>3, Zenon DEF Apart
<1>12. PageOfIds(q)
  <2>1. \A u \in Uuids : q.found[u] <= q.copies[u] /\ (q.found[u] = 0 => q.copies[u] = 0)
    BY <1>4, <1>5, Zenon DEF PageOfIds
  <2> QED BY <1>7, <1>9, <1>10, <1>11, <2>1, Zenon DEF PageOfIds
<1>13. IsPage(q)  BY <1>4, <1>12, PageMeans
<1> QED BY <1>2, <1>4, <1>7, <1>13 DEF q, d, c, s

(* Putting back what was undone last. *)
LEMMA PageRedone ==
  ASSUME NEW A \in SUBSET Element, NEW p \in PageSet, IsPage(p),
         p.drawn \in Seq(A), p.undos \in Seq(A), p.undos # <<>>
  PROVE  /\ OnRedo(p) \in PageSet /\ IsPage(OnRedo(p))
         /\ Last(p.undos) \in A
         /\ OnRedo(p).drawn = Append(p.drawn, Last(p.undos))
         /\ OnRedo(p).drawn \in Seq(A) /\ OnRedo(p).undos \in Seq(A)
         /\ OnRedo(p).copies = p.copies
         /\ IdsOf(OnRedo(p).drawn) = Append(IdsOf(p.drawn), Last(p.undos).id)
<1> DEFINE q == OnRedo(p)
           d == p.drawn
           c == p.undos
           k == Len(c)
           s == IdsOf(d)
           t == IdsOf(c)
<1>1. d \in Seq(Element) /\ c \in Seq(Element)  BY DEF PageSet
<1>2. k \in 1..Len(c) /\ Front(c) = RemoveAt(c, k) /\ Last(c) = c[k]  BY <1>1, FrontIs
<1>3. c[k] \in A /\ c[k] \in Element  BY <1>2, ElementOfSeq
<1>4. /\ RemoveAt(c, k) \in Seq(A) /\ RemoveAt(c, k) \in Seq(Element)
      /\ Append(d, c[k]) \in Seq(A) /\ Append(d, c[k]) \in Seq(Element)
  BY <1>1, <1>2, <1>3, Removed, AppendProperties
<1>5. q = [p EXCEPT !.drawn = Append(d, c[k]), !.undos = RemoveAt(c, k)]  BY <1>2 DEF OnRedo
<1>6. /\ q \in PageSet /\ q.undos = RemoveAt(c, k) /\ q.drawn = Append(d, c[k])
      /\ q.copies = p.copies /\ q.found = p.found
  BY <1>4, <1>5 DEF PageSet
<1>7. PageOfIds(p)  BY PageMeans
<1>8. /\ s \in Seq(Uuids) /\ Len(s) = Len(d) /\ t \in Seq(Uuids) /\ Len(t) = Len(c)
      /\ t[k] = c[k].id /\ t[k] \in Uuids
  <2>1. c[k].id \in Uuids  BY <1>3 DEF Element
  <2> QED BY <1>1, <1>2, <2>1, IdsIs
<1>9. IdsOf(q.undos) = RemoveAt(t, k) /\ IdsOf(q.drawn) = Append(s, t[k])
  BY <1>1, <1>2, <1>3, <1>6, <1>8, IdsRemove, IdsAppend
<1>10. k \in 1..Len(t)  BY <1>2, <1>8
<1> HIDE DEF q, d, c, k, s, t
<1>11. Distinct(s) /\ Distinct(t) /\ Apart(s, t)
  BY <1>7, Zenon DEF PageOfIds, s, t, d, c
<1>12. /\ Distinct(RemoveAt(t, k))
       /\ \A i \in 1..Len(RemoveAt(t, k)) : /\ RemoveAt(t, k)[i] # t[k]
                                            /\ \E j \in 1..Len(t) : RemoveAt(t, k)[i] = t[j]
  BY <1>8, <1>10, <1>11, DistinctRemove
<1>13. Distinct(Append(s, t[k]))
  <2>1. \A i \in 1..Len(s) : s[i] # t[k]  BY <1>10, <1>11, Zenon DEF Apart
  <2> QED BY <1>8, <1>11, <2>1, DistinctAppend
<1>14. Apart(Append(s, t[k]), RemoveAt(t, k))
  <2>1. /\ Len(s) \in Nat /\ Len(Append(s, t[k])) = Len(s) + 1
        /\ Append(s, t[k])[Len(s) + 1] = t[k]
        /\ \A j \in 1..Len(s) : Append(s, t[k])[j] = s[j]
    BY <1>8, AppendProperties, LenProperties
  <2> DEFINE m == Len(s)
  <2> HIDE DEF m
  <2>2. \A j \in 1..(m + 1) : j = m + 1 \/ j \in 1..m  BY <2>1 DEF m
  <2>3. \A j \in 1..Len(Append(s, t[k])) : Append(s, t[k])[j] = t[k] \/ \E n \in 1..Len(s) : Append(s, t[k])[j] = s[n]
    BY <2>1, <2>2, Zenon DEF m
  <2> DEFINE v == Append(s, t[k])
             w == RemoveAt(t, k)
  <2>4. \A i \in 1..Len(s), j \in 1..Len(t) : s[i] # t[j]  BY <1>11 DEF Apart
  <2> HIDE DEF v, w
  <2>5. \A i \in 1..Len(v) : v[i] = t[k] \/ \E n \in 1..Len(s) : v[i] = s[n]
    BY <2>3, Zenon DEF v
  <2>6. \A j \in 1..Len(w) : w[j] # t[k] /\ \E n \in 1..Len(t) : w[j] = t[n]
    BY <1>12, Zenon DEF w
  <2>7. \A i \in 1..Len(v), j \in 1..Len(w) : v[i] # w[j]
    <3> SUFFICES ASSUME NEW i \in 1..Len(v), NEW j \in 1..Len(w) PROVE v[i] # w[j]
      OBVIOUS
    <3>1. PICK n \in 1..Len(t) : w[j] = t[n]  BY <2>6
    <3>2. CASE v[i] = t[k]  BY <2>6, <3>2
    <3>3. CASE \E m1 \in 1..Len(s) : v[i] = s[m1]
      <4>1. PICK m1 \in 1..Len(s) : v[i] = s[m1]  BY <3>3
      <4>2. s[m1] # t[n]  BY <2>4
      <4> QED BY <3>1, <4>1, <4>2
    <3> QED BY <2>5, <3>2, <3>3
  <2>8. Apart(v, w)  BY <2>7 DEF Apart
  <2> QED BY <2>8 DEF v, w
<1>15. PageOfIds(q)
  <2>1. \A u \in Uuids : q.found[u] <= q.copies[u] /\ (q.found[u] = 0 => q.copies[u] = 0)
    BY <1>6, <1>7, Zenon DEF PageOfIds
  <2> QED BY <1>9, <1>12, <1>13, <1>14, <2>1, Zenon DEF PageOfIds
<1>16. IsPage(q)  BY <1>6, <1>15, PageMeans
<1> QED BY <1>2, <1>3, <1>4, <1>6, <1>8, <1>9, <1>16 DEF q, d, c, s

(* What changes neither the uuids there are nor what is undone, but their  *)
(* order or their looks.                                                   *)
LEMMA PageReordered ==
  ASSUME NEW p \in PageSet, IsPage(p), NEW q \in PageSet,
         q.copies = p.copies, q.found = p.found, q.undos = p.undos,
         Distinct(IdsOf(q.drawn)),
         \A i \in 1..Len(IdsOf(q.drawn)) :
           \E j \in 1..Len(IdsOf(p.drawn)) : IdsOf(q.drawn)[i] = IdsOf(p.drawn)[j]
  PROVE  IsPage(q)
<1>1. PageOfIds(p)  BY PageMeans
<1>2. Apart(IdsOf(q.drawn), IdsOf(q.undos))
  <2> DEFINE v == IdsOf(q.drawn)
             s == IdsOf(p.drawn)
             t == IdsOf(p.undos)
  <2>1. \A i \in 1..Len(s), j \in 1..Len(t) : s[i] # t[j]  BY <1>1 DEF PageOfIds, Apart
  <2>2. \A i \in 1..Len(v) : \E j \in 1..Len(s) : v[i] = s[j]  OBVIOUS
  <2> HIDE DEF v, s, t
  <2>3. \A i \in 1..Len(v), j \in 1..Len(t) : v[i] # t[j]
    <3> SUFFICES ASSUME NEW i \in 1..Len(v), NEW j \in 1..Len(t) PROVE v[i] # t[j]
      OBVIOUS
    <3>1. PICK k \in 1..Len(s) : v[i] = s[k]  BY <2>2
    <3>2. s[k] # t[j]  BY <2>1
    <3> QED BY <3>1, <3>2
  <2> QED BY <2>3 DEF v, t, Apart
<1>3. PageOfIds(q)  BY <1>1, <1>2, Zenon DEF PageOfIds
<1> QED BY <1>3, PageMeans

(* Putting one element on top of the others. *)
LEMMA PageTopMost ==
  ASSUME NEW A \in SUBSET Element, NEW p \in PageSet, IsPage(p),
         p.drawn \in Seq(A), NEW k \in 1..Len(p.drawn)
  PROVE  /\ TopMost(p, k) \in PageSet /\ IsPage(TopMost(p, k))
         /\ TopMost(p, k).drawn \in Seq(A) /\ TopMost(p, k).undos = p.undos
         /\ TopMost(p, k).copies = p.copies
         /\ IdsOf(TopMost(p, k).drawn) = Append(RemoveAt(IdsOf(p.drawn), k), IdsOf(p.drawn)[k])
<1> DEFINE q == TopMost(p, k)
           d == p.drawn
           r == RemoveAt(d, k)
           s == IdsOf(d)
           t == RemoveAt(s, k)
<1>1. d \in Seq(Element) /\ d[k] \in A /\ d[k] \in Element
  <2>1. p.drawn \in Seq(Element)  BY DEF PageSet
  <2> QED BY <2>1, ElementOfSeq
<1>2. r \in Seq(A) /\ r \in Seq(Element)  BY <1>1, Removed
<1>3. Append(r, d[k]) \in Seq(A) /\ Append(r, d[k]) \in Seq(Element)
  BY <1>1, <1>2, AppendProperties
<1>4. q = [p EXCEPT !.drawn = Append(r, d[k])]  BY DEF TopMost
<1>5. /\ q \in PageSet /\ q.drawn = Append(r, d[k]) /\ q.undos = p.undos
      /\ q.copies = p.copies /\ q.found = p.found
  BY <1>3, <1>4 DEF PageSet
<1>6. /\ s \in Seq(Uuids) /\ Len(s) = Len(d) /\ s[k] = d[k].id /\ s[k] \in Uuids /\ k \in 1..Len(s)
  <2>1. d[k].id \in Uuids  BY <1>1 DEF Element
  <2> QED BY <1>1, <2>1, IdsIs
<1>7. IdsOf(q.drawn) = Append(t, s[k])
  BY <1>1, <1>2, <1>5, <1>6, IdsRemove, IdsAppend
<1>8. Distinct(s)  BY PageMeans DEF PageOfIds
<1> HIDE DEF q, d, r, s
<1>9. /\ Distinct(t) /\ t \in Seq(Uuids)
      /\ \A i \in 1..Len(t) : t[i] # s[k] /\ \E j \in 1..Len(s) : t[i] = s[j]
  <2>1. t \in Seq(Uuids)  BY <1>6, Removed
  <2> QED BY <1>6, <1>8, <2>1, DistinctRemove
<1> HIDE DEF t
<1>10. Distinct(Append(t, s[k]))  BY <1>6, <1>9, DistinctAppend
<1>11. \A i \in 1..Len(Append(t, s[k])) : \E j \in 1..Len(s) : Append(t, s[k])[i] = s[j]
  <2> DEFINE m == Len(t)
  <2>1. /\ m \in Nat /\ Len(Append(t, s[k])) = m + 1
        /\ Append(t, s[k])[m + 1] = s[k]
        /\ \A j \in 1..m : Append(t, s[k])[j] = t[j]
    BY <1>6, <1>9, AppendProperties, LenProperties
  <2> HIDE DEF m
  <2>2. \A j \in 1..(m + 1) : j = m + 1 \/ j \in 1..m  BY <2>1
  <2>3. \A i \in 1..m : \E j \in 1..Len(s) : t[i] = s[j]  BY <1>9 DEF m
  <2> QED BY <1>6, <2>1, <2>2, <2>3, Zenon
<1>12. IsPage(q)
  <2>1. /\ Distinct(IdsOf(q.drawn))
        /\ \A i \in 1..Len(IdsOf(q.drawn)) :
             \E j \in 1..Len(IdsOf(p.drawn)) : IdsOf(q.drawn)[i] = IdsOf(p.drawn)[j]
    BY <1>7, <1>10, <1>11, Zenon DEF s, d
  <2> QED BY <1>5, <2>1, PageReordered
<1> QED BY <1>3, <1>5, <1>7, <1>12 DEF q, d, s, t

(* Putting one element below the others. *)
LEMMA PageBottomMost ==
  ASSUME NEW A \in SUBSET Element, NEW p \in PageSet, IsPage(p),
         p.drawn \in Seq(A), NEW k \in 1..Len(p.drawn)
  PROVE  /\ BottomMost(p, k) \in PageSet /\ IsPage(BottomMost(p, k))
         /\ BottomMost(p, k).drawn \in Seq(A) /\ BottomMost(p, k).undos = p.undos
         /\ BottomMost(p, k).copies = p.copies
         /\ IdsOf(BottomMost(p, k).drawn) = <<IdsOf(p.drawn)[k]>> \o RemoveAt(IdsOf(p.drawn), k)
<1> DEFINE q == BottomMost(p, k)
           d == p.drawn
           r == RemoveAt(d, k)
           s == IdsOf(d)
           t == RemoveAt(s, k)
<1>1. d \in Seq(Element) /\ d[k] \in A /\ d[k] \in Element
  <2>1. p.drawn \in Seq(Element)  BY DEF PageSet
  <2> QED BY <2>1, ElementOfSeq
<1>2. r \in Seq(A) /\ r \in Seq(Element)  BY <1>1, Removed
<1>3. <<d[k]>> \o r \in Seq(A) /\ <<d[k]>> \o r \in Seq(Element)
  BY <1>1, <1>2, Preceded
<1>4. q = [p EXCEPT !.drawn = <<d[k]>> \o r]  BY DEF BottomMost
<1>5. /\ q \in PageSet /\ q.drawn = <<d[k]>> \o r /\ q.undos = p.undos
      /\ q.copies = p.copies /\ q.found = p.found
  BY <1>3, <1>4 DEF PageSet
<1>6. /\ s \in Seq(Uuids) /\ Len(s) = Len(d) /\ s[k] = d[k].id /\ s[k] \in Uuids /\ k \in 1..Len(s)
  <2>1. d[k].id \in Uuids  BY <1>1 DEF Element
  <2> QED BY <1>1, <2>1, IdsIs
<1>7. IdsOf(q.drawn) = <<s[k]>> \o t
  BY <1>1, <1>2, <1>5, <1>6, IdsRemove, IdsPreceded
<1>8. Distinct(s)  BY PageMeans DEF PageOfIds
<1> HIDE DEF q, d, r, s
<1>9. /\ Distinct(t) /\ t \in Seq(Uuids)
      /\ \A i \in 1..Len(t) : t[i] # s[k] /\ \E j \in 1..Len(s) : t[i] = s[j]
  <2>1. t \in Seq(Uuids)  BY <1>6, Removed
  <2> QED BY <1>6, <1>8, <2>1, DistinctRemove
<1> HIDE DEF t
<1>10. Distinct(<<s[k]>> \o t)  BY <1>6, <1>9, DistinctPreceded
<1>11. \A i \in 1..Len(<<s[k]>> \o t) : \E j \in 1..Len(s) : (<<s[k]>> \o t)[i] = s[j]
  <2> DEFINE m == Len(t)
             v == <<s[k]>> \o t
  <2>1. /\ m \in Nat /\ Len(v) = m + 1
        /\ v[1] = s[k] /\ \A j \in 1..m : v[j + 1] = t[j]
    BY <1>6, <1>9, Preceded, LenProperties
  <2>3. \A i \in 1..m : \E j \in 1..Len(s) : t[i] = s[j]  BY <1>9
  <2> HIDE DEF m, v
  <2>2. \A j \in 1..(m + 1) : v[j] = s[k] \/ \E i \in 1..m : v[j] = t[i]
    <3> SUFFICES ASSUME NEW j \in 1..(m + 1), j # 1 PROVE \E i \in 1..m : v[j] = t[i]
      BY <2>1
    <3>1. j - 1 \in 1..m /\ j = (j - 1) + 1  BY <2>1
    <3>2. v[(j - 1) + 1] = t[j - 1]  BY <2>1, <3>1
    <3> QED BY <3>1, <3>2
  <2>4. \A i \in 1..Len(v) : \E j \in 1..Len(s) : v[i] = s[j]  BY <1>6, <2>1, <2>2, <2>3, Zenon
  <2> QED BY <2>4 DEF v
<1>12. IsPage(q)
  <2>1. /\ Distinct(IdsOf(q.drawn))
        /\ \A i \in 1..Len(IdsOf(q.drawn)) :
             \E j \in 1..Len(IdsOf(p.drawn)) : IdsOf(q.drawn)[i] = IdsOf(p.drawn)[j]
    BY <1>7, <1>10, <1>11, Zenon DEF s, d
  <2> QED BY <1>5, <2>1, PageReordered
<1> QED BY <1>3, <1>5, <1>7, <1>12 DEF q, d, s, t

(* Changing the look of one element. *)
LEMMA PageLook ==
  ASSUME NEW p \in PageSet, IsPage(p), NEW k \in 1..Len(p.drawn), NEW look \in Looks
  PROVE  /\ SetLook(p, k, look) \in PageSet /\ IsPage(SetLook(p, k, look))
         /\ Len(SetLook(p, k, look).drawn) = Len(p.drawn)
         /\ \A i \in 1..Len(p.drawn) :
              /\ SetLook(p, k, look).drawn[i].id = p.drawn[i].id
              /\ SetLook(p, k, look).drawn[i].look = IF i = k THEN look ELSE p.drawn[i].look
         /\ SetLook(p, k, look).undos = p.undos
         /\ SetLook(p, k, look).copies = p.copies
         /\ IdsOf(SetLook(p, k, look).drawn) = IdsOf(p.drawn)
<1> DEFINE q == SetLook(p, k, look)
           d == p.drawn
           e == [d[k] EXCEPT !.look = look]
           c == [d EXCEPT ![k] = e]
<1>1. d \in Seq(Element) /\ d[k] \in Element /\ e \in Element /\ e.id = d[k].id /\ e.look = look
  <2>1. d \in Seq(Element)  BY DEF PageSet
  <2>2. d[k] \in Element  BY <2>1, ElementOfSeq
  <2> QED BY <2>1, <2>2 DEF Element
<1>2. q = [p EXCEPT !.drawn = c]  BY DEF SetLook
<1> HIDE DEF e
<1>3. /\ c \in Seq(Element) /\ Len(c) = Len(d)
      /\ \A i \in 1..Len(d) : c[i] = IF i = k THEN e ELSE d[i]
  <2>1. c \in Seq(Element) /\ Len(c) = Len(d) /\ \A i \in 1..Len(d) : c[i] = IF i = k THEN e ELSE d[i]
    BY <1>1, ExceptSeq
  <2> QED BY <2>1
<1> HIDE DEF c
<1>4. /\ q \in PageSet /\ q.drawn = c /\ q.undos = p.undos
      /\ q.copies = p.copies /\ q.found = p.found
  BY <1>2, <1>3 DEF PageSet
<1> HIDE DEF q, d
<1>5. /\ IdsOf(c) \in Seq(Uuids) /\ Len(IdsOf(c)) = Len(d)
      /\ \A i \in 1..Len(d) : IdsOf(c)[i] = c[i].id
      /\ IdsOf(d) \in Seq(Uuids) /\ Len(IdsOf(d)) = Len(d)
      /\ \A i \in 1..Len(d) : IdsOf(d)[i] = d[i].id
  BY <1>1, <1>3, IdsIs
<1>6. \A i \in 1..Len(d) : c[i].id = d[i].id /\ c[i].look = IF i = k THEN look ELSE d[i].look
  BY <1>1, <1>3, Zenon
<1>7. IdsOf(c) = IdsOf(d)
  <2>1. \A i \in 1..Len(IdsOf(c)) : IdsOf(c)[i] = IdsOf(d)[i]  BY <1>5, <1>6
  <2> QED BY <1>5, <2>1, SeqEqual
<1>8. IsPage(q)
  <2>1. Distinct(IdsOf(p.drawn))  BY PageMeans DEF PageOfIds
  <2>2. IdsOf(q.drawn) = IdsOf(p.drawn)  BY <1>4, <1>7 DEF d
  <2>3. /\ Distinct(IdsOf(q.drawn))
        /\ \A i \in 1..Len(IdsOf(q.drawn)) :
             \E j \in 1..Len(IdsOf(p.drawn)) : IdsOf(q.drawn)[i] = IdsOf(p.drawn)[j]
    BY <2>1, <2>2, Zenon
  <2> QED BY <1>4, <2>3, PageReordered
<1> QED BY <1>3, <1>4, <1>6, <1>7, <1>8 DEF q, d

(* Drawing something new. *)
LEMMA PageAdded ==
  ASSUME NEW A \in SUBSET Element, NEW p \in PageSet, IsPage(p), p.drawn \in Seq(A),
         NEW u \in Uuids, NEW look \in Looks, p.copies[u] = 0,
         \A i \in 1..Len(p.drawn) : p.drawn[i].id # u,
         [id |-> u, copy |-> 1, look |-> look] \in A,
         NEW q \in AddElement(p, u, look)
  PROVE  /\ q \in PageSet /\ IsPage(q)
         /\ q.drawn = Append(p.drawn, [id |-> u, copy |-> 1, look |-> look])
         /\ q.drawn \in Seq(A) /\ q.undos = <<>>
         /\ \A v \in Uuids : q.copies[v] = IF v = u THEN 1 ELSE p.copies[v]
         /\ IdsOf(q.drawn) = Append(IdsOf(p.drawn), u)
<1> DEFINE e == [id |-> u, copy |-> 1, look |-> look]
           d == p.drawn
           D == Append(d, e)
           C == [p.copies EXCEPT ![u] = 1]
<1>1. /\ p.copies \in [Uuids -> 0..1] /\ p.found \in [Uuids -> 0..1] /\ d \in Seq(Element)
      /\ p.disabled \in BOOLEAN /\ MaxCopies = 1
  BY LessonAssumption DEF PageSet
<1>2. /\ p.found[u] = 0
      /\ \A v \in Uuids : p.found[v] <= p.copies[v] /\ (p.found[v] = 0 => p.copies[v] = 0)
  BY <1>1, PageMeans DEF PageOfIds
<1>3. NewCopy(p, u) = 1 /\ p.copies[u] + 1 = 1  BY DEF NewCopy
<1>4. Addresses(p, u) = {[p.found EXCEPT ![u] = 1]}  BY <1>2, <1>3 DEF Addresses
<1> DEFINE f == [p.found EXCEPT ![u] = 1]
<1>5. q = [[p EXCEPT !.drawn = D, !.copies = C, !.found = f] EXCEPT !.undos = <<>>]
  <2>1. PICK r \in Insert(p, u, look) : q = [r EXCEPT !.undos = <<>>]  BY DEF AddElement
  <2>2. r = [p EXCEPT !.drawn = D, !.copies[u] = p.copies[u] + 1, !.found = f]
    BY <1>3, <1>4, <2>1 DEF Insert
  <2>3. r = [p EXCEPT !.drawn = D, !.copies = C, !.found = f]
    <3> HIDE DEF D, f
    <3> QED BY <1>3, <2>2 DEF PageSet
  <2> QED BY <2>1, <2>3
<1>6. e \in Element /\ e.id = u /\ e \in A  BY <1>1 DEF Element
<1>7. D \in Seq(Element) /\ D \in Seq(A)  BY <1>1, <1>6, AppendProperties
<1>8. C \in [Uuids -> 0..1] /\ f \in [Uuids -> 0..1]  BY <1>1
<1>9. \A v \in Uuids : C[v] = (IF v = u THEN 1 ELSE p.copies[v]) /\ f[v] = (IF v = u THEN 1 ELSE p.found[v])
  BY <1>1
<1> HIDE DEF D, C, f, e
<1>10. /\ q \in PageSet /\ q.drawn = D /\ q.undos = <<>> /\ q.copies = C /\ q.found = f
  <2>1. <<>> \in Seq(Element)  BY EmptySeq
  <2> QED BY <1>1, <1>5, <1>7, <1>8, <2>1 DEF PageSet
<1>11. IdsOf(D) = Append(IdsOf(d), u)  BY <1>1, <1>6, IdsAppend DEF D
<1>12. Distinct(Append(IdsOf(d), u))
  <2>1. /\ IdsOf(d) \in Seq(Uuids) /\ Len(IdsOf(d)) = Len(d)
        /\ \A i \in 1..Len(d) : IdsOf(d)[i] = d[i].id
    BY <1>1, IdsIs
  <2>2. Distinct(IdsOf(d))  BY PageMeans DEF PageOfIds
  <2>3. \A i \in 1..Len(IdsOf(d)) : IdsOf(d)[i] # u  BY <2>1
  <2> QED BY <2>1, <2>2, <2>3, DistinctAppend
<1>13. PageOfIds(q)
  <2>1. \A v \in Uuids : q.found[v] <= q.copies[v] /\ (q.found[v] = 0 => q.copies[v] = 0)
    BY <1>2, <1>9, <1>10
  <2>2. Len(IdsOf(<<>>)) = 0
    <3>1. <<>> \in Seq(Element) /\ Len(<<>>) = 0  BY EmptySeq
    <3> QED BY <3>1, IdsIs
  <2>3. Distinct(IdsOf(<<>>)) /\ Apart(IdsOf(D), IdsOf(<<>>))  BY <2>2 DEF Distinct, Apart
  <2> QED BY <1>10, <1>11, <1>12, <2>1, <2>3 DEF PageOfIds
<1>14. IsPage(q)  BY <1>10, <1>13, PageMeans
<1> QED BY <1>7, <1>9, <1>10, <1>11, <1>14 DEF D, d, e

(* A list with one element more. *)
LEMMA OneMore ==
  ASSUME NEW S, NEW s \in Seq(S), NEW e \in S
  PROVE  /\ Append(s, e) \in Seq(S) /\ Len(Append(s, e)) = Len(s) + 1
         /\ (\A i \in 1..Len(s) : Append(s, e)[i] = s[i]) /\ Append(s, e)[Len(s) + 1] = e
  BY AppendProperties

(* One more action: the lesson comes to the same before it, and then the   *)
(* action is played.  (New elements, of which there was no action yet, may *)
(* come with it.)                                                          *)
SameFiles(as, f1, f2) == \A i \in 1..Len(as) : as[i].id \in f1 <=> as[i].id \in f2
SameStates(i1, i2, U) == \A u \in U : i1[u] = i2[u]
GoesOn(f1, i1, as, f2, i2, a, U) ==
  /\ \A n \in 0..Len(as) : Alike(Whole(f1, i1, as)[n], Whole(f2, i2, Append(as, a))[n], U)
  /\ Whole(f1, i1, as)[Len(as)] \in Board
  /\ Whole(f2, i2, Append(as, a))[Len(as)] \in Board
  /\ Whole(f2, i2, Append(as, a))[Len(as) + 1]
       = PlayAction(f2, Whole(f2, i2, Append(as, a))[Len(as)], a)

(* Whole of the longer lesson goes on from Whole of the shorter one. *)
LEMMA Extended ==
  ASSUME NEW f1 \in SUBSET Uuids, NEW i1 \in [Uuids -> Looks \cup {None}], NEW as \in Seq(Action),
         NEW f2 \in SUBSET Uuids, NEW i2 \in [Uuids -> Looks \cup {None}], NEW a \in Action,
         NEW U \in SUBSET Uuids, SameStates(i1, i2, U), SameFiles(as, f1, f2)
  PROVE  GoesOn(f1, i1, as, f2, i2, a, U)
<1> DEFINE n == Len(as)
           bs == Append(as, a)
<1>1. /\ n \in Nat /\ bs \in Seq(Action) /\ Len(bs) = n + 1
      /\ (\A i \in 1..n : bs[i] = as[i]) /\ bs[n + 1] = a
  <2>1. n \in Nat  BY LenProperties
  <2>2. /\ bs \in Seq(Action) /\ Len(bs) = n + 1
        /\ (\A i \in 1..n : bs[i] = as[i]) /\ bs[n + 1] = a
    BY OneMore, Zenon DEF n, bs
  <2> QED BY <2>1, <2>2
<1>2. ASSUME NEW m \in 0..n PROVE Alike(Whole(f1, i1, as)[m], Whole(f2, i2, bs)[m], U)
  <2>1. m \in 0..Len(as) /\ m <= Len(bs)
    <3> HIDE DEF n, bs
    <3>1. m <= Len(bs)  BY <1>1
    <3> QED BY <3>1 DEF n
  <2>2. \A i \in 1..m : i \in 1..Len(as)  BY <2>1, Positions
  <2>3. \A i \in 1..m : as[i] = bs[i] /\ (as[i].id \in f1 <=> as[i].id \in f2)
    BY <1>1, <2>2 DEF SameFiles
  <2>4. \A u \in U : i1[u] = i2[u]  BY DEF SameStates
  <2> HIDE DEF n, bs
  <2> QED BY <1>1, <2>1, <2>3, <2>4, SameLesson
<1>3. /\ Whole(f2, i2, bs) \in [0..Len(bs) -> Board]
      /\ \A i \in 1..Len(bs) : Whole(f2, i2, bs)[i] = PlayAction(f2, Whole(f2, i2, bs)[i - 1], bs[i])
  BY <1>1, WholeIs
<1>4. Whole(f1, i1, as) \in [0..n -> Board]  BY WholeIs
<1> DEFINE g == Whole(f2, i2, bs)
           h == Whole(f1, i1, as)
<1>5. g[n] \in Board /\ g[n + 1] = PlayAction(f2, g[n], a) /\ h[n] \in Board
  <2> HIDE DEF n, g, h, bs
  <2>1. n + 1 \in 1..Len(bs) /\ (n + 1) - 1 = n /\ n \in 0..Len(bs) /\ n \in 0..n  BY <1>1
  <2>2. g[n + 1] = PlayAction(f2, g[(n + 1) - 1], bs[n + 1])  BY <1>3, <2>1 DEF g
  <2>3. g \in [0..Len(bs) -> Board] /\ h \in [0..n -> Board]  BY <1>3, <1>4 DEF g, h
  <2> QED BY <1>1, <2>1, <2>2, <2>3
<1> QED BY <1>1, <1>2, <1>5 DEF n, g, h, bs, GoesOn

(* Boards that show one of some pages, and on which some elements look     *)
(* like something.                                                         *)
Proper(G, O) == {b \in Board : b.page \in O /\ \A u \in G : b.look[u] \in Looks}

(* Playing keeps to such boards. *)
LEMMA RunsProper ==
  ASSUME NEW file \in SUBSET Uuids, NEW as \in Seq(Action), NEW O, NEW G \in SUBSET Uuids,
         NEW b \in Proper(G, O), NEW S,
         NEW h \in Runs(file, as, b, S),
         \A i \in 1..Len(as) : /\ as[i].type = "Switch" => as[i].page \in O
                               /\ as[i].type = "Change" => as[i].look \in Looks
  PROVE  \A n \in 0..Len(as) : h[n] \in Proper(G, O)
<1> DEFINE l == Len(as)
           T == {i \in 0..l : h[i] \in Proper(G, O)}
<1>0. l \in Nat /\ \A i \in 1..l : as[i] \in Action  BY LenProperties, ElementOfSeq
<1>1. /\ h \in [0..l -> Board] /\ h[0] = b
      /\ \A i \in 1..l : h[i] = IF i \in S THEN PlayAction(file, h[i - 1], as[i]) ELSE h[i - 1]
  BY Zenon DEF Runs
<1>2. \A i \in 1..l : /\ as[i].type = "Switch" => as[i].page \in O
                      /\ as[i].type = "Change" => as[i].look \in Looks
  OBVIOUS
<1> HIDE DEF l
<1>3. ASSUME NEW i \in 1..l, h[i - 1] \in Proper(G, O) PROVE h[i] \in Proper(G, O)
  <2> DEFINE c == h[i - 1]
             a == as[i]
  <2>1. c \in Board /\ c.page \in O /\ (\A u \in G : c.look[u] \in Looks) /\ a \in Action
    BY <1>0, <1>3 DEF Proper
  <2>2. /\ a.type = "Switch" => a.page \in O
        /\ a.type = "Change" => a.look \in Looks
    BY <1>2
  <2>3. h[i] = c \/ h[i] = PlayAction(file, c, a)  BY <1>1
  <2> HIDE DEF c, a
  <2>4. PlayAction(file, c, a) \in Proper(G, O)
    <3>1. PlayAction(file, c, a) \in Board  BY <2>1, PlayedIs
    <3>2. PlayAction(file, c, a).page \in O  BY <2>1, <2>2 DEF PlayAction
    <3>3. ASSUME NEW u \in G PROVE PlayAction(file, c, a).look[u] \in Looks
      <4>1. u \in Uuids  OBVIOUS
      <4>2. CASE a.type = "Change" /\ u = a.id  BY <2>1, <2>2, <4>1, <4>2, PlayedLook
      <4>3. CASE ~(a.type = "Change" /\ u = a.id)  BY <2>1, <4>1, <4>3, PlayedLook
      <4> QED BY <4>2, <4>3
    <3> QED BY <3>1, <3>2, <3>3 DEF Proper
  <2> QED BY <1>3, <2>3, <2>4 DEF c
<1>4. T = 0..l
  <2>1. 0 \in T  BY <1>0, <1>1
  <2>2. T \in SUBSET (0..l) /\ \A i \in 1..l : i - 1 \in T => i \in T  BY <1>0, <1>3
  <2> HIDE DEF T
  <2> QED BY <1>0, <2>1, <2>2, Upward
<1> QED BY <1>4 DEF l

-----------------------------------------------------------------------------
(* What holds of a lesson while it is recorded and played.                 *)

(* The element had an action on the page.                                  *)
Acted(u, p) ==
  \E i \in DOMAIN actions : /\ actions[i].type # "Switch"
                            /\ actions[i].id = u /\ actions[i].page = p
Home(p) == {e \in Element : e.id \in File /\ Acted(e.id, p)}

Sensible ==
  \A i \in DOMAIN actions : /\ actions[i].type = "Switch" => actions[i].id = None
                            /\ actions[i].type = "Change" => actions[i].look \in Looks
                            /\ actions[i].page \in opened

(* Every action of an element is on the same page, and the pages hold what *)
(* had an action there and is saved.                                       *)
Homes == \A u \in Uuids, p, q \in PageIds : Acted(u, p) /\ Acted(u, q) => p = q
Known ==
  \A p \in PageIds : /\ pages[p].drawn \in Seq(Home(p)) /\ pages[p].undos \in Seq(Home(p))
                     /\ \A u \in Uuids : pages[p].copies[u] > 0 => Acted(u, p)

(* The lesson, as it is played, comes to what is on the pages.             *)
Replay == Whole(File, init, actions)
Saved == \A i \in DOMAIN actions : actions[i].type # "Switch" => actions[i].id \in File
Ids == \A p \in PageIds : Replay[Len(actions)].drawn[p] = IdsOf(pages[p].drawn)
NoRepeats == \A n \in 0..Len(actions), p \in PageIds : Distinct(Replay[n].drawn[p])
History == Saved /\ Ids /\ NoRepeats /\ Replay[Len(actions)].page = current

BoardOpened == board.page \in opened \cup {None}

LessonInv ==
  /\ TypeOK /\ Sensible /\ Homes /\ Known /\ BoardOpened
  /\ cut = 0 => History

-----------------------------------------------------------------------------
(* Recording.  What every action of the teacher does, of all that is said  *)
(* above: it is recorded as a, on the page a.page.                         *)

Kin(a, p) == Home(p) \cup {e \in Element : a.type # "Switch" /\ e.id = a.id /\ p = a.page}
Paged(a, p) ==
  /\ pages'[p] \in PageSet /\ IsPage(pages'[p])
  /\ pages'[p].drawn \in Seq(Kin(a, p)) /\ pages'[p].undos \in Seq(Kin(a, p))
  /\ \A u \in Uuids : pages'[p].copies[u] > 0 =>
                        Acted(u, p) \/ (a.type # "Switch" /\ u = a.id /\ p = a.page)
  /\ p = a.page => IdsOf(pages'[p].drawn) = Redrawn(File', IdsOf(pages[p].drawn), a)
  /\ p # a.page => IdsOf(pages'[p].drawn) = IdsOf(pages[p].drawn)
Saves(a) ==
  /\ init' \in [Uuids -> Looks \cup {None}]
  /\ \A u \in Uuids : init'[u] # init[u] => init'[u] \in Looks /\ (init[u] \in Looks \/ IsNew(u))
  /\ a.type # "Switch" => a.id \in File' /\ \A p \in PageIds : Acted(a.id, p) => p = a.page
  /\ a.type = "Switch" => a.id = None
  /\ a.type = "Change" => a.look \in Looks
Recorded(a) ==
  /\ actions' = Append(actions, a) /\ a.time = now
  /\ film' = [film EXCEPT ![Len(film)] = Picture(current', Shown(pages'[current']))]
  /\ current' = IF a.type = "Switch" THEN a.page ELSE current
  /\ opened \subseteq opened' /\ opened' \subseteq PageIds /\ a.page \in opened'
  /\ now' = now /\ usage' = usage
  /\ pages' \in [PageIds -> PageSet] /\ \A p \in PageIds : Paged(a, p)
  /\ Saves(a)

(* A page is shown as a picture. *)
LEMMA ShownIs ==
  ASSUME NEW p \in PageSet
  PROVE  Shown(p) \in Seq([id : Uuids, look : Looks])
<1> DEFINE n == Len(p.drawn)
<1>1. DOMAIN p.drawn = 1..n /\ n \in Nat /\ \A i \in 1..n : p.drawn[i] \in Element
  <2>1. p.drawn \in Seq(Element)  BY DEF PageSet
  <2> QED BY <2>1, LenProperties, ElementOfSeq
<1>2. \A i \in 1..n : [id |-> p.drawn[i].id, look |-> p.drawn[i].look] \in [id : Uuids, look : Looks]
  BY <1>1 DEF Element
<1>3. Shown(p) = [i \in 1..n |-> [id |-> p.drawn[i].id, look |-> p.drawn[i].look]]
  BY <1>1 DEF Shown
<1> HIDE DEF n
<1> QED BY <1>1, <1>2, <1>3

(* The actions after one more: an element acted where it did, or is that   *)
(* of the new one; what the file has of them is the same.                  *)
LEMMA ActedMore ==
  ASSUME NEW a \in Action, actions \in Seq(Action), init \in [Uuids -> Looks \cup {None}],
         actions' = Append(actions, a), Saves(a)
  PROVE  /\ actions' \in Seq(Action) /\ Len(actions') = Len(actions) + 1
         /\ DOMAIN actions = 1..Len(actions) /\ DOMAIN actions' = 1..(Len(actions) + 1)
         /\ \A i \in DOMAIN actions : actions'[i] = actions[i] /\ actions[i] \in Action
         /\ actions'[Len(actions) + 1] = a
         /\ \A i \in DOMAIN actions' : i \in DOMAIN actions \/ i = Len(actions) + 1
         /\ \A u, p : Acted(u, p)' <=> Acted(u, p) \/ (a.type # "Switch" /\ u = a.id /\ p = a.page)
         /\ File \in SUBSET Uuids /\ File' \in SUBSET Uuids /\ File \subseteq File'
         /\ \A i \in DOMAIN actions : actions[i].id \in File <=> actions[i].id \in File'
<1> DEFINE n == Len(actions)
<1>1. /\ n \in Nat /\ actions' \in Seq(Action) /\ Len(actions') = n + 1
      /\ (\A i \in 1..n : actions'[i] = actions[i]) /\ actions'[n + 1] = a
      /\ DOMAIN actions = 1..n /\ DOMAIN actions' = 1..(n + 1)
      /\ \A i \in 1..n : actions[i] \in Action
  <2>1. n \in Nat /\ DOMAIN actions = 1..n /\ \A i \in 1..n : actions[i] \in Action
    BY LenProperties, ElementOfSeq
  <2>2. /\ actions' \in Seq(Action) /\ Len(actions') = n + 1
        /\ (\A i \in 1..n : actions'[i] = actions[i]) /\ actions'[n + 1] = a
    BY OneMore
  <2>3. DOMAIN actions' = 1..(n + 1)  BY <2>2, LenProperties
  <2> QED BY <2>1, <2>2, <2>3
<1> HIDE DEF n
<1>2. \A i \in 1..(n + 1) : i \in 1..n \/ i = n + 1  BY <1>1
<1>3. \A i \in 1..n : i \in 1..(n + 1)  BY <1>1
<1>4. n + 1 \in 1..(n + 1)  BY <1>1
<1>5. ASSUME NEW u, NEW p
      PROVE  Acted(u, p)' <=> Acted(u, p) \/ (a.type # "Switch" /\ u = a.id /\ p = a.page)
  <2> DEFINE Is(x) == x.type # "Switch" /\ x.id = u /\ x.page = p
  <2>1. Acted(u, p)' <=> \E i \in 1..(n + 1) : Is(actions'[i])  BY <1>1 DEF Acted
  <2>2. Acted(u, p) <=> \E i \in 1..n : Is(actions[i])  BY <1>1 DEF Acted
  <2>3. Is(a) <=> (a.type # "Switch" /\ u = a.id /\ p = a.page)  OBVIOUS
  <2> HIDE DEF Is
  <2> QED BY <1>1, <1>2, <1>3, <1>4, <2>1, <2>2, <2>3, Zenon
<1>6. None \notin Looks  BY LessonAssumption
<1>7. File \in SUBSET Uuids /\ File' \in SUBSET Uuids  BY DEF File
<1>8. File \subseteq File'  BY <1>6 DEF File, Saves
<1>9. \A i \in 1..n : actions[i].id \in File' => actions[i].id \in File
  <2> SUFFICES ASSUME NEW i \in 1..n, actions[i].id \in File' PROVE actions[i].id \in File
    OBVIOUS
  <2>1. actions[i].id \in Uuids /\ init'[actions[i].id] # None  BY DEF File
  <2>2. ~IsNew(actions[i].id)  BY <1>1 DEF IsNew
  <2> QED BY <1>6, <2>1, <2>2 DEF File, Saves
<1> QED BY <1>1, <1>2, <1>5, <1>7, <1>8, <1>9 DEF n

(* It keeps what is said of the lesson. *)
LEMMA RecordedKeeps ==
  ASSUME LessonInv, NEW a \in Action, Recorded(a),
         mode = "record", UNCHANGED <<mode, timeVars, boardVars, cut>>
  PROVE  LessonInv'
<1>1. /\ actions' \in Seq(Action) /\ Len(actions') = Len(actions) + 1
      /\ DOMAIN actions = 1..Len(actions) /\ DOMAIN actions' = 1..(Len(actions) + 1)
      /\ \A i \in DOMAIN actions : actions'[i] = actions[i] /\ actions[i] \in Action
      /\ actions'[Len(actions) + 1] = a
      /\ \A i \in DOMAIN actions' : i \in DOMAIN actions \/ i = Len(actions) + 1
      /\ \A u, p : Acted(u, p)' <=> Acted(u, p) \/ (a.type # "Switch" /\ u = a.id /\ p = a.page)
      /\ File \in SUBSET Uuids /\ File' \in SUBSET Uuids /\ File \subseteq File'
      /\ \A i \in DOMAIN actions : actions[i].id \in File <=> actions[i].id \in File'
  BY ActedMore DEF LessonInv, TypeOK, LessonTypeOK, Recorded
<1>2. /\ opened \subseteq opened' /\ opened' \subseteq PageIds /\ current' \in opened'
  BY DEF LessonInv, TypeOK, LessonTypeOK, Recorded
<1>3. TypeOK'
  <2>1. pages'[current'] \in PageSet  BY <1>2 DEF Recorded
  <2>2. Picture(current', Shown(pages'[current'])) \in Pictures
    BY <1>2, <2>1, ShownIs DEF Picture, Pictures
  <2> DEFINE new == Picture(current', Shown(pages'[current']))
  <2>3. film \in Seq(Pictures) /\ film # <<>> /\ \A k \in DOMAIN film : film[k].page \in opened
    BY DEF LessonInv, TypeOK, LessonTypeOK
  <2>4. film' = [film EXCEPT ![Len(film)] = new] /\ new.page = current'
    BY DEF Recorded, Picture
  <2> HIDE DEF new
  <2>5. /\ film' \in Seq(Pictures) /\ film' # <<>> /\ Len(film') = Len(film)
        /\ \A k \in DOMAIN film' : film'[k].page \in opened'
    <3>1. Len(film) \in 1..Len(film) /\ DOMAIN film = 1..Len(film)  BY <2>3, FrontIs, LenProperties
    <3>2. /\ film' \in Seq(Pictures) /\ Len(film') = Len(film)
          /\ \A i \in 1..Len(film) : film'[i] = IF i = Len(film) THEN new ELSE film[i]
      BY <2>2, <2>3, <2>4, <3>1, ExceptSeq DEF new
    <3>3. DOMAIN film' = 1..Len(film) /\ film' # <<>>
      <4>1. DOMAIN film' = 1..Len(film')  BY <3>2, LenProperties
      <4>2. Len(film) # 0
        <5>1. Len(film) \in Nat  BY <2>3, LenProperties
        <5> QED BY <3>1, <5>1
      <4>3. Len(<<>>) = 0  OBVIOUS
      <4> QED BY <3>2, <4>1, <4>2, <4>3
    <3> QED BY <1>2, <2>3, <2>4, <3>1, <3>2, <3>3
  <2>6. LessonTypeOK'
    BY <1>1, <1>2, <2>5 DEF LessonInv, TypeOK, LessonTypeOK, Recorded, Paged, Saves
  <2> QED BY <2>6 DEF LessonInv, TypeOK, timeVars, boardVars
<1>4. Sensible'
  <2>1. \A i \in DOMAIN actions : /\ actions[i].type = "Switch" => actions[i].id = None
                                  /\ actions[i].type = "Change" => actions[i].look \in Looks
                                  /\ actions[i].page \in opened'
    BY <1>2 DEF LessonInv, Sensible
  <2>2. /\ a.type = "Switch" => a.id = None
        /\ a.type = "Change" => a.look \in Looks
        /\ a.page \in opened'
    BY DEF Recorded, Saves
  <2> QED BY <1>1, <2>1, <2>2 DEF Sensible
<1>5. Homes'
  BY <1>1 DEF LessonInv, Homes, Recorded, Saves
<1>6. Known'
  <2> SUFFICES ASSUME NEW p \in PageIds
               PROVE  /\ pages'[p].drawn \in Seq(Home(p)') /\ pages'[p].undos \in Seq(Home(p)')
                      /\ \A u \in Uuids : pages'[p].copies[u] > 0 => Acted(u, p)'
    BY DEF Known
  <2>1. Paged(a, p)  BY DEF Recorded
  <2>2. Kin(a, p) \subseteq Home(p)'
    <3>1. a.type # "Switch" => a.id \in File'  BY DEF Recorded, Saves
    <3> QED BY <1>1, <3>1 DEF Kin, Home
  <2>3. /\ pages'[p].drawn \in Seq(Kin(a, p)) /\ pages'[p].undos \in Seq(Kin(a, p))
    BY <2>1 DEF Paged
  <2>4. /\ pages'[p].drawn \in Seq(Home(p)') /\ pages'[p].undos \in Seq(Home(p)')
    <3> DEFINE K == Kin(a, p)
               H == Home(p)'
    <3>1. \A s \in Seq(K) : s \in Seq(H)
      <4>1. K \subseteq H  BY <2>2
      <4> HIDE DEF K, H
      <4> QED BY <4>1
    <3> QED BY <2>3, <3>1, Zenon
  <2>5. \A u \in Uuids : pages'[p].copies[u] > 0 => Acted(u, p)'
    BY <1>1, <2>1, Zenon DEF Paged
  <2> QED BY <2>4, <2>5
<1>7. BoardOpened'
  BY <1>2 DEF LessonInv, BoardOpened, boardVars
<1>8. ASSUME cut = 0 PROVE History'
  <2> DEFINE N == Len(actions)
             f == Replay
             g == Replay'
  <2>1. History  BY <1>8 DEF LessonInv
  <2>2. /\ \A n \in 0..N : Alike(f[n], g[n], {})
        /\ f[N] \in Board /\ g[N] \in Board /\ g[N + 1] = PlayAction(File', g[N], a)
    <3>1. /\ init \in [Uuids -> Looks \cup {None}] /\ init' \in [Uuids -> Looks \cup {None}]
          /\ actions \in Seq(Action) /\ actions' = Append(actions, a)
      BY DEF LessonInv, TypeOK, LessonTypeOK, Recorded, Saves
    <3>3. \A i \in 1..Len(actions) : actions[i].id \in File <=> actions[i].id \in File'  BY <1>1
    <3>4. /\ \A n \in 0..Len(actions) :
               Alike(Whole(File, init, actions)[n], Whole(File', init', Append(actions, a))[n], {})
          /\ Whole(File, init, actions)[Len(actions)] \in Board
          /\ Whole(File', init', Append(actions, a))[Len(actions)] \in Board
          /\ Whole(File', init', Append(actions, a))[Len(actions) + 1]
               = PlayAction(File', Whole(File', init', Append(actions, a))[Len(actions)], a)
      <4>1. SameStates(init, init', {}) /\ SameFiles(actions, File, File')
        BY <3>3 DEF SameStates, SameFiles
      <4>2. GoesOn(File, init, actions, File', init', a, {})  BY <1>1, <3>1, <4>1, Extended
      <4> QED BY <4>2, Zenon DEF GoesOn
    <3>5. f = Whole(File, init, actions) /\ g = Whole(File', init', Append(actions, a))
      BY <3>1 DEF Replay
    <3> QED BY <3>4, <3>5, Zenon
  <2>3. N \in Nat /\ N \in 0..N /\ \A n \in 0..(N + 1) : n \in 0..N \/ n = N + 1
    <3>1. N \in Nat  BY LenProperties DEF LessonInv, TypeOK, LessonTypeOK
    <3> HIDE DEF N
    <3> QED BY <3>1
  <2> HIDE DEF N, f, g
  <2>4. Len(actions') = N + 1  BY <1>1 DEF N
  <2>5. Saved'
    <3>1. a.type # "Switch" => a.id \in File'  BY DEF Recorded, Saves
    <3> QED BY <1>1, <2>1, <3>1 DEF History, Saved
  <2>6. ASSUME NEW p \in PageIds PROVE g[N + 1].drawn[p] = IdsOf(pages'[p].drawn)
    <3>1. g[N].drawn[p] = IdsOf(pages[p].drawn)
      BY <2>1, <2>2, <2>3 DEF History, Ids, Alike, N, f
    <3>2. Paged(a, p)  BY DEF Recorded
    <3>3. /\ p = a.page => g[N + 1].drawn[p] = Redrawn(File', g[N].drawn[p], a)
          /\ p # a.page => g[N + 1].drawn[p] = g[N].drawn[p]
      BY <1>1, <2>2, PlayedDrawn
    <3> QED BY <3>1, <3>2, <3>3, Zenon DEF Paged
  <2>7. ASSUME NEW n \in 0..(N + 1), NEW p \in PageIds PROVE Distinct(g[n].drawn[p])
    <3>1. CASE n \in 0..N
      <4>1. g[n].drawn[p] = f[n].drawn[p]  BY <2>2, <3>1 DEF Alike
      <4>2. Distinct(f[n].drawn[p])  BY <2>1, <3>1 DEF History, NoRepeats, N, f
      <4> QED BY <4>1, <4>2
    <3>2. CASE n = N + 1
      <4>1. pages'[p] \in PageSet /\ IsPage(pages'[p])  BY DEF Recorded, Paged
      <4>2. Distinct(IdsOf(pages'[p].drawn))  BY <4>1, PageMeans DEF PageOfIds
      <4> QED BY <2>6, <3>2, <4>2
    <3> QED BY <2>3, <3>1, <3>2
  <2>8. g[N + 1].page = current'
    <3>1. g[N].page = current
      BY <2>1, <2>2, <2>3 DEF History, Alike, N, f
    <3>2. g[N + 1].page = IF a.type = "Switch" THEN a.page ELSE g[N].page
      BY <2>2 DEF PlayAction
    <3> QED BY <3>1, <3>2 DEF Recorded
  <2> QED BY <2>4, <2>5, <2>6, <2>7, <2>8 DEF History, Ids, NoRepeats, g
<1> QED BY <1>3, <1>4, <1>5, <1>6, <1>7, <1>8 DEF LessonInv

(* An element of the current page, drawn or undone. *)
LEMMA HomeIs ==
  ASSUME LessonInv, NEW e \in Home(current)
  PROVE  /\ current \in PageIds /\ e \in Element /\ e.id \in Uuids /\ e.look \in Looks
         /\ e.id \in File /\ init[e.id] \in Looks
         /\ \A p \in PageIds : Acted(e.id, p) => p = current
<1>1. /\ current \in PageIds /\ init \in [Uuids -> Looks \cup {None}]
      /\ e \in Element /\ e.id \in Uuids /\ e.look \in Looks /\ e.id \in File /\ Acted(e.id, current)
  BY DEF LessonInv, TypeOK, LessonTypeOK, Home, Element
<1>2. init[e.id] \in Looks  BY <1>1 DEF File
<1> QED BY <1>1, <1>2 DEF LessonInv, Homes

(* What the pages are, the current one among them. *)
LEMMA CurrentIs ==
  ASSUME LessonInv
  PROVE  /\ current \in PageIds /\ pages \in [PageIds -> PageSet]
         /\ \A p \in PageIds : /\ pages[p] \in PageSet /\ IsPage(pages[p])
                               /\ pages[p].drawn \in Seq(Home(p)) /\ pages[p].undos \in Seq(Home(p))
                               /\ DOMAIN pages[p].drawn = 1..Len(pages[p].drawn)
                               /\ Home(p) \in SUBSET Element
                               /\ \A u \in Uuids : pages[p].copies[u] > 0 => Acted(u, p)
                               /\ IdsOf(pages[p].drawn) \in Seq(Uuids)
                               /\ Len(IdsOf(pages[p].drawn)) = Len(pages[p].drawn)
                               /\ Distinct(IdsOf(pages[p].drawn))
<1>1. /\ current \in PageIds /\ pages \in [PageIds -> PageSet]
      /\ \A p \in PageIds : pages[p] \in PageSet /\ IsPage(pages[p])
  BY DEF LessonInv, TypeOK, LessonTypeOK
<1>2. ASSUME NEW p \in PageIds
      PROVE  /\ pages[p].drawn \in Seq(Home(p)) /\ pages[p].undos \in Seq(Home(p))
             /\ DOMAIN pages[p].drawn = 1..Len(pages[p].drawn)
             /\ Home(p) \in SUBSET Element
             /\ \A u \in Uuids : pages[p].copies[u] > 0 => Acted(u, p)
             /\ IdsOf(pages[p].drawn) \in Seq(Uuids)
             /\ Len(IdsOf(pages[p].drawn)) = Len(pages[p].drawn)
             /\ Distinct(IdsOf(pages[p].drawn))
  <2>1. /\ pages[p].drawn \in Seq(Home(p)) /\ pages[p].undos \in Seq(Home(p))
        /\ \A u \in Uuids : pages[p].copies[u] > 0 => Acted(u, p)
    BY DEF LessonInv, Known
  <2>2. Home(p) \in SUBSET Element  BY DEF Home
  <2>3. pages[p].drawn \in Seq(Element)  BY <1>1 DEF PageSet
  <2>4. DOMAIN pages[p].drawn = 1..Len(pages[p].drawn)  BY <2>3, LenProperties
  <2>5. Distinct(IdsOf(pages[p].drawn))  BY <1>1, PageMeans DEF PageOfIds
  <2> QED BY <2>1, <2>2, <2>3, <2>4, <2>5, IdsIs
<1> QED BY <1>1, <1>2

(* What is done on the current page. *)
LEMMA OnePage ==
  ASSUME LessonInv, NEW a \in Action, a.type # "Switch", a.page = current,
         NEW q \in PageSet, IsPage(q), OnPage(q),
         q.drawn \in Seq(Kin(a, current)), q.undos \in Seq(Kin(a, current)),
         \A u \in Uuids : q.copies[u] > 0 => Acted(u, current) \/ u = a.id,
         IdsOf(q.drawn) = Redrawn(File', IdsOf(pages[current].drawn), a)
  PROVE  /\ pages' \in [PageIds -> PageSet] /\ \A p \in PageIds : Paged(a, p)
         /\ pages'[current] = q /\ opened' = opened /\ current' = current
<1>1. current \in PageIds /\ pages \in [PageIds -> PageSet]  BY CurrentIs
<1>2. /\ pages' = [pages EXCEPT ![current] = q] /\ opened' = opened /\ current' = current
  BY DEF OnPage
<1>3. /\ pages' \in [PageIds -> PageSet] /\ pages'[current] = q
      /\ \A p \in PageIds : p # current => pages'[p] = pages[p]
  BY <1>1, <1>2
<1>4. Paged(a, current)  BY <1>3 DEF Paged
<1>5. ASSUME NEW p \in PageIds, p # current PROVE Paged(a, p)
  <2>1. pages'[p] = pages[p] /\ p # a.page  BY <1>3, <1>5
  <2>2. /\ pages[p] \in PageSet /\ IsPage(pages[p])
        /\ pages[p].drawn \in Seq(Home(p)) /\ pages[p].undos \in Seq(Home(p))
        /\ \A u \in Uuids : pages[p].copies[u] > 0 => Acted(u, p)
    BY CurrentIs
  <2>3. Kin(a, p) = Home(p)  BY <2>1 DEF Kin
  <2> QED BY <2>1, <2>2, <2>3, Zenon DEF Paged
<1> QED BY <1>2, <1>3, <1>4, <1>5

(* What an action of the teacher on the current page is recorded as. *)
LEMMA OnePageRecorded ==
  ASSUME LessonInv, NEW a \in Action, a.type # "Switch", a.page = current,
         a = [time |-> now, type |-> a.type, page |-> current, id |-> a.id, look |-> a.look],
         Acts(a.type, current, a.id, a.look),
         NEW q \in PageSet, IsPage(q), OnPage(q), Saves(a), usage' = usage,
         q.drawn \in Seq(Kin(a, current)), q.undos \in Seq(Kin(a, current)),
         \A u \in Uuids : q.copies[u] > 0 => Acted(u, current) \/ u = a.id,
         IdsOf(q.drawn) = Redrawn(File', IdsOf(pages[current].drawn), a)
  PROVE  Recorded(a)
<1>1. /\ pages' \in [PageIds -> PageSet] /\ \A p \in PageIds : Paged(a, p)
      /\ pages'[current] = q /\ opened' = opened /\ current' = current
  BY OnePage
<1>2. /\ actions' = Append(actions, a) /\ now' = now
      /\ film' = [film EXCEPT ![Len(film)] = Picture(current', Shown(pages'[current']))]
  BY <1>1, Zenon DEF Acts
<1>3. a.time = now  OBVIOUS
<1>4. opened \subseteq PageIds /\ current \in opened  BY DEF LessonInv, TypeOK, LessonTypeOK
<1> QED BY <1>1, <1>2, <1>3, <1>4 DEF Recorded

(* Drawing. *)
LEMMA DrawRecorded ==
  ASSUME LessonInv, NEW u \in Uuids, NEW look \in Looks, Draw(u, look), usage' = usage
  PROVE  \E a \in Action : Recorded(a)
<1> DEFINE a == [time |-> now, type |-> "Show", page |-> current, id |-> u, look |-> None]
           p == pages[current]
           e == [id |-> u, copy |-> 1, look |-> look]
<1>1. a \in Action
  BY CurrentIs DEF LessonInv, TypeOK, LessonTypeOK, Action
<1>2. /\ a.type = "Show" /\ a.page = current /\ a.id = u /\ a.look = None
      /\ a = [time |-> now, type |-> a.type, page |-> current, id |-> a.id, look |-> a.look]
  OBVIOUS
<1>3. PICK q \in AddElement(pages[current], u, look) : OnPage(q)  BY DEF Draw
<1>4. /\ init' = [init EXCEPT ![u] = look] /\ IsNew(u) /\ Acts(a.type, current, a.id, a.look)
  BY <1>2 DEF Draw
<1>5. /\ current \in PageIds /\ p \in PageSet /\ IsPage(p)
      /\ p.drawn \in Seq(Home(current)) /\ Home(current) \in SUBSET Element
      /\ IdsOf(p.drawn) \in Seq(Uuids)
      /\ \A v \in Uuids : p.copies[v] > 0 => Acted(v, current)
  BY CurrentIs
<1>6. init \in [Uuids -> Looks \cup {None}]  BY DEF LessonInv, TypeOK, LessonTypeOK
<1>7. \A r : ~Acted(u, r)  BY <1>4 DEF IsNew, Acted
<1> HIDE DEF a
<1>8. e \in Element /\ e.id = u /\ e \in Kin(a, current) /\ Kin(a, current) \in SUBSET Element
  <2>1. e \in Element /\ e.id = u  BY LessonAssumption DEF Element
  <2> HIDE DEF e
  <2> QED BY <1>2, <1>5, <2>1 DEF Kin
<1>9. p.drawn \in Seq(Kin(a, current))
  <2> DEFINE K == Kin(a, current)
             H == Home(current)
  <2>1. H \subseteq K /\ p.drawn \in Seq(H)  BY <1>5 DEF Kin
  <2> HIDE DEF H, K, p
  <2>2. p.drawn \in Seq(K)  BY <2>1
  <2> QED BY <2>2 DEF K
<1>10. p.copies[u] = 0
  <2>1. p.copies[u] \in Nat  BY <1>5, LessonAssumption DEF PageSet
  <2>2. ~(p.copies[u] > 0)  BY <1>5, <1>7
  <2> HIDE DEF p
  <2> QED BY <2>1, <2>2
<1>11. \A i \in 1..Len(p.drawn) : p.drawn[i].id # u
  <2>1. \A i \in 1..Len(p.drawn) : p.drawn[i] \in Home(current)  BY <1>5, ElementOfSeq
  <2> QED BY <1>7, <2>1 DEF Home
<1> HIDE DEF p
<1>12. /\ q \in PageSet /\ IsPage(q)
       /\ q.drawn \in Seq(Kin(a, current)) /\ q.undos = <<>>
       /\ \A v \in Uuids : q.copies[v] = IF v = u THEN 1 ELSE p.copies[v]
       /\ IdsOf(q.drawn) = Append(IdsOf(p.drawn), u)
  <2>1. q \in AddElement(p, u, look)  BY <1>3 DEF p
  <2> QED BY <1>5, <1>8, <1>9, <1>10, <1>11, <2>1, PageAdded
<1>13. u \in File' /\ init' \in [Uuids -> Looks \cup {None}]
  <2>1. look # None  BY LessonAssumption
  <2> QED BY <1>4, <1>6, <2>1 DEF File
<1>14. Saves(a)
  <2>1. \A v \in Uuids : init'[v] # init[v] => v = u /\ init'[v] = look  BY <1>4, <1>6
  <2> QED BY <1>2, <1>4, <1>7, <1>13, <2>1 DEF Saves
<1>15. IdsOf(q.drawn) = Redrawn(File', IdsOf(pages[current].drawn), a)
  BY <1>2, <1>12, <1>13 DEF Redrawn, p
<1>16. \A v \in Uuids : q.copies[v] > 0 => Acted(v, current) \/ v = a.id
  BY <1>2, <1>5, <1>12
<1>17. q.undos \in Seq(Kin(a, current))  BY <1>12, EmptySeq
<1>18. Recorded(a)
  BY <1>1, <1>2, <1>3, <1>4, <1>12, <1>14, <1>15, <1>16, <1>17, OnePageRecorded
<1> QED BY <1>1, <1>18

(* What leaves the initial states alone and is about an element there is.  *)
LEMMA NothingSaved ==
  ASSUME LessonInv, NEW a, NEW e \in Home(current), a.type # "Switch", a.page = current, a.id = e.id,
         a.type = "Change" => a.look \in Looks, init' = init
  PROVE  Saves(a)
<1>1. /\ e.id \in File /\ \A p \in PageIds : Acted(e.id, p) => p = current  BY HomeIs
<1>2. init' \in [Uuids -> Looks \cup {None}]  BY DEF LessonInv, TypeOK, LessonTypeOK
<1>3. e.id \in File'  BY <1>1 DEF File
<1> QED BY <1>1, <1>2, <1>3 DEF Saves

(* Undoing and erasing. *)
LEMMA HideRecorded ==
  ASSUME LessonInv, NEW k \in 1..Len(pages[current].drawn),
         OnPage(RemoveDrawn(pages[current], k)),
         Acts("Hide", current, pages[current].drawn[k].id, None), init' = init, usage' = usage
  PROVE  \E a \in Action : Recorded(a)
<1> DEFINE p == pages[current]
           e == p.drawn[k]
           q == RemoveDrawn(p, k)
           H == Home(current)
           a == [time |-> now, type |-> "Hide", page |-> current, id |-> e.id, look |-> None]
           s == IdsOf(p.drawn)
<1>1. /\ current \in PageIds /\ p \in PageSet /\ IsPage(p) /\ p.drawn \in Seq(H) /\ p.undos \in Seq(H)
      /\ H \in SUBSET Element /\ s \in Seq(Uuids) /\ Len(s) = Len(p.drawn) /\ Distinct(s)
      /\ \A v \in Uuids : p.copies[v] > 0 => Acted(v, current)
  BY CurrentIs
<1>2. e \in H  BY <1>1, ElementOfSeq
<1>3. e.id \in Uuids  BY <1>2, HomeIs
<1>4. /\ a \in Action /\ a.type = "Hide" /\ a.page = current /\ a.id = e.id /\ a.look = None
      /\ a = [time |-> now, type |-> a.type, page |-> current, id |-> a.id, look |-> a.look]
  <2> HIDE DEF e
  <2>1. a \in Action  BY <1>1, <1>3 DEF LessonInv, TypeOK, LessonTypeOK, Action
  <2> QED BY <2>1
<1> HIDE DEF a
<1>5. Acts(a.type, current, a.id, a.look)  BY <1>4
<1>6. Saves(a)
  <2>1. a.type # "Switch" /\ ~(a.type = "Change")  BY <1>4
  <2> HIDE DEF e
  <2> QED BY <1>2, <1>4, <2>1, NothingSaved
<1>7. p.drawn \in Seq(Kin(a, current)) /\ p.undos \in Seq(Kin(a, current))
      /\ Kin(a, current) \in SUBSET Element
  <2> DEFINE K == Kin(a, current)
  <2>1. H \subseteq K /\ K \in SUBSET Element  BY <1>1 DEF Kin
  <2> HIDE DEF H, K, p
  <2>2. p.drawn \in Seq(K) /\ p.undos \in Seq(K)  BY <1>1, <2>1
  <2> QED BY <2>1, <2>2 DEF K
<1>8. k \in 1..Len(p.drawn) /\ k \in 1..Len(s) /\ s[k] = e.id
  <2>1. p.drawn \in Seq(Element)  BY <1>1 DEF PageSet
  <2> QED BY <1>1, <2>1, IdsIs
<1> HIDE DEF e
<1>9. OnPage(q)  OBVIOUS
<1> HIDE DEF p, H, s
<1>10. /\ q \in PageSet /\ IsPage(q) /\ q.drawn \in Seq(Kin(a, current)) /\ q.undos \in Seq(Kin(a, current))
       /\ q.copies = p.copies /\ IdsOf(q.drawn) = RemoveAt(s, k)
  BY <1>1, <1>7, <1>8, PageRemoved DEF s
<1> HIDE DEF q
<1>11. IdsOf(q.drawn) = Redrawn(File', IdsOf(pages[current].drawn), a)
  <2>1. \A j \in 1..Len(s) : s[j] = s[k] => j = k  BY <1>1, <1>8 DEF Distinct
  <2>2. Without(s, s[k]) = RemoveAt(s, k)  BY <1>1, <1>8, <2>1, WithoutOne
  <2>3. Redrawn(File', s, a) = Without(s, a.id)  BY <1>4 DEF Redrawn
  <2> QED BY <1>4, <1>8, <1>10, <2>2, <2>3 DEF s, p
<1>12. \A v \in Uuids : q.copies[v] > 0 => Acted(v, current) \/ v = a.id
  BY <1>1, <1>10
<1>13. a.type # "Switch"  BY <1>4
<1>14. Recorded(a)
  BY <1>4, <1>5, <1>6, <1>9, <1>10, <1>11, <1>12, <1>13, OnePageRecorded
<1> QED BY <1>4, <1>14

(* Redoing. *)
LEMMA RedoRecorded ==
  ASSUME LessonInv, Redo, usage' = usage
  PROVE  \E a \in Action : Recorded(a)
<1> DEFINE p == pages[current]
           e == Last(p.undos)
           q == OnRedo(p)
           H == Home(current)
           a == [time |-> now, type |-> "Show", page |-> current, id |-> e.id, look |-> None]
           s == IdsOf(p.drawn)
<1>1. /\ current \in PageIds /\ p \in PageSet /\ IsPage(p) /\ p.drawn \in Seq(H) /\ p.undos \in Seq(H)
      /\ H \in SUBSET Element /\ s \in Seq(Uuids) /\ Len(s) = Len(p.drawn) /\ Distinct(s)
      /\ \A v \in Uuids : p.copies[v] > 0 => Acted(v, current)
  BY CurrentIs
<1>2. e \in H /\ p.undos # <<>>
  <2>1. p.undos # <<>>  BY DEF Redo
  <2> QED BY <1>1, <2>1, PageRedone
<1>3. /\ OnPage(q) /\ Acts("Show", current, e.id, None) /\ init' = [init EXCEPT ![e.id] = e.look]
  BY DEF Redo, SaveInitState
<1> HIDE DEF e
<1>4. /\ e.id \in Uuids /\ e.look \in Looks /\ init[e.id] \in Looks /\ e.id \in File
      /\ \A r \in PageIds : Acted(e.id, r) => r = current
  BY <1>2, HomeIs
<1>5. /\ a \in Action /\ a.type = "Show" /\ a.page = current /\ a.id = e.id /\ a.look = None
      /\ a = [time |-> now, type |-> a.type, page |-> current, id |-> a.id, look |-> a.look]
  <2>1. a \in Action  BY <1>1, <1>4 DEF LessonInv, TypeOK, LessonTypeOK, Action
  <2> QED BY <2>1
<1> HIDE DEF a
<1>6. Acts(a.type, current, a.id, a.look)  BY <1>3, <1>5
<1>7. e.id \in File' /\ Saves(a)
  <2>1. init \in [Uuids -> Looks \cup {None}] /\ e.look # None
    BY <1>4, LessonAssumption DEF LessonInv, TypeOK, LessonTypeOK
  <2>2. /\ init' \in [Uuids -> Looks \cup {None}] /\ init'[e.id] = e.look
        /\ \A v \in Uuids : init'[v] # init[v] => v = e.id
    BY <1>3, <1>4, <2>1
  <2>3. e.id \in File'  BY <1>4, <2>1, <2>2 DEF File
  <2> QED BY <1>4, <1>5, <2>2, <2>3 DEF Saves
<1>8. /\ p.drawn \in Seq(Kin(a, current)) /\ p.undos \in Seq(Kin(a, current))
      /\ Kin(a, current) \in SUBSET Element
  <2> DEFINE K == Kin(a, current)
  <2>1. H \subseteq K /\ K \in SUBSET Element  BY <1>1 DEF Kin
  <2> HIDE DEF H, K, p
  <2>2. p.drawn \in Seq(K) /\ p.undos \in Seq(K)  BY <1>1, <2>1
  <2> QED BY <2>1, <2>2 DEF K
<1> HIDE DEF p, H, s
<1>9. /\ q \in PageSet /\ IsPage(q) /\ q.drawn \in Seq(Kin(a, current)) /\ q.undos \in Seq(Kin(a, current))
      /\ q.copies = p.copies /\ IdsOf(q.drawn) = Append(s, e.id)
  BY <1>1, <1>2, <1>8, PageRedone DEF s, e
<1> HIDE DEF q
<1>10. IdsOf(q.drawn) = Redrawn(File', IdsOf(pages[current].drawn), a)
  BY <1>5, <1>7, <1>9 DEF Redrawn, s, p
<1>11. \A v \in Uuids : q.copies[v] > 0 => Acted(v, current) \/ v = a.id
  BY <1>1, <1>9
<1>12. a.type # "Switch"  BY <1>5
<1>13. Recorded(a)
  BY <1>3, <1>5, <1>6, <1>7, <1>9, <1>10, <1>11, <1>12, OnePageRecorded
<1> QED BY <1>5, <1>13

(* Putting an element above or below the others. *)
LEMMA OrderRecorded ==
  ASSUME LessonInv, NEW k \in 1..Len(pages[current].drawn), NEW type, NEW q,
         \/ type = "TopMost" /\ q = TopMost(pages[current], k)
         \/ type = "BottomMost" /\ q = BottomMost(pages[current], k),
         OnPage(q), Acts(type, current, pages[current].drawn[k].id, None),
         init' = init, usage' = usage
  PROVE  \E a \in Action : Recorded(a)
<1> DEFINE p == pages[current]
           e == p.drawn[k]
           H == Home(current)
           a == [time |-> now, type |-> type, page |-> current, id |-> e.id, look |-> None]
           s == IdsOf(p.drawn)
<1>1. /\ current \in PageIds /\ p \in PageSet /\ IsPage(p) /\ p.drawn \in Seq(H) /\ p.undos \in Seq(H)
      /\ H \in SUBSET Element /\ s \in Seq(Uuids) /\ Len(s) = Len(p.drawn) /\ Distinct(s)
      /\ \A v \in Uuids : p.copies[v] > 0 => Acted(v, current)
  BY CurrentIs
<1>2. e \in H  BY <1>1, ElementOfSeq
<1>3. e.id \in Uuids  BY <1>2, HomeIs
<1>4. /\ a \in Action /\ a.type = type /\ a.page = current /\ a.id = e.id /\ a.look = None
      /\ a = [time |-> now, type |-> a.type, page |-> current, id |-> a.id, look |-> a.look]
  <2> HIDE DEF e
  <2>1. type \in {"Show", "Hide", "Change", "TopMost", "BottomMost", "Switch"}  OBVIOUS
  <2>2. a \in Action  BY <1>1, <1>3, <2>1 DEF LessonInv, TypeOK, LessonTypeOK, Action
  <2> QED BY <2>2
<1> HIDE DEF a
<1>5. Acts(a.type, current, a.id, a.look)  BY <1>4
<1>6. Saves(a) /\ a.type # "Switch"
  <2>1. a.type # "Switch" /\ ~(a.type = "Change")  BY <1>4
  <2> HIDE DEF e
  <2> QED BY <1>2, <1>4, <2>1, NothingSaved
<1>7. p.drawn \in Seq(Kin(a, current)) /\ p.undos \in Seq(Kin(a, current))
      /\ Kin(a, current) \in SUBSET Element
  <2> DEFINE K == Kin(a, current)
  <2>1. H \subseteq K /\ K \in SUBSET Element  BY <1>1 DEF Kin
  <2> HIDE DEF H, K, p
  <2>2. p.drawn \in Seq(K) /\ p.undos \in Seq(K)  BY <1>1, <2>1
  <2> QED BY <2>1, <2>2 DEF K
<1>8. k \in 1..Len(p.drawn) /\ k \in 1..Len(s) /\ s[k] = e.id
  <2>1. p.drawn \in Seq(Element)  BY <1>1 DEF PageSet
  <2> QED BY <1>1, <2>1, IdsIs
<1>9. Drawn(s, s[k]) # {} /\ Others(s, s[k]) = RemoveAt(s, k)  BY <1>1, <1>8, OthersOne
<1> HIDE DEF e
<1>10. /\ q \in PageSet /\ IsPage(q) /\ q.drawn \in Seq(Kin(a, current)) /\ q.undos = p.undos
       /\ q.copies = p.copies /\ IdsOf(q.drawn) = Redrawn(File', s, a)
  <2>1. CASE type = "TopMost" /\ q = TopMost(pages[current], k)
    <3>1. /\ q \in PageSet /\ IsPage(q) /\ q.drawn \in Seq(Kin(a, current)) /\ q.undos = p.undos
          /\ q.copies = p.copies /\ IdsOf(q.drawn) = Append(RemoveAt(s, k), s[k])
      BY <1>1, <1>7, <1>8, <2>1, PageTopMost
    <3>2. Redrawn(File', s, a) = Append(Others(s, a.id), a.id)
      BY <1>4, <1>8, <1>9, <2>1 DEF Redrawn
    <3> QED BY <1>4, <1>8, <1>9, <3>1, <3>2
  <2>2. CASE type = "BottomMost" /\ q = BottomMost(pages[current], k)
    <3>1. /\ q \in PageSet /\ IsPage(q) /\ q.drawn \in Seq(Kin(a, current)) /\ q.undos = p.undos
          /\ q.copies = p.copies /\ IdsOf(q.drawn) = <<s[k]>> \o RemoveAt(s, k)
      BY <1>1, <1>7, <1>8, <2>2, PageBottomMost
    <3>2. Redrawn(File', s, a) = <<a.id>> \o Others(s, a.id)
      BY <1>4, <1>8, <1>9, <2>2 DEF Redrawn
    <3> QED BY <1>4, <1>8, <1>9, <3>1, <3>2
  <2> QED BY <2>1, <2>2
<1>11. \A v \in Uuids : q.copies[v] > 0 => Acted(v, current) \/ v = a.id
  BY <1>1, <1>10
<1>12. q.undos \in Seq(Kin(a, current))  BY <1>7, <1>10
<1>13. Recorded(a)
  BY <1>4, <1>5, <1>6, <1>10, <1>11, <1>12, OnePageRecorded
<1> QED BY <1>4, <1>13

(* Changing an element. *)
LEMMA ChangeRecorded ==
  ASSUME LessonInv, NEW k \in 1..Len(pages[current].drawn), NEW look \in Looks,
         Change(k, look), usage' = usage
  PROVE  \E a \in Action : Recorded(a)
<1> DEFINE p == pages[current]
           e == p.drawn[k]
           q == SetLook(p, k, look)
           H == Home(current)
           a == [time |-> now, type |-> "Change", page |-> current, id |-> e.id, look |-> look]
           s == IdsOf(p.drawn)
<1>1. /\ current \in PageIds /\ p \in PageSet /\ IsPage(p) /\ p.drawn \in Seq(H) /\ p.undos \in Seq(H)
      /\ H \in SUBSET Element
      /\ \A v \in Uuids : p.copies[v] > 0 => Acted(v, current)
  BY CurrentIs
<1>2. e \in H  BY <1>1, ElementOfSeq
<1>3. e.id \in Uuids  BY <1>2, HomeIs
<1>4. /\ a \in Action /\ a.type = "Change" /\ a.page = current /\ a.id = e.id /\ a.look = look
      /\ a = [time |-> now, type |-> a.type, page |-> current, id |-> a.id, look |-> a.look]
  <2> HIDE DEF e
  <2>1. a \in Action  BY <1>1, <1>3 DEF LessonInv, TypeOK, LessonTypeOK, Action
  <2> QED BY <2>1
<1>5. OnPage(q) /\ Acts("Change", current, e.id, look) /\ init' = init
  BY DEF Change, IdAt
<1> HIDE DEF a
<1>6. Acts(a.type, current, a.id, a.look)  BY <1>4, <1>5
<1>7. Saves(a) /\ a.type # "Switch"
  <2>1. a.type # "Switch" /\ a.look \in Looks  BY <1>4
  <2> HIDE DEF e
  <2> QED BY <1>2, <1>4, <1>5, <2>1, NothingSaved
<1>8. /\ q \in PageSet /\ IsPage(q) /\ Len(q.drawn) = Len(p.drawn)
      /\ \A i \in 1..Len(p.drawn) : q.drawn[i].id = p.drawn[i].id
      /\ q.undos = p.undos /\ q.copies = p.copies /\ IdsOf(q.drawn) = s
  <2> HIDE DEF p, q
  <2>1. k \in 1..Len(p.drawn)  BY DEF p
  <2> QED BY <1>1, <2>1, PageLook DEF q
<1>9. p.undos \in Seq(Kin(a, current)) /\ q.drawn \in Seq(Kin(a, current))
  <2> DEFINE K == Kin(a, current)
  <2>1. H \subseteq K  BY DEF Kin
  <2>2. \A i \in 1..Len(p.drawn) : q.drawn[i] \in K
    <3> SUFFICES ASSUME NEW i \in 1..Len(p.drawn) PROVE q.drawn[i] \in H
      BY <2>1
    <3>1. p.drawn[i] \in H  BY <1>1, ElementOfSeq
    <3>2. q.drawn \in Seq(Element)  BY <1>8 DEF PageSet
    <3>3. q.drawn[i] \in Element  BY <1>8, <3>2, ElementOfSeq
    <3> QED BY <1>8, <3>1, <3>3 DEF Home
  <2>3. q.drawn \in Seq(Element)  BY <1>8 DEF PageSet
  <2> HIDE DEF H, K, p, q
  <2>4. p.undos \in Seq(K)  BY <1>1, <2>1
  <2>5. q.drawn \in Seq(K)
    <3> DEFINE d == q.drawn
    <3>1. d \in Seq(Element) /\ \A i \in 1..Len(d) : d[i] \in K  BY <1>8, <2>2, <2>3
    <3> HIDE DEF d
    <3>2. d \in Seq(K)  BY <3>1
    <3> QED BY <3>2 DEF d
  <2> QED BY <2>4, <2>5 DEF K
<1> HIDE DEF e
<1>10. IdsOf(q.drawn) = Redrawn(File', IdsOf(pages[current].drawn), a)
  <2>1. Redrawn(File', s, a) = s  BY <1>4 DEF Redrawn
  <2> QED BY <1>8, <2>1
<1>11. \A v \in Uuids : q.copies[v] > 0 => Acted(v, current) \/ v = a.id
  BY <1>1, <1>8
<1>12. q.undos \in Seq(Kin(a, current))  BY <1>8, <1>9
<1> HIDE DEF p, q, H, s
<1>13. Recorded(a)
  BY <1>4, <1>5, <1>6, <1>7, <1>8, <1>9, <1>10, <1>11, <1>12, OnePageRecorded
<1> QED BY <1>4, <1>13

(* Turning to a page, a new one or one there is. *)
LEMMA TurnRecorded ==
  ASSUME LessonInv, NEW p \in PageIds,
         OnNewPage(p) \/ OnSelectPage(p), usage' = usage
  PROVE  \E a \in Action : Recorded(a)
<1> DEFINE a == [time |-> now, type |-> "Switch", page |-> p, id |-> None, look |-> None]
<1>1. /\ a.type = "Switch" /\ a.page = p /\ a.id = None /\ a.time = now
      /\ a = [time |-> now, type |-> "Switch", page |-> p, id |-> None, look |-> None]
  OBVIOUS
<1>2. a \in Action  BY DEF LessonInv, TypeOK, LessonTypeOK, Action
<1> HIDE DEF a
<1>3. /\ pages' = pages /\ init' = init /\ current' = p /\ Acts("Switch", p, None, None)
      /\ opened \subseteq opened' /\ opened' \subseteq PageIds /\ p \in opened'
  BY DEF OnNewPage, OnSelectPage, LessonInv, TypeOK, LessonTypeOK
<1>4. /\ actions' = Append(actions, a) /\ now' = now
      /\ film' = [film EXCEPT ![Len(film)] = Picture(current', Shown(pages'[current']))]
  BY <1>1, <1>3, Zenon DEF Acts
<1>5. ASSUME NEW r \in PageIds PROVE Paged(a, r)
  <2>1. /\ pages[r] \in PageSet /\ IsPage(pages[r])
        /\ pages[r].drawn \in Seq(Home(r)) /\ pages[r].undos \in Seq(Home(r))
        /\ \A u \in Uuids : pages[r].copies[u] > 0 => Acted(u, r)
    BY CurrentIs
  <2>2. Kin(a, r) = Home(r)  BY <1>1 DEF Kin
  <2>3. \A s : Redrawn(File', s, a) = s  BY <1>1 DEF Redrawn
  <2>4. pages'[r] = pages[r]  BY <1>3
  <2> HIDE DEF Redrawn
  <2>5. IdsOf(pages'[r].drawn) = Redrawn(File', IdsOf(pages[r].drawn), a)  BY <2>3, <2>4, Zenon
  <2>6. IdsOf(pages'[r].drawn) = IdsOf(pages[r].drawn)  BY <2>4, Zenon
  <2> QED BY <2>1, <2>2, <2>4, <2>5, <2>6, Zenon DEF Paged
<1>6. Saves(a)
  <2>1. init' \in [Uuids -> Looks \cup {None}]  BY <1>3 DEF LessonInv, TypeOK, LessonTypeOK
  <2> QED BY <1>1, <1>3, <2>1 DEF Saves
<1>7. pages' \in [PageIds -> PageSet]  BY <1>3, CurrentIs
<1>8. Recorded(a)  BY <1>1, <1>3, <1>4, <1>5, <1>6, <1>7 DEF Recorded
<1> QED BY <1>2, <1>8

(* The recorder telling the time is the one step of a recording that is    *)
(* not recorded.                                                           *)
LEMMA TeacherRecorded ==
  ASSUME LessonInv, Record, ~OnRecordTime
  PROVE  \E a \in Action : Recorded(a)
<1>1. usage' = usage  BY DEF Record
<1>2. ASSUME NEW u \in Uuids, NEW look \in Looks, Draw(u, look) PROVE \E a \in Action : Recorded(a)
  BY <1>1, <1>2, DrawRecorded
<1>d. /\ pages[current].drawn \in Seq(Home(current))
      /\ DOMAIN pages[current].drawn = 1..Len(pages[current].drawn)
  BY CurrentIs
<1>3. CASE Undo
  <2>1. /\ pages[current].drawn # <<>> /\ OnPage(OnUndo(pages[current])) /\ init' = init
        /\ Acts("Hide", current, Last(pages[current].drawn).id, None)
    BY <1>3 DEF Undo
  <2>2. /\ Len(pages[current].drawn) \in 1..Len(pages[current].drawn)
        /\ Last(pages[current].drawn) = pages[current].drawn[Len(pages[current].drawn)]
    BY <1>d, <2>1, FrontIs
  <2>3. /\ OnPage(RemoveDrawn(pages[current], Len(pages[current].drawn)))
        /\ Acts("Hide", current, pages[current].drawn[Len(pages[current].drawn)].id, None)
    BY <2>1, <2>2, Zenon DEF OnUndo
  <2> QED BY <1>1, <2>1, <2>2, <2>3, HideRecorded
<1>4. CASE Redo  BY <1>1, <1>4, RedoRecorded
<1>5. ASSUME NEW k \in DOMAIN pages[current].drawn, Delete(k) PROVE \E a \in Action : Recorded(a)
  <2>1. k \in 1..Len(pages[current].drawn)  BY <1>d
  <2> QED BY <1>1, <1>5, <2>1, HideRecorded DEF Delete, IdAt
<1>6. ASSUME NEW k \in DOMAIN pages[current].drawn, OnTopMost(k) PROVE \E a \in Action : Recorded(a)
  <2>1. k \in 1..Len(pages[current].drawn)  BY <1>d
  <2>2. /\ OnPage(TopMost(pages[current], k)) /\ init' = init
        /\ Acts("TopMost", current, pages[current].drawn[k].id, None)
    BY <1>6 DEF OnTopMost, IdAt
  <2> QED BY <1>1, <2>1, <2>2, OrderRecorded
<1>7. ASSUME NEW k \in DOMAIN pages[current].drawn, OnBottomMost(k) PROVE \E a \in Action : Recorded(a)
  <2>1. k \in 1..Len(pages[current].drawn)  BY <1>d
  <2>2. /\ OnPage(BottomMost(pages[current], k)) /\ init' = init
        /\ Acts("BottomMost", current, pages[current].drawn[k].id, None)
    BY <1>7 DEF OnBottomMost, IdAt
  <2> QED BY <1>1, <2>1, <2>2, OrderRecorded
<1>8. ASSUME NEW k \in DOMAIN pages[current].drawn, NEW look \in Looks, Change(k, look)
      PROVE  \E a \in Action : Recorded(a)
  <2>1. k \in 1..Len(pages[current].drawn)  BY <1>d
  <2> QED BY <1>1, <1>8, <2>1, ChangeRecorded
<1>9. ASSUME NEW p \in PageIds, OnNewPage(p) \/ OnSelectPage(p) PROVE \E a \in Action : Recorded(a)
  BY <1>1, <1>9, TurnRecorded
<1> QED BY <1>2, <1>3, <1>4, <1>5, <1>6, <1>7, <1>8, <1>9 DEF Record

(* The recorder tells the time. *)
LEMMA TimeToldKeeps ==
  ASSUME LessonInv, OnRecordTime, usage' = usage,
         mode = "record", UNCHANGED <<mode, timeVars, boardVars, cut>>
  PROVE  LessonInv'
<1>1. /\ pages' = pages /\ opened' = opened /\ current' = current /\ init' = init /\ actions' = actions
      /\ now' = Len(film) /\ film' = Append(film, Last(film))
      /\ mode' = mode /\ state' = state /\ base' = base /\ elapsed' = elapsed /\ sound' = sound
      /\ board' = board /\ played' = played /\ animated' = animated /\ screen' = screen /\ cut' = cut
      /\ usage' = usage
  BY DEF OnRecordTime, timeVars, boardVars
<1>2. /\ film' \in Seq(Pictures) /\ film' # <<>> /\ Len(film) \in Nat
      /\ \A k \in DOMAIN film' : film'[k].page \in opened
  <2>1. film \in Seq(Pictures) /\ film # <<>> /\ \A k \in DOMAIN film : film[k].page \in opened
    BY DEF LessonInv, TypeOK, LessonTypeOK
  <2>2. Len(film) \in 1..Len(film) /\ Last(film) = film[Len(film)]  BY <2>1, FrontIs
  <2>3. Last(film) \in Pictures  BY <2>1, <2>2, ElementOfSeq
  <2>4. /\ film' \in Seq(Pictures) /\ Len(film') = Len(film) + 1
        /\ (\A i \in 1..Len(film) : film'[i] = film[i]) /\ film'[Len(film) + 1] = Last(film)
    BY <1>1, <2>1, <2>3, OneMore
  <2>5. film' # <<>>  BY <1>1, <2>1, <2>3, AppendProperties
  <2>6. DOMAIN film' = 1..Len(film') /\ DOMAIN film = 1..Len(film) /\ Len(film) \in Nat
    BY <2>1, <2>4, LenProperties
  <2> DEFINE n == Len(film)
  <2>7. \A k \in 1..(n + 1) : k \in 1..n \/ k = n + 1
    <3>1. n \in Nat  BY <2>6
    <3> HIDE DEF n
    <3> QED BY <3>1
  <2>8. \A k \in DOMAIN film' : film'[k].page \in opened
    BY <2>1, <2>2, <2>4, <2>6, <2>7
  <2> QED BY <2>4, <2>5, <2>6, <2>8
<1>3. TypeOK'  BY <1>1, <1>2 DEF LessonInv, TypeOK, LessonTypeOK
<1>4. Replay' = Replay  BY <1>1 DEF Replay, File
<1>5. \A u, p : Acted(u, p)' = Acted(u, p)  BY <1>1 DEF Acted
<1>6. \A p : Home(p)' = Home(p)  BY <1>1, <1>5 DEF Home, File
<1>7. Sensible' /\ Homes' /\ Known' /\ BoardOpened'
  BY <1>1, <1>5, <1>6 DEF LessonInv, Sensible, Homes, Known, BoardOpened
<1>8. cut' = 0 => History'
  BY <1>1, <1>4 DEF LessonInv, History, Saved, Ids, NoRepeats, File
<1> QED BY <1>3, <1>7, <1>8 DEF LessonInv

-----------------------------------------------------------------------------
(* The actions due, and those kept when a lesson is recorded anew.         *)

(* The actions due are the first ones. *)
LEMMA DueIs ==
  ASSUME actions \in Seq(Action), NEW time \in Nat
  PROVE  \E n \in 0..Len(actions) :
           /\ Due(time) = 1..n
           /\ \A i \in 1..n : actions[i].time < time
           /\ n < Len(actions) => ~(actions[n + 1].time < time)
<1> DEFINE l == Len(actions)
           B == {i \in 1..l : ~(actions[i].time < time)}
<1>1. l \in Nat /\ DOMAIN actions = 1..l  BY LenProperties
<1>2. Due(time) = {i \in 1..l : \A j \in 1..i : actions[j].time < time}  BY <1>1 DEF Due
<1> HIDE DEF l
<1>3. CASE B = {}
  <2>1. \A i \in 1..l : actions[i].time < time  BY <1>3
  <2>2. \A i \in 1..l : \A j \in 1..i : j \in 1..l  BY <1>1
  <2>3. Due(time) = 1..l  BY <1>2, <2>1, <2>2
  <2>4. l \in 0..l /\ ~(l < l)  BY <1>1
  <2> QED BY <2>1, <2>3, <2>4 DEF l
<1>4. CASE B # {}
  <2>1. PICK k \in B : \A j \in B : k <= j
    <3>1. B \in SUBSET Nat  BY <1>1
    <3> HIDE DEF B
    <3> QED BY <1>4, <3>1, Least
  <2>2. k \in 1..l /\ ~(actions[k].time < time) /\ \A j \in 1..l : ~(actions[j].time < time) => k <= j
    BY <2>1
  <2> DEFINE n == k - 1
  <2>3. n \in 0..l /\ n < l /\ n + 1 = k /\ n \in Nat  BY <1>1, <2>2
  <2>4. \A i \in 1..n : i \in 1..l /\ ~(k <= i)  BY <1>1, <2>2
  <2>5. \A i \in 1..n : actions[i].time < time  BY <2>2, <2>4
  <2>6. Due(time) \subseteq 1..n
    <3> SUFFICES ASSUME NEW i \in 1..l, \A j \in 1..i : actions[j].time < time PROVE i \in 1..n
      BY <1>2
    <3>1. ~(k \in 1..i)  BY <2>2
    <3> QED BY <1>1, <2>2, <3>1
  <2>7. 1..n \subseteq Due(time)
    <3>1. \A i \in 1..n : \A j \in 1..i : j \in 1..n  BY <2>3
    <3> HIDE DEF n
    <3> QED BY <1>2, <2>4, <2>5, <3>1
  <2>8. Due(time) = 1..n  BY <2>6, <2>7
  <2> HIDE DEF n
  <2> QED BY <2>2, <2>3, <2>5, <2>8 DEF l
<1> QED BY <1>3, <1>4

(* What the recursion of Until makes of the actions, which are of A.       *)
Keeps(A, time) ==
  {kept \in [0..Len(actions) -> Seq(A)] :
     /\ kept[0] = <<>>
     /\ \A i \in 1..Len(actions) : kept[i] = IF actions[i].time <= time
                                             THEN Append(kept[i - 1], actions[i]) ELSE kept[i - 1]}

(* A lesson recorded anew keeps what the recursion ends with. *)
LEMMA UntilIs ==
  ASSUME NEW A, actions \in Seq(A), NEW time
  PROVE  \E kept \in Keeps(A, time) : Until(time) = kept[Len(actions)]
<1> DEFINE s == actions
           n == Len(s)
           Rec(f) == [i \in 0..n |-> IF i = 0 THEN <<>>
                                     ELSE IF s[i].time <= time THEN Append(f[i - 1], s[i]) ELSE f[i - 1]]
           kept == CHOOSE f : f = Rec(f)
           step == [i \in 1..n |-> [t \in Seq(A) |-> IF s[i].time <= time THEN Append(t, s[i]) ELSE t]]
<1>0. n \in Nat /\ <<>> \in Seq(A) /\ \A i \in 1..n : s[i] \in A
  BY LenProperties, EmptySeq, ElementOfSeq
<1>1. Until(time) = kept[n]  BY DEF Until
<1> HIDE DEF n
<1>2. step \in [1..n -> [Seq(A) -> Seq(A)]]
  <2>1. \A i \in 1..n, t \in Seq(A) : (IF s[i].time <= time THEN Append(t, s[i]) ELSE t) \in Seq(A)
    BY <1>0, AppendProperties
  <2> QED BY <2>1
<1>3. PICK f \in [0..n -> Seq(A)] : f[0] = <<>> /\ \A i \in 1..n : f[i] = step[i][f[i - 1]]
  <2> DEFINE B == Seq(A)
             x == <<>>
  <2>1. n \in Nat /\ x \in B /\ step \in [1..n -> [B -> B]]  BY <1>0, <1>2
  <2> HIDE DEF step, B, x
  <2>2. PICK f : f \in ByRecursion(B, n, x, step)  BY <2>1, RecursionWorks
  <2> QED BY <2>2, Zenon DEF B, x, ByRecursion
<1>4. \A i \in 1..n : f[i] = IF s[i].time <= time THEN Append(f[i - 1], s[i]) ELSE f[i - 1]
  <2> SUFFICES ASSUME NEW i \in 1..n
               PROVE  f[i] = IF s[i].time <= time THEN Append(f[i - 1], s[i]) ELSE f[i - 1]
    OBVIOUS
  <2>1. f[i - 1] \in Seq(A)  BY <1>0
  <2> QED BY <1>3, <2>1
<1>5. f = Rec(f)
  <2>1. \A i \in 0..n : i = 0 \/ i \in 1..n  BY <1>0
  <2>2. \A i \in 0..n : f[i] = IF i = 0 THEN <<>> ELSE IF s[i].time <= time
                               THEN Append(f[i - 1], s[i]) ELSE f[i - 1]
    BY <1>3, <1>4, <2>1, Zenon
  <2> QED BY <2>2
<1>6. kept = Rec(kept)  BY <1>5
<1>7. /\ kept[0] = <<>>
      /\ \A i \in 1..n : kept[i] = IF s[i].time <= time THEN Append(kept[i - 1], s[i]) ELSE kept[i - 1]
  <2>1. \A i \in 0..n : Rec(kept)[i] = IF i = 0 THEN <<>> ELSE IF s[i].time <= time
                                       THEN Append(kept[i - 1], s[i]) ELSE kept[i - 1]
    OBVIOUS
  <2> HIDE DEF kept, Rec
  <2>2. \A i \in 0..n : kept[i] = IF i = 0 THEN <<>> ELSE IF s[i].time <= time
                                  THEN Append(kept[i - 1], s[i]) ELSE kept[i - 1]
    BY <1>6, <2>1
  <2> QED BY <1>0, <2>2
<1>8. f[n] = kept[n]
  <2> HIDE DEF kept
  <2>1. \A i \in 1..n : f[i - 1] = kept[i - 1] => f[i] = kept[i]
    BY <1>4, <1>7, Zenon
  <2>2. f[0] = kept[0]  BY <1>3, <1>7, Zenon
  <2>3. AgreeByStep(f, kept, n)  BY <2>1, <2>2, Zenon DEF AgreeByStep
  <2>4. \A i \in 0..n : f[i] = kept[i]  BY <1>0, <2>3, SameValues, Zenon
  <2> QED BY <1>0, <2>4
<1>9. f \in Keeps(A, time)  BY <1>3, <1>4, Zenon DEF n, Keeps
<1> QED BY <1>1, <1>8, <1>9 DEF n

(* Of the actions, all those up to the time are kept, and only those. *)
LEMMA UntilKeeps ==
  ASSUME actions \in Seq(Action), NEW time \in Nat
  PROVE  /\ Until(time) \in Seq(Action)
         /\ \A k \in DOMAIN Until(time) : \E i \in DOMAIN actions : Until(time)[k] = actions[i]
         /\ \A i \in DOMAIN actions : actions[i].time <= time =>
              \E k \in DOMAIN Until(time) : Until(time)[k] = actions[i]
<1> DEFINE n == Len(actions)
           A == {actions[i] : i \in 1..n}
<1>0. n \in Nat /\ DOMAIN actions = 1..n /\ \A i \in 1..n : actions[i] \in Action
  BY LenProperties, ElementOfSeq
<1>1. actions \in Seq(A) /\ A \subseteq Action
  <2>1. actions \in Seq(A)
    <3>1. \A i \in 1..n : actions[i] \in A  OBVIOUS
    <3>2. actions \in Seq(Action)  OBVIOUS
    <3> HIDE DEF A
    <3> QED BY <3>1, <3>2
  <2> QED BY <1>0, <2>1
<1>2. PICK kept \in Keeps(A, time) : Until(time) = kept[Len(actions)]  BY <1>1, UntilIs
<1>3. /\ kept \in [0..n -> Seq(A)] /\ kept[0] = <<>>
      /\ \A i \in 1..n : kept[i] = IF actions[i].time <= time
                                   THEN Append(kept[i - 1], actions[i]) ELSE kept[i - 1]
  BY Zenon DEF Keeps
<1> DEFINE Is(i) == \A j \in 1..i : actions[j].time <= time =>
                      \E k \in 1..Len(kept[i]) : kept[i][k] = actions[j]
           T == {i \in 0..n : Is(i)}
<1> HIDE DEF n, A
<1>4. ASSUME NEW i \in 1..n, Is(i - 1) PROVE Is(i)
  <2>1. kept[i - 1] \in Seq(A) /\ actions[i] \in A  BY <1>0, <1>3 DEF A
  <2>2. \A j \in 1..i : j \in 1..(i - 1) \/ j = i  BY <1>0
  <2>3. CASE actions[i].time <= time
    <3>1. kept[i] = Append(kept[i - 1], actions[i])  BY <1>3, <2>3
    <3> DEFINE m == Len(kept[i - 1])
    <3>2. /\ Len(kept[i]) = m + 1 /\ (\A k \in 1..m : kept[i][k] = kept[i - 1][k])
          /\ kept[i][m + 1] = actions[i] /\ m \in Nat
      BY <2>1, <3>1, OneMore, LenProperties
    <3>3. \A j \in 1..(i - 1) : actions[j].time <= time => \E k \in 1..m : kept[i - 1][k] = actions[j]
      BY <1>4
    <3> HIDE DEF m
    <3>4. (\A k \in 1..m : k \in 1..(m + 1)) /\ m + 1 \in 1..(m + 1)  BY <3>2
    <3> QED BY <2>2, <3>2, <3>3, <3>4
  <2>4. CASE ~(actions[i].time <= time)
    <3>1. kept[i] = kept[i - 1]  BY <1>3, <2>4
    <3> QED BY <1>4, <2>2, <2>4, <3>1
  <2> QED BY <2>3, <2>4
<1>5. Is(n)
  <2>0. Is(0)  BY <1>0
  <2> HIDE DEF Is
  <2>1. T \in SUBSET (0..n) /\ 0 \in T /\ \A i \in 1..n : i - 1 \in T => i \in T
    BY <1>0, <1>4, <2>0
  <2>2. n \in T
    <3> HIDE DEF T
    <3>1. T = 0..n  BY <1>0, <2>1, Upward
    <3> QED BY <1>0, <3>1
  <2> QED BY <2>2
<1>6. Until(time) = kept[n] /\ kept[n] \in Seq(A)  BY <1>0, <1>2, <1>3 DEF n
<1>7. DOMAIN kept[n] = 1..Len(kept[n]) /\ \A k \in 1..Len(kept[n]) : kept[n][k] \in A
  BY <1>6, LenProperties, ElementOfSeq
<1>8. kept[n] \in Seq(Action)  BY <1>1, <1>6
<1>9. \A k \in DOMAIN kept[n] : \E i \in DOMAIN actions : kept[n][k] = actions[i]
  BY <1>0, <1>7 DEF A
<1> QED BY <1>0, <1>5, <1>6, <1>7, <1>8, <1>9

(* When the actions are in the order of their times, the first are kept. *)
LEMMA UntilFirst ==
  ASSUME actions \in Seq(Action), NEW time \in Nat, NEW m \in 0..Len(actions),
         \A i \in 1..Len(actions) : actions[i].time <= time <=> i <= m
  PROVE  Len(Until(time)) = m /\ \A k \in 1..m : Until(time)[k] = actions[k]
<1> DEFINE n == Len(actions)
<1>0. n \in Nat /\ m \in 0..n /\ \A i \in 1..n : actions[i] \in Action
  BY LenProperties, ElementOfSeq
<1>2. PICK kept \in Keeps(Action, time) : Until(time) = kept[Len(actions)]  BY UntilIs
<1>3. /\ kept \in [0..n -> Seq(Action)] /\ kept[0] = <<>>
      /\ \A i \in 1..n : kept[i] = IF actions[i].time <= time
                                   THEN Append(kept[i - 1], actions[i]) ELSE kept[i - 1]
  BY Zenon DEF Keeps
<1>4. \A i \in 1..n : actions[i].time <= time <=> i <= m  OBVIOUS
<1> DEFINE C(i) == IF i <= m THEN i ELSE m
           Is(i) == Len(kept[i]) = C(i) /\ \A k \in 1..C(i) : kept[i][k] = actions[k]
           T == {i \in 0..n : Is(i)}
<1> HIDE DEF n
<1>5. ASSUME NEW i \in 1..n, Is(i - 1) PROVE Is(i)
  <2>1. kept[i - 1] \in Seq(Action) /\ actions[i] \in Action  BY <1>0, <1>3
  <2>2. CASE i <= m
    <3>1. kept[i] = Append(kept[i - 1], actions[i])  BY <1>3, <1>4, <2>2
    <3> DEFINE l == Len(kept[i - 1])
    <3>2. /\ Len(kept[i]) = l + 1 /\ (\A k \in 1..l : kept[i][k] = kept[i - 1][k])
          /\ kept[i][l + 1] = actions[i]
      BY <2>1, <3>1, OneMore
    <3>3. l = i - 1 /\ \A k \in 1..(i - 1) : kept[i - 1][k] = actions[k]
      BY <1>0, <1>5, <2>2
    <3> HIDE DEF l
    <3>4. C(i) = i /\ l + 1 = i /\ \A k \in 1..i : k \in 1..(i - 1) \/ k = i  BY <1>0, <2>2, <3>3
    <3> QED BY <3>2, <3>3, <3>4
  <2>3. CASE ~(i <= m)
    <3>1. kept[i] = kept[i - 1]  BY <1>3, <1>4, <2>3
    <3>2. C(i) = C(i - 1)  BY <1>0, <2>3
    <3> HIDE DEF C
    <3> QED BY <1>5, <3>1, <3>2
  <2> QED BY <2>2, <2>3
<1>6. Is(n)
  <2>0. Is(0)
    <3>1. C(0) = 0 /\ Len(<<>>) = 0  BY <1>0
    <3> QED BY <1>3, <3>1
  <2> HIDE DEF Is
  <2>1. T \in SUBSET (0..n) /\ 0 \in T /\ \A i \in 1..n : i - 1 \in T => i \in T
    BY <1>0, <1>5, <2>0
  <2>2. n \in T
    <3> HIDE DEF T
    <3>1. T = 0..n  BY <1>0, <2>1, Upward
    <3> QED BY <1>0, <3>1
  <2> QED BY <2>2
<1>7. C(n) = m  BY <1>0
<1> HIDE DEF C
<1> QED BY <1>2, <1>6, <1>7 DEF n

-----------------------------------------------------------------------------
(* What is said of a lesson holds from its beginning and while it is       *)
(* played.                                                                 *)

(* An empty page. *)
LEMMA EmptyIs ==
  /\ EmptyPage(FALSE) \in PageSet /\ IsPage(EmptyPage(FALSE))
  /\ EmptyPage(FALSE).drawn = <<>> /\ EmptyPage(FALSE).undos = <<>>
  /\ \A u \in Uuids : EmptyPage(FALSE).copies[u] = 0
  /\ IdsOf(<<>>) = <<>>
<1> DEFINE none == [u \in Uuids |-> 0]
<1>1. EmptyPage(FALSE) = [drawn |-> <<>>, undos |-> <<>>, copies |-> none,
                          found |-> none, disabled |-> FALSE]
  BY Zenon DEF EmptyPage
<1>2. <<>> \in Seq(Element)  BY EmptySeq
<1>3. none \in [Uuids -> 0..MaxCopies] /\ \A u \in Uuids : none[u] = 0 /\ none[u] <= none[u]
  <2>1. 0 \in 0..MaxCopies  BY LessonAssumption
  <2> QED BY <2>1
<1> DEFINE e == EmptyPage(FALSE)
<1>4. /\ e.drawn = <<>> /\ e.undos = <<>> /\ e.copies = none /\ e.found = none
      /\ e \in PageSet
  <2> DEFINE x == <<>>
  <2>1. x \in Seq(Element)  BY <1>2
  <2>2. e = [drawn |-> x, undos |-> x, copies |-> none, found |-> none, disabled |-> FALSE]
    BY <1>1
  <2> HIDE DEF none, x, e
  <2>3. e.drawn = x /\ e.undos = x /\ e.copies = none /\ e.found = none  BY <2>2
  <2>4. e \in PageSet  BY <1>3, <2>1, <2>2 DEF PageSet
  <2> QED BY <2>3, <2>4 DEF x
<1>5. NoneTwice(<<>>) /\ DOMAIN <<>> = {}  BY DEF NoneTwice
<1>6. IsPage(e)
  <2> HIDE DEF none, e
  <2> QED BY <1>3, <1>4, <1>5 DEF IsPage
<1>7. IdsOf(<<>>) = <<>>
  <2> DEFINE s == IdsOf(<<>>)
  <2>1. s \in Seq(Uuids) /\ Len(s) = 0
    <3>1. Len(<<>>) = 0  OBVIOUS
    <3> QED BY <1>2, <3>1, IdsIs
  <2> HIDE DEF s
  <2>2. s = <<>>  BY <2>1, EmptySeq
  <2> QED BY <2>2 DEF s
<1> HIDE DEF none, e
<1> QED BY <1>3, <1>4, <1>6, <1>7 DEF e

(* A lesson begins. *)
LEMMA InitLesson == Init => LessonInv
<1> SUFFICES ASSUME Init PROVE LessonInv
  OBVIOUS
<1>1. PICK p \in PageIds, first \in FirstTimes :
        /\ pages = [q \in PageIds |-> EmptyPage(FALSE)] /\ opened = {p} /\ current = p
        /\ init = [u \in Uuids |-> None]
        /\ actions = <<[time |-> first, type |-> "Switch", page |-> p, id |-> None, look |-> None]>>
        /\ now = first /\ film = <<Picture(p, <<>>)>> /\ usage \in Usages
  BY DEF Init, LessonInit
<1>2. /\ mode = "record" /\ state = "NotStart" /\ base = 0 /\ elapsed = 0 /\ sound = NoSound
      /\ board = Blank /\ played = {} /\ animated = 0 /\ cut = 0
  BY DEF Init
<1> DEFINE a == [time |-> first, type |-> "Switch", page |-> p, id |-> None, look |-> None]
<1>3. a \in Action /\ a.type = "Switch" /\ a.id = None /\ a.page = p
  BY LessonAssumption DEF Action
<1>4. actions = <<a>>  BY <1>1
<1> HIDE DEF a
<1>5. /\ actions \in Seq(Action) /\ Len(actions) = 1 /\ DOMAIN actions = {1} /\ actions[1] = a
  BY <1>3, <1>4
<1>6. init \in [Uuids -> Looks \cup {None}] /\ File = {}
  BY <1>1 DEF File
<1>7. /\ pages \in [PageIds -> PageSet]
      /\ \A r \in PageIds : IsPage(pages[r]) /\ pages[r].drawn = <<>> /\ pages[r].undos = <<>>
                            /\ \A u \in Uuids : pages[r].copies[u] = 0
  BY <1>1, EmptyIs
<1>8. film \in Seq(Pictures) /\ film # <<>> /\ \A k \in DOMAIN film : film[k].page \in opened
  <2>1. Picture(p, <<>>) \in Pictures /\ Picture(p, <<>>).page = p
    <3>1. <<>> \in Seq([id : Uuids, look : Looks])  BY EmptySeq
    <3> QED BY <3>1 DEF Picture, Pictures
  <2> DEFINE x == Picture(p, <<>>)
  <2> HIDE DEF x
  <2> QED BY <1>1, <2>1 DEF x
<1>9. board \in Board /\ board.page = None
  <2>1. [r \in PageIds |-> <<>>] \in [PageIds -> Seq(Uuids)]  BY EmptySeq
  <2> QED BY <1>2, <1>6, <2>1 DEF Blank, Board
<1>10. TypeOK
  <2>1. LessonTypeOK
    BY <1>1, <1>5, <1>6, <1>7, <1>8, LessonAssumption DEF LessonTypeOK
  <2>2. sound \in [on : BOOLEAN, at : Nat] /\ state \in States  BY <1>2 DEF NoSound, States
  <2> QED BY <1>2, <1>9, <2>1, <2>2 DEF TypeOK
<1>11. Sensible  BY <1>1, <1>3, <1>5 DEF Sensible
<1>12. \A u, r : ~Acted(u, r)  BY <1>3, <1>5 DEF Acted
<1>13. Homes  BY <1>12 DEF Homes
<1>14. Known
  <2>1. \A r \in PageIds : <<>> \in Seq(Home(r))  BY EmptySeq
  <2>2. ~(0 > 0)  OBVIOUS
  <2> QED BY <1>7, <2>1, <2>2 DEF Known
<1>15. BoardOpened  BY <1>9 DEF BoardOpened
<1>16. History
  <2> DEFINE f == Whole({}, init, actions)
  <2>1. /\ Nothing(init) \in Board /\ f[0] = Nothing(init)
        /\ \A i \in 1..Len(actions) : f[i] = PlayAction({}, f[i - 1], actions[i])
    BY <1>5, <1>6, WholeIs
  <2>2. f = Replay  BY <1>6 DEF Replay
  <2> HIDE DEF f
  <2>3. f[1] = PlayAction({}, Nothing(init), a)
    <3>1. 1 \in 1..Len(actions) /\ 1 - 1 = 0  BY <1>5
    <3>2. f[1] = PlayAction({}, f[1 - 1], actions[1])  BY <2>1, <3>1
    <3> QED BY <1>5, <2>1, <3>1, <3>2
  <2>4. f[1].page = current  BY <1>1, <1>3, <2>3 DEF PlayAction
  <2>5. \A r \in PageIds : f[0].drawn[r] = <<>>  BY <2>1 DEF Nothing
  <2>6. ASSUME NEW r \in PageIds PROVE f[1].drawn[r] = <<>>
    <3>1. Nothing(init).drawn[r] = <<>>  BY DEF Nothing
    <3>2. Redrawn({}, <<>>, a) = <<>>  BY <1>3 DEF Redrawn
    <3>3. CASE r = a.page  BY <1>3, <2>1, <2>3, <3>1, <3>2, <3>3, PlayedDrawn
    <3>4. CASE r # a.page  BY <1>3, <2>1, <2>3, <3>1, <3>4, PlayedDrawn
    <3> QED BY <3>3, <3>4
  <2>7. Saved  BY <1>3, <1>5 DEF Saved
  <2>8. Ids  BY <1>5, <1>7, <2>2, <2>6, EmptyIs DEF Ids
  <2>9. NoRepeats
    <3>1. Distinct(<<>>)  BY DEF Distinct
    <3>2. \A n \in 0..1 : n = 0 \/ n = 1  OBVIOUS
    <3> QED BY <1>5, <2>2, <2>5, <2>6, <3>1, <3>2 DEF NoRepeats
  <2> QED BY <1>5, <2>2, <2>4, <2>7, <2>8, <2>9 DEF History
<1> QED BY <1>10, <1>11, <1>13, <1>14, <1>15, <1>16 DEF LessonInv

(* The boards that playing some actions makes. *)
LEMMA RunIs ==
  ASSUME actions \in Seq(Action), NEW b \in Board, NEW S
  PROVE  \E h \in Runs(File, actions, b, S) :
           /\ PlayActions(b, S) = h[Len(actions)]
           /\ h[Len(actions)] \in Board
<1>1. File \in SUBSET Uuids  BY DEF File
<1>2. PICK h : h \in Runs(File, actions, b, S)  BY <1>1, RunExists
<1>3. PlayActions(b, S) = h[Len(actions)]  BY <1>2, PlayActionsIs
<1>4. h[Len(actions)] \in Board
  <2>1. h \in [0..Len(actions) -> Board]  BY <1>2, Zenon DEF Runs
  <2>2. Len(actions) \in 0..Len(actions)  BY LenProperties
  <2> QED BY <2>1, <2>2
<1> QED BY <1>2, <1>3, <1>4

(* A board that shows one of some pages shows one of them afterwards, and  *)
(* the elements of the file still look like something.                     *)
LEMMA BoardPlayed ==
  ASSUME LessonInv, NEW b \in Board, NEW S, NEW O, opened \subseteq O, b.page \in O,
         NEW G \in SUBSET Uuids, \A u \in G : b.look[u] \in Looks
  PROVE  /\ PlayActions(b, S) \in Board /\ PlayActions(b, S).page \in O
         /\ \A u \in G : PlayActions(b, S).look[u] \in Looks
<1>1. actions \in Seq(Action) /\ File \in SUBSET Uuids
  BY DEF LessonInv, TypeOK, LessonTypeOK, File
<1>2. PICK h \in Runs(File, actions, b, S) :
        PlayActions(b, S) = h[Len(actions)] /\ h[Len(actions)] \in Board
  BY <1>1, RunIs
<1>3. b \in Proper(G, O)  BY DEF Proper
<1>4. \A i \in 1..Len(actions) : /\ actions[i].type = "Switch" => actions[i].page \in O
                                 /\ actions[i].type = "Change" => actions[i].look \in Looks
  <2>1. DOMAIN actions = 1..Len(actions)  BY <1>1, LenProperties
  <2> QED BY <2>1 DEF LessonInv, Sensible
<1>5. \A n \in 0..Len(actions) : h[n] \in Proper(G, O)  BY <1>1, <1>3, <1>4, RunsProper
<1>6. Len(actions) \in 0..Len(actions)  BY <1>1, LenProperties
<1>7. PlayActions(b, S) \in Proper(G, O)  BY <1>2, <1>5, <1>6
<1> QED BY <1>7 DEF Proper

(* The board without its elements. *)
LEMMA ResetIs ==
  ASSUME LessonInv
  PROVE  /\ ResetElements(board) \in Board /\ ResetElements(board).page = board.page
         /\ \A p \in PageIds : ResetElements(board).drawn[p] = <<>>
         /\ ResetElements(board).look = init
<1>1. board \in Board /\ init \in [Uuids -> Looks \cup {None}]
  BY DEF LessonInv, TypeOK, LessonTypeOK
<1>2. [p \in PageIds |-> <<>>] \in [PageIds -> Seq(Uuids)]  BY EmptySeq
<1> DEFINE d == [p \in PageIds |-> <<>>]
<1>3. ResetElements(board) = [drawn |-> d, look |-> init, page |-> board.page]
  <2>1. ResetElements(board) = [board EXCEPT !.drawn = d, !.look = init]
    BY Zenon DEF ResetElements
  <2> HIDE DEF d
  <2> QED BY <1>1, <2>1 DEF Board
<1>4. d \in [PageIds -> Seq(Uuids)] /\ \A p \in PageIds : d[p] = <<>>  BY <1>2
<1> HIDE DEF d
<1> QED BY <1>1, <1>3, <1>4 DEF Board

(* The latest switch is one of those that are due. *)
LEMMA LatestIs ==
  ASSUME actions \in Seq(Action), NEW time, Switches(time) # {}
  PROVE  /\ Latest(time) \in Switches(time)
         /\ \A j \in Switches(time) : j <= Latest(time)
<1>1. Switches(time) \in SUBSET (0..Len(actions)) /\ Len(actions) \in Nat
  <2> DEFINE l == Len(actions)
  <2>1. DOMAIN actions = 1..l /\ l \in Nat  BY LenProperties
  <2>2. Switches(time) \subseteq DOMAIN actions  BY DEF Switches, Due
  <2> HIDE DEF l
  <2>3. Switches(time) \in SUBSET (0..l)  BY <2>1, <2>2
  <2> QED BY <2>1, <2>3 DEF l
<1>2. \E i \in Switches(time) : \A j \in Switches(time) : j <= i  BY <1>1, Greatest
<1> QED BY <1>2 DEF Latest

(* What is played is due and was not played. *)
LEMMA ToPlay ==
  ASSUME actions \in Seq(Action), NEW time, NEW done
  PROVE  /\ GetLatestSwitchBoardActions(time, done) \subseteq Due(time) \ done
         /\ Due(time) \subseteq DOMAIN actions
<1>1. Due(time) \subseteq DOMAIN actions  BY DEF Due
<1>2. OfPage(time) \subseteq Due(time) /\ Switches(time) \subseteq Due(time)
  BY DEF OfPage, Switches
<1>3. CASE Switches(time) = {}  BY <1>1, <1>3 DEF GetLatestSwitchBoardActions
<1>4. CASE Switches(time) # {}
  <2>1. Latest(time) \in Due(time)  BY <1>2, <1>4, LatestIs
  <2> QED BY <1>1, <1>2, <1>4, <2>1 DEF GetLatestSwitchBoardActions
<1> QED BY <1>3, <1>4

(* A step of the player: the lesson stays, and the board stays one. *)
LEMMA PlayKeeps ==
  ASSUME LessonInv, TimeInv', mode' = "play", lessonVars' = lessonVars, cut' = cut,
         board' \in Board, board'.page \in opened \cup {None},
         played' \subseteq DOMAIN actions, animated' \in Nat
  PROVE  LessonInv'
<1>1. /\ pages' = pages /\ opened' = opened /\ current' = current /\ init' = init /\ actions' = actions
      /\ now' = now /\ film' = film /\ usage' = usage /\ cut' = cut /\ mode' = "play"
  BY DEF lessonVars
<1>2. TypeOK'
  BY <1>1 DEF LessonInv, TypeOK, LessonTypeOK, TimeInv, TimeOK
<1>3. Replay' = Replay  BY <1>1 DEF Replay, File
<1>4. \A u, p : Acted(u, p)' = Acted(u, p)  BY <1>1 DEF Acted
<1>5. \A p : Home(p)' = Home(p)  BY <1>1, <1>4 DEF Home, File
<1>6. Sensible' /\ Homes' /\ Known'
  BY <1>1, <1>4, <1>5 DEF LessonInv, Sensible, Homes, Known
<1>7. cut' = 0 => History'
  BY <1>1, <1>3 DEF LessonInv, History, Saved, Ids, NoRepeats, File
<1>8. BoardOpened'  BY <1>1 DEF BoardOpened
<1> QED BY <1>2, <1>6, <1>7, <1>8 DEF LessonInv

(* What a step of the player does with the board. *)
BoardNext ==
  /\ board' \in Board /\ board'.page \in opened \cup {None}
  /\ played' \subseteq DOMAIN actions /\ animated' \in Nat

(* Bringing the board to a time. *)
LEMMA AnimateIs ==
  ASSUME LessonInv, NEW b \in Board, b.page \in opened \cup {None},
         NEW done, done \subseteq DOMAIN actions, NEW time \in Nat, Animate(b, done, time)
  PROVE  BoardNext
<1> DEFINE S == GetLatestSwitchBoardActions(time, done)
<1>1. board' = PlayActions(b, S) /\ played' = done \cup S /\ animated' = time  BY DEF Animate
<1>2. S \subseteq DOMAIN actions  BY ToPlay DEF LessonInv, TypeOK, LessonTypeOK
<1> HIDE DEF S
<1>3. PlayActions(b, S) \in Board /\ PlayActions(b, S).page \in opened \cup {None}
  <2> DEFINE O == opened \cup {None}
             G == {}
  <2>1. opened \subseteq O /\ b.page \in O /\ G \in SUBSET Uuids /\ \A u \in G : b.look[u] \in Looks
    OBVIOUS
  <2> HIDE DEF O, G
  <2>2. PlayActions(b, S) \in Board /\ PlayActions(b, S).page \in O  BY <2>1, BoardPlayed
  <2> QED BY <2>2 DEF O
<1> QED BY <1>1, <1>2, <1>3 DEF BoardNext

(* A seek, to a time of the lesson or not. *)
LEMMA SoughtIs ==
  ASSUME LessonInv, NEW time \in Nat,
         Animate(ResetElements(board), {}, IF time > TotalTime THEN 0 ELSE time)
  PROVE  BoardNext
<1> DEFINE b == ResetElements(board)
           reached == IF time > TotalTime THEN 0 ELSE time
<1>1. b \in Board /\ b.page \in opened \cup {None}  BY ResetIs DEF LessonInv, BoardOpened
<1>2. reached \in Nat /\ Animate(b, {}, reached) /\ {} \subseteq DOMAIN actions  OBVIOUS
<1> HIDE DEF b, reached
<1> QED BY <1>1, <1>2, AnimateIs

(* Playing keeps what is said of the lesson. *)
LEMMA PlayerKeeps ==
  ASSUME LessonInv, TimeInv, TimeInv',
         \/ Load \/ Start \/ Pause \/ Tick \/ AnimatedTriggered \/ TimeIsUp
         \/ \E time \in 0..MaxTime + 1 : OnGotoPosition(time) \/ ConvertFrame(time)
  PROVE  LessonInv'
<1>0. /\ board \in Board /\ board.page \in opened \cup {None} /\ animated \in Nat
      /\ mode = "play" => played \subseteq DOMAIN actions
      /\ init \in [Uuids -> Looks \cup {None}]
  BY DEF LessonInv, TypeOK, LessonTypeOK, BoardOpened
<1>1. CASE Load
  <2>1. board' = Blank /\ played' = {} /\ animated' = 0 /\ mode' = "play"
        /\ lessonVars' = lessonVars /\ cut' = cut
    BY <1>1 DEF Load
  <2>2. Blank \in Board /\ Blank.page = None
    <3>1. [p \in PageIds |-> <<>>] \in [PageIds -> Seq(Uuids)]  BY EmptySeq
    <3> QED BY <1>0, <3>1 DEF Blank, Board
  <2> QED BY <2>1, <2>2, PlayKeeps
<1>2. CASE mode = "play" /\ UnchangedLesson /\ BoardNext
  BY <1>2, PlayKeeps DEF UnchangedLesson, BoardNext
<1>3. CASE mode = "play" /\ UnchangedLesson /\ UNCHANGED boardVars
  BY <1>0, <1>2, <1>3 DEF boardVars, BoardNext
<1>4. CASE mode = "play" /\ UnchangedLesson /\ ResetPages
  <2>1. board' = ResetElements(board) /\ played' = {} /\ animated' = 0  BY <1>4 DEF ResetPages
  <2>2. BoardNext  BY <1>0, <2>1, ResetIs DEF BoardNext
  <2> QED BY <1>2, <1>4, <2>2
<1>5. CASE Start \/ Pause \/ Tick  BY <1>3, <1>5 DEF Start, Pause, Tick, Playing
<1>6. CASE AnimatedTriggered
  <2>1. mode = "play" /\ UnchangedLesson /\ Animate(board, played, GetAnimatedTime)
    BY <1>6 DEF AnimatedTriggered, Playing
  <2>2. GetAnimatedTime \in Nat  BY DEF TimeInv, TimeOK, GetAnimatedTime
  <2>3. BoardNext  BY <1>0, <2>1, <2>2, AnimateIs
  <2> QED BY <1>2, <2>1, <2>3
<1>7. CASE TimeIsUp  BY <1>4, <1>7 DEF TimeIsUp, Playing
<1>8. ASSUME NEW time \in 0..MaxTime + 1, OnGotoPosition(time) PROVE LessonInv'
  <2>1. mode = "play" /\ UnchangedLesson  BY <1>8 DEF OnGotoPosition, Playing
  <2>2. time \in Nat  BY LessonAssumption
  <2>3. CASE time > TotalTime \/ IsPausing
    BY <1>2, <1>8, <2>1, <2>2, <2>3, SoughtIs DEF OnGotoPosition
  <2>4. CASE ~(time > TotalTime \/ IsPausing)  BY <1>4, <1>8, <2>1, <2>4 DEF OnGotoPosition
  <2> QED BY <2>3, <2>4
<1>9. ASSUME NEW time \in 0..MaxTime + 1, ConvertFrame(time) PROVE LessonInv'
  <2>1. mode = "play" /\ UnchangedLesson /\ GotoTime(time)  BY <1>9 DEF ConvertFrame, Playing
  <2>2. time \in Nat  BY LessonAssumption
  <2> DEFINE reached == IF time > TotalTime THEN 0 ELSE time
             S == GetUnAnimatedActions(reached, {})
             b == ResetElements(board)
  <2>3. board' = PlayActions(b, S) /\ played' = S /\ animated' = reached /\ reached \in Nat
    BY <2>1, <2>2 DEF GotoTime
  <2>4. S \subseteq DOMAIN actions  BY DEF GetUnAnimatedActions, Due
  <2>5. PlayActions(b, S) \in Board /\ PlayActions(b, S).page \in opened \cup {None}
    <3> DEFINE O == opened \cup {None}
               G == {}
    <3>1. opened \subseteq O /\ b \in Board /\ b.page \in O
          /\ G \in SUBSET Uuids /\ \A u \in G : b.look[u] \in Looks
      BY <1>0, ResetIs
    <3> HIDE DEF O, G, b, S
    <3>2. PlayActions(b, S) \in Board /\ PlayActions(b, S).page \in O  BY <3>1, BoardPlayed
    <3> QED BY <3>2 DEF O
  <2> HIDE DEF S, b, reached
  <2>6. BoardNext  BY <2>3, <2>4, <2>5 DEF BoardNext
  <2> QED BY <1>2, <2>1, <2>6
<1> QED BY <1>1, <1>5, <1>6, <1>7, <1>8, <1>9

-----------------------------------------------------------------------------
(* A lesson recorded anew.                                                 *)

(* The page made of what is drawn on a board. *)
LEMMA PageOfIs ==
  ASSUME NEW b \in Board, NEW p \in PageIds, Distinct(b.drawn[p]), NEW A \in SUBSET Element,
         \A i \in 1..Len(b.drawn[p]) :
           [id |-> b.drawn[p][i], copy |-> 1, look |-> b.look[b.drawn[p][i]]] \in A
  PROVE  /\ PageOf(b, p) \in PageSet /\ IsPage(PageOf(b, p))
         /\ PageOf(b, p).drawn \in Seq(A) /\ PageOf(b, p).undos = <<>>
         /\ IdsOf(PageOf(b, p).drawn) = b.drawn[p]
         /\ \A u \in Uuids : PageOf(b, p).copies[u] =
              IF \E i \in 1..Len(b.drawn[p]) : b.drawn[p][i] = u THEN 1 ELSE 0
<1> DEFINE s == b.drawn[p]
           E(i) == [id |-> s[i], copy |-> 1, look |-> b.look[s[i]]]
           d == [i \in DOMAIN s |-> E(i)]
           c == [u \in Uuids |-> IF \E i \in DOMAIN s : s[i] = u THEN 1 ELSE 0]
           q == PageOf(b, p)
<1>1. s \in Seq(Uuids)  BY DEF Board
<1>2. DOMAIN s = 1..Len(s) /\ Len(s) \in Nat /\ \A i \in 1..Len(s) : s[i] \in Uuids
  BY <1>1, LenProperties, ElementOfSeq
<1>3. q = [EmptyPage(FALSE) EXCEPT !.drawn = d, !.copies = c, !.found = c]
  BY Zenon DEF PageOf
<1>4. \A i \in 1..Len(s) : E(i) \in A /\ E(i).id = s[i]  OBVIOUS
<1>5. c \in [Uuids -> {0, 1}] /\ \A u \in Uuids : c[u] = IF \E i \in 1..Len(s) : s[i] = u THEN 1 ELSE 0
  BY <1>2
<1> HIDE DEF c, s
<1>6. d \in Seq(A) /\ Len(d) = Len(s) /\ \A i \in 1..Len(s) : d[i].id = s[i]
  <2>1. d = [i \in 1..Len(s) |-> E(i)]  BY <1>2
  <2> HIDE DEF E, d
  <2>2. d \in [1..Len(s) -> A]  BY <1>4, <2>1
  <2>3. d \in Seq(A) /\ Len(d) = Len(s)  BY <1>2, <2>2, SeqDef, LenProperties
  <2>4. \A i \in 1..Len(s) : d[i] = E(i)  BY <2>1
  <2> QED BY <1>4, <2>3, <2>4
<1> HIDE DEF d
<1>7. d \in Seq(Element) /\ <<>> \in Seq(Element)  BY <1>6, EmptySeq
<1>8. 0 \in 0..MaxCopies /\ 1 \in 0..MaxCopies  BY LessonAssumption
<1>9. q.drawn = d /\ q.undos = <<>> /\ q.copies = c /\ q.found = c /\ q \in PageSet
  <2> DEFINE x == <<>>
             none == [u \in Uuids |-> 0]
  <2>1. EmptyPage(FALSE) = [drawn |-> x, undos |-> x, copies |-> none, found |-> none, disabled |-> FALSE]
    BY Zenon DEF EmptyPage
  <2> HIDE DEF none, x, q
  <2>0. q = [[drawn |-> x, undos |-> x, copies |-> none, found |-> none, disabled |-> FALSE]
               EXCEPT !.drawn = d, !.copies = c, !.found = c]
    BY <1>3, <2>1, Zenon
  <2>2. q = [drawn |-> d, undos |-> x, copies |-> c, found |-> c, disabled |-> FALSE]
    BY <2>0
  <2>3. q.drawn = d /\ q.undos = x /\ q.copies = c /\ q.found = c  BY <2>2
  <2>4. x \in Seq(Element)  BY <1>7 DEF x
  <2>5. c \in [Uuids -> 0..MaxCopies]  BY <1>5, <1>8
  <2>6. q \in PageSet  BY <1>7, <2>2, <2>4, <2>5 DEF PageSet
  <2> QED BY <2>3, <2>6 DEF x
<1> HIDE DEF q
<1>10. IdsOf(d) = s
  <2>1. IdsOf(d) \in Seq(Uuids) /\ Len(IdsOf(d)) = Len(d) /\ \A i \in 1..Len(d) : IdsOf(d)[i] = d[i].id
    BY <1>7, IdsIs
  <2> DEFINE t == IdsOf(d)
  <2> HIDE DEF t
  <2>2. t \in Seq(Uuids) /\ Len(t) = Len(s) /\ \A i \in 1..Len(s) : t[i] = s[i]
    BY <1>6, <2>1 DEF t
  <2>3. t = s  BY <1>1, <2>2, SeqEqual
  <2> QED BY <2>3 DEF t
<1>11. PageOfIds(q)
  <2>1. Distinct(<<>>) /\ Apart(s, <<>>)  BY DEF Distinct, Apart
  <2>2. Distinct(s)  BY DEF s
  <2>3. IdsOf(q.drawn) = s /\ IdsOf(q.undos) = <<>>  BY <1>9, <1>10, EmptyIs
  <2>4. \A u \in Uuids : c[u] <= c[u]  BY <1>5
  <2> QED BY <1>9, <2>1, <2>2, <2>3, <2>4 DEF PageOfIds
<1>12. IsPage(q)  BY <1>9, <1>11, PageMeans
<1>13. q \in PageSet /\ IsPage(q) /\ q.drawn \in Seq(A) /\ q.undos = <<>> /\ IdsOf(q.drawn) = s
       /\ \A u \in Uuids : q.copies[u] = IF \E i \in 1..Len(s) : s[i] = u THEN 1 ELSE 0
  BY <1>5, <1>6, <1>9, <1>10, <1>12
<1> QED BY <1>13 DEF q, s

(* The board on which the first n actions are played from the beginning. *)
LEMMA PlayedUpTo ==
  ASSUME LessonInv, NEW n \in 0..Len(actions), NEW p \in PageIds, NEW U \in SUBSET Uuids,
         \A i \in 1..Len(actions) :
           actions[i].type = "Change" /\ actions[i].id \in U => actions[i].page = p
  PROVE  Like(PlayActions(ResetElements(board), 1..n), Replay[n], p, U)
<1> DEFINE b == ResetElements(board)
           S == 1..n
           l == Len(actions)
<1>1. actions \in Seq(Action) /\ File \in SUBSET Uuids /\ init \in [Uuids -> Looks \cup {None}]
  BY DEF LessonInv, TypeOK, LessonTypeOK, File
<1>2. b \in Board /\ (\A q \in PageIds : b.drawn[q] = <<>>) /\ b.look = init  BY ResetIs
<1> HIDE DEF b
<1>3. PICK h \in Runs(File, actions, b, S) : PlayActions(b, S) = h[Len(actions)]
  BY <1>1, <1>2, RunIs
<1>4. l \in Nat /\ 0 \in 0..l /\ n \in 0..l  BY <1>1, LenProperties
<1>5. Like(b, Whole(File, init, actions)[0], p, U)
  <2>1. Whole(File, init, actions)[0] = Nothing(init)  BY <1>1, WholeIs
  <2>2. Nothing(init).drawn[p] = <<>> /\ Nothing(init).look = init  BY DEF Nothing
  <2> QED BY <1>2, <2>1, <2>2 DEF Like
<1>6. \A i \in 1..l : i \in S <=> 0 < i /\ i <= n
  <2> HIDE DEF l
  <2> QED BY <1>4
<1>7. n \in 0..Len(actions) /\ 0 \in 0..Len(actions) /\ n \in Nat  BY <1>4 DEF l
<1>8. Like(h[Len(actions)], Whole(File, init, actions)[n], p, U)
  <2> HIDE DEF S
  <2> DEFINE m == 0
  <2>1. m \in 0..Len(actions) /\ n \in m..Len(actions)  BY <1>7
  <2>2. Like(b, Whole(File, init, actions)[m], p, U)  BY <1>5
  <2>3. \A i \in 1..Len(actions) : actions[i].type # "Switch" /\ actions[i].page = p =>
                                     (i \in S <=> m < i /\ i <= n)
    BY <1>6 DEF l
  <2>4. h \in Runs(File, actions, b, S)  BY <1>3
  <2>5. Fits(actions, S, p, U, m, n)  BY <2>3, Zenon DEF Fits
  <2> HIDE DEF m, l
  <2> QED BY <1>1, <1>2, <2>1, <2>2, <2>4, <2>5, PlaysPage, Zenon
<1> QED BY <1>3, <1>8 DEF Replay, b

(* What the lesson comes to on a page, as long as it was not recorded      *)
(* anew: elements that were shown there, each once.                        *)
LEMMA ReplayDrawn ==
  ASSUME LessonInv, cut = 0, NEW n \in 0..Len(actions), NEW p \in PageIds
  PROVE  /\ Replay[n].drawn[p] \in Seq(Shows(File, actions, p, n))
         /\ Distinct(Replay[n].drawn[p])
<1>1. actions \in Seq(Action) /\ File \in SUBSET Uuids /\ init \in [Uuids -> Looks \cup {None}]
  BY DEF LessonInv, TypeOK, LessonTypeOK, File
<1>2. Whole(File, init, actions)[n].drawn[p] \in Seq(Shows(File, actions, p, n))
  BY <1>1, DrawnFrom
<1> QED BY <1>2 DEF Replay, LessonInv, History, NoRepeats

(* The film of a lesson recorded anew. *)
LEMMA FilmCut ==
  ASSUME film \in Seq(Pictures), NEW time \in Nat, time <= Len(film), NEW x \in Pictures,
         film' = Append(SubSeq(film, 1, time), x)
  PROVE  /\ film' \in Seq(Pictures) /\ film' # <<>> /\ Len(film') = time + 1
         /\ DOMAIN film' = 1..(time + 1)
         /\ (\A k \in 1..time : k \in DOMAIN film /\ film'[k] = film[k]) /\ film'[time + 1] = x
<1> DEFINE s == SubSeq(film, 1, time)
           l == Len(film)
<1>0. l \in Nat /\ DOMAIN film = 1..l  BY LenProperties
<1>1. s \in Seq(Pictures) /\ Len(s) = time /\ \A k \in 1..time : s[k] = film[k]
  <2>1. \A k \in 1..time : k \in 1..Len(film)
    <3>1. l \in Nat /\ time <= l  BY <1>0
    <3> HIDE DEF l
    <3>2. \A k \in 1..time : k \in 1..l  BY <3>1
    <3> QED BY <3>2 DEF l
  <2>2. s = [k \in 1..time |-> film[k]]  BY <2>1, SubSeqProperties
  <2>3. \A k \in 1..time : film[k] \in Pictures  BY <2>1, ElementOfSeq
  <2> HIDE DEF s
  <2>4. s \in [1..time -> Pictures]  BY <2>2, <2>3
  <2>5. s \in Seq(Pictures) /\ Len(s) = time  BY <2>4, SeqDef, LenProperties
  <2> QED BY <2>2, <2>5
<1> HIDE DEF s
<1>2. film' = Append(s, x)  BY DEF s
<1>3. /\ film' \in Seq(Pictures) /\ Len(film') = time + 1
      /\ (\A k \in 1..time : film'[k] = s[k]) /\ film'[time + 1] = x
  BY <1>1, <1>2, OneMore
<1>4. \A k \in 1..time : k \in 1..l
  <2>1. l \in Nat /\ time <= l  BY <1>0
  <2> HIDE DEF l
  <2> QED BY <2>1
<1>5. film' # <<>>
  <2>1. Len(<<>>) = 0 /\ time + 1 # 0  OBVIOUS
  <2> QED BY <1>3, <2>1
<1>6. DOMAIN film' = 1..(time + 1)  BY <1>3, LenProperties
<1> QED BY <1>0, <1>1, <1>3, <1>4, <1>5, <1>6

(* What recording anew starts from: the time, and the first actions, those *)
(* due, played from the beginning.                                         *)
LEMMA RerecordIs ==
  ASSUME LessonInv, TimeInv, OnReRecord
  PROVE  /\ cut = 0 /\ base \in Nat /\ base + 1 <= Len(film) /\ now' = base /\ cut' = base + 1
         /\ actions' = Until(base) /\ mode' = "record" /\ animated' = base
         /\ pages' = [p \in PageIds |-> PageOf(board', p)] /\ current' = board'.page
         /\ opened' = opened /\ usage' = usage
         /\ film' = Append(SubSeq(film, 1, base), Picture(current', Shown(pages'[current'])))
         /\ board' = PlayActions(ResetElements(board), Due(base))
         /\ played' = Due(base) /\ board.page # None
         /\ init' = [u \in Uuids |->
                       IF \E p \in PageIds : pages'[p].copies[u] = 1 THEN board'.look[u] ELSE None]
<1>1. GetAnimatedTime = base /\ base \in Nat
  BY DEF OnReRecord, IsPausing, GetAnimatedTime, TimeInv, TimeOK
<1>2. base <= TotalTime /\ GotoTime(base)  BY <1>1 DEF OnReRecord
<1>3. base + 1 <= Len(film)
  <2>1. Len(film) \in Nat  BY LenProperties DEF LessonInv, TypeOK, LessonTypeOK
  <2> QED BY <1>1, <1>2, <2>1 DEF TotalTime
<1>4. ~(base > TotalTime)
  <2>1. TotalTime \in Int
    <3>1. Len(film) \in Nat  BY LenProperties DEF LessonInv, TypeOK, LessonTypeOK
    <3> QED BY <3>1 DEF TotalTime
  <2> QED BY <1>1, <1>2, <2>1
<1>5. /\ board' = PlayActions(ResetElements(board), Due(base)) /\ played' = Due(base)
      /\ animated' = base
  <2>1. GetUnAnimatedActions(base, {}) = Due(base)  BY DEF GetUnAnimatedActions
  <2> QED BY <1>2, <1>4, <2>1 DEF GotoTime
<1> QED BY <1>1, <1>3, <1>5 DEF OnReRecord

(* What it makes of a page: the elements drawn there by the actions kept.  *)
LEMMA RerecordPage ==
  ASSUME LessonInv, TimeInv, OnReRecord, NEW p \in PageIds
  PROVE  /\ pages'[p] \in PageSet /\ IsPage(pages'[p])
         /\ pages'[p].drawn \in Seq(Home(p)') /\ pages'[p].undos = <<>>
         /\ \A u \in Uuids : pages'[p].copies[u] > 0 => Acted(u, p)'
<1>0. actions \in Seq(Action) /\ base \in Nat /\ DOMAIN actions = 1..Len(actions)
  BY RerecordIs, LenProperties DEF LessonInv, TypeOK, LessonTypeOK
<1>1. PICK n \in 0..Len(actions) : Due(base) = 1..n /\ \A i \in 1..n : actions[i].time < base
  BY <1>0, DueIs
<1> DEFINE s == board'.drawn[p]
           A == Home(p)'
           E(i) == [id |-> s[i], copy |-> 1, look |-> board'.look[s[i]]]
<1>2. board' = PlayActions(ResetElements(board), 1..n) /\ cut = 0  BY <1>1, RerecordIs
<1>3. /\ board' \in Board
      /\ \A u \in File : board'.look[u] \in Looks
  <2> DEFINE b == ResetElements(board)
             O == opened \cup {None}
             S == 1..n
             G == File
  <2>1. b \in Board /\ b.page \in O /\ opened \subseteq O  BY ResetIs DEF LessonInv, BoardOpened
  <2>2. G \in SUBSET Uuids /\ \A u \in G : b.look[u] \in Looks
    BY ResetIs DEF LessonInv, TypeOK, LessonTypeOK, File
  <2> HIDE DEF b, O, S, G
  <2>3. PlayActions(b, S) \in Board /\ \A u \in G : PlayActions(b, S).look[u] \in Looks
    BY <2>1, <2>2, BoardPlayed
  <2> QED BY <1>2, <2>3 DEF b, S, G
<1>4. s \in Seq(Shows(File, actions, p, n)) /\ Distinct(s)
  <2>1. Like(PlayActions(ResetElements(board), 1..n), Replay[n], p, {})
    <3> DEFINE U == {}
    <3>1. U \in SUBSET Uuids /\ \A i \in 1..Len(actions) :
             actions[i].type = "Change" /\ actions[i].id \in U => actions[i].page = p
      OBVIOUS
    <3> HIDE DEF U
    <3>2. Like(PlayActions(ResetElements(board), 1..n), Replay[n], p, U)  BY <3>1, PlayedUpTo
    <3> QED BY <3>2 DEF U
  <2>2. s = Replay[n].drawn[p]  BY <1>2, <2>1 DEF Like
  <2> QED BY <1>2, <2>2, ReplayDrawn
<1>5. ASSUME NEW u \in Shows(File, actions, p, n)
      PROVE  u \in File /\ u \in Uuids /\ board'.look[u] \in Looks /\ Acted(u, p)'
  <2>1. u \in File /\ u \in Uuids /\ \E i \in 1..n : actions[i].type = "Show" /\ actions[i].page = p /\ actions[i].id = u
    BY DEF Shows, File
  <2>2. PICK i \in 1..n : actions[i].type = "Show" /\ actions[i].page = p /\ actions[i].id = u
    BY <2>1
  <2>3. i \in DOMAIN actions  BY <1>0, <2>2, Positions
  <2>4. actions[i].time <= base
    <3>1. actions[i] \in Action  BY <1>0, <2>3, ElementOfSeq
    <3>2. actions[i].time \in Nat  BY <3>1 DEF Action
    <3> QED BY <1>0, <1>1, <2>2, <3>2
  <2>5. PICK k \in DOMAIN Until(base) : Until(base)[k] = actions[i]
    BY <1>0, <2>3, <2>4, UntilKeeps
  <2>6. actions' = Until(base)  BY RerecordIs
  <2>7. k \in DOMAIN actions' /\ actions'[k].type = "Show" /\ actions'[k].page = p /\ actions'[k].id = u
    BY <2>2, <2>5, <2>6
  <2>8. Acted(u, p)'  BY <2>7 DEF Acted
  <2> QED BY <1>3, <2>1, <2>8
<1>6. \A i \in 1..Len(s) : s[i] \in Shows(File, actions, p, n)  BY <1>4, ElementOfSeq
<1>7. pages'[p] = PageOf(board', p)  BY RerecordIs
<1>8. Distinct(board'.drawn[p])  BY <1>4
<1>9. \A u \in Uuids : PageOf(board', p).copies[u] = IF \E i \in 1..Len(s) : s[i] = u THEN 1 ELSE 0
  <2> DEFINE All == Element
  <2>1. All \in SUBSET Element  OBVIOUS
  <2>2. \A i \in 1..Len(s) : E(i) \in All
    BY <1>5, <1>6, LessonAssumption DEF Element
  <2> HIDE DEF All
  <2> QED BY <1>3, <1>8, <2>1, <2>2, PageOfIs
<1>10. ASSUME NEW u \in Uuids, NEW i \in 1..Len(s), s[i] = u PROVE E(i) \in A /\ Acted(u, p)'
  <2>1. board'.look[u] \in Looks /\ Acted(u, p)'  BY <1>5, <1>6, <1>10
  <2>2. E(i) \in Element /\ E(i).id = u  BY <1>10, <2>1, LessonAssumption DEF Element
  <2>3. pages'[p].copies[u] = 1  BY <1>7, <1>9, <1>10
  <2>4. init'[u] = board'.look[u]  BY <2>3, RerecordIs
  <2>5. u \in File'  BY <2>1, <2>4, LessonAssumption DEF File
  <2> HIDE DEF E
  <2> QED BY <2>1, <2>2, <2>5 DEF Home
<1>11. A \in SUBSET Element  BY DEF Home
<1>12. /\ PageOf(board', p) \in PageSet /\ IsPage(PageOf(board', p))
       /\ PageOf(board', p).drawn \in Seq(A) /\ PageOf(board', p).undos = <<>>
  <2> HIDE DEF A
  <2>1. \A i \in 1..Len(board'.drawn[p]) :
           [id |-> board'.drawn[p][i], copy |-> 1, look |-> board'.look[board'.drawn[p][i]]] \in A
    BY <1>5, <1>6, <1>10
  <2> QED BY <1>3, <1>8, <1>11, <2>1, PageOfIs
<1>13. \A u \in Uuids : pages'[p].copies[u] > 0 => Acted(u, p)'
  <2> SUFFICES ASSUME NEW u \in Uuids, pages'[p].copies[u] > 0 PROVE Acted(u, p)'
    OBVIOUS
  <2>1. pages'[p].copies[u] = IF \E i \in 1..Len(s) : s[i] = u THEN 1 ELSE 0  BY <1>7, <1>9
  <2>2. ~(0 > 0)  OBVIOUS
  <2>3. \E i \in 1..Len(s) : s[i] = u  BY <2>1, <2>2
  <2> HIDE DEF s, E
  <2> QED BY <1>10, <2>3
<1> QED BY <1>7, <1>12, <1>13

(* Recording anew keeps what is said of the lesson. *)
LEMMA RerecordKeeps ==
  ASSUME LessonInv, TimeInv, TimeInv', OnReRecord
  PROVE  LessonInv'
<1>0. /\ actions \in Seq(Action) /\ DOMAIN actions = 1..Len(actions)
      /\ init \in [Uuids -> Looks \cup {None}]
      /\ film \in Seq(Pictures) /\ \A k \in DOMAIN film : film[k].page \in opened
      /\ usage \in Usages /\ opened \subseteq PageIds
  BY LenProperties DEF LessonInv, TypeOK, LessonTypeOK
<1>1. /\ cut = 0 /\ base \in Nat /\ base + 1 <= Len(film) /\ now' = base /\ cut' = base + 1
      /\ actions' = Until(base) /\ mode' = "record" /\ animated' = base
      /\ pages' = [p \in PageIds |-> PageOf(board', p)] /\ current' = board'.page
      /\ opened' = opened /\ usage' = usage
      /\ film' = Append(SubSeq(film, 1, base), Picture(current', Shown(pages'[current'])))
      /\ board' = PlayActions(ResetElements(board), Due(base))
      /\ board.page # None
      /\ init' = [u \in Uuids |->
                    IF \E p \in PageIds : pages'[p].copies[u] = 1 THEN board'.look[u] ELSE None]
  BY RerecordIs
<1>2. board' \in Board /\ board'.page \in opened
  <2> DEFINE b == ResetElements(board)
             O == opened
             S == Due(base)
             G == {}
  <2>1. b \in Board /\ b.page \in O /\ opened \subseteq O  BY <1>1, ResetIs DEF LessonInv, BoardOpened
  <2>2. G \in SUBSET Uuids /\ \A u \in G : b.look[u] \in Looks  OBVIOUS
  <2> HIDE DEF b, O, S, G
  <2>3. PlayActions(b, S) \in Board /\ PlayActions(b, S).page \in O  BY <2>1, <2>2, BoardPlayed
  <2> QED BY <1>1, <2>3 DEF b, S, O
<1>3. \A p \in PageIds : /\ pages'[p] \in PageSet /\ IsPage(pages'[p])
                         /\ pages'[p].drawn \in Seq(Home(p)') /\ pages'[p].undos = <<>>
                         /\ \A u \in Uuids : pages'[p].copies[u] > 0 => Acted(u, p)'
  BY RerecordPage
<1>4. pages' \in [PageIds -> PageSet]
  <2>1. \A p \in PageIds : PageOf(board', p) \in PageSet  BY <1>1, <1>3
  <2> QED BY <1>1, <2>1
<1>5. init' \in [Uuids -> Looks \cup {None}]
  <2>1. \A u \in Uuids : board'.look[u] \in Looks \cup {None}  BY <1>2 DEF Board
  <2> QED BY <1>1, <2>1
<1>6. /\ actions' \in Seq(Action)
      /\ \A k \in DOMAIN actions' : \E i \in DOMAIN actions : actions'[k] = actions[i]
  BY <1>0, <1>1, UntilKeeps
<1>7. /\ film' \in Seq(Pictures) /\ film' # <<>>
      /\ \A k \in DOMAIN film' : film'[k].page \in opened
  <2> DEFINE x == Picture(current', Shown(pages'[current']))
  <2>1. x \in Pictures /\ x.page \in opened
    <3>1. current' \in PageIds /\ current' \in opened  BY <1>0, <1>1, <1>2
    <3>2. Shown(pages'[current']) \in Seq([id : Uuids, look : Looks])  BY <1>3, <3>1, ShownIs
    <3> QED BY <3>1, <3>2 DEF Picture, Pictures
  <2> HIDE DEF x
  <2>2. film' = Append(SubSeq(film, 1, base), x)  BY <1>1 DEF x
  <2>3. base <= Len(film)
    <3>1. Len(film) \in Nat  BY <1>0, LenProperties
    <3> QED BY <1>1, <3>1
  <2>4. /\ film' \in Seq(Pictures) /\ film' # <<>> /\ DOMAIN film' = 1..(base + 1)
        /\ (\A k \in 1..base : k \in DOMAIN film /\ film'[k] = film[k]) /\ film'[base + 1] = x
    BY <1>0, <1>1, <2>1, <2>2, <2>3, FilmCut
  <2>5. \A k \in 1..(base + 1) : k \in 1..base \/ k = base + 1  BY <1>1
  <2> QED BY <1>0, <2>1, <2>4, <2>5
<1>8. LessonTypeOK'
  BY <1>0, <1>1, <1>2, <1>3, <1>4, <1>5, <1>6, <1>7 DEF LessonTypeOK
<1>9. TypeOK'
  BY <1>1, <1>2, <1>8 DEF TypeOK, TimeInv, TimeOK
<1>10. Sensible'
  BY <1>1, <1>6 DEF LessonInv, Sensible
<1>11. \A u, p : Acted(u, p)' => Acted(u, p)
  <2> SUFFICES ASSUME NEW u, NEW p, Acted(u, p)' PROVE Acted(u, p)
    OBVIOUS
  <2>1. PICK k \in DOMAIN actions' : /\ actions'[k].type # "Switch"
                                     /\ actions'[k].id = u /\ actions'[k].page = p
    BY DEF Acted
  <2>2. PICK i \in DOMAIN actions : actions'[k] = actions[i]  BY <1>6
  <2> QED BY <2>1, <2>2 DEF Acted
<1>12. Homes'
  BY <1>11 DEF LessonInv, Homes
<1>13. Known'
  <2>1. \A p \in PageIds : pages'[p].undos \in Seq(Home(p)')  BY <1>3, EmptySeq
  <2> QED BY <1>3, <2>1 DEF Known
<1>14. BoardOpened'  BY <1>1, <1>2 DEF BoardOpened
<1>15. cut' # 0  BY <1>1
<1> QED BY <1>9, <1>10, <1>12, <1>13, <1>14, <1>15 DEF LessonInv

(* Every step keeps what is said of the lesson. *)
LEMMA StepLesson == LessonInv /\ TimeInv /\ [Next]_vars => LessonInv'
<1> SUFFICES ASSUME LessonInv, TimeInv, [Next]_vars PROVE LessonInv'
  OBVIOUS
<1>0. TimeInv'  BY StepTime
<1>1. CASE mode = "record" /\ Record /\ UNCHANGED <<mode, timeVars, boardVars, cut>>
  <2>1. CASE OnRecordTime
    <3>1. usage' = usage  BY <1>1 DEF Record
    <3> QED BY <1>1, <2>1, <3>1, TimeToldKeeps
  <2>2. CASE ~OnRecordTime
    <3>1. PICK a \in Action : Recorded(a)  BY <1>1, <2>2, TeacherRecorded
    <3> QED BY <1>1, <3>1, RecordedKeeps
  <2> QED BY <2>1, <2>2
<1>2. CASE \/ Load \/ Start \/ Pause \/ Tick \/ AnimatedTriggered \/ TimeIsUp
           \/ \E time \in 0..MaxTime + 1 : OnGotoPosition(time) \/ ConvertFrame(time)
  BY <1>0, <1>2, PlayerKeeps
<1>3. CASE OnReRecord  BY <1>0, <1>3, RerecordKeeps
<1>4. CASE UNCHANGED vars
  <2>1. /\ pages' = pages /\ opened' = opened /\ current' = current /\ init' = init
        /\ actions' = actions /\ now' = now /\ film' = film /\ usage' = usage
        /\ cut' = cut /\ mode' = mode /\ board' = board /\ played' = played /\ animated' = animated
        /\ state' = state /\ base' = base /\ elapsed' = elapsed /\ sound' = sound
    BY <1>4 DEF vars, lessonVars, timeVars, boardVars
  <2>2. TypeOK' = TypeOK  BY <2>1 DEF TypeOK, LessonTypeOK
  <2>3. \A u, p : Acted(u, p)' = Acted(u, p)  BY <2>1 DEF Acted
  <2>4. \A p : Home(p)' = Home(p)  BY <2>1, <2>3 DEF Home, File
  <2>5. Replay' = Replay  BY <2>1 DEF Replay, File
  <2>6. Sensible' /\ Homes' /\ Known' /\ BoardOpened'
    BY <2>1, <2>3, <2>4 DEF LessonInv, Sensible, Homes, Known, BoardOpened
  <2>7. cut' = 0 => History'
    BY <2>1, <2>5 DEF LessonInv, History, Saved, Ids, NoRepeats, File
  <2> QED BY <2>2, <2>6, <2>7 DEF LessonInv
<1> QED BY <1>1, <1>2, <1>3, <1>4 DEF Next

(* Whatever is drawn, undone, redone, erased, reordered, changed, played,  *)
(* sought, converted or recorded anew, for any pages, elements, looks and  *)
(* lengths: the lesson, the player's board and its time are what they are  *)
(* declared to be, every page is one (no element twice, none both drawn    *)
(* and undone), and the player has played only actions of the lesson.      *)
THEOREM PlayerTypeCorrect == Spec => []TypeOK
<1>1. LessonInv /\ TimeInv => TypeOK  BY DEF LessonInv
<1>2. Init => LessonInv /\ TimeInv  BY InitTime, InitLesson
<1>3. LessonInv /\ TimeInv /\ [Next]_vars => (LessonInv /\ TimeInv)'  BY StepTime, StepLesson
<1> QED BY <1>1, <1>2, <1>3, PTL DEF Spec

-----------------------------------------------------------------------------
(* What the teacher's actions do to the looks of the elements, and which   *)
(* of them a lesson has.                                                   *)

Elems(s) == {s[i] : i \in 1..Len(s)}
Were(p) == Elems(pages[p].drawn) \cup Elems(pages[p].undos)

(* After the action a, an element that is drawn was drawn before and was   *)
(* not changed by a, or is as a changed it, or a put it there: then it is  *)
(* new or was undone, and looks as it is saved.                            *)
NowDrawn(a, p) ==
  {e \in Element :
     \/ a.type = "Change" /\ e.id = a.id /\ e.look = a.look
     \/ ~(a.type = "Change" /\ e.id = a.id) /\ e \in Elems(pages[p].drawn)
     \/ /\ a.type = "Show" /\ e.id = a.id /\ init'[e.id] = e.look
        /\ IsNew(e.id) \/ ("redo" \in usage /\ e \in Elems(pages[p].undos))}
SavesLook(a, u) ==
  \/ init'[u] = init[u]
  \/ IsNew(u) /\ a.type = "Show" /\ a.id = u
  \/ "redo" \in usage /\ \E p \in PageIds : \E e \in Elems(pages[p].undos) :
                            e.id = u /\ e.look = init'[u]
Keeping(a, p) == Elems(pages'[p].drawn) \subseteq NowDrawn(a, p) /\ Elems(pages'[p].undos) \subseteq Were(p)
Pictured(a) ==
  /\ a.type \in {"Show", "Switch"} \/ Acted(a.id, a.page)
  /\ a.type = "Hide" => usage \cap {"undo", "delete"} # {}
  /\ a.type = "Change" => "change" \in usage
  /\ \A u \in Uuids : SavesLook(a, u)
  /\ \A p \in PageIds : Keeping(a, p)

(* A list and what is in it. *)
LEMMA ElemsIs ==
  ASSUME NEW S, NEW s \in Seq(S)
  PROVE  s \in Seq(Elems(s)) /\ Elems(s) \subseteq S /\ \A i \in 1..Len(s) : s[i] \in Elems(s)
<1>1. \A i \in 1..Len(s) : s[i] \in S  BY ElementOfSeq
<1> DEFINE E == Elems(s)
<1>2. E \subseteq S /\ \A i \in 1..Len(s) : s[i] \in E  BY <1>1 DEF Elems
<1> HIDE DEF E
<1>3. s \in Seq(E)  BY <1>2
<1> QED BY <1>2, <1>3 DEF E

(* What was recorded is the action that was made. *)
LEMMA ActsIs ==
  ASSUME actions \in Seq(Action), NEW a \in Action, actions' = Append(actions, a),
         NEW type, NEW page, NEW id, NEW look, Acts(type, page, id, look)
  PROVE  a.type = type /\ a.page = page /\ a.id = id /\ a.look = look
<1> DEFINE r == [time |-> now, type |-> type, page |-> page, id |-> id, look |-> look]
           A == Action
           B == A \cup {r}
<1>1. actions' = Append(actions, r)  BY Zenon DEF Acts
<1>2. actions \in Seq(A) /\ a \in B /\ r \in B /\ A \subseteq B  OBVIOUS
<1>3. r.type = type /\ r.page = page /\ r.id = id /\ r.look = look  OBVIOUS
<1> HIDE DEF r, A, B
<1>4. actions \in Seq(B)  BY <1>2
<1>5. Append(actions, r)[Len(actions) + 1] = r  BY <1>2, <1>4, OneMore
<1>6. Append(actions, a)[Len(actions) + 1] = a  BY <1>2, <1>4, OneMore
<1>7. a = r  BY <1>1, <1>5, <1>6, Zenon
<1> QED BY <1>3, <1>7

(* What is on the pages is of the elements. *)
LEMMA WereIs ==
  ASSUME LessonInv, NEW p \in PageIds
  PROVE  /\ Elems(pages[p].drawn) \in SUBSET Element /\ Elems(pages[p].undos) \in SUBSET Element
         /\ pages[p].drawn \in Seq(Elems(pages[p].drawn)) /\ pages[p].drawn \in Seq(Were(p))
         /\ pages[p].undos \in Seq(Elems(pages[p].undos)) /\ pages[p].undos \in Seq(Were(p))
         /\ Were(p) \in SUBSET Element
         /\ Elems(pages[p].drawn) \subseteq Home(p) /\ Elems(pages[p].undos) \subseteq Home(p)
<1> DEFINE d == pages[p].drawn
           c == pages[p].undos
           D == Elems(d)
           C == Elems(c)
           W == D \cup C
<1>1. d \in Seq(Home(p)) /\ c \in Seq(Home(p)) /\ Home(p) \in SUBSET Element  BY CurrentIs
<1> HIDE DEF d, c
<1>2. d \in Seq(D) /\ c \in Seq(C) /\ D \subseteq Home(p) /\ C \subseteq Home(p)  BY <1>1, ElemsIs
<1>3. D \in SUBSET Element /\ C \in SUBSET Element  BY <1>1, <1>2
<1>4. W = Were(p)  BY DEF Were, d, c
<1>5. W \in SUBSET Element /\ D \subseteq W /\ C \subseteq W  BY <1>3
<1> HIDE DEF D, C, W
<1>6. d \in Seq(W) /\ c \in Seq(W)  BY <1>2, <1>5
<1> QED BY <1>2, <1>3, <1>4, <1>5, <1>6 DEF d, c, D, C

(* The pages after something was done on the current one. *)
LEMMA OnePageKeeps ==
  ASSUME LessonInv, NEW a, a.page = current, \A p \in PageIds : Acted(a.id, p) => p = current,
         NEW q, OnPage(q),
         Elems(q.drawn) \subseteq NowDrawn(a, current), Elems(q.undos) \subseteq Were(current)
  PROVE  \A p \in PageIds : Keeping(a, p)
<1>1. current \in PageIds /\ pages \in [PageIds -> PageSet]  BY CurrentIs
<1>2. /\ pages'[current] = q /\ \A p \in PageIds : p # current => pages'[p] = pages[p]
  BY <1>1 DEF OnPage
<1>3. Keeping(a, current)  BY <1>2 DEF Keeping
<1>4. ASSUME NEW p \in PageIds, p # current PROVE Keeping(a, p)
  <2>1. pages'[p] = pages[p]  BY <1>2, <1>4
  <2>2. Elems(pages[p].drawn) \in SUBSET Element /\ Elems(pages[p].drawn) \subseteq Home(p)
    BY WereIs
  <2>3. ASSUME NEW e \in Elems(pages[p].drawn) PROVE e \in NowDrawn(a, p)
    <3>1. e \in Element /\ Acted(e.id, p)  BY <2>2 DEF Home
    <3>2. e.id # a.id  BY <1>4, <3>1
    <3> QED BY <3>1, <3>2 DEF NowDrawn
  <2>4. Elems(pages[p].undos) \subseteq Were(p)  BY DEF Were
  <2> QED BY <2>1, <2>3, <2>4 DEF Keeping
<1> QED BY <1>3, <1>4

(* Nothing is saved anew. *)
LEMMA SameSaved == \A a : init' = init => \A u \in Uuids : SavesLook(a, u)
  BY DEF SavesLook

(* Drawing. *)
LEMMA DrawPictured ==
  ASSUME LessonInv, NEW u \in Uuids, NEW look \in Looks, Draw(u, look),
         NEW a \in Action, actions' = Append(actions, a)
  PROVE  Pictured(a)
<1> DEFINE p == pages[current]
           e == [id |-> u, copy |-> 1, look |-> look]
           D == Elems(p.drawn)
           A == D \cup {e}
<1>1. a.type = "Show" /\ a.page = current /\ a.id = u
  <2>1. Acts("Show", current, u, None)  BY DEF Draw
  <2> QED BY <2>1, ActsIs DEF LessonInv, TypeOK, LessonTypeOK
<1>3. PICK q \in AddElement(pages[current], u, look) : OnPage(q)  BY DEF Draw
<1>4. init' = [init EXCEPT ![u] = look] /\ IsNew(u)  BY DEF Draw
<1>5. /\ current \in PageIds /\ p \in PageSet /\ IsPage(p)
      /\ \A v \in Uuids : p.copies[v] > 0 => Acted(v, current)
  BY CurrentIs
<1>6. init \in [Uuids -> Looks \cup {None}]  BY DEF LessonInv, TypeOK, LessonTypeOK
<1>7. \A r : ~Acted(u, r)  BY <1>4 DEF IsNew, Acted
<1>8. e \in Element /\ e.id = u /\ e.look = look  BY LessonAssumption DEF Element
<1>9. D \in SUBSET Element /\ p.drawn \in Seq(D) /\ D \subseteq Home(current)  BY <1>5, WereIs
<1>10. p.copies[u] = 0
  <2>1. p.copies[u] \in Nat  BY <1>5, LessonAssumption DEF PageSet
  <2>2. ~(p.copies[u] > 0)  BY <1>5, <1>7
  <2> HIDE DEF p
  <2> QED BY <2>1, <2>2
<1>11. \A i \in 1..Len(p.drawn) : p.drawn[i].id # u
  <2>1. \A i \in 1..Len(p.drawn) : p.drawn[i] \in Home(current)  BY <1>9, ElementOfSeq
  <2> QED BY <1>7, <2>1 DEF Home
<1>12. A \in SUBSET Element /\ p.drawn \in Seq(A) /\ e \in A
  <2>1. A \in SUBSET Element /\ D \subseteq A /\ e \in A  BY <1>8, <1>9
  <2> HIDE DEF A, D, p
  <2> QED BY <1>9, <2>1
<1>13. q \in PageSet /\ q.drawn \in Seq(A) /\ q.undos = <<>>
  <2>1. q \in AddElement(p, u, look) /\ [id |-> u, copy |-> 1, look |-> look] \in A
    BY <1>3, <1>12
  <2> HIDE DEF p, A
  <2> QED BY <1>5, <1>10, <1>11, <1>12, <2>1, PageAdded
<1>14. A \subseteq NowDrawn(a, current)
  <2>1. init'[u] = look  BY <1>4, <1>6
  <2>2. e \in NowDrawn(a, current)
    <3> HIDE DEF e
    <3> QED BY <1>1, <1>4, <1>8, <2>1 DEF NowDrawn
  <2>3. D \subseteq NowDrawn(a, current)  BY <1>1, <1>9 DEF NowDrawn
  <2> QED BY <2>2, <2>3
<1>15. Elems(q.drawn) \subseteq A /\ Elems(q.undos) = {}
  <2> HIDE DEF A
  <2>1. Elems(q.drawn) \subseteq A  BY <1>13, ElemsIs
  <2>2. Elems(<<>>) = {}  BY DEF Elems
  <2> QED BY <1>13, <2>1, <2>2
<1>16. \A r \in PageIds : Keeping(a, r)
  <2> HIDE DEF A
  <2>1. Elems(q.drawn) \subseteq NowDrawn(a, current) /\ Elems(q.undos) \subseteq Were(current)
    BY <1>14, <1>15
  <2>2. \A r \in PageIds : Acted(a.id, r) => r = current  BY <1>1, <1>7
  <2> QED BY <1>1, <1>3, <2>1, <2>2, OnePageKeeps
<1>17. \A v \in Uuids : SavesLook(a, v)
  <2>1. \A v \in Uuids : init'[v] # init[v] => v = u  BY <1>4, <1>6
  <2> QED BY <1>1, <1>4, <2>1 DEF SavesLook
<1> QED BY <1>1, <1>16, <1>17 DEF Pictured

(* Undoing and erasing. *)
LEMMA HidePictured ==
  ASSUME LessonInv, NEW k \in 1..Len(pages[current].drawn),
         OnPage(RemoveDrawn(pages[current], k)),
         Acts("Hide", current, pages[current].drawn[k].id, None), init' = init,
         usage \cap {"undo", "delete"} # {},
         NEW a \in Action, actions' = Append(actions, a)
  PROVE  Pictured(a)
<1> DEFINE p == pages[current]
           q == RemoveDrawn(p, k)
           D == Elems(p.drawn)
           W == Were(current)
<1>1. /\ current \in PageIds /\ p \in PageSet /\ IsPage(p)  BY CurrentIs
<1>2. /\ D \in SUBSET Element /\ D \subseteq Home(current) /\ p.drawn \in Seq(D)
      /\ W \in SUBSET Element /\ p.drawn \in Seq(W) /\ p.undos \in Seq(W)
  BY <1>1, WereIs
<1>3. p.drawn[k] \in D  BY <1>2, ElementOfSeq
<1>4. a.type = "Hide" /\ a.page = current /\ a.id = p.drawn[k].id
  BY ActsIs DEF LessonInv, TypeOK, LessonTypeOK
<1>5. Acted(a.id, a.page) /\ \A r \in PageIds : Acted(a.id, r) => r = current
  <2>1. p.drawn[k] \in Home(current)  BY <1>2, <1>3
  <2> HIDE DEF p
  <2> QED BY <1>4, <2>1, HomeIs DEF Home
<1>6. OnPage(q) /\ k \in 1..Len(p.drawn)  OBVIOUS
<1> HIDE DEF p, D, W
<1>7. q.undos \in Seq(W) /\ q.drawn = RemoveAt(p.drawn, k)  BY <1>1, <1>2, <1>6, PageRemoved
<1>8. RemoveAt(p.drawn, k) \in Seq(D)  BY <1>2, <1>6, Removed
<1> HIDE DEF q
<1>9. Elems(q.drawn) \subseteq D /\ Elems(q.undos) \subseteq W
  BY <1>7, <1>8, ElemsIs
<1>10. D \subseteq NowDrawn(a, current)  BY <1>2, <1>4 DEF NowDrawn, D, p
<1>11. \A r \in PageIds : Keeping(a, r)
  BY <1>4, <1>5, <1>6, <1>9, <1>10, OnePageKeeps DEF W
<1> QED BY <1>4, <1>5, <1>11, SameSaved DEF Pictured

(* Redoing. *)
LEMMA RedoPictured ==
  ASSUME LessonInv, Redo, NEW a \in Action, actions' = Append(actions, a)
  PROVE  Pictured(a)
<1> DEFINE p == pages[current]
           e == Last(p.undos)
           q == OnRedo(p)
           D == Elems(p.drawn)
           C == Elems(p.undos)
           W == Were(current)
           A == D \cup {e}
<1>1. /\ current \in PageIds /\ p \in PageSet /\ IsPage(p)  BY CurrentIs
<1>2. /\ D \in SUBSET Element /\ C \in SUBSET Element /\ C \subseteq Home(current)
      /\ p.drawn \in Seq(D) /\ p.undos \in Seq(C)
      /\ W \in SUBSET Element /\ p.drawn \in Seq(W) /\ p.undos \in Seq(W)
  BY <1>1, WereIs
<1>3. p.undos # <<>> /\ OnPage(q) /\ Acts("Show", current, e.id, None) /\ init' = [init EXCEPT ![e.id] = e.look]
      /\ "redo" \in usage
  BY DEF Redo, SaveInitState, Does
<1>4. e \in C
  <2>1. Len(p.undos) \in 1..Len(p.undos) /\ e = p.undos[Len(p.undos)]  BY <1>2, <1>3, FrontIs
  <2> QED BY <1>2, <2>1, ElementOfSeq
<1>5. a.type = "Show" /\ a.page = current /\ a.id = e.id
  BY <1>3, ActsIs DEF LessonInv, TypeOK, LessonTypeOK
<1>6. /\ e \in Element /\ e.id \in Uuids /\ Acted(a.id, a.page)
      /\ \A r \in PageIds : Acted(a.id, r) => r = current
  <2>1. e \in Home(current)  BY <1>2, <1>4
  <2> HIDE DEF e
  <2> QED BY <1>5, <2>1, HomeIs DEF Home
<1> HIDE DEF p, D, C, W
<1>7. q.undos \in Seq(W) /\ q.drawn = Append(p.drawn, e)  BY <1>1, <1>2, <1>3, PageRedone
<1> HIDE DEF q, e
<1>8. A \in SUBSET Element /\ D \subseteq A /\ e \in A  BY <1>2, <1>6
<1>9. Append(p.drawn, e) \in Seq(A)
  <2> HIDE DEF A
  <2>1. p.drawn \in Seq(A)  BY <1>2, <1>8
  <2> QED BY <1>8, <2>1, OneMore
<1>10. Elems(q.drawn) \subseteq A /\ Elems(q.undos) \subseteq W
  <2> HIDE DEF A
  <2> QED BY <1>7, <1>9, ElemsIs
<1>11. init'[e.id] = e.look /\ \A u \in Uuids : init'[u] # init[u] => u = e.id
  <2>1. init \in [Uuids -> Looks \cup {None}]  BY DEF LessonInv, TypeOK, LessonTypeOK
  <2> QED BY <1>3, <1>6, <2>1
<1>12. A \subseteq NowDrawn(a, current)
  <2>1. e \in NowDrawn(a, current)  BY <1>3, <1>4, <1>5, <1>6, <1>11 DEF NowDrawn, C, p
  <2>2. D \subseteq NowDrawn(a, current)  BY <1>2, <1>5 DEF NowDrawn, D, p
  <2> QED BY <2>1, <2>2
<1>13. \A r \in PageIds : Keeping(a, r)
  <2> HIDE DEF A
  <2>1. Elems(q.drawn) \subseteq NowDrawn(a, current)  BY <1>10, <1>12
  <2> QED BY <1>3, <1>5, <1>6, <1>10, <2>1, OnePageKeeps DEF W
<1>14. \A u \in Uuids : SavesLook(a, u)
  <2> SUFFICES ASSUME NEW u \in Uuids, init'[u] # init[u] PROVE SavesLook(a, u)
    BY DEF SavesLook
  <2>1. u = e.id  BY <1>11
  <2>2. e \in Elems(pages[current].undos)  BY <1>4 DEF C, p
  <2>3. \E r \in PageIds : \E f \in Elems(pages[r].undos) : f.id = u /\ f.look = init'[u]
    BY <1>1, <1>11, <2>1, <2>2
  <2> QED BY <1>3, <2>3 DEF SavesLook
<1> QED BY <1>5, <1>13, <1>14 DEF Pictured

(* Putting an element above or below the others. *)
LEMMA OrderPictured ==
  ASSUME LessonInv, NEW k \in 1..Len(pages[current].drawn), NEW type, NEW q,
         \/ type = "TopMost" /\ q = TopMost(pages[current], k)
         \/ type = "BottomMost" /\ q = BottomMost(pages[current], k),
         OnPage(q), Acts(type, current, pages[current].drawn[k].id, None), init' = init,
         NEW a \in Action, actions' = Append(actions, a)
  PROVE  Pictured(a)
<1> DEFINE p == pages[current]
           D == Elems(p.drawn)
           W == Were(current)
<1>1. /\ current \in PageIds /\ p \in PageSet /\ IsPage(p)  BY CurrentIs
<1>2. /\ D \in SUBSET Element /\ D \subseteq Home(current) /\ p.drawn \in Seq(D)
      /\ p.undos \in Seq(Elems(p.undos)) /\ Elems(p.undos) \subseteq W
  BY <1>1, WereIs DEF Were
<1>3. p.drawn[k] \in D  BY <1>2, ElementOfSeq
<1>4. a.type = type /\ a.page = current /\ a.id = p.drawn[k].id
  BY ActsIs DEF LessonInv, TypeOK, LessonTypeOK
<1>5. Acted(a.id, a.page) /\ \A r \in PageIds : Acted(a.id, r) => r = current
  <2>1. p.drawn[k] \in Home(current)  BY <1>2, <1>3
  <2> HIDE DEF p
  <2> QED BY <1>4, <2>1, HomeIs DEF Home
<1>6. k \in 1..Len(p.drawn)  OBVIOUS
<1>7. (type = "TopMost" /\ q = TopMost(p, k)) \/ (type = "BottomMost" /\ q = BottomMost(p, k))
  OBVIOUS
<1> HIDE DEF p, D, W
<1>8. q.undos = p.undos /\ q.drawn \in Seq(D)
  <2>1. CASE type = "TopMost" /\ q = TopMost(p, k)  BY <1>1, <1>2, <1>6, <2>1, PageTopMost
  <2>2. CASE type = "BottomMost" /\ q = BottomMost(p, k)  BY <1>1, <1>2, <1>6, <2>2, PageBottomMost
  <2> QED BY <1>7, <2>1, <2>2
<1>9. Elems(q.drawn) \subseteq D /\ Elems(q.undos) \subseteq W
  BY <1>2, <1>8, ElemsIs
<1>10. D \subseteq NowDrawn(a, current)  BY <1>2, <1>4, <1>7 DEF NowDrawn, D, p
<1>11. \A r \in PageIds : Keeping(a, r)
  BY <1>4, <1>5, <1>9, <1>10, OnePageKeeps DEF W
<1> QED BY <1>4, <1>5, <1>7, <1>11, SameSaved DEF Pictured

(* Changing an element: the others are other elements. *)
LEMMA ChangePictured ==
  ASSUME LessonInv, NEW k \in 1..Len(pages[current].drawn), NEW look \in Looks, Change(k, look),
         NEW a \in Action, actions' = Append(actions, a)
  PROVE  Pictured(a)
<1> DEFINE p == pages[current]
           q == SetLook(p, k, look)
           D == Elems(p.drawn)
           W == Were(current)
<1>1. /\ current \in PageIds /\ p \in PageSet /\ IsPage(p) /\ Distinct(IdsOf(p.drawn))  BY CurrentIs
<1>2. /\ D \in SUBSET Element /\ D \subseteq Home(current) /\ p.drawn \in Seq(D)
      /\ p.undos \in Seq(Elems(p.undos)) /\ Elems(p.undos) \subseteq W
  BY <1>1, WereIs DEF Were
<1>3. p.drawn[k] \in D  BY <1>2, ElementOfSeq
<1>4. OnPage(q) /\ Acts("Change", current, p.drawn[k].id, look) /\ init' = init /\ "change" \in usage
  BY DEF Change, IdAt, Selected, Does
<1>5. a.type = "Change" /\ a.page = current /\ a.id = p.drawn[k].id /\ a.look = look
  BY <1>4, ActsIs DEF LessonInv, TypeOK, LessonTypeOK
<1>6. Acted(a.id, a.page) /\ \A r \in PageIds : Acted(a.id, r) => r = current
  <2>1. p.drawn[k] \in Home(current)  BY <1>2, <1>3
  <2> HIDE DEF p
  <2> QED BY <1>5, <2>1, HomeIs DEF Home
<1>7. k \in 1..Len(p.drawn)  OBVIOUS
<1> HIDE DEF p, W
<1>8. /\ q \in PageSet /\ Len(q.drawn) = Len(p.drawn) /\ q.undos = p.undos
      /\ \A i \in 1..Len(p.drawn) : /\ q.drawn[i].id = p.drawn[i].id
                                    /\ q.drawn[i].look = IF i = k THEN look ELSE p.drawn[i].look
  BY <1>1, <1>7, PageLook
<1>9. p.drawn \in Seq(Element) /\ q.drawn \in Seq(Element)
  BY <1>1, <1>8 DEF PageSet
<1> HIDE DEF q, D
<1>10. \A i, j \in 1..Len(p.drawn) : p.drawn[i].id = p.drawn[j].id => i = j
  BY <1>1, <1>9, IdsIs DEF Distinct
<1>11. \A i \in 1..Len(q.drawn) : q.drawn[i] \in NowDrawn(a, current)
  <2> SUFFICES ASSUME NEW i \in 1..Len(p.drawn) PROVE q.drawn[i] \in NowDrawn(a, current)
    BY <1>8
  <2>1. q.drawn[i] \in Element /\ p.drawn[i] \in Element /\ p.drawn[i] \in D
    BY <1>2, <1>8, <1>9, ElementOfSeq
  <2>2. CASE i = k
    <3>1. q.drawn[i].id = a.id /\ q.drawn[i].look = a.look  BY <1>5, <1>8, <2>2
    <3> QED BY <1>5, <2>1, <3>1 DEF NowDrawn
  <2>3. CASE i # k
    <3>1. q.drawn[i].id = p.drawn[i].id /\ q.drawn[i].look = p.drawn[i].look /\ p.drawn[i].id # a.id
      BY <1>5, <1>7, <1>8, <1>10, <2>3
    <3>2. q.drawn[i].copy = p.drawn[i].copy
      <4>1. \A n \in 1..MaxCopies : n = 1  BY LessonAssumption
      <4>2. q.drawn[i].copy \in 1..MaxCopies /\ p.drawn[i].copy \in 1..MaxCopies  BY <2>1 DEF Element
      <4> QED BY <4>1, <4>2
    <3>3. q.drawn[i] = p.drawn[i]  BY <2>1, <3>1, <3>2 DEF Element
    <3> QED BY <1>5, <2>1, <3>1, <3>3 DEF NowDrawn, D, p
  <2> QED BY <2>2, <2>3
<1>12. Elems(q.drawn) \subseteq NowDrawn(a, current)  BY <1>11 DEF Elems
<1>13. Elems(q.undos) \subseteq W  BY <1>2, <1>8
<1>14. \A r \in PageIds : Keeping(a, r)
  BY <1>4, <1>5, <1>6, <1>12, <1>13, OnePageKeeps DEF W
<1> QED BY <1>4, <1>5, <1>6, <1>14, SameSaved DEF Pictured

(* Turning to a page. *)
LEMMA TurnPictured ==
  ASSUME LessonInv, NEW p \in PageIds, OnNewPage(p) \/ OnSelectPage(p),
         NEW a \in Action, actions' = Append(actions, a)
  PROVE  Pictured(a)
<1>1. pages' = pages /\ init' = init /\ Acts("Switch", p, None, None)
  BY DEF OnNewPage, OnSelectPage
<1>2. a.type = "Switch"  BY <1>1, ActsIs DEF LessonInv, TypeOK, LessonTypeOK
<1>3. ASSUME NEW r \in PageIds PROVE Keeping(a, r)
  <2>1. Elems(pages[r].drawn) \in SUBSET Element  BY WereIs
  <2>2. Elems(pages[r].drawn) \subseteq NowDrawn(a, r)  BY <1>2, <2>1 DEF NowDrawn
  <2> QED BY <1>1, <2>2 DEF Keeping, Were
<1> QED BY <1>1, <1>2, <1>3, SameSaved DEF Pictured

(* Every action of the teacher. *)
LEMMA TeacherPictured ==
  ASSUME LessonInv, Record, ~OnRecordTime, NEW a \in Action, actions' = Append(actions, a)
  PROVE  Pictured(a)
<1>2. ASSUME NEW u \in Uuids, NEW look \in Looks, Draw(u, look) PROVE Pictured(a)
  BY <1>2, DrawPictured
<1>d. /\ pages[current].drawn \in Seq(Home(current))
      /\ DOMAIN pages[current].drawn = 1..Len(pages[current].drawn)
  BY CurrentIs
<1>3. CASE Undo
  <2>1. /\ pages[current].drawn # <<>> /\ OnPage(OnUndo(pages[current])) /\ init' = init
        /\ Acts("Hide", current, Last(pages[current].drawn).id, None) /\ "undo" \in usage
    BY <1>3 DEF Undo, Does
  <2>2. /\ Len(pages[current].drawn) \in 1..Len(pages[current].drawn)
        /\ Last(pages[current].drawn) = pages[current].drawn[Len(pages[current].drawn)]
    BY <1>d, <2>1, FrontIs
  <2>3. /\ OnPage(RemoveDrawn(pages[current], Len(pages[current].drawn)))
        /\ Acts("Hide", current, pages[current].drawn[Len(pages[current].drawn)].id, None)
    BY <2>1, <2>2, Zenon DEF OnUndo
  <2>4. usage \cap {"undo", "delete"} # {}  BY <2>1
  <2> QED BY <2>1, <2>2, <2>3, <2>4, HidePictured
<1>4. CASE Redo  BY <1>4, RedoPictured
<1>5. ASSUME NEW k \in DOMAIN pages[current].drawn, Delete(k) PROVE Pictured(a)
  <2>1. k \in 1..Len(pages[current].drawn)  BY <1>d
  <2>2. /\ OnPage(RemoveDrawn(pages[current], k)) /\ init' = init
        /\ Acts("Hide", current, pages[current].drawn[k].id, None)
        /\ usage \cap {"undo", "delete"} # {}
    BY <1>5 DEF Delete, IdAt, Selected, Does
  <2> QED BY <2>1, <2>2, HidePictured
<1>6. ASSUME NEW k \in DOMAIN pages[current].drawn, OnTopMost(k) PROVE Pictured(a)
  <2>1. k \in 1..Len(pages[current].drawn)  BY <1>d
  <2>2. /\ OnPage(TopMost(pages[current], k)) /\ init' = init
        /\ Acts("TopMost", current, pages[current].drawn[k].id, None)
    BY <1>6 DEF OnTopMost, IdAt
  <2> QED BY <2>1, <2>2, OrderPictured
<1>7. ASSUME NEW k \in DOMAIN pages[current].drawn, OnBottomMost(k) PROVE Pictured(a)
  <2>1. k \in 1..Len(pages[current].drawn)  BY <1>d
  <2>2. /\ OnPage(BottomMost(pages[current], k)) /\ init' = init
        /\ Acts("BottomMost", current, pages[current].drawn[k].id, None)
    BY <1>7 DEF OnBottomMost, IdAt
  <2> QED BY <2>1, <2>2, OrderPictured
<1>8. ASSUME NEW k \in DOMAIN pages[current].drawn, NEW look \in Looks, Change(k, look)
      PROVE  Pictured(a)
  <2>1. k \in 1..Len(pages[current].drawn)  BY <1>d
  <2> QED BY <1>8, <2>1, ChangePictured
<1>9. ASSUME NEW p \in PageIds, OnNewPage(p) \/ OnSelectPage(p) PROVE Pictured(a)
  BY <1>9, TurnPictured
<1> QED BY <1>2, <1>3, <1>4, <1>5, <1>6, <1>7, <1>8, <1>9 DEF Record

-----------------------------------------------------------------------------
(* The film of a lesson shows what the actions told until then come to.    *)

Faithful == "change" \notin usage \/ "redo" \notin usage
Plain == usage \cap {"undo", "redo", "delete", "change"} = {}

(* The first n actions are those of a time before k. *)
Reached(n, k) ==
  /\ \A i \in 1..n : actions[i].time < k
  /\ n < Len(actions) => actions[n + 1].time >= k

(* The times whose pictures the lesson still comes to. *)
Comparable(k) == (cut = 0 /\ Faithful) \/ (Plain /\ k < cut)

Begun ==
  /\ Len(actions) \in Nat \ {0} /\ Len(film) \in Nat \ {0}
  /\ actions[1].type = "Switch" /\ actions[1].time = 0
Timed ==
  /\ now = Len(film) - 1 /\ cut <= Len(film)
  /\ \A i \in 1..Len(actions) : actions[i].time <= now
  /\ \A i \in 1..Len(actions) : \A j \in i..Len(actions) : actions[i].time <= actions[j].time
Filed == \A u \in File : ~IsNew(u)
Unchanging ==
  "change" \notin usage =>
    /\ \A i \in 1..Len(actions) : actions[i].type # "Change"
    /\ \A p \in PageIds : \A e \in Were(p) : e.look = init[e.id]
Looked ==
  cut = 0 /\ Faithful =>
    \A p \in PageIds : \A e \in Elems(pages[p].drawn) : Replay[Len(actions)].look[e.id] = e.look
ShownFirst ==
  Plain => \A i \in 1..Len(actions) :
    /\ actions[i].type # "Hide"
    /\ actions[i].type # "Switch" =>
         \E j \in 1..i : /\ actions[j].type = "Show" /\ actions[j].id = actions[i].id
                         /\ actions[j].page = actions[i].page
Filmed ==
  \A k \in 1..Len(film) : \A n \in 0..Len(actions) :
    Comparable(k) /\ Reached(n, k) => film[k] = OnBoard(Replay[n])
FilmInv == Begun /\ Timed /\ Filed /\ Unchanging /\ Looked /\ ShownFirst /\ Filmed

(* The picture of a board that has a page's elements, as they look. *)
LEMMA PictureOf ==
  ASSUME NEW b, NEW q \in PageIds, NEW p \in PageSet,
         b.page = q, b.drawn[q] = IdsOf(p.drawn),
         \A e \in Elems(p.drawn) : b.look[e.id] = e.look
  PROVE  OnBoard(b) = Picture(q, Shown(p))
<1> DEFINE d == p.drawn
           s == b.drawn[q]
<1>1. /\ d \in Seq(Element) /\ Len(d) \in Nat /\ DOMAIN d = 1..Len(d)
      /\ s \in Seq(Uuids) /\ Len(s) = Len(d) /\ DOMAIN s = 1..Len(s)
      /\ \A i \in 1..Len(d) : s[i] = d[i].id /\ d[i] \in Elems(d)
  <2>1. d \in Seq(Element)  BY DEF PageSet
  <2> QED BY <2>1, IdsIs, ElemsIs, LenProperties
<1>2. \A e \in Elems(d) : b.look[e.id] = e.look  OBVIOUS
<1>3. OnBoard(b) = Picture(q, [i \in DOMAIN s |-> [id |-> s[i], look |-> b.look[s[i]]]])
  BY LessonAssumption DEF OnBoard
<1>4. Shown(p) = [i \in DOMAIN d |-> [id |-> d[i].id, look |-> d[i].look]]
  BY DEF Shown
<1> HIDE DEF d, s
<1>5. \A i \in DOMAIN d : [id |-> s[i], look |-> b.look[s[i]]] = [id |-> d[i].id, look |-> d[i].look]
  BY <1>1, <1>2
<1>6. DOMAIN s = DOMAIN d  BY <1>1
<1>7. [i \in DOMAIN s |-> [id |-> s[i], look |-> b.look[s[i]]]]
      = [i \in DOMAIN d |-> [id |-> d[i].id, look |-> d[i].look]]
  BY <1>5, <1>6
<1> QED BY <1>3, <1>4, <1>7

(* Boards that are alike on the page they show, and in the looks of what   *)
(* is drawn there, show the same.                                          *)
LEMMA LikePicture ==
  ASSUME NEW b, NEW c, NEW q \in PageIds, NEW U, b.page = q, c.page = q, Like(b, c, q, U),
         b.drawn[q] \in Seq(U)
  PROVE  OnBoard(b) = OnBoard(c)
<1> DEFINE s == b.drawn[q]
<1>1. q # None  BY LessonAssumption
<1>2. s \in Seq(U) /\ c.drawn[q] = s /\ \A u \in U : b.look[u] = c.look[u]
  BY DEF Like
<1>3. DOMAIN s = 1..Len(s) /\ \A i \in 1..Len(s) : s[i] \in U
  BY <1>2, LenProperties, ElementOfSeq
<1>4. [i \in DOMAIN s |-> [id |-> s[i], look |-> b.look[s[i]]]]
      = [i \in DOMAIN s |-> [id |-> s[i], look |-> c.look[s[i]]]]
  <2> HIDE DEF s
  <2> QED BY <1>2, <1>3
<1>5. OnBoard(b) = Picture(q, [i \in DOMAIN s |-> [id |-> s[i], look |-> b.look[s[i]]]])
  BY <1>1 DEF OnBoard
<1>6. OnBoard(c) = Picture(q, [i \in DOMAIN s |-> [id |-> s[i], look |-> c.look[s[i]]]])
  BY <1>1, <1>2 DEF OnBoard
<1> QED BY <1>4, <1>5, <1>6

(* Alike boards show the same. *)
LEMMA AlikePicture ==
  ASSUME NEW b, NEW c, NEW U, Alike(b, c, U), b.page = None \/ b.page \in PageIds,
         b.page # None => b.drawn[b.page] \in Seq(U)
  PROVE  OnBoard(b) = OnBoard(c)
<1>1. CASE b.page = None
  BY <1>1 DEF Alike, OnBoard
<1>2. CASE b.page \in PageIds
  <2> DEFINE q == b.page
  <2>1. q # None  BY <1>2, LessonAssumption
  <2>2. q \in PageIds /\ c.page = q /\ Like(b, c, q, U) /\ b.drawn[q] \in Seq(U)
    BY <1>2, <2>1 DEF Alike, Like
  <2>3. b.page = q  OBVIOUS
  <2> HIDE DEF q
  <2> QED BY <2>2, <2>3, LikePicture
<1> QED BY <1>1, <1>2

(* What an element of the file is saved with stays, unless it may be       *)
(* changed, undone and redone.                                             *)
LEMMA Steady ==
  ASSUME LessonInv, FilmInv, Faithful, NEW a, Pictured(a)
  PROVE  SameStates(init, init', File)
<1> SUFFICES ASSUME NEW u \in File PROVE init'[u] = init[u]
  BY DEF SameStates
<1>1. u \in Uuids /\ ~IsNew(u)  BY DEF File, FilmInv, Filed
<1>2. SavesLook(a, u)  BY <1>1 DEF Pictured
<1>3. ASSUME "redo" \in usage, NEW p \in PageIds, NEW e \in Elems(pages[p].undos),
             e.id = u, e.look = init'[u]
      PROVE  init'[u] = init[u]
  <2>1. "change" \notin usage  BY <1>3 DEF Faithful
  <2>2. e \in Were(p)  BY <1>3 DEF Were
  <2>3. e.look = init[e.id]  BY <2>1, <2>2 DEF FilmInv, Unchanging
  <2> QED BY <1>3, <2>3
<1> QED BY <1>1, <1>2, <1>3 DEF SavesLook

(* The lesson after one more action comes to the same before it.           *)
Longer(a) ==
  /\ \A n \in 0..Len(actions) : Alike(Replay[n], Replay'[n], File)
  /\ Replay[Len(actions)] \in Board /\ Replay'[Len(actions)] \in Board
  /\ Replay'[Len(actions) + 1] = PlayAction(File', Replay'[Len(actions)], a)

(* Recording an action makes the lesson longer by it. *)
LEMMA RecordedLonger ==
  ASSUME LessonInv, FilmInv, Faithful, NEW a \in Action, Recorded(a), Pictured(a)
  PROVE  Longer(a)
<1>1. /\ init \in [Uuids -> Looks \cup {None}] /\ init' \in [Uuids -> Looks \cup {None}]
      /\ actions \in Seq(Action) /\ actions' = Append(actions, a)
      /\ File \in SUBSET Uuids /\ File' \in SUBSET Uuids
  BY DEF LessonInv, TypeOK, LessonTypeOK, Recorded, Saves, File
<1>2. \A i \in DOMAIN actions : actions[i].id \in File <=> actions[i].id \in File'
  BY <1>1, ActedMore DEF Recorded
<1>3. SameStates(init, init', File)  BY Steady
<1>4. SameFiles(actions, File, File')
  <2>1. DOMAIN actions = 1..Len(actions)  BY <1>1, LenProperties
  <2> QED BY <1>2, <2>1 DEF SameFiles
<1>5. GoesOn(File, init, actions, File', init', a, File)  BY <1>1, <1>3, <1>4, Extended
<1>6. Replay = Whole(File, init, actions) /\ Replay' = Whole(File', init', Append(actions, a))
  BY <1>1 DEF Replay
<1> QED BY <1>5, <1>6, Zenon DEF GoesOn, Longer

(* One more action: the times stay in order. *)
LEMMA RecordedTimed ==
  ASSUME LessonInv, FilmInv, NEW a \in Action, Recorded(a), cut' = cut
  PROVE  Begun' /\ Timed' /\ Len(film') = Len(film)
<1> DEFINE N == Len(actions)
           L == Len(film)
<1>1. /\ Len(actions') = N + 1 /\ actions'[N + 1] = a /\ \A i \in 1..N : actions'[i] = actions[i]
  <2>1. actions \in Seq(Action) /\ actions' = Append(actions, a)
    BY DEF LessonInv, TypeOK, LessonTypeOK, Recorded
  <2> QED BY <2>1, OneMore
<1>2. Len(film') = L
  <2>1. film \in Seq(Pictures) /\ L \in Nat \ {0}
    BY DEF LessonInv, TypeOK, LessonTypeOK, FilmInv, Begun
  <2>2. \A x : Len([film EXCEPT ![L] = x]) = L
    <3>1. DOMAIN film = 1..L  BY <2>1, LenProperties
    <3>2. \A x : DOMAIN [film EXCEPT ![L] = x] = 1..L  BY <3>1
    <3>3. \A x : [film EXCEPT ![L] = x] \in Seq(Pictures \cup {x})
      <4> SUFFICES ASSUME NEW x PROVE [film EXCEPT ![L] = x] \in Seq(Pictures \cup {x})
        OBVIOUS
      <4>1. film \in Seq(Pictures \cup {x})
        <5> DEFINE P == Pictures \cup {x}
                   Q == Pictures
        <5>1. Q \subseteq P /\ film \in Seq(Q)  BY <2>1
        <5> HIDE DEF P, Q
        <5> QED BY <5>1 DEF P
      <4>2. L \in 1..Len(film)  BY <2>1
      <4> QED BY <4>1, <4>2, ExceptSeq
    <3> HIDE DEF L
    <3> SUFFICES ASSUME NEW x PROVE Len([film EXCEPT ![L] = x]) = L
      OBVIOUS
    <3> DEFINE g == [film EXCEPT ![L] = x]
    <3>4. g \in Seq(Pictures \cup {x}) /\ DOMAIN g = 1..L  BY <3>2, <3>3
    <3> HIDE DEF g
    <3>5. Len(g) \in Nat /\ DOMAIN g = 1..Len(g)  BY <3>4, LenProperties
    <3> QED BY <2>1, <3>4, <3>5 DEF g
  <2> HIDE DEF L
  <2> QED BY <2>2 DEF Recorded, L
<1>3. /\ N \in Nat \ {0} /\ L \in Nat \ {0} /\ actions[1].type = "Switch" /\ actions[1].time = 0
      /\ now = L - 1 /\ cut <= L /\ \A i \in 1..N : actions[i].time <= now
      /\ \A i \in 1..N : \A j \in i..N : actions[i].time <= actions[j].time
      /\ now' = now /\ a.time = now
  BY DEF FilmInv, Begun, Timed, Recorded
<1> HIDE DEF N, L
<1>4. Begun'  BY <1>1, <1>2, <1>3 DEF Begun
<1>5. \A i \in 1..N + 1 : actions'[i].time <= now'
  <2>1. \A i \in 1..N + 1 : i \in 1..N \/ i = N + 1  BY <1>3
  <2>2. now <= now  BY <1>3
  <2> QED BY <1>1, <1>3, <2>1, <2>2
<1>6. \A i \in 1..N + 1 : \A j \in i..N + 1 : actions'[i].time <= actions'[j].time
  <2> SUFFICES ASSUME NEW i \in 1..N + 1, NEW j \in i..N + 1
               PROVE  actions'[i].time <= actions'[j].time
    OBVIOUS
  <2>1. CASE j = N + 1  BY <1>1, <1>3, <1>5, <2>1
  <2>2. CASE j # N + 1
    <3>1. i \in 1..N /\ j \in i..N /\ j \in 1..N  BY <1>3, <2>2
    <3> QED BY <1>1, <1>3, <3>1
  <2> QED BY <2>1, <2>2
<1>7. Timed'
  BY <1>1, <1>2, <1>3, <1>5, <1>6 DEF Timed
<1> QED BY <1>2, <1>4, <1>7 DEF L

(* One more action: the file has elements of actions. *)
LEMMA RecordedFiled ==
  ASSUME LessonInv, FilmInv, NEW a \in Action, Recorded(a), Pictured(a)
  PROVE  Filed'
<1>1. /\ DOMAIN actions = 1..Len(actions) /\ DOMAIN actions' = 1..(Len(actions) + 1)
      /\ \A i \in DOMAIN actions : actions'[i] = actions[i]
      /\ actions'[Len(actions) + 1] = a /\ Len(actions) \in Nat
      /\ \A u \in Uuids, p \in PageIds : Acted(u, p) => ~IsNew(u)
  <2>1. actions \in Seq(Action)  BY DEF LessonInv, TypeOK, LessonTypeOK
  <2>2. \A u \in Uuids, p \in PageIds : Acted(u, p) => ~IsNew(u)  BY DEF Acted, IsNew
  <2> QED BY <2>1, <2>2, ActedMore, LenProperties DEF LessonInv, TypeOK, LessonTypeOK, Recorded
<1>2. SUFFICES ASSUME NEW u \in File' PROVE ~IsNew(u)'
  BY DEF Filed
<1>3. \A v : ~IsNew(v) => ~IsNew(v)'
  <2> SUFFICES ASSUME NEW v, ~IsNew(v) PROVE ~IsNew(v)'
    OBVIOUS
  <2>1. PICK i \in DOMAIN actions : actions[i].id = v  BY DEF IsNew
  <2>2. i \in DOMAIN actions' /\ actions'[i].id = v  BY <1>1, <2>1
  <2> QED BY <2>2 DEF IsNew
<1>4. u \in Uuids /\ init'[u] # None  BY DEF File
<1>5. SavesLook(a, u)  BY <1>4 DEF Pictured
<1>6. CASE init'[u] = init[u]
  BY <1>3, <1>4, <1>6 DEF FilmInv, Filed, File
<1>7. CASE a.id = u
  <2>1. Len(actions) + 1 \in DOMAIN actions'  BY <1>1
  <2> QED BY <1>1, <1>7, <2>1 DEF IsNew
<1>8. ASSUME NEW p \in PageIds, NEW e \in Elems(pages[p].undos), e.id = u PROVE ~IsNew(u)'
  <2>1. e \in Home(p)  BY <1>8, WereIs
  <2>2. Acted(u, p)  BY <1>8, <2>1 DEF Home
  <2> QED BY <1>1, <1>3, <1>4, <2>2
<1> QED BY <1>5, <1>6, <1>7, <1>8 DEF SavesLook

(* One more action: what is never changed looks as it is saved. *)
LEMMA RecordedUnchanging ==
  ASSUME LessonInv, FilmInv, NEW a \in Action, Recorded(a), Pictured(a)
  PROVE  Unchanging'
<1> SUFFICES ASSUME "change" \notin usage
             PROVE  /\ \A i \in 1..Len(actions') : actions'[i].type # "Change"
                    /\ \A p \in PageIds : \A e \in Were(p)' : e.look = init'[e.id]
  BY DEF Recorded, Unchanging
<1>1. Len(actions') = Len(actions) + 1 /\ actions'[Len(actions) + 1] = a /\ Len(actions) \in Nat
      /\ \A i \in 1..Len(actions) : actions'[i] = actions[i]
  <2>1. actions \in Seq(Action) /\ actions' = Append(actions, a)
    BY DEF LessonInv, TypeOK, LessonTypeOK, Recorded
  <2> QED BY <2>1, OneMore, LenProperties
<1>2. a.type # "Change" /\ \A i \in 1..Len(actions) : actions[i].type # "Change"
  BY DEF Pictured, FilmInv, Unchanging
<1>3. \A i \in 1..Len(actions') : actions'[i].type # "Change"
  <2>1. \A i \in 1..(Len(actions) + 1) : i \in 1..Len(actions) \/ i = Len(actions) + 1
    BY <1>1
  <2> QED BY <1>1, <1>2, <2>1
<1>4. SameStates(init, init', File)  BY Steady DEF Faithful
<1>5. ASSUME NEW p \in PageIds, NEW e \in Were(p) PROVE e.look = init'[e.id]
  <2>1. e \in Home(p)  BY <1>5, WereIs DEF Were
  <2>2. e.id \in File  BY <2>1 DEF Home
  <2>3. e.look = init[e.id]  BY <1>5 DEF FilmInv, Unchanging
  <2> QED BY <1>4, <2>2, <2>3 DEF SameStates
<1>6. ASSUME NEW p \in PageIds, NEW e \in Were(p)' PROVE e.look = init'[e.id]
  <2>1. e \in Elems(pages'[p].drawn) \/ e \in Elems(pages'[p].undos)  BY <1>6 DEF Were
  <2>2. Elems(pages'[p].drawn) \subseteq NowDrawn(a, p) /\ Elems(pages'[p].undos) \subseteq Were(p)
    BY DEF Pictured, Keeping
  <2>3. CASE e \in Were(p)  BY <1>5, <2>3
  <2>4. CASE e \in NowDrawn(a, p)
    <3>1. e \in Elems(pages[p].drawn) \/ init'[e.id] = e.look  BY <1>2, <2>4 DEF NowDrawn
    <3> QED BY <1>5, <3>1 DEF Were
  <2> QED BY <2>1, <2>2, <2>3, <2>4
<1> QED BY <1>3, <1>6

(* One more action: when nothing is ever erased, everything is shown first. *)
LEMMA RecordedShown ==
  ASSUME LessonInv, FilmInv, NEW a \in Action, Recorded(a), Pictured(a)
  PROVE  ShownFirst'
<1> SUFFICES ASSUME Plain, NEW i \in 1..Len(actions')
             PROVE  /\ actions'[i].type # "Hide"
                    /\ actions'[i].type # "Switch" =>
                         \E j \in 1..i : /\ actions'[j].type = "Show" /\ actions'[j].id = actions'[i].id
                                         /\ actions'[j].page = actions'[i].page
  BY DEF ShownFirst, Recorded, Plain
<1> DEFINE N == Len(actions)
<1>1. Len(actions') = N + 1 /\ actions'[N + 1] = a /\ N \in Nat /\ DOMAIN actions = 1..N
      /\ \A j \in 1..N : actions'[j] = actions[j]
  <2>1. actions \in Seq(Action) /\ actions' = Append(actions, a)
    BY DEF LessonInv, TypeOK, LessonTypeOK, Recorded
  <2> QED BY <2>1, OneMore, LenProperties
<1>2. \A j \in 1..N : /\ actions[j].type # "Hide"
                      /\ actions[j].type # "Switch" =>
                           \E l \in 1..j : /\ actions[l].type = "Show" /\ actions[l].id = actions[j].id
                                           /\ actions[l].page = actions[j].page
  BY DEF FilmInv, ShownFirst
<1>3. a.type # "Hide" /\ (a.type \in {"Show", "Switch"} \/ Acted(a.id, a.page))
  BY DEF Pictured, Plain
<1>4. i \in 1..N + 1  BY <1>1
<1> HIDE DEF N
<1>5. CASE i \in 1..N
  <2>1. \A l \in 1..i : l \in 1..N  BY <1>1, <1>5
  <2> QED BY <1>1, <1>2, <1>5, <2>1
<1>6. CASE i = N + 1
  <2>1. actions'[i] = a /\ i \in 1..i  BY <1>1, <1>6
  <2>2. CASE a.type \in {"Show", "Switch"}  BY <1>3, <2>1, <2>2
  <2>3. CASE Acted(a.id, a.page)
    <3>1. PICK j \in 1..N : /\ actions[j].type # "Switch"
                            /\ actions[j].id = a.id /\ actions[j].page = a.page
      BY <1>1, <2>3 DEF Acted
    <3>2. PICK l \in 1..j : /\ actions[l].type = "Show" /\ actions[l].id = actions[j].id
                            /\ actions[l].page = actions[j].page
      BY <1>2, <3>1
    <3>3. l \in 1..N /\ l \in 1..i  BY <1>1, <1>6, <3>1, <3>2
    <3>4. actions'[l] = actions[l]  BY <1>1, <3>3
    <3> QED BY <1>3, <2>1, <3>1, <3>2, <3>3, <3>4
  <2> QED BY <1>3, <2>2, <2>3
<1> QED BY <1>1, <1>4, <1>5, <1>6

(* One more action: the lesson still comes to the looks of the elements    *)
(* drawn.                                                                  *)
LEMMA RecordedLooked ==
  ASSUME LessonInv, FilmInv, NEW a \in Action, Recorded(a), Pictured(a), cut' = cut
  PROVE  Looked'
<1> SUFFICES ASSUME cut = 0, Faithful, NEW p \in PageIds, NEW e \in Elems(pages'[p].drawn)
             PROVE  Replay'[Len(actions')].look[e.id] = e.look
  BY DEF Looked, Recorded, Faithful
<1> DEFINE N == Len(actions)
           f == Replay
           g == Replay'
<1>1. /\ actions \in Seq(Action) /\ actions' \in Seq(Action) /\ Len(actions') = N + 1
      /\ N \in Nat /\ N \in 0..N + 1 /\ N \in 0..N
      /\ DOMAIN actions = 1..N /\ \A j \in 1..N : actions'[j] = actions[j]
  <2>1. actions \in Seq(Action) /\ actions' = Append(actions, a)
    BY DEF LessonInv, TypeOK, LessonTypeOK, Recorded
  <2>2. N \in Nat /\ DOMAIN actions = 1..N  BY <2>1, LenProperties
  <2>3. N \in 0..N + 1 /\ N \in 0..N
    <3> HIDE DEF N
    <3> QED BY <2>2
  <2> QED BY <2>1, <2>2, <2>3, OneMore
<1>2. /\ \A n \in 0..N : Alike(f[n], g[n], File)
      /\ g[N] \in Board /\ g[N + 1] = PlayAction(File', g[N], a)
  BY RecordedLonger DEF Longer
<1>3. /\ File \in SUBSET Uuids /\ File' \in SUBSET Uuids /\ init' \in [Uuids -> Looks \cup {None}]
      /\ a.type # "Switch" => a.id \in File'
  BY DEF File, Recorded, Saves
<1>4. g = Whole(File', init', actions')  BY DEF Replay
<1>5. \A q \in PageIds : \A x \in Elems(pages[q].drawn) : f[N].look[x.id] = x.look
  BY DEF FilmInv, Looked
<1>6. SameStates(init, init', File)  BY Steady
<1>7. e \in NowDrawn(a, p)  BY DEF Pictured, Keeping
<1>8. e \in Element /\ e.id \in Uuids  BY <1>7 DEF NowDrawn, Element
<1> HIDE DEF N, f, g
<1>9. CASE a.type = "Change" /\ e.id = a.id /\ e.look = a.look
  <2>1. e.id \in File' /\ a.type = "Change" /\ e.id = a.id  BY <1>3, <1>9
  <2> QED BY <1>1, <1>2, <1>3, <1>8, <1>9, <2>1, PlayedLook DEF g, N
<1>10. CASE ~(a.type = "Change" /\ e.id = a.id) /\ e \in Elems(pages[p].drawn)
  <2>1. e.id \in File
    <3>1. e \in Home(p)  BY <1>10, WereIs
    <3> QED BY <3>1 DEF Home
  <2>2. f[N].look[e.id] = g[N].look[e.id]  BY <1>1, <1>2, <2>1 DEF Alike
  <2>3. ~(a.type = "Change" /\ e.id = a.id /\ e.id \in File')  BY <1>10
  <2>4. PlayAction(File', g[N], a).look[e.id] = g[N].look[e.id]
    BY <1>2, <1>3, <1>8, <2>3, PlayedLook
  <2> QED BY <1>1, <1>2, <1>5, <1>10, <2>2, <2>4 DEF g, N
<1>11. CASE /\ a.type = "Show" /\ e.id = a.id /\ init'[e.id] = e.look
            /\ IsNew(e.id) \/ ("redo" \in usage /\ e \in Elems(pages[p].undos))
  <2>1. \A i \in 1..N : ~(actions'[i].type = "Change" /\ actions'[i].id = e.id)
    <3>1. CASE IsNew(e.id)  BY <1>1, <3>1 DEF IsNew
    <3>2. CASE "redo" \in usage
      <4>1. \A i \in 1..Len(actions) : actions[i].type # "Change"
        BY <3>2 DEF FilmInv, Unchanging, Faithful
      <4> QED BY <1>1, <4>1 DEF N
    <3> QED BY <1>11, <3>1, <3>2
  <2>2. N \in 0..Len(actions')  BY <1>1
  <2>3. g[N].look[e.id] = init'[e.id]
    BY <1>1, <1>3, <1>4, <1>8, <2>1, <2>2, LookKept
  <2>4. ~(a.type = "Change" /\ e.id = a.id /\ e.id \in File')  BY <1>11
  <2>5. PlayAction(File', g[N], a).look[e.id] = g[N].look[e.id]
    BY <1>2, <1>3, <1>8, <2>4, PlayedLook
  <2> QED BY <1>1, <1>2, <1>11, <2>3, <2>5 DEF g, N
<1> QED BY <1>7, <1>9, <1>10, <1>11 DEF NowDrawn

(* What the lesson comes to, in full, is what is on the current page. *)
LEMMA PictureNow ==
  ASSUME NEW b, NEW c \in PageIds, NEW pgs, \A p \in PageIds : pgs[p] \in PageSet,
         b.page = c, \A p \in PageIds : b.drawn[p] = IdsOf(pgs[p].drawn),
         \A p \in PageIds : \A e \in Elems(pgs[p].drawn) : b.look[e.id] = e.look
  PROVE  OnBoard(b) = Picture(c, Shown(pgs[c]))
<1>1. pgs[c] \in PageSet /\ b.drawn[c] = IdsOf(pgs[c].drawn)
      /\ \A e \in Elems(pgs[c].drawn) : b.look[e.id] = e.look
  OBVIOUS
<1> QED BY <1>1, PictureOf

(* The page shown by the lesson, and what is drawn on it, are in the file. *)
LEMMA ReplayOfFile ==
  ASSUME LessonInv, NEW n \in 0..Len(actions)
  PROVE  /\ Replay[n] \in Board
         /\ Replay[n].page = None \/ Replay[n].page \in PageIds
         /\ \A p \in PageIds : Replay[n].drawn[p] \in Seq(File)
<1>1. /\ File \in SUBSET Uuids /\ init \in [Uuids -> Looks \cup {None}] /\ actions \in Seq(Action)
      /\ Replay = Whole(File, init, actions)
  BY DEF LessonInv, TypeOK, LessonTypeOK, File, Replay
<1>2. Replay[n] \in Board
  <2> DEFINE f == Whole(File, init, actions)
  <2>1. f \in [0..Len(actions) -> Board]  BY <1>1, WholeIs
  <2> HIDE DEF f
  <2>2. f[n] \in Board  BY <2>1
  <2> QED BY <1>1, <2>2 DEF f
<1>3. ASSUME NEW p \in PageIds PROVE Replay[n].drawn[p] \in Seq(File)
  <2> DEFINE A == Shows(File, actions, p, n)
             s == Replay[n].drawn[p]
             F == File
  <2>1. s \in Seq(A)  BY <1>1, DrawnFrom
  <2>2. A \subseteq F  BY DEF Shows
  <2> HIDE DEF A, s, F
  <2>3. s \in Seq(F)  BY <2>1, <2>2
  <2> QED BY <2>3 DEF s, F
<1> QED BY <1>2, <1>3 DEF Board

(* One more action: the film goes on showing what the lesson comes to. *)
LEMMA RecordedFilmed ==
  ASSUME LessonInv, LessonInv', FilmInv, NEW a \in Action, Recorded(a), Pictured(a), cut' = cut,
         Looked', Begun', Timed', Len(film') = Len(film)
  PROVE  Filmed'
<1> SUFFICES ASSUME NEW k \in 1..Len(film), NEW n \in 0..Len(actions'),
                    Comparable(k), Reached(n, k)'
             PROVE  film'[k] = OnBoard(Replay'[n])
  BY DEF Filmed, Comparable, Faithful, Plain, Recorded
<1> DEFINE N == Len(actions)
           L == Len(film)
           f == Replay
           g == Replay'
<1>1. /\ Len(actions') = N + 1 /\ actions'[N + 1] = a /\ N \in Nat
      /\ \A j \in 1..N : actions'[j] = actions[j]
  <2>1. actions \in Seq(Action) /\ actions' = Append(actions, a)
    BY DEF LessonInv, TypeOK, LessonTypeOK, Recorded
  <2> QED BY <2>1, OneMore, LenProperties
<1>2. Faithful
  BY DEF Comparable, Faithful, Plain
<1>3. \A i \in 0..N : Alike(f[i], g[i], File)
  BY <1>2, RecordedLonger DEF Longer
<1>4. /\ now = L - 1 /\ cut <= L /\ cut \in Nat /\ a.time = now /\ now \in Nat /\ L \in Nat \ {0}
      /\ \A i \in 1..N : actions[i].time <= now
      /\ \A i \in 1..N : actions[i].time \in Nat
  <2>1. actions \in Seq(Action)  BY DEF LessonInv, TypeOK, LessonTypeOK
  <2>2. \A i \in 1..N : actions[i] \in Action  BY <2>1, ElementOfSeq
  <2>3. \A e \in Action : e.time \in Nat  BY DEF Action
  <2>4. \A i \in 1..N : actions[i].time \in Nat  BY <2>2, <2>3
  <2> QED BY <2>4 DEF FilmInv, Begun, Timed, Recorded, LessonInv, TypeOK, LessonTypeOK
<1>5. /\ film \in Seq(Pictures)
      /\ film' = [film EXCEPT ![L] = Picture(current', Shown(pages'[current']))]
      /\ DOMAIN film = 1..L
  <2>1. film \in Seq(Pictures)  BY DEF LessonInv, TypeOK, LessonTypeOK
  <2> QED BY <2>1, LenProperties DEF Recorded
<1> DEFINE x == Picture(current', Shown(pages'[current']))
<1>6. k \in DOMAIN film  BY <1>5
<1>7. CASE k # L
  <2>1. film'[k] = film[k]
    <3> HIDE DEF x, L
    <3> QED BY <1>5, <1>6, <1>7 DEF x
  <2>2. n \in 0..N /\ Reached(n, k)
    <3>1. \A i \in 1..n : actions'[i].time < k  BY DEF Reached
    <3>2. n < N + 1 => actions'[n + 1].time >= k  BY <1>1 DEF Reached
    <3> HIDE DEF N, L
    <3>3. k < L /\ k \in Nat  BY <1>4, <1>7 DEF L
    <3>4. n \in 0..N + 1  BY <1>1
    <3>5. n # N + 1
      <4> SUFFICES ASSUME n = N + 1 PROVE FALSE
        OBVIOUS
      <4>1. N + 1 \in 1..n  BY <1>1
      <4>2. a.time < k  BY <1>1, <3>1, <4>1
      <4> QED BY <1>4, <3>3, <4>2
    <3>6. n \in 0..N /\ \A i \in 1..n : i \in 1..N  BY <1>1, <3>4, <3>5
    <3>7. n < N => n + 1 \in 1..N  BY <1>1, <3>6
    <3>8. \A i \in 1..n : actions[i].time < k  BY <1>1, <3>1, <3>6
    <3>9. n < N => actions[n + 1].time >= k
      <4> SUFFICES ASSUME n < N PROVE actions[n + 1].time >= k
        OBVIOUS
      <4>1. n < N + 1  BY <1>1, <3>6
      <4> QED BY <1>1, <3>2, <3>7, <4>1
    <3> QED BY <3>6, <3>8, <3>9 DEF Reached, N
  <2>3. film[k] = OnBoard(f[n])  BY <2>2 DEF FilmInv, Filmed
  <2>4. OnBoard(f[n]) = OnBoard(g[n])
    <3>1. Alike(f[n], g[n], File)  BY <1>3, <2>2
    <3>2. /\ f[n].page = None \/ f[n].page \in PageIds
          /\ \A p \in PageIds : f[n].drawn[p] \in Seq(File)
      BY <2>2, ReplayOfFile
    <3> HIDE DEF f, g
    <3>3. f[n].page # None => f[n].drawn[f[n].page] \in Seq(File)  BY <3>2
    <3> QED BY <3>1, <3>2, <3>3, AlikePicture
  <2> QED BY <2>1, <2>3, <2>4
<1>8. CASE k = L
  <2>1. cut = 0
    <3> HIDE DEF L
    <3> QED BY <1>4, <1>8 DEF Comparable
  <2>2. film'[k] = x
    <3> HIDE DEF x, L
    <3> QED BY <1>5, <1>6, <1>8 DEF x
  <2>3. n = N + 1
    <3>1. n < N + 1 => actions'[n + 1].time >= k  BY <1>1 DEF Reached
    <3> HIDE DEF N, L
    <3> SUFFICES ASSUME n # N + 1 PROVE FALSE
      OBVIOUS
    <3>2. n < N + 1 /\ n + 1 \in 1..N + 1  BY <1>1
    <3>3. actions'[n + 1].time <= now /\ actions'[n + 1].time \in Nat
      <4>1. n + 1 = N + 1 \/ n + 1 \in 1..N  BY <1>1, <3>2
      <4>2. now <= now  BY <1>4
      <4> QED BY <1>1, <1>4, <4>1, <4>2
    <3> QED BY <1>4, <1>8, <3>1, <3>2, <3>3
  <2>4. /\ g[n].page = current' /\ \A p \in PageIds : g[n].drawn[p] = IdsOf(pages'[p].drawn)
    BY <1>1, <2>1, <2>3 DEF LessonInv, History, Ids
  <2>5. \A p \in PageIds : \A e \in Elems(pages'[p].drawn) : g[n].look[e.id] = e.look
    BY <1>1, <1>2, <2>1, <2>3 DEF Looked, Faithful, Recorded
  <2>6. current' \in PageIds /\ \A p \in PageIds : pages'[p] \in PageSet
    BY DEF LessonInv, TypeOK, LessonTypeOK
  <2> HIDE DEF g
  <2>7. OnBoard(g[n]) = Picture(current', Shown(pages'[current']))
    <3> DEFINE c == current'
               pgs == pages'
               b == g[n]
    <3>1. /\ c \in PageIds /\ (\A p \in PageIds : pgs[p] \in PageSet) /\ b.page = c
          /\ (\A p \in PageIds : b.drawn[p] = IdsOf(pgs[p].drawn))
          /\ \A p \in PageIds : \A e \in Elems(pgs[p].drawn) : b.look[e.id] = e.look
      BY <2>4, <2>5, <2>6
    <3> HIDE DEF c, pgs, b
    <3>2. OnBoard(b) = Picture(c, Shown(pgs[c]))  BY <3>1, PictureNow
    <3> QED BY <3>2 DEF c, pgs, b
  <2> QED BY <2>2, <2>7 DEF g
<1> QED BY <1>7, <1>8

(* One more action keeps what is said of the film. *)
LEMMA RecordedFilm ==
  ASSUME LessonInv, LessonInv', FilmInv, NEW a \in Action, Recorded(a), Pictured(a), cut' = cut
  PROVE  FilmInv'
<1>1. Begun' /\ Timed' /\ Len(film') = Len(film)  BY RecordedTimed
<1>2. Looked'  BY RecordedLooked
<1>3. Filmed'  BY <1>1, <1>2, RecordedFilmed
<1> QED BY <1>1, <1>2, <1>3, RecordedFiled, RecordedUnchanging, RecordedShown DEF FilmInv

(* The recorder tells the time: the film goes on with the same picture. *)
LEMMA TimeToldFilm ==
  ASSUME LessonInv, FilmInv, OnRecordTime, usage' = usage, cut' = cut
  PROVE  FilmInv'
<1> DEFINE N == Len(actions)
           L == Len(film)
<1>1. /\ now' = L /\ film' = Append(film, Last(film)) /\ pages' = pages
      /\ init' = init /\ actions' = actions
  BY DEF OnRecordTime
<1>2. /\ actions \in Seq(Action) /\ film \in Seq(Pictures) /\ film # <<>> /\ N \in Nat
  BY LenProperties DEF LessonInv, TypeOK, LessonTypeOK
<1>3. Last(film) = film[L] /\ film[L] \in Pictures /\ L \in 1..L
  BY <1>2, FrontIs, ElementOfSeq
<1>4. /\ Len(film') = L + 1 /\ (\A k \in 1..L : film'[k] = film[k]) /\ film'[L + 1] = film[L]
  BY <1>1, <1>2, <1>3, OneMore
<1>5. /\ now = L - 1 /\ cut <= L /\ cut \in Nat /\ L \in Nat \ {0}
      /\ \A i \in 1..N : actions[i].time <= now /\ actions[i].time \in Nat
  <2>1. \A i \in 1..N : actions[i] \in Action  BY <1>2, ElementOfSeq
  <2>2. \A e \in Action : e.time \in Nat  BY DEF Action
  <2>3. \A i \in 1..N : actions[i].time \in Nat  BY <2>1, <2>2
  <2> QED BY <2>3 DEF FilmInv, Begun, Timed, LessonInv, TypeOK, LessonTypeOK
<1>6. Replay' = Replay /\ File' = File /\ (\A u : IsNew(u)' <=> IsNew(u)) /\ (\A p : Were(p)' = Were(p))
  BY <1>1 DEF Replay, File, IsNew, Were
<1>7. Begun'
  <2>1. L + 1 \in Nat \ {0}
    <3> HIDE DEF L
    <3> QED BY <1>5
  <2> QED BY <1>1, <1>4, <2>1 DEF FilmInv, Begun
<1>8. Timed'
  <2>1. L = L + 1 - 1 /\ cut <= L + 1 /\ \A i \in 1..N : actions[i].time <= L
    <3> HIDE DEF L, N
    <3> QED BY <1>5
  <2> QED BY <1>1, <1>4, <2>1 DEF FilmInv, Timed
<1>9. Filed' /\ Unchanging' /\ Looked' /\ ShownFirst'
  BY <1>1, <1>6 DEF FilmInv, Filed, Unchanging, Looked, ShownFirst, Faithful, Plain
<1>10. Filmed'
  <2> SUFFICES ASSUME NEW k \in 1..(L + 1), NEW n \in 0..N, Comparable(k), Reached(n, k)
               PROVE  film'[k] = OnBoard(Replay[n])
    BY <1>1, <1>4, <1>6 DEF Filmed, Comparable, Faithful, Plain, Reached
  <2>1. k \in 1..L \/ k = L + 1
    <3> HIDE DEF L
    <3> QED BY <1>5
  <2>2. CASE k \in 1..L  BY <1>4, <2>2 DEF FilmInv, Filmed
  <2>3. CASE k = L + 1
    <3>1. Comparable(L)
      <4> HIDE DEF L
      <4> QED BY <1>5, <2>3 DEF Comparable
    <3>2. Reached(n, L)
      <4>1. n < N => actions[n + 1].time >= k  BY DEF Reached
      <4> HIDE DEF L, N
      <4>2. \A i \in 1..n : i \in 1..N  BY <1>2
      <4>3. \A i \in 1..n : actions[i].time < L  BY <1>5, <4>2
      <4>4. ~(n < N)
        <5> SUFFICES ASSUME n < N PROVE FALSE
          OBVIOUS
        <5>1. n + 1 \in 1..N  BY <1>2
        <5> QED BY <1>5, <2>3, <4>1, <5>1
      <4> QED BY <4>3, <4>4 DEF Reached, N
    <3> QED BY <1>3, <1>4, <2>3, <3>1, <3>2 DEF FilmInv, Filmed
  <2> QED BY <2>1, <2>2, <2>3
<1> QED BY <1>7, <1>8, <1>9, <1>10 DEF FilmInv

(* Nothing is recorded: what is said of the film stays. *)
LEMMA SameFilm ==
  ASSUME FilmInv, lessonVars' = lessonVars, cut' = cut
  PROVE  FilmInv'
<1>1. /\ now' = now /\ film' = film /\ pages' = pages /\ usage' = usage
      /\ init' = init /\ actions' = actions
  BY DEF lessonVars
<1>2. Replay' = Replay /\ File' = File /\ (\A u : IsNew(u)' <=> IsNew(u)) /\ (\A p : Were(p)' = Were(p))
  BY <1>1 DEF Replay, File, IsNew, Were
<1>3. Begun' /\ Timed'  BY <1>1 DEF FilmInv, Begun, Timed
<1>4. Filed' /\ Unchanging' /\ Looked' /\ ShownFirst'
  BY <1>1, <1>2 DEF FilmInv, Filed, Unchanging, Looked, ShownFirst, Faithful, Plain
<1>5. Filmed'
  BY <1>1, <1>2 DEF FilmInv, Filmed, Comparable, Faithful, Plain, Reached
<1> QED BY <1>3, <1>4, <1>5 DEF FilmInv

(* A lesson begins, provided the first time is 0. *)
LEMMA InitFilm ==
  ASSUME FirstTimes = {0}
  PROVE  Init => FilmInv
<1> SUFFICES ASSUME Init PROVE FilmInv
  OBVIOUS
<1>1. PICK p \in PageIds, first \in FirstTimes :
        /\ pages = [q \in PageIds |-> EmptyPage(FALSE)] /\ opened = {p} /\ current = p
        /\ init = [u \in Uuids |-> None]
        /\ actions = <<[time |-> first, type |-> "Switch", page |-> p, id |-> None, look |-> None]>>
        /\ now = first /\ film = <<Picture(p, <<>>)>> /\ usage \in Usages
  BY DEF Init, LessonInit
<1>2. cut = 0 /\ first = 0 /\ now = 0  BY <1>1 DEF Init
<1>3. LessonInv  BY InitLesson
<1>4. /\ Len(actions) = 1 /\ actions[1].type = "Switch" /\ actions[1].time = 0
      /\ Len(film) = 1 /\ film[1] = Picture(p, <<>>)
  BY <1>1, <1>2
<1>5. \A i \in 1..1 : i = 1  OBVIOUS
<1>6. Begun  BY <1>4 DEF Begun
<1>7. Timed
  <2>1. 0 = 1 - 1 /\ 0 <= 1 /\ 0 <= 0 /\ \A i \in 1..1 : \A j \in i..1 : i = 1 /\ j = 1  OBVIOUS
  <2> QED BY <1>2, <1>4, <2>1 DEF Timed
<1>8. \A r \in PageIds : /\ pages[r].drawn = <<>> /\ pages[r].undos = <<>> /\ pages[r] \in PageSet
                         /\ Elems(pages[r].drawn) = {} /\ Were(r) = {}
  <2>1. Elems(<<>>) = {}  BY DEF Elems
  <2> QED BY <1>1, <2>1, EmptyIs DEF Were
<1>9. Filed  BY <1>1 DEF Filed, File
<1>10. Unchanging  BY <1>4, <1>5, <1>8 DEF Unchanging
<1>11. Looked  BY <1>8 DEF Looked
<1>12. ShownFirst  BY <1>4, <1>5 DEF ShownFirst
<1>13. Replay[1].page = p /\ \A r \in PageIds : Replay[1].drawn[r] = IdsOf(pages[r].drawn)
  BY <1>1, <1>2, <1>3, <1>4 DEF LessonInv, History, Ids
<1>14. OnBoard(Replay[1]) = Picture(p, Shown(pages[p]))
  <2> DEFINE b == Replay[1]
             c == p
             pgs == pages
  <2>1. /\ c \in PageIds /\ (\A r \in PageIds : pgs[r] \in PageSet) /\ b.page = c
        /\ (\A r \in PageIds : b.drawn[r] = IdsOf(pgs[r].drawn))
        /\ \A r \in PageIds : \A e \in Elems(pgs[r].drawn) : b.look[e.id] = e.look
    BY <1>8, <1>13
  <2> HIDE DEF c, pgs, b
  <2>2. OnBoard(b) = Picture(c, Shown(pgs[c]))  BY <2>1, PictureNow
  <2> QED BY <2>2 DEF c, pgs, b
<1>15. Shown(pages[p]) = <<>>
  <2>1. Shown(pages[p]) \in Seq([id : Uuids, look : Looks])  BY <1>8, ShownIs
  <2>2. DOMAIN Shown(pages[p]) = DOMAIN <<>>  BY <1>8 DEF Shown
  <2> DEFINE s == Shown(pages[p])
  <2> HIDE DEF s
  <2>3. s \in Seq([id : Uuids, look : Looks]) /\ DOMAIN s = 1..0  BY <2>1, <2>2 DEF s
  <2>4. Len(s) = 0
    <3>1. Len(s) \in Nat /\ DOMAIN s = 1..Len(s)  BY <2>3, LenProperties
    <3> QED BY <2>3, <3>1
  <2>5. s = <<>>  BY <2>3, <2>4, EmptySeq
  <2> QED BY <2>5 DEF s
<1>16. Filmed
  <2> SUFFICES ASSUME NEW k \in 1..1, NEW n \in 0..1, Reached(n, k)
               PROVE  film[k] = OnBoard(Replay[n])
    BY <1>4 DEF Filmed
  <2>1. k = 1  OBVIOUS
  <2>2. n = 1
    <3>1. n < 1 => actions[n + 1].time >= 1  BY <1>4, <2>1 DEF Reached
    <3>2. n = 0 => 0 < 1 /\ n + 1 = 1 /\ ~(0 >= 1)  OBVIOUS
    <3>3. n = 0 \/ n = 1  OBVIOUS
    <3> QED BY <1>4, <3>1, <3>2, <3>3
  <2> QED BY <1>4, <1>14, <1>15, <2>1, <2>2
<1> QED BY <1>6, <1>7, <1>9, <1>10, <1>11, <1>12, <1>16 DEF FilmInv

-----------------------------------------------------------------------------
(* What is never erased stays drawn, whatever is recorded anew.            *)

(* What is drawn stays drawn, unless it is hidden; what is shown is drawn. *)
LEMMA RedrawnKeeps ==
  ASSUME NEW file, NEW s \in Seq(Uuids), NEW a, a.type # "Hide",
         a.type = "Show" /\ a.id \in file => a.id \in Uuids
  PROVE  /\ Elems(s) \subseteq Elems(Redrawn(file, s, a))
         /\ a.type = "Show" /\ a.id \in file => a.id \in Elems(Redrawn(file, s, a))
<1> DEFINE R == Redrawn(file, s, a)
           l == Len(s)
           k == Lowest(Drawn(s, a.id))
           o == Others(s, a.id)
<1>1. l \in Nat /\ \A i \in 1..l : s[i] \in Uuids  BY LenProperties, ElementOfSeq
<1>2. ASSUME Drawn(s, a.id) # {}
      PROVE  /\ k \in 1..l /\ s[k] = a.id /\ a.id \in Uuids /\ o \in Seq(Uuids)
             /\ \A i \in 1..l : s[i] = a.id \/ \E j \in 1..Len(o) : o[j] = s[i]
  <2>1. /\ Drawn(s, a.id) \in SUBSET Nat
        /\ \A i \in Drawn(s, a.id) : i \in 1..l /\ s[i] = a.id
    BY LenProperties DEF Drawn
  <2>2. k \in 1..l /\ s[k] = a.id  BY <1>2, <2>1, LowestIs
  <2>3. o = RemoveAt(s, k)  BY DEF Others
  <2> HIDE DEF o, k
  <2>4. /\ o \in Seq(Uuids) /\ Len(o) = l - 1
        /\ \A j \in 1..(l - 1) : o[j] = IF j < k THEN s[j] ELSE s[j + 1]
    BY <2>2, <2>3, Removed
  <2> HIDE DEF l
  <2>5. ASSUME NEW i \in 1..l, i # k PROVE \E j \in 1..(l - 1) : o[j] = s[i]
    <3>1. CASE i < k
      <4>1. i \in 1..(l - 1)  BY <1>1, <2>2, <3>1
      <4> QED BY <2>4, <3>1, <4>1
    <3>2. CASE ~(i < k)
      <4>1. i - 1 \in 1..(l - 1) /\ ~(i - 1 < k) /\ i - 1 + 1 = i  BY <1>1, <2>2, <2>5, <3>2
      <4>2. o[i - 1] = s[i - 1 + 1]  BY <2>4, <4>1
      <4> QED BY <4>1, <4>2
    <3> QED BY <3>1, <3>2
  <2> QED BY <1>1, <2>2, <2>4, <2>5
<1> HIDE DEF k, o
<1>3. \A q \in Seq(Uuids), u \in Uuids :
         u \in Elems(Append(q, u)) /\ \A j \in 1..Len(q) : q[j] \in Elems(Append(q, u))
  <2> SUFFICES ASSUME NEW q \in Seq(Uuids), NEW u \in Uuids
               PROVE  u \in Elems(Append(q, u)) /\ \A j \in 1..Len(q) : q[j] \in Elems(Append(q, u))
    OBVIOUS
  <2> DEFINE t == Append(q, u)
             m == Len(q)
  <2>1. Len(t) = m + 1 /\ m \in Nat /\ t[m + 1] = u /\ \A j \in 1..m : t[j] = q[j]
    BY OneMore, LenProperties
  <2> HIDE DEF t, m
  <2>2. m + 1 \in 1..(m + 1) /\ \A j \in 1..m : j \in 1..(m + 1)  BY <2>1
  <2>3. u \in Elems(t) /\ \A j \in 1..m : q[j] \in Elems(t)  BY <2>1, <2>2 DEF Elems
  <2> QED BY <2>3 DEF t, m
<1>4. \A q \in Seq(Uuids), u \in Uuids :
         u \in Elems(<<u>> \o q) /\ \A j \in 1..Len(q) : q[j] \in Elems(<<u>> \o q)
  <2> SUFFICES ASSUME NEW q \in Seq(Uuids), NEW u \in Uuids
               PROVE  u \in Elems(<<u>> \o q) /\ \A j \in 1..Len(q) : q[j] \in Elems(<<u>> \o q)
    OBVIOUS
  <2> DEFINE t == <<u>> \o q
             m == Len(q)
  <2>1. Len(t) = m + 1 /\ m \in Nat /\ t[1] = u /\ \A j \in 1..m : t[j + 1] = q[j]
    BY Preceded, LenProperties
  <2> HIDE DEF t, m
  <2>2. 1 \in 1..(m + 1) /\ \A j \in 1..m : j + 1 \in 1..(m + 1)  BY <2>1
  <2>3. u \in Elems(t) /\ \A j \in 1..m : q[j] \in Elems(t)  BY <2>1, <2>2 DEF Elems
  <2> QED BY <2>3 DEF t, m
<1>5. \A u \in Elems(s) : \E i \in 1..l : s[i] = u  BY DEF Elems
<1> HIDE DEF l
<1>6. CASE a.type = "Show" /\ a.id \in file
  <2>1. R = Append(s, a.id)  BY <1>6 DEF Redrawn
  <2> QED BY <1>3, <1>5, <1>6, <2>1 DEF l
<1>7. CASE a.type = "TopMost" /\ Drawn(s, a.id) # {}
  <2>1. R = Append(o, a.id)  BY <1>7 DEF Redrawn, o
  <2>2. o \in Seq(Uuids) /\ a.id \in Uuids  BY <1>2, <1>7
  <2>3. a.id \in Elems(R) /\ \A j \in 1..Len(o) : o[j] \in Elems(R)  BY <1>3, <2>1, <2>2
  <2> HIDE DEF R
  <2>4. \A i \in 1..l : s[i] \in Elems(R)  BY <1>2, <1>7, <2>3
  <2> QED BY <1>5, <1>7, <2>4 DEF R
<1>8. CASE a.type = "BottomMost" /\ Drawn(s, a.id) # {}
  <2>1. R = <<a.id>> \o o  BY <1>8 DEF Redrawn, o
  <2>2. o \in Seq(Uuids) /\ a.id \in Uuids  BY <1>2, <1>8
  <2>3. a.id \in Elems(R) /\ \A j \in 1..Len(o) : o[j] \in Elems(R)  BY <1>4, <2>1, <2>2
  <2> HIDE DEF R
  <2>4. \A i \in 1..l : s[i] \in Elems(R)  BY <1>2, <1>8, <2>3
  <2> QED BY <1>5, <1>8, <2>4 DEF R
<1>9. CASE /\ ~(a.type = "Show" /\ a.id \in file)
           /\ ~(a.type \in {"TopMost", "BottomMost"} /\ Drawn(s, a.id) # {})
  <2>1. R = s  BY <1>9 DEF Redrawn
  <2> QED BY <1>9, <2>1
<1> QED BY <1>6, <1>7, <1>8, <1>9

(* Of a lesson that hides nothing, every element shown stays drawn. *)
LEMMA ShownStays ==
  ASSUME NEW file \in SUBSET Uuids, NEW ini \in [Uuids -> Looks \cup {None}],
         NEW as \in Seq(Action), NEW n \in 0..Len(as), NEW k \in 1..n,
         \A i \in 1..n : as[i].type # "Hide",
         as[k].type = "Show", as[k].id \in file
  PROVE  as[k].id \in Elems(Whole(file, ini, as)[n].drawn[as[k].page])
<1> DEFINE f == Whole(file, ini, as)
           u == as[k].id
           p == as[k].page
           D(i) == k <= i => u \in Elems(f[i].drawn[p])
           T == {i \in 0..n : D(i)}
<1>0. /\ n \in Nat
      /\ \A i \in 1..n : as[i] \in Action /\ i \in 1..Len(as) /\ i - 1 \in 0..Len(as)
  BY Positions
<1>1. /\ f \in [0..Len(as) -> Board] /\ f[0] = Nothing(ini)
      /\ \A i \in 1..Len(as) : f[i] = PlayAction(file, f[i - 1], as[i])
  BY WholeIs
<1>2. u \in Uuids /\ p \in PageIds  BY <1>0 DEF Action
<1> HIDE DEF f
<1>3. D(0)
  <2>1. ~(k <= 0)  BY <1>0
  <2> QED BY <2>1
<1>4. ASSUME NEW i \in 1..n, D(i - 1) PROVE D(i)
  <2> DEFINE b == f[i - 1]
             a == as[i]
             s == b.drawn[p]
  <2>1. b \in Board /\ a \in Action /\ f[i] = PlayAction(file, b, a)  BY <1>0, <1>1
  <2>2. s \in Seq(Uuids)  BY <1>2, <2>1 DEF Board
  <2>3. a.type # "Hide" /\ (a.type = "Show" /\ a.id \in file => a.id \in Uuids)  OBVIOUS
  <2>4. k <= i - 1 => u \in Elems(s)  BY <1>4
  <2>5. k = i => a.type = "Show" /\ a.id = u /\ a.id \in file /\ a.page = p  OBVIOUS
  <2>6. /\ p = a.page => f[i].drawn[p] = Redrawn(file, s, a)
        /\ p # a.page => f[i].drawn[p] = s
    <3> HIDE DEF a, b, p
    <3> QED BY <1>2, <2>1, PlayedDrawn
  <2>7. k <= i => k <= i - 1 \/ k = i  BY <1>0
  <2> HIDE DEF a, b, s, u, p
  <2>8. /\ Elems(s) \subseteq Elems(Redrawn(file, s, a))
        /\ a.type = "Show" /\ a.id \in file => a.id \in Elems(Redrawn(file, s, a))
    BY <2>2, <2>3, RedrawnKeeps
  <2> QED BY <2>4, <2>5, <2>6, <2>7, <2>8
<1>5. n \in T
  <2> HIDE DEF D
  <2>1. T \in SUBSET (0..n) /\ 0 \in T /\ \A i \in 1..n : i - 1 \in T => i \in T
    BY <1>0, <1>3, <1>4
  <2> HIDE DEF T
  <2>2. T = 0..n  BY <1>0, <2>1, Upward
  <2> QED BY <1>0, <2>2
<1>6. k <= n  BY <1>0
<1> QED BY <1>5, <1>6 DEF f

(* Of a lesson recorded anew, the first actions are those of the lesson    *)
(* there was, up to the time; and so is the film before it.                *)
KeptFrom(m) ==
  /\ m \in 1..Len(actions) /\ Len(actions') = m
  /\ \A k \in 1..m : actions'[k] = actions[k]
  /\ \A i \in 1..Len(actions) : actions[i].time <= base <=> i <= m

(* PlayerTitleWidget keeps the first actions, those until the time shown. *)
LEMMA RerecordActions ==
  ASSUME LessonInv, TimeInv, FilmInv, OnReRecord
  PROVE  \E m : KeptFrom(m)
<1> DEFINE N == Len(actions)
<1>1. /\ actions \in Seq(Action) /\ base \in Nat /\ N \in Nat \ {0}
      /\ actions' = Until(base) /\ actions[1].time = 0
      /\ \A i \in 1..N : \A j \in i..N : actions[i].time <= actions[j].time
  BY RerecordIs DEF LessonInv, TypeOK, LessonTypeOK, FilmInv, Begun, Timed
<1>2. \A i \in 1..N : actions[i].time \in Nat
  <2>1. \A i \in 1..N : actions[i] \in Action  BY <1>1, ElementOfSeq
  <2>2. \A e \in Action : e.time \in Nat  BY DEF Action
  <2> QED BY <2>1, <2>2
<1>3. PICK m \in 0..N : /\ \A i \in 1..m : actions[i].time < base + 1
                        /\ m < N => ~(actions[m + 1].time < base + 1)
  <2>1. base + 1 \in Nat  BY <1>1
  <2> QED BY <1>1, <2>1, DueIs
<1> HIDE DEF N
<1>4. \A i \in 1..N : actions[i].time <= base <=> i <= m
  <2> SUFFICES ASSUME NEW i \in 1..N PROVE actions[i].time <= base <=> i <= m
    OBVIOUS
  <2>1. CASE i <= m
    <3>1. i \in 1..m  BY <1>1, <2>1
    <3>2. actions[i].time < base + 1  BY <1>3, <3>1
    <3> QED BY <1>1, <1>2, <2>1, <3>2
  <2>2. CASE ~(i <= m)
    <3>1. m < N /\ m + 1 \in 1..N /\ i \in (m + 1)..N  BY <1>1, <2>2
    <3>2. actions[m + 1].time <= actions[i].time  BY <1>1, <3>1
    <3> QED BY <1>1, <1>2, <1>3, <2>2, <3>1, <3>2
  <2> QED BY <2>1, <2>2
<1>5. m \in 1..N
  <2>1. 1 \in 1..N  BY <1>1
  <2>2. actions[1].time <= base  BY <1>1
  <2>3. 1 <= m  BY <1>4, <2>1, <2>2
  <2> QED BY <2>3
<1>6. Len(Until(base)) = m /\ \A k \in 1..m : Until(base)[k] = actions[k]
  BY <1>1, <1>3, <1>4, UntilFirst DEF N
<1>7. KeptFrom(m)  BY <1>1, <1>4, <1>5, <1>6 DEF KeptFrom, N
<1> QED BY <1>7

(* The film and the times of a lesson recorded anew. *)
LEMMA RerecordTimed ==
  ASSUME LessonInv, TimeInv, FilmInv, OnReRecord
  PROVE  /\ Begun' /\ Timed' /\ Len(film') = base + 1
         /\ \A k \in 1..base : k \in 1..Len(film) /\ film'[k] = film[k]
<1> DEFINE N == Len(actions)
<1>1. PICK m : KeptFrom(m)  BY RerecordActions
<1>2. /\ m \in 1..N /\ N \in Nat /\ Len(actions') = m /\ \A k \in 1..m : actions'[k] = actions[k]
      /\ \A i \in 1..N : actions[i].time <= base <=> i <= m
      /\ \A i \in 1..N : \A j \in i..N : actions[i].time <= actions[j].time
      /\ actions[1].type = "Switch" /\ actions[1].time = 0
  BY <1>1 DEF KeptFrom, FilmInv, Begun, Timed
<1>3. /\ base \in Nat /\ base + 1 <= Len(film) /\ now' = base /\ cut' = base + 1
      /\ film' = Append(SubSeq(film, 1, base), Picture(current', Shown(pages'[current'])))
  BY RerecordIs
<1>4. /\ Len(film') = base + 1 /\ DOMAIN film = 1..Len(film)
      /\ \A k \in 1..base : k \in DOMAIN film /\ film'[k] = film[k]
  <2> DEFINE x == Picture(current', Shown(pages'[current']))
  <2>1. film \in Seq(Pictures) /\ opened \subseteq PageIds
    BY DEF LessonInv, TypeOK, LessonTypeOK
  <2>2. x \in Pictures
    <3>1. current' \in PageIds
      <4>1. LessonTypeOK'
        <5>1. TimeInv'  BY StepTime DEF Next
        <5>2. LessonInv'  BY <5>1, RerecordKeeps
        <5> QED BY <5>2 DEF LessonInv, TypeOK
      <4> QED BY <4>1 DEF LessonTypeOK
    <3>2. Shown(pages'[current']) \in Seq([id : Uuids, look : Looks])
      BY <3>1, RerecordPage, ShownIs
    <3> QED BY <3>1, <3>2 DEF Picture, Pictures
  <2> HIDE DEF x
  <2>3. film' = Append(SubSeq(film, 1, base), x)  BY <1>3 DEF x
  <2>4. base <= Len(film) /\ DOMAIN film = 1..Len(film)
    <3>1. Len(film) \in Nat /\ DOMAIN film = 1..Len(film)  BY <2>1, LenProperties
    <3> QED BY <1>3, <3>1
  <2> QED BY <1>3, <2>1, <2>2, <2>3, <2>4, FilmCut
<1> HIDE DEF N
<1>5. Begun'
  <2>1. 1 \in 1..m /\ m \in Nat \ {0} /\ base + 1 \in Nat \ {0}  BY <1>2, <1>3
  <2> QED BY <1>2, <1>4, <2>1 DEF Begun
<1>6. Timed'
  <2>1. \A i \in 1..m : i \in 1..N /\ i <= m  BY <1>2
  <2>2. \A i \in 1..m : \A j \in i..m : j \in i..N /\ j \in 1..m  BY <1>2
  <2>3. \A i \in 1..m : actions'[i].time <= base  BY <1>2, <2>1
  <2>4. \A i \in 1..m : \A j \in i..m : actions'[i].time <= actions'[j].time
    BY <1>2, <2>1, <2>2
  <2>5. base = base + 1 - 1 /\ base + 1 <= base + 1  BY <1>3
  <2> QED BY <1>2, <1>3, <1>4, <2>3, <2>4, <2>5 DEF Timed
<1> QED BY <1>4, <1>5, <1>6

(* Every element drawn is saved as it looks, and only those are. *)
LEMMA RerecordSaved ==
  ASSUME LessonInv, TimeInv, OnReRecord
  PROVE  /\ \A p \in PageIds : \A u \in Elems(board'.drawn[p]) : u \in Uuids => init'[u] = board'.look[u]
         /\ \A p \in PageIds : \A e \in Elems(pages'[p].drawn) : e.look = init'[e.id]
         /\ \A u \in File' : \E p \in PageIds : Acted(u, p)'
<1>1. /\ pages' = [p \in PageIds |-> PageOf(board', p)]
      /\ init' = [u \in Uuids |->
                    IF \E p \in PageIds : pages'[p].copies[u] = 1 THEN board'.look[u] ELSE None]
      /\ board' = PlayActions(ResetElements(board), Due(base))
  BY RerecordIs
<1>2. \A p \in PageIds : /\ pages'[p] \in PageSet /\ pages'[p].drawn \in Seq(Home(p)')
                         /\ \A u \in Uuids : pages'[p].copies[u] > 0 => Acted(u, p)'
  BY RerecordPage
<1>3. board' \in Board
  <2>1. TimeInv'  BY StepTime DEF Next
  <2>2. LessonInv'  BY <2>1, RerecordKeeps
  <2> QED BY <2>2 DEF LessonInv, TypeOK
<1>4. ASSUME NEW p \in PageIds, NEW i \in 1..Len(board'.drawn[p]), NEW u \in Uuids, board'.drawn[p][i] = u
      PROVE  init'[u] = board'.look[u]
  <2>1. board'.drawn[p] \in Seq(Uuids)  BY <1>3 DEF Board
  <2>2. i \in DOMAIN board'.drawn[p]  BY <2>1, LenProperties
  <2>3. pages'[p] = PageOf(board', p)  BY <1>1
  <2>4. PageOf(board', p).copies = [v \in Uuids |-> IF \E j \in DOMAIN board'.drawn[p] :
                                                       board'.drawn[p][j] = v THEN 1 ELSE 0]
    BY DEF PageOf, EmptyPage
  <2>5. pages'[p].copies[u] = 1  BY <1>4, <2>2, <2>3, <2>4
  <2> QED BY <1>1, <2>5
<1>5. ASSUME NEW p \in PageIds, NEW u \in Elems(board'.drawn[p]), u \in Uuids
      PROVE  init'[u] = board'.look[u]
  <2>1. PICK i \in 1..Len(board'.drawn[p]) : board'.drawn[p][i] = u  BY <1>5 DEF Elems
  <2> QED BY <1>4, <1>5, <2>1
<1>6. ASSUME NEW p \in PageIds, NEW e \in Elems(pages'[p].drawn)
      PROVE  e.look = init'[e.id]
  <2> DEFINE s == board'.drawn[p]
             d == pages'[p].drawn
  <2>1. s \in Seq(Uuids) /\ DOMAIN s = 1..Len(s)
    <3>1. s \in Seq(Uuids)  BY <1>3 DEF Board
    <3> QED BY <3>1, LenProperties
  <2>2. DOMAIN d = 1..Len(d)  BY <1>2, LenProperties
  <2>3. d = [i \in DOMAIN s |-> [id |-> s[i], copy |-> 1, look |-> board'.look[s[i]]]]
    BY <1>1 DEF PageOf, EmptyPage
  <2>4. PICK i \in 1..Len(d) : d[i] = e  BY DEF Elems
  <2> HIDE DEF s, d
  <2>5. i \in DOMAIN s /\ i \in 1..Len(s)  BY <2>1, <2>2, <2>3, <2>4
  <2>6. e.id = s[i] /\ e.look = board'.look[s[i]]  BY <2>3, <2>4, <2>5
  <2>7. s[i] \in Uuids  BY <2>1, <2>5, ElementOfSeq
  <2> QED BY <1>4, <2>5, <2>6, <2>7 DEF s
<1>7. ASSUME NEW u \in File' PROVE \E p \in PageIds : Acted(u, p)'
  <2>1. u \in Uuids /\ init'[u] # None  BY <1>7 DEF File
  <2>2. PICK p \in PageIds : pages'[p].copies[u] = 1  BY <1>1, <2>1
  <2>3. pages'[p].copies[u] > 0  BY <2>2
  <2> QED BY <1>2, <2>1, <2>3
<1> QED BY <1>5, <1>6, <1>7

(* What the actions before the time were about is drawn then, when nothing *)
(* had been erased or changed, and looks as it is saved.                   *)
LEMMA RerecordHas ==
  ASSUME LessonInv, TimeInv, FilmInv, OnReRecord, Plain,
         NEW d \in 0..Len(actions), Due(base) = 1..d,
         NEW i \in 1..d, actions[i].type # "Switch"
  PROVE  /\ actions[i].id \in Uuids /\ actions[i].id \in File /\ actions[i].id \in File'
         /\ init'[actions[i].id] = init[actions[i].id]
<1> DEFINE u == actions[i].id
           p == actions[i].page
<1>1. /\ actions \in Seq(Action) /\ init \in [Uuids -> Looks \cup {None}] /\ File \in SUBSET Uuids
      /\ cut = 0 /\ board' = PlayActions(ResetElements(board), 1..d)
  BY RerecordIs DEF LessonInv, TypeOK, LessonTypeOK, File
<1>2. d \in Nat /\ Len(actions) \in Nat /\ \A j \in 1..d : j \in 1..Len(actions) /\ actions[j] \in Action
  BY <1>1, Positions
<1>3. p \in PageIds  BY <1>2 DEF Action
<1>4. u \in File /\ u \in Uuids
  <2>1. i \in DOMAIN actions  BY <1>1, <1>2, LenProperties
  <2> QED BY <1>1, <2>1 DEF LessonInv, History, Saved
<1>5. PICK k \in 1..i : actions[k].type = "Show" /\ actions[k].id = u /\ actions[k].page = p
  BY <1>2 DEF FilmInv, ShownFirst
<1>6. k \in 1..d /\ \A j \in 1..d : actions[j].type # "Hide"
  <2>1. k \in 1..d  BY <1>2, <1>5
  <2> QED BY <1>2, <2>1 DEF FilmInv, ShownFirst
<1>7. \A j \in 1..Len(actions) : actions[j].type # "Change"
  <2>1. "change" \notin usage  BY DEF Plain
  <2> QED BY <2>1 DEF FilmInv, Unchanging
<1> HIDE DEF u, p
<1>8. u \in Elems(Replay[d].drawn[p])
  <2>1. actions[k].id \in Elems(Whole(File, init, actions)[d].drawn[actions[k].page])
    BY <1>1, <1>4, <1>5, <1>6, ShownStays
  <2> QED BY <1>5, <2>1 DEF Replay
<1>9. Replay[d].look[u] = init[u]
  <2>1. \A j \in 1..d : ~(actions[j].type = "Change" /\ actions[j].id = u)  BY <1>2, <1>7
  <2>2. Whole(File, init, actions)[d].look[u] = init[u]  BY <1>1, <1>4, <2>1, LookKept
  <2> QED BY <2>2 DEF Replay
<1>10. Like(board', Replay[d], p, {u})
  <2> DEFINE U == {u}
  <2>1. U \in SUBSET Uuids /\ \A j \in 1..Len(actions) :
           actions[j].type = "Change" /\ actions[j].id \in U => actions[j].page = p
    BY <1>4, <1>7
  <2> HIDE DEF U
  <2>2. Like(PlayActions(ResetElements(board), 1..d), Replay[d], p, U)
    BY <1>3, <2>1, PlayedUpTo
  <2> QED BY <1>1, <2>2 DEF U
<1>11. u \in Elems(board'.drawn[p]) /\ board'.look[u] = init[u]
  BY <1>8, <1>9, <1>10 DEF Like
<1>12. init'[u] = init[u]  BY <1>3, <1>4, <1>11, RerecordSaved
<1>13. u \in File'  BY <1>4, <1>12 DEF File
<1> QED BY <1>4, <1>12, <1>13 DEF u

(* The lesson recorded anew comes to what the lesson there was came to, at *)
(* the times before.                                                       *)
LEMMA RerecordFilmed ==
  ASSUME LessonInv, TimeInv, FilmInv, OnReRecord, Plain,
         NEW k \in 1..base, NEW n \in 0..Len(actions'), Reached(n, k)'
  PROVE  film[k] = OnBoard(Replay'[n])
<1> DEFINE N == Len(actions)
<1>1. /\ actions \in Seq(Action) /\ init \in [Uuids -> Looks \cup {None}] /\ File \in SUBSET Uuids
      /\ cut = 0 /\ base \in Nat
  BY RerecordIs DEF LessonInv, TypeOK, LessonTypeOK, File
<1>2. /\ actions' \in Seq(Action) /\ init' \in [Uuids -> Looks \cup {None}] /\ File' \in SUBSET Uuids
  <2>1. TimeInv'  BY StepTime DEF Next
  <2>2. LessonInv'  BY <2>1, RerecordKeeps
  <2> QED BY <2>2 DEF LessonInv, TypeOK, LessonTypeOK, File
<1>3. PICK m : KeptFrom(m)  BY RerecordActions
<1>4. /\ m \in 1..N /\ N \in Nat /\ Len(actions') = m /\ \A j \in 1..m : actions'[j] = actions[j]
      /\ \A i \in 1..N : actions[i].time <= base <=> i <= m
      /\ \A i \in 1..N : actions[i].time \in Nat
  <2>1. \A i \in 1..N : actions[i] \in Action  BY <1>1, ElementOfSeq
  <2>2. \A e \in Action : e.time \in Nat  BY DEF Action
  <2>3. \A i \in 1..N : actions[i].time \in Nat  BY <2>1, <2>2
  <2> QED BY <1>3, <2>3 DEF KeptFrom, FilmInv, Begun
<1>5. PICK d \in 0..N : /\ Due(base) = 1..d
                        /\ d < N => ~(actions[d + 1].time < base)
  BY <1>1, DueIs
<1>6. /\ \A i \in 1..n : actions'[i].time < k
      /\ n < m => actions'[n + 1].time >= k
  BY <1>4 DEF Reached
<1> HIDE DEF N
<1>7. n \in 0..m /\ n \in Nat /\ k \in Nat /\ k <= base /\ n <= m /\ n <= N /\ n \in 0..N
  BY <1>1, <1>4
<1>8. \A i \in 1..n : /\ i \in 1..m /\ i \in 1..N /\ actions'[i] = actions[i]
                      /\ actions[i].time < k
  <2>1. \A i \in 1..n : i \in 1..m /\ i \in 1..N  BY <1>4, <1>7
  <2> QED BY <1>4, <1>6, <2>1
<1>9. Reached(n, k)
  <2>1. n < N => actions[n + 1].time >= k
    <3> SUFFICES ASSUME n < N PROVE actions[n + 1].time >= k
      OBVIOUS
    <3>1. n + 1 \in 1..N  BY <1>4, <1>7
    <3>2. CASE n < m
      <4>1. n + 1 \in 1..m  BY <1>4, <1>7, <3>2
      <4> QED BY <1>4, <1>6, <3>2, <4>1
    <3>3. CASE ~(n < m)
      <4>1. ~(n + 1 <= m)  BY <1>4, <1>7, <3>3
      <4>2. ~(actions[n + 1].time <= base)  BY <1>4, <3>1, <4>1
      <4> QED BY <1>1, <1>4, <1>7, <3>1, <4>2
    <3> QED BY <3>2, <3>3
  <2> QED BY <1>8, <2>1 DEF Reached, N
<1>10. n <= d
  <2> SUFFICES ASSUME ~(n <= d) PROVE FALSE
    OBVIOUS
  <2>1. d < N /\ d + 1 \in 1..n /\ d + 1 \in 1..N  BY <1>4, <1>5, <1>7
  <2>2. actions[d + 1].time < k  BY <1>8, <2>1
  <2> QED BY <1>1, <1>4, <1>5, <1>7, <2>1, <2>2
<1>11. film[k] = OnBoard(Replay[n])
  <2>1. Comparable(k)  BY <1>1 DEF Comparable, Plain, Faithful
  <2>2. k \in 1..Len(film) /\ n \in 0..Len(actions)
    <3>1. n \in 0..Len(actions)  BY <1>7 DEF N
    <3> QED BY <3>1, RerecordTimed
  <2> QED BY <1>9, <2>1, <2>2 DEF FilmInv, Filmed
<1> DEFINE S == {u \in Uuids : \E i \in 1..n : actions[i].type # "Switch" /\ actions[i].id = u}
<1>12. ASSUME NEW i \in 1..n, actions[i].type # "Switch"
       PROVE  /\ actions[i].id \in Uuids /\ actions[i].id \in File /\ actions[i].id \in File'
              /\ init'[actions[i].id] = init[actions[i].id]
  <2>1. i \in 1..d  BY <1>5, <1>7, <1>10
  <2>2. d \in 0..Len(actions)  BY <1>5 DEF N
  <2> QED BY <1>5, <1>12, <2>1, <2>2, RerecordHas
<1>13. S \in SUBSET Uuids /\ \A u \in S : init[u] = init'[u]
  BY <1>12
<1>14. ASSUME NEW i \in 1..n
       PROVE  actions[i] = actions'[i] /\ (actions[i].id \in File <=> actions[i].id \in File')
  <2>1. CASE actions[i].type # "Switch"  BY <1>8, <1>12, <2>1
  <2>2. CASE actions[i].type = "Switch"
    <3>1. i \in DOMAIN actions  BY <1>1, <1>8, LenProperties DEF N
    <3>2. actions[i].id = None  BY <2>2, <3>1 DEF LessonInv, Sensible
    <3>3. None \notin Uuids  BY LessonAssumption
    <3> QED BY <1>1, <1>2, <1>8, <3>2, <3>3
  <2> QED BY <2>1, <2>2
<1>15. Alike(Replay[n], Replay'[n], S)
  <2>1. n \in 0..Len(actions) /\ n <= Len(actions')  BY <1>4, <1>7 DEF N
  <2>2. Replay = Whole(File, init, actions) /\ Replay' = Whole(File', init', actions')  BY DEF Replay
  <2> DEFINE F == File
             F2 == File'
             I2 == init'
             as2 == actions'
  <2>3. /\ F \in SUBSET Uuids /\ F2 \in SUBSET Uuids /\ I2 \in [Uuids -> Looks \cup {None}]
        /\ as2 \in Seq(Action) /\ n <= Len(as2) /\ (\A u \in S : init[u] = I2[u])
        /\ \A i \in 1..n : actions[i] = as2[i] /\ (actions[i].id \in F <=> actions[i].id \in F2)
    BY <1>1, <1>2, <1>13, <1>14, <2>1
  <2>4. S \in SUBSET Uuids  BY <1>13
  <2> HIDE DEF S, F, F2, I2, as2
  <2>5. Alike(Whole(F, init, actions)[n], Whole(F2, I2, as2)[n], S)
    BY <1>1, <2>1, <2>3, <2>4, SameLesson
  <2> QED BY <2>2, <2>5 DEF F, F2, I2, as2
<1>16. \A q \in PageIds : Replay[n].drawn[q] \in Seq(S)
  <2> SUFFICES ASSUME NEW q \in PageIds PROVE Replay[n].drawn[q] \in Seq(S)
    OBVIOUS
  <2> DEFINE A == Shows(File, actions, q, n)
             s == Replay[n].drawn[q]
  <2>1. s \in Seq(A)
    <3>1. n \in 0..Len(actions)  BY <1>7 DEF N
    <3> QED BY <1>1, <3>1, ReplayDrawn
  <2>2. A \subseteq S  BY <1>1 DEF Shows
  <2> HIDE DEF A, s, S
  <2> QED BY <2>1, <2>2 DEF s
<1>17. Replay[n].page = None \/ Replay[n].page \in PageIds
  <2>1. n \in 0..Len(actions)  BY <1>7 DEF N
  <2> QED BY <2>1, ReplayOfFile
<1>18. OnBoard(Replay[n]) = OnBoard(Replay'[n])
  <2> DEFINE b == Replay[n]
             c == Replay'[n]
  <2>1. /\ Alike(b, c, S) /\ (b.page = None \/ b.page \in PageIds)
        /\ (b.page # None => b.drawn[b.page] \in Seq(S))
    BY <1>15, <1>16, <1>17
  <2> HIDE DEF b, c, S
  <2>2. OnBoard(b) = OnBoard(c)  BY <2>1, AlikePicture
  <2> QED BY <2>2 DEF b, c
<1> QED BY <1>11, <1>18

(* Recording anew keeps what is said of the film. *)
LEMMA RerecordFilm ==
  ASSUME LessonInv, TimeInv, FilmInv, OnReRecord
  PROVE  FilmInv'
<1>1. Begun' /\ Timed' /\ Len(film') = base + 1
      /\ \A k \in 1..base : k \in 1..Len(film) /\ film'[k] = film[k]
  BY RerecordTimed
<1>2. PICK m : KeptFrom(m)  BY RerecordActions
<1>3. /\ m \in 1..Len(actions) /\ Len(actions') = m /\ \A k \in 1..m : actions'[k] = actions[k]
      /\ Len(actions) \in Nat
  BY <1>2 DEF KeptFrom, FilmInv, Begun
<1>4. \A k \in 1..m : k \in 1..Len(actions)  BY <1>3
<1>5. usage' = usage /\ cut' = base + 1 /\ base \in Nat /\ cut' # 0  BY RerecordIs
<1>6. Filed'
  <2>1. \A u \in File' : \E p \in PageIds : Acted(u, p)'  BY RerecordSaved
  <2>2. \A u, p : Acted(u, p)' => ~IsNew(u)'  BY DEF Acted, IsNew
  <2> QED BY <2>1, <2>2 DEF Filed
<1>7. Unchanging'
  <2>1. \A p \in PageIds : Were(p)' = Elems(pages'[p].drawn)
    <3>1. Elems(<<>>) = {}  BY DEF Elems
    <3> QED BY <3>1, RerecordPage DEF Were
  <2>2. \A p \in PageIds : \A e \in Elems(pages'[p].drawn) : e.look = init'[e.id]  BY RerecordSaved
  <2>3. "change" \notin usage => \A i \in 1..Len(actions) : actions[i].type # "Change"
    BY DEF FilmInv, Unchanging
  <2> QED BY <1>3, <1>4, <1>5, <2>1, <2>2, <2>3 DEF Unchanging
<1>8. Looked'  BY <1>5 DEF Looked
<1>9. ShownFirst'
  <2> SUFFICES ASSUME Plain, NEW i \in 1..m
               PROVE  /\ actions'[i].type # "Hide"
                      /\ actions'[i].type # "Switch" =>
                           \E j \in 1..i : /\ actions'[j].type = "Show" /\ actions'[j].id = actions'[i].id
                                           /\ actions'[j].page = actions'[i].page
    BY <1>3, <1>5 DEF ShownFirst, Plain
  <2>1. \A j \in 1..i : j \in 1..m  BY <1>3
  <2>2. /\ actions[i].type # "Hide"
        /\ actions[i].type # "Switch" =>
             \E j \in 1..i : /\ actions[j].type = "Show" /\ actions[j].id = actions[i].id
                             /\ actions[j].page = actions[i].page
    BY <1>4 DEF FilmInv, ShownFirst
  <2> QED BY <1>3, <2>1, <2>2
<1>10. Filmed'
  <2> SUFFICES ASSUME NEW k \in 1..Len(film'), NEW n \in 0..Len(actions'),
                      Comparable(k)', Reached(n, k)'
               PROVE  film'[k] = OnBoard(Replay'[n])
    BY DEF Filmed
  <2>1. Plain /\ k < base + 1  BY <1>5 DEF Comparable, Plain
  <2>2. k \in 1..base  BY <1>1, <1>5, <2>1
  <2>3. film[k] = OnBoard(Replay'[n])  BY <2>1, <2>2, RerecordFilmed
  <2> QED BY <1>1, <2>2, <2>3
<1> QED BY <1>1, <1>6, <1>7, <1>8, <1>9, <1>10 DEF FilmInv

(* Every step keeps what is said of the film. *)
LEMMA StepFilm == LessonInv /\ TimeInv /\ FilmInv /\ [Next]_vars => FilmInv'
<1> SUFFICES ASSUME LessonInv, TimeInv, FilmInv, [Next]_vars PROVE FilmInv'
  OBVIOUS
<1>0. LessonInv'  BY StepLesson
<1>1. CASE mode = "record" /\ Record /\ UNCHANGED <<mode, timeVars, boardVars, cut>>
  <2>1. CASE OnRecordTime
    <3>1. usage' = usage /\ cut' = cut  BY <1>1 DEF Record
    <3> QED BY <2>1, <3>1, TimeToldFilm
  <2>2. CASE ~OnRecordTime
    <3>1. PICK a \in Action : Recorded(a)  BY <1>1, <2>2, TeacherRecorded
    <3>2. actions' = Append(actions, a)  BY <3>1 DEF Recorded
    <3>3. Pictured(a)  BY <1>1, <2>2, <3>2, TeacherPictured
    <3>4. cut' = cut  BY <1>1
    <3> QED BY <1>0, <3>1, <3>3, <3>4, RecordedFilm
  <2> QED BY <2>1, <2>2
<1>2. CASE \/ Load \/ Start \/ Pause \/ Tick \/ AnimatedTriggered \/ TimeIsUp
           \/ \E time \in 0..MaxTime + 1 : OnGotoPosition(time) \/ ConvertFrame(time)
  <2>1. lessonVars' = lessonVars /\ cut' = cut
    BY <1>2 DEF Load, Start, Pause, Tick, AnimatedTriggered, TimeIsUp, OnGotoPosition,
                ConvertFrame, UnchangedLesson
  <2> QED BY <2>1, SameFilm
<1>3. CASE OnReRecord  BY <1>3, RerecordFilm
<1>4. CASE UNCHANGED vars
  <2>1. lessonVars' = lessonVars /\ cut' = cut  BY <1>4 DEF vars
  <2> QED BY <2>1, SameFilm
<1> QED BY <1>1, <1>2, <1>3, <1>4 DEF Next
-----------------------------------------------------------------------------
(* What is on the player's board.                                          *)

ActedOn(p) == {u \in Uuids : Acted(u, p)}

(* On the board, on which the actions done were played, the page p is as   *)
(* after the first m actions, and those of them that are the page's were   *)
(* played.                                                                 *)
PlayedTo(b, done, p, m) ==
  /\ \A i \in 1..Len(actions) : actions[i].type # "Switch" /\ actions[i].page = p =>
                                  (i \in done <=> i <= m)
  /\ Like(b, Replay[m], p, ActedOn(p))
SomePlayed(b, done, n) == \A p \in PageIds : \E m \in 0..n : PlayedTo(b, done, p, m)

(* The board was brought to a time, when the first n actions were due: no  *)
(* page is ahead, and the one shown is as after all of them.               *)
SeenBy(b, done, time, n) ==
  /\ n \in 0..Len(actions) /\ Due(time) = 1..n /\ Reached(n, time)
  /\ done \subseteq 1..n /\ SomePlayed(b, done, n)
  /\ time > 0 => b.page = Replay[n].page /\ b.page \in PageIds /\ PlayedTo(b, done, b.page, n)

Seen ==
  mode = "play" => animated <= GetAnimatedTime /\ \E n : SeenBy(board, played, animated, n)

(* The page shown after the first actions is that of the last switch among *)
(* them.                                                                   *)
LEMMA ReplayPage ==
  ASSUME LessonInv, NEW n \in 0..Len(actions), NEW k \in 1..n, actions[k].type = "Switch",
         \A i \in 1..n : actions[i].type = "Switch" => i <= k
  PROVE  Replay[n].page = actions[k].page
<1> DEFINE S == 1..Len(actions)
           b == Nothing(init)
           h == Whole(File, init, actions)
           page == actions[k].page
<1>1. actions \in Seq(Action) /\ File \in SUBSET Uuids /\ init \in [Uuids -> Looks \cup {None}]
  BY DEF LessonInv, TypeOK, LessonTypeOK, File
<1>2. b \in Board /\ h \in Runs(File, actions, b, S)  BY <1>1, WholeIs
<1>3. n \in Nat /\ \A i \in 1..n : i \in S  BY <1>1, Positions
<1>4. k \in 0..n /\ k # 0 /\ k \in S  BY <1>3
<1>5. LastShown(actions, b, S, n, k, page)  BY <1>4 DEF LastShown
<1> HIDE DEF S, b, h, page
<1>6. h[n].page = page
  BY <1>1, <1>2, <1>4, <1>5, PlaysSwitch
<1> QED BY <1>6 DEF h, page, Replay

(* A page is played on as far as its actions are. *)
LEMMA PlayedOn ==
  ASSUME LessonInv, NEW b \in Board, NEW done, NEW S, NEW p \in PageIds,
         NEW m \in 0..Len(actions), NEW n \in m..Len(actions), PlayedTo(b, done, p, m),
         \A i \in 1..Len(actions) : actions[i].type # "Switch" /\ actions[i].page = p =>
                                      (i \in S <=> m < i /\ i <= n)
  PROVE  PlayedTo(PlayActions(b, S), done \cup S, p, n)
<1> DEFINE U == ActedOn(p)
           N == Len(actions)
<1>1. actions \in Seq(Action) /\ File \in SUBSET Uuids /\ init \in [Uuids -> Looks \cup {None}]
  BY DEF LessonInv, TypeOK, LessonTypeOK, File
<1>2. N \in Nat /\ DOMAIN actions = 1..N /\ \A i \in 1..N : actions[i] \in Action
  BY <1>1, LenProperties, ElementOfSeq
<1>3. PICK h \in Runs(File, actions, b, S) : PlayActions(b, S) = h[Len(actions)]
  BY <1>1, RunIs
<1>4. U \in SUBSET Uuids /\ Like(b, Whole(File, init, actions)[m], p, U)
  BY DEF PlayedTo, ActedOn, Replay
<1>5. \A i \in 1..N : actions[i].type = "Change" /\ actions[i].id \in U => actions[i].page = p
  <2> SUFFICES ASSUME NEW i \in 1..N, actions[i].type = "Change", actions[i].id \in U
               PROVE  actions[i].page = p
    OBVIOUS
  <2>1. actions[i].page \in PageIds  BY <1>2 DEF Action
  <2>2. actions[i].id \in Uuids /\ Acted(actions[i].id, p)  BY DEF ActedOn
  <2>3. i \in DOMAIN actions /\ actions[i].type # "Switch"  BY <1>2
  <2>4. Acted(actions[i].id, actions[i].page)  BY <2>3 DEF Acted
  <2> QED BY <2>1, <2>2, <2>4 DEF LessonInv, Homes
<1>6. Fits(actions, S, p, U, m, n)  BY <1>5, Zenon DEF Fits
<1>7. Like(h[Len(actions)], Whole(File, init, actions)[n], p, U)
  <2> HIDE DEF U, N
  <2> QED BY <1>1, <1>3, <1>4, <1>6, PlaysPage, Zenon
<1>8. \A i \in 1..N : actions[i].type # "Switch" /\ actions[i].page = p =>
                        (i \in done \cup S <=> i <= n)
  <2>1. \A i \in 1..N : actions[i].type # "Switch" /\ actions[i].page = p => (i \in done <=> i <= m)
    BY DEF PlayedTo
  <2>2. m \in Nat /\ n \in Nat /\ m <= n
    <3> HIDE DEF N
    <3>1. m \in 0..N /\ n \in m..N  BY DEF N
    <3> QED BY <1>2, <3>1
  <2> HIDE DEF N
  <2>3. \A i \in 1..N : i \in Nat /\ (i <= m => i <= n)  BY <1>2, <2>2
  <2>4. \A i \in 1..N : i <= m \/ m < i  BY <1>2, <2>2
  <2> QED BY <2>1, <2>3, <2>4 DEF N
<1> QED BY <1>3, <1>7, <1>8 DEF PlayedTo, Replay

(* Bringing a board to a later time: the latest page is brought there, and *)
(* the others stay behind.                                                 *)
LEMMA AnimateSeen ==
  ASSUME LessonInv, FilmInv, NEW b \in Board, NEW done, NEW time \in Nat,
         NEW n \in 0..Len(actions), Due(time) = 1..n, Reached(n, time),
         NEW d \in 0..n, done \subseteq 1..d, SomePlayed(b, done, d),
         done # {} => b.page = Replay[d].page,
         NEW S, S = GetLatestSwitchBoardActions(time, done)
  PROVE  SeenBy(PlayActions(b, S), done \cup S, time, n)
<1> DEFINE N == Len(actions)
           k == Latest(time)
           q == actions[k].page
           h == PlayActions(b, S)
<1>1. /\ actions \in Seq(Action) /\ File \in SUBSET Uuids /\ N \in Nat \ {0}
      /\ actions[1].type = "Switch" /\ actions[1].time = 0
  BY DEF LessonInv, TypeOK, LessonTypeOK, File, FilmInv, Begun
<1>2. /\ n \in Nat /\ n <= N /\ d \in Nat /\ d <= n
      /\ \A i \in 1..n : i \in 1..N /\ actions[i] \in Action
  <2>1. n \in Nat /\ n <= N /\ \A i \in 1..n : i \in 1..N /\ actions[i] \in Action
    BY <1>1, Positions
  <2> QED BY <2>1
<1>3. S \subseteq 1..n /\ S \cap done = {}
  BY <1>1, ToPlay
<1>4. done \cup S \subseteq 1..n
  <2>1. 1..d \subseteq 1..n  BY <1>2
  <2> QED BY <1>3, <2>1
<1>5. CASE time = 0
  <2>1. n = 0
    <3> SUFFICES ASSUME n # 0 PROVE FALSE
      OBVIOUS
    <3>1. 1 \in 1..n  BY <1>2
    <3>2. actions[1].time < 0  BY <1>5, <3>1 DEF Reached
    <3> QED BY <1>1, <3>2
  <2>2. S = {} /\ d = 0
    <3>1. \A i : i \notin 1..n  BY <2>1
    <3> QED BY <1>2, <1>3, <2>1, <3>1
  <2>3. SomePlayed(h, done \cup S, n)
    <3>0. 0 \in 0..n  BY <2>1
    <3> SUFFICES ASSUME NEW p \in PageIds PROVE PlayedTo(h, done \cup S, p, 0)
      BY <3>0, Zenon DEF SomePlayed
    <3>1. PICK m \in 0..d : PlayedTo(b, done, p, m)  BY DEF SomePlayed
    <3>2. m = 0  BY <2>2, <3>1
    <3> DEFINE z == 0
    <3>3. z \in 0..Len(actions) /\ z \in z..Len(actions) /\ PlayedTo(b, done, p, z)
      BY <1>1, <3>1, <3>2
    <3>4. \A i \in 1..N : ~(z < i /\ i <= z)  BY <1>1
    <3>5. \A i : i \notin S  BY <2>2
    <3> HIDE DEF z
    <3>6. PlayedTo(PlayActions(b, S), done \cup S, p, z)  BY <3>3, <3>4, <3>5, PlayedOn
    <3> QED BY <3>6 DEF z
  <2>4. ~(time > 0)  BY <1>5
  <2> QED BY <1>4, <2>3, <2>4 DEF SeenBy
<1>6. CASE time > 0
  <2>1. 1 \in 1..n
    <3> SUFFICES ASSUME 1 \notin 1..n PROVE FALSE
      OBVIOUS
    <3>1. n = 0 /\ 0 < N /\ n + 1 = 1  BY <1>1, <1>2
    <3>2. actions[1].time >= time  BY <3>1 DEF Reached
    <3> QED BY <1>1, <1>6, <3>2
  <2>2. 1 \in Switches(time)  BY <1>1, <2>1 DEF Switches
  <2>3. k \in Switches(time) /\ \A j \in Switches(time) : j <= k  BY <1>1, <2>2, LatestIs
  <2>4. k \in 1..n /\ actions[k].type = "Switch" /\ \A j \in 1..n : actions[j].type = "Switch" => j <= k
    BY <2>3 DEF Switches
  <2>5. q \in PageIds  BY <1>2, <2>4 DEF Action
  <2>6. /\ \A i : i \in S <=> i \notin done /\ (i = k \/ (i \in 1..n /\ actions[i].type # "Switch" /\ actions[i].page = q))
    BY <2>2 DEF GetLatestSwitchBoardActions, OfPage
  <2>7. Replay[n].page = q  BY <2>4, ReplayPage
  <2> HIDE DEF k, q, N
  <2>8. ASSUME NEW p \in PageIds, NEW m \in 0..d, PlayedTo(b, done, p, m), p # q
        PROVE  PlayedTo(h, done \cup S, p, m)
    <3>1. \A i \in 1..Len(actions) : actions[i].type # "Switch" /\ actions[i].page = p =>
                                       (i \in S <=> m < i /\ i <= m)
      <4>1. \A i \in 1..N : ~(m < i /\ i <= m)  BY <1>1, <1>2
      <4>2. \A i \in 1..N : actions[i].type # "Switch" /\ actions[i].page = p => i \notin S
        BY <2>4, <2>6, <2>8
      <4> QED BY <4>1, <4>2 DEF N
    <3>2. m \in 0..Len(actions) /\ m \in m..Len(actions)
      <4>1. m \in 0..N /\ m \in m..N  BY <1>1, <1>2
      <4> QED BY <4>1 DEF N
    <3> QED BY <2>8, <3>1, <3>2, PlayedOn
  <2>9. PlayedTo(h, done \cup S, q, n)
    <3>1. PICK m \in 0..d : PlayedTo(b, done, q, m)  BY <2>5 DEF SomePlayed
    <3>2. \A i \in 1..N : actions[i].type # "Switch" /\ actions[i].page = q => (i \in done <=> i <= m)
      BY <3>1 DEF PlayedTo, N
    <3>3. \A i \in 1..N : actions[i].type # "Switch" /\ actions[i].page = q =>
                            (i \in S <=> m < i /\ i <= n)
      <4>1. \A i \in 1..N : i \in 1..n <=> i <= n  BY <1>1, <1>2
      <4>2. \A i \in 1..N : ~(i <= m) <=> m < i  BY <1>1, <1>2, <3>1
      <4> QED BY <2>4, <2>6, <3>2, <4>1, <4>2
    <3>4. m \in 0..Len(actions) /\ n \in m..Len(actions)
      <4>1. m \in 0..N /\ n \in m..N  BY <1>1, <1>2, <3>1
      <4> QED BY <4>1 DEF N
    <3> QED BY <2>5, <3>1, <3>3, <3>4, PlayedOn DEF N
  <2>10. SomePlayed(h, done \cup S, n)
    <3> SUFFICES ASSUME NEW p \in PageIds PROVE \E m \in 0..n : PlayedTo(h, done \cup S, p, m)
      BY DEF SomePlayed
    <3>1. PICK m \in 0..d : PlayedTo(b, done, p, m)  BY DEF SomePlayed
    <3>2. m \in 0..n /\ n \in 0..n  BY <1>2, <3>1
    <3> QED BY <2>8, <2>9, <3>1, <3>2
  <2>11. h.page = q
    <3>1. PICK r \in Runs(File, actions, b, S) : PlayActions(b, S) = r[Len(actions)]
      BY <1>1, RunIs
    <3>2. N \in 0..Len(actions) /\ N = Len(actions)  BY <1>1 DEF N
    <3>3. CASE k \in S
      <4>1. k \in 0..N /\ k # 0 /\ \A i \in 1..N : i \in S /\ actions[i].type = "Switch" => i <= k
        <5>1. k \in 0..N /\ k # 0  BY <1>1, <1>2, <2>4
        <5>2. \A i \in S : i \in 1..n  BY <1>3
        <5> QED BY <2>4, <5>1, <5>2
      <4>2. q = actions[k].page  BY DEF q
      <4>3. LastShown(actions, b, S, N, k, q)  BY <2>4, <3>3, <4>1, <4>2 DEF LastShown
      <4>4. k \in 0..N  BY <4>1
      <4>5. r[N].page = q  BY <1>1, <3>1, <3>2, <4>3, <4>4, PlaysSwitch
      <4> QED BY <3>1, <3>2, <4>5
    <3>4. CASE k \notin S
      <4>1. k \in done  BY <2>6, <3>4
      <4>2. b.page = q
        <5>1. k \in 1..d /\ done # {}  BY <4>1
        <5>2. \A j \in 1..d : actions[j].type = "Switch" => j <= k
          <6>1. \A j \in 1..d : j \in 1..n  BY <1>2
          <6> QED BY <2>4, <6>1
        <5>3. d \in 0..Len(actions)
          <6>1. d \in 0..N  BY <1>1, <1>2
          <6> QED BY <6>1 DEF N
        <5>4. Replay[d].page = actions[k].page  BY <2>4, <5>1, <5>2, <5>3, ReplayPage
        <5> QED BY <5>1, <5>4 DEF q
      <4> DEFINE z == 0
      <4>3. z \in 0..N /\ z = 0  BY <1>1
      <4>4. \A i \in 1..N : i \in S /\ actions[i].type = "Switch" => i <= z
        BY <2>4, <2>6, <3>4
      <4> HIDE DEF z
      <4>5. LastShown(actions, b, S, N, z, q)  BY <4>2, <4>3, <4>4 DEF LastShown
      <4>6. r[N].page = q  BY <1>1, <3>1, <3>2, <4>3, <4>5, PlaysSwitch
      <4> QED BY <3>1, <3>2, <4>6
    <3> QED BY <3>3, <3>4
  <2> QED BY <1>4, <2>5, <2>7, <2>9, <2>10, <2>11 DEF SeenBy
<1>7. time = 0 \/ time > 0  OBVIOUS
<1> QED BY <1>5, <1>6, <1>7

(* The actions due at a time are the first n, and there are such n. *)
LEMMA DueReached ==
  ASSUME LessonInv, NEW time \in Nat
  PROVE  \E n \in 0..Len(actions) : Due(time) = 1..n /\ Reached(n, time)
<1> DEFINE N == Len(actions)
<1>1. actions \in Seq(Action) /\ N \in Nat
  BY LenProperties DEF LessonInv, TypeOK, LessonTypeOK
<1>2. \A i \in 1..N : actions[i].time \in Nat
  <2>1. \A i \in 1..N : actions[i] \in Action  BY <1>1, ElementOfSeq
  <2>2. \A e \in Action : e.time \in Nat  BY DEF Action
  <2> QED BY <2>1, <2>2
<1>3. PICK n \in 0..N : /\ Due(time) = 1..n
                        /\ \A i \in 1..n : actions[i].time < time
                        /\ n < N => ~(actions[n + 1].time < time)
  BY <1>1, DueIs
<1> HIDE DEF N
<1>4. n < N => actions[n + 1].time >= time
  <2> SUFFICES ASSUME n < N PROVE actions[n + 1].time >= time
    OBVIOUS
  <2>1. n + 1 \in 1..N  BY <1>1
  <2> QED BY <1>2, <1>3, <2>1
<1>5. Reached(n, time)  BY <1>3, <1>4 DEF Reached, N
<1> QED BY <1>3, <1>5 DEF N

(* A board without its elements, on which nothing was played. *)
LEMMA NothingPlayed ==
  ASSUME LessonInv, NEW b \in Board, \A p \in PageIds : b.drawn[p] = <<>>, b.look = init
  PROVE  SomePlayed(b, {}, 0)
<1> SUFFICES ASSUME NEW p \in PageIds PROVE PlayedTo(b, {}, p, 0)
  <2>1. 0 \in 0..0  OBVIOUS
  <2> QED BY <2>1, Zenon DEF SomePlayed
<1>1. actions \in Seq(Action) /\ File \in SUBSET Uuids /\ init \in [Uuids -> Looks \cup {None}]
  BY DEF LessonInv, TypeOK, LessonTypeOK, File
<1>2. Replay[0] = Nothing(init)
  <2>1. Whole(File, init, actions)[0] = Nothing(init)  BY <1>1, WholeIs
  <2> QED BY <2>1 DEF Replay
<1>3. Nothing(init).drawn[p] = <<>> /\ Nothing(init).look = init  BY DEF Nothing
<1>4. Like(b, Replay[0], p, ActedOn(p))  BY <1>2, <1>3 DEF Like
<1>5. \A i \in 1..Len(actions) : i \in {} <=> i <= 0
  <2>1. Len(actions) \in Nat  BY <1>1, LenProperties
  <2> DEFINE N == Len(actions)
  <2> HIDE DEF N
  <2>2. \A i \in 1..N : ~(i <= 0)  BY <2>1
  <2> QED BY <2>2 DEF N
<1> QED BY <1>4, <1>5 DEF PlayedTo

(* Then it was brought to no time. *)
LEMMA NothingSeen ==
  ASSUME LessonInv, FilmInv, NEW b \in Board, \A p \in PageIds : b.drawn[p] = <<>>, b.look = init
  PROVE  SeenBy(b, {}, 0, 0)
<1>1. PICK n \in 0..Len(actions) : Due(0) = 1..n /\ Reached(n, 0)  BY DueReached
<1>2. n = 0
  <2> SUFFICES ASSUME n # 0 PROVE FALSE
    OBVIOUS
  <2>1. Len(actions) \in Nat /\ actions[1].time = 0  BY DEF FilmInv, Begun
  <2>2. 1 \in 1..n
    <3>1. n \in Nat
      <4> DEFINE N == Len(actions)
      <4>1. n \in 0..N /\ N \in Nat  BY <2>1
      <4> HIDE DEF N
      <4> QED BY <4>1
    <3> QED BY <3>1
  <2>3. actions[1].time < 0  BY <1>1, <2>2 DEF Reached
  <2> QED BY <2>1, <2>3
<1>3. SomePlayed(b, {}, 0)  BY NothingPlayed
<1>4. ~(0 > 0)  OBVIOUS
<1> QED BY <1>1, <1>2, <1>3, <1>4 DEF SeenBy

(* Playing from the beginning to a time. *)
LEMMA SoughtSeen ==
  ASSUME LessonInv, FilmInv, NEW time \in Nat, Animate(ResetElements(board), {}, time)
  PROVE  animated' = time /\ \E n : SeenBy(board', played', time, n)
<1> DEFINE b == ResetElements(board)
           S == GetLatestSwitchBoardActions(time, {})
           none == {}
           d == 0
<1>1. b \in Board /\ (\A p \in PageIds : b.drawn[p] = <<>>) /\ b.look = init  BY ResetIs
<1>2. PICK n \in 0..Len(actions) : Due(time) = 1..n /\ Reached(n, time)  BY DueReached
<1>3. SomePlayed(b, none, d)  BY <1>1, NothingPlayed
<1>4. d \in 0..n /\ none \subseteq 1..d
  <2> DEFINE N == Len(actions)
  <2>1. n \in 0..N /\ N \in Nat  BY DEF FilmInv, Begun
  <2> HIDE DEF N
  <2> QED BY <2>1
<1>5. board' = PlayActions(b, S) /\ played' = none \cup S /\ animated' = time  BY DEF Animate
<1>6. S = GetLatestSwitchBoardActions(time, none)  OBVIOUS
<1>7. none # {} => b.page = Replay[d].page  OBVIOUS
<1> HIDE DEF b, S, none, d
<1>8. SeenBy(PlayActions(b, S), none \cup S, time, n)
  BY <1>1, <1>2, <1>3, <1>4, <1>6, <1>7, AnimateSeen
<1> QED BY <1>5, <1>8

(* Playing on to the time there is. *)
LEMMA TriggeredSeen ==
  ASSUME LessonInv, FilmInv, NEW m, SeenBy(board, played, animated, m),
         NEW time \in Nat, animated <= time, Animate(board, played, time)
  PROVE  animated' = time /\ \E n : SeenBy(board', played', time, n)
<1> DEFINE S == GetLatestSwitchBoardActions(time, played)
           N == Len(actions)
<1>1. PICK n \in 0..Len(actions) : Due(time) = 1..n /\ Reached(n, time)  BY DueReached
<1>2. /\ m \in 0..N /\ Reached(m, animated) /\ played \subseteq 1..m /\ SomePlayed(board, played, m)
      /\ animated > 0 => board.page = Replay[m].page
  BY DEF SeenBy
<1>3. /\ N \in Nat \ {0} /\ animated \in Nat /\ board \in Board /\ actions[1].time = 0
      /\ \A i \in 1..N : actions[i].time \in Nat
  <2>1. actions \in Seq(Action)  BY DEF LessonInv, TypeOK, LessonTypeOK
  <2>2. \A i \in 1..N : actions[i] \in Action  BY <2>1, ElementOfSeq
  <2>3. \A e \in Action : e.time \in Nat  BY DEF Action
  <2>4. \A i \in 1..N : actions[i].time \in Nat  BY <2>2, <2>3
  <2> QED BY <2>4 DEF LessonInv, TypeOK, FilmInv, Begun
<1>4. /\ \A i \in 1..m : actions[i].time < animated
      /\ n < N => actions[n + 1].time >= time
  BY <1>1, <1>2 DEF Reached
<1>5. n \in 0..N  BY <1>1
<1>6. m \in 0..n
  <2> HIDE DEF N
  <2> SUFFICES ASSUME m \notin 0..n PROVE FALSE
    OBVIOUS
  <2>1. n < N /\ n + 1 \in 1..m /\ n + 1 \in 1..N  BY <1>2, <1>3, <1>5
  <2>2. actions[n + 1].time < animated /\ actions[n + 1].time >= time  BY <1>4, <2>1
  <2> QED BY <1>3, <2>1, <2>2
<1>7. played # {} => board.page = Replay[m].page
  <2> SUFFICES ASSUME played # {} PROVE animated > 0
    BY <1>2
  <2>1. \E i \in played : i \in 1..m  BY <1>2
  <2>2. 1 \in 1..m
    <3> HIDE DEF N
    <3> QED BY <1>2, <1>3, <2>1
  <2>3. actions[1].time < animated  BY <1>4, <2>2
  <2> QED BY <1>3, <2>3
<1>8. board' = PlayActions(board, S) /\ played' = played \cup S /\ animated' = time  BY DEF Animate
<1>9. SeenBy(PlayActions(board, S), played \cup S, time, n)
  <2>1. S = GetLatestSwitchBoardActions(time, played)  OBVIOUS
  <2> HIDE DEF S
  <2> QED BY <1>1, <1>2, <1>3, <1>6, <1>7, <2>1, AnimateSeen
<1> QED BY <1>8, <1>9

(* Bringing every page up to date. *)
LEMMA GoneSeen ==
  ASSUME LessonInv, FilmInv, NEW time \in Nat, NEW S, S = Due(time)
  PROVE  \E n : SeenBy(PlayActions(ResetElements(board), S), S, time, n)
<1> DEFINE b == ResetElements(board)
           h == PlayActions(b, S)
           N == Len(actions)
           k == Latest(time)
<1>1. /\ actions \in Seq(Action) /\ File \in SUBSET Uuids /\ N \in Nat \ {0}
      /\ actions[1].type = "Switch" /\ actions[1].time = 0
  BY DEF LessonInv, TypeOK, LessonTypeOK, File, FilmInv, Begun
<1>2. PICK n \in 0..Len(actions) : S = 1..n /\ Reached(n, time)  BY DueReached
<1>3. b \in Board /\ (\A p \in PageIds : b.drawn[p] = <<>>) /\ b.look = init  BY ResetIs
<1>4. ASSUME NEW p \in PageIds PROVE PlayedTo(h, S, p, n)
  <2> DEFINE none == {}
             d == 0
  <2>1. SomePlayed(b, none, d)  BY <1>3, NothingPlayed
  <2>2. PlayedTo(b, none, p, d)
    <3>1. \A m \in 0..0 : m = 0  OBVIOUS
    <3> QED BY <2>1, <3>1, Zenon DEF SomePlayed
  <2>3. \A i \in 1..Len(actions) : i \in S <=> d < i /\ i <= n
    <3>1. n \in 0..N  BY <1>2
    <3> HIDE DEF N
    <3>2. \A i \in 1..N : i \in S <=> 0 < i /\ i <= n  BY <1>1, <1>2, <3>1
    <3> QED BY <3>2 DEF N
  <2>4. d \in 0..Len(actions) /\ n \in d..Len(actions)  BY <1>1, <1>2
  <2>5. none \cup S = S  OBVIOUS
  <2> HIDE DEF b, none, d
  <2>6. PlayedTo(PlayActions(b, S), none \cup S, p, n)  BY <1>3, <2>2, <2>3, <2>4, PlayedOn
  <2> QED BY <2>5, <2>6
<1>5. n \in 0..n /\ n \in 0..N /\ n \in Nat
  <2>1. n \in 0..N  BY <1>2
  <2> HIDE DEF N
  <2> QED BY <1>1, <2>1
<1>6. ASSUME time > 0
      PROVE  h.page = Replay[n].page /\ h.page \in PageIds
  <2>1. 1 \in 1..n
    <3> SUFFICES ASSUME 1 \notin 1..n PROVE FALSE
      OBVIOUS
    <3>1. n = 0 /\ 0 < N /\ n + 1 = 1
      <4> HIDE DEF N
      <4> QED BY <1>1, <1>5
    <3>2. actions[1].time >= time  BY <1>2, <3>1 DEF Reached
    <3> QED BY <1>1, <1>6, <3>2
  <2>2. 1 \in Switches(time)  BY <1>1, <1>2, <2>1 DEF Switches
  <2>3. k \in Switches(time) /\ \A j \in Switches(time) : j <= k  BY <1>1, <2>2, LatestIs
  <2>4. k \in 1..n /\ actions[k].type = "Switch" /\ \A j \in 1..n : actions[j].type = "Switch" => j <= k
    BY <1>2, <2>3 DEF Switches
  <2>5. Replay[n].page = actions[k].page  BY <1>2, <2>4, ReplayPage
  <2>6. actions[k].page \in PageIds
    <3>1. \A i \in 1..n : actions[i] \in Action  BY <1>1, <1>2, Positions
    <3> QED BY <2>4, <3>1 DEF Action
  <2> DEFINE q == actions[k].page
  <2>7. PICK r \in Runs(File, actions, b, S) : PlayActions(b, S) = r[Len(actions)]
    BY <1>1, <1>3, RunIs
  <2>8. LastShown(actions, b, S, N, k, q)
    <3>1. k # 0 /\ k \in S  BY <1>2, <1>5, <2>4
    <3>2. \A i \in 1..N : i \in S /\ actions[i].type = "Switch" => i <= k  BY <1>2, <2>4
    <3> QED BY <2>4, <3>1, <3>2 DEF LastShown
  <2>9. k \in 0..N /\ N \in 0..Len(actions)
    <3>1. N \in 0..N /\ k \in 1..n /\ n \in 0..N  BY <1>1, <1>5, <2>4
    <3> HIDE DEF N
    <3>2. k \in 0..N  BY <1>1, <3>1
    <3> QED BY <3>1, <3>2 DEF N
  <2> HIDE DEF b, q, k
  <2>10. r[N].page = q
    <3> HIDE DEF N
    <3> QED BY <1>1, <1>3, <2>7, <2>8, <2>9, PlaysSwitch
  <2> QED BY <2>5, <2>6, <2>7, <2>10 DEF q
<1> HIDE DEF h, b
<1>7. SomePlayed(h, S, n)  BY <1>4, <1>5 DEF SomePlayed
<1>8. SeenBy(h, S, time, n)
  BY <1>2, <1>4, <1>5, <1>6, <1>7 DEF SeenBy, N
<1> QED BY <1>8 DEF h, b

(* The lesson stays while it is played. *)
LEMMA SeenNext ==
  ASSUME lessonVars' = lessonVars, NEW b, board' = b, NEW done, played' = done,
         NEW time, animated' = time, time <= GetAnimatedTime', \E n : SeenBy(b, done, time, n)
  PROVE  Seen'
<1>1. actions' = actions /\ init' = init  BY DEF lessonVars
<1>2. PICK n : SeenBy(b, done, time, n)  OBVIOUS
<1>3. Replay' = Replay  BY <1>1 DEF Replay, File
<1>4. SeenBy(board, played, animated, n)'
  <2>1. Due(animated)' = 1..n /\ Reached(n, animated)'
    BY <1>1, <1>2 DEF SeenBy, Due, Reached
  <2>2. \A p, m : PlayedTo(b, done, p, m) => PlayedTo(board, played, p, m)'
    BY <1>1, <1>3 DEF PlayedTo, Like, ActedOn, Acted
  <2>3. SomePlayed(board, played, n)'
    BY <1>2, <2>2 DEF SeenBy, SomePlayed
  <2>4. time > 0 => PlayedTo(board, played, board.page, n)'
    <3> SUFFICES ASSUME time > 0 PROVE PlayedTo(board, played, board.page, n)'
      OBVIOUS
    <3>1. PlayedTo(b, done, b.page, n)  BY <1>2 DEF SeenBy
    <3> QED BY <1>1, <1>3, <3>1 DEF PlayedTo, Like, ActedOn, Acted
  <2> QED BY <1>1, <1>2, <1>3, <2>1, <2>3, <2>4 DEF SeenBy
<1> QED BY <1>4 DEF Seen

(* Every step of the player keeps what is on its board. *)
LEMMA PlayerSeen ==
  ASSUME LessonInv, TimeInv, FilmInv, Seen, TimeInv',
         \/ Load \/ Start \/ Pause \/ Tick \/ AnimatedTriggered \/ TimeIsUp
         \/ \E time \in 0..MaxTime + 1 : OnGotoPosition(time) \/ ConvertFrame(time)
  PROVE  Seen'
<1>0. lessonVars' = lessonVars
  BY DEF Load, Start, Pause, Tick, AnimatedTriggered, TimeIsUp, OnGotoPosition,
         ConvertFrame, UnchangedLesson
<1>1. /\ base \in Nat /\ elapsed \in Nat /\ base' \in Nat /\ elapsed' \in Nat
      /\ GetAnimatedTime \in Nat /\ GetAnimatedTime' \in Nat /\ TotalTime \in Int
      /\ animated \in Nat
  <2>1. Len(film) \in Nat  BY LenProperties DEF LessonInv, TypeOK, LessonTypeOK
  <2>2. TotalTime \in Int  BY <2>1 DEF TotalTime
  <2>3. base \in Nat /\ elapsed \in Nat  BY DEF TimeInv, TimeOK
  <2>4. base' \in Nat /\ elapsed' \in Nat  BY DEF TimeInv, TimeOK
  <2>5. GetAnimatedTime \in Nat  BY <2>3 DEF GetAnimatedTime
  <2>6. GetAnimatedTime' \in Nat
    <3>1. GetAnimatedTime' = base' \/ GetAnimatedTime' = base' + elapsed'
      BY Zenon DEF GetAnimatedTime
    <3> DEFINE t == GetAnimatedTime'
               b == base'
               e == elapsed'
    <3>2. b \in Nat /\ e \in Nat /\ (t = b \/ t = b + e)  BY <2>4, <3>1
    <3> HIDE DEF t, b, e
    <3>3. t \in Nat  BY <3>2
    <3> QED BY <3>3, Zenon DEF t
  <2>7. animated \in Nat  BY DEF LessonInv, TypeOK
  <2> QED BY <2>2, <2>3, <2>4, <2>5, <2>6, <2>7
<1>2. mode = "play" => animated <= GetAnimatedTime /\ \E n : SeenBy(board, played, animated, n)
  BY DEF Seen
<1>3. ASSUME NEW b \in Board, \A p \in PageIds : b.drawn[p] = <<>>, b.look = init,
             board' = b, played' = {}, animated' = 0
      PROVE  Seen'
  <2>1. SeenBy(b, {}, 0, 0)  BY <1>3, NothingSeen
  <2>2. 0 <= GetAnimatedTime'  BY <1>1
  <2> DEFINE done == {}
             time == 0
  <2>3. \E n : SeenBy(b, done, time, n)  BY <2>1
  <2>4. played' = done /\ animated' = time /\ time <= GetAnimatedTime'  BY <1>3, <2>2
  <2> HIDE DEF done, time
  <2> QED BY <1>0, <1>3, <2>3, <2>4, SeenNext
<1>4. ASSUME UNCHANGED boardVars, mode = "play", animated <= GetAnimatedTime' PROVE Seen'
  <2>1. board' = board /\ played' = played /\ animated' = animated  BY <1>4 DEF boardVars
  <2> DEFINE b == board
             done == played
             time == animated
  <2>2. board' = b /\ played' = done /\ animated' = time /\ time <= GetAnimatedTime'
        /\ \E n : SeenBy(b, done, time, n)
    BY <1>2, <1>4, <2>1
  <2> HIDE DEF b, done, time
  <2> QED BY <1>0, <2>2, SeenNext
<1>5. ASSUME NEW time \in Nat, time <= GetAnimatedTime', animated' = time,
             \E n : SeenBy(board', played', time, n)
      PROVE  Seen'
  <2> DEFINE b == board'
             done == played'
  <2>1. board' = b /\ played' = done /\ \E n : SeenBy(b, done, time, n)  BY <1>5
  <2> HIDE DEF b, done
  <2> QED BY <1>0, <1>5, <2>1, SeenNext
<1>6. ASSUME board' = ResetElements(board), played' = {}, animated' = 0 PROVE Seen'
  <2> DEFINE b == ResetElements(board)
  <2>1. b \in Board /\ (\A p \in PageIds : b.drawn[p] = <<>>) /\ b.look = init  BY ResetIs
  <2>2. board' = b  BY <1>6
  <2> HIDE DEF b
  <2> QED BY <1>3, <1>6, <2>1, <2>2
<1>7. CASE Load
  <2> DEFINE b == Blank
  <2>1. b \in Board /\ (\A p \in PageIds : b.drawn[p] = <<>>) /\ b.look = init
    <3>1. [r \in PageIds |-> <<>>] \in [PageIds -> Seq(Uuids)]  BY EmptySeq
    <3>2. init \in [Uuids -> Looks \cup {None}]  BY DEF LessonInv, TypeOK, LessonTypeOK
    <3> QED BY <3>1, <3>2 DEF Blank, Board
  <2>2. board' = b /\ played' = {} /\ animated' = 0  BY <1>7 DEF Load
  <2> HIDE DEF b
  <2> QED BY <1>3, <2>1, <2>2
<1>8. CASE Start
  <2>1. mode = "play" /\ UNCHANGED boardVars /\ GetAnimatedTime' = base + 0 /\ GetAnimatedTime = base
    BY <1>8 DEF Start, Playing, IsPausing, GetAnimatedTime
  <2>2. animated <= GetAnimatedTime'  BY <1>1, <1>2, <2>1
  <2> QED BY <1>4, <2>1, <2>2
<1>9. CASE Pause
  <2>1. mode = "play" /\ UNCHANGED boardVars /\ GetAnimatedTime' = GetAnimatedTime
    BY <1>9 DEF Pause, Playing, IsPausing, GetAnimatedTime
  <2> QED BY <1>2, <1>4, <2>1
<1>10. CASE Tick
  <2>1. /\ mode = "play" /\ UNCHANGED boardVars
        /\ GetAnimatedTime' = base + (elapsed + 1) /\ GetAnimatedTime = base + elapsed
    BY <1>10 DEF Tick, Playing, IsPausing, GetAnimatedTime
  <2>2. animated <= GetAnimatedTime'  BY <1>1, <1>2, <2>1
  <2> QED BY <1>4, <2>1, <2>2
<1>11. CASE AnimatedTriggered
  <2> DEFINE time == GetAnimatedTime
  <2>1. mode = "play" /\ Animate(board, played, time) /\ UNCHANGED timeVars
    BY <1>11 DEF AnimatedTriggered, Playing
  <2>2. GetAnimatedTime' = time  BY <2>1 DEF timeVars, GetAnimatedTime
  <2>3. PICK m : SeenBy(board, played, animated, m)  BY <1>2, <2>1
  <2>4. animated <= time /\ time \in Nat /\ time <= GetAnimatedTime'  BY <1>1, <1>2, <2>1, <2>2
  <2> HIDE DEF time
  <2>5. animated' = time /\ \E n : SeenBy(board', played', time, n)
    BY <2>1, <2>3, <2>4, TriggeredSeen
  <2> QED BY <1>5, <2>4, <2>5
<1>12. CASE TimeIsUp
  BY <1>6, <1>12 DEF TimeIsUp, ResetPages
<1>13. ASSUME NEW time \in Nat, SetAnimatedTime(time)
       PROVE  (IF time > TotalTime THEN 0 ELSE time) <= GetAnimatedTime'
  <2>1. CASE time > TotalTime  BY <1>1, <2>1
  <2>2. CASE ~(time > TotalTime)
    <3>1. base' = time /\ elapsed' = 0  BY <1>13, <2>2 DEF SetAnimatedTime
    <3>2. GetAnimatedTime' = base' \/ GetAnimatedTime' = base' + elapsed'  BY DEF GetAnimatedTime
    <3> QED BY <2>2, <3>1, <3>2
  <2> QED BY <2>1, <2>2
<1>14. ASSUME NEW time \in 0..MaxTime + 1, OnGotoPosition(time) PROVE Seen'
  <2> DEFINE t == IF time > TotalTime THEN 0 ELSE time
  <2>1. t \in Nat /\ time \in Nat
    <3>1. time \in Nat  BY LessonAssumption
    <3> QED BY <3>1
  <2>2. CASE time > TotalTime \/ IsPausing
    <3>1. SetAnimatedTime(time) /\ Animate(ResetElements(board), {}, t)
      BY <1>14, <2>2 DEF OnGotoPosition
    <3>2. t <= GetAnimatedTime'  BY <1>13, <2>1, <3>1
    <3> HIDE DEF t
    <3>3. animated' = t /\ \E n : SeenBy(board', played', t, n)  BY <2>1, <3>1, SoughtSeen
    <3> QED BY <1>5, <2>1, <3>2, <3>3
  <2>3. CASE ~(time > TotalTime \/ IsPausing)
    <3>1. ResetPages  BY <1>14, <2>3 DEF OnGotoPosition
    <3> QED BY <1>6, <3>1 DEF ResetPages
  <2> QED BY <2>2, <2>3
<1>15. ASSUME NEW time \in 0..MaxTime + 1, ConvertFrame(time) PROVE Seen'
  <2> DEFINE t == IF time > TotalTime THEN 0 ELSE time
             S == GetUnAnimatedActions(t, {})
  <2>1. t \in Nat /\ time \in Nat
    <3>1. time \in Nat  BY LessonAssumption
    <3> QED BY <3>1
  <2>2. /\ SetAnimatedTime(time) /\ animated' = t
        /\ board' = PlayActions(ResetElements(board), S) /\ played' = S
    BY <1>15 DEF ConvertFrame, GotoTime
  <2>3. t <= GetAnimatedTime'  BY <1>13, <2>1, <2>2
  <2>4. S = Due(t)  BY DEF GetUnAnimatedActions
  <2> HIDE DEF t, S
  <2>5. \E n : SeenBy(PlayActions(ResetElements(board), S), S, t, n)  BY <2>1, <2>4, GoneSeen
  <2>6. \E n : SeenBy(board', played', t, n)  BY <2>2, <2>5
  <2> QED BY <1>5, <2>1, <2>2, <2>3, <2>6
<1> QED BY <1>7, <1>8, <1>9, <1>10, <1>11, <1>12, <1>14, <1>15

(* And so does every step there is. *)
LEMMA StepSeen == LessonInv /\ TimeInv /\ FilmInv /\ Seen /\ [Next]_vars => Seen'
<1> SUFFICES ASSUME LessonInv, TimeInv, FilmInv, Seen, [Next]_vars PROVE Seen'
  OBVIOUS
<1>0. TimeInv'  BY StepTime
<1>1. CASE mode = "record" /\ Record /\ UNCHANGED <<mode, timeVars, boardVars, cut>>
  BY <1>1 DEF Seen
<1>2. CASE \/ Load \/ Start \/ Pause \/ Tick \/ AnimatedTriggered \/ TimeIsUp
           \/ \E time \in 0..MaxTime + 1 : OnGotoPosition(time) \/ ConvertFrame(time)
  BY <1>0, <1>2, PlayerSeen
<1>3. CASE OnReRecord
  BY <1>3 DEF OnReRecord, Seen
<1>4. CASE UNCHANGED vars
  <2>1. lessonVars' = lessonVars /\ mode' = mode /\ UNCHANGED <<timeVars, boardVars>>
    BY <1>4 DEF vars
  <2>2. GetAnimatedTime' = GetAnimatedTime /\ board' = board /\ played' = played /\ animated' = animated
    BY <2>1 DEF timeVars, boardVars, GetAnimatedTime
  <2>3. CASE mode # "play"  BY <2>1, <2>3 DEF Seen
  <2>4. CASE mode = "play"
    <3> DEFINE b == board
               done == played
               time == animated
    <3>1. board' = b /\ played' = done /\ animated' = time /\ time <= GetAnimatedTime'
          /\ \E n : SeenBy(b, done, time, n)
      BY <2>2, <2>4 DEF Seen
    <3> HIDE DEF b, done, time
    <3> QED BY <2>1, <3>1, SeenNext
  <2> QED BY <2>3, <2>4
<1> QED BY <1>1, <1>2, <1>3, <1>4 DEF Next

(* A board that was brought to a time shows what the lesson comes to then. *)
LEMMA SeenShows ==
  ASSUME LessonInv, NEW n, SeenBy(board, played, animated, n), animated > 0
  PROVE  OnBoard(board) = OnBoard(Replay[n])
<1> DEFINE q == board.page
           U == ActedOn(q)
           b == board
           c == Replay[n]
<1>1. /\ n \in 0..Len(actions) /\ q \in PageIds /\ c.page = q /\ Like(b, c, q, U)
  BY DEF SeenBy, PlayedTo
<1>2. actions \in Seq(Action) /\ File \in SUBSET Uuids /\ init \in [Uuids -> Looks \cup {None}]
  BY DEF LessonInv, TypeOK, LessonTypeOK, File
<1>3. b.drawn[q] \in Seq(U)
  <2> DEFINE A == Shows(File, actions, q, n)
             s == c.drawn[q]
  <2>1. s \in Seq(A)
    <3>1. Whole(File, init, actions)[n].drawn[q] \in Seq(A)  BY <1>1, <1>2, DrawnFrom
    <3> QED BY <3>1 DEF Replay
  <2>2. A \subseteq U
    <3>1. \A i \in 1..n : i \in DOMAIN actions
      <4>1. DOMAIN actions = 1..Len(actions)  BY <1>2, LenProperties
      <4> QED BY <1>1, <1>2, <4>1, Positions
    <3> QED BY <1>2, <3>1 DEF Shows, ActedOn, Acted
  <2>3. b.drawn[q] = s  BY <1>1 DEF Like
  <2> HIDE DEF A, s, U
  <2>4. s \in Seq(U)  BY <2>1, <2>2
  <2> QED BY <2>3, <2>4
<1>4. b.page = q  OBVIOUS
<1> HIDE DEF b, c, q, U
<1>5. OnBoard(b) = OnBoard(c)  BY <1>1, <1>3, <1>4, LikePicture
<1> QED BY <1>5 DEF b, c

(* What is said of the lesson, of its film and of the board says that it   *)
(* is played as it was recorded.                                           *)
LEMMA ShowsFilm ==
  LessonInv /\ FilmInv /\ Seen => PlayedAsRecorded /\ RerecordKeepsPast
<1> SUFFICES ASSUME LessonInv, FilmInv, Seen, mode = "play", animated > 0
             PROVE  /\ cut = 0 /\ ~({"change", "redo"} \subseteq usage) =>
                         OnBoard(board) = film[IF animated < Len(film) THEN animated ELSE Len(film)]
                    /\ animated < cut /\ usage \cap {"undo", "redo", "delete", "change"} = {} =>
                         OnBoard(board) = film[animated]
  BY Zenon DEF PlayedAsRecorded, RerecordKeepsPast
<1> DEFINE N == Len(actions)
           L == Len(film)
<1>1. PICK n : SeenBy(board, played, animated, n)  BY DEF Seen
<1>2. OnBoard(board) = OnBoard(Replay[n])  BY <1>1, SeenShows
<1>3. /\ n \in 0..N /\ Reached(n, animated) /\ animated \in Nat /\ cut \in Nat /\ cut <= L
      /\ L \in Nat \ {0} /\ N \in Nat /\ now = L - 1
      /\ \A i \in 1..N : actions[i].time <= now /\ actions[i].time \in Nat
  <2>1. actions \in Seq(Action)  BY DEF LessonInv, TypeOK, LessonTypeOK
  <2>2. \A i \in 1..N : actions[i] \in Action  BY <2>1, ElementOfSeq
  <2>3. \A e \in Action : e.time \in Nat  BY DEF Action
  <2>4. \A i \in 1..N : actions[i].time \in Nat  BY <2>2, <2>3
  <2> QED BY <1>1, <2>4 DEF SeenBy, FilmInv, Begun, Timed, LessonInv, TypeOK
<1>4. ASSUME NEW k \in 1..L, Comparable(k), Reached(n, k) PROVE OnBoard(board) = film[k]
  BY <1>2, <1>3, <1>4 DEF FilmInv, Filmed
<1>5. ASSUME cut = 0, ~({"change", "redo"} \subseteq usage)
      PROVE  OnBoard(board) = film[IF animated < L THEN animated ELSE L]
  <2>1. \A k : Comparable(k)  BY <1>5 DEF Comparable, Faithful
  <2>2. CASE animated < L
    <3>1. animated \in 1..L
      <4> HIDE DEF L
      <4> QED BY <1>3, <2>2
    <3>2. OnBoard(board) = film[animated]  BY <1>3, <1>4, <2>1, <3>1
    <3> QED BY <2>2, <3>2, Zenon
  <2>3. CASE ~(animated < L)
    <3>1. Reached(n, L)
      <4>1. n < N => actions[n + 1].time >= animated  BY <1>3 DEF Reached
      <4> HIDE DEF L, N
      <4>2. \A i \in 1..n : i \in 1..N  BY <1>3
      <4>3. \A i \in 1..n : actions[i].time < L  BY <1>3, <4>2
      <4>4. ~(n < N)
        <5> SUFFICES ASSUME n < N PROVE FALSE
          OBVIOUS
        <5>1. n + 1 \in 1..N  BY <1>3
        <5> QED BY <1>3, <2>3, <4>1, <5>1
      <4> QED BY <4>3, <4>4 DEF Reached, N
    <3>2. L \in 1..L
      <4> HIDE DEF L
      <4> QED BY <1>3
    <3>3. OnBoard(board) = film[L]  BY <1>4, <2>1, <3>1, <3>2
    <3> QED BY <2>3, <3>3, Zenon
  <2> QED BY <2>2, <2>3
<1>6. ASSUME animated < cut, usage \cap {"undo", "redo", "delete", "change"} = {}
      PROVE  OnBoard(board) = film[animated]
  <2>1. animated \in 1..L
    <3> HIDE DEF L
    <3> QED BY <1>3, <1>6
  <2>2. Comparable(animated)  BY <1>6 DEF Comparable, Plain
  <2> QED BY <1>3, <1>4, <2>1, <2>2
<1> QED BY <1>5, <1>6

(* What is said of the lesson, its time, its film and the board is always  *)
(* so, provided the first time told is 0.                                  *)
PlayInv == LessonInv /\ TimeInv /\ FilmInv /\ Seen

(* So it is at first, with nothing recorded. *)
LEMMA InitPlay ==
  ASSUME FirstTimes = {0}
  PROVE  Init => PlayInv
<1>1. Init => FilmInv  BY InitFilm
<1>2. Init => Seen  BY DEF Init, Seen
<1> QED BY <1>1, <1>2, InitTime, InitLesson DEF PlayInv

(* Every step keeps it. *)
LEMMA StepPlay == PlayInv /\ [Next]_vars => PlayInv'
  BY StepTime, StepLesson, StepFilm, StepSeen DEF PlayInv

(* Whatever was played, paused, sought, left out because another page was  *)
(* shown, or filmed, for any pages, elements, looks and lengths of a       *)
(* lesson: the board brought to a time shows what the teacher's board      *)
(* showed then.                                                            *)
THEOREM PlayedAsRecordedHolds ==
  ASSUME FirstTimes = {0}
  PROVE  Spec => []PlayedAsRecorded
<1>1. PlayInv => PlayedAsRecorded  BY ShowsFilm DEF PlayInv
<1>2. Init => PlayInv  BY InitPlay
<1>3. PlayInv /\ [Next]_vars => PlayInv'  BY StepPlay
<1> QED BY <1>1, <1>2, <1>3, PTL DEF Spec

(* A lesson recorded anew, in which nothing had been erased or changed, is *)
(* played up to the time it was recorded anew from as it was.              *)
THEOREM RerecordKeepsPastHolds ==
  ASSUME FirstTimes = {0}
  PROVE  Spec => []RerecordKeepsPast
<1>1. PlayInv => RerecordKeepsPast  BY ShowsFilm DEF PlayInv
<1>2. Init => PlayInv  BY InitPlay
<1>3. PlayInv /\ [Next]_vars => PlayInv'  BY StepPlay
<1> QED BY <1>1, <1>2, <1>3, PTL DEF Spec
=============================================================================
