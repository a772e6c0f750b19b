-------------------------- MODULE Reconnect_proofs --------------------------
(***************************************************************************)
(* Theorems about Reconnect, for any number of failures and any nesting of *)
(* the questions they ask.                                                 *)
(***************************************************************************)
EXTENDS Reconnect, SequenceTheorems, FiniteSetTheorems, WellFoundedInduction, TLAPS

-----------------------------------------------------------------------------
(* A set of naturals that is not empty has a least element. *)
LEMMA Least ==
  ASSUME NEW T \in SUBSET Nat, T # {}
  PROVE  \E x \in T : \A y \in T : x <= y
<1>1. \E x \in T : \A y \in T : ~(y < x)
  <2> DEFINE R == OpToRel(<, Nat)
  <2>1. IsWellFoundedOn(R, Nat)  BY NatLessThanWellFounded
  <2>2. \A x, y \in Nat : y < x => <<y, x>> \in R  BY DEF OpToRel
  <2> HIDE DEF R
  <2>3. PICK x \in T : \A y \in T : ~(<<y, x>> \in R)  BY <2>1, WFMin
  <2>4. \A y \in T : ~(y < x)  BY <2>2, <2>3, Zenon
  <2> QED BY <2>4
<1>2. PICK x \in T : \A y \in T : ~(y < x)  BY <1>1
<1>3. \A y \in T : x <= y  BY <1>2
<1> QED BY <1>3

(* Induction over the naturals, stated of a set. *)
LEMMA AllNaturals ==
  ASSUME NEW T \in SUBSET Nat, 0 \in T, \A n \in T : n + 1 \in T
  PROVE  T = Nat
<1> SUFFICES ASSUME NEW m \in Nat, m \notin T PROVE FALSE
  OBVIOUS
<1>1. PICK x \in Nat \ T : \A y \in Nat \ T : x <= y
  BY Least
<1>2. x # 0 /\ x - 1 \in Nat  BY <1>1
<1>3. x - 1 \in T  BY <1>1, <1>2
<1>4. (x - 1) + 1 \in T BY <1>3
<1>5. (x - 1) + 1 = x BY <1>1
<1> QED BY <1>1, <1>4, <1>5

-----------------------------------------------------------------------------
(* A question that is asked is a question, and is the innermost. *)
LEMMA Asked ==
  ASSUME NEW qs \in Seq(Question), NEW q \in Question
  PROVE  /\ Append(qs, q) \in Seq(Question)
         /\ Append(qs, q) # <<>>
  BY AppendProperties, EmptySeq

(* LokiSocket's signals always reach LokiClient, so there is a call to ask. *)
LEMMA AskIsQuestion ==
  ASSUME TypeOK, NEW kind \in {"Retry", "Apply"}
  PROVE  Ask(kind) \in Question
  BY DEF Ask, Question, TypeOK

(* The innermost question is one of them. *)
LEMMA InnermostIsOne ==
  ASSUME TypeOK, questions # <<>>
  PROVE  Innermost \in Question /\ Len(questions) \in 1..Len(questions)
  BY DEF TypeOK, Innermost

(* Answering the innermost question leaves the ones around it. *)
LEMMA AnsweredIsQuestions ==
  ASSUME TypeOK, questions # <<>>
  PROVE  /\ Answered \in Seq(Question)
         /\ \A i \in DOMAIN Answered : i \in DOMAIN questions
                                       /\ Answered[i].kind = questions[i].kind
<1> DEFINE n == Len(questions)
           rest == SubSeq(questions, 1, n - 1)
           again == [Innermost EXCEPT !.left = @ - 1]
<1>1. /\ questions \in Seq(Question) /\ n \in Nat /\ n > 0
      /\ Innermost = questions[n] /\ Innermost \in Question
  BY InnermostIsOne DEF TypeOK, Innermost
<1>2. /\ rest \in Seq(Question) /\ Len(rest) = n - 1
      /\ \A i \in 1..(n - 1) : rest[i] = questions[i]
  <2>1. \A i \in 1..(n - 1) : questions[i] \in Question
    BY <1>1, ElementOfSeq
  <2>2. /\ rest \in Seq(Question)
        /\ Len(rest) = IF 1 <= n - 1 THEN (n - 1) - 1 + 1 ELSE 0
        /\ \A i \in 1..((n - 1) - 1 + 1) : rest[i] = questions[1 + i - 1]
    BY <1>1, <2>1, SubSeqProperties
  <2>3. Len(rest) = n - 1
    <3> HIDE DEF rest, n
    <3> QED BY <1>1, <2>2
  <2>4. \A i \in 1..(n - 1) : rest[i] = questions[i]
    <3> HIDE DEF rest, n
    <3> QED BY <1>1, <2>2
  <2> QED BY <2>2, <2>3, <2>4
<1>3. CASE Innermost.left = 1
  <2>1. Answered = rest  BY <1>3 DEF Answered
  <2> QED BY <1>1, <1>2, <2>1
<1>4. CASE Innermost.left # 1
  <2>1. Answered = Append(rest, again)  BY <1>4 DEF Answered
  <2>q. \A q \in Question : q.left # 1 =>
          /\ [q EXCEPT !.left = @ - 1] \in Question
          /\ [q EXCEPT !.left = @ - 1].kind = q.kind
    BY DEF Question
  <2>2. again \in Question /\ again.kind = questions[n].kind
    BY <1>1, <1>4, <2>q
  <2> HIDE DEF again
  <2>3. /\ Append(rest, again) \in Seq(Question) /\ Len(Append(rest, again)) = n
        /\ \A i \in 1..(n - 1) : Append(rest, again)[i] = questions[i]
        /\ Append(rest, again)[n] = again
    BY <1>1, <1>2, <2>2
  <2> QED BY <1>1, <2>1, <2>2, <2>3
<1> QED BY <1>3, <1>4

(* The questions of a socket that is lost stay questions, as many of each  *)
(* kind and with as many calls left.                                       *)
LEMMA DeadQuestions ==
  ASSUME TypeOK
  PROVE  /\ Dead \in Seq(Question) /\ Len(Dead) = Len(questions)
         /\ \A i \in 1..Len(questions) : Dead[i].kind = questions[i].kind
                                        /\ Dead[i].left = questions[i].left
<1>1. /\ questions \in Seq(Question) /\ DOMAIN questions = 1..Len(questions)
      /\ Len(questions) \in Nat
  BY LenProperties DEF TypeOK
<1>2. \A q \in Question : /\ [q EXCEPT !.alive = FALSE] \in Question
                          /\ [q EXCEPT !.alive = FALSE].kind = q.kind
                          /\ [q EXCEPT !.alive = FALSE].left = q.left
  BY DEF Question
<1>3. \A i \in DOMAIN questions : questions[i] \in Question
  BY <1>1, ElementOfSeq
<1>4. \A i \in DOMAIN questions : [questions[i] EXCEPT !.alive = FALSE] \in Question
  BY <1>2, <1>3
<1>5. Dead \in [1..Len(questions) -> Question]  BY <1>1, <1>4 DEF Dead
<1>6. Dead \in Seq(Question) /\ Len(Dead) = Len(questions)  BY <1>1, <1>5
<1>7. \A i \in 1..Len(questions) : Dead[i].kind = questions[i].kind
                                   /\ Dead[i].left = questions[i].left
  BY <1>1, <1>2, <1>3 DEF Dead
<1> QED BY <1>6, <1>7

(* What an error leaves of the questions: they are as they were, or those  *)
(* of a lost socket, and one more if LiveWidget asks.                      *)
LEMMA ErrorQuestions ==
  ASSUME TypeOK, OnSocketError
  PROVE  /\ questions' \in Seq(Question)
         /\ \/ questions' = Append(Dead, Ask("Retry")) /\ questions' # <<>> /\ ~swallowed'
            \/ questions' = Dead /\ swallowed'
            \/ questions' = questions /\ swallowed' /\ socket' = "unconnected"
<1>1. Dead \in Seq(Question) /\ Ask("Retry") \in Question
  BY DeadQuestions, AskIsQuestion
<1>2. Append(Dead, Ask("Retry")) \in Seq(Question) /\ Append(Dead, Ask("Retry")) # <<>>
  BY <1>1, Asked
<1>3. questions \in Seq(Question)  BY DEF TypeOK
<1>4. CASE Forget  BY <1>2, <1>4 DEF Forget
<1>5. CASE OnDisconnected  BY <1>1, <1>5 DEF OnDisconnected
<1>6. CASE Keep  BY <1>3, <1>6 DEF Keep
<1> QED BY <1>4, <1>5, <1>6 DEF OnSocketError

-----------------------------------------------------------------------------
(* Type correctness. *)

(* The declared shape holds initially. *)
LEMMA TypeInit == Init => TypeOK
<1> SUFFICES ASSUME Init PROVE TypeOK
  OBVIOUS
<1>1. questions \in Seq(Question)  BY EmptySeq DEF Init
<1>2. toClient \in Seq({"Reply", "Apply"})  BY EmptySeq DEF Init
<1>3. /\ socket \in {"none", "deleted", "unconnected", "connecting", "connected"}
      /\ member \in BOOLEAN /\ welcomed \in BOOLEAN
      /\ swallowed \in BOOLEAN /\ cancelled \in BOOLEAN
  BY DEF Init
<1>4. /\ inner \in Nat /\ outer \in Nat \ {0} /\ logins \in Nat
      /\ failures \in Nat /\ applies \in Nat
  BY DEF Init
<1> QED BY <1>1, <1>2, <1>3, <1>4 DEF TypeOK

(* What the user answers keeps the declared shape. *)
LEMMA TypeAnswer ==
  ASSUME TypeOK, (\E again \in BOOLEAN : AnswerRetry(again)) \/ AnswerApply
  PROVE  TypeOK'
<1>1. questions' \in Seq(Question)
  BY AnsweredIsQuestions DEF AnswerRetry, AnswerApply
<1>2. CASE AnswerApply
  BY <1>1, <1>2, InnermostIsOne DEF AnswerApply, TypeOK, network, Question
<1>3. ASSUME NEW again \in BOOLEAN, AnswerRetry(again) PROVE TypeOK'
  <2>1. inner' \in {0, inner, inner + 1} /\ outer' \in {outer, outer + 1}
    BY <1>3 DEF AnswerRetry, ReInit
  <2>2. inner' \in Nat /\ outer' \in Nat \ {0}
    BY <2>1 DEF TypeOK
  <2>3. socket' \in {"connecting", "none", socket}
    BY <1>3 DEF AnswerRetry, ReInit
  <2>4. swallowed' \in {swallowed, socket = "deleted"}
    BY <1>3, Zenon DEF AnswerRetry, ReInit
  <2>5. cancelled' = (cancelled \/ ~again) /\ UNCHANGED <<network, welcomed, failures, applies>>
    BY <1>3 DEF AnswerRetry
  <2> QED BY <1>1, <2>2, <2>3, <2>4, <2>5 DEF TypeOK, network
<1> QED BY <1>2, <1>3

(* The network's and the server's steps keep the declared shape. *)
LEMMA TypeStep ==
  ASSUME TypeOK, OnConnected \/ HandleLogin \/ RelayApply \/ OnDataRead \/ Fail
  PROVE  TypeOK'
<1>1. CASE OnConnected
  <2>1. inner * outer \in Nat  BY DEF TypeOK
  <2> QED BY <1>1, <2>1 DEF OnConnected, TypeOK
<1>2. CASE HandleLogin \/ RelayApply
  <2>a. /\ logins \in Nat /\ applies \in Nat /\ member \in BOOLEAN
        /\ toClient \in Seq({"Reply", "Apply"})
    BY DEF TypeOK
  <2>1. toClient' \in Seq({"Reply", "Apply"})
    BY <1>2, <2>a DEF HandleLogin, RelayApply
  <2>b. /\ (logins' = logins - 1 /\ logins > 0) \/ logins' = logins
        /\ applies' = applies + 1 \/ applies' = applies
    BY <1>2 DEF HandleLogin, RelayApply
  <2>c. member' \in BOOLEAN
    BY <1>2, <2>a DEF HandleLogin, RelayApply
  <2>2. logins' \in Nat /\ applies' \in Nat
    BY <2>a, <2>b
  <2>3. UNCHANGED <<socket, inner, outer, questions, welcomed, swallowed, cancelled, failures>>
    BY <1>2 DEF HandleLogin, RelayApply
  <2> QED BY <2>1, <2>2, <2>3, <2>c DEF TypeOK
<1>3. CASE OnDataRead
  <2>1. questions' \in Seq(Question) /\ welcomed' \in BOOLEAN
    BY <1>3, AskIsQuestion, Asked DEF OnDataRead, TypeOK
  <2>2. toClient' \in Seq({"Reply", "Apply"})
    BY <1>3 DEF OnDataRead, TypeOK
  <2> QED BY <1>3, <2>1, <2>2 DEF OnDataRead, TypeOK
<1>4. CASE Fail
  <2>1. questions' \in Seq(Question)
    BY <1>4, ErrorQuestions DEF Fail
  <2>a. inner' \in {0, inner} /\ socket' \in {"none", "deleted", "unconnected"}
    BY <1>4 DEF Fail, OnSocketError, Forget, OnDisconnected, Keep
  <2>b. swallowed' \in BOOLEAN
    BY <1>4, Zenon DEF Fail, OnSocketError, Forget, OnDisconnected, Keep
  <2>2. /\ inner' \in Nat /\ swallowed' \in BOOLEAN
        /\ socket' \in {"none", "deleted", "unconnected", "connecting", "connected"}
    BY <2>a, <2>b DEF TypeOK
  <2>3. toClient' \in Seq({"Reply", "Apply"})  BY <1>4, EmptySeq DEF Fail
  <2>4. /\ logins' = 0 /\ member' = FALSE /\ welcomed' = FALSE
        /\ failures' = failures + 1 /\ UNCHANGED <<outer, cancelled, applies>>
    BY <1>4 DEF Fail
  <2>5. logins' \in Nat /\ failures' \in Nat  BY <2>4 DEF TypeOK
  <2> QED BY <2>1, <2>2, <2>3, <2>4, <2>5 DEF TypeOK
<1> QED BY <1>1, <1>2, <1>3, <1>4

(* Every reachable state has the declared shape: a question that is open   *)
(* always has a call left, and LokiSocket's signals always reach           *)
(* LokiClient.                                                             *)
THEOREM ReconnectTypeCorrect == Spec => []TypeOK
<1>1. TypeOK /\ [Next]_vars => TypeOK'
  <2> SUFFICES ASSUME TypeOK, [Next]_vars PROVE TypeOK'
    OBVIOUS
  <2>1. CASE UNCHANGED vars
    BY <2>1 DEF TypeOK, vars, network
  <2> QED BY <2>1, TypeStep, TypeAnswer DEF Next
<1> QED BY <1>1, TypeInit, PTL DEF Spec

-----------------------------------------------------------------------------
(* A user who answers finds a socket when all questions are closed.        *)

(* While there is no socket the innermost question is a retry one, so that *)
(* the next answer makes a socket; a socket that was deleted was so by an  *)
(* error that was swallowed.                                               *)
Attended ==
  /\ socket = "none" /\ ~cancelled /\ ~swallowed
       => questions # <<>> /\ Innermost.kind = "Retry"
  /\ socket = "deleted" => swallowed

(* Attended is inductive: while there is no socket nothing is read, so no  *)
(* question is opened over the retry one but by an error.                  *)
LEMMA AttendedStep ==
  ASSUME TypeOK, Attended, [Next]_vars
  PROVE  Attended'
<1>1. CASE OnConnected
  BY <1>1 DEF OnConnected, Attended
<1>2. CASE HandleLogin \/ RelayApply
  BY <1>2 DEF HandleLogin, RelayApply, Attended, Innermost
<1>3. CASE OnDataRead
  BY <1>3 DEF OnDataRead, Attended
<1>4. CASE Fail
  <2>1. UNCHANGED cancelled  BY <1>4 DEF Fail
  <2>2. CASE Forget
    <3>1. /\ Dead \in Seq(Question) /\ Len(Dead) \in Nat
          /\ Ask("Retry") \in Question /\ Ask("Retry").kind = "Retry"
          /\ questions' = Append(Dead, Ask("Retry")) /\ socket' = "none"
      BY <2>2, DeadQuestions, AskIsQuestion, LenProperties DEF Forget, Ask
    <3>2. questions' # <<>> /\ Innermost' = Ask("Retry")
      BY <3>1, Asked, AppendProperties DEF Innermost
    <3> QED BY <3>1, <3>2 DEF Attended
  <2>3. CASE OnDisconnected
    BY <2>3 DEF OnDisconnected, Attended
  <2>4. CASE Keep
    BY <2>4 DEF Keep, Attended
  <2> QED BY <1>4, <2>2, <2>3, <2>4 DEF Fail, OnSocketError
<1>5. ASSUME NEW again \in BOOLEAN, AnswerRetry(again) PROVE Attended'
  <2>1. CASE again
    BY <1>5, <2>1 DEF AnswerRetry, ReInit, Attended, TypeOK
  <2>2. CASE ~again
    <3>1. cancelled'  BY <1>5, <2>2 DEF AnswerRetry
    <3>2. socket' = "deleted" => socket = "deleted" /\ UNCHANGED swallowed
      BY <1>5, <2>2 DEF AnswerRetry
    <3> QED BY <3>1, <3>2 DEF Attended
  <2> QED BY <2>1, <2>2
<1>6. CASE AnswerApply
  BY <1>6 DEF AnswerApply, Attended
<1>7. CASE UNCHANGED vars
  BY <1>7 DEF vars, network, Attended, Innermost
<1> QED BY <1>1, <1>2, <1>3, <1>4, <1>5, <1>6, <1>7 DEF Next

(* LokiSocket::_socket, NULL from OnSocketErrorTriggered to the next       *)
(* ConnectToHost, is there again when the user's last question is closed,  *)
(* as long as the user answers every retry question with "retry" and the   *)
(* last error was passed on, whoever asks for the board meanwhile.         *)
THEOREM UserHasSocketHolds == Spec => []UserHasSocket
<1>1. Init => Attended  BY DEF Init, Attended
<1>2. TypeOK /\ Attended /\ [Next]_vars => Attended'
  BY AttendedStep
<1>3. Attended => UserHasSocket
  BY DEF Attended, UserHasSocket
<1> QED BY <1>1, <1>2, <1>3, ReconnectTypeCorrect, PTL DEF Spec

-----------------------------------------------------------------------------
(* How much a client repeats itself.                                       *)

(* The running sums that SumRetries computes.                              *)
Sums(qs) ==
  {g \in [0..Len(qs) -> Nat] :
     g[0] = 0 /\ \A i \in 1..Len(qs) : g[i] = g[i - 1] + Retries(qs[i])}

(* A question asks for a natural number of Inits. *)
LEMMA RetriesNat ==
  ASSUME NEW q \in Question
  PROVE  Retries(q) \in Nat
  BY DEF Retries, Question

(* What the recursive definition of SumRetries computes: any list of       *)
(* running sums ends in its value.                                         *)
LEMMA SumIs ==
  ASSUME NEW qs \in Seq(Question), NEW g \in Sums(qs)
  PROVE  SumRetries(qs) = g[Len(qs)]
<1> DEFINE n == Len(qs)
           Rec(f) == [i \in 0..n |-> IF i = 0 THEN 0 ELSE f[i - 1] + Retries(qs[i])]
           sum == CHOOSE f : f = Rec(f)
<1>0. n \in Nat /\ \A i \in 1..n : qs[i] \in Question
  BY ElementOfSeq
<1>1. SumRetries(qs) = sum[n]
  BY DEF SumRetries
<1>2. /\ g \in [0..n -> Nat] /\ g[0] = 0
      /\ \A i \in 1..n : g[i] = g[i - 1] + Retries(qs[i])
  BY DEF Sums
<1>3. g = Rec(g)
  <2>1. \A i \in 0..n : g[i] = Rec(g)[i]
    BY <1>0, <1>2
  <2> QED BY <1>2, <2>1
<1>4. sum = Rec(sum)
  BY <1>3
<1>5. /\ sum[0] = 0
      /\ \A i \in 1..n : sum[i] = sum[i - 1] + Retries(qs[i])
  <2>1. \A i \in 0..n : Rec(sum)[i] = IF i = 0 THEN 0 ELSE sum[i - 1] + Retries(qs[i])
    OBVIOUS
  <2> HIDE DEF sum, Rec
  <2>2. \A i \in 0..n : sum[i] = IF i = 0 THEN 0 ELSE sum[i - 1] + Retries(qs[i])
    BY <1>4, <2>1
  <2> HIDE DEF n
  <2> QED BY <1>0, <2>2
<1> DEFINE T == {i \in Nat : i <= n => sum[i] = g[i]}
<1> HIDE DEF sum, n
<1>6. 0 \in T  BY <1>2, <1>5
<1>7. \A i \in T : i + 1 \in T
  <2> SUFFICES ASSUME NEW i \in Nat, i <= n => sum[i] = g[i], i + 1 <= n
               PROVE  sum[i + 1] = g[i + 1]
    OBVIOUS
  <2>1. i + 1 \in 1..n /\ (i + 1) - 1 = i /\ i <= n  BY <1>0
  <2> QED BY <1>2, <1>5, <2>1
<1>8. n \in T  BY <1>0, <1>6, <1>7, AllNaturals
<1> QED BY <1>1, <1>8, <1>0 DEF n

(* Running sums are continued when a question is asked. *)
LEMMA SumsAppend ==
  ASSUME NEW qs \in Seq(Question), NEW q \in Question, NEW g \in Sums(qs)
  PROVE  \E h \in Sums(Append(qs, q)) : h[Len(qs) + 1] = g[Len(qs)] + Retries(q)
<1> DEFINE n == Len(qs)
           long == Append(qs, q)
           h == [i \in 0..(n + 1) |-> IF i <= n THEN g[i] ELSE g[n] + Retries(q)]
<1>1. /\ n \in Nat /\ Len(long) = n + 1 /\ long[n + 1] = q
      /\ \A i \in 1..n : long[i] = qs[i]
  BY AppendProperties
<1>2. /\ g \in [0..n -> Nat] /\ g[0] = 0
      /\ \A i \in 1..n : g[i] = g[i - 1] + Retries(qs[i])
  BY DEF Sums
<1>r. Retries(q) \in Nat  BY RetriesNat
<1> HIDE DEF long, n
<1>3. h \in [0..(n + 1) -> Nat]
  BY <1>1, <1>2, <1>r
<1>4. h[0] = 0 /\ h[n + 1] = g[n] + Retries(q) /\ \A i \in 0..n : h[i] = g[i]
  BY <1>1, <1>2
<1> HIDE DEF h
<1>5. \A i \in 1..(n + 1) : h[i] = h[i - 1] + Retries(long[i])
  <2> SUFFICES ASSUME NEW i \in 1..(n + 1) PROVE h[i] = h[i - 1] + Retries(long[i])
    OBVIOUS
  <2>1. CASE i = n + 1
    <3>1. i - 1 = n /\ n \in 0..n  BY <1>1, <2>1
    <3> QED BY <1>1, <1>4, <2>1, <3>1
  <2>2. CASE i # n + 1
    <3>1. i \in 1..n /\ i \in 0..n /\ i - 1 \in 0..n  BY <1>1, <2>2
    <3>2. h[i] = g[i] /\ h[i - 1] = g[i - 1] /\ long[i] = qs[i]  BY <1>1, <1>4, <3>1
    <3> QED BY <1>2, <3>1, <3>2
  <2> QED BY <2>1, <2>2
<1>6. h \in Sums(long)
  BY <1>1, <1>3, <1>4, <1>5 DEF Sums
<1> QED BY <1>4, <1>6 DEF long, n

(* Every list of questions has running sums: induction on its length. *)
LEMMA SumsExist ==
  ASSUME NEW qs \in Seq(Question)
  PROVE  \E g : g \in Sums(qs)
<1> DEFINE Summed(n) == \A ss \in Seq(Question) : Len(ss) = n => \E g : g \in Sums(ss)
           T == {n \in Nat : Summed(n)}
<1>1. Summed(0)
  <2> SUFFICES ASSUME NEW ss \in Seq(Question), Len(ss) = 0
               PROVE  \E g : g \in Sums(ss)
    OBVIOUS
  <2> DEFINE g == [i \in 0..0 |-> 0]
  <2>1. g \in [0..0 -> Nat] /\ g[0] = 0  OBVIOUS
  <2> HIDE DEF g
  <2>2. \A i \in 1..0 : FALSE OBVIOUS
  <2>3. g \in Sums(ss) BY <2>1, <2>2 DEF Sums
  <2> QED BY <2>3
<1>2. ASSUME NEW n \in Nat, Summed(n) PROVE Summed(n + 1)
  <2> SUFFICES ASSUME NEW ss \in Seq(Question), Len(ss) = n + 1
               PROVE  \E g : g \in Sums(ss)
    OBVIOUS
  <2>1. PICK f \in Seq(Question), l \in Question : ss = Append(f, l) /\ Len(f) = n
    <3>1. ss # <<>>  BY EmptySeq
    <3>2. PICK f \in Seq(Question), l \in Question : ss = Append(f, l)
      BY <3>1, SequenceEmptyOrAppend
    <3>3. Len(ss) = Len(f) + 1 /\ Len(f) \in Nat  BY <3>2, AppendProperties
    <3> QED BY <3>2, <3>3
  <2>2. PICK g : g \in Sums(f)  BY <1>2, <2>1
  <2> QED BY <2>1, <2>2, SumsAppend
<1>3. \A n \in T : n + 1 \in T
  <2> HIDE DEF Summed
  <2> QED BY <1>2
<1>4. T = Nat
  <2> HIDE DEF Summed
  <2>1. T \in SUBSET Nat /\ 0 \in T  BY <1>1
  <2> HIDE DEF T
  <2> QED BY <1>3, <2>1, AllNaturals
<1>5. Summed(Len(qs))
  <2> HIDE DEF Summed
  <2>1. Len(qs) \in T BY <1>4
  <2> QED BY <2>1
<1> QED BY <1>5

(* No question, no call. *)
LEMMA SumEmpty == SumRetries(<<>>) = 0
<1> DEFINE g == [i \in 0..0 |-> 0]
<1>1. g \in [0..0 -> Nat] /\ g[0] = 0  OBVIOUS
<1>2. <<>> \in Seq(Question) /\ Len(<<>>) = 0  BY EmptySeq
<1> HIDE DEF g
<1>3. \A i \in 1..0 : FALSE  OBVIOUS
<1>4. g \in Sums(<<>>)  BY <1>1, <1>2, <1>3 DEF Sums
<1> QED BY <1>1, <1>2, <1>4, SumIs

(* One more question adds its calls. *)
LEMMA SumAppend ==
  ASSUME NEW qs \in Seq(Question), NEW q \in Question
  PROVE  /\ SumRetries(qs) \in Nat
         /\ SumRetries(Append(qs, q)) = SumRetries(qs) + Retries(q)
<1>1. PICK g : g \in Sums(qs)  BY SumsExist
<1>2. PICK h \in Sums(Append(qs, q)) : h[Len(qs) + 1] = g[Len(qs)] + Retries(q)
  BY <1>1, SumsAppend
<1>3. Append(qs, q) \in Seq(Question) /\ Len(Append(qs, q)) = Len(qs) + 1 /\ Len(qs) \in Nat
  BY AppendProperties
<1>4. SumRetries(qs) = g[Len(qs)] /\ g[Len(qs)] \in Nat
  <2>1. g \in [0..Len(qs) -> Nat]  BY <1>1 DEF Sums
  <2>2. Len(qs) \in 0..Len(qs)  BY <1>3
  <2> QED BY <1>1, <2>1, <2>2, SumIs
<1>5. SumRetries(Append(qs, q)) = h[Len(qs) + 1]  BY <1>2, <1>3, SumIs
<1> QED BY <1>2, <1>4, <1>5

(* Which socket asked does not matter for how many calls are left. *)
LEMMA SumSame ==
  ASSUME NEW qs \in Seq(Question), NEW rs \in Seq(Question), Len(qs) = Len(rs),
         \A i \in 1..Len(qs) : qs[i].kind = rs[i].kind /\ qs[i].left = rs[i].left
  PROVE  SumRetries(qs) = SumRetries(rs)
<1>1. PICK g : g \in Sums(qs)  BY SumsExist
<1>2. \A i \in 1..Len(qs) : Retries(qs[i]) = Retries(rs[i])  BY DEF Retries
<1>3. g \in Sums(rs)  BY <1>1, <1>2 DEF Sums
<1> QED BY <1>1, <1>3, SumIs

(* Powers of two, from the number of the subsets of 1..n: those of         *)
(* 1..(n + 1) are the ones without n + 1 and as many with it.              *)
LEMMA PowerOfTwo ==
  /\ 2 ^ 0 = 1
  /\ \A n \in Nat : 2 ^ n \in Nat /\ 2 ^ (n + 1) = 2 ^ n + 2 ^ n
<1>1. 2 ^ 0 = 1
  <2>1. IsFiniteSet({}) /\ Cardinality({}) = 0  BY FS_EmptySet
  <2>2. SUBSET {} = {{}}  OBVIOUS
  <2>3. Cardinality({{}}) = 1  BY FS_Singleton
  <2>4. Cardinality(SUBSET {}) = 2 ^ Cardinality({})  BY <2>1, FS_SUBSET
  <2> QED BY <2>1, <2>2, <2>3, <2>4
<1>2. ASSUME NEW n \in Nat PROVE 2 ^ n \in Nat /\ 2 ^ (n + 1) = 2 ^ n + 2 ^ n
  <2> DEFINE S == 1..n
             U == 1..(n + 1)
             New == {t \cup {n + 1} : t \in SUBSET S}
             f == [t \in SUBSET S |-> t \cup {n + 1}]
  <2>1. /\ IsFiniteSet(S) /\ Cardinality(S) = n
        /\ IsFiniteSet(U) /\ Cardinality(U) = n + 1
    BY FS_Interval
  <2>2. n + 1 \notin S /\ U = S \cup {n + 1}  OBVIOUS
  <2> HIDE DEF S, U
  <2>3. /\ IsFiniteSet(SUBSET S) /\ Cardinality(SUBSET S) = 2 ^ n
        /\ IsFiniteSet(SUBSET U) /\ Cardinality(SUBSET U) = 2 ^ (n + 1)
    BY <2>1, FS_SUBSET
  <2>4. SUBSET U = (SUBSET S) \cup New
    <3>1. ASSUME NEW t \in SUBSET U, n + 1 \in t PROVE t \in New
      <4>1. t = (t \ {n + 1}) \cup {n + 1} /\ t \ {n + 1} \in SUBSET S  BY <2>2, <3>1
      <4> QED BY <4>1
    <3>2. ASSUME NEW t \in SUBSET U, n + 1 \notin t PROVE t \in SUBSET S  BY <2>2, <3>2
    <3>3. (SUBSET S) \cup New \subseteq SUBSET U  BY <2>2
    <3> HIDE DEF New
    <3> QED BY <3>1, <3>2, <3>3
  <2>5. (SUBSET S) \cap New = {}  BY <2>2
  <2>6. ExistsBijection(SUBSET S, New)
    <3>1. f \in [SUBSET S -> New]  OBVIOUS
    <3>2. \A t, u \in SUBSET S : f[t] = f[u] => t = u
      <4> SUFFICES ASSUME NEW t \in SUBSET S, NEW u \in SUBSET S, f[t] = f[u] PROVE t = u
        OBVIOUS
      <4>1. t = f[t] \ {n + 1} /\ u = f[u] \ {n + 1}  BY <2>2
      <4> QED BY <4>1
    <3>3. \A v \in New : \E t \in SUBSET S : f[t] = v  OBVIOUS
    <3> HIDE DEF f, New
    <3> QED BY <3>1, <3>2, <3>3 DEF ExistsBijection, Bijection, Injection, Surjection, IsInjective
  <2> HIDE DEF New
  <2>7. IsFiniteSet(New) /\ Cardinality(New) = 2 ^ n  BY <2>3, <2>6, FS_Bijection
  <2>8. Cardinality(SUBSET U) = 2 ^ n + 2 ^ n - Cardinality({})
    BY <2>3, <2>4, <2>5, <2>7, FS_Union
  <2>9. 2 ^ n \in Nat /\ Cardinality({}) = 0  BY <2>3, FS_CardinalityType, FS_EmptySet
  <2> QED BY <2>3, <2>8, <2>9
<1> QED BY <1>1, <1>2

(* The questions are those around the innermost, and it. *)
LEMMA InnermostIsLast ==
  ASSUME TypeOK, questions # <<>>
  PROVE  \E rest \in Seq(Question) :
           /\ questions = Append(rest, Innermost)
           /\ Answered = IF Innermost.left = 1 THEN rest
                         ELSE Append(rest, [Innermost EXCEPT !.left = @ - 1])
<1>1. questions \in Seq(Question) /\ Innermost \in Question
  BY InnermostIsOne DEF TypeOK
<1>2. PICK rest \in Seq(Question), q \in Question : questions = Append(rest, q)
  BY <1>1, SequenceEmptyOrAppend
<1>3. /\ Len(rest) \in Nat /\ Len(questions) = Len(rest) + 1
      /\ questions[Len(rest) + 1] = q
      /\ \A i \in 1..Len(rest) : questions[i] = rest[i]
  BY <1>2, AppendProperties
<1>4. Innermost = q  BY <1>3 DEF Innermost
<1>5. SubSeq(questions, 1, Len(questions) - 1) = rest
  <2> DEFINE n == Len(questions) - 1
             sub == SubSeq(questions, 1, n)
  <2>1. n = Len(rest) /\ \A i \in 1..n : questions[i] \in Question
    BY <1>1, <1>3, ElementOfSeq
  <2>2. /\ sub \in Seq(Question)
        /\ Len(sub) = IF 1 <= n THEN n - 1 + 1 ELSE 0
        /\ \A i \in 1..(n - 1 + 1) : sub[i] = questions[1 + i - 1]
    BY <1>1, <1>3, <2>1, SubSeqProperties
  <2> HIDE DEF n, sub
  <2>3. Len(sub) = Len(rest)  BY <1>3, <2>1, <2>2
  <2>4. \A i \in 1..Len(sub) : sub[i] = rest[i]
    <3>1. \A i \in 1..n : i \in 1..(n - 1 + 1) /\ 1 + i - 1 = i  BY <1>3, <2>1
    <3> QED BY <1>3, <2>1, <2>2, <2>3, <3>1
  <2>5. sub = rest  BY <2>2, <2>3, <2>4, SeqEqual
  <2> QED BY <2>5 DEF n, sub
<1> QED BY <1>2, <1>4, <1>5 DEF Answered

(* An answer uses up one of the calls, if the question is a retry one. *)
LEMMA AnsweredOneLess ==
  ASSUME TypeOK, questions # <<>>
  PROVE  /\ Pending \in Nat
         /\ Innermost.kind = "Retry" => SumRetries(Answered) = Pending - 1
         /\ Innermost.kind # "Retry" => SumRetries(Answered) = Pending
<1>1. PICK rest \in Seq(Question) :
        /\ questions = Append(rest, Innermost)
        /\ Answered = IF Innermost.left = 1 THEN rest
                      ELSE Append(rest, [Innermost EXCEPT !.left = @ - 1])
  BY InnermostIsLast
<1> DEFINE less == [Innermost EXCEPT !.left = @ - 1]
<1>2. Innermost \in Question  BY InnermostIsOne
<1>3. /\ SumRetries(rest) \in Nat /\ Retries(Innermost) \in Nat
      /\ Pending = SumRetries(rest) + Retries(Innermost)
  BY <1>1, <1>2, SumAppend, RetriesNat DEF Pending
<1>4. CASE Innermost.left = 1
  <2>1. /\ Answered = rest
        /\ Innermost.kind = "Retry" => Retries(Innermost) = 1
        /\ Innermost.kind # "Retry" => Retries(Innermost) = 0
    BY <1>1, <1>4 DEF Retries
  <2> QED BY <1>3, <2>1
<1>5. CASE Innermost.left # 1
  <2>q. \A q \in Question : q.left # 1 =>
          /\ [q EXCEPT !.left = @ - 1] \in Question
          /\ [q EXCEPT !.left = @ - 1].kind = q.kind
          /\ [q EXCEPT !.left = @ - 1].left = q.left - 1
          /\ q.left \in Nat
    BY DEF Question
  <2>1. /\ less \in Question /\ less.kind = Innermost.kind
        /\ less.left = Innermost.left - 1 /\ Innermost.left \in Nat
    BY <1>2, <1>5, <2>q
  <2>2. Answered = Append(rest, less)  BY <1>1, <1>5
  <2> HIDE DEF less
  <2>3. /\ Innermost.kind = "Retry" => Retries(less) = Retries(Innermost) - 1
        /\ Innermost.kind # "Retry" => Retries(less) = Retries(Innermost)
    BY <2>1 DEF Retries
  <2>4. SumRetries(Answered) = SumRetries(rest) + Retries(less) /\ Retries(less) \in Nat
    BY <2>1, <2>2, SumAppend, RetriesNat
  <2> QED BY <1>3, <2>3, <2>4
<1> QED BY <1>3, <1>4, <1>5

(* An error adds one call for every connection of LokiSocket's signals, or *)
(* none.                                                                   *)
LEMMA ErrorAddsOuter ==
  ASSUME TypeOK, OnSocketError
  PROVE  Pending \in Nat /\ (Pending' = Pending + outer \/ Pending' = Pending)
<1>1. /\ questions \in Seq(Question) /\ Dead \in Seq(Question)
      /\ Ask("Retry") \in Question /\ Retries(Ask("Retry")) = outer
  BY DeadQuestions, AskIsQuestion DEF TypeOK, Ask, Retries
<1>2. SumRetries(Dead) = SumRetries(questions)  BY <1>1, DeadQuestions, SumSame
<1>3. /\ SumRetries(Dead) \in Nat
      /\ SumRetries(Append(Dead, Ask("Retry"))) = SumRetries(Dead) + outer
  BY <1>1, SumAppend
<1>4. \/ questions' = Append(Dead, Ask("Retry"))
      \/ questions' = Dead
      \/ questions' = questions
  BY ErrorQuestions
<1> QED BY <1>2, <1>3, <1>4 DEF Pending

(* Twice a bound bounds the double, and its square. *)
LEMMA Squares ==
  ASSUME NEW p \in Nat
  PROVE  /\ p * p \in Nat
         /\ \A m, n \in Nat : m <= n /\ n <= p => m * n <= p * p
<1>1. p * p \in Nat  OBVIOUS
<1>2. ASSUME NEW m \in Nat, NEW n \in Nat, m <= n, n <= p PROVE m * n <= p * p
  <2>1. m * n <= n * n  BY <1>2
  <2>2. n * n <= p * n  BY <1>2
  <2>3. p * n <= p * p  BY <1>2
  <2>4. m * n \in Nat /\ n * n \in Nat /\ p * n \in Nat  OBVIOUS
  <2> QED BY <1>1, <2>1, <2>2, <2>3, <2>4
<1> QED BY <1>1, <1>2

(* The bound, and what it needs: LokiSocket's signals are connected at     *)
(* least as often as the QTcpSocket's, which are new with it, and the      *)
(* logins that are on their way are those of one connection.               *)
Doubling ==
  /\ AtMostDoubled
  /\ inner <= outer
  /\ socket # "connected" => logins = 0

(* A power of two, the calls below it, and the questions of an application,*)
(* which ask for no Init.                                                  *)
LEMMA Powers ==
  ASSUME TypeOK, Doubling
  PROVE  /\ outer \in Nat \ {0} /\ inner \in Nat /\ logins \in Nat /\ failures \in Nat
         /\ 2 ^ failures \in Nat /\ 2 ^ (failures + 1) \in Nat
         /\ 2 ^ (failures + 1) = 2 ^ failures + 2 ^ failures
         /\ Pending \in Nat /\ outer + Pending <= 2 ^ failures
         /\ logins <= (2 ^ failures) * (2 ^ failures)
<1>1. questions \in Seq(Question) /\ Ask("Retry") \in Question
  BY AskIsQuestion DEF TypeOK
<1>2. Pending \in Nat  BY <1>1, SumAppend DEF Pending
<1> QED BY <1>2, PowerOfTwo DEF TypeOK, Doubling, AtMostDoubled

(* What keeps the calls made and to come below the power keeps the bound. *)
LEMMA Bounded ==
  ASSUME TypeOK, Doubling, [Next]_vars
  PROVE  Doubling'
<1> DEFINE p == 2 ^ failures
<1>1. /\ outer \in Nat \ {0} /\ inner \in Nat /\ logins \in Nat /\ failures \in Nat
      /\ p \in Nat /\ Pending \in Nat /\ outer + Pending <= p
      /\ logins <= p * p /\ inner <= outer /\ p * p \in Nat
  <2>1. /\ outer \in Nat \ {0} /\ inner \in Nat /\ logins \in Nat /\ failures \in Nat
        /\ p \in Nat /\ Pending \in Nat /\ outer + Pending <= p
        /\ logins <= p * p /\ inner <= outer
    BY Powers DEF Doubling
  <2>2. p * p \in Nat
    <3> HIDE DEF p
    <3> QED BY <2>1, Squares
  <2> QED BY <2>1, <2>2
<1>2. ASSUME UNCHANGED failures, outer' \in Nat, Pending' \in Nat, outer' + Pending' <= p,
             logins' <= p * p, inner' <= outer', socket' # "connected" => logins' = 0
      PROVE  Doubling'
  BY <1>2 DEF Doubling, AtMostDoubled
<1>3. ASSUME UNCHANGED <<outer, inner, questions, failures>>, logins' <= p * p,
             socket' # "connected" => logins' = 0
      PROVE  Doubling'
  <2>1. Pending' = Pending  BY <1>3 DEF Pending
  <2> HIDE DEF p
  <2> QED BY <1>1, <1>2, <1>3, <2>1
<1>4. CASE OnConnected
  <2>1. /\ logins = 0 /\ logins' = logins + inner * outer /\ socket' = "connected"
        /\ UNCHANGED <<outer, inner, questions, failures>>
    BY <1>4 DEF OnConnected, Doubling
  <2>2. inner * outer <= p * p /\ inner * outer \in Nat
    <3>1. outer <= p
      <4> HIDE DEF p
      <4> QED BY <1>1
    <3> HIDE DEF p
    <3> QED BY <1>1, <3>1, Squares
  <2>3. logins' <= p * p
    <3> HIDE DEF p
    <3> QED BY <2>1, <2>2
  <2> QED BY <1>3, <2>1, <2>3
<1>5. CASE HandleLogin
  <2>1. /\ logins' = logins - 1 /\ logins > 0
        /\ UNCHANGED <<outer, inner, questions, failures, socket>>
    BY <1>5 DEF HandleLogin
  <2>2. logins' <= p * p
    <3> HIDE DEF p
    <3> QED BY <1>1, <2>1
  <2>3. socket # "connected" => logins = 0  BY DEF Doubling
  <2> QED BY <1>3, <2>1, <2>2, <2>3
<1>6. CASE RelayApply \/ UNCHANGED vars
  BY <1>1, <1>3, <1>6 DEF RelayApply, vars, network, Doubling
<1>7. CASE OnDataRead
  <2>0. UNCHANGED <<outer, inner, failures, socket, logins>>
    BY <1>7 DEF OnDataRead
  <2>1. CASE Head(toClient) = "Apply"
    <3>1. questions' = Append(questions, Ask("Apply"))
      BY <1>7, <2>1 DEF OnDataRead
    <3>2. questions \in Seq(Question) /\ Ask("Apply") \in Question
      BY AskIsQuestion DEF TypeOK
    <3>3. Retries(Ask("Apply")) = 0  BY DEF Ask, Retries
    <3>4. SumRetries(questions') = SumRetries(questions) + 0
      BY <3>1, <3>2, <3>3, SumAppend
    <3>5. Pending' = Pending  BY <1>1, <3>4 DEF Pending
    <3> QED BY <1>1, <1>2, <2>0, <3>5 DEF Doubling
  <2>2. CASE Head(toClient) # "Apply"
    BY <1>1, <1>3, <1>7, <2>0, <2>2 DEF OnDataRead, Doubling
  <2> QED BY <2>1, <2>2
<1>8. CASE Fail
  <2>1. /\ failures' = failures + 1 /\ UNCHANGED outer /\ logins' = 0
        /\ inner' = 0 \/ inner' = inner
    BY <1>8 DEF Fail, OnSocketError, Forget, OnDisconnected, Keep
  <2>2. Pending' = Pending + outer \/ Pending' = Pending
    BY <1>8, ErrorAddsOuter DEF Fail
  <2>3. 2 ^ (failures + 1) = p + p  BY <1>1, PowerOfTwo
  <2>4. outer' + Pending' <= p + p /\ inner' <= outer' /\ 0 <= (p + p) * (p + p)
    <3> HIDE DEF p
    <3>1. p + p \in Nat  BY <1>1
    <3>2. (p + p) * (p + p) \in Nat  BY <3>1, Squares
    <3> QED BY <1>1, <2>1, <2>2, <3>2
  <2>5. outer' + Pending' <= 2 ^ failures' /\ logins' <= (2 ^ failures') * (2 ^ failures')
    <3>1. 2 ^ failures' = p + p  BY <2>1, <2>3
    <3> HIDE DEF p
    <3> QED BY <2>1, <2>4, <3>1
  <2> QED BY <2>1, <2>4, <2>5 DEF Doubling, AtMostDoubled
<1>9. ASSUME NEW again \in BOOLEAN, AnswerRetry(again) PROVE Doubling'
  <2>1. /\ questions # <<>> /\ Innermost.kind = "Retry" /\ questions' = Answered
        /\ UNCHANGED <<failures, logins>>
        /\ \/ outer' = outer + 1 /\ inner' = inner + 1
           \/ outer' = outer /\ inner' \in {0, inner}
        /\ socket' = "connected" <=> socket = "connected"
    BY <1>9 DEF AnswerRetry, ReInit, network
  <2>2. Pending' = Pending - 1  BY <2>1, AnsweredOneLess DEF Pending
  <2>3. Pending' \in Nat
    <3>1. SumRetries(Answered) \in Nat
      <4>1. Answered \in Seq(Question) /\ Ask("Retry") \in Question
        BY <2>1, AnsweredIsQuestions, AskIsQuestion
      <4> QED BY <4>1, SumAppend
    <3> QED BY <2>1, <3>1 DEF Pending
  <2>4. outer' + Pending' <= p /\ inner' <= outer' /\ logins' <= p * p /\ outer' \in Nat
    <3> HIDE DEF p
    <3> QED BY <1>1, <2>1, <2>2
  <2>5. socket' # "connected" => logins' = 0  BY <2>1 DEF Doubling
  <2> QED BY <1>2, <2>1, <2>3, <2>4, <2>5
<1>10. CASE AnswerApply
  <2>1. /\ questions # <<>> /\ Innermost.kind # "Retry" /\ questions' = Answered
        /\ UNCHANGED <<outer, inner, failures, socket, logins>>
    BY <1>10 DEF AnswerApply, network
  <2>2. Pending' = Pending  BY <2>1, AnsweredOneLess DEF Pending
  <2> QED BY <1>1, <1>2, <2>1, <2>2 DEF Doubling
<1> QED BY <1>4, <1>5, <1>6, <1>7, <1>8, <1>9, <1>10 DEF Next

(* After n failures LokiClient handles a command at most 2^n times, and so *)
(* it stays when every open question is answered "retry": the connections  *)
(* Init has made and those its questions may still make are together at    *)
(* most doubled by an error.  The logins of a connection are at most the   *)
(* square of that.                                                         *)
THEOREM AtMostDoubledHolds == Spec => []AtMostDoubled
<1>1. Init => Doubling
  <2> SUFFICES ASSUME Init PROVE Doubling
    OBVIOUS
  <2>1. /\ outer = 1 /\ inner = 1 /\ failures = 0 /\ logins = 0 /\ Pending = 0
    BY SumEmpty DEF Init, Pending
  <2>2. 2 ^ failures = 1  BY <2>1, PowerOfTwo
  <2> QED BY <2>1, <2>2 DEF Doubling, AtMostDoubled
<1>2. TypeOK /\ Doubling /\ [Next]_vars => Doubling'
  BY Bounded
<1>3. Doubling => AtMostDoubled  BY DEF Doubling
<1> QED BY <1>1, <1>2, <1>3, ReconnectTypeCorrect, PTL DEF Spec
=============================================================================
