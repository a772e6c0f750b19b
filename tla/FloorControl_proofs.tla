------------------------- MODULE FloorControl_proofs -------------------------
(***************************************************************************)
(* Theorems about FloorControl, for any number of clients, any commands in *)
(* flight and any interleaving.                                            *)
(***************************************************************************)
EXTENDS FloorControl, SequenceTheorems, TLAPS

-----------------------------------------------------------------------------
Has(q, A) == \E i \in DOMAIN q : q[i] \in A

Followed(q, A, B) ==
  \A i \in DOMAIN q : q[i] \in A => \E j \in DOMAIN q : i < j /\ q[j] \in B

Starts(q, m, A) == q # <<>> /\ Head(q) = m /\ ~Has(Tail(q), A)

(* What Append and Tail are, element by element. *)
LEMMA AppendElements ==
  ASSUME NEW S, NEW q \in Seq(S), NEW m \in S
  PROVE  /\ Append(q, m) \in Seq(S)
         /\ DOMAIN Append(q, m) = 1 .. Len(q) + 1
         /\ DOMAIN q = 1 .. Len(q)
         /\ Len(q) \in Nat
         /\ \A i \in 1 .. Len(q) : Append(q, m)[i] = q[i]
         /\ Append(q, m)[Len(q) + 1] = m
  OBVIOUS

(* Taking the first element of a queue. *)
LEMMA TailElements ==
  ASSUME NEW S, NEW q \in Seq(S), q # <<>>
  PROVE  /\ Tail(q) \in Seq(S)
         /\ Head(q) = q[1]
         /\ Head(q) \in S
         /\ Len(q) \in Nat \ {0}
         /\ DOMAIN q = 1 .. Len(q)
         /\ DOMAIN Tail(q) = 1 .. Len(q) - 1
         /\ \A i \in 1 .. Len(q) - 1 : Tail(q)[i] = q[i + 1]
  OBVIOUS

(* An empty queue has nothing, and nothing in it lacks a follower. *)
LEMMA EmptyQueue ==
  ASSUME NEW A, NEW B
  PROVE  ~Has(<<>>, A) /\ Followed(<<>>, A, B)
  BY DEF Has, Followed

(* The one element of a queue is all it has. *)
LEMMA HasSingle ==
  ASSUME NEW m, NEW A, m \notin A
  PROVE  ~Has(<<m>>, A)
<1>1. DOMAIN <<m>> = {1} /\ <<m>>[1] = m  OBVIOUS
<1> QED BY <1>1 DEF Has

(* What joins a queue is in it, with all that was there. *)
LEMMA HasAppend ==
  ASSUME NEW S, NEW q \in Seq(S), NEW m \in S, NEW A
  PROVE  Has(Append(q, m), A) <=> Has(q, A) \/ m \in A
  BY AppendElements DEF Has

(* What leaves a queue was its head. *)
LEMMA HasTail ==
  ASSUME NEW S, NEW q \in Seq(S), q # <<>>, NEW A
  PROVE  Has(q, A) <=> Head(q) \in A \/ Has(Tail(q), A)
<1>1. ASSUME Has(q, A), Head(q) \notin A PROVE Has(Tail(q), A)
  <2>1. PICK i \in 1 .. Len(q) : q[i] \in A  BY <1>1, TailElements DEF Has
  <2>2. i # 1  BY <2>1, <1>1, TailElements
  <2>3. i - 1 \in 1 .. Len(q) - 1 /\ Tail(q)[i - 1] = q[i]
    BY <2>2, TailElements
  <2> QED BY <2>1, <2>3, TailElements DEF Has
<1>2. ASSUME Has(Tail(q), A) PROVE Has(q, A)
  <2>1. PICK i \in 1 .. Len(q) - 1 : Tail(q)[i] \in A
    BY <1>2, TailElements DEF Has
  <2>2. i + 1 \in 1 .. Len(q) /\ q[i + 1] \in A  BY <2>1, TailElements
  <2> QED BY <2>2, TailElements DEF Has
<1>3. ASSUME Head(q) \in A PROVE Has(q, A)
  BY <1>3, TailElements DEF Has
<1> QED BY <1>1, <1>2, <1>3

(* A queue without elements of A is trivially followed. *)
LEMMA FollowedNone ==
  ASSUME NEW q, NEW A, NEW B, ~Has(q, A)
  PROVE  Followed(q, A, B)
  BY DEF Has, Followed

(* Joining keeps followers; an element of B follows all that was there. *)
LEMMA FollowedAppend ==
  ASSUME NEW S, NEW q \in Seq(S), NEW m \in S, NEW A, NEW B, m \notin A,
         Followed(q, A, B) \/ m \in B
  PROVE  Followed(Append(q, m), A, B)
<1>1. SUFFICES ASSUME NEW i \in 1 .. Len(q) + 1, Append(q, m)[i] \in A
               PROVE  \E j \in 1 .. Len(q) + 1 : i < j /\ Append(q, m)[j] \in B
  BY AppendElements DEF Followed
<1>2. i \in 1 .. Len(q) /\ q[i] \in A  BY <1>1, AppendElements
<1>3. CASE m \in B  BY <1>2, <1>3, AppendElements
<1>4. CASE Followed(q, A, B)
  <2>1. PICK j \in 1 .. Len(q) : i < j /\ q[j] \in B
    BY <1>2, <1>4, AppendElements DEF Followed
  <2> QED BY <2>1, AppendElements
<1> QED BY <1>3, <1>4

(* Leaving keeps followers, and the head's follower stays behind. *)
LEMMA FollowedTail ==
  ASSUME NEW S, NEW q \in Seq(S), q # <<>>, NEW A, NEW B, Followed(q, A, B)
  PROVE  /\ Followed(Tail(q), A, B)
         /\ Head(q) \in A => Has(Tail(q), B)
<1>1. ASSUME NEW i \in 1 .. Len(q), q[i] \in A
      PROVE  \E k \in 1 .. Len(q) - 1 : i - 1 < k /\ Tail(q)[k] \in B
  <2>1. PICK j \in 1 .. Len(q) : i < j /\ q[j] \in B
    BY <1>1, TailElements DEF Followed
  <2>2. j - 1 \in 1 .. Len(q) - 1 /\ i - 1 < j - 1 /\ Tail(q)[j - 1] = q[j]
    BY <2>1, TailElements
  <2> QED BY <2>1, <2>2
<1>2. Followed(Tail(q), A, B)
  <2>1. SUFFICES ASSUME NEW i \in 1 .. Len(q) - 1, Tail(q)[i] \in A
                 PROVE  \E k \in 1 .. Len(q) - 1 : i < k /\ Tail(q)[k] \in B
    BY TailElements DEF Followed
  <2>2. i + 1 \in 1 .. Len(q) /\ q[i + 1] \in A  BY <2>1, TailElements
  <2> QED BY <2>2, <1>1, TailElements
<1>3. ASSUME Head(q) \in A PROVE Has(Tail(q), B)
  <2>1. 1 \in 1 .. Len(q) /\ q[1] \in A  BY <1>3, TailElements
  <2>2. PICK k \in 1 .. Len(q) - 1 : Tail(q)[k] \in B  BY <1>1, <2>1
  <2> QED BY <2>2, TailElements DEF Has
<1> QED BY <1>2, <1>3

(* A queue of one element starts with it, and goes on so. *)
LEMMA StartsSingle ==
  ASSUME NEW m, NEW A
  PROVE  Starts(<<m>>, m, A)
  BY DEF Starts, Has

(* What is put behind the first command leaves it first. *)
LEMMA StartsAppend ==
  ASSUME NEW S, NEW q \in Seq(S), NEW m, NEW n \in S, NEW A, n \notin A,
         Starts(q, m, A)
  PROVE  Starts(Append(q, n), m, A)
<1>1. Tail(Append(q, n)) = Append(Tail(q), n) /\ Head(Append(q, n)) = Head(q)
  BY HeadTailAppend DEF Starts
<1>2. Append(q, n) # <<>> /\ Tail(q) \in Seq(S)
  BY AppendElements, TailElements DEF Starts
<1> QED BY <1>1, <1>2, HasAppend DEF Starts

-----------------------------------------------------------------------------
(* The commands.                                                           *)

(* Every command the program makes is a member of Msg. *)
LEMMA Commands ==
  /\ Login \in Msg /\ Peer \in Msg /\ Take \in Msg /\ Switch \in Msg
  /\ \A yes \in BOOLEAN : Reply(yes) \in Msg
  /\ \A u \in Users \cup {NoUser}, yes \in BOOLEAN :
       Apply(u) \in Msg /\ Agree(u, yes) \in Msg
  BY DEF Msg, Command, Login, Peer, Take, Switch, Reply, Apply, Agree

(* What joins, leaves or stays in the queues of commands. *)
Queue == [Clients -> Seq(Msg)]

(* Sending, writing and taking the head keep queues of commands. *)
LEMMA SendType ==
  ASSUME NEW c \in Clients, NEW m \in Msg, toServer \in Queue, Send(c, m)
  PROVE  toServer' \in Queue
  BY DEF Send, Queue

(* Relaying a command keeps the queues queues of commands. *)
LEMMA WriteType ==
  ASSUME NEW queues \in Queue, NEW S, NEW m \in Msg
  PROVE  Write(queues, S, m) \in Queue
  BY DEF Write, Queue

(* What the server takes from its queue is a command. *)
LEMMA HandlesType ==
  ASSUME NEW c \in Clients, NEW t, toServer \in Queue, Handles(c, t)
  PROVE  toServer' \in Queue /\ Head(toServer[c]) \in Msg
  BY TailElements DEF Handles, Queue

(* What a client takes from its queue is a command. *)
LEMMA ReceivesType ==
  ASSUME NEW c \in Clients, NEW t, toClient \in Queue, Receives(c, t)
  PROVE  toClient' \in Queue /\ Head(toClient[c]) \in Msg
  BY TailElements DEF Receives, Queue

Bar == [button : {"none", "apply", "take"}, whole : BOOLEAN, apply : BOOLEAN]

(* The title bar keeps its shape, and its button once chosen. *)
LEMMA ShowType ==
  ASSUME NEW c \in Clients, NEW w \in BOOLEAN, NEW s \in BOOLEAN,
         NEW a \in BOOLEAN, ui \in [Clients -> Bar], Show(c, w, s, a)
  PROVE  ui' \in [Clients -> Bar]
  BY DEF Show, SetEnabled, Bar

(* A button once on the bar stays. *)
LEMMA ShowButton ==
  ASSUME NEW c \in Clients, NEW w, NEW s, NEW a, TypeOK, Show(c, w, s, a)
  PROVE  ui'[c].button = IF ui[c].button # "none" THEN ui[c].button
                         ELSE IF s THEN "apply" ELSE "take"
  BY DEF Show, SetEnabled, TypeOK

-----------------------------------------------------------------------------
(* Type correctness. *)

(* The declared shape holds initially. *)
LEMMA TypeInit == Init => TypeOK
  BY ClassAssumption DEF Init, TypeOK, Blank

(* The server's handlers keep the declared shape. *)
LEMMA TypeServer ==
  ASSUME TypeOK, NEW c \in Clients, Handle(c) \/ ReadEnds(c) \/ OnClose(c)
  PROVE  TypeOK'
<1> USE ClassAssumption
<1>1. toServer \in Queue /\ toClient \in Queue  BY DEF TypeOK, Queue
<1>2. CASE HandleLogin(c)
  <2>1. toServer' \in Queue  BY <1>1, <1>2, HandlesType DEF HandleLogin
  <2>2. /\ Write(toClient, {c}, Reply(FALSE)) \in Queue
        /\ Write(Write(toClient, {c}, Reply(TRUE)), classUsers \ {c}, Peer)
             \in Queue
    BY <1>1, Commands, WriteType
  <2>3. /\ toClient' \in Queue
        /\ classUsers' \subseteq Clients
        /\ classTeacher' \in Clients \cup {NoClient}
        /\ holder' \in Users \cup {NoUser}
    <3>1. CASE /\ Relay({c}, Reply(FALSE))
               /\ UNCHANGED <<classUsers, classTeacher, holder>>
      BY <2>2, <3>1 DEF Relay, TypeOK
    <3>2. CASE /\ AddClassUser(c)
               /\ toClient' = Write(Write(toClient, {c}, Reply(TRUE)),
                                    classUsers \ {c}, Peer)
               /\ holder' = IF IsTeacher(c) THEN UserId[c] ELSE holder
      BY <2>2, <3>2 DEF AddClassUser, TypeOK
    <3> QED BY <1>2, <3>1, <3>2 DEF HandleLogin
  <2> QED BY <1>2, <2>1, <2>3 DEF HandleLogin, TypeOK, Queue, clientVars
<1>3. CASE HandleApply(c)
  <2>1. toServer' \in Queue /\ Head(toServer[c]) \in Msg
    BY <1>1, <1>3, HandlesType DEF HandleApply
  <2>2. toClient' \in Queue
    BY <1>1, <1>3, <2>1, WriteType DEF HandleApply, Relay
  <2> QED BY <1>3, <2>1, <2>2
       DEF HandleApply, TypeOK, Queue, serverVars, clientVars
<1>4. CASE HandleAgree(c)
  <2>1. toServer' \in Queue /\ Head(toServer[c]) \in Msg
    BY <1>1, <1>4, HandlesType DEF HandleAgree
  <2>2. toClient' \in Queue
    BY <1>1, <1>4, <2>1, WriteType DEF HandleAgree, Relay
  <2>3. holder' \in Users \cup {NoUser}
    BY <1>4, <2>1 DEF HandleAgree, TypeOK, Msg
  <2> QED BY <1>4, <2>1, <2>2, <2>3 DEF HandleAgree, TypeOK, Queue, clientVars
<1>5. CASE HandleTake(c)
  <2>1. toServer' \in Queue  BY <1>1, <1>5, HandlesType DEF HandleTake
  <2>2. toClient' \in Queue
    BY <1>1, <1>5, Commands, WriteType DEF HandleTake, Relay
  <2> QED BY <1>5, <2>1, <2>2 DEF HandleTake, TypeOK, Queue, clientVars
<1>6. CASE HandleBoardData(c)
  <2>1. toServer' \in Queue  BY <1>1, <1>6, HandlesType DEF HandleBoardData
  <2>2. toClient' \in Queue
    BY <1>1, <1>6, Commands, WriteType DEF HandleBoardData, Relay
  <2> QED BY <1>6, <2>1, <2>2
       DEF HandleBoardData, TypeOK, Queue, serverVars, clientVars
<1>7. CASE ReadEnds(c)
  BY <1>7 DEF ReadEnds, TypeOK, clientVars
<1>8. CASE OnClose(c)
  BY <1>8 DEF OnClose, RemoveUser, TypeOK, netVars, clientVars
<1> QED BY <1>2, <1>3, <1>4, <1>5, <1>6, <1>7, <1>8 DEF Handle

(* The clients' handlers keep the declared shape. *)
LEMMA TypeReceive ==
  ASSUME TypeOK, NEW c \in Clients, Receive(c)
  PROVE  TypeOK'
<1>1. toServer \in Queue /\ toClient \in Queue /\ ui \in [Clients -> Bar]
  BY DEF TypeOK, Queue, Bar
<1>2. CASE OnBoardLogin(c)
  <2>1. toClient' \in Queue  BY <1>1, <1>2, ReceivesType DEF OnBoardLogin
  <2>2. ui' \in [Clients -> Bar]  BY <1>1, <1>2, ShowType DEF OnBoardLogin
  <2>3. controling' \in [Clients -> BOOLEAN]
    BY <1>2 DEF OnBoardLogin, SetEnableCurrentPage, TypeOK
  <2> QED BY <1>2, <2>1, <2>2, <2>3
       DEF OnBoardLogin, TypeOK, Queue, Bar, serverVars
<1>3. CASE OnPeerLogin(c)
  <2>1. toClient' \in Queue  BY <1>1, <1>3, ReceivesType DEF OnPeerLogin
  <2>2. toServer' \in Queue
    BY <1>1, <1>3, Commands, SendType DEF OnPeerLogin
  <2> QED BY <1>3, <2>1, <2>2
       DEF OnPeerLogin, TypeOK, Queue, serverVars, clientVars
<1>4. CASE OnStudentApplyBoard(c)
  <2>1. toClient' \in Queue /\ Head(toClient[c]) \in Msg
    BY <1>1, <1>4, ReceivesType DEF OnStudentApplyBoard
  <2>2. asking' \in [Clients -> Users \cup {NoUser}]
    BY <1>4, <2>1 DEF OnStudentApplyBoard, TypeOK, Msg
  <2> QED BY <1>4, <2>1, <2>2 DEF OnStudentApplyBoard, TypeOK, Queue, serverVars
<1>5. CASE OnTeacherAgreeBoard(c)
  <2>1. toClient' \in Queue  BY <1>1, <1>5, ReceivesType DEF OnTeacherAgreeBoard
  <2>2. ui' \in [Clients -> Bar]
    BY <1>1, <1>5, ShowType DEF OnTeacherAgreeBoard
  <2>3. controling' \in [Clients -> BOOLEAN]
    BY <1>5 DEF OnTeacherAgreeBoard, SetEnableCurrentPage, TypeOK
  <2> QED BY <1>5, <2>1, <2>2, <2>3
       DEF OnTeacherAgreeBoard, TypeOK, Queue, Bar, serverVars
<1>6. CASE OnTeacherTakeBoard(c)
  <2>1. toClient' \in Queue  BY <1>1, <1>6, ReceivesType DEF OnTeacherTakeBoard
  <2>2. ui' \in [Clients -> Bar]
    BY <1>1, <1>6, ShowType DEF OnTeacherTakeBoard, IsDemo, IsTeacher
  <2>3. controling' \in [Clients -> BOOLEAN]
    BY <1>6 DEF OnTeacherTakeBoard, SetEnableCurrentPage, TypeOK
  <2> QED BY <1>6, <2>1, <2>2, <2>3
       DEF OnTeacherTakeBoard, TypeOK, Queue, Bar, serverVars
<1>7. CASE PlayNetworkSwitchPage(c)
  <2>1. toClient' \in Queue
    BY <1>1, <1>7, ReceivesType DEF PlayNetworkSwitchPage
  <2> QED BY <1>7, <2>1
       DEF PlayNetworkSwitchPage, SetEnableCurrentPage, TypeOK, Queue, serverVars
<1> QED BY <1>2, <1>3, <1>4, <1>5, <1>6, <1>7 DEF Receive

(* What users do keeps the declared shape. *)
LEMMA TypeInput ==
  ASSUME TypeOK, NEW c \in Clients, Input(c)
  PROVE  TypeOK'
<1> USE ClassAssumption
<1>1. toServer \in Queue /\ toClient \in Queue /\ ui \in [Clients -> Bar]
  BY DEF TypeOK, Queue, Bar
<1>2. CASE Connect(c)
  <2>1. toServer' \in Queue  BY <1>1, <1>2, Commands, SendType DEF Connect
  <2> QED BY <1>2, <2>1 DEF Connect, TypeOK, Queue
<1>3. CASE OnApplyBoard(c)
  <2>1. toServer' \in Queue  BY <1>1, <1>3, Commands, SendType DEF OnApplyBoard
  <2> QED BY <1>3, <2>1 DEF OnApplyBoard, TypeOK, Queue, serverVars, clientVars
<1>4. CASE OnTakeBoard(c)
  <2>1. toServer' \in Queue  BY <1>1, <1>4, Commands, SendType DEF OnTakeBoard
  <2>2. ui' \in [Clients -> Bar]  BY <1>1, <1>4, ShowType DEF OnTakeBoard
  <2> QED BY <1>4, <2>1, <2>2
       DEF OnTakeBoard, SetEnableCurrentPage, TypeOK, Queue, Bar, serverVars
<1>5. CASE SwitchPage(c)
  <2>1. toServer' \in Queue  BY <1>1, <1>5, Commands, SendType DEF SwitchPage
  <2> QED BY <1>5, <2>1 DEF SwitchPage, TypeOK, Queue, serverVars, clientVars
<1>6. ASSUME NEW yes \in BOOLEAN, AnswerApply(c, yes) PROVE TypeOK'
  <2>1. toServer' \in Queue
    BY <1>1, <1>6, Commands, SendType DEF AnswerApply, TypeOK
  <2>2. ui' \in [Clients -> Bar]  BY <1>1, <1>6, ShowType DEF AnswerApply
  <2>3. controling' \in [Clients -> BOOLEAN]
    BY <1>6 DEF AnswerApply, SetEnableCurrentPage, TypeOK
  <2> QED BY <1>6, <2>1, <2>2, <2>3 DEF AnswerApply, TypeOK, Queue, Bar, serverVars
<1>7. CASE Leave(c)
  BY <1>7 DEF Leave, Blank, TypeOK, serverVars
<1>8. ASSUME NEW d \in Clients, ShowNetworkRetry(c, d) PROVE TypeOK'
  <2>1. toServer' \in Queue
    <3>1. <<Login, Login>> \in Seq(Msg)  BY Commands
    <3> QED BY <1>1, <1>8, <3>1 DEF ShowNetworkRetry, Queue
  <2>2. ui' \in [Clients -> Bar]
    BY <1>1, <1>8 DEF ShowNetworkRetry, Blank, Bar
  <2>3. /\ app' \in [Clients -> {"off", "on", "again", "gone"}]
        /\ conn' \in [Clients -> {"none", "open", "closing", "closed"}]
        /\ toClient' \in [Clients -> Seq(Msg)]
        /\ joined' \in [Clients -> BOOLEAN] /\ controling' \in [Clients -> BOOLEAN]
    <3>1. /\ app' \in [Clients -> {"off", "on", "again", "gone"}]
          /\ conn' \in [Clients -> {"none", "open", "closing", "closed"}]
      BY <1>8 DEF ShowNetworkRetry, TypeOK
    <3>2. <<>> \in Seq(Msg)  OBVIOUS
    <3>3. toClient' \in [Clients -> Seq(Msg)]
      BY <1>8, <3>2 DEF ShowNetworkRetry, TypeOK
    <3>4. joined' \in [Clients -> BOOLEAN] /\ controling' \in [Clients -> BOOLEAN]
      BY <1>8 DEF ShowNetworkRetry, TypeOK
    <3> QED BY <3>1, <3>3, <3>4
  <2> QED BY <1>8, <2>1, <2>2, <2>3 DEF ShowNetworkRetry, TypeOK, Queue, Bar
<1> QED BY <1>2, <1>3, <1>4, <1>5, <1>6, <1>7, <1>8 DEF Input

(* Every state of a class has the declared shape, with any users, any      *)
(* number of connections and any commands in flight.                       *)
THEOREM TypeCorrect == Spec => []TypeOK
<1>1. TypeOK /\ [Next]_vars => TypeOK'
  <2> SUFFICES ASSUME TypeOK, [Next]_vars PROVE TypeOK'
    OBVIOUS
  <2>1. CASE UNCHANGED vars
    BY <2>1 DEF TypeOK, vars, serverVars, netVars, clientVars
  <2>2. CASE Next
    BY <2>2, TypeServer, TypeReceive, TypeInput DEF Next
  <2> QED BY <2>1, <2>2
<1> QED BY <1>1, TypeInit, PTL DEF Spec

-----------------------------------------------------------------------------
(* Sessions: how a client's connection, login and membership go together.  *)

OfType(t) == {m \in Msg : m.type = t}
LoggingIn(c) == Has(toServer[c], OfType("Login"))

(* What a process has been sent before it handles a login's answer: it is  *)
(* refused, or welcomed and perhaps refused before.                        *)
Refused(q) == \A i \in DOMAIN q : q[i] = Reply(FALSE)
Welcomed(q) ==
  \E i \in DOMAIN q : q[i] = Reply(TRUE) /\ \A j \in 1..i-1 : q[j] = Reply(FALSE)

(* A process that has not retried has one login, and one answer to it. *)
OneLogin(c) ==
  /\ LoggingIn(c) => /\ toServer[c] = <<Login>> /\ toClient[c] = <<>>
                     /\ ui[c] = Blank /\ ~joined[c] /\ c \notin classUsers
  /\ joined[c] => ~Has(toClient[c], OfType("Reply"))
  /\ ~joined[c] => IF c \in classUsers
                   THEN Starts(toClient[c], Reply(TRUE), OfType("Reply"))
                   ELSE toClient[c] \in {<<>>, <<Reply(FALSE)>>}
  /\ controling[c] \/ ui[c].button = "take" => joined[c]

Session(c) ==
  /\ app[c] = "off" => conn[c] = "none" /\ toServer[c] = <<>> /\ ui[c] = Blank
  /\ Runs(c) => conn[c] = "open"
  /\ ~Runs(c) => /\ toClient[c] = <<>> /\ asking[c] = NoUser
                 /\ ~controling[c] /\ ~joined[c]
  /\ Runs(c) /\ ~joined[c] =>
       IF c \in classUsers THEN Welcomed(toClient[c]) ELSE Refused(toClient[c])
  /\ joined[c] => c \in classUsers
  /\ asking[c] # NoUser => joined[c]
  /\ app[c] = "on" => OneLogin(c)

Sessions == NoDeletedUser /\ \A c \in Clients : Session(c)

(* Roles: who is asked, who decides and who has which button. *)
Role(c) ==
  /\ c \notin Teachers => /\ asking[c] = NoUser
                         /\ ~Has(toServer[c], OfType("Agree"))
                         /\ ~Has(toClient[c], OfType("Apply"))
  /\ c \notin Teachers /\ ~AllTeachers =>
       /\ ui[c].button # "take" /\ ~Has(toServer[c], OfType("Take"))
       /\ controling[c] => ui[c].button # "none"
  /\ Has(toServer[c], OfType("Agree")) /\ Runs(c) => joined[c]

Roles == classTeacher \in Teachers \cup {NoClient} /\ \A c \in Clients : Role(c)

(* Decisions: whoever believes to be in control is right, or is about to be  *)
(* corrected.                                                              *)
Grants == {m \in OfType("Agree") : m.yes}
Revoking(c) == {m \in Msg : Revokes(m, c)}
Enabling(c) ==
  IF c \in Teachers THEN {m \in OfType("Reply") : m.yes}
                    ELSE {m \in Grants : m.user = UserId[c]}

(* The class's teacher has not been heard, and has one process. *)
NotYet(t) == app[t] = "off" \/ LoggingIn(t)
Unheard ==
  /\ \E t \in Teachers : ~CameBack(UserId[t])
  /\ \A t \in Teachers : NotYet(t)

Decided(c) == holder = UserId[c] \/ TeacherBack
Decision(c) ==
  /\ Followed(toClient[c], Enabling(c), Revoking(c)) \/ Decided(c)
  /\ controling[c] => \/ Has(toServer[c], OfType("Take"))
                      \/ Has(toClient[c], Revoking(c))
                      \/ Decided(c)
  /\ c \in Teachers /\ controling[c] =>
       Followed(toServer[c], Grants, OfType("Take"))
  /\ Unheard => ~controling[c] /\ ~Has(toClient[c], OfType("Agree"))

Decisions == \A c \in Clients : ~CameBack(UserId[c]) => Decision(c)

-----------------------------------------------------------------------------
(* Four of the server's handlers only relay a command to users of the      *)
(* class.                                                                  *)

Relays(c, S, m) ==
  /\ S \subseteq classUsers /\ m \in Msg /\ m.type \notin {"Reply", "Login"}
  /\ conn[c] = "open" /\ toServer[c] # <<>>
  /\ Head(toServer[c]).type # "Login"
  /\ toServer' = [toServer EXCEPT ![c] = Tail(@)]
  /\ Relay(S, m)
  /\ UNCHANGED <<conn, classUsers, classTeacher, clientVars>>

(* Each of the four handlers is such a relay. *)
LEMMA ApplyRelays ==
  ASSUME TypeOK, NoDeletedUser, NEW c \in Clients, HandleApply(c)
  PROVE  Relays(c, {classTeacher} \ {NoClient}, Head(toServer[c]))
  BY HandlesType DEF HandleApply, Handles, Relays, TypeOK, Queue,
     NoDeletedUser, serverVars

(* An answer to an application goes to the whole class. *)
LEMMA AgreeRelays ==
  ASSUME TypeOK, NEW c \in Clients, HandleAgree(c)
  PROVE  Relays(c, classUsers, Head(toServer[c]))
  BY HandlesType DEF HandleAgree, Handles, Relays, TypeOK, Queue

(* A take goes to everybody else in the class. *)
LEMMA TakeRelays ==
  ASSUME TypeOK, NEW c \in Clients, HandleTake(c)
  PROVE  Relays(c, classUsers \ {c}, Take)
  BY Commands DEF HandleTake, Handles, Relays, Take, Command

(* A page switch goes to everybody else in the class. *)
LEMMA SwitchRelays ==
  ASSUME TypeOK, NEW c \in Clients, HandleBoardData(c)
  PROVE  Relays(c, classUsers \ {c}, Switch)
  BY Commands DEF HandleBoardData, Handles, Relays, Switch, Command, serverVars

(* A write reaches a client at its queue's end, or not at all. *)
LEMMA WriteReaches ==
  ASSUME NEW queues, NEW S, NEW m, NEW d \in Clients
  PROVE  Write(queues, S, m)[d] =
           IF d \in S /\ Writable(d) THEN Append(queues[d], m) ELSE queues[d]
  BY DEF Write

(* Answers join and leave the queue of a process that waits for them. *)
LEMMA AnswersAppend ==
  ASSUME NEW q \in Seq(Msg), NEW m \in Msg
  PROVE  /\ Welcomed(q) => Welcomed(Append(q, m))
         /\ m = Reply(FALSE) /\ Refused(q) => Refused(Append(q, m))
         /\ m = Reply(TRUE) /\ Refused(q) => Welcomed(Append(q, m))
<1>1. /\ DOMAIN Append(q, m) = 1 .. Len(q) + 1 /\ DOMAIN q = 1 .. Len(q)
      /\ Len(q) \in Nat /\ Append(q, m)[Len(q) + 1] = m
      /\ \A i \in 1 .. Len(q) : Append(q, m)[i] = q[i]
  BY AppendElements
<1>2. ASSUME Welcomed(q) PROVE Welcomed(Append(q, m))
  <2>1. PICK i \in 1 .. Len(q) :
          q[i] = Reply(TRUE) /\ \A j \in 1 .. i-1 : q[j] = Reply(FALSE)
    BY <1>1, <1>2 DEF Welcomed
  <2>2. /\ i \in 1 .. Len(q) + 1 /\ Append(q, m)[i] = q[i]
        /\ \A j \in 1 .. i-1 : Append(q, m)[j] = q[j]
    BY <1>1
  <2> QED BY <1>1, <2>1, <2>2 DEF Welcomed
<1>3. ASSUME Refused(q), m = Reply(FALSE) PROVE Refused(Append(q, m))
  <2>1. ASSUME NEW i \in 1 .. Len(q) + 1 PROVE Append(q, m)[i] = m
    <3>1. CASE i = Len(q) + 1  BY <1>1, <3>1
    <3>2. CASE i # Len(q) + 1
      <4>1. i \in 1 .. Len(q)  BY <1>1, <3>2
      <4> QED BY <1>1, <1>3, <4>1 DEF Refused
    <3> QED BY <3>1, <3>2
  <2> QED BY <1>1, <1>3, <2>1 DEF Refused
<1>4. ASSUME Refused(q), m = Reply(TRUE) PROVE Welcomed(Append(q, m))
  <2>1. Len(q) + 1 \in 1 .. Len(q) + 1 /\ (Len(q) + 1) - 1 = Len(q)
    BY <1>1
  <2>2. \A j \in 1 .. Len(q) : Append(q, m)[j] = Reply(FALSE)
    BY <1>1, <1>4 DEF Refused
  <2> QED BY <1>1, <1>4, <2>1, <2>2 DEF Welcomed
<1> QED BY <1>2, <1>3, <1>4

(* What leaves a queue of answers is an answer. *)
LEMMA AnswersTail ==
  ASSUME NEW q \in Seq(Msg)
  PROVE  /\ Refused(<<>>)
         /\ Welcomed(q) => /\ q # <<>> /\ Head(q) \in {Reply(TRUE), Reply(FALSE)}
                           /\ Head(q) = Reply(FALSE) => Welcomed(Tail(q))
         /\ Refused(q) /\ q # <<>> => Head(q) = Reply(FALSE) /\ Refused(Tail(q))
<1>1. Refused(<<>>)  BY DEF Refused
<1>2. DOMAIN q = 1 .. Len(q) /\ Len(q) \in Nat  OBVIOUS
<1>3. ASSUME q # <<>>
      PROVE  /\ DOMAIN Tail(q) = 1 .. Len(q) - 1 /\ Head(q) = q[1] /\ 1 \in 1 .. Len(q)
             /\ \A i \in 1 .. Len(q) - 1 : Tail(q)[i] = q[i + 1]
  BY <1>3, TailElements
<1>4. ASSUME Welcomed(q)
      PROVE  /\ q # <<>> /\ Head(q) \in {Reply(TRUE), Reply(FALSE)}
             /\ Head(q) = Reply(FALSE) => Welcomed(Tail(q))
  <2>1. PICK i \in 1 .. Len(q) :
          q[i] = Reply(TRUE) /\ \A j \in 1 .. i-1 : q[j] = Reply(FALSE)
    BY <1>2, <1>4 DEF Welcomed
  <2>2. q # <<>>  BY <1>2, <2>1
  <2>3. CASE i = 1
    <3>1. Reply(TRUE) # Reply(FALSE)  BY DEF Reply
    <3> QED BY <1>3, <2>1, <2>2, <2>3, <3>1
  <2>4. CASE i # 1
    <3>1. 1 \in 1 .. i-1 /\ i - 1 \in 1 .. Len(q) - 1 /\ (i - 1) + 1 = i
      BY <1>2, <2>1, <2>4
    <3>2. Head(q) = Reply(FALSE)  BY <1>3, <2>1, <2>2, <3>1
    <3>3. Tail(q)[i - 1] = Reply(TRUE)  BY <1>3, <2>1, <2>2, <3>1
    <3>4. ASSUME NEW j \in 1 .. (i - 1) - 1 PROVE Tail(q)[j] = Reply(FALSE)
      <4>1. j \in 1 .. Len(q) - 1 /\ j + 1 \in 1 .. i-1  BY <1>2, <2>1, <3>4
      <4> QED BY <1>3, <2>1, <2>2, <4>1
    <3>5. Welcomed(Tail(q))  BY <1>3, <2>2, <3>1, <3>3, <3>4 DEF Welcomed
    <3> QED BY <2>2, <3>2, <3>5
  <2> QED BY <2>3, <2>4
<1>5. ASSUME Refused(q), q # <<>> PROVE Head(q) = Reply(FALSE) /\ Refused(Tail(q))
  <2>1. Head(q) = Reply(FALSE)  BY <1>2, <1>3, <1>5 DEF Refused
  <2>2. ASSUME NEW i \in 1 .. Len(q) - 1 PROVE Tail(q)[i] = Reply(FALSE)
    <3>1. i + 1 \in 1 .. Len(q)  BY <1>2, <2>2
    <3> QED BY <1>2, <1>3, <1>5, <2>2, <3>1 DEF Refused
  <2> QED BY <1>3, <1>5, <2>1, <2>2 DEF Refused
<1> QED BY <1>1, <1>4, <1>5

(* A queue of one command. *)
LEMMA EmptyTail ==
  \A m : Tail(<<m>>) = <<>> /\ Head(<<m>>) = m /\ Append(<<>>, m) = <<m>>
  OBVIOUS

-----------------------------------------------------------------------------
(* Nobody has a session initially. *)
LEMMA SessionsInit == Init => Sessions
<1> SUFFICES ASSUME Init PROVE Sessions
  OBVIOUS
<1>1. NoDeletedUser  BY DEF Init, NoDeletedUser
<1>2. ASSUME NEW c \in Clients PROVE Session(c)
  BY <1>2 DEF Init, Session, Runs
<1> QED BY <1>1, <1>2 DEF Sessions

(* A relay, which carries no login reply, keeps the sessions. *)
LEMMA SessionsRelay ==
  ASSUME TypeOK, Sessions, NEW c \in Clients, NEW S, NEW m, Relays(c, S, m)
  PROVE  Sessions'
<1>1. NoDeletedUser'  BY DEF Sessions, NoDeletedUser, Relays
<1>2. ASSUME NEW d \in Clients PROVE Session(d)'
  <2>1. /\ toClient[d] \in Seq(Msg) /\ toServer[d] \in Seq(Msg) /\ m \in Msg
        /\ m \notin OfType("Reply") /\ Session(d)
        /\ UNCHANGED <<conn, classUsers, app, joined, controling, ui, asking>>
    BY <1>2 DEF TypeOK, Relays, OfType, Sessions, clientVars
  <2>2. /\ toServer'[d] = IF d = c THEN Tail(toServer[d]) ELSE toServer[d]
        /\ toClient'[d] = IF d \in S /\ Writable(d)
                          THEN Append(toClient[d], m) ELSE toClient[d]
    BY <1>2, WriteReaches DEF Relays, Relay, TypeOK
  <2>3. d \in S => d \in classUsers  BY DEF Relays
  <2>4. Welcomed(toClient[d]) => Welcomed(toClient'[d])
    BY <2>1, <2>2, AnswersAppend
  <2>5. app[d] = "on" => OneLogin(d)'
    <3> SUFFICES ASSUME app[d] = "on" PROVE OneLogin(d)'
      OBVIOUS
    <3>1. OneLogin(d)  BY <2>1 DEF Session
    <3>2. LoggingIn(d)' => LoggingIn(d) /\ d # c
      <4>1. LoggingIn(d)' => LoggingIn(d)
        BY <2>1, <2>2, HasTail DEF LoggingIn, Relays
      <4>2. ASSUME LoggingIn(c), d = c PROVE FALSE
        <5>1. toServer[c] = <<Login>>  BY <3>1, <4>2 DEF OneLogin
        <5> QED BY <5>1, EmptyTail DEF Relays, Login, Command
      <4> QED BY <4>1, <4>2
    <3>3. joined[d] => ~Has(toClient'[d], OfType("Reply"))
      BY <2>1, <2>2, <3>1, HasAppend DEF OneLogin
    <3>4. ~joined[d] /\ d \in classUsers =>
            Starts(toClient'[d], Reply(TRUE), OfType("Reply"))
      BY <2>1, <2>2, <3>1, StartsAppend DEF OneLogin
    <3> QED BY <2>1, <2>2, <2>3, <3>1, <3>2, <3>3, <3>4 DEF OneLogin
  <2> QED BY <2>1, <2>2, <2>3, <2>4, <2>5 DEF Session, Writable, Runs
<1> QED BY <1>1, <1>2 DEF Sessions

(* The login of a process that has not retried is handled when nothing     *)
(* else is under way to or from it.                                        *)
LEMMA LoginAlone ==
  ASSUME TypeOK, NEW c \in Clients, OneLogin(c), HandleLogin(c)
  PROVE  /\ LoggingIn(c) /\ toServer[c] = <<Login>> /\ toClient[c] = <<>>
         /\ ~joined[c] /\ c \notin classUsers /\ conn[c] = "open"
         /\ toServer' = [toServer EXCEPT ![c] = <<>>]
<1>2. Head(toServer[c]) \in OfType("Login") /\ toServer[c] # <<>>
  BY HandlesType DEF HandleLogin, Handles, OfType, TypeOK, Queue
<1>3. LoggingIn(c)  BY <1>2, HasTail DEF LoggingIn, TypeOK
<1>4. Tail(toServer[c]) = <<>>  BY <1>3, EmptyTail DEF OneLogin
<1> QED BY <1>3, <1>4 DEF OneLogin, HandleLogin, Handles

(* What a login changes for one client. *)
LEMMA LoginQueues ==
  ASSUME TypeOK, NEW c \in Clients, HandleLogin(c), NEW d \in Clients
  PROVE  /\ UNCHANGED <<conn, app, joined, controling, ui, asking>>
         /\ conn[c] = "open" /\ toServer[c] # <<>>
         /\ toServer'[d] = IF d = c THEN Tail(toServer[d]) ELSE toServer[d]
         /\ \/ /\ toClient'[d] = IF d = c /\ Writable(c)
                                 THEN Append(toClient[d], Reply(FALSE)) ELSE toClient[d]
               /\ UNCHANGED <<classUsers, classTeacher, holder>>
            \/ /\ toClient'[d] =
                    IF d = c THEN IF Writable(c) THEN Append(toClient[c], Reply(TRUE))
                                                 ELSE toClient[c]
                    ELSE IF d \in classUsers /\ Writable(d) THEN Append(toClient[d], Peer)
                                                            ELSE toClient[d]
               /\ classUsers' = classUsers \cup {c}
               /\ classTeacher' \in {c, classTeacher}
               /\ IsTeacher(c) \/ classTeacher' = classTeacher
               /\ holder' = IF IsTeacher(c) THEN UserId[c] ELSE holder
<1>1. /\ UNCHANGED <<conn, app, joined, controling, ui, asking>>
      /\ conn[c] = "open" /\ toServer[c] # <<>>
      /\ toServer'[d] = IF d = c THEN Tail(toServer[d]) ELSE toServer[d]
  BY DEF HandleLogin, Handles, clientVars, TypeOK
<1>2. CASE /\ Relay({c}, Reply(FALSE))
           /\ UNCHANGED <<classUsers, classTeacher, holder>>
  <2>1. toClient'[d] = IF d \in {c} /\ Writable(d)
                       THEN Append(toClient[d], Reply(FALSE)) ELSE toClient[d]
    BY <1>2, WriteReaches DEF Relay
  <2> QED BY <1>1, <1>2, <2>1
<1>3. CASE /\ AddClassUser(c)
           /\ toClient' = Write(Write(toClient, {c}, Reply(TRUE)), classUsers \ {c}, Peer)
           /\ holder' = IF IsTeacher(c) THEN UserId[c] ELSE holder
  <2>1. Write(toClient, {c}, Reply(TRUE))[d] =
          IF d \in {c} /\ Writable(d)
          THEN Append(toClient[d], Reply(TRUE)) ELSE toClient[d]
    BY WriteReaches
  <2>2. \A q : Write(q, classUsers \ {c}, Peer)[d] =
          IF d \in classUsers \ {c} /\ Writable(d) THEN Append(q[d], Peer) ELSE q[d]
    BY WriteReaches
  <2>3. /\ classUsers' = classUsers \cup {c}
        /\ classTeacher' \in {c, classTeacher}
        /\ IsTeacher(c) \/ classTeacher' = classTeacher
    BY <1>3 DEF AddClassUser
  <2>4. toClient'[d] =
          IF d = c THEN IF Writable(c) THEN Append(toClient[c], Reply(TRUE))
                                       ELSE toClient[c]
          ELSE IF d \in classUsers /\ Writable(d) THEN Append(toClient[d], Peer)
                                                  ELSE toClient[d]
    BY <1>3, <2>1, <2>2
  <2> QED BY <1>1, <1>3, <2>3, <2>4
<1> QED BY <1>2, <1>3 DEF HandleLogin

(* And what it does to the sessions. *)
LEMMA SessionsLogin ==
  ASSUME TypeOK, Sessions, NEW c \in Clients, HandleLogin(c)
  PROVE  Sessions'
<1>1. NoDeletedUser /\ \A d \in Clients : Session(d)  BY DEF Sessions
<1>2. NoDeletedUser'
  BY <1>1, LoginQueues DEF NoDeletedUser
<1>3. ASSUME NEW d \in Clients PROVE Session(d)'
  <2>1. /\ Session(d) /\ toClient[d] \in Seq(Msg) /\ toServer[d] \in Seq(Msg)
        /\ UNCHANGED <<conn, app, joined, controling, ui, asking>>
        /\ conn[c] = "open"
    BY <1>1, <1>3, LoginQueues DEF TypeOK
  <2>2. /\ Reply(FALSE) \in Msg /\ Reply(TRUE) \in Msg /\ Peer \in Msg
        /\ Peer \notin OfType("Reply")
    BY Commands DEF OfType, Peer, Command
  <2>3. ~Runs(d) => toClient'[d] = <<>>
    BY <1>3, <2>1, LoginQueues DEF Session, Writable
  <2>4. d \in classUsers => d \in classUsers'
    BY <1>3, LoginQueues
  <2>5. Runs(d) /\ ~joined[d] =>
          IF d \in classUsers' THEN Welcomed(toClient'[d]) ELSE Refused(toClient'[d])
    <3> SUFFICES ASSUME Runs(d), ~joined[d]
                 PROVE  IF d \in classUsers' THEN Welcomed(toClient'[d])
                                             ELSE Refused(toClient'[d])
      OBVIOUS
    <3>1. /\ IF d \in classUsers THEN Welcomed(toClient[d]) ELSE Refused(toClient[d])
          /\ Writable(d)
      BY <2>1 DEF Session, Writable
    <3>2. /\ \A m \in Msg : Welcomed(toClient[d]) => Welcomed(Append(toClient[d], m))
          /\ Refused(toClient[d]) => Refused(Append(toClient[d], Reply(FALSE)))
          /\ Refused(toClient[d]) => Welcomed(Append(toClient[d], Reply(TRUE)))
      BY <2>1, <2>2, AnswersAppend
    <3>3. CASE d # c
      <4>1. \/ toClient'[d] = toClient[d]
            \/ d \in classUsers /\ toClient'[d] = Append(toClient[d], Peer)
        BY <1>3, <3>3, LoginQueues
      <4>2. d \in classUsers' <=> d \in classUsers  BY <1>3, <3>3, LoginQueues
      <4> QED BY <2>2, <3>1, <3>2, <4>1, <4>2
    <3>4. CASE d = c
      <4>1. \/ /\ toClient'[d] = Append(toClient[d], Reply(FALSE))
               /\ UNCHANGED classUsers
            \/ /\ toClient'[d] = Append(toClient[d], Reply(TRUE))
               /\ d \in classUsers'
        BY <1>3, <3>1, <3>4, LoginQueues
      <4> QED BY <2>2, <3>1, <3>2, <4>1
    <3> QED BY <3>3, <3>4
  <2>6. app[d] = "on" => OneLogin(d)'
    <3> SUFFICES ASSUME app[d] = "on" PROVE OneLogin(d)'
      OBVIOUS
    <3>1. OneLogin(d) /\ Writable(d)  BY <2>1 DEF Session, Writable, Runs
    <3>2. CASE d = c
      <4>1. /\ LoggingIn(c) /\ toServer[c] = <<Login>> /\ toClient[c] = <<>>
            /\ ~joined[c] /\ c \notin classUsers /\ ui[c] = Blank
        BY <3>1, <3>2, LoginAlone DEF OneLogin
      <4>2. toServer'[c] = <<>>
          <5>1. toServer'[c] = Tail(toServer[c])  BY LoginQueues
          <5> QED BY <4>1, <5>1, EmptyTail
      <4>3. ~LoggingIn(c)'  BY <4>2, EmptyQueue DEF LoggingIn
      <4>4. Starts(<<Reply(TRUE)>>, Reply(TRUE), OfType("Reply"))
        BY StartsSingle
      <4>5. \/ toClient'[c] = <<Reply(FALSE)>> /\ UNCHANGED classUsers
            \/ toClient'[c] = <<Reply(TRUE)>> /\ c \in classUsers'
        <5>1. /\ Append(toClient[c], Reply(TRUE)) = <<Reply(TRUE)>>
              /\ Append(toClient[c], Reply(FALSE)) = <<Reply(FALSE)>>
          BY <4>1, EmptyTail
        <5>2. \/ toClient'[c] = Append(toClient[c], Reply(FALSE)) /\ UNCHANGED classUsers
              \/ toClient'[c] = Append(toClient[c], Reply(TRUE)) /\ c \in classUsers'
          BY <3>1, <3>2, LoginQueues
        <5> QED BY <5>1, <5>2
      <4> QED BY <2>1, <3>1, <3>2, <4>1, <4>3, <4>4, <4>5 DEF OneLogin
    <3>3. CASE d # c
      <4>1. /\ toServer'[d] = toServer[d] /\ (d \in classUsers' <=> d \in classUsers)
            /\ \/ toClient'[d] = toClient[d]
               \/ d \in classUsers /\ toClient'[d] = Append(toClient[d], Peer)
        BY <1>3, <3>3, LoginQueues
      <4>2. joined[d] => ~Has(toClient'[d], OfType("Reply"))
        BY <2>1, <2>2, <3>1, <4>1, HasAppend DEF OneLogin
      <4>3. ~joined[d] /\ d \in classUsers =>
              Starts(toClient'[d], Reply(TRUE), OfType("Reply"))
        BY <2>1, <2>2, <3>1, <4>1, StartsAppend DEF OneLogin
      <4> QED BY <2>1, <3>1, <4>1, <4>2, <4>3 DEF OneLogin, LoggingIn
    <3> QED BY <3>2, <3>3
  <2>7. app[d] = "off" => toServer'[d] = <<>>
    BY <1>3, <2>1, LoginQueues DEF Session
  <2> QED BY <2>1, <2>3, <2>4, <2>5, <2>6, <2>7 DEF Session, Runs
<1> QED BY <1>2, <1>3 DEF Sessions

(* What keeps the other clients' sessions: their state does not change. *)
LEMMA OthersKeepSession ==
  ASSUME NEW d \in Clients, Session(d), UNCHANGED <<conn[d], app[d], joined[d]>>,
         UNCHANGED <<controling[d], ui[d], asking[d], toServer[d], toClient[d]>>,
         UNCHANGED (d \in classUsers)
  PROVE  Session(d)'
  BY DEF Session, OneLogin, LoggingIn, Runs

(* The server's handlers keep the sessions. *)
LEMMA SessionsServer ==
  ASSUME TypeOK, Sessions, NEW c \in Clients,
         Handle(c) \/ ReadEnds(c) \/ OnClose(c)
  PROVE  Sessions'
<1>1. NoDeletedUser /\ \A d \in Clients : Session(d)  BY DEF Sessions
<1>2. CASE HandleLogin(c)  BY <1>2, SessionsLogin
<1>3. CASE HandleApply(c)  BY <1>1, <1>3, ApplyRelays, SessionsRelay
<1>4. CASE HandleAgree(c)  BY <1>4, AgreeRelays, SessionsRelay
<1>5. CASE HandleTake(c)  BY <1>5, TakeRelays, SessionsRelay
<1>6. CASE HandleBoardData(c)  BY <1>6, SwitchRelays, SessionsRelay
<1>7. CASE ReadEnds(c)
  <2>1. NoDeletedUser'  BY <1>1, <1>7 DEF ReadEnds, NoDeletedUser, TypeOK
  <2>2. ASSUME NEW d \in Clients PROVE Session(d)'
    <3>1. CASE d = c
      BY <1>1, <1>7, <2>2, <3>1 DEF ReadEnds, Session, Runs, TypeOK, clientVars
    <3>2. CASE d # c
      <4>1. /\ UNCHANGED <<conn[d], app, joined, controling, ui, asking>>
            /\ UNCHANGED <<toServer[d], toClient, classUsers>>
        BY <1>7, <2>2, <3>2 DEF ReadEnds, TypeOK, clientVars
      <4> QED BY <1>1, <2>2, <4>1, OthersKeepSession
    <3> QED BY <3>1, <3>2
  <2> QED BY <2>1, <2>2 DEF Sessions
<1>8. CASE OnClose(c)
  <2>1. NoDeletedUser'
    BY <1>1, <1>8 DEF OnClose, RemoveUser, NoDeletedUser, TypeOK
  <2>2. ASSUME NEW d \in Clients PROVE Session(d)'
    <3>1. CASE d = c
      BY <1>1, <1>8, <2>2, <3>1
         DEF OnClose, RemoveUser, Session, Runs, TypeOK, netVars, clientVars
    <3>2. CASE d # c
      <4>1. /\ UNCHANGED <<conn[d], app, joined, controling, ui, asking>>
            /\ UNCHANGED <<toServer, toClient>> /\ UNCHANGED (d \in classUsers)
        BY <1>8, <2>2, <3>2 DEF OnClose, RemoveUser, TypeOK, netVars, clientVars
      <4> QED BY <1>1, <2>2, <4>1, OthersKeepSession
    <3> QED BY <3>1, <3>2
  <2> QED BY <2>1, <2>2 DEF Sessions
<1> QED BY <1>2, <1>3, <1>4, <1>5, <1>6, <1>7, <1>8 DEF Handle

(* A client that has not been welcomed can receive only its login's reply. *)
LEMMA ReceivesWhen ==
  ASSUME TypeOK, Sessions, NEW c \in Clients, NEW t, Receives(c, t)
  PROVE  /\ Runs(c) /\ asking[c] = NoUser /\ Session(c)
         /\ toClient[c] \in Seq(Msg) /\ toClient[c] # <<>>
         /\ Head(toClient[c]) \in OfType(t)
         /\ toClient' = [toClient EXCEPT ![c] = Tail(@)]
         /\ t # "Reply" => joined[c]
         /\ app[c] = "on" => ~LoggingIn(c) /\ (t = "Reply" => ~joined[c])
<1>1. /\ Runs(c) /\ asking[c] = NoUser /\ Session(c)
      /\ toClient[c] \in Seq(Msg) /\ toClient[c] # <<>>
      /\ Head(toClient[c]) \in OfType(t) /\ Head(toClient[c]).type = t
      /\ toClient' = [toClient EXCEPT ![c] = Tail(@)]
  BY ReceivesType DEF Receives, TypeOK, Queue, OfType, Sessions
<1>2. app[c] = "on" => ~LoggingIn(c)  BY <1>1 DEF Session, OneLogin
<1>3. ASSUME ~joined[c] PROVE t = "Reply"
  <2>1. Head(toClient[c]) \in {Reply(TRUE), Reply(FALSE)}
    BY <1>1, <1>3, AnswersTail DEF Session
  <2> QED BY <1>1, <2>1 DEF Reply
<1>4. ASSUME joined[c], app[c] = "on" PROVE t # "Reply"
  BY <1>1, <1>4, HasTail DEF Session, OneLogin
<1> QED BY <1>1, <1>2, <1>3, <1>4

(* The clients' handlers keep the sessions. *)
LEMMA SessionsReceive ==
  ASSUME TypeOK, Sessions, NEW c \in Clients, Receive(c)
  PROVE  Sessions'
<1>1. NoDeletedUser /\ \A d \in Clients : Session(d)  BY DEF Sessions
<1>2. UNCHANGED serverVars /\ UNCHANGED app
  BY DEF Receive, OnBoardLogin, OnPeerLogin, OnStudentApplyBoard,
     OnTeacherAgreeBoard, OnTeacherTakeBoard, PlayNetworkSwitchPage, clientVars
<1>3. NoDeletedUser'  BY <1>1, <1>2 DEF NoDeletedUser, serverVars
<1>4. ASSUME NEW d \in Clients, d # c PROVE Session(d)'
  <2>1. /\ UNCHANGED <<joined[d], controling[d], ui[d], asking[d], toServer[d]>>
        /\ UNCHANGED toClient[d]
    BY <1>4 DEF Receive, OnBoardLogin, OnPeerLogin, OnStudentApplyBoard,
       OnTeacherAgreeBoard, OnTeacherTakeBoard, PlayNetworkSwitchPage,
       Receives, Send, Show, SetEnableCurrentPage, clientVars, TypeOK
  <2> QED BY <1>1, <1>2, <1>4, <2>1, OthersKeepSession DEF serverVars
<1>5. CASE OnBoardLogin(c)
  <2>1. Receives(c, "Reply") /\ UNCHANGED <<asking, toServer>>
    BY <1>5 DEF OnBoardLogin
  <2>2. /\ Runs(c) /\ Session(c) /\ asking[c] = NoUser
        /\ toClient[c] \in Seq(Msg) /\ toClient[c] # <<>>
        /\ toClient'[c] = Tail(toClient[c])
        /\ app[c] = "on" => ~LoggingIn(c) /\ ~joined[c]
    BY <2>1, ReceivesWhen DEF TypeOK
  <2>3. ~joined[c] => Head(toClient[c]) \in {Reply(TRUE), Reply(FALSE)}
    BY <2>2, AnswersTail DEF Session
  <2>4. ASSUME Head(toClient[c]).yes PROVE Session(c)'
    <3>1. joined'[c] /\ Head(toClient[c]) # Reply(FALSE)
      <4>1. joined' = [joined EXCEPT ![c] = TRUE]  BY <1>5, <2>4 DEF OnBoardLogin
      <4>2. ~Reply(FALSE).yes  BY DEF Reply
      <4> QED BY <2>4, <4>1, <4>2 DEF TypeOK
    <3>2. c \in classUsers
      BY <2>2, <3>1, AnswersTail DEF Session
    <3>3. app[c] = "on" => ~Has(toClient'[c], OfType("Reply"))
      <4> SUFFICES ASSUME app[c] = "on" PROVE ~Has(toClient'[c], OfType("Reply"))
        OBVIOUS
      <4> QED BY <2>2, <3>2 DEF Session, OneLogin, Starts
    <3>4. app[c] = "on" => OneLogin(c)'
      BY <2>1, <2>2, <3>1, <3>3 DEF OneLogin, LoggingIn
    <3> QED BY <1>2, <2>1, <2>2, <3>1, <3>2, <3>4 DEF Session, Runs, serverVars
  <2>5. ASSUME ~Head(toClient[c]).yes PROVE Session(c)'
    <3>1. /\ UNCHANGED <<joined, controling, asking>> /\ Show(c, FALSE, TRUE, FALSE)
          /\ Head(toClient[c]) # Reply(TRUE)
      <4>1. UNCHANGED <<joined, controling, asking>> /\ Show(c, FALSE, TRUE, FALSE)
        BY <1>5, <2>5 DEF OnBoardLogin
      <4>2. Reply(TRUE).yes  BY DEF Reply
      <4> QED BY <2>5, <4>1, <4>2
    <3>2. ~joined[c] => IF c \in classUsers THEN Welcomed(toClient'[c])
                                            ELSE Refused(toClient'[c])
      BY <2>2, <2>3, <3>1, AnswersTail DEF Session
    <3>3. app[c] = "on" => OneLogin(c)'
      <4> SUFFICES ASSUME app[c] = "on" PROVE OneLogin(c)'
        OBVIOUS
      <4>1. OneLogin(c) /\ ~LoggingIn(c) /\ ~joined[c]  BY <2>2 DEF Session
      <4>2. c \notin classUsers  BY <3>1, <4>1 DEF OneLogin, Starts
      <4>3. toClient'[c] = <<>>
        BY <2>2, <4>1, <4>2, EmptyTail DEF OneLogin
      <4>4. ui'[c].button # "take"
        BY <3>1, <4>1, ShowButton DEF OneLogin
      <4>5. ~LoggingIn(c)'  BY <2>1, <4>1 DEF LoggingIn
      <4> QED BY <1>2, <3>1, <4>1, <4>2, <4>3, <4>4, <4>5 DEF OneLogin, serverVars
    <3> QED BY <1>2, <2>1, <2>2, <3>1, <3>2, <3>3 DEF Session, Runs, serverVars
  <2> QED BY <1>3, <1>4, <2>4, <2>5 DEF Sessions
<1>6. ASSUME NEW t, t # "Reply", Receives(c, t), UNCHANGED joined,
             toServer' = toServer \/ Send(c, Switch)
      PROVE  Sessions'
  <2>1. /\ Runs(c) /\ Session(c) /\ joined[c]
        /\ toClient[c] \in Seq(Msg) /\ toClient[c] # <<>>
        /\ toClient'[c] = Tail(toClient[c])
        /\ app[c] = "on" => OneLogin(c) /\ ~LoggingIn(c)
    BY <1>6, ReceivesWhen DEF TypeOK, Session
  <2>2. LoggingIn(c)' => LoggingIn(c)
    <3>1. CASE toServer' = toServer  BY <3>1 DEF LoggingIn
    <3>2. CASE Send(c, Switch)
      <4>1. toServer'[c] = Append(toServer[c], Switch) /\ toServer[c] \in Seq(Msg)
        BY <3>2 DEF Send, TypeOK
      <4>2. Switch \in Msg /\ Switch \notin OfType("Login")
        BY Commands DEF Switch, Command, OfType
      <4> QED BY <4>1, <4>2, HasAppend DEF LoggingIn
    <3> QED BY <1>6, <3>1, <3>2
  <2>3. app[c] = "on" => ~Has(toClient'[c], OfType("Reply"))
    BY <2>1, HasTail DEF OneLogin
  <2>4. app[c] = "on" => OneLogin(c)'
    BY <1>6, <2>1, <2>2, <2>3 DEF OneLogin
  <2>5. Session(c)'
    BY <1>2, <1>6, <2>1, <2>4 DEF Session, Runs, serverVars
  <2> QED BY <1>3, <1>4, <2>5 DEF Sessions
<1>7. CASE OnPeerLogin(c)  BY <1>6, <1>7 DEF OnPeerLogin, clientVars
<1>8. CASE OnStudentApplyBoard(c)  BY <1>6, <1>8 DEF OnStudentApplyBoard
<1>9. CASE OnTeacherAgreeBoard(c)  BY <1>6, <1>9 DEF OnTeacherAgreeBoard
<1>10. CASE OnTeacherTakeBoard(c)  BY <1>6, <1>10 DEF OnTeacherTakeBoard
<1>11. CASE PlayNetworkSwitchPage(c)  BY <1>6, <1>11 DEF PlayNetworkSwitchPage
<1> QED BY <1>5, <1>7, <1>8, <1>9, <1>10, <1>11 DEF Receive

(* A process that retries begins a session where it had none. *)
LEMMA SessionsRetry ==
  ASSUME TypeOK, Sessions, NEW c \in Clients, NEW d \in Clients,
         ShowNetworkRetry(c, d)
  PROVE  Sessions'
<1>1. NoDeletedUser /\ \A e \in Clients : Session(e)  BY DEF Sessions
<1>2. /\ app[c] = "on" /\ app[d] = "off" /\ c # d /\ asking[c] = NoUser
      /\ conn[d] = "none" /\ toClient[d] = <<>> /\ asking[d] = NoUser
      /\ ~joined[d] /\ d \notin classUsers
  BY <1>1 DEF ShowNetworkRetry, Session, Runs, NoDeletedUser
<1>3. /\ app'[c] = "gone" /\ app'[d] = "again" /\ conn'[d] = "open"
      /\ toClient'[c] = <<>> /\ toClient'[d] = <<>>
      /\ ~joined'[c] /\ ~joined'[d] /\ ~controling'[c]
      /\ UNCHANGED <<asking, classUsers, classTeacher>>
  BY <1>2 DEF ShowNetworkRetry, TypeOK
<1>4. NoDeletedUser'
  BY <1>1, <1>2, <1>3 DEF NoDeletedUser, ShowNetworkRetry, TypeOK
<1>5. Session(c)'  BY <1>2, <1>3 DEF Session, Runs
<1>6. Session(d)'
  <2>1. Refused(<<>>)  BY DEF Refused
  <2> QED BY <1>2, <1>3, <2>1 DEF Session, Runs
<1>7. ASSUME NEW e \in Clients \ {c, d} PROVE Session(e)'
  <2>1. /\ UNCHANGED <<conn[e], app[e], joined[e], controling[e], ui[e], asking[e]>>
        /\ UNCHANGED <<toServer[e], toClient[e], classUsers>>
    BY <1>7 DEF ShowNetworkRetry, TypeOK
  <2> QED BY <1>1, <1>7, <2>1, OthersKeepSession
<1> QED BY <1>4, <1>5, <1>6, <1>7 DEF Sessions

(* What users do keeps the sessions. *)
LEMMA SessionsInput ==
  ASSUME TypeOK, Sessions, NEW c \in Clients, Input(c)
  PROVE  Sessions'
<1> USE ClassAssumption
<1>1. NoDeletedUser /\ \A d \in Clients : Session(d)  BY DEF Sessions
<1>2. ASSUME NEW d \in Clients, d # c,
             Connect(c) \/ OnApplyBoard(c) \/ OnTakeBoard(c) \/ SwitchPage(c)
               \/ (\E yes \in BOOLEAN : AnswerApply(c, yes)) \/ Leave(c)
      PROVE  Session(d)'
  <2>1. /\ UNCHANGED <<conn[d], app[d], joined[d], controling[d], ui[d], asking[d]>>
        /\ UNCHANGED <<toServer[d], toClient[d], classUsers>>
    BY <1>2 DEF Connect, OnApplyBoard, OnTakeBoard, SwitchPage,
       AnswerApply, Leave, Send, Show, SetEnableCurrentPage, serverVars,
       clientVars, TypeOK
  <2> QED BY <1>1, <1>2, <2>1, OthersKeepSession
<1>3. CASE Connect(c)
  <2>1. /\ app[c] = "off" /\ conn[c] = "none" /\ c \notin classUsers
        /\ toServer[c] = <<>> /\ toClient[c] = <<>> /\ ui[c] = Blank
        /\ asking[c] = NoUser /\ ~controling[c] /\ ~joined[c]
    BY <1>1, <1>3 DEF Connect, Session, NoDeletedUser, Runs
  <2>2. NoDeletedUser'  BY <1>1, <1>3, <2>1 DEF Connect, NoDeletedUser, TypeOK
  <2>3. toServer'[c] = <<Login>>
    BY <1>3, <2>1, EmptyTail DEF Connect, Send, TypeOK
  <2>4. OneLogin(c)'
    BY <1>3, <2>1, <2>3, EmptyQueue DEF Connect, OneLogin, Blank
  <2>5. Session(c)'
    BY <1>3, <2>1, <2>4, AnswersTail DEF Connect, Session, Runs, TypeOK
  <2> QED BY <1>2, <1>3, <2>2, <2>5 DEF Sessions
<1>4. ASSUME NEW m \in Msg, m.type # "Login", Send(c, m), Runs(c),
             app[c] = "on" => ~LoggingIn(c),
             UNCHANGED <<serverVars, toClient, app, joined>>,
             asking'[c] # NoUser => joined[c],
             app[c] = "on" /\ (controling'[c] \/ ui'[c].button = "take") => joined[c]
      PROVE  NoDeletedUser' /\ Session(c)'
  <2>1. NoDeletedUser'  BY <1>1, <1>4 DEF NoDeletedUser, serverVars
  <2>2. app[c] = "on" => ~LoggingIn(c)'
    <3>1. toServer'[c] = Append(toServer[c], m) /\ toServer[c] \in Seq(Msg)
      BY <1>4 DEF Send, TypeOK
    <3>2. m \notin OfType("Login")  BY <1>4 DEF OfType
    <3>3. LoggingIn(c)' => LoggingIn(c)
      BY <1>4, <3>1, <3>2, HasAppend DEF LoggingIn
    <3> QED BY <1>4, <3>3
  <2>3. app[c] = "on" => OneLogin(c)'
    BY <1>1, <1>4, <2>2 DEF Session, OneLogin, serverVars
  <2>4. Session(c)'
    BY <1>1, <1>4, <2>3 DEF Session, Runs, serverVars
  <2> QED BY <2>1, <2>4
<1>5. CASE OnApplyBoard(c)
  <2>1. Apply(UserId[c]) \in Msg /\ Apply(UserId[c]).type # "Login"
    BY Commands DEF Apply
  <2>2. app[c] = "on" => ~LoggingIn(c)
    <3>1. ui[c].button = "apply"  BY <1>5 DEF OnApplyBoard
    <3>2. ui[c] # Blank  BY <3>1 DEF Blank
    <3> QED BY <1>1, <3>2 DEF Session, OneLogin
  <2>3. /\ asking[c] # NoUser => joined[c]
        /\ app[c] = "on" /\ (controling[c] \/ ui[c].button = "take") => joined[c]
    BY <1>1 DEF Session, OneLogin
  <2>4. /\ Send(c, Apply(UserId[c])) /\ Runs(c)
        /\ UNCHANGED <<serverVars, toClient, app, joined>>
        /\ UNCHANGED <<controling, asking, ui>>
    BY <1>5 DEF OnApplyBoard, AtDesk, clientVars
  <2>5. NoDeletedUser' /\ Session(c)'  BY <1>4, <2>1, <2>2, <2>3, <2>4
  <2> QED BY <1>2, <1>5, <2>5 DEF Sessions
<1>6. CASE OnTakeBoard(c)
  <2>1. app[c] = "on" => joined[c] /\ ~LoggingIn(c)
    BY <1>1, <1>6 DEF OnTakeBoard, Session, OneLogin
  <2>2. /\ Take \in Msg /\ Take.type # "Login" /\ Send(c, Take) /\ Runs(c)
        /\ asking'[c] = NoUser /\ UNCHANGED <<serverVars, toClient, app, joined>>
    BY <1>6, Commands DEF OnTakeBoard, AtDesk, Take, Command
  <2>3. NoDeletedUser' /\ Session(c)'  BY <1>4, <2>1, <2>2
  <2> QED BY <1>2, <1>6, <2>3 DEF Sessions
<1>7. CASE SwitchPage(c)
  <2>1. app[c] = "on" => joined[c] /\ ~LoggingIn(c)
    BY <1>1, <1>7 DEF SwitchPage, Session, OneLogin
  <2>2. /\ Switch \in Msg /\ Switch.type # "Login" /\ Send(c, Switch) /\ Runs(c)
        /\ asking'[c] = NoUser /\ UNCHANGED <<serverVars, toClient, app, joined>>
    BY <1>7, Commands DEF SwitchPage, AtDesk, Switch, Command, clientVars
  <2>3. NoDeletedUser' /\ Session(c)'  BY <1>4, <2>1, <2>2
  <2> QED BY <1>2, <1>7, <2>3 DEF Sessions
<1>8. ASSUME NEW yes \in BOOLEAN, AnswerApply(c, yes) PROVE Sessions'
  <2>1. joined[c] /\ (app[c] = "on" => ~LoggingIn(c))
    BY <1>1, <1>8 DEF AnswerApply, Session, OneLogin
  <2>2. Agree(asking[c], yes) \in Msg /\ Agree(asking[c], yes).type # "Login"
    BY <1>8, Commands DEF Agree, TypeOK
  <2>3. /\ Send(c, Agree(asking[c], yes)) /\ Runs(c)
        /\ UNCHANGED <<serverVars, toClient, app, joined>>
    BY <1>8 DEF AnswerApply
  <2>4. NoDeletedUser' /\ Session(c)'  BY <1>4, <2>1, <2>2, <2>3
  <2> QED BY <1>2, <1>8, <2>4 DEF Sessions
<1>9. CASE Leave(c)
  <2>1. NoDeletedUser'  BY <1>1, <1>9 DEF Leave, NoDeletedUser, serverVars
  <2>2. Session(c)'
    BY <1>1, <1>9 DEF Leave, Session, Runs, TypeOK, serverVars
  <2> QED BY <1>2, <1>9, <2>1, <2>2 DEF Sessions
<1>10. ASSUME NEW d \in Clients, ShowNetworkRetry(c, d) PROVE Sessions'
  BY <1>10, SessionsRetry
<1> QED BY <1>3, <1>5, <1>6, <1>7, <1>8, <1>9, <1>10 DEF Input

(* Sessions is invariant. *)
LEMMA SessionsInvariant == Spec => []Sessions
<1>1. TypeOK /\ Sessions /\ [Next]_vars => Sessions'
  <2> SUFFICES ASSUME TypeOK, Sessions, [Next]_vars PROVE Sessions'
    OBVIOUS
  <2>1. CASE UNCHANGED vars
    BY <2>1 DEF Sessions, NoDeletedUser, Session, OneLogin, LoggingIn, Runs, vars,
       serverVars, netVars, clientVars
  <2>2. CASE Next
    BY <2>2, SessionsServer, SessionsReceive, SessionsInput DEF Next
  <2> QED BY <2>1, <2>2
<1> QED BY <1>1, SessionsInit, TypeCorrect, PTL DEF Spec

(* The relay never reaches a user whose connection object OnClose deleted, *)
(* however many processes use one session: NoDeletedUser.                  *)
THEOREM NoDeletedUserHolds == Spec => []NoDeletedUser
<1>1. Sessions => NoDeletedUser  BY DEF Sessions
<1> QED BY <1>1, SessionsInvariant, PTL

(* A client knows who it is before it hears of anybody else: ReplyFirst.   *)
THEOREM ReplyFirstHolds == Spec => []ReplyFirst
<1>1. TypeOK /\ Sessions => ReplyFirst
  <2> SUFFICES ASSUME TypeOK, Sessions, NEW c \in Clients,
                      toClient[c] # <<>>, ~joined[c]
               PROVE  toClient[c][1].type = "Reply"
    BY DEF ReplyFirst
  <2>1. Session(c) /\ toClient[c] \in Seq(Msg)  BY DEF Sessions, TypeOK
  <2>2. Head(toClient[c]) \in {Reply(TRUE), Reply(FALSE)}
    BY <2>1, AnswersTail DEF Session
  <2>3. Head(toClient[c]).type = "Reply"  BY <2>2 DEF Reply
  <2> QED BY <2>1, <2>3, TailElements
<1> QED BY <1>1, TypeCorrect, SessionsInvariant, PTL

-----------------------------------------------------------------------------
(* The queues after a relay. *)
LEMMA RelayQueues ==
  ASSUME TypeOK, NEW c \in Clients, NEW S, NEW m, Relays(c, S, m),
         NEW d \in Clients
  PROVE  /\ toServer'[d] = IF d = c THEN Tail(toServer[d]) ELSE toServer[d]
         /\ toClient'[d] = IF d \in S /\ Writable(d)
                           THEN Append(toClient[d], m) ELSE toClient[d]
         /\ \A A : Has(toServer'[d], A) => Has(toServer[d], A)
         /\ \A A : Has(toClient'[d], A) =>
                     Has(toClient[d], A) \/ (d \in S /\ m \in A)
<1>1. /\ toServer'[d] = IF d = c THEN Tail(toServer[d]) ELSE toServer[d]
      /\ toClient'[d] = IF d \in S /\ Writable(d)
                        THEN Append(toClient[d], m) ELSE toClient[d]
  BY WriteReaches DEF Relays, Relay, TypeOK
<1>2. /\ toServer[d] \in Seq(Msg) /\ toClient[d] \in Seq(Msg) /\ m \in Msg
      /\ d = c => toServer[d] # <<>>
  BY DEF TypeOK, Relays
<1>3. ASSUME NEW A, Has(toServer'[d], A) PROVE Has(toServer[d], A)
  BY <1>1, <1>2, <1>3, HasTail
<1>4. ASSUME NEW A, Has(toClient'[d], A)
      PROVE  Has(toClient[d], A) \/ (d \in S /\ m \in A)
  BY <1>1, <1>2, <1>4, HasAppend
<1> QED BY <1>1, <1>3, <1>4

(* Nobody has asked or decided anything initially. *)
LEMMA RolesInit == Init => Roles
<1> SUFFICES ASSUME Init PROVE Roles
  OBVIOUS
<1>1. ASSUME NEW c \in Clients PROVE Role(c)
  <2>1. toServer[c] = <<>> /\ toClient[c] = <<>>  BY <1>1 DEF Init
  <2> QED BY <1>1, <2>1, EmptyQueue DEF Init, Role, Blank
<1> QED BY <1>1 DEF Roles, Init

(* A role lasts while the queues gain nothing that bears on it. *)
LEMMA RoleKept ==
  ASSUME NEW d \in Clients, Role(d), UNCHANGED <<app[d], joined[d]>>,
         UNCHANGED <<controling[d], ui[d], asking[d]>>,
         Has(toServer'[d], OfType("Agree")) => Has(toServer[d], OfType("Agree")),
         Has(toServer'[d], OfType("Take")) => Has(toServer[d], OfType("Take")),
         d \notin Teachers /\ Has(toClient'[d], OfType("Apply"))
           => Has(toClient[d], OfType("Apply"))
  PROVE  Role(d)'
  BY DEF Role, Runs

(* The server's handlers keep the roles. *)
LEMMA RolesServer ==
  ASSUME TypeOK, Sessions, Roles, NEW c \in Clients,
         Handle(c) \/ ReadEnds(c) \/ OnClose(c)
  PROVE  Roles'
<1> USE ClassAssumption
<1>1. ASSUME NEW S, NEW m, Relays(c, S, m), m.type = "Apply" => S \subseteq Teachers
      PROVE  Roles'
  <2>1. ASSUME NEW d \in Clients PROVE Role(d)'
    <3>1. /\ Role(d) /\ UNCHANGED <<app, joined, controling, ui, asking>>
          /\ m \in OfType("Apply") => S \subseteq Teachers
      BY <1>1, <2>1 DEF Roles, Relays, clientVars, OfType
    <3> QED BY <1>1, <2>1, <3>1, RelayQueues, RoleKept
  <2> QED BY <1>1, <2>1 DEF Roles, Relays
<1>2. CASE HandleLogin(c)
  <2>1. UNCHANGED <<app, joined, controling, ui, asking>>
    BY <1>2 DEF HandleLogin, clientVars
  <2>2. ASSUME NEW d \in Clients PROVE Role(d)'
    <3>1. Has(toServer'[d], OfType("Agree")) => Has(toServer[d], OfType("Agree"))
      BY <1>2, <2>2, HasTail DEF HandleLogin, Handles, TypeOK
    <3>2. Has(toServer'[d], OfType("Take")) => Has(toServer[d], OfType("Take"))
      BY <1>2, <2>2, HasTail DEF HandleLogin, Handles, TypeOK
    <3>3. PICK m \in {Reply(FALSE), Reply(TRUE), Peer} :
            toClient'[d] = toClient[d] \/ toClient'[d] = Append(toClient[d], m)
      <4>1. CASE Relay({c}, Reply(FALSE))
        BY <2>2, <4>1 DEF Relay, Write
      <4>2. CASE toClient' = Write(Write(toClient, {c}, Reply(TRUE)),
                                   classUsers \ {c}, Peer)
        BY <2>2, <4>2 DEF Write
      <4> QED BY <1>2, <4>1, <4>2 DEF HandleLogin
    <3>4. m \in Msg /\ m \notin OfType("Apply") /\ toClient[d] \in Seq(Msg)
      <4>1. /\ Reply(FALSE) \in Msg /\ Reply(FALSE).type = "Reply"
            /\ Reply(TRUE) \in Msg /\ Reply(TRUE).type = "Reply"
            /\ Peer \in Msg /\ Peer.type = "Peer"
        BY Commands DEF Reply, Peer, Command
      <4> QED BY <2>2, <4>1 DEF TypeOK, OfType
    <3>5. Has(toClient'[d], OfType("Apply")) => Has(toClient[d], OfType("Apply"))
      <4>1. Has(Append(toClient[d], m), OfType("Apply"))
              <=> Has(toClient[d], OfType("Apply"))
        BY <3>4, HasAppend
      <4> QED BY <3>3, <4>1
    <3> QED BY <2>1, <2>2, <3>1, <3>2, <3>5, RoleKept DEF Roles
  <2>3. classTeacher' \in Teachers \cup {NoClient}
    BY <1>2 DEF HandleLogin, AddClassUser, IsTeacher, Roles
  <2> QED BY <2>2, <2>3 DEF Roles
<1>3. CASE HandleApply(c)
  <2>1. {classTeacher} \ {NoClient} \subseteq Teachers  BY DEF Roles
  <2>2. NoDeletedUser  BY DEF Sessions
  <2> QED BY <1>1, <1>3, <2>1, <2>2, ApplyRelays
<1>4. CASE HandleAgree(c)
  <2>1. Head(toServer[c]).type # "Apply"  BY <1>4 DEF HandleAgree, Handles
  <2> QED BY <1>1, <1>4, <2>1, AgreeRelays
<1>5. CASE HandleTake(c)
  BY <1>1, <1>5, TakeRelays DEF Take, Command
<1>6. CASE HandleBoardData(c)
  BY <1>1, <1>6, SwitchRelays DEF Switch, Command
<1>7. CASE ReadEnds(c)
  <2>1. ASSUME NEW d \in Clients PROVE Role(d)'
    <3>1. toServer'[d] = toServer[d] \/ toServer'[d] = <<>>
      BY <1>7, <2>1 DEF ReadEnds, TypeOK
    <3> QED BY <1>7, <2>1, <3>1, EmptyQueue, RoleKept
         DEF Roles, ReadEnds, clientVars
  <2> QED BY <1>7, <2>1 DEF Roles, ReadEnds
<1>8. CASE OnClose(c)
  BY <1>8 DEF OnClose, RemoveUser, Roles, Role, Runs, netVars, clientVars
<1> QED BY <1>2, <1>3, <1>4, <1>5, <1>6, <1>7, <1>8 DEF Handle

(* The clients' handlers keep the roles. *)
LEMMA RolesReceive ==
  ASSUME TypeOK, Sessions, Roles, NEW c \in Clients, Receive(c)
  PROVE  Roles'
<1>1. ASSUME NEW d \in Clients, d # c PROVE Role(d)'
  <2>1. /\ UNCHANGED <<app[d], joined[d], controling[d], ui[d], asking[d]>>
        /\ UNCHANGED <<toServer[d], toClient[d]>>
    BY <1>1 DEF Receive, OnBoardLogin, OnPeerLogin, OnStudentApplyBoard,
       OnTeacherAgreeBoard, OnTeacherTakeBoard, PlayNetworkSwitchPage,
       Receives, Send, Show, SetEnableCurrentPage, clientVars, TypeOK
  <2> QED BY <1>1, <2>1, RoleKept DEF Roles
<1>2. UNCHANGED classTeacher
  BY DEF Receive, OnBoardLogin, OnPeerLogin, OnStudentApplyBoard,
     OnTeacherAgreeBoard, OnTeacherTakeBoard, PlayNetworkSwitchPage, serverVars
<1>3. SUFFICES Role(c)'  BY <1>1, <1>2 DEF Roles
<1>4. Role(c) /\ Session(c)  BY DEF Roles, Sessions
<1>5. Has(toClient'[c], OfType("Apply")) => Has(toClient[c], OfType("Apply"))
  BY HasTail DEF Receive, OnBoardLogin, OnPeerLogin, OnStudentApplyBoard,
     OnTeacherAgreeBoard, OnTeacherTakeBoard, PlayNetworkSwitchPage,
     Receives, TypeOK
<1>6. CASE OnBoardLogin(c)
  <2>1. /\ UNCHANGED <<app, asking, toServer>>
        /\ joined[c] => joined'[c]
    BY <1>6 DEF OnBoardLogin, TypeOK
  <2>2. c \notin Teachers /\ ~AllTeachers =>
          UNCHANGED controling /\ ui'[c].button = "apply"
    <3>1. SUFFICES ASSUME c \notin Teachers, ~AllTeachers
                   PROVE  UNCHANGED controling /\ ui'[c].button = "apply"
      OBVIOUS
    <3>2. /\ UNCHANGED controling
          /\ Show(c, FALSE, TRUE, FALSE) \/ Show(c, FALSE, TRUE, TRUE)
      BY <1>6, <3>1 DEF OnBoardLogin, IsDemo, IsTeacher
    <3>3. ui[c].button \in {"none", "apply"}
      BY <1>4, <3>1 DEF Role, TypeOK
    <3> QED BY <3>2, <3>3, ShowButton
  <2> QED BY <1>4, <1>5, <2>1, <2>2 DEF Role, Runs
<1>7. CASE OnPeerLogin(c)
  <2>1. ASSUME NEW t, t # "Switch", Has(toServer'[c], OfType(t))
        PROVE  Has(toServer[c], OfType(t))
    <3>1. toServer[c] \in Seq(Msg) /\ Switch \in Msg /\ Switch \notin OfType(t)
      BY <2>1, Commands DEF TypeOK, Switch, Command, OfType
    <3>2. toServer'[c] = toServer[c] \/ toServer'[c] = Append(toServer[c], Switch)
      BY <1>7 DEF OnPeerLogin, Send, TypeOK
    <3>3. Has(Append(toServer[c], Switch), OfType(t))
            <=> Has(toServer[c], OfType(t))
      BY <3>1, HasAppend
    <3> QED BY <2>1, <3>2, <3>3
  <2>2. UNCHANGED <<app, joined, controling, ui, asking>>
    BY <1>7 DEF OnPeerLogin, clientVars
  <2>3. /\ Has(toServer'[c], OfType("Agree")) => Has(toServer[c], OfType("Agree"))
        /\ Has(toServer'[c], OfType("Take")) => Has(toServer[c], OfType("Take"))
    BY <2>1
  <2> QED BY <1>4, <1>5, <2>2, <2>3, RoleKept
<1>8. CASE OnStudentApplyBoard(c)
  <2>1. c \in Teachers
    <3>1. Has(toClient[c], OfType("Apply"))
      BY <1>8, ReceivesWhen, HasTail DEF OnStudentApplyBoard
    <3> QED BY <1>4, <3>1 DEF Role, Runs
  <2> QED BY <1>4, <1>8, <2>1 DEF OnStudentApplyBoard, Role, Runs
<1>9. CASE OnTeacherAgreeBoard(c)
  <2>1. /\ UNCHANGED <<app, joined, asking, toServer>>
        /\ \/ UNCHANGED <<ui, controling>>
           \/ /\ ui'[c].button # "none"
              /\ ui[c].button # "take" => ui'[c].button # "take"
    <3>1. \/ UNCHANGED <<ui, controling>>
          \/ Show(c, FALSE, TRUE, TRUE) \/ Show(c, TRUE, TRUE, FALSE)
      BY <1>9 DEF OnTeacherAgreeBoard
    <3> QED BY <1>9, <3>1, ShowButton DEF OnTeacherAgreeBoard
  <2> QED BY <1>4, <1>5, <2>1 DEF Role, Runs
<1>10. CASE OnTeacherTakeBoard(c)
  <2>1. /\ UNCHANGED <<app, joined, asking, toServer>>
        /\ \/ UNCHANGED <<ui, controling>>
           \/ /\ controling[c] /\ ~controling'[c]
              /\ ui[c].button # "none" => ui'[c].button = ui[c].button
    BY <1>10 DEF OnTeacherTakeBoard, Show, SetEnabled, SetEnableCurrentPage, TypeOK
  <2> QED BY <1>4, <1>5, <2>1 DEF Role, Runs
<1>11. CASE PlayNetworkSwitchPage(c)
  <2>1. UNCHANGED <<app, joined, asking, toServer, ui>> /\ ~controling'[c]
    BY <1>11 DEF PlayNetworkSwitchPage, SetEnableCurrentPage, TypeOK
  <2> QED BY <1>4, <1>5, <2>1 DEF Role, Runs
<1> QED BY <1>6, <1>7, <1>8, <1>9, <1>10, <1>11 DEF Receive

(* A process that retries keeps its user's part. *)
LEMMA RolesRetry ==
  ASSUME TypeOK, Sessions, Roles, NEW c \in Clients, NEW d \in Clients,
         ShowNetworkRetry(c, d)
  PROVE  Roles'
<1>1. /\ c # d /\ Role(c) /\ Role(d) /\ Session(d)
      /\ d \in Teachers <=> c \in Teachers
      /\ toClient[d] = <<>> /\ asking[c] = NoUser /\ asking[d] = NoUser
  BY DEF ShowNetworkRetry, Roles, Sessions, Session, Runs
<1>2. /\ app'[c] = "gone" /\ ~controling'[c] /\ ui'[c] = Blank
      /\ toClient'[c] = <<>> /\ toServer'[c] = toServer[c]
      /\ toServer'[d] = <<Login, Login>> /\ toClient'[d] = <<>>
      /\ ui'[d] = ui[c] /\ controling'[d] = controling[c]
      /\ UNCHANGED <<asking, classTeacher>>
  BY <1>1 DEF ShowNetworkRetry, TypeOK
<1>3. Role(c)'  BY <1>1, <1>2, EmptyQueue DEF Role, Runs, Blank
<1>4. Role(d)'
  <2>1. DOMAIN <<Login, Login>> = 1..2
        /\ \A i \in 1..2 : <<Login, Login>>[i] = Login
    OBVIOUS
  <2>2. Login \notin OfType("Agree") /\ Login \notin OfType("Take")
    BY DEF Login, Command, OfType
  <2>3. ~Has(toServer'[d], OfType("Agree")) /\ ~Has(toServer'[d], OfType("Take"))
    BY <1>2, <2>1, <2>2 DEF Has
  <2> QED BY <1>1, <1>2, <2>3, EmptyQueue DEF Role, Runs
<1>5. ASSUME NEW e \in Clients \ {c, d} PROVE Role(e)'
  <2>1. /\ UNCHANGED <<app[e], joined[e], controling[e], ui[e], asking[e]>>
        /\ UNCHANGED <<toServer[e], toClient[e]>>
    BY <1>5 DEF ShowNetworkRetry, TypeOK
  <2> QED BY <1>5, <2>1, RoleKept DEF Roles
<1> QED BY <1>2, <1>3, <1>4, <1>5 DEF Roles

(* What users do keeps the roles. *)
LEMMA RolesInput ==
  ASSUME TypeOK, Sessions, Roles, NEW c \in Clients, Input(c)
  PROVE  Roles'
<1> USE ClassAssumption
<1>0. ASSUME NEW d \in Clients, ShowNetworkRetry(c, d) PROVE Roles'
  BY <1>0, RolesRetry
<1>1. SUFFICES ASSUME \/ Connect(c) \/ OnApplyBoard(c) \/ OnTakeBoard(c)
                      \/ SwitchPage(c) \/ Leave(c)
                      \/ \E yes \in BOOLEAN : AnswerApply(c, yes)
               PROVE  Roles'
  BY <1>0 DEF Input
<1>2. ASSUME NEW d \in Clients, d # c PROVE Role(d)'
  <2>1. /\ UNCHANGED <<app[d], joined[d], controling[d], ui[d], asking[d]>>
        /\ UNCHANGED <<toServer[d], toClient[d]>>
    BY <1>1, <1>2 DEF Connect, OnApplyBoard, OnTakeBoard, SwitchPage,
       AnswerApply, Leave, Send, Show, SetEnableCurrentPage, clientVars, TypeOK
  <2> QED BY <1>2, <2>1, RoleKept DEF Roles
<1>3. UNCHANGED classTeacher
  BY <1>1 DEF Connect, OnApplyBoard, OnTakeBoard, SwitchPage, AnswerApply,
     Leave, serverVars
<1> SUFFICES Role(c)'  BY <1>2, <1>3 DEF Roles
<1>4. Role(c) /\ Session(c)  BY DEF Roles, Sessions
<1>5. ASSUME NEW m \in Msg, Send(c, m), NEW t, m.type # t,
             Has(toServer'[c], OfType(t))
      PROVE  Has(toServer[c], OfType(t))
  <2>1. /\ toServer'[c] = Append(toServer[c], m) /\ toServer[c] \in Seq(Msg)
        /\ m \notin OfType(t)
    BY <1>5 DEF Send, TypeOK, OfType
  <2> QED BY <1>5, <2>1, HasAppend
<1>6. CASE Connect(c)
  <2>1. /\ Login.type = "Login" /\ Login \in Msg /\ Send(c, Login)
        /\ app[c] = "off" /\ UNCHANGED <<toClient, joined, controling, ui, asking>>
    BY <1>6, Commands DEF Connect, Login, Command
  <2>2. ~Has(toServer[c], OfType("Agree")) /\ ~Has(toServer[c], OfType("Take"))
    BY <1>4, <2>1, EmptyQueue DEF Session
  <2>3. ~Has(toServer'[c], OfType("Agree")) /\ ~Has(toServer'[c], OfType("Take"))
    BY <1>5, <2>1, <2>2
  <2> QED BY <1>4, <2>1, <2>3 DEF Role, Runs
<1>7. CASE OnApplyBoard(c)
  <2>1. /\ Apply(UserId[c]) \in Msg /\ Apply(UserId[c]).type = "Apply"
        /\ Send(c, Apply(UserId[c])) /\ UNCHANGED toClient
        /\ UNCHANGED <<app, joined, controling, ui, asking>>
    BY <1>7, Commands DEF Apply, OnApplyBoard, clientVars
  <2> QED BY <1>4, <1>5, <2>1, RoleKept
<1>8. CASE OnTakeBoard(c)
  <2>1. /\ Take \in Msg /\ Take.type = "Take" /\ Send(c, Take)
        /\ ui[c].button = "take" /\ UNCHANGED <<app, joined, asking, toClient>>
    BY <1>4, <1>8, Commands DEF Take, Command, OnTakeBoard
  <2>2. c \in Teachers \/ AllTeachers  BY <1>4, <2>1 DEF Role, Runs
  <2>3. Has(toServer'[c], OfType("Agree")) => Has(toServer[c], OfType("Agree"))
    BY <1>5, <2>1
  <2> QED BY <1>4, <2>1, <2>2, <2>3 DEF Role, Runs
<1>9. CASE SwitchPage(c)
  <2>1. /\ Switch \in Msg /\ Switch.type = "Switch" /\ Send(c, Switch)
        /\ UNCHANGED <<app, joined, controling, ui, asking, toClient>>
    BY <1>9, Commands DEF Switch, Command, SwitchPage, clientVars
  <2> QED BY <1>4, <1>5, <2>1, RoleKept
<1>10. ASSUME NEW yes \in BOOLEAN, AnswerApply(c, yes) PROVE Role(c)'
  <2>1. asking[c] # NoUser /\ UNCHANGED <<app, joined>>
    BY <1>10 DEF AnswerApply
  <2>2. c \in Teachers /\ joined'[c]  BY <1>4, <2>1 DEF Role, Session
  <2> QED BY <2>2 DEF Role, Runs
<1>11. CASE Leave(c)
  BY <1>4, <1>11, EmptyQueue DEF Leave, Role, Runs, Blank, TypeOK
<1> QED BY <1>1, <1>6, <1>7, <1>8, <1>9, <1>10, <1>11

(* Roles is invariant. *)
LEMMA RolesInvariant == Spec => []Roles
<1>1. TypeOK /\ Sessions /\ Roles /\ [Next]_vars => Roles'
  <2> SUFFICES ASSUME TypeOK, Sessions, Roles, [Next]_vars PROVE Roles'
    OBVIOUS
  <2>1. CASE UNCHANGED vars
    BY <2>1 DEF Roles, Role, Runs, vars, serverVars, netVars, clientVars
  <2>2. CASE Next
    BY <2>2, RolesServer, RolesReceive, RolesInput DEF Next
  <2> QED BY <2>1, <2>2
<1> QED BY <1>1, RolesInit, TypeCorrect, SessionsInvariant, PTL DEF Spec

-----------------------------------------------------------------------------
(* Users that come back.                                                   *)

(* A connection once used stays so, and a user once back too. *)
LEMMA OnceUsed ==
  ASSUME TypeOK, Next
  PROVE  /\ \A c \in Clients : app[c] # "off" => app'[c] # "off"
         /\ \A u : CameBack(u) => CameBack(u)'
         /\ UNCHANGED holder /\ TeacherBack => TeacherBack'
<1>1. ASSUME NEW c \in Clients, NEW d \in Clients, app[d] # "off",
             Handle(c) \/ ReadEnds(c) \/ OnClose(c) \/ Receive(c) \/ Input(c)
      PROVE  app'[d] # "off"
  <2>1. CASE Handle(c) \/ ReadEnds(c) \/ OnClose(c)
    BY <1>1, <2>1 DEF Handle, HandleLogin, HandleApply, HandleAgree, HandleTake,
       HandleBoardData, ReadEnds, OnClose, clientVars
  <2>2. CASE Receive(c)
    BY <1>1, <2>2 DEF Receive, OnBoardLogin, OnPeerLogin, OnStudentApplyBoard,
       OnTeacherAgreeBoard, OnTeacherTakeBoard, PlayNetworkSwitchPage, clientVars
  <2>3. CASE Input(c)
    BY <1>1, <2>3 DEF Input, Connect, OnApplyBoard, OnTakeBoard, SwitchPage,
       AnswerApply, Leave, ShowNetworkRetry, clientVars, TypeOK
  <2> QED BY <1>1, <2>1, <2>2, <2>3
<1>2. \A c \in Clients : app[c] # "off" => app'[c] # "off"
  BY <1>1 DEF Next
<1>3. \A u : CameBack(u) => CameBack(u)'  BY <1>2 DEF CameBack
<1> QED BY <1>2, <1>3 DEF TeacherBack

(* The user of a used connection is back when it uses another one. *)
LEMMA UsedTwice ==
  ASSUME NEW c \in Clients, NEW d \in Clients, c # d, UserId[c] = UserId[d],
         app[c] # "off", app[d] # "off"
  PROVE  CameBack(UserId[c]) /\ CameBack(UserId[d])
  BY DEF CameBack

(* A user that has not come back has one process, which logs in once. *)
FirstUse(c) ==
  ~CameBack(UserId[c]) =>
    app[c] # "again" /\ (LoggingIn(c) => toServer[c] = <<Login>>)
FirstUses == \A c \in Clients : FirstUse(c)

(* A client that has gone sends nothing more. *)
LEMMA GoneSilent ==
  ASSUME TypeOK, Next, NEW d \in Clients, app'[d] = "gone"
  PROVE  \/ toServer'[d] \in {toServer[d], <<>>}
         \/ toServer[d] # <<>> /\ toServer'[d] = Tail(toServer[d])
<1> SUFFICES ASSUME NEW c \in Clients,
               Handle(c) \/ ReadEnds(c) \/ OnClose(c) \/ Receive(c) \/ Input(c)
             PROVE  \/ toServer'[d] \in {toServer[d], <<>>}
                    \/ toServer[d] # <<>> /\ toServer'[d] = Tail(toServer[d])
  BY DEF Next
<1>1. CASE Handle(c) \/ ReadEnds(c) \/ OnClose(c)
  BY <1>1 DEF Handle, HandleLogin, HandleApply, HandleAgree, HandleTake,
     HandleBoardData, Handles, ReadEnds, OnClose, netVars, TypeOK
<1>2. CASE Receive(c)
  <2>1. /\ app[c] # "gone" /\ UNCHANGED app
        /\ toServer' = toServer \/ Send(c, Switch)
    BY <1>2 DEF Receive, OnBoardLogin, OnPeerLogin, OnStudentApplyBoard, Receives,
       Runs, OnTeacherAgreeBoard, OnTeacherTakeBoard, PlayNetworkSwitchPage, clientVars
  <2> QED BY <2>1 DEF Send, TypeOK
<1>3. CASE Input(c)
  <2>1. ASSUME NEW m, Send(c, m), app'[c] # "gone"
        PROVE  toServer'[d] = toServer[d]
    BY <2>1 DEF Send, TypeOK
  <2>2. CASE Connect(c) \/ OnApplyBoard(c) \/ OnTakeBoard(c) \/ SwitchPage(c)
    BY <2>1, <2>2 DEF Connect, OnApplyBoard, OnTakeBoard, SwitchPage, AtDesk, Runs,
       clientVars, TypeOK
  <2>3. ASSUME NEW yes \in BOOLEAN, AnswerApply(c, yes)
        PROVE  toServer'[d] = toServer[d]
    BY <2>1, <2>3 DEF AnswerApply, Runs
  <2>4. CASE Leave(c)  BY <2>4 DEF Leave
  <2>5. ASSUME NEW e \in Clients, ShowNetworkRetry(c, e)
        PROVE  toServer'[d] = toServer[d]
    BY <2>5 DEF ShowNetworkRetry, TypeOK
  <2> QED BY <1>3, <2>2, <2>3, <2>4, <2>5 DEF Input
<1> QED BY <1>1, <1>2, <1>3

(* Only a user that comes back has a process that retried. *)
LEMMA AgainBack ==
  ASSUME TypeOK, Next, NEW d \in Clients, app'[d] = "again", app[d] # "again"
  PROVE  CameBack(UserId[d])'
<1> PICK c \in Clients :
      Handle(c) \/ ReadEnds(c) \/ OnClose(c) \/ Receive(c) \/ Input(c)
  BY DEF Next
<1>1. PICK e \in Clients : ShowNetworkRetry(c, e)
  <2>1. CASE Handle(c) \/ ReadEnds(c) \/ OnClose(c)
    BY <2>1 DEF Handle, HandleLogin, HandleApply, HandleAgree, HandleTake,
       HandleBoardData, ReadEnds, OnClose, clientVars
  <2>2. CASE Receive(c)
    BY <2>2 DEF Receive, OnBoardLogin, OnPeerLogin, OnStudentApplyBoard,
       OnTeacherAgreeBoard, OnTeacherTakeBoard, PlayNetworkSwitchPage, clientVars
  <2>3. CASE Input(c)
    BY <2>3 DEF Input, Connect, OnApplyBoard, OnTakeBoard, SwitchPage,
       AnswerApply, Leave, clientVars, TypeOK
  <2> QED BY <2>1, <2>2, <2>3
<1>2. /\ d = e /\ c # d /\ UserId[c] = UserId[d]
      /\ app'[c] # "off" /\ app'[d] # "off"
  BY <1>1 DEF ShowNetworkRetry, TypeOK
<1> QED BY <1>2 DEF CameBack

(* FirstUses is invariant. *)
LEMMA FirstUsesInvariant == Spec => []FirstUses
<1>1. Init => FirstUses
  <2> SUFFICES ASSUME Init, NEW c \in Clients PROVE FirstUse(c)
    BY DEF FirstUses
  <2>1. toServer[c] = <<>> /\ app[c] = "off"  BY DEF Init
  <2> QED BY <2>1, EmptyQueue DEF FirstUse, LoggingIn
<1>2. TypeOK /\ TypeOK' /\ Sessions' /\ FirstUses /\ [Next]_vars => FirstUses'
  <2> SUFFICES ASSUME TypeOK, TypeOK', Sessions', FirstUses, [Next]_vars,
                      NEW d \in Clients
               PROVE  FirstUse(d)'
    BY DEF FirstUses
  <2>1. CASE UNCHANGED vars
    BY <2>1 DEF FirstUses, FirstUse, CameBack, LoggingIn, vars, netVars, clientVars
  <2>2. CASE Next
    <3> SUFFICES ASSUME ~CameBack(UserId[d])'
                 PROVE  app'[d] # "again" /\ (LoggingIn(d)' => toServer'[d] = <<Login>>)
      BY DEF FirstUse
    <3>1. app[d] # "again" /\ (LoggingIn(d) => toServer[d] = <<Login>>)
      BY <2>2, OnceUsed DEF FirstUses, FirstUse
    <3>2. app'[d] # "again"  BY <2>2, <3>1, AgainBack
    <3>3. Session(d)' /\ toServer[d] \in Seq(Msg)  BY DEF Sessions, TypeOK
    <3>4. CASE app'[d] = "on"
      BY <3>2, <3>3, <3>4 DEF Session, OneLogin
    <3>5. CASE app'[d] = "off"
      <4>1. ~LoggingIn(d)'  BY <3>3, <3>5, EmptyQueue DEF Session, LoggingIn
      <4> QED BY <3>2, <4>1
    <3>6. CASE app'[d] = "gone"
      <4> SUFFICES ASSUME LoggingIn(d)' PROVE toServer'[d] = <<Login>>
        BY <3>2
      <4>1. toServer'[d] # <<>>  BY EmptyQueue DEF LoggingIn
      <4>2. \/ toServer'[d] = toServer[d]
            \/ toServer[d] # <<>> /\ toServer'[d] = Tail(toServer[d])
        BY <2>2, <3>6, <4>1, GoneSilent
      <4>3. LoggingIn(d)  BY <3>3, <4>2, HasTail DEF LoggingIn
      <4> QED BY <3>1, <4>1, <4>2, <4>3, EmptyTail
    <3> QED BY <3>2, <3>4, <3>5, <3>6 DEF TypeOK
  <2> QED BY <2>1, <2>2
<1> QED BY <1>1, <1>2, TypeCorrect, SessionsInvariant, PTL DEF Spec

-----------------------------------------------------------------------------
(* The relay arbitrates the decisions if the class has one teacher, though *)
(* it may come back, and a demo class has none.                            *)
OneTeacher ==
  /\ \A a, b \in Teachers : UserId[a] = UserId[b]
  /\ AllTeachers => Teachers = {}

(* What each command does to the control a client has. *)
LEMMA Effects ==
  ASSUME NEW c \in Clients, NEW m \in Msg
  PROVE  /\ m.type \in {"Take", "Switch"} => m \in Revoking(c)
         /\ m.type \notin {"Reply", "Agree"} => m \notin Enabling(c)
         /\ m \in Grants => m \in OfType("Agree")
         /\ m \in Enabling(c) /\ c \notin Teachers => m \in OfType("Agree")
         /\ c \in Teachers => (m \in Enabling(c) <=> m.type = "Reply" /\ m.yes)
         /\ m.type = "Reply" => m \notin Revoking(c) /\ m \notin Grants
  BY DEF Enabling, Revoking, Revokes, Grants, OfType

(* An agreement gives control to the user it names and takes it from *)
(* others.                                                           *)
LEMMA AgreeEffects ==
  ASSUME NEW c \in Clients, c \notin Teachers, NEW m \in Msg, m.type = "Agree"
  PROVE  /\ m.yes /\ m.user # UserId[c] => m \in Revoking(c) /\ m \notin Enabling(c)
         /\ m.yes /\ m.user = UserId[c] => m \in Enabling(c)
         /\ ~m.yes => m \notin Enabling(c)
<1>1. m.yes \in BOOLEAN  BY DEF Msg
<1> QED BY <1>1 DEF Enabling, Revoking, Revokes, Grants, OfType, IsTeacher

(* Without an answer on its way, nothing enables a student. *)
LEMMA NoEnabling ==
  ASSUME NEW c \in Clients, c \notin Teachers, NEW q \in Seq(Msg),
         ~Has(q, OfType("Agree"))
  PROVE  ~Has(q, Enabling(c))
  BY DEF Has, Enabling, Grants, OfType

(* What a relay does to a client that it takes control from. *)
LEMMA RelayRevokes ==
  ASSUME TypeOK, Sessions, NEW c \in Clients, NEW S, NEW m, Relays(c, S, m),
         NEW d \in Clients, d \in classUsers => d \in S, app[d] # "again",
         m \in Revoking(d), m \notin Enabling(d)
  PROVE  /\ Followed(toClient'[d], Enabling(d), Revoking(d))
         /\ controling[d] => Has(toClient'[d], Revoking(d))
<1>1. /\ Session(d) /\ toClient[d] \in Seq(Msg) /\ m \in Msg
      /\ toClient'[d] = IF d \in S /\ Writable(d)
                        THEN Append(toClient[d], m) ELSE toClient[d]
  BY RelayQueues DEF Sessions, TypeOK, Relays
<1>2. CASE d \in S /\ Writable(d)
  <2>1. Followed(Append(toClient[d], m), Enabling(d), Revoking(d))
    BY <1>1, FollowedAppend
  <2>2. Has(Append(toClient[d], m), Revoking(d))  BY <1>1, HasAppend
  <2> QED BY <1>1, <1>2, <2>1, <2>2
<1>3. CASE ~(d \in S /\ Writable(d))
  <2>1. ~controling[d] /\ toClient[d] \in {<<>>, <<Reply(FALSE)>>}
    <3>1. CASE Runs(d)
      BY <1>1, <1>3, <3>1 DEF Session, OneLogin, Runs, Writable
    <3>2. CASE ~Runs(d)  BY <1>1, <3>2 DEF Session
    <3> QED BY <3>1, <3>2
  <2>2. Reply(FALSE) \notin Enabling(d)
    BY DEF Enabling, Grants, OfType, Reply
  <2>3. ~Has(toClient[d], Enabling(d))
    BY <2>1, <2>2, EmptyQueue, HasSingle
  <2> QED BY <1>1, <1>3, <2>1, <2>3, FollowedNone
<1> QED BY <1>2, <1>3

-----------------------------------------------------------------------------
(* Students, whatever the teachers do: with any number of teachers, coming *)
(* back or not, and in demo classes too, of two students one does not have *)
(* the board, or is about to lose it, or is taking it and will be relayed  *)
(* over the others, or is a process that has retried.                      *)
Out(c) ==
  /\ controling[c] => Has(toClient[c], Revoking(c))
  /\ Followed(toClient[c], Enabling(c), Revoking(c))
Yields(c) == app[c] = "again" \/ Out(c) \/ Has(toServer[c], OfType("Take"))
OneYields ==
  \A a, b \in Clients \ Teachers : UserId[a] # UserId[b] => Yields(a) \/ Yields(b)

(* A client that is not running has nothing to yield. *)
LEMMA GoneYields ==
  ASSUME NEW d \in Clients, toClient[d] = <<>>, ~controling[d]
  PROVE  Yields(d)
  BY EmptyQueue DEF Yields, Out

(* A step that gives d nothing new to enable it leaves d yielding. *)
LEMMA YieldsKept ==
  ASSUME TypeOK, NEW d \in Clients, Yields(d), controling'[d] => controling[d],
         app[d] = "again" => app'[d] = "again",
         Has(toServer[d], OfType("Take")) => Has(toServer'[d], OfType("Take")),
         NEW m \in Msg, m \notin Enabling(d),
         toClient'[d] = toClient[d] \/ toClient'[d] = Append(toClient[d], m)
  PROVE  Yields(d)'
<1>1. toClient[d] \in Seq(Msg)  BY DEF TypeOK
<1>2. Followed(toClient[d], Enabling(d), Revoking(d))
        => Followed(toClient'[d], Enabling(d), Revoking(d))
  BY <1>1, FollowedAppend
<1>3. Has(toClient[d], Revoking(d)) => Has(toClient'[d], Revoking(d))
  <2>1. Has(Append(toClient[d], m), Revoking(d))
          <=> Has(toClient[d], Revoking(d)) \/ m \in Revoking(d)
    BY <1>1, HasAppend
  <2> QED BY <2>1
<1> QED BY <1>2, <1>3 DEF Yields, Out, Enabling, Revoking, Grants, OfType

(* A relay of what enables no student keeps whoever yields yielding,        *)
(* unless it is the take of the one that was taking.                       *)
LEMMA YieldsRelay ==
  ASSUME TypeOK, NEW c \in Clients, NEW S, NEW m, Relays(c, S, m),
         NEW d \in Clients, Yields(d), m \notin Enabling(d),
         d # c \/ Head(toServer[c]).type # "Take"
  PROVE  Yields(d)'
<1>1. /\ m \in Msg /\ UNCHANGED <<controling, app>>
      /\ toServer[d] \in Seq(Msg)
      /\ d = c => toServer[d] # <<>>
      /\ toServer'[d] = IF d = c THEN Tail(toServer[d]) ELSE toServer[d]
      /\ toClient'[d] = toClient[d] \/ toClient'[d] = Append(toClient[d], m)
  <2>1. /\ toServer'[d] = IF d = c THEN Tail(toServer[d]) ELSE toServer[d]
        /\ toClient'[d] = IF d \in S /\ Writable(d)
                          THEN Append(toClient[d], m) ELSE toClient[d]
    BY RelayQueues
  <2> QED BY <2>1 DEF Relays, clientVars, TypeOK
<1>2. Has(toServer[d], OfType("Take")) => Has(toServer'[d], OfType("Take"))
  BY <1>1, HasTail DEF OfType
<1> QED BY <1>1, <1>2, YieldsKept

(* A relay that takes the board from d makes it yield. *)
LEMMA YieldsRevoked ==
  ASSUME TypeOK, Sessions, NEW c \in Clients, NEW S, NEW m, Relays(c, S, m),
         NEW d \in Clients, d \in classUsers => d \in S,
         m \in Revoking(d), m \notin Enabling(d)
  PROVE  Yields(d)'
<1> SUFFICES ASSUME app[d] # "again" PROVE Yields(d)'
  BY DEF Yields, Relays, clientVars
<1>1. /\ Followed(toClient'[d], Enabling(d), Revoking(d))
      /\ controling[d] => Has(toClient'[d], Revoking(d))
  BY RelayRevokes
<1>2. UNCHANGED controling  BY DEF Relays, clientVars
<1> QED BY <1>1, <1>2 DEF Yields, Out, Enabling, Revoking, Grants, OfType

(* The server's handlers: a take or an agreement leaves at most the one    *)
(* student it is for not yielding.                                         *)
LEMMA OneYieldsServer ==
  ASSUME TypeOK, Sessions, OneYields, NEW c \in Clients,
         Handle(c) \/ ReadEnds(c) \/ OnClose(c)
  PROVE  OneYields'
<1> SUFFICES ASSUME NEW a \in Clients \ Teachers, NEW b \in Clients \ Teachers,
                    UserId[a] # UserId[b]
             PROVE  Yields(a)' \/ Yields(b)'
  BY DEF OneYields
<1>1. /\ Yields(a) \/ Yields(b)
      /\ \A d \in {a, b} : d \in Clients /\ d \notin Teachers
  BY DEF OneYields
<1>2. ASSUME NEW S, NEW m, Relays(c, S, m), m.type # "Agree" \/ ~m.yes,
             Head(toServer[c]).type # "Take", NEW d \in {a, b}, Yields(d)
      PROVE  Yields(d)'
  <2>1. m \in Msg /\ m.type # "Reply"  BY <1>2 DEF Relays
  <2>2. m \notin Enabling(d)  BY <1>1, <1>2, <2>1, Effects, AgreeEffects
  <2> QED BY <1>1, <1>2, <2>2, YieldsRelay
<1>3. CASE HandleLogin(c)
  <2>1. ASSUME NEW d \in {a, b}, Yields(d) PROVE Yields(d)'
    <3>1. /\ d \in Clients /\ d \notin Teachers /\ toServer[d] \in Seq(Msg)
          /\ UNCHANGED <<app, controling>>
          /\ toServer'[d] = IF d = c THEN Tail(toServer[d]) ELSE toServer[d]
          /\ toServer[c] # <<>> /\ Head(toServer[c]).type = "Login"
      BY <1>1, <1>3, LoginQueues DEF TypeOK, HandleLogin, Handles
    <3>2. Has(toServer[d], OfType("Take")) => Has(toServer'[d], OfType("Take"))
      BY <3>1, HasTail DEF OfType
    <3>3. PICK m \in {Reply(TRUE), Reply(FALSE), Peer} :
            toClient'[d] = toClient[d] \/ toClient'[d] = Append(toClient[d], m)
      BY <1>3, <3>1, LoginQueues
    <3>4. m \in Msg /\ m \notin Enabling(d)
      BY <3>1, Commands, Effects DEF Reply, Peer, Command, OfType
    <3> QED BY <2>1, <3>1, <3>2, <3>3, <3>4, YieldsKept
  <2> QED BY <1>1, <2>1
<1>4. CASE HandleApply(c)
  <2>1. Head(toServer[c]).type = "Apply"  BY <1>4 DEF HandleApply, Handles
  <2> QED BY <1>1, <1>2, <1>4, <2>1, ApplyRelays DEF Sessions
<1>5. CASE HandleAgree(c)
  <2> DEFINE m == Head(toServer[c])
  <2>1. /\ Relays(c, classUsers, m) /\ m.type = "Agree" /\ m \in Msg
    BY <1>5, AgreeRelays DEF HandleAgree, Handles, Relays
  <2>2. CASE ~m.yes  BY <1>1, <1>2, <2>1, <2>2
  <2>3. CASE m.yes
    <3>1. PICK d \in {a, b} : m.user # UserId[d]  OBVIOUS
    <3>2. m \in Revoking(d) /\ m \notin Enabling(d)
      BY <1>1, <2>1, <2>3, <3>1, AgreeEffects
    <3> QED BY <1>1, <2>1, <3>2, YieldsRevoked
  <2> QED BY <2>2, <2>3
<1>6. CASE HandleTake(c)
  <2>1. PICK d \in {a, b} : d # c  OBVIOUS
  <2>2. Relays(c, classUsers \ {c}, Take)  BY <1>6, TakeRelays
  <2>3. Take \in Revoking(d) /\ Take \notin Enabling(d)
    BY <1>1, Commands, Effects DEF Take, Command
  <2> QED BY <1>1, <2>1, <2>2, <2>3, YieldsRevoked
<1>7. CASE HandleBoardData(c)
  <2>1. Head(toServer[c]).type = "Switch" /\ Switch.type = "Switch"
    BY <1>7 DEF HandleBoardData, Handles, Switch, Command
  <2> QED BY <1>1, <1>2, <1>7, <2>1, SwitchRelays
<1>8. CASE ReadEnds(c)
  <2>1. ASSUME NEW d \in {a, b}, Yields(d) PROVE Yields(d)'
    <3>1. /\ Session(c) /\ app[c] = "gone" /\ UNCHANGED <<toClient, controling, app>>
          /\ toServer'[d] = IF d = c THEN <<>> ELSE toServer[d]
      BY <1>1, <1>8 DEF Sessions, ReadEnds, clientVars, TypeOK
    <3>2. CASE d = c
      <4>1. toClient[d] = <<>> /\ ~controling[d]
        BY <3>1, <3>2 DEF Session, Runs
      <4> QED BY <3>1, <4>1, EmptyQueue
           DEF Yields, Out, Enabling, Revoking, Grants, OfType
    <3>3. CASE d # c
      BY <2>1, <3>1, <3>3 DEF Yields, Out, Enabling, Revoking, Grants, OfType
    <3> QED BY <3>2, <3>3
  <2> QED BY <1>1, <2>1
<1>9. CASE OnClose(c)
  <2>1. UNCHANGED <<toServer, toClient, controling, app>>
    BY <1>9 DEF OnClose, netVars, clientVars
  <2> QED BY <1>1, <2>1 DEF Yields, Out, Enabling, Revoking, Grants, OfType
<1> QED BY <1>3, <1>4, <1>5, <1>6, <1>7, <1>8, <1>9 DEF Handle

(* What a client makes of the command at the head of its queue: it takes   *)
(* control only of what enables it, and keeps it only past what does not   *)
(* revoke it; all it may send in reply is its page.                        *)
LEMMA Heard ==
  ASSUME TypeOK, Sessions, NEW c \in Clients, Receive(c)
  PROVE  /\ toClient[c] # <<>>
         /\ toClient' = [toClient EXCEPT ![c] = Tail(@)]
         /\ toServer' = toServer \/ Send(c, Switch)
         /\ \A d \in Clients \ {c} : UNCHANGED controling[d]
         /\ controling'[c] => \/ controling[c] /\ Head(toClient[c]) \notin Revoking(c)
                              \/ Head(toClient[c]) \in Enabling(c)
<1> DEFINE m == Head(toClient[c])
<1>1. /\ toServer' = toServer \/ Send(c, Switch)
      /\ \A d \in Clients \ {c} : UNCHANGED controling[d]
      /\ \E t : Receives(c, t)
  BY DEF Receive, OnBoardLogin, OnPeerLogin, OnStudentApplyBoard,
     OnTeacherAgreeBoard, OnTeacherTakeBoard, PlayNetworkSwitchPage,
     SetEnableCurrentPage, serverVars, clientVars, TypeOK
<1>2. ASSUME NEW t, Receives(c, t)
      PROVE  /\ m \in Msg /\ m.type = t /\ Session(c)
             /\ toClient[c] # <<>> /\ toClient' = [toClient EXCEPT ![c] = Tail(@)]
  BY <1>2, ReceivesWhen DEF OfType
<1>3. ASSUME controling'[c]
      PROVE  (controling[c] /\ m \notin Revoking(c)) \/ m \in Enabling(c)
  <2>1. CASE OnBoardLogin(c)
    <3>1. m \in Msg /\ m.type = "Reply" /\ m \notin Revoking(c)
      BY <1>2, <2>1, Effects DEF OnBoardLogin
    <3>2. \/ UNCHANGED controling \/ ~controling'[c]
          \/ c \in Teachers /\ m.yes
      BY <2>1 DEF OnBoardLogin, SetEnableCurrentPage, IsTeacher, TypeOK
    <3> QED BY <1>3, <3>1, <3>2, Effects
  <2>2. CASE OnPeerLogin(c) \/ OnStudentApplyBoard(c)
    <3>1. UNCHANGED controling /\ m.type \in {"Peer", "Apply"}
      BY <1>2, <2>2 DEF OnPeerLogin, OnStudentApplyBoard, clientVars
    <3> QED BY <1>3, <3>1 DEF Revoking, Revokes
  <2>3. CASE OnTeacherAgreeBoard(c)
    <3>1. Receives(c, "Agree")  BY <2>3 DEF OnTeacherAgreeBoard
    <3>2. m \in Msg /\ m.type = "Agree" /\ m.yes \in BOOLEAN
      BY <1>2, <3>1 DEF Msg
    <3>3. ~(~IsTeacher(c) /\ (m.user # UserId[c]) = m.yes)
      BY <1>3, <2>3, <3>2 DEF OnTeacherAgreeBoard, SetEnableCurrentPage, TypeOK
    <3>4. CASE ~IsTeacher(c) /\ m.user = UserId[c] /\ m.yes
      BY <3>2, <3>4, AgreeEffects DEF IsTeacher
    <3>5. CASE IsTeacher(c) \/ (m.user # UserId[c] /\ ~m.yes)
      <4>1. UNCHANGED controling  BY <2>3, <3>2, <3>5 DEF OnTeacherAgreeBoard
      <4>2. m \notin Revoking(c)  BY <3>2, <3>5 DEF Revoking, Revokes
      <4> QED BY <1>3, <4>1, <4>2
    <3> QED BY <3>2, <3>3, <3>4, <3>5
  <2>4. CASE OnTeacherTakeBoard(c) \/ PlayNetworkSwitchPage(c)
    BY <1>3, <2>4 DEF OnTeacherTakeBoard, PlayNetworkSwitchPage,
       SetEnableCurrentPage, TypeOK
  <2> QED BY <2>1, <2>2, <2>3, <2>4 DEF Receive
<1> QED BY <1>1, <1>2, <1>3

(* A student that yields goes on yielding whatever it hears. *)
LEMMA OneYieldsReceive ==
  ASSUME TypeOK, Sessions, OneYields, NEW c \in Clients, Receive(c)
  PROVE  OneYields'
<1> SUFFICES ASSUME NEW d \in Clients, Yields(d) PROVE Yields(d)'
  BY DEF OneYields
<1>1. UNCHANGED app
  BY DEF Receive, OnBoardLogin, OnPeerLogin, OnStudentApplyBoard,
     OnTeacherAgreeBoard, OnTeacherTakeBoard, PlayNetworkSwitchPage, clientVars
<1>2. /\ toClient[c] # <<>>
      /\ toClient' = [toClient EXCEPT ![c] = Tail(@)]
      /\ toServer' = toServer \/ Send(c, Switch)
      /\ d # c => UNCHANGED controling[d]
      /\ controling'[c] => \/ controling[c] /\ Head(toClient[c]) \notin Revoking(c)
                           \/ Head(toClient[c]) \in Enabling(c)
      /\ toServer[d] \in Seq(Msg) /\ toClient[d] \in Seq(Msg)
  BY <1>1, Heard DEF TypeOK
<1>3. Has(toServer[d], OfType("Take")) => Has(toServer'[d], OfType("Take"))
  <2>1. \/ toServer'[d] = toServer[d]
        \/ toServer'[d] = Append(toServer[d], Switch)
    BY <1>1, <1>2 DEF Send, TypeOK
  <2>2. Has(Append(toServer[d], Switch), OfType("Take"))
          <=> Has(toServer[d], OfType("Take")) \/ Switch \in OfType("Take")
    BY <1>2, Commands, HasAppend
  <2> QED BY <2>1, <2>2
<1>4. CASE d # c
  <2>1. toClient'[d] = toClient[d]  BY <1>1, <1>2, <1>4 DEF TypeOK
  <2> QED BY <1>1, <1>2, <1>3, <1>4, <2>1
       DEF Yields, Out, Enabling, Revoking, Grants, OfType
<1>5. CASE d = c /\ Out(d)
  <2>1. toClient'[d] = Tail(toClient[d])  BY <1>1, <1>2, <1>5 DEF TypeOK
  <2>2. /\ Followed(Tail(toClient[d]), Enabling(d), Revoking(d))
        /\ Head(toClient[d]) \in Enabling(d)
             => Has(Tail(toClient[d]), Revoking(d))
    BY <1>2, <1>5, FollowedTail DEF Out
  <2>3. Has(toClient[d], Revoking(d)) /\ Head(toClient[d]) \notin Revoking(d)
          => Has(Tail(toClient[d]), Revoking(d))
    BY <1>2, <1>5, HasTail
  <2>4. controling'[d] => Has(Tail(toClient[d]), Revoking(d))
    BY <1>2, <1>5, <2>2, <2>3 DEF Out
  <2> QED BY <2>1, <2>2, <2>4 DEF Yields, Out, Enabling, Revoking, Grants, OfType
<1>6. CASE Has(toServer[d], OfType("Take"))
  BY <1>3, <1>6 DEF Yields, OfType
<1>7. CASE app[d] = "again"
  BY <1>1, <1>7 DEF Yields
<1> QED BY <1>4, <1>5, <1>6, <1>7 DEF Yields

(* What users do: a student puts itself in control only by a take, which   *)
(* is on its way from then on.                                             *)
LEMMA OneYieldsInput ==
  ASSUME TypeOK, Sessions, OneYields, NEW c \in Clients, Input(c)
  PROVE  OneYields'
<1> SUFFICES ASSUME NEW d \in Clients, Yields(d) PROVE Yields(d)'
  BY DEF OneYields
<1>1. d \in Clients  OBVIOUS
<1>2. ASSUME NEW m \in Msg, Send(c, m)
      PROVE  /\ Has(toServer[d], OfType("Take")) => Has(toServer'[d], OfType("Take"))
             /\ m.type = "Take" /\ d = c => Has(toServer'[d], OfType("Take"))
  <2>1. /\ toServer'[d] = IF d = c THEN Append(toServer[d], m) ELSE toServer[d]
        /\ toServer[d] \in Seq(Msg)
    BY <1>1, <1>2 DEF Send, TypeOK
  <2> QED BY <2>1, HasAppend DEF OfType
<1>3. ASSUME NEW m \in Msg, Send(c, m) \/ UNCHANGED toServer, UNCHANGED toClient,
             controling'[d] => controling[d], app[d] = "again" => app'[d] = "again"
      PROVE  Yields(d)'
  BY <1>2, <1>3 DEF Yields, Out, Enabling, Revoking, Grants, OfType
<1>4. CASE Connect(c)  BY <1>3, <1>4, Commands DEF Connect, TypeOK
<1>5. CASE OnApplyBoard(c)
  <2>1. Apply(UserId[c]) \in Msg  BY Commands, ClassAssumption
  <2> QED BY <1>3, <1>5, <2>1 DEF OnApplyBoard, clientVars
<1>6. CASE OnTakeBoard(c)
  <2>1. CASE d = c
    <3>1. Has(toServer'[d], OfType("Take"))
      BY <1>2, <1>6, <2>1, Commands DEF OnTakeBoard, Take, Command
    <3> QED BY <3>1 DEF Yields, OfType
  <2>2. CASE d # c
    <3>1. UNCHANGED controling[d] /\ UNCHANGED toClient
      BY <1>1, <1>6, <2>2 DEF OnTakeBoard, SetEnableCurrentPage, TypeOK
    <3> QED BY <1>3, <1>6, <3>1, Commands DEF OnTakeBoard
  <2> QED BY <2>1, <2>2
<1>7. CASE SwitchPage(c)  BY <1>3, <1>7, Commands DEF SwitchPage, clientVars
<1>8. ASSUME NEW yes \in BOOLEAN, AnswerApply(c, yes) PROVE Yields(d)'
  <2>1. Agree(asking[c], yes) \in Msg  BY Commands DEF TypeOK
  <2>2. (controling'[d] => controling[d]) /\ UNCHANGED toClient
    BY <1>1, <1>8 DEF AnswerApply, SetEnableCurrentPage, TypeOK
  <2> QED BY <1>3, <1>8, <2>1, <2>2 DEF AnswerApply
<1>9. CASE Leave(c)
  <2>1. CASE d = c
    <3>1. toClient'[d] = <<>> /\ ~controling'[d]
      BY <1>1, <1>9, <2>1 DEF Leave, TypeOK
    <3> QED BY <3>1, EmptyQueue
         DEF Yields, Out, Enabling, Revoking, Grants, OfType
  <2>2. CASE d # c
    <3>1. UNCHANGED <<toServer, toClient[d], controling[d], app[d]>>
      BY <1>1, <1>9, <2>2 DEF Leave, TypeOK
    <3> QED BY <3>1 DEF Yields, Out, Enabling, Revoking, Grants, OfType
  <2> QED BY <2>1, <2>2
<1>10. ASSUME NEW e \in Clients, ShowNetworkRetry(c, e) PROVE Yields(d)'
  <2>1. c # e /\ app'[e] = "again" /\ toClient'[c] = <<>> /\ ~controling'[c]
    BY <1>10 DEF ShowNetworkRetry, TypeOK
  <2>2. CASE d \notin {c, e}
    <3>1. UNCHANGED <<toServer[d], toClient[d], controling[d], app[d]>>
      BY <1>1, <1>10, <2>2 DEF ShowNetworkRetry, TypeOK
    <3> QED BY <3>1 DEF Yields, Out, Enabling, Revoking, Grants, OfType
  <2>3. CASE d = e  BY <2>1, <2>3 DEF Yields
  <2>4. CASE d = c
    BY <2>1, <2>4, EmptyQueue DEF Yields, Out, Enabling, Revoking, Grants, OfType
  <2> QED BY <2>2, <2>3, <2>4
<1> QED BY <1>4, <1>5, <1>6, <1>7, <1>8, <1>9, <1>10 DEF Input

(* OneYields is invariant. *)
LEMMA OneYieldsInvariant == Spec => []OneYields
<1>1. Init => OneYields
  <2> SUFFICES ASSUME Init, NEW a \in Clients PROVE Yields(a)
    BY DEF OneYields
  <2>1. toClient[a] = <<>> /\ ~controling[a]  BY DEF Init
  <2> QED BY <2>1, GoneYields
<1>2. TypeOK /\ Sessions /\ OneYields /\ [Next]_vars => OneYields'
  <2> SUFFICES ASSUME TypeOK, Sessions, OneYields, [Next]_vars
               PROVE  OneYields'
    OBVIOUS
  <2>1. CASE UNCHANGED vars
    BY <2>1 DEF OneYields, Yields, Out, Enabling, Revoking, Grants, OfType,
       vars, netVars, clientVars
  <2>2. CASE Next
    BY <2>2, OneYieldsServer, OneYieldsReceive, OneYieldsInput DEF Next
  <2> QED BY <2>1, <2>2
<1> QED BY <1>1, <1>2, TypeCorrect, SessionsInvariant, PTL DEF Spec

(* However many processes the teachers run, and whatever crosses on the    *)
(* wire, the agreements and takes that OnTeacherAgreeBoard and             *)
(* OnTeacherTakeBoard hear in the relay's order leave the board to at most *)
(* one student, beside those whose process retried: OneStudentControls.    *)
THEOREM OneStudentControlsHolds == Spec => []OneStudentControls
<1>1. OneYields => OneStudentControls
  <2> SUFFICES ASSUME OneYields, Settled, NEW a \in Students, NEW b \in Students,
                      controling[a], controling[b], UserId[a] # UserId[b],
                      app[a] # "again", app[b] # "again"
               PROVE  FALSE
    BY DEF OneStudentControls
  <2>1. \A d \in {a, b} : /\ d \in Clients \ Teachers
                          /\ toServer[d] = <<>> /\ toClient[d] = <<>>
    BY ClassAssumption DEF Settled
  <2>2. \A d \in {a, b} : ~Yields(d)  BY <2>1, EmptyQueue DEF Yields, Out
  <2> QED BY <2>1, <2>2 DEF OneYields
<1> QED BY <1>1, OneYieldsInvariant, PTL

-----------------------------------------------------------------------------
(* Whoever is in control by right, or about to lose it. *)

(* What is known of a user that has not come back, and did not before. *)
LEMMA DecidedBefore ==
  ASSUME TypeOK, Next, FirstUses, Decisions,
         NEW d \in Clients, ~CameBack(UserId[d])'
  PROVE  /\ ~CameBack(UserId[d]) /\ Decision(d)
         /\ app[d] # "again" /\ (LoggingIn(d) => toServer[d] = <<Login>>)
<1>1. ~CameBack(UserId[d])  BY OnceUsed
<1> QED BY <1>1 DEF FirstUses, FirstUse, Decisions

(* Once heard, the teacher stays heard. *)
LEMMA UnheardBefore ==
  ASSUME TypeOK, Next, \A t \in Teachers : NotYet(t)' => NotYet(t), Unheard'
  PROVE  Unheard
  BY OnceUsed DEF Unheard

(* A client whose view is not touched by a step keeps its part. *)
LEMMA DecisionQuiet ==
  ASSUME TypeOK, Next, NEW d \in Clients, Decision(d),
         UNCHANGED <<holder, controling[d]>>,
         controling[d] /\ Has(toServer[d], OfType("Take"))
           => Has(toServer'[d], OfType("Take")),
         Followed(toServer[d], Grants, OfType("Take"))
           => Followed(toServer'[d], Grants, OfType("Take")),
         Unheard' => Unheard,
         NEW m \in Msg, m \notin Enabling(d),
         m \in OfType("Agree") => ~Unheard',
         toClient'[d] = toClient[d] \/ toClient'[d] = Append(toClient[d], m)
  PROVE  Decision(d)'
<1>1. toClient[d] \in Seq(Msg) /\ (Decided(d) => Decided(d)')
  BY OnceUsed DEF TypeOK, Decided
<1>2. Followed(toClient[d], Enabling(d), Revoking(d))
        => Followed(toClient'[d], Enabling(d), Revoking(d))
  BY <1>1, FollowedAppend
<1>3. ASSUME NEW A
      PROVE  Has(Append(toClient[d], m), A) <=> Has(toClient[d], A) \/ m \in A
  BY <1>1, HasAppend
<1>4. Has(toClient[d], Revoking(d)) => Has(toClient'[d], Revoking(d))
  BY <1>3
<1>5. Has(toClient'[d], OfType("Agree"))
        => Has(toClient[d], OfType("Agree")) \/ m \in OfType("Agree")
  BY <1>3
<1> QED BY <1>1, <1>2, <1>4, <1>5 DEF Decision, Enabling, Revoking, Grants, OfType

(* Nobody's teacher goes back to before its login. *)
LEMMA NotYetRelay ==
  ASSUME TypeOK, NEW c \in Clients, NEW S, NEW m, Relays(c, S, m),
         NEW t \in Clients, NotYet(t)'
  PROVE  NotYet(t)
<1>1. UNCHANGED app  BY DEF Relays, clientVars
<1>2. LoggingIn(t)' => LoggingIn(t)  BY RelayQueues DEF LoggingIn
<1> QED BY <1>1, <1>2 DEF NotYet

(* Nobody is in control initially. *)
LEMMA DecisionsInit == Init => Decisions
<1> SUFFICES ASSUME Init, NEW d \in Clients PROVE Decision(d)
  BY DEF Decisions
<1>1. toClient[d] = <<>> /\ ~controling[d]  BY DEF Init
<1> QED BY <1>1, EmptyQueue DEF Decision

(* A relay of what neither gives nor takes control decides nothing. *)
LEMMA DecisionsRelay ==
  ASSUME TypeOK, Next, FirstUses, Decisions,
         NEW c \in Clients, NEW S, NEW m, Relays(c, S, m),
         UNCHANGED holder, Head(toServer[c]).type # "Take",
         \A d \in Clients : m \notin Enabling(d),
         m \in OfType("Agree") => ~Unheard
  PROVE  Decisions'
<1> USE ClassAssumption
<1> SUFFICES ASSUME NEW d \in Clients, ~CameBack(UserId[d])' PROVE Decision(d)'
  BY DEF Decisions
<1>1. /\ Decision(d) /\ m \in Msg /\ UNCHANGED <<holder, controling[d]>>
      /\ toServer[d] \in Seq(Msg)
      /\ d = c => toServer[d] # <<>>
      /\ toServer'[d] = IF d = c THEN Tail(toServer[d]) ELSE toServer[d]
      /\ toClient'[d] = toClient[d] \/ toClient'[d] = Append(toClient[d], m)
  <2>1. /\ toServer'[d] = IF d = c THEN Tail(toServer[d]) ELSE toServer[d]
        /\ toClient'[d] = IF d \in S /\ Writable(d)
                          THEN Append(toClient[d], m) ELSE toClient[d]
    BY RelayQueues
  <2> QED BY <2>1, DecidedBefore DEF Relays, clientVars, TypeOK
<1>2. Has(toServer[d], OfType("Take")) => Has(toServer'[d], OfType("Take"))
  BY <1>1, HasTail DEF OfType
<1>3. Followed(toServer[d], Grants, OfType("Take"))
        => Followed(toServer'[d], Grants, OfType("Take"))
  BY <1>1, FollowedTail
<1>4. Unheard' => Unheard
  <2>1. \A t \in Teachers : NotYet(t)' => NotYet(t)  BY NotYetRelay
  <2> QED BY <2>1, UnheardBefore
<1> QED BY <1>1, <1>2, <1>3, <1>4, DecisionQuiet

(* An answer comes from the class's teacher, after its login. *)
LEMMA AgreeFromTeacher ==
  ASSUME OneTeacher, TypeOK, Sessions, FirstUses, Roles, NEW c \in Clients,
         HandleAgree(c)
  PROVE  c \in Teachers /\ app[c] # "off" /\ ~Unheard
<1>1. /\ Session(c) /\ Role(c) /\ conn[c] = "open" /\ toServer[c] # <<>>
      /\ Head(toServer[c]).type = "Agree" /\ Head(toServer[c]) \in OfType("Agree")
  BY HandlesType DEF Sessions, Roles, HandleAgree, Handles, TypeOK, Queue, OfType
<1>2. Has(toServer[c], OfType("Agree"))  BY <1>1, HasTail DEF TypeOK
<1>3. c \in Teachers  BY <1>1, <1>2 DEF Role
<1>4. toServer[c] # <<Login>>  BY <1>1, EmptyTail DEF Login, Command
<1>5. app[c] # "off"  BY <1>1 DEF Session
<1>6. ~CameBack(UserId[c]) => ~NotYet(c)
  BY <1>4, <1>5 DEF NotYet, FirstUses, FirstUse
<1>7. ~Unheard  BY <1>3, <1>6 DEF Unheard, OneTeacher
<1> QED BY <1>3, <1>5, <1>7

(* A login decides for a teacher: for one that comes back besides whoever  *)
(* has the board; else it is the first to be heard.                        *)
LEMMA DecisionsLogin ==
  ASSUME OneTeacher, TypeOK, Next, Sessions, FirstUses, Decisions, NEW c \in Clients,
         HandleLogin(c)
  PROVE  Decisions'
<1> USE ClassAssumption
<1> SUFFICES ASSUME NEW d \in Clients, ~CameBack(UserId[d])' PROVE Decision(d)'
  BY DEF Decisions
<1>1. /\ Decision(d) /\ Session(c) /\ Session(d)
      /\ toClient[d] \in Seq(Msg) /\ toServer[d] \in Seq(Msg)
      /\ toServer[c] # <<>> /\ toServer[c] \in Seq(Msg)
      /\ Head(toServer[c]).type = "Login" /\ Head(toServer[c]) \in OfType("Login")
      /\ UNCHANGED <<app, controling>>
      /\ toServer'[d] = IF d = c THEN Tail(toServer[d]) ELSE toServer[d]
      /\ toServer'[c] = Tail(toServer[c])
  <2>1. Decision(d) /\ Session(c) /\ Session(d)  BY DecidedBefore DEF Sessions
  <2>2. /\ toServer[c] # <<>> /\ Head(toServer[c]).type = "Login"
        /\ UNCHANGED <<app, controling>>
        /\ \A e \in {c, d} : toServer'[e] = IF e = c THEN Tail(toServer[e])
                                                     ELSE toServer[e]
    BY DEF HandleLogin, Handles, clientVars, TypeOK
  <2> QED BY <2>1, <2>2, TailElements DEF TypeOK, OfType
<1>2. LoggingIn(c)  BY <1>1, HasTail DEF LoggingIn
<1>3. /\ Has(toServer[d], OfType("Take")) => Has(toServer'[d], OfType("Take"))
      /\ Followed(toServer[d], Grants, OfType("Take"))
           => Followed(toServer'[d], Grants, OfType("Take"))
  <2>1. Head(toServer[c]) \notin OfType("Take")  BY <1>1 DEF OfType
  <2> QED BY <1>1, <2>1, HasTail, FollowedTail
<1>4. CameBack(UserId[d]) = CameBack(UserId[d])'  BY <1>1 DEF CameBack
<1>5. Unheard' => Unheard
  <2>1. ASSUME NEW t \in Teachers, NotYet(t)' PROVE NotYet(t)
    <3>1. toServer'[t] = IF t = c THEN Tail(toServer[t]) ELSE toServer[t]
      BY DEF HandleLogin, Handles, TypeOK
    <3>2. LoggingIn(t)' => LoggingIn(t)
      BY <1>1, <3>1, HasTail DEF LoggingIn
    <3> QED BY <1>1, <2>1, <3>2 DEF NotYet
  <2> QED BY <2>1, UnheardBefore
<1>6. ASSUME NEW m \in Msg, m \notin Enabling(d), m.type # "Agree",
             UNCHANGED holder,
             toClient'[d] = toClient[d] \/ toClient'[d] = Append(toClient[d], m)
      PROVE  Decision(d)'
  BY <1>1, <1>3, <1>5, <1>6, DecisionQuiet DEF OfType
<1>7. /\ Reply(FALSE) \in Msg /\ Reply(TRUE) \in Msg /\ Peer \in Msg
      /\ Reply(FALSE).type = "Reply" /\ Reply(TRUE).type = "Reply"
      /\ Peer.type = "Peer" /\ ~Reply(FALSE).yes
  BY Commands DEF Reply, Peer, Command
<1>8. /\ Peer \notin Enabling(d) /\ Reply(FALSE) \notin Enabling(d)
      /\ d \notin Teachers => Reply(TRUE) \notin Enabling(d)
  BY <1>7, Effects DEF OfType
<1>9. CASE /\ toClient'[d] \in {toClient[d], Append(toClient[d], Reply(FALSE))}
           /\ UNCHANGED holder
  BY <1>6, <1>7, <1>8, <1>9
<1>10. CASE /\ \/ toClient'[d] = toClient[d]
               \/ d = c /\ toClient'[d] = Append(toClient[d], Reply(TRUE))
               \/ d # c /\ toClient'[d] = Append(toClient[d], Peer)
            /\ holder' = IF IsTeacher(c) THEN UserId[c] ELSE holder
  <2>1. CASE c \notin Teachers
    BY <1>6, <1>7, <1>8, <1>10, <2>1 DEF IsTeacher
  <2>2. CASE c \in Teachers /\ CameBack(UserId[c])
    <3>1. Decided(d)' /\ ~Unheard'
      <4>1. holder' = UserId[c] /\ CameBack(UserId[c])'
        BY <1>10, <2>2, OnceUsed DEF IsTeacher
      <4> QED BY <2>2, <4>1 DEF Decided, TeacherBack, Unheard, OneTeacher
    <3> QED BY <1>1, <1>3, <3>1
         DEF Decision, Enabling, Revoking, Grants, OfType
  <2>3. CASE c \in Teachers /\ ~CameBack(UserId[c])
    <3>1. toServer[c] = <<Login>> /\ app[c] # "off"
      BY <1>1, <1>2, <2>3 DEF FirstUses, FirstUse, Session
    <3>2. toServer'[c] = <<>> /\ ~LoggingIn(c)'
      BY <1>1, <3>1, EmptyTail, EmptyQueue DEF LoggingIn
    <3>3. ~Unheard'
      BY <1>1, <2>3, <3>1, <3>2 DEF Unheard, NotYet
    <3>4. Unheard
      <4>1. NotYet(c)  BY <1>2 DEF NotYet
      <4>2. ASSUME NEW t \in Teachers, t # c PROVE NotYet(t)
        BY <2>3, <3>1, <4>2, UsedTwice DEF NotYet, OneTeacher
      <4> QED BY <2>3, <4>1, <4>2 DEF Unheard
    <3>5. holder' = UserId[c]  BY <1>10, <2>3 DEF IsTeacher
    <3>6. ~controling'[d] /\ ~Has(toClient[d], OfType("Agree"))
      BY <1>1, <3>4 DEF Decision
    <3>7. CASE d \in Teachers
      <4>1. Decided(d)'  BY <2>3, <3>5, <3>7 DEF OneTeacher, Decided
      <4> QED BY <3>3, <3>6, <4>1 DEF Decision
    <3>8. CASE d \notin Teachers
      <4>1. Peer \notin OfType("Agree")  BY <1>7 DEF OfType
      <4>2. ~Has(Append(toClient[d], Peer), OfType("Agree"))
        BY <1>1, <1>7, <3>6, <4>1, HasAppend
      <4>3. ~Has(toClient'[d], OfType("Agree")) /\ toClient'[d] \in Seq(Msg)
        <5>1. Append(toClient[d], Peer) \in Seq(Msg)
          BY <1>1, <1>7, AppendElements
        <5> QED BY <1>1, <1>10, <2>3, <3>6, <3>8, <4>2, <5>1
      <4>4. Followed(toClient'[d], Enabling(d), Revoking(d))
        BY <3>8, <4>3, NoEnabling, FollowedNone
      <4> QED BY <3>3, <3>6, <3>8, <4>4
           DEF Decision, Enabling, Revoking, Grants, OfType
    <3> QED BY <3>7, <3>8
  <2> QED BY <2>1, <2>2, <2>3
<1> QED BY <1>9, <1>10, LoginQueues

(* A take decides for its sender and revokes everybody else. *)
LEMMA DecisionsTake ==
  ASSUME TypeOK, Next, Sessions, FirstUses, Decisions, NEW c \in Clients, HandleTake(c)
  PROVE  Decisions'
<1> USE ClassAssumption
<1> SUFFICES ASSUME NEW d \in Clients, ~CameBack(UserId[d])' PROVE Decision(d)'
  BY DEF Decisions
<1>1. Relays(c, classUsers \ {c}, Take)  BY TakeRelays
<1>2. /\ Decision(d) /\ app[d] # "again"
      /\ holder' = UserId[c] /\ controling' = controling
      /\ Take \in Msg /\ Take.type = "Take"
      /\ Take \in Revoking(d) /\ Take \notin Enabling(d)
  BY DecidedBefore, Commands, Effects DEF HandleTake, clientVars, Take, Command
<1>3. Unheard' => ~controling'[d] /\ ~Has(toClient'[d], OfType("Agree"))
  <2>1. Take \notin OfType("Agree")  BY <1>2 DEF OfType
  <2>2. Has(toClient'[d], OfType("Agree")) => Has(toClient[d], OfType("Agree"))
    BY <1>1, <2>1, RelayQueues
  <2>3. \A t \in Teachers : NotYet(t)' => NotYet(t)  BY <1>1, NotYetRelay
  <2> QED BY <1>2, <2>2, <2>3, UnheardBefore DEF Decision
<1>4. Followed(toServer[d], Grants, OfType("Take"))
        => Followed(toServer'[d], Grants, OfType("Take"))
  <2>1. /\ toServer'[d] = IF d = c THEN Tail(toServer[d]) ELSE toServer[d]
        /\ toServer[d] \in Seq(Msg)
        /\ d = c => toServer[d] # <<>>
    BY <1>1, RelayQueues DEF Relays, TypeOK
  <2> QED BY <2>1, FollowedTail
<1>5. CASE d = c
  <2>1. Decided(d)'  BY <1>2, <1>5 DEF Decided
  <2> QED BY <1>2, <1>3, <1>4, <2>1 DEF Decision, Enabling, Revoking, Grants, OfType
<1>6. CASE d # c
  <2>1. /\ Followed(toClient'[d], Enabling(d), Revoking(d))
        /\ controling[d] => Has(toClient'[d], Revoking(d))
    BY <1>1, <1>2, <1>6, RelayRevokes
  <2> QED BY <1>2, <1>3, <1>4, <2>1
       DEF Decision, Enabling, Revoking, Grants, OfType
<1> QED BY <1>5, <1>6

(* An agreement decides for the student it names and revokes the others; *)
(* the teacher that agreed has given up control or will take it back.    *)
LEMMA DecisionsAgree ==
  ASSUME OneTeacher, TypeOK, Next, Sessions, Roles, FirstUses, Decisions,
         NEW c \in Clients, HandleAgree(c)
  PROVE  Decisions'
<1> USE ClassAssumption
<1> DEFINE m == Head(toServer[c])
<1>1. /\ Relays(c, classUsers, m) /\ m \in Msg /\ m.type = "Agree"
      /\ m \in OfType("Agree")
      /\ toServer[c] \in Seq(Msg) /\ toServer[c] # <<>>
      /\ c \in Teachers /\ app[c] # "off" /\ ~Unheard
  BY AgreeRelays, AgreeFromTeacher
     DEF HandleAgree, Handles, Relays, TypeOK, OfType
<1>2. \A d \in Teachers : m \notin Enabling(d)
  BY <1>1, Effects
<1>3. ASSUME ~m.yes PROVE Decisions'
  <2>1. \A d \in Clients \ Teachers : m \notin Enabling(d)
    BY <1>1, <1>3, AgreeEffects
  <2>2. UNCHANGED holder  BY <1>3 DEF HandleAgree
  <2> QED BY <1>1, <1>2, <2>1, <2>2, DecisionsRelay
<1>4. ASSUME m.yes, NEW d \in Clients, ~CameBack(UserId[d])' PROVE Decision(d)'
  <2>1. /\ Decision(d) /\ ~CameBack(UserId[d]) /\ app[d] # "again" /\ holder' = m.user
        /\ controling' = controling
    BY <1>4, DecidedBefore DEF HandleAgree, clientVars
  <2>2. ~Unheard'
    <3>1. \A t \in Teachers : NotYet(t)' => NotYet(t)  BY <1>1, NotYetRelay
    <3> QED BY <1>1, <3>1, UnheardBefore
  <2>3. CASE d \notin Teachers
    <3>1. CASE m.user = UserId[d]
      <4>1. Decided(d)'  BY <2>1, <3>1 DEF Decided
      <4> QED BY <2>1, <2>2, <2>3, <4>1 DEF Decision, Enabling, Revoking, Grants, OfType
    <3>2. CASE m.user # UserId[d]
      <4>1. m \in Revoking(d) /\ m \notin Enabling(d)
        BY <1>1, <1>4, <2>3, <3>2, AgreeEffects
      <4>2. /\ Followed(toClient'[d], Enabling(d), Revoking(d))
            /\ controling[d] => Has(toClient'[d], Revoking(d))
        BY <1>1, <1>4, <2>1, <4>1, RelayRevokes
      <4> QED BY <2>1, <2>2, <2>3, <4>2
           DEF Decision, Enabling, Revoking, Grants, OfType
    <3> QED BY <3>1, <3>2
  <2>4. CASE d \in Teachers /\ d # c
    <3>1. app[d] = "off" /\ Session(d)
      BY <1>1, <2>1, <2>4, UsedTwice DEF OneTeacher, Sessions
    <3>2. ~controling[d] /\ toClient'[d] = <<>>
      BY <1>1, <3>1, RelayQueues DEF Session, Runs, Writable
    <3> QED BY <2>1, <2>2, <3>2, EmptyQueue
         DEF Decision, Enabling, Revoking, Grants, OfType
  <2>5. CASE d = c
    <3>2. m \in Grants  BY <1>1, <1>4 DEF Grants
    <3>3. toServer'[c] = Tail(toServer[c])  BY <1>1, RelayQueues
    <3>4. Followed(toServer[c], Grants, OfType("Take")) =>
            /\ Followed(toServer'[c], Grants, OfType("Take"))
            /\ Has(toServer'[c], OfType("Take"))
      BY <1>1, <3>2, <3>3, FollowedTail
    <3>5. ~Has(toClient'[c], Enabling(c))
      <4>1. Session(c) /\ Role(c)  BY DEF Sessions, Roles
      <4>2. Has(toServer[c], OfType("Agree"))  BY <1>1, HasTail
      <4>3. ~Has(toClient[c], OfType("Reply"))
        <5>1. CASE app[c] = "on"
          BY <4>1, <4>2, <5>1 DEF Session, OneLogin, Role, Runs
        <5>2. CASE ~Runs(c)  BY <4>1, <5>2, EmptyQueue DEF Session
        <5> QED BY <2>1, <2>5, <5>1, <5>2 DEF Runs
      <4>4. Enabling(c) \subseteq OfType("Reply")  BY <1>1 DEF Enabling
      <4>5. ~Has(toClient[c], Enabling(c))  BY <4>3, <4>4 DEF Has
      <4> QED BY <1>1, <1>2, <4>5, RelayQueues
    <3>6. Followed(toClient'[c], Enabling(c), Revoking(c))
      BY <3>5, FollowedNone
    <3>7. Decision(c) /\ controling'[c] = controling[c] /\ c \in Teachers
      BY <1>1, <2>1, <2>5
    <3>8. controling'[c] => /\ Followed(toServer'[c], Grants, OfType("Take"))
                            /\ Has(toServer'[c], OfType("Take"))
      BY <3>4, <3>7 DEF Decision
    <3>9. Decision(c)'
      BY <2>2, <3>6, <3>8 DEF Decision, Enabling, Revoking, Grants, OfType
    <3> QED BY <2>5, <3>9
  <2> QED BY <2>3, <2>4, <2>5
<1> QED BY <1>3, <1>4 DEF Decisions

(* So does a step that changes nothing of them. *)
LEMMA DecisionsStay ==
  ASSUME Decisions, UNCHANGED <<holder, toServer, toClient, app, controling>>
  PROVE  Decisions'
<1>1. /\ \A u : CameBack(u)' = CameBack(u)
      /\ \A t : LoggingIn(t)' = LoggingIn(t)
  BY DEF CameBack, LoggingIn, OfType
<1>2. TeacherBack' = TeacherBack /\ Unheard' = Unheard
  BY <1>1 DEF TeacherBack, Unheard, NotYet
<1>3. \A d : Decided(d)' = Decided(d)  BY <1>2 DEF Decided
<1>4. ASSUME NEW d \in Clients, Decision(d) PROVE Decision(d)'
  BY <1>2, <1>3, <1>4 DEF Decision, Enabling, Revoking, Grants, OfType
<1> QED BY <1>1, <1>4 DEF Decisions

(* The server's handlers keep the decisions. *)
LEMMA DecisionsServer ==
  ASSUME OneTeacher, TypeOK, Next, Sessions, Roles, FirstUses, Decisions,
         NEW c \in Clients, Handle(c) \/ ReadEnds(c) \/ OnClose(c)
  PROVE  Decisions'
<1> USE ClassAssumption
<1>1. ASSUME NEW S, NEW m, Relays(c, S, m), UNCHANGED holder,
             m.type \in {"Apply", "Switch"}, Head(toServer[c]).type = m.type
      PROVE  Decisions'
  <2>1. m \in Msg /\ m \notin OfType("Agree")
    BY <1>1 DEF Relays, OfType
  <2>2. \A d \in Clients : m \notin Enabling(d)  BY <1>1, <2>1, Effects
  <2> QED BY <1>1, <2>1, <2>2, DecisionsRelay
<1>2. CASE HandleLogin(c)  BY <1>2, DecisionsLogin
<1>3. CASE HandleApply(c)
  <2>1. Head(toServer[c]).type = "Apply" /\ UNCHANGED holder
    BY <1>3 DEF HandleApply, Handles, serverVars
  <2>2. Relays(c, {classTeacher} \ {NoClient}, Head(toServer[c]))
    BY <1>3, ApplyRelays DEF Sessions
  <2> QED BY <1>1, <2>1, <2>2
<1>4. CASE HandleAgree(c)  BY <1>4, DecisionsAgree
<1>5. CASE HandleTake(c)  BY <1>5, DecisionsTake
<1>6. CASE HandleBoardData(c)
  <2>1. /\ Head(toServer[c]).type = "Switch" /\ UNCHANGED holder
        /\ Switch.type = "Switch"
    BY <1>6 DEF HandleBoardData, Handles, serverVars, Switch, Command
  <2>2. Relays(c, classUsers \ {c}, Switch)  BY <1>6, SwitchRelays
  <2> QED BY <1>1, <2>1, <2>2
<1>7. CASE ReadEnds(c)
  <2> SUFFICES ASSUME NEW d \in Clients, ~CameBack(UserId[d])' PROVE Decision(d)'
    BY DEF Decisions
  <2>1. /\ Decision(d) /\ Session(c) /\ app[c] = "gone"
        /\ UNCHANGED <<holder, toClient, app, controling>>
        /\ toServer'[d] = IF d = c THEN <<>> ELSE toServer[d]
    BY <1>7, DecidedBefore DEF Sessions, ReadEnds, clientVars, TypeOK
  <2>2. controling[d] /\ Has(toServer[d], OfType("Take"))
          => Has(toServer'[d], OfType("Take"))
    BY <2>1 DEF Session, Runs
  <2>3. Followed(toServer[d], Grants, OfType("Take"))
          => Followed(toServer'[d], Grants, OfType("Take"))
    BY <2>1, EmptyQueue
  <2>4. ASSUME NEW t \in Clients, NotYet(t)' PROVE NotYet(t)
    <3>1. toServer'[t] = IF t = c THEN <<>> ELSE toServer[t]
      BY <1>7, <2>4 DEF ReadEnds, TypeOK
    <3>2. LoggingIn(t)' => LoggingIn(t)  BY <3>1, EmptyQueue DEF LoggingIn
    <3> QED BY <2>1, <2>4, <3>2 DEF NotYet
  <2>5. (Unheard' => Unheard) /\ (Decided(d) => Decided(d)')
    BY <2>1, <2>4, UnheardBefore, OnceUsed DEF Decided
  <2> QED BY <2>1, <2>2, <2>3, <2>5 DEF Decision, Enabling, Revoking, Grants, OfType
<1>8. CASE OnClose(c)
  <2>1. UNCHANGED <<holder, toServer, toClient, app, controling>>
    BY <1>8 DEF OnClose, netVars, clientVars
  <2> QED BY <2>1, DecisionsStay
<1> QED BY <1>2, <1>3, <1>4, <1>5, <1>6, <1>7, <1>8 DEF Handle

(* The clients' handlers keep the decisions: a client takes control only   *)
(* of what enables it, and keeps it only past what does not revoke it.     *)
LEMMA DecisionsReceive ==
  ASSUME OneTeacher, TypeOK, Next, Sessions, Roles, FirstUses, Decisions,
         NEW c \in Clients, Receive(c)
  PROVE  Decisions'
<1> USE ClassAssumption
<1> DEFINE q == toClient[c]
<1> SUFFICES ASSUME NEW d \in Clients, ~CameBack(UserId[d])' PROVE Decision(d)'
  BY DEF Decisions
<1>1. /\ Decision(d) /\ app[d] # "again" /\ UNCHANGED <<holder, app>>
      /\ Decided(d) => Decided(d)'
  BY DecidedBefore, OnceUsed DEF Decided, Receive, OnBoardLogin, OnPeerLogin,
     OnStudentApplyBoard, OnTeacherAgreeBoard, OnTeacherTakeBoard,
     PlayNetworkSwitchPage, serverVars, clientVars
<1>2. /\ q # <<>> /\ q \in Seq(Msg) /\ toServer[c] \in Seq(Msg)
      /\ toClient' = [toClient EXCEPT ![c] = Tail(@)]
      /\ toServer' = toServer \/ Send(c, Switch)
      /\ \A e \in Clients \ {c} : UNCHANGED controling[e]
      /\ controling'[c] => \/ controling[c] /\ Head(q) \notin Revoking(c)
                           \/ Head(q) \in Enabling(c)
  BY Heard DEF TypeOK
<1>3. PICK t : Receives(c, t)
  BY DEF Receive, OnBoardLogin, OnPeerLogin, OnStudentApplyBoard,
     OnTeacherAgreeBoard, OnTeacherTakeBoard, PlayNetworkSwitchPage
<1>4. /\ Runs(c) /\ Session(c) /\ Head(q) \in OfType(t)
      /\ app[c] = "on" => ~LoggingIn(c) /\ (t = "Reply" => ~joined[c])
  BY <1>3, ReceivesWhen
<1>5. \A e \in Clients : LoggingIn(e)' => LoggingIn(e)
  <2>1. Switch \in Msg /\ Switch \notin OfType("Login")
    BY Commands DEF Switch, Command, OfType
  <2>2. Has(Append(toServer[c], Switch), OfType("Login"))
          <=> Has(toServer[c], OfType("Login"))
    BY <1>2, <2>1, HasAppend
  <2>3. \A e \in Clients : \/ toServer'[e] = toServer[e]
                           \/ e = c /\ toServer'[e] = Append(toServer[c], Switch)
    BY <1>2 DEF Send, TypeOK
  <2> QED BY <2>2, <2>3 DEF LoggingIn
<1>6. Unheard' => Unheard
  <2>1. \A e \in Teachers : NotYet(e)' => NotYet(e)  BY <1>1, <1>5 DEF NotYet
  <2> QED BY <2>1, UnheardBefore
<1>7. CASE d # c
  <2>1. UNCHANGED <<controling[d], toServer[d], toClient[d]>>
    BY <1>2, <1>7 DEF Send, TypeOK
  <2> QED BY <1>1, <1>6, <2>1 DEF Decision, Enabling, Revoking, Grants, OfType
<1>8. CASE d = c
  <2>1. toClient'[c] = Tail(q) /\ app[c] = "on" /\ Role(c)
    BY <1>1, <1>2, <1>4, <1>8 DEF TypeOK, Runs, Roles
  <2>2. /\ Followed(q, Enabling(c), Revoking(c)) =>
             /\ Followed(Tail(q), Enabling(c), Revoking(c))
             /\ Head(q) \in Enabling(c) => Has(Tail(q), Revoking(c))
        /\ Has(q, Revoking(c)) /\ Head(q) \notin Revoking(c)
             => Has(Tail(q), Revoking(c))
    BY <1>2, FollowedTail, HasTail
  <2>3. /\ Has(toServer[c], OfType("Take")) => Has(toServer'[c], OfType("Take"))
        /\ Followed(toServer[c], Grants, OfType("Take"))
             => Followed(toServer'[c], Grants, OfType("Take"))
    <3>1. Switch \in Msg /\ Switch \notin Grants
      BY Commands DEF Grants, OfType, Switch, Command
    <3>2. toServer'[c] = toServer[c] \/ toServer'[c] = Append(toServer[c], Switch)
      BY <1>2 DEF Send, TypeOK
    <3>3. Has(toServer[c], OfType("Take"))
            => Has(Append(toServer[c], Switch), OfType("Take"))
      BY <1>2, <3>1, HasAppend
    <3>4. Followed(toServer[c], Grants, OfType("Take"))
            => Followed(Append(toServer[c], Switch), Grants, OfType("Take"))
      BY <1>2, <3>1, FollowedAppend
    <3> QED BY <3>2, <3>3, <3>4
  <2>4. controling'[c] => \/ Has(toServer'[c], OfType("Take"))
                          \/ Has(Tail(q), Revoking(c))
                          \/ Decided(c)'
    BY <1>1, <1>2, <1>8, <2>2, <2>3 DEF Decision
  <2>5. c \in Teachers /\ controling'[c] =>
          Followed(toServer'[c], Grants, OfType("Take"))
    <3> SUFFICES ASSUME c \in Teachers, controling'[c]
                 PROVE  Followed(toServer'[c], Grants, OfType("Take"))
      OBVIOUS
    <3>1. CASE controling[c]  BY <1>1, <1>8, <2>3, <3>1 DEF Decision
    <3>2. CASE ~controling[c]
      <4>1. t = "Reply"
        BY <1>2, <1>4, <3>2, Effects DEF OfType
      <4>2. ~Has(toServer[c], OfType("Agree"))
        BY <1>4, <2>1, <4>1 DEF Role, Runs
      <4>3. ~Has(toServer[c], Grants)  BY <4>2 DEF Has, Grants, OfType
      <4> QED BY <2>3, <4>3, FollowedNone
    <3> QED BY <3>1, <3>2
  <2>6. Unheard' => ~controling'[c] /\ ~Has(Tail(q), OfType("Agree"))
    <3> SUFFICES ASSUME Unheard' PROVE ~controling'[c] /\ ~Has(Tail(q), OfType("Agree"))
      OBVIOUS
    <3>1. Unheard  BY <1>6
    <3>2. c \notin Teachers
      BY <1>4, <2>1, <3>1 DEF Unheard, NotYet
    <3>3. ~controling[c] /\ ~Has(q, OfType("Agree"))
      BY <1>1, <1>8, <3>1 DEF Decision
    <3>4. ~Has(Tail(q), OfType("Agree")) /\ Head(q) \notin OfType("Agree")
      BY <1>2, <3>3, HasTail
    <3>5. Head(q) \notin Enabling(c)  BY <3>2, <3>4 DEF Enabling, Grants
    <3> QED BY <1>2, <3>3, <3>4, <3>5
  <2> QED BY <1>1, <1>8, <2>1, <2>2, <2>4, <2>5, <2>6
       DEF Decision, Enabling, Revoking, Grants, OfType
<1> QED BY <1>7, <1>8

(* What users do keeps the decisions. *)
LEMMA DecisionsInput ==
  ASSUME OneTeacher, TypeOK, Next, Sessions, Roles, FirstUses, Decisions,
         NEW c \in Clients, Input(c)
  PROVE  Decisions'
<1> USE ClassAssumption
<1> SUFFICES ASSUME NEW d \in Clients, ~CameBack(UserId[d])' PROVE Decision(d)'
  BY DEF Decisions
<1>1. /\ Decision(d) /\ app[d] # "again" /\ UNCHANGED holder
      /\ Decided(d) => Decided(d)'
  BY DecidedBefore, OnceUsed
     DEF Decided, Input, Connect, OnApplyBoard, OnTakeBoard,
         SwitchPage, AnswerApply, Leave, ShowNetworkRetry, serverVars
<1>2. Session(c) /\ Role(c) /\ toServer[c] \in Seq(Msg)
  BY DEF Sessions, Roles, TypeOK
<1>3. ASSUME NEW m \in Msg, Send(c, m)
      PROVE  /\ toServer'[c] = Append(toServer[c], m)
             /\ \A e \in Clients \ {c} : toServer'[e] = toServer[e]
             /\ \A A : Has(toServer'[c], A) <=> Has(toServer[c], A) \/ m \in A
             /\ m \notin Grants =>
                  (Followed(toServer[c], Grants, OfType("Take"))
                     \/ m \in OfType("Take")
                   => Followed(toServer'[c], Grants, OfType("Take")))
  <2>1. /\ toServer'[c] = Append(toServer[c], m)
        /\ \A e \in Clients \ {c} : toServer'[e] = toServer[e]
    BY <1>3 DEF Send, TypeOK
  <2> QED BY <1>2, <1>3, <2>1, HasAppend, FollowedAppend
<1>4. Unheard' => Unheard
  <2>1. ASSUME NEW m \in Msg, Send(c, m), m.type # "Login", UNCHANGED app,
               NEW t \in Clients, NotYet(t)'
        PROVE  NotYet(t)
    <3>1. CASE t = c  BY <1>3, <2>1, <3>1 DEF NotYet, LoggingIn, OfType
    <3>2. CASE t # c  BY <1>3, <2>1, <3>2 DEF NotYet, LoggingIn
    <3> QED BY <3>1, <3>2
  <2>2. ASSUME NEW t \in Clients, NotYet(t)' PROVE NotYet(t)
    <3>1. CASE Connect(c)
      <4>1. CASE t = c  BY <3>1, <4>1 DEF Connect, NotYet
      <4>2. CASE t # c
        BY <2>2, <3>1, <4>2 DEF Connect, Send, NotYet, LoggingIn, TypeOK
      <4> QED BY <4>1, <4>2
    <3>2. CASE OnApplyBoard(c)
      <4>1. Apply(UserId[c]) \in Msg /\ Apply(UserId[c]).type # "Login"
        BY Commands DEF Apply
      <4> QED BY <2>1, <2>2, <3>2, <4>1 DEF OnApplyBoard, clientVars
    <3>3. CASE OnTakeBoard(c)
      <4>1. Take \in Msg /\ Take.type # "Login"  BY Commands DEF Take, Command
      <4> QED BY <2>1, <2>2, <3>3, <4>1 DEF OnTakeBoard
    <3>4. CASE SwitchPage(c)
      <4>1. Switch \in Msg /\ Switch.type # "Login"
        BY Commands DEF Switch, Command
      <4> QED BY <2>1, <2>2, <3>4, <4>1 DEF SwitchPage, clientVars
    <3>5. ASSUME NEW yes \in BOOLEAN, AnswerApply(c, yes) PROVE NotYet(t)
      <4>1. /\ Agree(asking[c], yes) \in Msg
            /\ Agree(asking[c], yes).type # "Login"
        BY Commands DEF Agree, TypeOK
      <4> QED BY <2>1, <2>2, <3>5, <4>1 DEF AnswerApply
    <3>6. CASE Leave(c)
      BY <2>2, <3>6 DEF Leave, NotYet, LoggingIn, TypeOK
    <3>7. ASSUME NEW e \in Clients, ShowNetworkRetry(c, e) PROVE NotYet(t)
      <4>1. CASE t = e  BY <3>7, <4>1 DEF ShowNetworkRetry, NotYet
      <4>2. CASE t # e
        BY <2>2, <3>7, <4>2 DEF ShowNetworkRetry, NotYet, LoggingIn, TypeOK
      <4> QED BY <4>1, <4>2
    <3> QED BY <3>1, <3>2, <3>3, <3>4, <3>5, <3>6, <3>7 DEF Input
  <2> QED BY <2>2, UnheardBefore
<1>5. ASSUME UNCHANGED <<controling[d], toServer[d], toClient[d]>>
      PROVE  Decision(d)'
  BY <1>1, <1>4, <1>5 DEF Decision, Enabling, Revoking, Grants, OfType
<1>6. ASSUME NEW m \in Msg, m \notin Grants, Send(c, m), UNCHANGED toClient,
             UNCHANGED controling
      PROVE  Decision(d)'
  <2>1. CASE d # c  BY <1>3, <1>5, <1>6, <2>1
  <2>2. CASE d = c
    BY <1>1, <1>3, <1>4, <1>6, <2>2 DEF Decision, Enabling, Revoking, Grants, OfType
  <2> QED BY <2>1, <2>2
<1>7. CASE Connect(c)
  <2>1. Login \in Msg /\ Login \notin Grants
    BY Commands DEF Login, Command, Grants, OfType
  <2> QED BY <1>6, <1>7, <2>1 DEF Connect
<1>8. CASE OnApplyBoard(c)
  <2>1. Apply(UserId[c]) \in Msg /\ Apply(UserId[c]) \notin Grants
    BY Commands DEF Apply, Grants, OfType
  <2> QED BY <1>6, <1>8, <2>1 DEF OnApplyBoard, clientVars
<1>9. CASE OnTakeBoard(c)
  <2>1. Take \in Msg /\ Take \notin Grants /\ Take \in OfType("Take") /\ Send(c, Take)
    BY <1>9, Commands DEF OnTakeBoard, Take, Command, Grants, OfType
  <2>2. CASE d # c
    <3>1. UNCHANGED <<controling[d], toServer[d], toClient[d]>>
      BY <1>3, <1>9, <2>1, <2>2 DEF OnTakeBoard, SetEnableCurrentPage, TypeOK
    <3> QED BY <1>5, <3>1
  <2>3. CASE d = c
    <3>1. /\ Has(toServer'[c], OfType("Take"))
          /\ Followed(toServer'[c], Grants, OfType("Take"))
          /\ UNCHANGED toClient
      BY <1>3, <1>9, <2>1 DEF OnTakeBoard
    <3>2. ~Unheard
      <4>1. app[c] = "on" /\ ui[c].button = "take"
        BY <1>1, <1>9, <2>3 DEF OnTakeBoard, AtDesk, Runs
      <4>2. joined[c] /\ ~LoggingIn(c)
        BY <1>2, <4>1 DEF Session, OneLogin
      <4>3. c \in Teachers \/ Teachers = {}
        BY <1>2, <4>1 DEF Role, OneTeacher
      <4> QED BY <4>1, <4>2, <4>3 DEF Unheard, NotYet
    <3> QED BY <1>1, <1>4, <2>3, <3>1, <3>2
         DEF Decision, Enabling, Revoking, Grants, OfType
  <2> QED BY <2>2, <2>3
<1>10. CASE SwitchPage(c)
  <2>1. Switch \in Msg /\ Switch \notin Grants
    BY Commands DEF Switch, Command, Grants, OfType
  <2> QED BY <1>6, <1>10, <2>1 DEF SwitchPage, clientVars
<1>11. ASSUME NEW yes \in BOOLEAN, AnswerApply(c, yes) PROVE Decision(d)'
  <2>1. Agree(asking[c], yes) \in Msg /\ Send(c, Agree(asking[c], yes))
    BY <1>11, Commands DEF AnswerApply, TypeOK
  <2>2. CASE ~yes
    <3>1. Agree(asking[c], yes) \notin Grants
      BY <2>2 DEF Agree, Grants
    <3> QED BY <1>6, <1>11, <2>1, <2>2, <3>1 DEF AnswerApply
  <2>3. CASE yes /\ d # c
    <3>1. toServer'[d] = toServer[d]  BY <1>3, <2>1, <2>3
    <3>2. toClient' = toClient /\ controling' = [controling EXCEPT ![c] = FALSE]
      BY <1>11, <2>3 DEF AnswerApply, SetEnableCurrentPage
    <3>3. controling'[d] = controling[d]  BY <2>3, <3>2 DEF TypeOK
    <3> QED BY <1>5, <3>1, <3>2, <3>3
  <2>4. CASE yes /\ d = c
    <3>1. ~controling'[c] /\ UNCHANGED toClient
      BY <1>11, <2>4 DEF AnswerApply, SetEnableCurrentPage, TypeOK
    <3> QED BY <1>1, <1>4, <2>4, <3>1 DEF Decision, Enabling, Revoking, Grants, OfType
  <2> QED BY <2>2, <2>3, <2>4
<1>12. CASE Leave(c)
  <2>1. CASE d # c
    <3>1. UNCHANGED <<controling[d], toServer[d], toClient[d]>>
      BY <1>12, <2>1 DEF Leave, TypeOK
    <3> QED BY <1>5, <3>1
  <2>2. CASE d = c
    <3>1. ~controling'[c] /\ toClient'[c] = <<>>
      BY <1>12 DEF Leave, TypeOK
    <3> QED BY <2>2, <3>1, EmptyQueue DEF Decision
  <2> QED BY <2>1, <2>2
<1>13. ASSUME NEW e \in Clients, ShowNetworkRetry(c, e) PROVE Decision(d)'
  <2>1. CASE d \in {c, e}
    <3>1. /\ c # e /\ UserId[c] = UserId[e]
          /\ app'[c] # "off" /\ app'[e] # "off"
      BY <1>13 DEF ShowNetworkRetry, TypeOK
    <3> QED BY <2>1, <3>1 DEF CameBack
  <2>2. CASE d \notin {c, e}
    <3>1. UNCHANGED <<controling[d], toServer[d], toClient[d]>>
      BY <1>13, <2>2 DEF ShowNetworkRetry, TypeOK
    <3> QED BY <1>5, <3>1
  <2> QED BY <2>1, <2>2
<1> QED BY <1>7, <1>8, <1>9, <1>10, <1>11, <1>12, <1>13 DEF Input

(* Decisions is invariant. *)
LEMMA DecisionsInvariant ==
  ASSUME OneTeacher
  PROVE  Spec => []Decisions
<1>1. TypeOK /\ Sessions /\ Roles /\ FirstUses /\ Decisions /\ [Next]_vars
        => Decisions'
  <2> SUFFICES ASSUME TypeOK, Sessions, Roles, FirstUses, Decisions, [Next]_vars
               PROVE  Decisions'
    OBVIOUS
  <2>1. CASE UNCHANGED vars
    <3>1. UNCHANGED <<holder, toServer, toClient, app, controling>>
      BY <2>1 DEF vars, serverVars, netVars, clientVars
    <3> QED BY <3>1, DecisionsStay
  <2>2. CASE Next
    <3>1. PICK c \in Clients :
            Handle(c) \/ ReadEnds(c) \/ OnClose(c) \/ Receive(c) \/ Input(c)
      BY <2>2 DEF Next
    <3> QED BY <2>2, <3>1, DecisionsServer, DecisionsReceive, DecisionsInput
  <2> QED BY <2>1, <2>2
<1> QED BY <1>1, DecisionsInit, TypeCorrect, SessionsInvariant, RolesInvariant,
     FirstUsesInvariant, PTL DEF Spec

(* However commands cross on the wire, two clients have _controlingBoard   *)
(* set at once only while a command that will clear one of them, through   *)
(* OnTeacherTakeBoard, OnTeacherAgreeBoard or NetworkSwitchPage, is still  *)
(* on its way, or after the user of one of them has come back; in a class  *)
(* that has one teacher, or none when every student is one.                *)
THEOREM ConflictInFlightHolds ==
  ASSUME OneTeacher
  PROVE  Spec => []ConflictInFlight
<1>1. TypeOK /\ Sessions /\ FirstUses /\ OneYields /\ Decisions => ConflictInFlight
  <2> SUFFICES ASSUME TypeOK, Sessions, FirstUses, OneYields, Decisions,
                      NEW a \in Clients, NEW b \in Clients,
                      a # b, controling[a], controling[b],
                      ~CameBack(UserId[a]), ~CameBack(UserId[b])
               PROVE  \E c \in {a, b} : Taking(c) \/ Losing(c)
    BY DEF ConflictInFlight
  <2>1. \A c \in {a, b} : Decision(c) /\ app[c] = "on"
    <3>1. \A c \in {a, b} : Decision(c) /\ Session(c) /\ FirstUse(c)
                            /\ ~CameBack(UserId[c]) /\ controling[c]
      BY DEF Decisions, Sessions, FirstUses
    <3> QED BY <3>1 DEF Session, Runs, FirstUse
  <2>2. UserId[a] # UserId[b]
    <3>1. app[a] # "off" /\ app[b] # "off"  BY <2>1
    <3> QED BY <3>1, UsedTwice
  <2>3. \A c \in {a, b} :
          /\ Has(toServer[c], OfType("Take")) => Taking(c)
          /\ Has(toClient[c], Revoking(c)) => Losing(c)
    BY DEF Has, OfType, Taking, Revoking, Losing
  <2>4. CASE a \notin Teachers /\ b \notin Teachers
    <3>1. PICK c \in {a, b} : Yields(c)  BY <2>2, <2>4 DEF OneYields
    <3>2. controling[c] /\ app[c] # "again"  BY <2>1
    <3> QED BY <2>3, <3>1, <3>2 DEF Yields, Out
  <2>5. ASSUME NEW t \in Teachers, t \in {a, b}
        PROVE  \E c \in {a, b} : Taking(c) \/ Losing(c)
    <3>1. holder # UserId[a] \/ holder # UserId[b]  BY <2>2
    <3>2. ~CameBack(UserId[t])  BY <2>5
    <3> HIDE DEF OneTeacher
    <3>3. ~TeacherBack  BY <2>5, <3>2 DEF TeacherBack, OneTeacher
    <3>4. PICK c \in {a, b} : ~Decided(c)  BY <3>1, <3>3 DEF Decided
    <3>5. controling[c] /\ Decision(c)  BY <2>1
    <3> QED BY <2>3, <3>4, <3>5 DEF Decision
  <2> QED BY <2>4, <2>5
<1> QED BY <1>1, TypeCorrect, SessionsInvariant, FirstUsesInvariant,
     OneYieldsInvariant, DecisionsInvariant, PTL

(* When the relay has nothing left to deliver and no question is open, the *)
(* only client that can still write is the one of the user that the last   *)
(* login, take or agreement the server handled put in control, unless a    *)
(* user has come back.                                                     *)
THEOREM SettledHolderHolds ==
  ASSUME OneTeacher
  PROVE  Spec => []SettledHolder
<1>1. Decisions => SettledHolder
  <2> SUFFICES ASSUME Decisions, Settled, NEW c \in Clients, controling[c],
                      ~CameBack(UserId[c])
               PROVE  Decided(c)
    BY DEF SettledHolder, Decided
  <2>1. toServer[c] = <<>> /\ toClient[c] = <<>> /\ Decision(c)
    BY DEF Settled, Decisions
  <2> QED BY <2>1, EmptyQueue DEF Decision
<1> QED BY <1>1, DecisionsInvariant, PTL

-----------------------------------------------------------------------------
(* What a call of SetEnabled and one of SetEnableCurrentPage leave. *)
LEMMA ShowAndEnable ==
  ASSUME TypeOK, NEW c \in Clients, NEW w, NEW s, NEW a, Show(c, w, s, a),
         NEW d \in Clients
  PROVE  ui'[d].whole = IF d = c THEN w ELSE ui[d].whole
  BY DEF Show, SetEnabled, TypeOK

(* A client's handler or its user's input leaves the tools of a client in  *)
(* control enabled, unless it has retried.                                 *)
LEMMA ToolsClient ==
  ASSUME TypeOK, Sessions, ControllerHasTools,
         NEW c \in Clients, Receive(c) \/ Input(c)
  PROVE  ControllerHasTools'
<1>1. ASSUME NEW w \in BOOLEAN, NEW e \in BOOLEAN, e => w,
             NEW s, NEW a, Show(c, w, s, a), SetEnableCurrentPage(c, e),
             UNCHANGED app
      PROVE  ControllerHasTools'
  BY <1>1, ShowAndEnable DEF ControllerHasTools, SetEnableCurrentPage, TypeOK
<1>2. ASSUME UNCHANGED <<ui, controling, app>> PROVE ControllerHasTools'
  BY <1>2 DEF ControllerHasTools
<1>3. CASE OnBoardLogin(c)
  <2>1. app[c] = "on" => ~controling[c]
    BY <1>3, ReceivesWhen DEF OnBoardLogin, Session, OneLogin
  <2>2. ASSUME NEW w \in BOOLEAN, NEW s, NEW a, Show(c, w, s, a),
               UNCHANGED <<controling, app>>
        PROVE  ControllerHasTools'
    BY <2>1, <2>2, ShowAndEnable DEF ControllerHasTools
  <2> QED BY <1>1, <1>3, <2>2 DEF OnBoardLogin
<1>4. CASE OnPeerLogin(c) \/ OnStudentApplyBoard(c)
  BY <1>2, <1>4 DEF OnPeerLogin, OnStudentApplyBoard, clientVars
<1>5. CASE OnTeacherAgreeBoard(c)
  BY <1>1, <1>2, <1>5 DEF OnTeacherAgreeBoard
<1>6. CASE OnTeacherTakeBoard(c)
  <2>1. (IsDemo(c) \/ IsTeacher(c)) \in BOOLEAN  BY DEF IsDemo, IsTeacher
  <2> QED BY <1>1, <1>2, <1>6, <2>1 DEF OnTeacherTakeBoard
<1>7. CASE PlayNetworkSwitchPage(c)
  BY <1>7 DEF PlayNetworkSwitchPage, SetEnableCurrentPage, ControllerHasTools, TypeOK
<1>8. CASE OnApplyBoard(c) \/ SwitchPage(c)
  BY <1>2, <1>8 DEF OnApplyBoard, SwitchPage, clientVars
<1>9. CASE OnTakeBoard(c)
  BY <1>1, <1>9 DEF OnTakeBoard
<1>10. ASSUME NEW yes \in BOOLEAN, AnswerApply(c, yes) PROVE ControllerHasTools'
  BY <1>1, <1>2, <1>10 DEF AnswerApply
<1>11. CASE Leave(c)
  BY <1>11 DEF Leave, ControllerHasTools, TypeOK
<1>12. CASE Connect(c)
  <2>1. ~controling[c]  BY <1>12 DEF Connect, Sessions, Session, Runs
  <2> QED BY <1>12, <2>1 DEF Connect, ControllerHasTools, TypeOK
<1>13. ASSUME NEW d \in Clients, ShowNetworkRetry(c, d) PROVE ControllerHasTools'
  BY <1>13 DEF ShowNetworkRetry, ControllerHasTools, TypeOK
<1> QED BY <1>3, <1>4, <1>5, <1>6, <1>7, <1>8, <1>9, <1>10, <1>11, <1>12, <1>13
     DEF Receive, Input

(* LiveWidget's flag and LiveTitleWidget's buttons are set by separate     *)
(* calls in every handler and never disagree the wrong way while a process *)
(* has one login: whoever controls the board has its tools.                *)
THEOREM ControllerHasToolsHolds == Spec => []ControllerHasTools
<1>1. Init => ControllerHasTools  BY DEF Init, ControllerHasTools
<1>2. TypeOK /\ Sessions /\ ControllerHasTools /\ [Next]_vars => ControllerHasTools'
  <2> SUFFICES ASSUME TypeOK, Sessions, ControllerHasTools, [Next]_vars
               PROVE  ControllerHasTools'
    OBVIOUS
  <2>1. ASSUME NEW c \in Clients, Handle(c) \/ ReadEnds(c) \/ OnClose(c)
        PROVE  UNCHANGED <<ui, controling, app>>
    BY <2>1 DEF Handle, HandleLogin, HandleApply, HandleAgree, HandleTake,
       HandleBoardData, ReadEnds, OnClose, clientVars
  <2>2. CASE UNCHANGED <<ui, controling, app>>
    BY <2>2 DEF ControllerHasTools
  <2>3. CASE UNCHANGED vars
    BY <2>2, <2>3 DEF vars, clientVars
  <2> QED BY <2>1, <2>2, <2>3, ToolsClient DEF Next
<1> QED BY <1>1, <1>2, TypeCorrect, SessionsInvariant, PTL DEF Spec
=============================================================================
