----------------------------- MODULE Reconnect -----------------------------
(***************************************************************************)
(* A client that loses its connection and asks its user whether to connect *)
(* again: LiveWidget's retry question, LokiClient::Init, LokiSocket and    *)
(* the QTcpSocket it keeps.                                                *)
(*                                                                         *)
(* Every Init connects the signals of the one LokiSocket to LokiClient     *)
(* once more, and none is ever disconnected: a signal is then handled as   *)
(* often as Init has been called.  Questions run an event loop inside the  *)
(* slot that asks them, so sockets connect, fail and deliver while they    *)
(* are open, and their slots nest.  FloorControl and LiveBoard have one    *)
(* connection per session; this module says what happens to the next ones. *)
(*                                                                         *)
(* Qt is outside the source: here are its rules that a slot connected      *)
(* during an emission is not called by it, that connectToHost on a socket  *)
(* in use only warns, that such a socket is valid, that readyRead is not   *)
(* emitted while its slot runs, and that a socket which was connected      *)
(* emits disconnected after its error, to be deleted once the event loop   *)
(* is reached.  What isValid says of a socket that has just failed is left *)
(* open.                                                                   *)
(***************************************************************************)
EXTENDS Naturals, Sequences

CONSTANTS
  MaxFailures,   \* bound: failures of the network
  MaxApplies     \* bound: applications that other clients make

ASSUME ReconnectAssumption == MaxFailures \in Nat /\ MaxApplies \in Nat

VARIABLES
  socket,     \* LokiSocket::_socket: "none" (NULL), "deleted" (it dangles),
              \* or the QTcpSocket's state
  inner,      \* connections from each of the QTcpSocket's signals
  outer,      \* connections from each of LokiSocket's signals to LokiClient
  questions,  \* the open questions, the innermost last
  logins,     \* BoardLogin commands sent and not yet handled by the server
  toClient,   \* commands sent by the server and not yet handled
  member,     \* server: the connection's user is in its class
  welcomed,   \* the reply of this connection's login has been handled
  swallowed,  \* history: the last error was not passed on, and no Init came after it
  cancelled,  \* history: the user has answered "cancel"
  failures, applies

network == <<logins, toClient, member>>
vars == <<socket, inner, outer, questions, network, welcomed, swallowed, cancelled, failures, applies>>

(* A question stands in a loop over the connections of the signal that is  *)
(* being emitted, left of them including the open one; alive says whether  *)
(* the socket that emitted it is still LokiSocket's.                       *)
Question == [kind : {"Retry", "Apply"}, left : Nat \ {0}, alive : BOOLEAN]

TypeOK ==
  /\ socket \in {"none", "deleted", "unconnected", "connecting", "connected"}
  /\ inner \in Nat /\ outer \in Nat \ {0}
  /\ questions \in Seq(Question)
  /\ logins \in Nat
  /\ toClient \in Seq({"Reply", "Apply"})
  /\ member \in BOOLEAN /\ welcomed \in BOOLEAN
  /\ swallowed \in BOOLEAN /\ cancelled \in BOOLEAN
  /\ failures \in Nat /\ applies \in Nat

(* LiveWidget's constructor has called Init. *)
Init ==
  /\ socket = "connecting" /\ inner = 1 /\ outer = 1
  /\ questions = <<>>
  /\ logins = 0 /\ toClient = <<>> /\ member = FALSE
  /\ welcomed = FALSE /\ swallowed = FALSE /\ cancelled = FALSE
  /\ failures = 0 /\ applies = 0

-----------------------------------------------------------------------------
(* The connection.                                                         *)

(* QTcpSocket::connected reaches LiveWidget::OnConnected over each pair of *)
(* connections, and each time it logs in.                                  *)
OnConnected ==
  /\ socket = "connecting"
  /\ socket' = "connected"
  /\ logins' = logins + inner * outer
  /\ UNCHANGED <<inner, outer, questions, toClient, member, welcomed, swallowed, cancelled,
                 failures, applies>>

(* The server: a login, and an application relayed to this client. *)
HandleLogin ==
  /\ logins > 0
  /\ logins' = logins - 1
  /\ member' = TRUE
  /\ toClient' = Append(toClient, "Reply")
  /\ UNCHANGED <<socket, inner, outer, questions, welcomed, swallowed, cancelled, failures, applies>>
RelayApply ==
  /\ member /\ applies < MaxApplies
  /\ applies' = applies + 1
  /\ toClient' = Append(toClient, "Apply")
  /\ UNCHANGED <<socket, inner, outer, questions, logins, member, welcomed, swallowed, cancelled,
                 failures>>

(* A loop of calls of which one is made now. *)
AskOverBoth(kind) == [kind |-> kind, left |-> inner * outer, alive |-> TRUE]
Ask(kind) == [kind |-> kind, left |-> outer, alive |-> TRUE]
Innermost == questions[Len(questions)]
AnsweredInPlace ==
  [questions EXCEPT ![Len(questions)].left = @ - 1]
Answered ==
  LET q == Innermost
      rest == SubSeq(questions, 1, Len(questions) - 1)
  IN IF q.left = 1 THEN rest ELSE Append(rest, [q EXCEPT !.left = @ - 1])

Reading == \E i \in DOMAIN questions : questions[i].kind = "Apply" /\ questions[i].alive

(* OnDataRead is connected outer times: so often is each command handled.  *)
OnDataRead ==
  /\ socket = "connected" /\ toClient # <<>> /\ ~Reading
  /\ toClient' = Tail(toClient)
  /\ IF Head(toClient) = "Apply"
     THEN questions' = Append(questions, Ask("Apply")) /\ UNCHANGED welcomed
     ELSE welcomed' = TRUE /\ UNCHANGED questions
  /\ UNCHANGED <<socket, inner, outer, logins, member, swallowed, cancelled, failures, applies>>

-----------------------------------------------------------------------------
(* Failures.                                                               *)

(* LokiSocket::OnSocketErrorTriggered: a socket that is not valid is       *)
(* forgotten and the error goes to LiveWidget, which asks; the error of    *)
(* one that is valid goes nowhere.  The slots that stand in the loop of a  *)
(* socket which was connected come back to one that is lost.               *)
Dead == [i \in DOMAIN questions |-> [questions[i] EXCEPT !.alive = FALSE]]
Forget ==
  /\ socket' = "none" /\ inner' = 0
  /\ questions' = Append(Dead, Ask("Retry"))
  /\ swallowed' = FALSE

(* The signal disconnected that follows, of a socket LokiSocket has kept:  *)
(* OnClientDisconnectTriggered forgets it if it is not valid by now, and   *)
(* tells nobody; otherwise deleteLater deletes it under LokiSocket.        *)
OnDisconnected ==
  /\ socket' \in {"none", "deleted"} /\ inner' = 0
  /\ questions' = Dead
  /\ swallowed' = TRUE

Keep ==
  /\ socket' = "unconnected" /\ swallowed' = TRUE
  /\ UNCHANGED <<inner, questions>>
OnSocketErrorForgets ==
  IF socket = "connected" THEN Forget \/ OnDisconnected
  ELSE socket' = "none" /\ inner' = 0 /\ UNCHANGED <<questions, swallowed>>
OnSocketError ==
  \/ Forget
  \/ socket = "connected" /\ OnDisconnected
  \/ socket = "connecting" /\ Keep

(* The attempt is refused or times out, or the server or the network goes. *)
Fail ==
  /\ socket \in {"connecting", "connected"} /\ failures < MaxFailures
  /\ failures' = failures + 1
  /\ OnSocketError
  /\ logins' = 0 /\ toClient' = <<>> /\ member' = FALSE /\ welcomed' = FALSE
  /\ UNCHANGED <<outer, cancelled, applies>>

(* LokiClient::Init and LokiSocket::ConnectToHost.  _socket->connectToHost *)
(* does something only on a socket that is not in use, and nothing that    *)
(* could be told on one that is deleted.                                   *)
ReInitOnce == UNCHANGED <<socket, inner, outer, swallowed>>
ReInit ==
  /\ outer' = outer + 1
  /\ inner' = inner + 1
  /\ socket' = IF socket \in {"none", "unconnected"} THEN "connecting" ELSE socket
  /\ swallowed' = (socket = "deleted")

(* ShowNetworkRetry, for one of the calls the error makes.  After the last *)
(* one the socket that failed emits disconnected, and a socket that is     *)
(* kept unconnected may be taken for it.                                   *)
AnswerRetry(again) ==
  /\ questions # <<>> /\ Innermost.kind = "Retry"
  /\ questions' = Answered
  /\ cancelled' = (cancelled \/ ~again)
  /\ \/ again /\ ReInit
     \/ ~again /\ UNCHANGED <<socket, inner, outer, swallowed>>
     \/ /\ ~again /\ socket = "unconnected"
        /\ socket' = "none" /\ inner' = 0 /\ UNCHANGED <<outer, swallowed>>
  /\ UNCHANGED <<network, welcomed, failures, applies>>

(* The answer is sent on _socket, whichever that is by now. *)
AnswerApply ==
  /\ questions # <<>> /\ Innermost.kind = "Apply"
  /\ questions' = Answered
  /\ UNCHANGED <<socket, inner, outer, network, welcomed, swallowed, cancelled, failures, applies>>

-----------------------------------------------------------------------------
Next ==
  \/ OnConnected \/ HandleLogin \/ RelayApply \/ OnDataRead
  \/ Fail \/ (\E again \in BOOLEAN : AnswerRetry(again))
  \/ AnswerApply

Spec == Init /\ [][Next]_vars

(* The server and the event loops run, and the user answers in the end.    *)
FairSpec ==
  /\ Spec
  /\ WF_vars(OnConnected) /\ WF_vars(HandleLogin) /\ WF_vars(OnDataRead)
  /\ WF_vars(AnswerRetry(TRUE)) /\ WF_vars(AnswerApply)

-----------------------------------------------------------------------------
(* Properties.                                                             *)

(* LokiSocket::SendData uses _socket without a look at it.  What the user  *)
(* of the window sends, which needs every question to be answered, finds   *)
(* one there, however the questions of several failures nest, unless the   *)
(* user has once answered "cancel" or the last error was not passed on.    *)
(* Not so what nobody asks the user for: the voice library's callbacks     *)
(* (LiveWidget::OnSdp) send at any time, while it is NULL too.             *)
UserHasSocket ==
  questions = <<>> /\ socket \in {"none", "deleted"} => cancelled \/ swallowed

(* A user who always answers "retry" is back in class once the network     *)
(* fails no more, whatever number of questions the errors asked; only an   *)
(* error that is not passed on is the end.                                 *)
Rejoins == <>[](welcomed \/ cancelled \/ swallowed)

(* The calls of Init that the open questions may still lead to.            *)
Retries(q) == IF q.kind = "Retry" THEN q.left ELSE 0
SumRetries(qs) ==
  LET sum[i \in 0..Len(qs)] == IF i = 0 THEN 0 ELSE sum[i - 1] + Retries(qs[i])
  IN sum[Len(qs)]
Pending == SumRetries(questions)

(* LokiClient handles every command as often as Init was called, and an    *)
(* error asks as many questions, of which each calls Init: after n         *)
(* failures a command is handled at most 2^n times, with all Inits that    *)
(* are still to come.  A login is sent for each pair of connections from   *)
(* the QTcpSocket and from LokiSocket: at most the square of that.         *)
AtMostDoubled ==
  /\ outer + Pending <= 2 ^ failures
  /\ logins <= (2 ^ failures) * (2 ^ failures)

-----------------------------------------------------------------------------
(* What the program says of itself and does not keep.                      *)

(* The question's caption says "disconnected from the server".             *)
AsksWhenDisconnected ==
  questions # <<>> /\ Innermost.kind = "Retry" => socket # "connected"

(* The comment in OnSocketErrorTriggered says that every error of the      *)
(* network should be caught there: none leaves a client without connection *)
(* and without question.                                                   *)
EveryErrorAsked == swallowed => questions # <<>>

(* After the answer to an application ParseCommand goes on reading         *)
(* _socket (LokiSocket::ParseCommand): the socket it was reading.          *)
AnswerHasSocket ==
  questions # <<>> /\ Innermost.kind = "Apply" => Innermost.alive
=============================================================================
