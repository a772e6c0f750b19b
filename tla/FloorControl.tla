---------------------------- MODULE FloorControl ----------------------------
(***************************************************************************)
(* Who may write on the shared blackboard of a live class.                 *)
(*                                                                         *)
(* The server (Server/Giants/src/loki) is one libuv loop: it keeps the     *)
(* connections of a class and relays commands between them.  The clients   *)
(* (Client/src/hera/LiveWidget, Client/src/common/LokiClient) each decide  *)
(* for themselves, from the commands they have received so far, whether    *)
(* they control the blackboard.  Nothing else arbitrates: the floor is     *)
(* whatever the clients' _controlingBoard flags say.                       *)
(*                                                                         *)
(* The model keeps one class, its TCP connections, FIFO delivery in each   *)
(* direction of a connection, and every handler that reads or writes the   *)
(* floor state.  A client here is a connection with the process that uses  *)
(* it; a process whose link fails goes on over another connection, with    *)
(* its flags and its buttons, when its user answers Retry                  *)
(* (LiveWidget::ShowNetworkRetry).  It sends its login twice then, and     *)
(* handles each command twice, as Reconnect counts.  Two logins matter and *)
(* are modelled; what a second handling adds (one more page sent, the same *)
(* question put again) is what a second command would, and is left to it.  *)
(* Pages are abstracted to the fact that a page was switched: only that    *)
(* command touches the floor.                                              *)
(***************************************************************************)
EXTENDS Naturals, Sequences, Functions

CONSTANTS
  Clients,      \* connections, each of one client process
  Teachers,     \* those whose session DatabaseEngine::IsTeacher accepts
  Students,     \* those whose session DatabaseEngine::IsStudent accepts
  AllTeachers,  \* the class's all_teachers column: a demo class
  Users,        \* user ids
  UserId,       \* the user id the database gives the session used on each
  NoUser,       \* no user (an empty id, a NULL User*)
  NoClient,     \* no client (a NULL User*)
  MaxInFlight   \* bound: user input waits while this many are in flight

ASSUME ClassAssumption ==
  /\ Teachers \subseteq Clients
  /\ Students \subseteq Clients
  /\ Teachers \cap Students = {}
  /\ AllTeachers \in BOOLEAN
  /\ UserId \in [Clients -> Users]
  /\ NoUser \notin Users
  /\ NoClient \notin Clients
  /\ MaxInFlight \in Nat

VARIABLES
  conn,          \* server: state of the uv handle of each client's connection
  classUsers,    \* server: ClassSessionManager::_classUsers of the class
  classTeacher,  \* server: ClassSessionManager::_teachers of the class
  toServer,      \* commands written by a client and not yet handled
  toClient,      \* commands written by the server and not yet handled
  app,           \* client: "off"; "on"; "again", a process that has retried
                 \* goes on here; "gone"
  joined,        \* client: its own login was answered with result = true
  controling,    \* client: LiveWidget::_controlingBoard
  ui,            \* client: what LiveTitleWidget::SetEnabled left on screen
  asking,        \* client: the student named in the open question, or NoUser
  holder         \* history: whom the commands relayed so far put in control

serverVars == <<conn, classUsers, classTeacher, holder>>
netVars == <<toServer, toClient>>
clientVars == <<app, joined, controling, ui, asking>>
vars == <<serverVars, netVars, clientVars>>

-----------------------------------------------------------------------------
(* Commands.  All carry the same fields; the unused ones are constant.     *)

Msg == [type : {"Login", "Reply", "Peer", "Apply", "Agree", "Take", "Switch"},
        user : Users \cup {NoUser},
        yes  : BOOLEAN]

Command(type) == [type |-> type, user |-> NoUser, yes |-> FALSE]
Login == Command("Login")                  \* BoardLoginCommand, to the server
Reply(ok) == [type |-> "Reply", user |-> NoUser, yes |-> ok]  \* peer = false
Peer == Command("Peer")                    \* BoardLoginCommand, peer = true
Apply(u) == [type |-> "Apply", user |-> u, yes |-> FALSE]
AgreeSwapped(u, ok) == [type |-> "Agree", user |-> ok, yes |-> u]
Agree(u, ok) == [type |-> "Agree", user |-> u, yes |-> ok]
Take == Command("Take")
Switch == Command("Switch")                \* BoardDataCommand, NetworkSwitchPage

(* LiveTitleWidget: the first call after the constructor's puts either the *)
(* apply or the take button on the bar, and no later call changes that.    *)
Blank == [button |-> "none", whole |-> FALSE, apply |-> FALSE]
SetEnabledSwapped(bar, whole, student, apply) ==
  [button |-> IF bar.button # "none" THEN bar.button
              ELSE IF student THEN "apply" ELSE "take",
   whole  |-> apply,
   apply  |-> whole]
SetEnabled(bar, whole, student, apply) ==
  [button |-> IF bar.button # "none" THEN bar.button
              ELSE IF student THEN "apply" ELSE "take",
   whole  |-> whole,
   apply  |-> apply]

IsTeacher(c) == c \in Teachers
IsDemo(c) == c \in Students /\ AllTeachers

-----------------------------------------------------------------------------
TypeOK ==
  /\ conn \in [Clients -> {"none", "open", "closing", "closed"}]
  /\ classUsers \subseteq Clients
  /\ classTeacher \in Clients \cup {NoClient}
  /\ toServer \in [Clients -> Seq(Msg)]
  /\ toClient \in [Clients -> Seq(Msg)]
  /\ app \in [Clients -> {"off", "on", "again", "gone"}]
  /\ joined \in [Clients -> BOOLEAN]
  /\ controling \in [Clients -> BOOLEAN]
  /\ ui \in [Clients -> [button : {"none", "apply", "take"},
                         whole : BOOLEAN, apply : BOOLEAN]]
  /\ asking \in [Clients -> Users \cup {NoUser}]
  /\ holder \in Users \cup {NoUser}

Init ==
  /\ conn = [c \in Clients |-> "none"]
  /\ classUsers = {}
  /\ classTeacher = NoClient
  /\ toServer = [c \in Clients |-> <<>>]
  /\ toClient = [c \in Clients |-> <<>>]
  /\ app = [c \in Clients |-> "off"]
  /\ joined = [c \in Clients |-> FALSE]
  /\ controling = [c \in Clients |-> FALSE]
  /\ ui = [c \in Clients |-> Blank]
  /\ asking = [c \in Clients |-> NoUser]
  /\ holder = NoUser

-----------------------------------------------------------------------------
(* The network.                                                            *)

Send(c, m) == toServer' = [toServer EXCEPT ![c] = Append(@, m)]

(* WriteData skips a handle that is closing or closed; what it writes to a *)
(* process that has gone is lost.                                          *)
Runs(c) == app[c] \in {"on", "again"}
Writable(c) == conn[c] = "open" /\ Runs(c)
Write(queues, S, m) ==
  [c \in Clients |-> IF c \in S /\ Writable(c) THEN Append(queues[c], m)
                                               ELSE queues[c]]
Relay(S, m) == toClient' = Write(toClient, S, m)

(* User input is made only while few commands are in flight (a bound of    *)
(* the model, not of the program).                                         *)
InFlight == SumFunction([c \in Clients |-> Len(toServer[c]) + Len(toClient[c])])
Room == InFlight < MaxInFlight

-----------------------------------------------------------------------------
(* The server's handlers.  Each runs to its end on the loop's thread.      *)

Handles(c, type) ==
  /\ conn[c] = "open"
  /\ toServer[c] # <<>>
  /\ Head(toServer[c]).type = type
  /\ toServer' = [toServer EXCEPT ![c] = Tail(@)]

(* ClassSessionManager: the users of the class and its one teacher. *)
AddClassUser(c) ==
  /\ classUsers' = classUsers \cup {c}
  /\ classTeacher' = IF IsTeacher(c) THEN c ELSE classTeacher
RemoveUserKeepsTeacher(c) ==
  /\ classUsers' = classUsers \ {c}
  /\ UNCHANGED classTeacher
RemoveUser(c) ==
  /\ classUsers' = classUsers \ {c}
  /\ classTeacher' = IF classTeacher = c THEN NoClient ELSE classTeacher

(* A session the database does not know is refused, and any session is     *)
(* while the database cannot be reached.                                   *)
HandleLogin(c) ==
  /\ Handles(c, "Login")
  /\ \/ /\ Relay({c}, Reply(FALSE))
        /\ UNCHANGED <<classUsers, classTeacher, holder>>
     \/ /\ c \in Teachers \cup Students
        /\ AddClassUser(c)
        /\ toClient' = Write(Write(toClient, {c}, Reply(TRUE)),
                             classUsers \ {c}, Peer)
        /\ holder' = IF IsTeacher(c) THEN UserId[c] ELSE holder
  /\ UNCHANGED <<conn, clientVars>>

HandleApply(c) ==
  /\ Handles(c, "Apply")
  /\ Relay({classTeacher} \ {NoClient}, Head(toServer[c]))
  /\ UNCHANGED <<serverVars, clientVars>>

HandleAgreeToAsker(c) ==
  /\ Handles(c, "Agree")
  /\ Relay({d \in classUsers : UserId[d] = Head(toServer[c]).user}, Head(toServer[c]))
  /\ holder' = IF Head(toServer[c]).yes THEN Head(toServer[c]).user ELSE holder
  /\ UNCHANGED <<conn, classUsers, classTeacher, clientVars>>
HandleAgree(c) ==
  /\ Handles(c, "Agree")
  /\ Relay(classUsers, Head(toServer[c]))
  /\ holder' = IF Head(toServer[c]).yes THEN Head(toServer[c]).user ELSE holder
  /\ UNCHANGED <<conn, classUsers, classTeacher, clientVars>>

HandleTakeToEveryone(c) ==
  /\ Handles(c, "Take")
  /\ Relay(Clients \ {c}, Take)
  /\ holder' = UserId[c]
  /\ UNCHANGED <<conn, classUsers, classTeacher, clientVars>>
HandleTakeToTeacher(c) ==
  /\ Handles(c, "Take")
  /\ Relay({classTeacher} \ {c}, Take)
  /\ holder' = UserId[c]
  /\ UNCHANGED <<conn, classUsers, classTeacher, clientVars>>
HandleTake(c) ==
  /\ Handles(c, "Take")
  /\ Relay(classUsers \ {c}, Take)
  /\ holder' = UserId[c]
  /\ UNCHANGED <<conn, classUsers, classTeacher, clientVars>>

HandleBoardData(c) ==
  /\ Handles(c, "Switch")
  /\ Relay(classUsers \ {c}, Switch)
  /\ UNCHANGED <<serverVars, clientVars>>

(* OnRead with nread < 0: end of file after the last byte, or an error     *)
(* that loses what was still in transit.  The user stays in the class      *)
(* until the close callback.                                               *)
ReadEnds(c) ==
  /\ conn[c] = "open"
  /\ app[c] = "gone"
  /\ conn' = [conn EXCEPT ![c] = "closing"]
  /\ toServer' = [toServer EXCEPT ![c] = <<>>]
  /\ UNCHANGED <<classUsers, classTeacher, holder, toClient, clientVars>>

OnClose(c) ==
  /\ conn[c] = "closing"
  /\ conn' = [conn EXCEPT ![c] = "closed"]
  /\ RemoveUser(c)
  /\ UNCHANGED <<holder, netVars, clientVars>>

-----------------------------------------------------------------------------
(* The client's network handlers.  The question of OnStudentApplyBoard is  *)
(* a modal dialog run inside the socket's readyRead slot, and readyRead is *)
(* not emitted recursively: while it is open nothing is received.          *)

Receives(c, type) ==
  /\ Runs(c)
  /\ asking[c] = NoUser
  /\ toClient[c] # <<>>
  /\ Head(toClient[c]).type = type
  /\ toClient' = [toClient EXCEPT ![c] = Tail(@)]

Show(c, whole, student, apply) ==
  ui' = [ui EXCEPT ![c] = SetEnabled(@, whole, student, apply)]
SetEnableCurrentPage(c, enable) ==
  controling' = [controling EXCEPT ![c] = enable]

OnBoardLogin(c) ==
  /\ Receives(c, "Reply")
  /\ \/ /\ ~Head(toClient[c]).yes
        /\ Show(c, FALSE, TRUE, FALSE)
        /\ UNCHANGED <<joined, controling>>
     \/ /\ Head(toClient[c]).yes
        /\ joined' = [joined EXCEPT ![c] = TRUE]
        /\ \/ /\ IsDemo(c)
              /\ Show(c, FALSE, FALSE, FALSE)
              /\ SetEnableCurrentPage(c, FALSE)
           \/ /\ IsTeacher(c)
              /\ Show(c, TRUE, FALSE, FALSE)
              /\ SetEnableCurrentPage(c, TRUE)
           \/ /\ ~IsDemo(c) /\ ~IsTeacher(c)
              /\ Show(c, FALSE, TRUE, TRUE)
              /\ UNCHANGED controling
  /\ UNCHANGED <<serverVars, toServer, app, asking>>

(* The teacher in control shows a newcomer its page.                       *)
OnPeerLogin(c) ==
  /\ Receives(c, "Peer")
  /\ IF IsTeacher(c) /\ controling[c]
     THEN Send(c, Switch)
     ELSE UNCHANGED toServer
  /\ UNCHANGED <<serverVars, clientVars>>

OnStudentApplyBoardInControl(c) ==
  /\ Receives(c, "Apply")
  /\ asking' = [asking EXCEPT ![c] = IF controling[c] THEN Head(toClient[c]).user
                                                    ELSE NoUser]
  /\ UNCHANGED <<serverVars, toServer, app, joined, controling, ui>>
OnStudentApplyBoard(c) ==
  /\ Receives(c, "Apply")
  /\ asking' = [asking EXCEPT ![c] = Head(toClient[c]).user]
  /\ UNCHANGED <<serverVars, toServer, app, joined, controling, ui>>

(* LokiClient drops the command at a teacher; at a student, "another" says *)
(* whether it names somebody else.                                         *)
OnTeacherAgreeBoard(c) ==
  /\ Receives(c, "Agree")
  /\ LET another == Head(toClient[c]).user # UserId[c]
         agree == Head(toClient[c]).yes
     IN \/ /\ ~IsTeacher(c) /\ another = agree
           /\ Show(c, FALSE, TRUE, TRUE)
           /\ SetEnableCurrentPage(c, FALSE)
        \/ /\ ~IsTeacher(c) /\ ~another /\ agree
           /\ Show(c, TRUE, TRUE, FALSE)
           /\ SetEnableCurrentPage(c, TRUE)
        \/ /\ IsTeacher(c) \/ (another /\ ~agree)
           /\ UNCHANGED <<ui, controling>>
  /\ UNCHANGED <<serverVars, toServer, app, joined, asking>>

OnTeacherTakeBoardNotDemo(c) ==
  /\ Receives(c, "Take")
  /\ IF controling[c] /\ ~IsDemo(c)
     THEN /\ Show(c, FALSE, IsTeacher(c), TRUE)
          /\ SetEnableCurrentPage(c, FALSE)
     ELSE UNCHANGED <<ui, controling>>
  /\ UNCHANGED <<serverVars, toServer, app, joined, asking>>
OnTeacherTakeBoard(c) ==
  /\ Receives(c, "Take")
  /\ IF controling[c]
     THEN /\ Show(c, FALSE, IsDemo(c) \/ IsTeacher(c), TRUE)
          /\ SetEnableCurrentPage(c, FALSE)
     ELSE UNCHANGED <<ui, controling>>
  /\ UNCHANGED <<serverVars, toServer, app, joined, asking>>

(* A page switched elsewhere is shown here, and whoever sees it loses      *)
(* control; the buttons are not told.                                      *)
PlayNetworkSwitchPage(c) ==
  /\ Receives(c, "Switch")
  /\ SetEnableCurrentPage(c, FALSE)
  /\ UNCHANGED <<serverVars, toServer, app, joined, ui, asking>>

-----------------------------------------------------------------------------
(* What the user does.  An open question is modal: it blocks all else.     *)

AtDesk(c) == Runs(c) /\ asking[c] = NoUser

(* The client connects, the server accepts, and OnConnected logs in.       *)
Connect(c) ==
  /\ app[c] = "off" /\ Room
  /\ app' = [app EXCEPT ![c] = "on"]
  /\ conn' = [conn EXCEPT ![c] = "open"]
  /\ Send(c, Login)
  /\ UNCHANGED <<classUsers, classTeacher, holder, toClient, joined,
                 controling, ui, asking>>

OnApplyBoard(c) ==
  /\ AtDesk(c)
  /\ ui[c].button = "apply" /\ ui[c].apply
  /\ Room
  /\ Send(c, Apply(UserId[c]))
  /\ UNCHANGED <<serverVars, toClient, clientVars>>

OnTakeBoard(c) ==
  /\ AtDesk(c)
  /\ ui[c].button = "take"
  /\ Room
  /\ Send(c, Take)
  /\ Show(c, TRUE, FALSE, FALSE)
  /\ SetEnableCurrentPage(c, TRUE)
  /\ UNCHANGED <<serverVars, toClient, app, joined, asking>>

(* New page, page up, page down, a page picked or filled: sent only by a   *)
(* client in control.                                                      *)
SwitchPage(c) ==
  /\ AtDesk(c)
  /\ controling[c]
  /\ Room
  /\ Send(c, Switch)
  /\ UNCHANGED <<serverVars, toClient, clientVars>>

(* The rest of OnStudentApplyBoard, when the question is answered.         *)
AnswerApplyKeepsBoard(c, yes) ==
  /\ Runs(c) /\ asking[c] # NoUser
  /\ Send(c, Agree(asking[c], yes))
  /\ asking' = [asking EXCEPT ![c] = NoUser]
  /\ UNCHANGED <<serverVars, toClient, app, joined, ui, controling>>
AnswerApply(c, yes) ==
  /\ Runs(c) /\ asking[c] # NoUser
  /\ Send(c, Agree(asking[c], yes))
  /\ asking' = [asking EXCEPT ![c] = NoUser]
  /\ IF yes
     THEN Show(c, FALSE, FALSE, FALSE) /\ SetEnableCurrentPage(c, FALSE)
     ELSE UNCHANGED <<ui, controling>>
  /\ UNCHANGED <<serverVars, toClient, app, joined>>

(* The process ends; or its machine fails; or its link, and the user does  *)
(* not answer Retry: the window that stays has no connection any more.     *)
Leave(c) ==
  /\ Runs(c)
  /\ app' = [app EXCEPT ![c] = "gone"]
  /\ joined' = [joined EXCEPT ![c] = FALSE]
  /\ controling' = [controling EXCEPT ![c] = FALSE]
  /\ ui' = [ui EXCEPT ![c] = Blank]
  /\ asking' = [asking EXCEPT ![c] = NoUser]
  /\ toClient' = [toClient EXCEPT ![c] = <<>>]
  /\ UNCHANGED <<serverVars, toServer>>

(* The link fails, the user answers Retry and LokiClient::Init connects    *)
(* again, over d; the question is modal, so all that happens while it is   *)
(* open is as if the logins took that long.  Bounds: no question of a      *)
(* student's is open then, and the second link does not fail.              *)
ShowNetworkRetry(c, d) ==
  /\ app[c] = "on" /\ asking[c] = NoUser
  /\ app[d] = "off" /\ UserId[d] = UserId[c]
  /\ d \in Teachers <=> c \in Teachers
  /\ d \in Students <=> c \in Students
  /\ app' = [app EXCEPT ![c] = "gone", ![d] = "again"]
  /\ conn' = [conn EXCEPT ![d] = "open"]
  /\ toServer' = [toServer EXCEPT ![d] = <<Login, Login>>]
  /\ toClient' = [toClient EXCEPT ![c] = <<>>]
  /\ joined' = [joined EXCEPT ![c] = FALSE]
  /\ controling' = [controling EXCEPT ![c] = FALSE, ![d] = controling[c]]
  /\ ui' = [ui EXCEPT ![c] = Blank, ![d] = ui[c]]
  /\ UNCHANGED <<classUsers, classTeacher, holder, asking>>

-----------------------------------------------------------------------------
Handle(c) ==
  \/ HandleLogin(c) \/ HandleApply(c) \/ HandleAgree(c)
  \/ HandleTake(c) \/ HandleBoardData(c)

Receive(c) ==
  \/ OnBoardLogin(c) \/ OnPeerLogin(c) \/ OnStudentApplyBoard(c)
  \/ OnTeacherAgreeBoard(c) \/ OnTeacherTakeBoard(c)
  \/ PlayNetworkSwitchPage(c)

Input(c) ==
  \/ Connect(c) \/ OnApplyBoard(c) \/ OnTakeBoard(c) \/ SwitchPage(c)
  \/ (\E yes \in BOOLEAN : AnswerApply(c, yes)) \/ Leave(c)
  \/ \E d \in Clients : ShowNetworkRetry(c, d)

Next == \E c \in Clients :
  Handle(c) \/ ReadEnds(c) \/ OnClose(c) \/ Receive(c) \/ Input(c)

(* The loops run and the network delivers; users promise nothing.          *)
Fairness == \A c \in Clients :
  /\ WF_vars(Handle(c))
  /\ WF_vars(Receive(c))
  /\ WF_vars(ReadEnds(c))
  /\ WF_vars(OnClose(c))

Spec == Init /\ [][Next]_vars
FairSpec == Spec /\ Fairness

(* Besides, a teacher answers the question that blocks the window.         *)
AnsweringSpec ==
  FairSpec /\ \A c \in Clients : WF_vars(\E yes \in BOOLEAN : AnswerApply(c, yes))

-----------------------------------------------------------------------------
(* Properties.                                                             *)

(* Processing m takes the blackboard away from c. *)
Revokes(m, c) ==
  \/ m.type = "Take"
  \/ m.type = "Switch"
  \/ m.type = "Agree" /\ ~IsTeacher(c) /\ (m.user # UserId[c]) = m.yes

(* A take that c has sent and the server has not relayed yet. *)
Taking(c) == \E i \in DOMAIN toServer[c] : toServer[c][i].type = "Take"
(* A command on its way to c that will take the blackboard away from it. *)
Losing(c) == \E i \in DOMAIN toClient[c] : Revokes(toClient[c][i], c)

(* A user that has come back: two of its connections have been used, by a  *)
(* process that retried or by one after the other.                         *)
CameBack(u) ==
  \E c, d \in Clients : c # d /\ UserId[c] = u /\ UserId[d] = u
                        /\ app[c] # "off" /\ app[d] # "off"

(* Two clients hold the blackboard at once only while the command that     *)
(* will make one of them give it up is still in flight, unless the user of *)
(* one of them has come back: the flags of                                 *)
(* LiveWidget::SetEnableCurrentPage do not disagree for good while nobody  *)
(* starts from an old flag or is enabled by a second login.                *)
ConflictInFlight ==
  \A a, b \in Clients :
    a # b /\ controling[a] /\ controling[b]
      => \/ \E c \in {a, b} : Taking(c) \/ Losing(c)
         \/ CameBack(UserId[a]) \/ CameBack(UserId[b])

Settled ==
  \A c \in Clients : toServer[c] = <<>> /\ toClient[c] = <<>> /\ asking[c] = NoUser

(* Once every command has been handled, whoever still controls the board   *)
(* is the client the server's relay order put in control; only a user that *)
(* has come back may keep it besides, or lose it to a teacher that has and *)
(* not know.                                                               *)
TeacherBack == \E t \in Teachers : holder = UserId[t] /\ CameBack(UserId[t])
SettledHolder ==
  Settled => \A c \in Clients :
    controling[c] => holder = UserId[c] \/ CameBack(UserId[c]) \/ TeacherBack

(* NetCommandHandler dereferences every User* it finds in the class: none  *)
(* may outlive OnClose, which deletes the User, and the class's teacher is *)
(* one of the class's users.                                               *)
NoDeletedUser ==
  /\ \A c \in classUsers : conn[c] \in {"open", "closing"}
  /\ classTeacher \in classUsers \cup {NoClient}

(* A client compares commands with the user id its own login reply brings: *)
(* until that reply is processed, it precedes everything else sent to it.  *)
ReplyFirst ==
  \A c \in Clients :
    toClient[c] # <<>> /\ ~joined[c] => toClient[c][1].type = "Reply"

(* The drawing tools are enabled on a client that controls the board,      *)
(* unless it is a process that has retried: a student's own login takes    *)
(* the tools away and leaves the flag.                                     *)
ControllerHasTools ==
  \A c \in Clients : controling[c] /\ app[c] = "on" => ui[c].whole

(* Two controllers do not last: the relay ends every conflict, unless the  *)
(* user of one of them has come back.                                      *)
ConflictsEnd ==
  \A a, b \in Clients :
    a # b => []<>(\/ ~(controling[a] /\ controling[b])
                  \/ CameBack(UserId[a]) \/ CameBack(UserId[b]))

(* A teacher who comes back while a student controls the board does so     *)
(* beside that student, but two students never keep it unless one of them  *)
(* has retried: when all is handled, every student has heard of the last   *)
(* grant, whichever of the teacher's connections it came over.             *)
OneStudentControls ==
  Settled => \A a, b \in Students :
    controling[a] /\ controling[b] =>
      UserId[a] = UserId[b] \/ "again" \in {app[a], app[b]}

(* A client that has gone is forgotten by its class.                       *)
GoneForgotten ==
  \A c \in Clients : app[c] = "gone" ~> c \notin classUsers /\ classTeacher # c

(* An application made while the teacher is in class is put to the teacher *)
(* unless one of the two goes away.                                        *)
Applying(s) == \E i \in DOMAIN toServer[s] : toServer[s][i].type = "Apply"
ApplicationHeard ==
  \A s \in Students, t \in Teachers :
    Applying(s) /\ t \in classUsers /\ Writable(t)
      ~> asking[t] = UserId[s] \/ ~Writable(t) \/ app[s] = "gone"

-----------------------------------------------------------------------------
(* What the program says of itself and does not keep.                      *)

(* The take button's tooltip says "take back the right to use the          *)
(* blackboard": when all is handled, the teacher whose take was the last   *)
(* decision has it.                                                        *)
TakeRegainsBoard ==
  Settled => \A t \in Teachers :
    joined[t] /\ holder = UserId[t] => controling[t]

(* The apply button's tooltip says "ask the teacher for the blackboard": a *)
(* student who is in class and does not have it can ask for it.            *)
CanAskForBoard ==
  Settled /\ ~AllTeachers =>
    \A s \in Students : joined[s] => controling[s] \/ ui[s].apply

(* The same button promises that there is a teacher to ask: the class has  *)
(* one as long as a connected teacher is among its users.                  *)
ClassHasTeacher ==
  \A t \in Teachers : t \in classUsers /\ Writable(t) => classTeacher # NoClient

(* The buttons promise one blackboard: when all is handled one client has  *)
(* it.  A teacher who comes back while a student has it is enabled by its  *)
(* own login.                                                              *)
OneControls ==
  Settled => \A a, b \in Clients : controling[a] /\ controling[b] => a = b

(* And whoever has it has the tools: a student in control that retries     *)
(* loses them.                                                             *)
RetryHasTools == Settled => \A c \in Clients : controling[c] => ui[c].whole

(* A comment of the login handler says the second login of a user replaces *)
(* the first: a class never has two open connections of one user.          *)
SecondLoginReplaces ==
  \A a, b \in classUsers :
    a # b /\ conn[a] = "open" /\ conn[b] = "open" => UserId[a] # UserId[b]
=============================================================================
