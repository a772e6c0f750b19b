----------------------------- MODULE LiveBoard -----------------------------
(***************************************************************************)
(* The shared blackboard of a live class: FloorControl with the pages.     *)
(*                                                                         *)
(* Every client keeps its own pages (LiveWidget::_allPages).  The client   *)
(* in control sends each of its actions as a command, and the others play  *)
(* it on whatever page they show.  A page switch carries the uuid and all  *)
(* of the page's content, other commands name an element only.             *)
(*                                                                         *)
(* The floor's part of every step is FloorControl's, on the queues with    *)
(* the pages' commands taken out.  Covered here: joining, drawing, undo    *)
(* and redo, reordering and changing elements, new pages, the pages dialog *)
(* and page up and down, and the floor.  Processes do not leave here and   *)
(* connections do not fail; FloorControl has that.                         *)
(***************************************************************************)
EXTENDS Pages

CONSTANTS
  Clients, Teachers, Students, AllTeachers, Users, UserId, NoUser, NoClient,
  MaxInFlight,  \* as in FloorControl
  NewPages,     \* uuids of the pages made after the first one
  Usages        \* what the users of a class do besides joining and answering

ASSUME BoardAssumption ==
  /\ Teachers \subseteq Clients /\ Students \subseteq Clients /\ Teachers \cap Students = {}
  /\ AllTeachers \in BOOLEAN /\ MaxInFlight \in Nat
  /\ UserId \in [Clients -> Users] /\ NoUser \notin Users /\ NoClient \notin Clients
  /\ Uuids \subseteq Nat /\ NewPages \subseteq Nat
  /\ MaxCopies \in Nat \ {0} /\ Looks # {}
  /\ NewPages \cap Clients = {}
  /\ Usages \subseteq SUBSET {"apply", "take", "draw", "undo", "redo", "delete", "top",
                              "bottom", "change", "new", "select", "turn"}

VARIABLES
  conn, classUsers, classTeacher, app, joined, controling, ui, asking, holder,
  toServer,   \* as in FloorControl, with the pages' commands and contents
  toClient,
  pages,      \* client: LiveWidget::_allPages by uuid
  order,      \* client: the uuids of _allPages in their order
  index,      \* client: LiveWidget::_currentPageIndex, counted from 1
  current,    \* client: the uuid of LiveWidget::_currentPage
  choosing,   \* client: how many pages the open pages dialog lists, or 0
  made,       \* the uuids given to pages so far
  shows,      \* how often each element has been put on a page by a user
  usage       \* which of Usages this class keeps to

floorVars == <<conn, classUsers, classTeacher, app, joined, controling, ui, asking, holder>>
boardVars == <<pages, order, index, current, choosing, made, shows, usage>>
vars == <<floorVars, toServer, toClient, boardVars>>

-----------------------------------------------------------------------------
(* Commands are the floor's, with what a page switch carries, and one kind *)
(* more: an action on the page that is shown.                              *)

Bare(m) == [type |-> m.type, user |-> m.user, yes |-> m.yes]
With(m, data) == [type |-> m.type, user |-> m.user, yes |-> m.yes, data |-> data]
Plain(m) == With(m, <<>>)
FloorQueue(q) ==
  LET floor[i \in 0..Len(q)] ==
        IF i = 0 THEN <<>>
        ELSE IF q[i].type = "Edit" THEN floor[i - 1] ELSE Append(floor[i - 1], Bare(q[i]))
  IN floor[Len(q)]

Floor == INSTANCE FloorControl WITH
  toServer <- [c \in Clients |-> FloorQueue(toServer[c])],
  toClient <- [c \in Clients |-> FloorQueue(toClient[c])]

(* NetworkSwitchPageAction and the actions on elements. *)
NetworkSwitchPage(p, page) ==
  With(Floor!Switch, [page |-> p, content |-> Shown(page)])
Edit(action, u, look) ==
  With(Floor!Command("Edit"), [action |-> action, id |-> u, look |-> look])

FirstPage(c) == c
PageIds == Clients \cup NewPages
Page(c) == pages[c][current[c]]
AnyLook == CHOOSE look \in Looks : TRUE

TypeOK ==
  /\ Floor!TypeOK
  /\ \A c \in Clients :
       /\ IsInjective(order[c])
       /\ DOMAIN pages[c] = ToSet(order[c])
       /\ DOMAIN pages[c] \subseteq Clients \cup made
       /\ current[c] \in DOMAIN pages[c]
       /\ index[c] \in DOMAIN order[c]
       /\ \A p \in DOMAIN pages[c] : IsPage(pages[c][p])
  /\ \A c \in Clients : choosing[c] \in 0..Len(order[c])
  /\ made \subseteq NewPages
  /\ shows \in [Uuids -> 0..MaxCopies]
  /\ usage \in Usages

Init ==
  /\ toServer = [c \in Clients |-> <<>>]
  /\ toClient = [c \in Clients |-> <<>>]
  /\ Floor!Init
  /\ pages = [c \in Clients |-> [p \in {FirstPage(c)} |-> EmptyPage(TRUE)]]
  /\ order = [c \in Clients |-> <<FirstPage(c)>>]
  /\ index = [c \in Clients |-> 1]
  /\ current = [c \in Clients |-> FirstPage(c)]
  /\ choosing = [c \in Clients |-> 0]
  /\ made = {}
  /\ shows = [u \in Uuids |-> 0]
  /\ usage \in Usages

-----------------------------------------------------------------------------
(* Sending and receiving.                                                  *)

Send(c, m) == toServer' = [toServer EXCEPT ![c] = Append(@, m)]
Write(queues, S, m) ==
  [c \in Clients |-> IF c \in S /\ Floor!Writable(c) THEN Append(queues[c], m)
                                                     ELSE queues[c]]
FromClient(c, floor) ==
  /\ toServer[c] # <<>>
  /\ (Head(toServer[c]).type # "Edit") = floor
  /\ toServer' = [toServer EXCEPT ![c] = Tail(@)]
FromServer(c, floor) ==
  /\ toClient[c] # <<>>
  /\ (Head(toClient[c]).type # "Edit") = floor
  /\ toClient' = [toClient EXCEPT ![c] = Tail(@)]

Room ==
  /\ Floor!Room
  /\ SumFunction([c \in Clients |-> Len(toServer[c]) + Len(toClient[c])]) < MaxInFlight
May(input) == input \in usage /\ Room

-----------------------------------------------------------------------------
(* The server: the floor's handlers, relaying contents with the commands.  *)

HandleLogin(c) ==
  /\ FromClient(c, TRUE)
  /\ \/ toClient' = Write(toClient, {c}, Plain(Floor!Reply(FALSE)))
     \/ toClient' = Write(Write(toClient, {c}, Plain(Floor!Reply(TRUE))),
                          classUsers \ {c}, Plain(Floor!Peer))
  /\ Floor!HandleLogin(c)
  /\ UNCHANGED boardVars

(* What is relayed is the command that came; the floor says to whom. *)
HandleFloor(c) ==
  /\ FromClient(c, TRUE)
  /\ \E S \in SUBSET classUsers : toClient' = Write(toClient, S, Head(toServer[c]))
  /\ \/ Floor!HandleApply(c) \/ Floor!HandleAgree(c)
     \/ Floor!HandleTake(c) \/ Floor!HandleBoardData(c)
  /\ UNCHANGED boardVars

HandleEditEchoes(c) ==
  /\ FromClient(c, FALSE)
  /\ toClient' = Write(toClient, classUsers, Head(toServer[c]))
  /\ UNCHANGED <<floorVars, boardVars>>
HandleEdit(c) ==
  /\ FromClient(c, FALSE)
  /\ toClient' = Write(toClient, classUsers \ {c}, Head(toServer[c]))
  /\ UNCHANGED <<floorVars, boardVars>>

-----------------------------------------------------------------------------
(* The client's handlers of floor commands.  SetEnableCurrentPage marks    *)
(* the page that is shown and no other.                                    *)

ChangePage(c, q) == pages' = [pages EXCEPT ![c][current[c]] = q]
EnablePage(c) == ChangePage(c, [Page(c) EXCEPT !.disabled = ~controling'[c]])
OnlyPages == UNCHANGED <<order, index, current, choosing, made, shows, usage>>

OnBoardLogin(c) ==
  /\ FromServer(c, TRUE)
  /\ UNCHANGED toServer
  /\ Floor!OnBoardLogin(c)
  /\ IF Head(toClient[c]).yes /\ (Floor!IsDemo(c) \/ Floor!IsTeacher(c))
     THEN EnablePage(c) ELSE UNCHANGED pages
  /\ OnlyPages

OnPeerLogin(c) ==
  /\ FromServer(c, TRUE)
  /\ IF Floor!IsTeacher(c) /\ controling[c]
     THEN Send(c, NetworkSwitchPage(current[c], Page(c)))
     ELSE UNCHANGED toServer
  /\ Floor!OnPeerLogin(c)
  /\ UNCHANGED boardVars

OnStudentApplyBoard(c) ==
  /\ FromServer(c, TRUE)
  /\ UNCHANGED toServer
  /\ Floor!OnStudentApplyBoard(c)
  /\ UNCHANGED boardVars

OnTeacherAgreeBoard(c) ==
  /\ FromServer(c, TRUE)
  /\ UNCHANGED toServer
  /\ Floor!OnTeacherAgreeBoard(c)
  /\ IF Floor!IsTeacher(c) \/ (Head(toClient[c]).user # UserId[c] /\ ~Head(toClient[c]).yes)
     THEN UNCHANGED pages ELSE EnablePage(c)
  /\ OnlyPages

OnTeacherTakeBoard(c) ==
  /\ FromServer(c, TRUE)
  /\ UNCHANGED toServer
  /\ Floor!OnTeacherTakeBoard(c)
  /\ IF controling[c] THEN EnablePage(c) ELSE UNCHANGED pages
  /\ OnlyPages

(* The page of a uuid, there already or not. *)
Put(book, p, page) ==
  [q \in DOMAIN book \cup {p} |-> IF q = p THEN page ELSE book[q]]

(* A page that comes is the last of _allPages, and the one shown. *)
ListPageAtSize(c, p) ==
  /\ order' = [order EXCEPT ![c] = Append(@, p)]
  /\ index' = [index EXCEPT ![c] = Len(order[c]) + 2]
ListPage(c, p) ==
  /\ order' = [order EXCEPT ![c] = Append(@, p)]
  /\ index' = [index EXCEPT ![c] = Len(order[c]) + 1]

(* The page is looked up by its uuid and filled anew, or made; the index   *)
(* is set only in the second case.                                         *)
PlayNetworkSwitchPage(c) ==
  /\ FromServer(c, TRUE)
  /\ UNCHANGED toServer
  /\ Floor!PlayNetworkSwitchPage(c)
  /\ LET p == Head(toClient[c]).data.page
         known == p \in DOMAIN pages[c]
         old == IF known THEN pages[c][p] ELSE EmptyPage(FALSE)
     IN /\ \E q \in SetMsgPackData(old, Head(toClient[c]).data.content) :
             pages' = [pages EXCEPT ![c] = Put(@, p, [q EXCEPT !.disabled = TRUE])]
        /\ current' = [current EXCEPT ![c] = p]
        /\ IF known THEN UNCHANGED <<order, index>> ELSE ListPage(c, p)
  /\ UNCHANGED <<choosing, made, shows, usage>>

(* PlayAction: every other action goes to the page that is shown. *)
Played(p, d) ==
  CASE d.action = "Show"   -> PlayNetworkShow(p, d.id, d.look)
    [] d.action = "Hide"   -> {PlayHide(p, d.id)}
    [] d.action = "Top"    -> {PlayTopMost(p, d.id)}
    [] d.action = "Bottom" -> {PlayBottomMost(p, d.id)}
    [] d.action = "Look"   -> {PlaySetLook(p, d.id, d.look)}
ReplayedNotInControl(c, m) ==
  IF controling[c] THEN {Page(c)} ELSE Played(Page(c), m.data)
Replayed(c, m) == Played(Page(c), m.data)
PlayAction(c) ==
  /\ app[c] = "on" /\ asking[c] = NoUser
  /\ FromServer(c, FALSE)
  /\ \E q \in Replayed(c, Head(toClient[c])) : ChangePage(c, q)
  /\ UNCHANGED toServer
  /\ UNCHANGED floorVars
  /\ OnlyPages

-----------------------------------------------------------------------------
(* What the users do.  The pages dialog is modal, like the question, but   *)
(* runs outside the socket's slot: commands are handled while it is open.  *)

AtDesk(c) == Floor!AtDesk(c) /\ choosing[c] = 0

Connect(c) ==
  /\ Room
  /\ Send(c, Plain(Floor!Login))
  /\ UNCHANGED toClient
  /\ Floor!Connect(c)
  /\ UNCHANGED boardVars

OnApplyBoard(c) ==
  /\ May("apply") /\ AtDesk(c)
  /\ Send(c, Plain(Floor!Apply(UserId[c])))
  /\ UNCHANGED toClient
  /\ Floor!OnApplyBoard(c)
  /\ UNCHANGED boardVars

OnTakeBoard(c) ==
  /\ May("take") /\ AtDesk(c)
  /\ Send(c, Plain(Floor!Take))
  /\ UNCHANGED toClient
  /\ Floor!OnTakeBoard(c)
  /\ EnablePage(c)
  /\ OnlyPages

AnswerApply(c, yes) ==
  /\ asking[c] # NoUser
  /\ Send(c, Plain(Floor!Agree(asking[c], yes)))
  /\ UNCHANGED toClient
  /\ Floor!AnswerApply(c, yes)
  /\ IF yes THEN EnablePage(c) ELSE UNCHANGED pages
  /\ OnlyPages

(* AddActionTriggered: only the client in control sends what it does. *)
AddActionAlways(c, m) == Send(c, m)
AddActionTriggered(c, m) == IF controling[c] THEN Send(c, m) ELSE UNCHANGED toServer

(* BanBaseWidget looks at its own flag, not at who is in control. *)
Acts(c, input, action, u, look, q) ==
  /\ May(input) /\ AtDesk(c) /\ ~Page(c).disabled
  /\ ChangePage(c, q)
  /\ AddActionTriggered(c, Edit(action, u, look))
  /\ UNCHANGED <<floorVars, toClient, order, index, current, choosing, made, usage>>

Draw(c) ==
  \E u \in {v \in Uuids : shows[v] = 0} :
    /\ \A v \in Uuids : shows[v] = 0 => u <= v
    /\ \E q \in AddElement(Page(c), u, AnyLook) : Acts(c, "draw", "Show", u, AnyLook, q)
    /\ shows' = [shows EXCEPT ![u] = 1]

Undo(c) ==
  /\ Page(c).drawn # <<>>
  /\ Acts(c, "undo", "Hide", Last(Page(c).drawn).id, AnyLook, OnUndo(Page(c)))
  /\ UNCHANGED shows

Redo(c) ==
  /\ Page(c).undos # <<>>
  /\ LET e == Last(Page(c).undos)
     IN /\ shows[e.id] < MaxCopies
        /\ Acts(c, "redo", "Show", e.id, e.look, OnRedo(Page(c)))
        /\ shows' = [shows EXCEPT ![e.id] = @ + 1]

(* The buttons beside a selected element. *)
OnSelected(c) == \E i \in DOMAIN Page(c).drawn :
  LET p == Page(c)
      u == p.drawn[i].id
  IN /\ \/ Acts(c, "delete", "Hide", u, AnyLook, RemoveDrawn(p, i))
        \/ Acts(c, "top", "Top", u, AnyLook, TopMost(p, i))
        \/ Acts(c, "bottom", "Bottom", u, AnyLook, BottomMost(p, i))
        \/ \E look \in Looks : Acts(c, "change", "Look", u, look, SetLook(p, i, look))
     /\ UNCHANGED shows

(* A page that is made is enabled, whoever is in control. *)
OnNewPage(c) ==
  /\ May("new") /\ AtDesk(c)
  /\ ui[c].whole
  /\ \E p \in NewPages \ made :
       /\ \A q \in NewPages \ made : p <= q
       /\ pages' = [pages EXCEPT ![c] = Put(@, p, EmptyPage(FALSE))]
       /\ ListPage(c, p)
       /\ current' = [current EXCEPT ![c] = p]
       /\ made' = made \cup {p}
       /\ AddActionTriggered(c, NetworkSwitchPage(p, EmptyPage(FALSE)))
  /\ UNCHANGED <<floorVars, toClient, choosing, shows, usage>>

OnSelectPage(c, i) ==
  /\ index' = [index EXCEPT ![c] = i]
  /\ current' = [current EXCEPT ![c] = order[c][i]]
  /\ AddActionTriggered(c, NetworkSwitchPage(order[c][i], pages[c][order[c][i]]))
  /\ UNCHANGED <<floorVars, toClient, pages, order, made, shows, usage>>

(* The dialog lists the pages there are when it is opened. *)
OnSwitchPage(c) ==
  /\ May("select") /\ AtDesk(c)
  /\ ui[c].whole
  /\ choosing' = [choosing EXCEPT ![c] = Len(order[c])]
  /\ UNCHANGED <<floorVars, toServer, toClient, pages, order, index, current, made, shows,
                 usage>>
OnItemDoubleClick(c) ==
  /\ choosing[c] # 0 /\ Floor!AtDesk(c) /\ Room
  /\ choosing' = [choosing EXCEPT ![c] = 0]
  /\ \E i \in 1..choosing[c] : OnSelectPage(c, i)
CloseDialog(c) ==
  /\ choosing[c] # 0 /\ Floor!AtDesk(c) /\ Room
  /\ choosing' = [choosing EXCEPT ![c] = 0]
  /\ UNCHANGED <<floorVars, toServer, toClient, pages, order, index, current, made, shows,
                 usage>>

(* Page up and page down work in every client, in control or not. *)
OnPreviousPage(c) ==
  /\ May("turn") /\ AtDesk(c)
  /\ index[c] > 1
  /\ OnSelectPage(c, index[c] - 1)
  /\ UNCHANGED choosing
OnNextPage(c) ==
  /\ May("turn") /\ AtDesk(c)
  /\ index[c] < Len(order[c])
  /\ OnSelectPage(c, index[c] + 1)
  /\ UNCHANGED choosing

-----------------------------------------------------------------------------
Serve(c) == HandleLogin(c) \/ HandleFloor(c) \/ HandleEdit(c)
Receive(c) ==
  \/ OnBoardLogin(c) \/ OnPeerLogin(c) \/ OnStudentApplyBoard(c)
  \/ OnTeacherAgreeBoard(c) \/ OnTeacherTakeBoard(c)
  \/ PlayNetworkSwitchPage(c) \/ PlayAction(c)
AskForBoard(c) ==
  \/ Connect(c) \/ OnApplyBoard(c) \/ OnTakeBoard(c)
  \/ (\E yes \in BOOLEAN : AnswerApply(c, yes))
EditPage(c) == Draw(c) \/ Undo(c) \/ Redo(c) \/ OnSelected(c)
TurnPages(c) ==
  \/ OnNewPage(c) \/ OnSwitchPage(c) \/ OnItemDoubleClick(c) \/ CloseDialog(c)
  \/ OnPreviousPage(c) \/ OnNextPage(c)

Next == \E c \in Clients :
  Serve(c) \/ Receive(c) \/ AskForBoard(c) \/ EditPage(c) \/ TurnPages(c)

Spec == Init /\ [][Next]_vars

-----------------------------------------------------------------------------
(* Properties.                                                             *)

(* Every step is a step of the floor or leaves it alone: whatever is drawn *)
(* or turned, AddActionTriggered and PlayNetworkSwitchPageAction keep to   *)
(* FloorControl, and its theorems hold of this module's control too.       *)
ImplementsFloor == Floor!Spec

(* However strokes, redos, page switches and hand-overs cross, no page ever *)
(* holds more objects of an element than users have put it on a page: what *)
(* is relayed or packed into a page is not made a second time.             *)
NoneMultiplied ==
  \A c \in Clients : \A p \in DOMAIN pages[c] : \A u \in Uuids :
    pages[c][p].copies[u] <= shows[u]

Quiet == \A c \in Clients : toServer[c] = <<>> /\ toClient[c] = <<>> /\ asking[c] = NoUser
InClass == {c \in Clients : joined[c]}

(* Nobody comes to a board that a student holds, which it is not shown, and *)
(* no two clients are in control for a moment: a grant to one student may  *)
(* overtake what another still sends.                                      *)
OneEach == (\A a, b \in Students : a = b) /\ (\A a, b \in Teachers : a = b)

(* Once every command has been played, all who are in class see the same   *)
(* elements in the same order on the page they show: what PlayAction       *)
(* replays is what BanBaseWidget did, also across a hand-over and on pages *)
(* made and selected by the one in control.  Who grants the board with the *)
(* pages dialog open may select a page that nobody else is shown.          *)
BoardsAgree ==
  /\ Quiet /\ OneEach
  /\ usage \cap {"take", "turn", "redo"} = {} /\ ~({"apply", "select"} \subseteq usage)
  => \A a, b \in InClass : Shown(Page(a)) = Shown(Page(b))

(* Also when the board is taken while strokes and undos of the one who     *)
(* had it are still on their way, all see the same elements in the end,    *)
(* if not in the same order.                                               *)
SameElements ==
  Quiet /\ OneEach /\ usage \subseteq {"apply", "take", "draw", "undo", "delete", "top", "bottom"}
  => \A a, b \in InClass : ToSet(Shown(Page(a))) = ToSet(Shown(Page(b)))

-----------------------------------------------------------------------------
(* What the program says of itself and does not keep.                      *)

(* The apply button's tooltip says "ask the teacher to use the             *)
(* blackboard": who was given it can draw on the page that OnSelectPage or *)
(* any other handler shows.                                                *)
ControllerCanDraw ==
  Quiet => \A c \in InClass : controling[c] => ~Page(c).disabled

(* The comment in OnBoardLogin says that a teacher sends its page to those *)
(* who come: all in class see what the teacher sees, also the newcomer.    *)
NewcomerShown ==
  Quiet => \A c \in InClass, d \in InClass \cap Teachers :
             ToSet(Shown(Page(c))) = ToSet(Shown(Page(d)))

(* The undo button says "undo": what is undone here is seen nowhere, also  *)
(* when it had been undone and redone before.                              *)
UndoneEverywhere ==
  Quiet => \A a, b \in InClass : controling[a] =>
             \A e \in ToSet(Page(b).drawn) :
               e.id \in {f.id : f \in ToSet(Page(a).drawn)}
=============================================================================
