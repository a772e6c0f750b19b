------------------------------- MODULE Lesson -------------------------------
(***************************************************************************)
(* Recording a lesson (Client/src/hera/KeWidget): what the teacher does on *)
(* the pages, and the actions that are recorded of it.                     *)
(*                                                                         *)
(* Each action is stamped with the time the voice recorder has last told   *)
(* (KeTime::_hadesTime).  Besides the actions, the file keeps every element *)
(* ever put on a page in its initial state, which is the state it had when *)
(* AddElement last put it there.                                           *)
(*                                                                         *)
(* An element's look is its place, its size or its text; the line's        *)
(* attributes are recorded anew with every element and are left out.       *)
(***************************************************************************)
EXTENDS Pages

CONSTANTS
  PageIds,     \* uuids of pages
  None,        \* no uuid, no look or no page
  FirstTimes,  \* what _hadesTime, which no constructor sets, may hold at first
  Usages,      \* what is done in a lesson and with it
  MaxActions,  \* bound: actions of a lesson
  MaxTime      \* bound: times the recorder tells

ASSUME LessonAssumption ==
  /\ None \notin Uuids \cup Looks \cup PageIds
  /\ FirstTimes \subseteq Nat
  /\ Usages \subseteq SUBSET {"draw", "undo", "redo", "delete", "order", "change", "turn",
                              "goto", "convert", "rerecord"}
  /\ MaxCopies = 1
  /\ MaxActions \in Nat /\ MaxTime \in Nat

VARIABLES
  pages,    \* KeWidget::_allPages by uuid
  opened,   \* the uuids of _allPages
  current,  \* the uuid of _currentPage
  init,     \* the initial state each element will be saved with
  actions,  \* KeWidget::_actions
  now,      \* KeTime::_hadesTime
  film,     \* history: the picture at the end of each time, film[k] of time k - 1
  usage     \* which of Usages this lesson keeps to

lessonVars == <<pages, opened, current, init, actions, now, film, usage>>

Action == [time : Nat, type : {"Show", "Hide", "Change", "TopMost", "BottomMost", "Switch"},
           page : PageIds, id : Uuids \cup {None}, look : Looks \cup {None}]

Picture(p, shown) == [page |-> p, shown |-> shown]
Pictures == [page : PageIds, shown : Seq([id : Uuids, look : Looks])]

LessonTypeOK ==
  /\ pages \in [PageIds -> PageSet] /\ \A p \in PageIds : IsPage(pages[p])
  /\ opened \subseteq PageIds
  /\ current \in opened
  /\ init \in [Uuids -> Looks \cup {None}]
  /\ actions \in Seq(Action)
  /\ now \in Nat
  /\ film \in Seq(Pictures) /\ film # <<>>
  /\ \A k \in DOMAIN film : film[k].page \in opened
  /\ usage \in Usages

-----------------------------------------------------------------------------
(* AddActionTriggered: an action is stamped and kept. *)
Acts(type, page, id, look) ==
  /\ Len(actions) < MaxActions
  /\ actions' = Append(actions, [time |-> now, type |-> type, page |-> page,
                                 id |-> id, look |-> look])
  /\ film' = [film EXCEPT ![Len(film)] = Picture(current', Shown(pages'[current']))]
  /\ now' = now

LessonInit ==
  \E p \in PageIds, first \in FirstTimes :
    /\ pages = [q \in PageIds |-> EmptyPage(FALSE)]
    /\ opened = {p}
    /\ current = p
    /\ init = [u \in Uuids |-> None]
    /\ actions = <<[time |-> first, type |-> "Switch", page |-> p, id |-> None, look |-> None]>>
    /\ now = first
    /\ film = <<Picture(p, <<>>)>>
    /\ usage \in Usages

(* The recorder tells the time. *)
OnRecordTime ==
  /\ Len(film) < MaxTime
  /\ now' = Len(film)
  /\ film' = Append(film, Last(film))
  /\ UNCHANGED <<pages, opened, current, init, actions>>

-----------------------------------------------------------------------------
(* What the teacher does.                                                  *)

Does(input) == input \in usage
OnPage(p) == pages' = [pages EXCEPT ![current] = p] /\ UNCHANGED <<opened, current>>
IsNew(u) == \A i \in DOMAIN actions : actions[i].id # u
SaveInitState(e) == init' = [init EXCEPT ![e.id] = e.look]

Draw(u, look) ==
  /\ Does("draw")
  /\ IsNew(u)
  /\ \E p \in AddElement(pages[current], u, look) : OnPage(p)
  /\ init' = [init EXCEPT ![u] = look]
  /\ Acts("Show", current, u, None)

Undo ==
  /\ Does("undo")
  /\ pages[current].drawn # <<>>
  /\ OnPage(OnUndo(pages[current]))
  /\ Acts("Hide", current, Last(pages[current].drawn).id, None)
  /\ UNCHANGED init

Redo ==
  /\ Does("redo")
  /\ pages[current].undos # <<>>
  /\ OnPage(OnRedo(pages[current]))
  /\ SaveInitState(Last(pages[current].undos))
  /\ Acts("Show", current, Last(pages[current].undos).id, None)

Selected(input, i) == Does(input) /\ i \in DOMAIN pages[current].drawn
IdAt(i) == pages[current].drawn[i].id

Delete(i) ==
  /\ Selected("delete", i)
  /\ OnPage(RemoveDrawn(pages[current], i))
  /\ Acts("Hide", current, IdAt(i), None)
  /\ UNCHANGED init

OnTopMost(i) ==
  /\ Selected("order", i)
  /\ OnPage(TopMost(pages[current], i))
  /\ Acts("TopMost", current, IdAt(i), None)
  /\ UNCHANGED init

OnBottomMost(i) ==
  /\ Selected("order", i)
  /\ OnPage(BottomMost(pages[current], i))
  /\ Acts("BottomMost", current, IdAt(i), None)
  /\ UNCHANGED init

Change(i, look) ==
  /\ Selected("change", i)
  /\ look # pages[current].drawn[i].look
  /\ OnPage(SetLook(pages[current], i, look))
  /\ Acts("Change", current, IdAt(i), look)
  /\ UNCHANGED init

OnNewPage(p) ==
  /\ Does("turn")
  /\ p \in PageIds \ opened
  /\ opened' = opened \cup {p}
  /\ current' = p
  /\ UNCHANGED <<pages, init>>
  /\ Acts("Switch", p, None, None)

OnSelectPage(p) ==
  /\ Does("turn")
  /\ p \in opened
  /\ current' = p
  /\ UNCHANGED <<pages, opened, init>>
  /\ Acts("Switch", p, None, None)

Record ==
  /\ UNCHANGED usage
  /\ \/ OnRecordTime
     \/ \E u \in Uuids, look \in Looks : Draw(u, look)
     \/ Undo
     \/ Redo
     \/ \E i \in DOMAIN pages[current].drawn :
          \/ Delete(i)
          \/ OnTopMost(i)
          \/ OnBottomMost(i)
          \/ \E look \in Looks : Change(i, look)
     \/ \E p \in PageIds : OnNewPage(p) \/ OnSelectPage(p)

-----------------------------------------------------------------------------
(* The actions are in the order of their times, as the player's search     *)
(* for the latest ones takes for granted.                                  *)
TimesSorted ==
  \A i, j \in DOMAIN actions : i < j => actions[i].time <= actions[j].time
=============================================================================
