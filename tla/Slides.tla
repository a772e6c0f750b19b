------------------------------- MODULE Slides -------------------------------
(***************************************************************************)
(* Slides presented on a blackboard (Client/src/hera/SlidePresenter and    *)
(* Slide).                                                                 *)
(*                                                                         *)
(* A slide is a background and the shapes that its clicks show or move.    *)
(* Every image becomes an element of the page it is shown on, and what the *)
(* presenter does to it is emitted as actions on that page: a lesson       *)
(* records them (Player says how they are played), a live class sends them *)
(* to its peers (Pages says how they are played there).  When another page *)
(* is chosen, the presenter goes along.                                    *)
(*                                                                         *)
(* The user controls the board, and the peer plays what is sent at once.   *)
(* The sizes that SetNewSize gives to hidden slides are left out: a slide  *)
(* gets its size again when it is shown.                                   *)
(***************************************************************************)
EXTENDS Integers, Pages

CONSTANTS
  Actions,  \* Slide::_shapeActions: for each slide, the shape each click shows or moves
  PageIds,  \* uuids of pages
  Sizes,    \* sizes of the presenter's window
  Usages    \* what the user does, and whether the board is a live class's or a lesson's

Slides == DOMAIN Actions
Background(s) == <<s, 0>>
Shape(s, i) == <<s, Actions[s][i]>>
SlideOf(u) == u[1]

(* Where an image is put: by which click, and for which size of the        *)
(* window, or 0 for the size it has in its slide.                          *)
Look(move, size) == [move |-> move, size |-> size]

ASSUME SlidesAssumption ==
  /\ Actions \in Seq(Seq(Nat \ {0})) /\ Actions # <<>>
  /\ Uuids = UNION {{Background(s)} \cup {Shape(s, i) : i \in DOMAIN Actions[s]} : s \in Slides}
  /\ Usages \subseteq SUBSET {"live", "next", "previous", "resize", "page"}
  /\ Sizes \subseteq Nat \ {0} /\ Sizes # {} /\ MaxCopies \in Nat \ {0}
  /\ \A s \in Slides :
       \A i \in 0..Len(Actions[s]), z \in Sizes \cup {0} : Look(i, z) \in Looks

VARIABLES
  index,  \* _currentSlideIndex, from 1; 0 before the presenter is there
  step,   \* slide: _actionIndex, -1 before it is shown
  place,  \* image: the click that put it where it is in its slide
  size,   \* the size of the presenter's window
  page,   \* the uuid of the page the presenter is on
  board,  \* the pages here, and in the lesson recorded or at a peer
  usage   \* which of Usages the user keeps to

vars == <<index, step, place, size, page, board, usage>>

Live == "live" \in usage

(* added is _hasAddedToBanBase; drawn and look are the page's elements     *)
(* here, shown and at what the elements the lesson's player draws.  A peer *)
(* that is to be sent a whole page (turning) loses what it did before.     *)
EmptyBoard ==
  [added |-> [p \in PageIds |-> {}],
   drawn |-> [p \in PageIds |-> <<>>], look |-> [p \in PageIds |-> [u \in Uuids |-> Look(0, 0)]],
   shown |-> [p \in PageIds |-> <<>>], at |-> [p \in PageIds |-> [u \in Uuids |-> Look(0, 0)]],
   peer |-> EmptyPage(TRUE), turning |-> FALSE]

Init ==
  /\ index = 0
  /\ step = [s \in Slides |-> -1]
  /\ place = [u \in Uuids |-> 0]
  /\ size \in Sizes
  /\ page \in PageIds
  /\ board = EmptyBoard
  /\ usage \in Usages

-----------------------------------------------------------------------------
(* What one call does to a board, on page p and with the image where       *)
(* place' says.  Boards come in sets, for a peer's new object may get any  *)
(* address.                                                                *)

Without(q, u) ==
  LET rest[i \in 0..Len(q)] ==
        IF i = 0 THEN <<>> ELSE IF q[i] = u THEN rest[i - 1] ELSE Append(rest[i - 1], q[i])
  IN rest[Len(q)]

PeerPlays(b, S) == IF b.turning THEN {b} ELSE {[b EXCEPT !.peer = q] : q \in S}
OnAnimationShow(b, p, u, look) ==
  IF Live THEN PeerPlays(b, PlayNetworkShow(b.peer, u, look))
  ELSE {[b EXCEPT !.shown[p] = Append(@, u)]}
OnAnimationHide(b, p, u) ==
  IF Live THEN PeerPlays(b, {PlayHide(b.peer, u)})
  ELSE {[b EXCEPT !.shown[p] = Without(@, u)]}
OnAnimationSize(b, p, u, look) ==
  IF Live THEN PeerPlays(b, {PlaySetLook(b.peer, u, look)})
  ELSE {[b EXCEPT !.at[p][u] = look]}

(* The first time, a copy of the image becomes an element of the page,     *)
(* which is shown to all; after that the element is drawn again.           *)
AddToDrawing(b, p, u) ==
  IF u \in ToSet(b.drawn[p]) THEN b ELSE [b EXCEPT !.drawn[p] = Append(@, u)]
AddToBanBase(b, p, u) ==
  LET look == Look(place'[u], 0)
      added == [b EXCEPT !.added[p] = @ \cup {u}, !.drawn[p] = Append(@, u),
                         !.look[p][u] = look, !.at[p][u] = look]
  IN IF u \in b.added[p] THEN {AddToDrawing(b, p, u)}
     ELSE OnAnimationShow(added, p, u, look)

AddShowAction(b, p, u) ==
  IF u \notin b.added[p] THEN AddToBanBase(b, p, u)
  ELSE OnAnimationShow(AddToDrawing(b, p, u), p, u, Look(place'[u], 0))

AddSizeAction(b, p, u) ==
  LET look == Look(place'[u], size')
  IN UNION {OnAnimationSize([c EXCEPT !.look[p][u] = look], p, u, look)
            : c \in AddToBanBase(b, p, u)}

HideImageElement(b, p, u) ==
  UNION {OnAnimationHide([c EXCEPT !.drawn[p] = Without(@, u)], p, u)
         : c \in AddToBanBase(b, p, u)}

Call(b, p, call) ==
  CASE call.do = "show" -> AddShowAction(b, p, call.image)
    [] call.do = "size" -> AddSizeAction(b, p, call.image)
    [] call.do = "hide" -> HideImageElement(b, p, call.image)

(* Calls made one after the other.  (Bound: MaxCopies of an image at a     *)
(* peer, or as many times in what a lesson's player draws.)                *)
Times(q, u) == Cardinality({i \in DOMAIN q : q[i] = u})
Calls(start, p, calls) ==
  LET after[i \in 0..Len(calls)] ==
        IF i = 0 THEN {start} ELSE UNION {Call(b, p, calls[i]) : b \in after[i - 1]}
  IN after[Len(calls)]
Makes(p, calls) ==
  board' \in {b \in Calls(board, p, calls) : \A u \in Uuids :
                b.peer.copies[u] <= MaxCopies /\ Times(b.shown[p], u) <= MaxCopies}

-----------------------------------------------------------------------------
(* The methods of a slide, as the calls they make.                         *)

Do(what, image) == [do |-> what, image |-> image]
ShapesTo(s, k) == SubSeq([i \in DOMAIN Actions[s] |-> Shape(s, i)], 1, k)

(* Those of the clicks so far: a slide that was cleared has none. *)
HideBackground(s, k) == <<Do("hide", Background(s))>>
Hide(s, k) ==
  LET images == <<Background(s)>> \o ShapesTo(s, k)
  IN [i \in DOMAIN images |-> Do("hide", images[i])]

ShowResized(u) == <<Do("show", u), Do("size", u)>>
SetNewSize(s, k) ==
  LET images == <<Background(s)>> \o ShapesTo(s, k)
  IN [i \in DOMAIN images |-> Do("size", images[i])]
UpdateBanBase(s, k) ==
  LET images == <<Background(s)>> \o ShapesTo(s, k)
  IN FlattenSeq([i \in DOMAIN images |-> ShowResized(images[i])])

(* NextAction to click k: of the clicks up to it, those whose shape no     *)
(* later one moves again.                                                  *)
HasMoreMoveAction(s, i, k) == \E j \in i + 1..k : Actions[s][j] = Actions[s][i]
NextAction(s, k) ==
  IF k = 0 THEN ShowResized(Background(s))
  ELSE FlattenSeq([i \in 1..k |-> IF HasMoreMoveAction(s, i, k) THEN <<>>
                                  ELSE ShowResized(Shape(s, i))])
UpdateSizes(s, k) ==
  place' = [u \in Uuids |->
              IF u \in ToSet(ShapesTo(s, k))
              THEN CHOOSE i \in 1..k : Shape(s, i) = u /\ ~HasMoreMoveAction(s, i, k)
              ELSE place[u]]

-----------------------------------------------------------------------------
(* The presenter.                                                          *)

Does(input) == input \in usage /\ index # 0

HideAll(steps) == FlattenSeq([s \in Slides |-> Hide(s, steps[s])])

(* OnNextAction shows a slide and hides its neighbours. *)
Neighbours(s, steps) ==
  (IF s - 1 \in Slides THEN Hide(s - 1, steps[s - 1]) ELSE <<>>)
    \o (IF s + 1 \in Slides THEN Hide(s + 1, steps[s + 1]) ELSE <<>>)
Shows(s, steps) == NextAction(s, steps[s]) \o Neighbours(s, steps)

(* ChangeParentWidget, BeginShow, and the events that its show() delivers. *)
OnAddSlidePresenter ==
  /\ index = 0
  /\ index' = 1
  /\ step' = [step EXCEPT ![1] = 0]
  /\ UNCHANGED <<place, size, page, usage>>
  /\ Makes(page, HideAll(step) \o Shows(1, step') \o SetNewSize(1, 0))

(* The next click of the slide, or the first of the next slide. *)
OnNextActionSkips ==
  /\ Does("next")
  /\ index + 1 \in Slides
  /\ index' = index + 1
  /\ step' = [step EXCEPT ![index'] = @ + 1]
  /\ UpdateSizes(index', step'[index'])
  /\ UNCHANGED <<size, page, usage>>
  /\ Makes(page, Shows(index', step'))
OnNextAction ==
  /\ Does("next")
  /\ LET s == IF step[index] < Len(Actions[index]) THEN index ELSE index + 1
     IN /\ s \in Slides
        /\ index' = s
        /\ step' = [step EXCEPT ![s] = @ + 1]
        /\ UpdateSizes(s, step'[s])
        /\ UNCHANGED <<size, page, usage>>
        /\ Makes(page, Shows(s, step'))

(* The slide before from its beginning: it and all that follow are cleared *)
(* first, and only then is the one that was shown hidden.                  *)
OnPreviousActionClearsOne ==
  /\ Does("previous")
  /\ index > 1
  /\ index' = index - 1
  /\ step' = [step EXCEPT ![index - 1] = 0]
  /\ UNCHANGED <<place, size, page, usage>>
  /\ Makes(page, Shows(index - 1, step'))
OnPreviousAction ==
  /\ Does("previous")
  /\ index > 1
  /\ index' = index - 1
  /\ step' = [s \in Slides |-> IF s = index - 1 THEN 0
                               ELSE IF s >= index THEN -1 ELSE step[s]]
  /\ UNCHANGED <<place, size, page, usage>>
  /\ Makes(page, Shows(index - 1, step'))

(* The window is moved or resized. *)
SendSizeAnimation(z) ==
  /\ Does("resize")
  /\ size' = z
  /\ UNCHANGED <<index, step, place, page, usage>>
  /\ Makes(page, SetNewSize(index, step[index]))

(* Another page is made or chosen: ChangeParent (every slide is hidden on  *)
(* it, the current one shown again), and then the page is switched, which  *)
(* shows a peer the whole page instead of what it had.                     *)
Content(b, p) ==
  [i \in DOMAIN b.drawn[p] |-> [id |-> b.drawn[p][i], look |-> b.look[p][b.drawn[p][i]]]]
ChangeParentKeeps ==
  IF index = 0 THEN <<>>
  ELSE UpdateBanBase(index, step[index]) \o NextAction(index, step[index])
         \o SetNewSize(index, step[index])
ChangeParent ==
  IF index = 0 THEN <<>>
  ELSE HideAll(step) \o UpdateBanBase(index, step[index]) \o NextAction(index, step[index])
         \o SetNewSize(index, step[index])
OnSelectPage(p) ==
  /\ "page" \in usage
  /\ page' = p
  /\ UNCHANGED <<index, step, place, size, usage>>
  /\ \E b \in Calls([board EXCEPT !.turning = Live], p, ChangeParent) :
       \E q \in IF Live THEN SetMsgPackData(b.peer, Content(b, p)) ELSE {b.peer} :
         board' = [b EXCEPT !.peer = q, !.turning = FALSE]

Next ==
  \/ OnAddSlidePresenter \/ OnNextAction \/ OnPreviousAction
  \/ (\E z \in Sizes : SendSizeAnimation(z))
  \/ (\E p \in PageIds : OnSelectPage(p))

Spec == Init /\ [][Next]_vars

-----------------------------------------------------------------------------
(* Properties.                                                             *)

(* Part of the type: the counters of the slides before the current one are *)
(* at their ends and those of the slides after it where they began.  What  *)
(* is shown of the slides is another matter: see LessonShowsSlide.         *)
StepsInOrder ==
  /\ index \in Slides \cup {0}
  /\ step \in [Slides -> Int]
  /\ \A s \in Slides :
       /\ s < index => step[s] = Len(Actions[s])
       /\ s = index => step[s] \in 0..Len(Actions[s])
       /\ s > index => step[s] = -1

TypeOK ==
  /\ StepsInOrder
  /\ place \in [Uuids -> Nat]
  /\ size \in Sizes /\ page \in PageIds /\ usage \in Usages
  /\ IsPage(board.peer)

(* What the slide shows after its clicks so far. *)
Presented ==
  LET k == step[index]
  IN {<<Background(index), Look(0, size)>>}
       \cup {<<Shape(index, i), Look(i, size)>> :
               i \in {j \in 1..k : ~HasMoreMoveAction(index, j, k)}}

InLesson == {<<u, board.at[page][u]>> : u \in ToSet(board.shown[page])}

(* The shapes that are presented can be seen: they are above the           *)
(* background.                                                             *)
ShapesAreSeen ==
  LET q == board.shown[page]
  IN \A e \in Presented : e[1] # Background(index) =>
       \E i \in DOMAIN q : q[i] = e[1] /\ \A j \in DOMAIN q : q[j] = Background(index) => j < i

(* Whatever is clicked, moved or resized and whichever pages the presenter *)
(* is taken to: a lesson shows the slide as it was presented and nothing   *)
(* of another slide.  Once the user has gone back, images that should be   *)
(* hidden may be left, but nothing of the slide is missing or out of place.*)
LessonShowsSlide ==
  index # 0 /\ ~Live =>
    /\ IF "previous" \in usage THEN Presented \subseteq InLesson ELSE InLesson = Presented
    /\ ShapesAreSeen

(* Whatever a peer has made of the clicks so far, the page that is sent    *)
(* when the user chooses one shows it the slide, if perhaps with images of *)
(* a slide that was left backwards.                                        *)
PeerSees == {<<e.id, e.look>> : e \in ToSet(board.peer.drawn)}
PageMendsPeer ==
  [][\A p \in PageIds : OnSelectPage(p) /\ Live /\ index # 0 =>
       IF "previous" \in usage THEN Presented' \subseteq PeerSees' ELSE PeerSees' = Presented']_vars

-----------------------------------------------------------------------------
(* What the program says of itself and does not keep.                      *)

(* The comment of Slide::Hide says that all the images are hidden: a       *)
(* lesson shows none of a slide that was left.                             *)
LessonHidesSlide ==
  index # 0 => \A u \in ToSet(board.shown[page]) : SlideOf(u) = index

(* The same, for the peers of a live class.                                *)
PeersHideSlide ==
  index # 0 => \A e \in ToSet(board.peer.drawn) : SlideOf(e.id) = index
=============================================================================
