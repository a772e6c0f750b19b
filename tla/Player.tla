------------------------------- MODULE Player -------------------------------
(***************************************************************************)
(* Playing a lesson back (Client/src/hera/PlayerWidget, PlayerPage, KeTime *)
(* and PlayerTitleWidget), turning it into a film (guru/ConvertProgress)   *)
(* and recording it anew from some time on.                                *)
(*                                                                         *)
(* The lesson is what Lesson records.  A timer (KeTime) tells the time,    *)
(* and the board and the sound each follow it on their own.  A timer's     *)
(* shot plays the actions that are due and not played yet, but only those  *)
(* of the page switched to last; a seek resets every page and starts over. *)
(* KeTime's signals are emitted and handled on one thread, so a slot that  *)
(* calls KeTime is done before the call that emitted goes on.              *)
(***************************************************************************)
EXTENDS Lesson

VARIABLES
  mode,       \* "record", or "play" when the lesson has been saved and loaded
  state,      \* KeTime::_state
  base,       \* KeTime::_recrodTime
  elapsed,    \* the time since KeTime::_beginningTime
  sound,      \* Hades: the voice is played, and the position it is at
  board,      \* PlayerWidget: the drawn elements, their looks, the page shown
  played,     \* the indices of the actions for which HasPlayed is set
  animated,   \* history: the time the board was last brought to, 0 after a reset
  screen,     \* what was last painted
  cut         \* history: the time this lesson was recorded anew from, plus 1, or 0

timeVars == <<state, base, elapsed, sound>>
boardVars == <<board, played, animated, screen>>
vars == <<lessonVars, mode, timeVars, boardVars, cut>>

States == {"NotStart", "Working", "Paused"}
IsPausing == state # "Working"
GetAnimatedTime == IF state = "Working" THEN base + elapsed ELSE base

(* GetPlayFileDuration: the recorder has told the time up to here. *)
TotalTime == Len(film) - 1

NoSound == [on |-> FALSE, at |-> 0]

-----------------------------------------------------------------------------
(* The board.                                                              *)

Board == [drawn : [PageIds -> Seq(Uuids)], look : [Uuids -> Looks \cup {None}],
          page : PageIds \cup {None}]
Blank == [drawn |-> [p \in PageIds |-> <<>>], look |-> init, page |-> None]
ResetElements(b) == [b EXCEPT !.drawn = [p \in PageIds |-> <<>>], !.look = init]

OnBoard(b) ==
  IF b.page = None THEN Picture(None, <<>>)
  ELSE Picture(b.page, [i \in DOMAIN b.drawn[b.page] |->
                          [id |-> b.drawn[b.page][i], look |-> b.look[b.drawn[b.page][i]]]])

Drawn(s, u) == {i \in DOMAIN s : s[i] = u}
Others(s, u) == RemoveAt(s, Lowest(Drawn(s, u)))
Without(s, u) ==
  LET rest[i \in 0..Len(s)] ==
        IF i = 0 THEN <<>> ELSE IF s[i] = u THEN rest[i - 1] ELSE Append(rest[i - 1], s[i])
  IN rest[Len(s)]

(* PlayAction: the element is looked up among those of the file, whether   *)
(* or not it is drawn.  An action plays on what its page draws, on the     *)
(* looks of the elements, or on the page shown.                            *)
File == {u \in Uuids : init[u] # None}
Redrawn(file, s, a) ==
  CASE a.type = "Show" /\ a.id \in file -> Append(s, a.id)
    [] a.type = "Hide" -> Without(s, a.id)
    [] a.type = "TopMost" /\ Drawn(s, a.id) # {} -> Append(Others(s, a.id), a.id)
    [] a.type = "BottomMost" /\ Drawn(s, a.id) # {} -> <<a.id>> \o Others(s, a.id)
    [] OTHER -> s
PlayAction(file, b, a) ==
  [drawn |-> [b.drawn EXCEPT ![a.page] = Redrawn(file, @, a)],
   look |-> IF a.type = "Change" /\ a.id \in file THEN [b.look EXCEPT ![a.id] = a.look]
            ELSE b.look,
   page |-> IF a.type = "Switch" THEN a.page ELSE b.page]

(* PlayActions: the actions of S in the order of their making. *)
PlayActions(b, S) ==
  LET play[i \in 0..Len(actions)] ==
        IF i = 0 THEN b
        ELSE IF i \in S THEN PlayAction(File, play[i - 1], actions[i]) ELSE play[i - 1]
  IN play[Len(actions)]

(* The actions that come before the first one not due yet. *)
Due(time) == {i \in DOMAIN actions : \A j \in 1..i : actions[j].time < time}
GetUnAnimatedActions(time, done) == Due(time) \ done

Switches(time) == {i \in Due(time) : actions[i].type = "Switch"}
Latest(time) == CHOOSE i \in Switches(time) : \A j \in Switches(time) : j <= i
OfPage(time) ==
  {i \in Due(time) : actions[i].type # "Switch" /\ actions[i].page = actions[Latest(time)].page}
GetLatestFrom(time, done) ==
  IF Switches(time) = {} THEN {}
  ELSE {Latest(time)} \cup {i \in OfPage(time) \ done : Latest(time) < i}
GetLatestSwitchBoardActions(time, done) ==
  IF Switches(time) = {} THEN {} ELSE ({Latest(time)} \cup OfPage(time)) \ done

(* AnimatedTriggered on a board b on which the actions done were played:   *)
(* it is painted when anything was played.                                 *)
Animate(b, done, time) ==
  LET S == GetLatestSwitchBoardActions(time, done)
  IN /\ board' = PlayActions(b, S)
     /\ played' = done \cup S
     /\ animated' = time
     /\ screen' = IF S = {} THEN screen ELSE OnBoard(board')

(* ResetPages: nothing is painted, and the page stays the one it was. *)
ResetPages ==
  /\ board' = ResetElements(board)
  /\ played' = {}
  /\ animated' = 0
  /\ UNCHANGED screen

-----------------------------------------------------------------------------
(* Playing.                                                                *)

(* The file is saved and opened: the elements of every page, in their      *)
(* initial states, and none of them drawn.                                 *)
Load ==
  /\ mode = "record"
  /\ mode' = "play"
  /\ board' = Blank
  /\ played' = {}
  /\ animated' = 0
  /\ screen' = OnBoard(Blank)
  /\ state' = "NotStart" /\ base' = 0 /\ elapsed' = 0 /\ sound' = NoSound
  /\ UNCHANGED <<lessonVars, cut>>

Playing == mode = "play"
UnchangedLesson == UNCHANGED <<lessonVars, mode, cut>>

(* KeTime::Start and the voice, which starts where KeTime is. *)
Start ==
  /\ Playing /\ IsPausing
  /\ state' = "Working"
  /\ elapsed' = 0
  /\ sound' = [on |-> TRUE, at |-> base]
  /\ UNCHANGED <<base, boardVars>> /\ UnchangedLesson

Pause ==
  /\ Playing /\ ~IsPausing
  /\ state' = "Paused"
  /\ base' = base + elapsed
  /\ sound' = [sound EXCEPT !.on = FALSE]
  /\ UNCHANGED <<elapsed, boardVars>> /\ UnchangedLesson

(* Time passes.  Half a second after the end of the lesson at the latest,  *)
(* TimeIsUp comes in between: the bound is the program's.                  *)
Tick ==
  /\ Playing /\ state = "Working"
  /\ GetAnimatedTime <= TotalTime
  /\ elapsed' = elapsed + 1
  /\ sound' = [sound EXCEPT !.at = @ + 1]
  /\ UNCHANGED <<state, base, boardVars>> /\ UnchangedLesson

(* PlayerWidget's timer, which runs while the voice does. *)
AnimatedTriggered ==
  /\ Playing /\ sound.on
  /\ Animate(board, played, GetAnimatedTime)
  /\ UNCHANGED timeVars /\ UnchangedLesson

(* KeTime is told to stop and to go back to its start. *)
PauseAndReset ==
  /\ state' = "NotStart" /\ base' = 0
  /\ sound' = [sound EXCEPT !.on = FALSE]

(* KeTime's timer after the end of the lesson. *)
TimeIsUp ==
  /\ Playing /\ state = "Working" /\ GetAnimatedTime > TotalTime
  /\ PauseAndReset
  /\ ResetPages
  /\ UNCHANGED elapsed /\ UnchangedLesson

(* SetAnimatedTime: a time after the lesson's end takes KeTime back to its *)
(* start before the call returns.                                          *)
SetAnimatedTime(time) ==
  /\ elapsed' = 0
  /\ IF time > TotalTime THEN PauseAndReset
     ELSE base' = time /\ UNCHANGED <<state, sound>>

(* OnGotoPosition, from the slider or the mouse. *)
OnGotoPositionSilently(time) ==
  /\ Playing /\ Does("goto")
  /\ SetAnimatedTime(time)
  /\ Animate(ResetElements(board), {}, IF time > TotalTime THEN 0 ELSE time)
  /\ UnchangedLesson
OnGotoPosition(time) ==
  /\ Playing /\ Does("goto")
  /\ IF time > TotalTime \/ IsPausing
     THEN /\ SetAnimatedTime(time)
          /\ Animate(ResetElements(board), {}, IF time > TotalTime THEN 0 ELSE time)
     ELSE /\ base' = time /\ elapsed' = 0 /\ UNCHANGED state
          /\ ResetPages
          /\ sound' = [on |-> TRUE, at |-> time]
  /\ UnchangedLesson

(* GotoTime brings every page up to date. *)
GotoTimeOfPage(time) ==
  /\ SetAnimatedTime(time)
  /\ Animate(ResetElements(board), {}, IF time > TotalTime THEN 0 ELSE time)
GotoTime(time) ==
  /\ SetAnimatedTime(time)
  /\ LET reached == IF time > TotalTime THEN 0 ELSE time IN
       /\ board' = PlayActions(ResetElements(board), GetUnAnimatedActions(reached, {}))
       /\ played' = GetUnAnimatedActions(reached, {})
       /\ animated' = reached
       /\ UNCHANGED screen

-----------------------------------------------------------------------------
(* ConvertFrame draws the page itself, of a player that is never started. *)
ConvertFrame(time) ==
  /\ Playing /\ Does("convert")
  /\ state = "NotStart" /\ time \in 1..TotalTime
  /\ GotoTime(time)
  /\ UnchangedLesson

(* OnReRecordTriggered: a new lesson of the elements drawn now and the     *)
(* actions up to now.  (Bounds: once in a behaviour, and not in the moment *)
(* between the end of the lesson and TimeIsUp.)                            *)
Until(time) ==
  LET kept[i \in 0..Len(actions)] ==
        IF i = 0 THEN <<>>
        ELSE IF actions[i].time <= time THEN Append(kept[i - 1], actions[i]) ELSE kept[i - 1]
  IN kept[Len(actions)]
PageOf(b, p) ==
  [EmptyPage(FALSE) EXCEPT
     !.drawn = [i \in DOMAIN b.drawn[p] |->
                  [id |-> b.drawn[p][i], copy |-> 1, look |-> b.look[b.drawn[p][i]]]],
     !.copies = [u \in Uuids |-> IF \E i \in DOMAIN b.drawn[p] : b.drawn[p][i] = u THEN 1 ELSE 0],
     !.found = [u \in Uuids |-> IF \E i \in DOMAIN b.drawn[p] : b.drawn[p][i] = u THEN 1 ELSE 0]]
OnReRecord ==
  /\ Playing /\ Does("rerecord") /\ cut = 0
  /\ IsPausing /\ board.page # None
  /\ LET time == GetAnimatedTime IN
       /\ time <= TotalTime /\ time < MaxTime
       /\ GotoTime(time)
       /\ pages' = [p \in PageIds |-> PageOf(board', p)]
       /\ current' = board'.page
       /\ init' = [u \in Uuids |->
                     IF \E p \in PageIds : pages'[p].copies[u] = 1 THEN board'.look[u] ELSE None]
       /\ actions' = Until(time)
       /\ now' = time
       /\ film' = Append(SubSeq(film, 1, time), Picture(current', Shown(pages'[current'])))
       /\ cut' = time + 1
  /\ mode' = "record"
  /\ UNCHANGED <<opened, usage>>

Init ==
  /\ LessonInit
  /\ mode = "record"
  /\ state = "NotStart" /\ base = 0 /\ elapsed = 0 /\ sound = NoSound
  /\ board = Blank /\ played = {} /\ animated = 0 /\ screen = OnBoard(Blank)
  /\ cut = 0

Next ==
  \/ mode = "record" /\ Record /\ UNCHANGED <<mode, timeVars, boardVars, cut>>
  \/ Load
  \/ Start \/ Pause \/ Tick \/ AnimatedTriggered \/ TimeIsUp
  \/ \E time \in 0..MaxTime + 1 : OnGotoPosition(time) \/ ConvertFrame(time)
  \/ OnReRecord

Spec == Init /\ [][Next]_vars

-----------------------------------------------------------------------------
TypeOK ==
  /\ LessonTypeOK
  /\ mode \in {"record", "play"}
  /\ state \in States
  /\ base \in Nat /\ elapsed \in Nat
  /\ sound \in [on : BOOLEAN, at : Nat]
  /\ board \in Board
  /\ played \subseteq DOMAIN actions \/ mode = "record"
  /\ animated \in Nat /\ cut \in Nat

(* Whatever was played, paused, sought or left out because another page    *)
(* was shown: once the board has been brought to a time, it shows what the *)
(* teacher's board showed when the recorder told that time.  (Not so for   *)
(* elements changed, undone and redone, nor in lessons recorded anew.)     *)
PlayedAsRecorded ==
  mode = "play" /\ animated > 0 /\ cut = 0 /\ ~({"change", "redo"} \subseteq usage) =>
    OnBoard(board) = film[IF animated < Len(film) THEN animated ELSE Len(film)]

(* The voice plays exactly while KeTime runs, from KeTime's position,      *)
(* after any seek, pause or end of the lesson.                             *)
SoundFollows ==
  /\ sound.on <=> state = "Working"
  /\ sound.on => sound.at = GetAnimatedTime

(* The button records anew "from the current time on": what was before     *)
(* that time is played as it was, when nothing had been erased or changed. *)
RerecordKeepsPast ==
  /\ mode = "play" /\ animated > 0 /\ animated < cut
  /\ usage \cap {"undo", "redo", "delete", "change"} = {}
  => OnBoard(board) = film[animated]

-----------------------------------------------------------------------------
(* What the program says of itself and does not keep.                      *)

(* A comment of OnGotoPosition says that its last call makes the picture   *)
(* follow: after a seek of a stopped player the screen shows the board.    *)
PictureSynchronised ==
  [][\A time \in 0..MaxTime + 1 :
       OnGotoPosition(time) /\ state' # "Working" => screen' = OnBoard(board')]_vars

(* A comment there says every page is exactly the one wanted: from then on *)
(* the lesson is played as it was recorded.                                *)
RerecordGoesOn ==
  mode = "play" /\ cut > 0 /\ animated >= cut /\ animated > 0 =>
    OnBoard(board) = film[IF animated < Len(film) THEN animated ELSE Len(film)]
=============================================================================
