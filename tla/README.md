# Liangshi: specifications, model checking and proofs

Liangshi ("良师") is a live classroom and a tool for making lessons. A teacher
and students, each at a Qt client (`Client/src`), share a blackboard: whoever
controls it draws, and every other client replays what was drawn. A libuv
server (`Server/Giants/src/loki`) keeps the classes and relays commands between
their members. The same pages can be recorded as a lesson with voice, played,
filmed and recorded anew from some time on, slides can be presented on them,
and a phone application (`Client/src/teach_mobile`) downloads and plays lessons.

This directory holds TLA+ modules for the parts of the program that decide
something. TLC checks them on small instances; TLAPS proves the main results
for all instances. `PROJECT.json` maps every definition to the source lines it
stands for and lists components, runs, mutants, findings, hazards and theorems.
Paths below are relative to `src/`.

## 1. Inventory

| Component | State | Operations | Modules |
|---|---|---|---|
| Server: class sessions and relay (`NetCommandHandler.cpp`, `ClassSessionManager.cpp`, `DatabaseEngine.cpp`) | `_classUsers`, `_teachers` | log in, board data, apply, agree, take, voice data, remove a user | `FloorControl`, `Voice` |
| Server: connections (`SocketManager.cpp`, `User.cpp`) | uv handles, a `User` each with receive buffer and `_blockSize` | accept, read, end of file or error, close callback, parse | `FloorControl`, `Framing` |
| Protocol (`SharedCode`) | buffered bytes | insert, take, read and write the length | `Framing`; commands as records elsewhere |
| Client: control of the board (`LiveWidget.cpp`, `LiveTitleWidget.cpp`, `LokiClient.cpp`) | `_controlingBoard`, the buttons, the login's answer, an open question | a handler per command, the user's buttons, page switches | `FloorControl`, `LiveBoard` |
| Client: socket and reconnection (`LokiSocket.cpp`, `LokiClient.cpp`) | `_socket`, `_blockSize`, signal connections, open questions | connect, send, parse, error, ask, retry | `Framing`, `Reconnect` |
| Client: pages (`BanBaseWidget.cpp`, `LiveWidget.cpp`) | elements, drawn order, undo and redo stacks, pages by uuid, disable flags | draw, undo, redo, delete, reorder, change; new, next, selected page; replay of each | `Pages`, `LiveBoard` |
| Client: lessons (`KeWidget.cpp`, `PlayerWidget.cpp`, `PlayerPage.cpp`, `KeTime.cpp`, `PlayerTitleWidget.cpp`, `KeFile.cpp`, `ConvertProgress.cpp`) | timed actions, each element's first look, the clock, the sound, what has been played | record, load, start, pause, tick, seek, film, record anew | `Lesson`, `Player` |
| Client: slides (`SlidePresenter.cpp`, `Slide.cpp`) | current slide, each slide's click, places of its images, the page it is on | next, previous, resize, change page | `Slides` |
| Client: voice set-up (`LiveWidget.cpp`) | `_n2nHades` by user | call, be called, relay of descriptions and candidates | `Voice` |
| Phone application (`teach_mobile`) | pages of the window, class, lessons, downloads, `LocalSave` | go to a page, list, play, download all, download, restart | `Mobile` |
| Remote mouse, file synchronisation; documents and windows; drawing; HTTP, update and web views; vendored servers | | | section 9 |

**How the parts interact.** A client owns one TCP connection. Each command is
packed with msgpack, framed (four bytes of length, then the body) and written.
The server's loop hands each whole command to `NetCommandHandler::HandlThread`,
which runs to its end and writes to the connections of the class. The client's
`LokiSocket` parses what arrives and emits a signal per command; `LokiClient`
decodes it, `LiveWidget` acts on it, and `BanBaseWidget` is the page it acts on.
There is no arbiter of the floor: the server relays, and each client decides
from what it has received so far whether it controls the board. A lesson is
recorded from the actions the same `BanBaseWidget` emits; slides emit those
actions too.

**What is hard here.** Control is a distributed decision over relayed commands
that cross each other. Modal dialogs run event loops inside slots of the
socket, so handlers nest and `readyRead` stays silent meanwhile. A connection
closes in two steps. Board commands carry no page and name elements that may
exist twice. A retry reuses the socket object, its `_blockSize` and its signal
connections. The player, the voice and the recorder each have a clock. The
phone's answers and files come in any order to pages that have been given
something else since, and the process may be killed.

## 2. Modules

| Module | What it is |
|---|---|
| `FloorControl` | one class, its server and its clients: who controls the board |
| `FifoLink`, `Framing` | what a direction of a connection promises; bytes, frames and the two parsers, which implement it |
| `Pages` | one page: elements, drawn order, undo and redo, the commands that edit and replay |
| `LiveBoard` | `FloorControl` with every client's pages; refines it |
| `Reconnect` | a client that loses its connection and asks its user |
| `Lesson`, `Player` | recording a lesson; playing, filming, recording anew |
| `Slides` | a presentation on pages, in a lesson or a live class |
| `Voice` | who calls whom in a class |
| `Mobile` | the phone application |
| `*MC` | instances for TLC |
| `*_proofs` | theorems about `FloorControl`, `Framing`, `Reconnect`, `Player`, `Slides`, `Voice`, `Mobile`, `LiveBoard` |

How they fit: `FifoLink` is what `Framing` implements, and the queues
`toServer[c]`, `toClient[c]` of `FloorControl`, `LiveBoard` and `Voice` are such
links. `LiveBoard` instantiates `FloorControl` on its queues with the pages'
commands filtered out, and is shown to implement it. `Pages` is used by
`LiveBoard` (the live class), by `Lesson` (what a teacher does on the pages) and
by `Slides` (what a peer makes of a slide's images). `Player` extends `Lesson`: a
lesson is recorded and then played.

**FloorControl.** A *client* is a connection with the process that uses it;
`UserId` is the user the database gives its session. A process that is started
again is a second client of its user. So is one that loses its link and whose
user answers Retry (`ShowNetworkRetry`): the window goes on over the second
connection (`app` is "again") with its flag and its buttons, and logs in twice,
because every `Init` connects the signals once more. What such a process handles
twice adds nothing but commands that might come anyway; how often it does is
counted in `Reconnect`. `Leave` is the end of a process or its machine, and a
link that fails without a Retry. `conn` is the uv handle, `classUsers` and `classTeacher` are
`ClassSessionManager`'s, `app`, `joined`, `controling`, `ui` and `asking` the
client's process, login, `_controlingBoard`, title bar and open question,
`holder` is a history of the last decision relayed. Every server handler that
touches the class and every client handler or input that touches control is
one action; `OnStudentApplyBoard` and `AnswerApply` are the halves of one
function before and after its box. Of the pages it keeps only that one was
switched.

**Framing.** `AtServer` says which end reads, and with it which code writes the
length and which parser runs. At the server arrival and parsing are one call;
at a client bytes arrive while a handler's box is open, without a `readyRead` of
their own. `Reconnect` starts another connection: the server has a new `User`
for it, the client the same `LokiSocket`.

**Pages and LiveBoard.** An element is an object with a uuid and a look (place,
size, text or line); a page is the set of its objects, those drawn in order, and
those undone. `FindElementByUuid` walks a set ordered by address, so of two
objects of one uuid either may be found. A client has its pages, their order,
the index, the current page and an open pages dialog, which is modal and lists
the pages there were. A page switch carries the page's uuid and content; other
commands name an element only. Processes neither leave nor retry here. `FloorQueue` is what
of a queue the floor knows: its commands without their pages, the edits left out.

**Reconnect.** The signal connections of the `QTcpSocket` (`inner`) and of the
`LokiSocket` (`outer`) are counted; a question is one entry of a stack of slots
that wait, with how many slots of its emission are still to run and whether the
socket that emitted is still there. `socket` may be `NULL` ("none") or point to
what `deleteLater` has deleted: a socket that was connected emits `disconnected`
after its error, and what becomes of one that `LokiSocket` has kept depends on
`isValid`. `swallowed` is the history of an error that was passed on to nobody.

**Lesson and Player.** `actions` is `KeWidget::_actions` with times, `init` the
look each element is saved with, `film` a history of the picture at the end of
each time. The player has `KeTime`'s state, the voice, the board with what has
been played, and what was last painted. `animated` and `cut` are histories.
What `PlayerPage` does action by action (`PlayActions`, `Without`) and what is
kept of the actions (`Until`) are recursive functions over the positions of a
list, so that the provers can use them. `TotalTime` is the end of the film.

**Slides.** The methods of a slide are written as the sequence of calls they
make (show, size or hide an image), which `Calls` carries out on the page, on
the lesson's player (`shown`, `at`) and on a peer (`peer`). The peer plays what
is sent at once; which of two copies it finds is open. `Calls` (one call after the
other) and `Without` (`list::remove`) are recursive functions over positions.

**Voice.** `hades[c]` is `_n2nHades` by user: a `Hades` is the caller or the
called, owes a description or not, and has been handed descriptions. The
server relays by user id. `LinkFails` cuts a connection and leaves the window
with every `Hades` it has, which emit into nothing meanwhile (at best: section
7); `ShowNetworkRetry` goes on with them over another connection.

**Mobile.** Files, `LocalSave`, the window's current, shown and sliding pages,
the class page's class, lessons and buttons, the player page's lesson, the
`DownloadAllProgress` dialog, and the downloads of each lesson by who waits for
them: the player, the dialog or a dialog that was dismissed. The process may be
killed between two steps (`Restart`), between two of the saves `BeginDownload`
makes in a row (`KilledBeginning`), and in the middle of one, which leaves an
empty file (`KilledSaving`).

## 3. What the runs check

Sizes are of a complete run with two workers.

| Run | Instance | Properties |
|---|---|---|
| `class` | teacher and two connections of students, or three of a demo class, of one user or several; 2 in flight (1.05 million states) | `ConflictInFlight`, `SettledHolder`, `ReplyFirst`, `ControllerHasTools` |
| `live` | teacher and student, fair; 3 in flight (23 000) | `TypeOK`, `ConflictsEnd`, `GoneForgotten`, `ApplicationHeard` |
| `restart` | 2 connections of the teacher's user, 2 students; 1 in flight (2.0 million) | `NoDeletedUser`, `OneStudentControls`, `ConflictInFlight`, `SettledHolder` |
| `frames` | 4 frames; 2 connections to the server or 1 to a client (13 000) | `TypeOK`, `InFrame`, `ImplementsLink` |
| `board` | 2 clients, 2 elements, 2 looks, 1 new page, 6 usages; 2 in flight (520 000) | `TypeOK`, `BoardsAgree`, `SameElements`, `NoneMultiplied`, `ImplementsFloor` |
| `reconnect` | 3 failures, 2 applications (530 000) | `TypeOK`, `AtMostDoubled`, `UserHasSocket`, `Rejoins` |
| `player` | 4 actions, 2 pages, 2 elements, 2 looks, times to 3, 4 usages (830 000) | `TypeOK`, `PlayedAsRecorded`, `RerecordKeepsPast`, `SoundFollows` |
| `slides` | slides of 3 and 1 clicks, 2 pages, 2 sizes, 3 usages (105 000) | `TypeOK`, `LessonShowsSlide`, `PageMendsPeer` |
| `voice` | 2 connections of one user, 1 of another; 2 end, 1 candidate (285 000) | `TypeOK`, `OneCaller`, `AllConnected` |
| `phone` | 1 class, 2 lessons, 3 usages (230 000) | `TypeOK`, `KeepsOffline`, `DoneListsWhole`, `DialogEnds`, `LessonArrives` |
| `take`, `frames_retry` | | one property each, violated: section 7 |

**What they show.**

- *Floor.* As long as their users have not come back (in a new process or by a
  Retry), two clients control the board at once only while the command that
  makes one give it up is under way, conflicts end, and with all handled the
  controller is the one the relay order chose. Two students never keep it,
  also when the teacher comes back, unless one of them has retried. An
  application reaches the teacher's screen; a login's answer precedes everything
  else; the class holds no deleted `User`. Section 7 shows what a user who comes
  back can do.
- *Link.* Commands are handed on whole, in order, none kept back, however TCP
  cuts the stream.
- *Boards.* Every step with pages is a step of the floor. When the board is
  handed over on request, the teacher and the student see the same elements in
  the same order when all is delivered, on any page made or selected by the one
  in control. When it is taken back amid strokes, they see the same elements, in
  perhaps another order. No page holds an element more often than users put it
  on a page.
- *Reconnection.* A user who answers "retry" is back in class; what a signal does
  at most doubles with each failure, and logins at most square that; when no
  question is open the window has a socket. "Cancel", and an error that is not
  passed on, are the exceptions.
- *Lessons.* Whatever was paused, sought, or skipped because another page was
  shown, a board brought to a time shows what the teacher's board showed then;
  the voice runs with the clock; a lesson recorded anew keeps its past if
  nothing was erased or changed.
- *Slides.* The lesson shows exactly the current slide's images, and after a step
  back at least those; what the page switch sends repairs the peers.
- *Voice.* Of any two members one is left the caller and one the called, and
  each has what it needs of the other, unless one has retried and both call.
- *Phone.* What could be played offline still can after any failed or killed
  download, unless the process dies in the middle of saving; a dialog that
  closes by itself has listed its lessons, also those such a death took out;
  without errors it closes and the tapped lesson is shown.

**Usages.** Several modules have a constant `Usages`, a set of sets of inputs,
and a variable `usage` chosen from it at the start: a run explores each set of
inputs in full, without the product of all inputs. A property whose promise
holds for some inputs only says so by a condition on `usage`, for instance
`BoardsAgree` (no take, no turning of pages on one's own, no redo, no pages dialog
while applications are answered). `BoardsAgree` and `SameElements` are promised
to one student and one teacher (`OneEach`). What happens
outside is discussed in section 7. `ClassMC` and `FramingMC` likewise choose the
kind of class and the reading end at the start and instantiate the module a
second time with the other value of the constant.

**Bounds.** `MaxInFlight` stops *user input* while that many commands are under
way; handlers and relays are never held back. The known conflicts need a grant,
a page switch and a take, of which the answer to a question is not held back
either: two in flight let them cross in `class`, and `live` and `take` have
three. A retry is not held back and brings two logins. A process that has retried
does not lose its second link, and a link does not fail with a retry while its
user is asked about an application (it may fail for good then); both are bounds
of `FloorControl`, the first also of `Voice`. Two clients beside the acting one tell "the
others" from "everyone" and "the teacher". `board` has two clients and two in
flight: one command each way crosses. Two elements give an order, two looks a
change, one new page a choice. `MaxCopies` bounds how often an element is put on
a page: two is what a redo needs. `MaxFrames` 4 with bodies of two and three
bytes makes every cut possible; one body reads like a length. `MaxFailures` 3
lets the third fail inside the questions of the second, which are two.
`MaxActions` 4 and `MaxTime` 3 let two actions share a time and a page be left
and come back to. `MaxLeaving` 2 and `MaxCandidates` 1: either user may go while
it is called, and one comes back, in a new process or by a Retry. `MaxRequests`,
`MaxDownloads`, `MaxRestarts` 1: one list, one download of a lesson for each
receiver, one death of any of the three kinds; two lessons suffice for one to be taken for the other. Symmetry is used over students,
pages, elements and looks, in runs of invariants only. `CHECK_DEADLOCK FALSE`
everywhere: when every process has left or no user does anything, the program
stops.

**Mutants.** Each property of a passing run has a mutant in `PROJECT.json`: a
plausible bug in a mapped definition that makes TLC report that property.

## 4. Fairness

Weak fairness of handlers and deliveries only: the libuv and Qt loops run while
there is an event, and TCP delivers while both ends live. Users promise
nothing, with two exceptions for questions that block the window:
`AnsweringSpec` of `FloorControl` lets a teacher answer an application, and
`Reconnect` lets the user answer in the end ("retry" is fair, "cancel" may come
first). In `Framing` bytes arrive and the parser's loop runs. In `Voice` the
library emits the description it owes. In `Mobile` timers shoot and downloads
end one way or the other.


## 5. What is assumed

Named assumptions on the constants (`ClassAssumption`, `FramingAssumption` and
the like, one in each module) say what the code justifies: teachers and students
are disjoint sets of connections, the database gives every session one user, a
body is a non-empty sequence of bytes whose length fits an `int`, and so on.

- *Floor.* `ConflictInFlight`, `SettledHolder` and `ConflictsEnd` say nothing of a
  client whose user has come back (`CameBack`: two of the user's connections have
  been used). A teacher who comes back while a student controls the board is
  enabled by its own login's answer and nobody is told; a student who retries
  keeps the flag of before, whatever was decided meanwhile. Two clients then
  control the board with nothing in flight (`OneControls`, section 7). The proofs
  of the first two assume `OneTeacher`: the teacher's connections are all of one
  user, and a demo class has no teacher. `OneStudentControls` assumes neither.
- *Qt.* A slot connected during an emission is not called by it; `readyRead` is
  not emitted recursively; connecting a used socket again only warns; a socket
  that was connected emits `disconnected` after its error; whether a socket that
  reported an error is still valid is left open.
- *LiveBoard.* Processes neither leave nor retry; one live board in a process.
- *Lesson, Player.* Recording is one thread; the unit of time is arbitrary. The
  run takes 0 for what the uninitialised clock of the recorder may hold.
- *Slides.* One presenter; peers play at once; the resizing of a hidden slide is
  left out.
- *Voice.* Hades is external, modelled from how `LiveWidget` uses it. A connection
  ends only once its logins are answered, a user has one live process, logins
  are accepted, and a closed handle and its callback are one step. What a Hades
  emits while its window has no link is lost; the code writes on `NULL` there.
- *Mobile.* `QHttp` gives the whole body or an error; Escape closes a modal
  dialog; class pages are of one kind (`TeachingActivity` is the twin of
  `ClasseActivity`). The run has one class (section 7, `SavedBelongs`).

## 6. What is proved

With TLAPS, for every value of the constants that satisfies the assumptions. No
bound on commands in flight, frames, failures, actions, times, processes or
lessons is used in a proof.

| Module | Theorem | Property | When |
|---|---|---|---|
| `FloorControl_proofs` | `TypeCorrect` | `TypeOK` | |
| | `NoDeletedUserHolds` | `NoDeletedUser` | |
| | `ReplyFirstHolds` | `ReplyFirst` | |
| | `ControllerHasToolsHolds` | `ControllerHasTools` | |
| | `ConflictInFlightHolds` | `ConflictInFlight` | `OneTeacher` |
| | `SettledHolderHolds` | `SettledHolder` | `OneTeacher` |
| | `OneStudentControlsHolds` | `OneStudentControls` | |
| `Framing_proofs` | `FramingTypeCorrect` | `TypeOK` | |
| | `InFrameHolds` | `InFrame` | `Fresh` |
| | `LinkSafety` | the safety of `FifoLink` | `Fresh` |
| `Reconnect_proofs` | `ReconnectTypeCorrect` | `TypeOK` | |
| | `UserHasSocketHolds` | `UserHasSocket` | |
| | `AtMostDoubledHolds` | `AtMostDoubled` | |
| `Player_proofs` | `PlayerTypeCorrect` | `TypeOK` | |
| | `SoundFollowsHolds` | `SoundFollows` | |
| | `PlayedAsRecordedHolds` | `PlayedAsRecorded` | `FirstTimes = {0}` |
| | `RerecordKeepsPastHolds` | `RerecordKeepsPast` | `FirstTimes = {0}` |
| `Slides_proofs` | `SlidesTypeCorrect` | `TypeOK` | |
| | `LessonShowsSlideHolds` | `LessonShowsSlide` | |
| | `PageMendsPeerHolds` | `PageMendsPeer` | |
| `Voice_proofs` | `VoiceTypeCorrect` | `TypeOK` | |
| | `OneCallerHolds` | `OneCaller` | |
| `Mobile_proofs` | `MobileTypeCorrect` | `TypeOK` | |
| | `KeepsOfflineHolds` | `KeepsOffline` | `OnlyClass` |
| | `DoneListsWholeHolds` | `DoneListsWhole` | `OnlyClass` |
| `LiveBoard_proofs` | `ImplementsFloorHolds` | `ImplementsFloor` | |
| | `FloorKept` | `FloorControl`'s `TypeOK`, `NoDeletedUser`, `ReplyFirst`, `ControllerHasTools` | |
| | `FloorDecided` | `FloorControl`'s `ConflictInFlight`, `SettledHolder` | `OneTeacher` |
| | `BoardTypeCorrect` | `TypeOK` | |
| | `NoneMultipliedHolds` | `NoneMultiplied` | |

The hypotheses of the last column are cases in which the code keeps its promise:

- `OneTeacher`: section 5. Two different teachers of one class would each be
  enabled by their own login.
- `Fresh`: the reader begins every connection anew (`RetryDelivers`).
- `FirstTimes = {0}`: what the recorder's clock holds before anything sets it is
  0 (`TimesSorted`). It is uninitialised (`KeTime.h:52`); with another value
  the first actions are played late.
- `OnlyClass`: the phone's user has one class (`SavedBelongs`).

**Floor.** Layers, each inductive on top of those before. `Sessions`
ties a connection's state to the class sets and to where in its session a client
is: login not handled yet, answer first in its queue, joined. It gives
`NoDeletedUser` and `ReplyFirst`. `Roles` says which commands can be in which
queue at all (only the teacher's process sends agrees, students of an ordinary
class send no takes) and who has which button. `FirstUses` says that the process of a
user who has not come back logs in once and has not retried. `Decisions` is the
core: it relates `holder`, the last decision the server relayed, to the flag of
every client whose user has not come back and to the queues in both directions.
Unless `holder` is the client's own user, or a teacher who has come back
(`Decided`), a client that controls the board has its take on the way to the server or a
command on the way to it that will disable it, and a command on its way that
will enable it is followed by one that disables it again; a teacher in control
has a take queued behind any grant it has sent; before the teacher's first login
is answered nobody controls the board (`Unheard`). `ConflictInFlight` alone is not inductive, because a
relayed take removes the `Taking` witness of one client and must, in the same
step, put a `Losing` witness in front of the other. The module begins with the
lemmas about "some element of", "begins with" and "what follows" under `Append`
and `Tail`.

`Decisions` needs `OneTeacher`, for it speaks of *the* teacher. What is left
without it is about students. A client *yields* when it does not control the
board or is about to lose it, and whatever on its way enables it is followed by
what disables it, or its take is on the way to the server, or its process has
retried. `OneYields` (of any two clients of different students one yields) is
inductive whatever the teachers' processes do: an agreement names one student, a
take makes all others lose the board. `ConflictInFlight` uses it too, of two
students beside a teacher who has come back.

**Framing.** `Fresh` says the reader begins every connection anew: it is the
server, or a client that does not connect again. The inductive invariant is
`TypeOK`, `InFrame`, `Layout` (frame *k* of the stream lies behind frame
*k* - 1 and consists of its length and its body) and `InOrder` (what has been
delivered is a prefix of what was written). `LengthKept` shows that what one end
reads as a length is what the other wrote, through `htonl`, `ntohl` and
QDataStream; `LengthFound`, that the parser reads a length only where there is
one.

**Reconnect.** `UserHasSocket` speaks of states without questions. `Attended` is
inductive: unless "cancel" was answered or an error swallowed, without a socket
the innermost question is a retry one, because nothing is read then that could
put another over it, and its answer is an `Init`, which leaves a socket; and a
socket is deleted only by an error that was swallowed. `AtMostDoubled` is
inductive with what `Doubling` adds: `inner` is at most `outer`, and no login is on
its way while there is no connection. A failure asks as many questions as there
are signal connections, and answering one moves one call from what is still asked
for to what is connected; a new connection sends `inner * outer` logins. What has
to be shown is how the sum over the open questions changes when one is asked,
answered, or forgotten with its socket.

**Player.** `SoundFollows` is inductive with the shape of the clock's state. The
work is in `SetAnimatedTime`, which is called on a player that stands still or
with a time after the end, and whose end of the lesson pauses and resets.

`PlayedAsRecorded` compares a picture with one of the past, and a board on which
actions were played in several portions, some left out, with one on which a
teacher acted. Between the two stands `Replay`: `Replay[n]` is the board on which
the first *n* actions were played one after the other, none left out.

- `LessonInv` is about the lesson: on no page is an element twice, or both drawn
  and undone; every element has its actions on one page; what the actions come to
  is what is on the teacher's pages.
- `FilmInv` is about the recording: the film at a time is the picture of
  `Replay[n]`, where *n* actions were before that time. An action recorded later
  changes neither `Replay` below it nor what the file saves of an element seen
  before, except when an element is changed, undone and redone, which the
  property leaves out. After a lesson is recorded anew it holds of the times
  before the cut.
- `Seen` is about the board: each page of it is as after *some* first *m*
  actions, and the page shown as after *all* that are due. `Animate` plays what is
  due and was not played, of the page shown only, and what a page missed it makes
  up for when it is shown: since actions of other pages do not touch it, playing
  the missing ones in order is the same as having played all.

So the board shows `Replay` at the time, which is the film at the time. None of
the three is inductive alone: `Seen` needs the order of times from `FilmInv`, and
recording anew turns what is on the player's board (`Seen`) into the teacher's
pages (`LessonInv`).

**Slides.** `StepsInOrder`, a part of `TypeOK`, is inductive: the slides before the
current one have been clicked through, those after it begin anew, so
`OnNextAction` never has a slide to skip.

`LessonShowsSlide` speaks of the page shown and of lessons only, and is not
inductive: which images a slide hides depends on how far it was clicked, on
every page it was taken to, and a page it is taken to must not show an image of
an earlier stay. `Inv` adds:

- the current slide's images up to its step are seen on the page shown, each
  where the last of its clicks so far moved it (`LastPlaced`) and with the
  present size, its shapes above its background (`SlideSeen`), in a live class
  as in a lesson;
- unless the user went back, every page shows only images of clicks made so far,
  which are those that `HideAll` hides (`OthersHidden`);
- no page has an element drawn twice, or drawn and not added (`AllDrawnOnce`);
  a peer's page is well formed and has at most `MaxCopies` objects of an image
  (`FewCopies`).

Each method of a slide is a list of calls, so there is one group of lemmas about
any list of calls, by induction over its positions (`CallsKeep`, `CallsReach`,
`CallsTwice`; from them `SeenAfter`, `PutAfter`, `AboveAfter`, `PeerAfter`: what
is seen is what was called for last), and one about which calls a method makes
(`HideOrders`, `UpdateBanBaseOrders`, `NextActionOrders` and so on).
`PageMendsPeer` follows from `Inv` and from what `ChangeParent` sends: the page's
content, which is what the slide just put there.

**Voice.** Whether a member *c* calls *d* is decided when the note of a login is
put into *c*'s queue, and takes effect when it is received. `Bound(c, u)` says that
one of the two has happened. `Callers` says that of any two members of
class exactly one is bound to the other's user, which is `OneCaller` when the
queues are empty. Where one of the two has retried, both may be bound (`Again`):
its second login binds the peer anew while it keeps what bound it before. It needs
`Sessions` (what may be in the queues of a process before its login is answered,
while its link is cut, and after it has gone) and `Alone` (a user has one live
process), without which a note of a former process could bind a new one.

**Phone.** `MobileTypeCorrect` already needs an argument: a file for the dialog
comes while there is a dialog, because the dialog counts, and `Waiting` bounds the
count by the files that have not come. `KeepsOffline` needs `Belongs` (what is
kept of a class is of that class): adding a lesson takes out what has its index,
which among lessons of one class is only itself, and the dialog clears the list
and puts back the whole files of the class. The two deaths in the middle of
saving are the steps it leaves out, and `Belongs` and `Counted` hold after them
too. `DoneListsWhole` needs `Counted`: the
count, which is only a number, is at most the number of lessons of the list that
have come, are whole, and are kept, also when the player downloads the same
lessons meanwhile.

**Boards.** `ImplementsFloorHolds` is the step part of a refinement, and there is no
other: neither specification states fairness. The mapping takes a queue to its
`FloorQueue`. That this commutes with `Append` and `Tail` is shown by induction
over positions (`FloorQueue` is a recursive function), and that a relayed
command reaches the same users by comparing what the two modules write. The
invariant that the step needs, `Queued`, says that the queues are sequences of
commands. A step that edits a page or sends an edit changes no `FloorQueue` and is
a stutter of the floor; a page switch is one of its commands, whatever content
it carries. `FloorTheorems` instantiates `FloorControl_proofs` with the same
mapping, so that its theorems hold of the flags and queues of `LiveBoard`:
`FloorKept` and `FloorDecided`.

`TypeOK` of the pages is not inductive, and most of it is not about types: the
objects of a uuid are numbered up to `MaxCopies`, which no guard of the handlers
enforces. A page switch that comes replaces the content of a page, an edit adds to
whatever page is shown, and both may have been sent long before. `BoardInv`
therefore counts (`Counted`). For each client and element, what any of its pages
holds, with the "Show" commands that the client has still to receive (those in
its queue, and those that others have sent and the server has not relayed),
is at most the number of times users have drawn or redone the element; so is
what a page switch on its way will make, with the commands that come behind it.
Drawing and redoing raise both sides, playing a command takes from the queue what
it adds to the page, relaying moves it from one queue to the others, and packing
a page carries no more than the page holds. That is `NoneMultiplied`, without which
the bound of `TypeOK` cannot be shown. The rest is that every list of a page keeps
its objects distinct (`Shaped`, with a lemma for each operation of `Pages`) and that
the list of pages, the page shown and the dialog fit each other (`ListedFor`).

**Induction over data.** The library's induction theorems take an operator as a
parameter, which the provers cannot instantiate. The proof modules prove them of
*sets* of numbers instead (`AllNaturals`, `Upward`; `SameValues` for functions that
agree at each step, `RecursionWorks` for a recursive function that exists), from
the well-ordering of `Nat`. That is what the sums of `Reconnect`, the boards of
`Player`, the calls of `Slides` and the queues of `LiveBoard` rest on.

**Only model-checked.** Liveness and the fair parts of the refinements (fairness
and ENABLED are beyond the prover): `ConflictsEnd`, `GoneForgotten`,
`ApplicationHeard`, `Rejoins`, `AllConnected`, `DialogEnds`, `LessonArrives`,
`ImplementsLink` as a whole. Of the safety properties two are left, both
of `LiveBoard`: `BoardsAgree` and `SameElements`. They speak of what edits on their
way will come to, on boards on which `FindElementByUuid` may have found either of
two objects; nothing is known to stand in the way of a proof but its length.

## 7. Disagreements met

Where a comment or a text on the screen says something the code does not keep, a
module states it as a property. Two are runs that TLC violates:

- `TakeRegainsBoard` (`take`, `LiveWidget.cpp:958`). The teacher takes the board
  back and enables itself at once. A page switch the student sent before is
  still relayed to the teacher, and whoever receives a page switch is disabled:
  with everything handled, nobody controls the board.
- `RetryDelivers` (`frames_retry`, `LokiSocket.cpp:45`). A connection lost between
  a length and its body leaves `_blockSize` set for the next one, whose first
  bytes are taken for the missing body.

The others are in no run. To see one, put it as `INVARIANT` (or `PROPERTY`, when
it is `[][...]_vars`) in place of the configuration's own, without `SYMMETRY` for
a `PROPERTY`. Each is violated within seconds.

| Property | Add to | What happens |
|---|---|---|
| `CanAskForBoard` | `ClassMC_class.cfg` | a student just granted the board is disabled by a late page switch, without its apply button |
| `ClassHasTeacher` | `FloorControlMC_restart.cfg` | when either of a teacher's processes closes the class has no teacher, and applications are dropped |
| `OneControls` | `ClassMC_class.cfg`, `FloorControlMC_restart.cfg` | a teacher who comes back while a student has the board is enabled by its own login (`LiveWidget.cpp:666`); a student who retries keeps a board that another was granted meanwhile |
| `RetryHasTools` | the same files | a student who retries in control is left with the board and without the tools (`LiveWidget.cpp:670`) |
| `SecondLoginReplaces` | `FloorControlMC_restart.cfg` | `NetCommandHandler.cpp:119` says so; both connections stay |
| `ControllerCanDraw` | `LiveBoardMC_board.cfg` | a page selected after control changed has its old disable flags |
| `NewcomerShown` | the same file, with a second student | while a student controls the board nobody shows it to a newcomer |
| `UndoneEverywhere` | the same file | a redo makes a second object of one uuid at the peers; an undo then may find the hidden one |
| `AsksWhenDisconnected` | `ReconnectMC_fails.cfg` | from the second failure on a question is asked over the connection the first answer made |
| `EveryErrorAsked` | the same file | an error of a socket that is still valid is passed on to nobody |
| `AnswerHasSocket` | the same file | the connection fails while the teacher is asked about an application: after the answer `ParseCommand` reads on from the socket that was (`LokiSocket.cpp:148`) |
| `TimesSorted` | `PlayerMC_lessons.cfg`, `FirstTimes` with a positive value | the first actions carry what memory held, and the player stops at them |
| `PictureSynchronised` | the same file | a seek that plays no action is not painted |
| `RerecordGoesOn` | the same file | an action exactly at the cut is kept and not done |
| `LessonHidesSlide` | `SlidesMC_presents.cfg` | the shapes of a slide left backwards stay |
| `PeersHideSlide` | the same file | an image shown twice is two objects at the peers, one of which is hidden |
| `CalledHasNone` | `VoiceMC_voices.cfg` | the offer of a former process reaches the call with the next |
| `RetryIsCalled` | the same file | after a Retry the offer of the peer's new call is handed to the old caller `Hades`: both call, and no answer comes |
| `SavedBelongs` | `MobileMC_lessons.cfg`, with two classes | "download all" between the class's title and its list keeps the old class's lessons |
| `SavedForOffline`, `ShowsWanted` | the same file | the file of the lesson tapped before is stored for, or shown as, the one tapped last |
| `NeverCrashes` | the same file | an error page is stored as a lesson, whose player is `NULL` |
| `ShownIsCurrent` | the same file | a tap during the sliding animation changes the current page only |

The exceptions that the passing properties name are of the same kind. `BoardsAgree`
leaves out redo and turning pages on one's own; a second student, who comes while
the first holds the board and is not shown it, or whose grant overtakes what the
first still sends; and the pages dialog, which stays open while its teacher grants
the board and may then select a page nobody else is shown. `LessonShowsSlide` and
`PageMendsPeer` ask for no more than the slide's images after a step back: what is
left of the slide before is `LessonHidesSlide`. The others are changes that are
undone and redone in `PlayedAsRecorded`, erasing and changing in
`RerecordKeepsPast`, users who come back or retry in the properties of the floor
and of the voice, "cancel" and errors that are not passed on in `UserHasSocket` and
`Rejoins`, and, on the phone, deaths in the middle of saving in `KeepsOffline`
and downloads that go wrong in `DialogEnds` and `LessonArrives`: after one that
failed the dialog stays until it is dismissed (`DownloadAllProgress.cpp:98`).

No property speaks of the voice library's callbacks, which send at any time: a
candidate found while the retry question is open is written to a `_socket` that
is `NULL` (`LiveWidget.cpp:480`). It is certain as soon as one is found then, and
nothing in the code depends on the order of anything for it.

## 8. What could follow

1. Theorems about what is on the boards of `LiveBoard`: `BoardsAgree`,
   `SameElements`.
2. `Floor`: an abstract floor (request, decide, learn) that `FloorControl`
   implements for users who have not come back, as a TLC property and as a
   theorem.
3. `Reconnect` composed with `Framing` (a connection lost in the middle of a
   frame, under a handler's question), with `Voice` (a login handled after its
   process has gone), and with `FloorControl` (every command handled twice, or
   four times, after a Retry); retries in `LiveBoard`.
4. Several live boards and lessons of a process, which share one `KePages`.
5. A `LocalSave` of which some of the bytes were written, and the hazards of `PROJECT.json` whose note says
   that no property covers them yet.

## 9. Not modelled, and why

- Documents, browsers of files, windows and menus of the desktop: one thread of
  user interface code, without state another part depends on.
- Drawing, geometry, curve fitting, text and formulas: floating point and
  painting; an element is a uuid and a look here.
- HTTP, update and web views of the desktop: requests without a protocol of
  their own. The phone's are in `Mobile`.
- Remote mouse and file synchronisation: the client classes that would send the
  commands are not in the repository, and nothing else sends them.
- Third-party code and samples (boost, OpenSSL, Qt, quazip, msgpack, qwt and its
  MathML, libuv with its book, STUN and TURN servers, chat samples): by far most
  of the repository's lines. What the application uses of them is modelled from
  its use: sockets, the event loops, Hades, timers.
- The database beyond the two queries a login makes; skins, wording, logging.
- The server's handlers for `LOGIN`, `CHAT` and `GETFRIENDLIST` are empty.
