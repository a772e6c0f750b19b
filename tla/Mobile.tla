------------------------------- MODULE Mobile -------------------------------
(***************************************************************************)
(* Lessons on a phone (Client/src/teach_mobile): the pages of the          *)
(* application, the list of a class's lessons, the downloads, the player's *)
(* page, and the file LocalSave, in which the lessons that can be played   *)
(* without network are kept.                                               *)
(*                                                                         *)
(* Answers and files come in any order, each on a connection of its own,   *)
(* to pages that have been given another class or another lesson since;    *)
(* the file lives on when the process is killed.                           *)
(*                                                                         *)
(* The pages are the menu, the class and the player: the page of a         *)
(* teacher's own class is the class's twin, and what the offline page      *)
(* offers is Offered below.  How a lesson is played is Player's.  Outside  *)
(* the source: QHttp reports an error or the whole body, which is the file *)
(* or the site's error page; Escape closes a modal dialog.                 *)
(***************************************************************************)
EXTENDS Naturals, FiniteSets

CONSTANTS
  Classes,       \* classes, by title
  Kes,           \* lessons, by url
  LessonsOf,     \* the site: the lessons of each class
  IndexOf,       \* the site: KeDTO::index of each lesson
  None,
  Usages,        \* what the user does besides playing lessons, and what goes wrong
  MaxRequests,   \* bound: lists of one class that are asked for at a time
  MaxDownloads,  \* bound: downloads of one lesson for one receiver at a time
  MaxRestarts    \* bound: deaths of the process

(* What the player's page is given, and what the dialog keeps. *)
Want == [class : Classes, ke : Kes]
Dialog == [class : Classes, kes : SUBSET Kes, begun : BOOLEAN, count : Nat]

ASSUME MobileAssumption ==
  /\ LessonsOf \in [Classes -> SUBSET Kes] /\ IsFiniteSet(Kes)
  /\ IndexOf \in [Kes -> Nat]
  /\ \A c \in Classes : \A k, l \in LessonsOf[c] : IndexOf[k] = IndexOf[l] => k = l
  /\ None \notin Classes \cup Kes \cup Want \cup Dialog
  /\ Usages \subseteq SUBSET {"back", "key", "all", "dismiss", "page", "error", "death"}
  /\ MaxRequests \in Nat /\ MaxDownloads \in Nat /\ MaxRestarts \in Nat

VARIABLES
  files,      \* the cache folder: each lesson's file is absent, whole, or an error page
  saved,      \* LocalSave::_cachedKes: the lessons kept of each class
  crashed,    \* a NULL pointer was used
  current,    \* MainWindow::_currentActivity
  shown,      \* the page on the screen
  next,       \* the page that slides in, or the one shown
  class,      \* ClasseActivity::_classDTO
  kes,        \* ClasseActivity::_kes
  listed,     \* the lessons that have a button on the class's page
  requests,   \* lists asked for and not answered, by class
  wanted,     \* PlayerActivity::_classTitle and _keDTO
  widget,     \* PlayerActivity::_playerWidget: the lesson it plays, or None
  leaked,     \* the lessons of other PlayerWidgets on the page
  dialog,     \* DownloadAllProgress, or None
  downloads,  \* files being fetched for the player, the dialog or nobody
  restarts,
  usage       \* which of Usages this run keeps to

disk == <<files, saved>>
window == <<current, shown, next>>
classPage == <<class, kes, listed, requests>>
playerPage == <<wanted, widget, leaked>>
vars == <<disk, crashed, window, classPage, playerPage, dialog, downloads, restarts, usage>>

Activities == {"Menu", "Class", "Player"}
Receivers == {"player", "all", "nobody"}

(* The shape of the state; a dialog that has begun is short of a lesson,   *)
(* and the last one closes it (DownloadAllProgress::BeginDownload and      *)
(* DownloadKeFileTriggered).                                               *)
TypeOK ==
  /\ files \in [Kes -> {"none", "whole", "page"}]
  /\ saved \in [Classes -> SUBSET Kes]
  /\ crashed \in BOOLEAN
  /\ current \in Activities /\ shown \in Activities /\ next \in Activities
  /\ class \in Classes \cup {None}
  /\ kes \subseteq Kes /\ listed \subseteq Kes
  /\ requests \in [Classes -> Nat]
  /\ wanted \in Want \cup {None}
  /\ widget \in Kes \cup {None} /\ leaked \subseteq Kes
  /\ dialog \in Dialog \cup {None}
  /\ dialog # None /\ dialog.begun => dialog.count < Cardinality(dialog.kes)
  /\ downloads \in [Receivers -> [Kes -> Nat]]
  /\ restarts \in Nat
  /\ usage \in Usages

NoRequests == [c \in Classes |-> 0]
NoFiles == [k \in Kes |-> 0]
NoDownloads == [by \in Receivers |-> NoFiles]

Init ==
  /\ files = [k \in Kes |-> "none"]
  /\ saved = [c \in Classes |-> {}]
  /\ crashed = FALSE
  /\ current = "Menu" /\ shown = "Menu" /\ next = "Menu"
  /\ class = None /\ kes = {} /\ listed = {} /\ requests = NoRequests
  /\ wanted = None /\ widget = None /\ leaked = {}
  /\ dialog = None
  /\ downloads = NoDownloads
  /\ restarts = 0
  /\ usage \in Usages

-----------------------------------------------------------------------------
(* LocalSave: a class's lessons have different indices, and only lessons   *)
(* whose file is whole are added.                                          *)

Whole(f, ks) == {k \in ks : f[k] = "whole"}
AddKeFiles(s, f, ks) ==
  {k \in s : \A l \in ks : IndexOf[k] # IndexOf[l]} \cup Whole(f, ks)
CleanKeCount(s, n) == {k \in s : Cardinality({l \in s : IndexOf[l] < IndexOf[k]}) < n}

(* What can be played without network. *)
Offered(c) == Whole(files, saved[c])

-----------------------------------------------------------------------------
(* Pages.  While one slides in, no other does, but both can be tapped.     *)

slideInIdx(a) ==
  /\ next' = IF next = shown THEN a ELSE next
  /\ UNCHANGED shown
Goto(a) == slideInIdx(a) /\ current' = a

animationDone ==
  /\ ~crashed /\ next # shown
  /\ shown' = next
  /\ UNCHANGED <<disk, crashed, current, next, classPage, playerPage, dialog, downloads, restarts, usage>>

AtHand == ~crashed /\ dialog = None
CanTap(a) == AtHand /\ a \in {shown, next}

OnBackKey(a) == Goto(IF a = "Player" THEN "Class" ELSE "Menu")

Back ==
  /\ \/ "back" \in usage /\ \E a \in Activities \ {"Menu"} : CanTap(a) /\ OnBackKey(a)
     \/ "key" \in usage /\ AtHand /\ current # "Menu" /\ OnBackKey(current)
  /\ UNCHANGED <<disk, crashed, classPage, playerPage, dialog, downloads, restarts, usage>>

-----------------------------------------------------------------------------
(* The class's page. *)

OnGotoNewClass(c) ==
  /\ CanTap("Menu") /\ requests[c] < MaxRequests
  /\ Goto("Class")
  /\ class' = c /\ listed' = {}
  /\ requests' = [requests EXCEPT ![c] = @ + 1]
  /\ UNCHANGED <<disk, crashed, kes, playerPage, dialog, downloads, restarts, usage>>

GetKesTriggered(c) ==
  /\ ~crashed /\ requests[c] > 0
  /\ requests' = [requests EXCEPT ![c] = @ - 1]
  /\ kes' = LessonsOf[c] /\ listed' = listed \cup LessonsOf[c]
  /\ UNCHANGED <<disk, crashed, window, class, playerPage, dialog, downloads, restarts, usage>>

(* Nobody is told of a list that does not come. *)
GetKesFails(c) ==
  /\ "error" \in usage /\ ~crashed /\ requests[c] > 0
  /\ requests' = [requests EXCEPT ![c] = @ - 1]
  /\ UNCHANGED <<disk, crashed, window, class, kes, listed, playerPage, dialog, downloads, restarts, usage>>

-----------------------------------------------------------------------------
(* The player's page. *)

(* DownloadKeFileTriggered: a lesson has come, and the page takes it for   *)
(* the one it wants.  What is not a lesson's file is loaded as NULL.       *)
PlayerHas(k, f, want, old) ==
  IF f[k] = "whole"
  THEN /\ saved' = [saved EXCEPT ![want.class] = AddKeFiles(@, f, {want.ke})]
       /\ widget' = k /\ leaked' = leaked \cup ({old} \ {None})
       /\ UNCHANGED crashed
  ELSE /\ crashed' = TRUE /\ widget' = None /\ leaked' = leaked \cup ({old} \ {None})
       /\ UNCHANGED saved

Fetch(k, by) == downloads' = [downloads EXCEPT ![by][k] = @ + 1]

(* Mutant: a file that is there already is not shown. *)
DownloadKeOnce(k, want) ==
  IF files[k] = "whole"
  THEN widget' = None /\ UNCHANGED <<saved, crashed, leaked, downloads>>
  ELSE Fetch(k, "player") /\ widget' = None /\ UNCHANGED <<saved, crashed, leaked>>

DownloadKe(k, want) ==
  IF files[k] = "whole"
  THEN PlayerHas(k, files, want, None) /\ UNCHANGED downloads
  ELSE Fetch(k, "player") /\ widget' = None /\ UNCHANGED <<saved, crashed, leaked>>

OnPlayClicked(k) ==
  /\ CanTap("Class") /\ k \in listed /\ downloads["player"][k] < MaxDownloads
  /\ Goto("Player")
  /\ wanted' = [class |-> class, ke |-> k]
  /\ DownloadKe(k, wanted')
  /\ UNCHANGED <<files, classPage, dialog, restarts, usage>>

-----------------------------------------------------------------------------
(* Downloading all lessons of the class: a modal dialog. *)

OnDownloadAllClicked ==
  /\ "all" \in usage /\ CanTap("Class") /\ class # None
  /\ \A k \in kes : downloads["nobody"][k] < MaxDownloads
  /\ dialog' = [class |-> class, kes |-> kes, begun |-> FALSE, count |-> 0]
  /\ UNCHANGED <<disk, crashed, window, classPage, playerPage, downloads, restarts, usage>>

(* Mutant: only what is downloaded is added to the list that was cleared.  *)
KeepNothing(s, ks) == CleanKeCount(s, 0)

(* The dialog's timer.  The lessons whose file is there are kept at once.  *)
Keep(s, ks) ==
  CleanKeCount(AddKeFiles(CleanKeCount(s, 0), files, Whole(files, ks)), Cardinality(ks))

BeginDownload ==
  /\ ~crashed /\ dialog # None /\ ~dialog.begun
  /\ LET cached == Whole(files, dialog.kes)
     IN \/ /\ dialog.kes = {}
           /\ dialog' = None
           /\ UNCHANGED <<saved, downloads>>
        \/ /\ dialog.kes # {}
           /\ saved' = [saved EXCEPT ![dialog.class] = Keep(@, dialog.kes)]
           /\ downloads' = [downloads EXCEPT !["all"] =
                [k \in Kes |-> @[k] + IF k \in dialog.kes \ cached THEN 1 ELSE 0]]
           /\ dialog' = IF cached = dialog.kes THEN None
                        ELSE [dialog EXCEPT !.begun = TRUE, !.count = Cardinality(cached)]
  /\ UNCHANGED <<files, crashed, window, classPage, playerPage, restarts, usage>>

(* Mutant: the last file does not close the dialog. *)
DialogHasOneMore(k, f) ==
  /\ saved' = [saved EXCEPT ![dialog.class] = AddKeFiles(@, f, {k})]
  /\ dialog' = IF dialog.count + 1 > Cardinality(dialog.kes) THEN None
               ELSE [dialog EXCEPT !.count = @ + 1]

(* Mutant: the file is not added to the list. *)
DialogHasUnlisted(k, f) ==
  /\ UNCHANGED saved
  /\ dialog' = IF dialog.count + 1 >= Cardinality(dialog.kes) THEN None
               ELSE [dialog EXCEPT !.count = @ + 1]

DialogHas(k, f) ==
  /\ saved' = [saved EXCEPT ![dialog.class] = AddKeFiles(@, f, {k})]
  /\ dialog' = IF dialog.count + 1 >= Cardinality(dialog.kes) THEN None
               ELSE [dialog EXCEPT !.count = @ + 1]

(* The dialog is on the stack of its caller: its downloads go on. *)
Dismiss ==
  /\ "dismiss" \in usage /\ ~crashed /\ dialog # None
  /\ dialog' = None
  /\ downloads' = [downloads EXCEPT !["all"] = NoFiles,
                                    !["nobody"] = [k \in Kes |-> @[k] + downloads["all"][k]]]
  /\ UNCHANGED <<disk, crashed, window, classPage, playerPage, restarts, usage>>

-----------------------------------------------------------------------------
(* Downloads (QHttpFileDownloader). *)

Bodies == {"whole"} \cup ({"page"} \cap usage)

Downloaded(k, by, body) ==
  /\ ~crashed /\ downloads[by][k] > 0
  /\ downloads' = [downloads EXCEPT ![by][k] = @ - 1]
  /\ files' = [files EXCEPT ![k] = body]
  /\ \/ by = "player" /\ PlayerHas(k, files', wanted, widget) /\ UNCHANGED dialog
     \/ by = "all" /\ DialogHas(k, files') /\ UNCHANGED <<crashed, widget, leaked>>
     \/ by = "nobody" /\ UNCHANGED <<saved, crashed, widget, leaked, dialog>>
  /\ UNCHANGED <<window, classPage, wanted, restarts, usage>>

(* HasError, to which nobody listens. *)
DownloadFails(k, by) ==
  /\ "error" \in usage /\ ~crashed /\ downloads[by][k] > 0
  /\ downloads' = [downloads EXCEPT ![by][k] = @ - 1]
  /\ UNCHANGED <<disk, crashed, window, classPage, playerPage, dialog, restarts, usage>>

(* The process is killed, or has crashed, and is started again: it has     *)
(* what is in the files.                                                   *)
StartAgain ==
  /\ "death" \in usage /\ restarts < MaxRestarts
  /\ restarts' = restarts + 1
  /\ crashed' = FALSE
  /\ current' = "Menu" /\ shown' = "Menu" /\ next' = "Menu"
  /\ class' = None /\ kes' = {} /\ listed' = {} /\ requests' = NoRequests
  /\ wanted' = None /\ widget' = None /\ leaked' = {}
  /\ dialog' = None
  /\ downloads' = NoDownloads
  /\ UNCHANGED <<files, usage>>

Restart == StartAgain /\ UNCHANGED saved

(* BeginDownload, which has cleared the list in memory, saves it after     *)
(* each lesson that is there: some of them are in the file when the        *)
(* process is killed between two of these.                                 *)
KilledBeginning ==
  /\ ~crashed /\ dialog # None /\ ~dialog.begun
  /\ \E some \in SUBSET Whole(files, dialog.kes) \ {{}} :
       saved' = [saved EXCEPT ![dialog.class] = AddKeFiles(CleanKeCount(@, 0), files, some)]
  /\ StartAgain

(* LocalSave::Save opens the file, which empties it, and then writes it;   *)
(* every page that makes a LocalSave saves it again (~LocalSave).          *)
KilledSaving ==
  /\ ~crashed
  /\ saved' = [c \in Classes |-> {}]
  /\ StartAgain

-----------------------------------------------------------------------------
Next ==
  \/ animationDone \/ Back
  \/ \E c \in Classes : OnGotoNewClass(c) \/ GetKesTriggered(c) \/ GetKesFails(c)
  \/ \E k \in Kes : OnPlayClicked(k)
  \/ OnDownloadAllClicked \/ BeginDownload \/ Dismiss
  \/ \E k \in Kes, by \in Receivers :
       \/ \E body \in Bodies : Downloaded(k, by, body)
       \/ DownloadFails(k, by)
  \/ Restart \/ KilledBeginning \/ KilledSaving

Spec == Init /\ [][Next]_vars

(* Timers shoot and connections end one way or the other. *)
FairSpec ==
  /\ Spec
  /\ WF_vars(BeginDownload)
  /\ \A k \in Kes, by \in Receivers :
       WF_vars((\E body \in Bodies : Downloaded(k, by, body)) \/ DownloadFails(k, by))

-----------------------------------------------------------------------------
(* A lesson that can be played without network can be so until its file    *)
(* is replaced: clearing the class's list before a download                *)
(* (DownloadAllProgress::BeginDownload), a late file and a death of the    *)
(* process elsewhere than in the middle of saving do not take it out.  A   *)
(* death there does: between two saves of BeginDownload, or in one.        *)
KeepsOffline ==
  [][~(KilledBeginning \/ KilledSaving)
       => \A c \in Classes : \A k \in Offered(c) : files'[k] = "whole" => k \in saved'[c]]_vars

(* When "download all" closes by itself, every lesson of its list whose    *)
(* file is whole is kept under its class (DownloadKeFileTriggered), unless *)
(* the site answers with error pages: also the lessons that a death in the *)
(* middle of saving had taken out.                                         *)
DoneListsWhole ==
  []["page" \notin usage /\ (BeginDownload \/ \E k \in Kes : Downloaded(k, "all", "whole"))
       => dialog' # None \/ Whole(files', dialog.kes) \subseteq saved'[dialog.class]]_vars

(* The dialog of "download all", which has no close button                 *)
(* (DownloadAllProgress::DownloadAllProgress), closes in the end when no    *)
(* download goes wrong.                                                    *)
DialogEnds ==
  (dialog # None) ~> (dialog = None \/ usage \cap {"error", "page"} # {})

(* A lesson that was tapped is on the player's page in the end, unless     *)
(* another one was tapped or a download went wrong                         *)
(* (PlayerActivity::UpdateData).                                           *)
LessonArrives ==
  \A k \in Kes : (wanted # None /\ wanted.ke = k)
                   ~> \/ k \in leaked \cup {widget} \/ wanted = None \/ wanted.ke # k
                      \/ usage \cap {"error", "page"} # {}

(* The offline page lists each class with lessons of its own               *)
(* (OfflineClasseActivity::UpdateData).                                    *)
SavedBelongs == \A c \in Classes : saved[c] \subseteq LessonsOf[c]

(* The lesson that was downloaded to be played is kept for offline use     *)
(* (PlayerActivity::DownloadKeFileTriggered).                              *)
SavedForOffline ==
  [][\A k \in Kes : Downloaded(k, "player", "whole")
       => \E c \in Classes : k \in LessonsOf[c] /\ k \in saved'[c]]_vars

(* Until the lesson that was tapped is there, the player's page says that  *)
(* it is loading (PlayerActivity::UpdateData): it shows no other lesson.   *)
ShowsWanted == widget # None => widget = wanted.ke /\ leaked \subseteq {widget}

(* A body that is no lesson's file does not crash the player               *)
(* (KeFile::LoadKeAsPlayerWidget).                                         *)
NeverCrashes == ~crashed

(* When nothing slides, the page on the screen is the one that gets the    *)
(* back key (MainWindow::OnGotoClass).                                     *)
ShownIsCurrent == next = shown => shown = current
=============================================================================
