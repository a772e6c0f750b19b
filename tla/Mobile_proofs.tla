---------------------------- MODULE Mobile_proofs ----------------------------
(***************************************************************************)
(* Theorems about Mobile, for any site, any number of requests, downloads  *)
(* and deaths of the process, and any order in which answers come.         *)
(***************************************************************************)
EXTENDS Mobile, FiniteSetTheorems, TLAPS

-----------------------------------------------------------------------------
(* The inductive invariant of the types.  A lesson can be tapped only on   *)
(* the page of a class, a lesson for the player was tapped, and the dialog *)
(* waits for at most as many files as its count is short of: so the file   *)
(* that closes it is the last one, and no file comes to a dialog that is   *)
(* not there.                                                              *)

Opened == (listed # {} \/ \E c \in Classes : requests[c] > 0) => class # None

Asked == \A k \in Kes : downloads["player"][k] > 0 => wanted # None

Awaited == {k \in Kes : downloads["all"][k] > 0}

Waiting ==
  /\ \A k \in Kes : downloads["all"][k] <= 1
  /\ Awaited # {} => dialog # None /\ dialog.begun /\ Awaited \subseteq dialog.kes
  /\ dialog # None /\ dialog.begun
       => dialog.count + Cardinality(Awaited) <= Cardinality(dialog.kes)

IInv == TypeOK /\ Opened /\ Asked /\ Waiting

-----------------------------------------------------------------------------
(* Lemmas.                                                                 *)

(* A lesson's file is asked for by one receiver, and for no other. *)
LEMMA OneMore ==
  ASSUME NEW d \in [Receivers -> [Kes -> Nat]], NEW k \in Kes, NEW by \in Receivers,
         NEW f, f = [d EXCEPT ![by][k] = @ + 1]
  PROVE  /\ f \in [Receivers -> [Kes -> Nat]]
         /\ f[by][k] = d[by][k] + 1
         /\ \A l \in Kes, r \in Receivers : l # k \/ r # by => f[r][l] = d[r][l]
  OBVIOUS

(* A download that ends is one less, for its receiver only. *)
LEMMA OneLess ==
  ASSUME NEW d \in [Receivers -> [Kes -> Nat]], NEW k \in Kes, NEW by \in Receivers,
         d[by][k] > 0, NEW f, f = [d EXCEPT ![by][k] = @ - 1]
  PROVE  /\ f \in [Receivers -> [Kes -> Nat]]
         /\ f[by][k] = d[by][k] - 1
         /\ \A l \in Kes, r \in Receivers : l # k \/ r # by => f[r][l] = d[r][l]
  OBVIOUS

(* The sets of lessons that are counted are finite. *)
LEMMA FiniteLessons ==
  ASSUME NEW S \in SUBSET Kes
  PROVE  IsFiniteSet(S) /\ Cardinality(S) \in Nat
  BY MobileAssumption, FS_Subset, FS_CardinalityType

(* LocalSave keeps lessons. *)
LEMMA AddsLessons ==
  ASSUME NEW s \in SUBSET Kes, NEW ks \in SUBSET Kes, NEW f
  PROVE  AddKeFiles(s, f, ks) \subseteq Kes
  BY DEF AddKeFiles, Whole

(* What is counted by the dialog, where the files it waits for stay. *)
LEMMA WaitingKept ==
  ASSUME Waiting, dialog' = dialog,
         \A k \in Kes : downloads'["all"][k] = downloads["all"][k]
  PROVE  Waiting'
<1>1. Awaited' = Awaited  BY DEF Awaited
<1> QED BY <1>1 DEF Waiting

(* PlayerActivity::DownloadKeFileTriggered changes the page and the list. *)
LEMMA PlayerHasTypes ==
  ASSUME TypeOK, NEW k \in Kes, NEW f, NEW want \in Want, NEW old \in Kes \cup {None},
         PlayerHas(k, f, want, old)
  PROVE  /\ saved' \in [Classes -> SUBSET Kes]
         /\ crashed' \in BOOLEAN
         /\ widget' \in Kes \cup {None}
         /\ leaked' \subseteq Kes
<1>1. want.class \in Classes /\ want.ke \in Kes  BY DEF Want
<1>2. AddKeFiles(saved[want.class], f, {want.ke}) \in SUBSET Kes
  BY <1>1, AddsLessons DEF TypeOK
<1>3. leaked' \subseteq Kes  BY DEF PlayerHas, TypeOK
<1>4. saved' \in [Classes -> SUBSET Kes]
  BY <1>1, <1>2 DEF PlayerHas, TypeOK
<1> QED BY <1>3, <1>4 DEF PlayerHas, TypeOK

-----------------------------------------------------------------------------
(* One lemma for each kind of step.                                        *)

(* Sliding pages and the back key. *)
LEMMA TypePages ==
  ASSUME IInv, animationDone \/ Back
  PROVE  IInv'
<1>1. /\ current' \in Activities /\ shown' \in Activities /\ next' \in Activities
      /\ UNCHANGED <<files, saved, crashed, class, kes, listed, requests, wanted, widget,
                     leaked, dialog, downloads, restarts, usage>>
  BY DEF IInv, TypeOK, animationDone, Back, OnBackKey, Goto, slideInIdx, Activities,
         disk, classPage, playerPage
<1>2. Waiting'  BY <1>1, WaitingKept DEF IInv
<1> QED BY <1>1, <1>2 DEF IInv, TypeOK, Opened, Asked

(* The list of a class is asked for, comes or does not come. *)
LEMMA TypeList ==
  ASSUME IInv, NEW c \in Classes,
         OnGotoNewClass(c) \/ GetKesTriggered(c) \/ GetKesFails(c)
  PROVE  IInv'
<1> USE MobileAssumption
<1>1. /\ UNCHANGED <<files, saved, crashed, wanted, widget, leaked, dialog, downloads,
                     restarts, usage>>
      /\ current' \in Activities /\ shown' \in Activities /\ next' \in Activities
  BY DEF IInv, TypeOK, OnGotoNewClass, GetKesTriggered, GetKesFails, Goto, slideInIdx,
         Activities, disk, playerPage, window
<1>2. /\ requests' \in [Classes -> Nat]
      /\ kes' \subseteq Kes /\ listed' \subseteq Kes
      /\ class' \in Classes \cup {None}
  BY DEF IInv, TypeOK, OnGotoNewClass, GetKesTriggered, GetKesFails
<1>3. Opened'
  <2>1. CASE OnGotoNewClass(c)
    BY <2>1 DEF OnGotoNewClass, Opened
  <2>2. CASE GetKesTriggered(c) \/ GetKesFails(c)
    <3>1. class' = class /\ class # None
      BY <2>2 DEF IInv, Opened, GetKesTriggered, GetKesFails
    <3> QED BY <3>1 DEF Opened
  <2> QED BY <2>1, <2>2
<1>4. Waiting'  BY <1>1, WaitingKept DEF IInv
<1> QED BY <1>1, <1>2, <1>3, <1>4 DEF IInv, TypeOK, Asked

(* A lesson is tapped. *)
LEMMA TypePlay ==
  ASSUME IInv, NEW k \in Kes, OnPlayClicked(k)
  PROVE  IInv'
<1> USE MobileAssumption
<1>1. /\ UNCHANGED <<files, class, kes, listed, requests, dialog, restarts, usage>>
      /\ current' \in Activities /\ shown' \in Activities /\ next' \in Activities
  BY DEF IInv, TypeOK, OnPlayClicked, Goto, slideInIdx, Activities, classPage
<1>2. class \in Classes
  BY DEF IInv, TypeOK, Opened, OnPlayClicked
<1>3. wanted' \in Want
  BY <1>2 DEF OnPlayClicked, Want
<1>4. /\ saved' \in [Classes -> SUBSET Kes]
      /\ crashed' \in BOOLEAN
      /\ widget' \in Kes \cup {None}
      /\ leaked' \subseteq Kes
      /\ downloads' \in [Receivers -> [Kes -> Nat]]
      /\ \A l \in Kes : downloads'["all"][l] = downloads["all"][l]
  <2>1. DownloadKe(k, wanted')  BY DEF OnPlayClicked
  <2>2. CASE files[k] = "whole"
    <3>1. PlayerHas(k, files, wanted', None) /\ UNCHANGED downloads
      BY <2>1, <2>2 DEF DownloadKe
    <3> QED BY <3>1, <1>3, PlayerHasTypes DEF IInv, TypeOK
  <2>3. CASE files[k] # "whole"
    <3>1. /\ Fetch(k, "player") /\ widget' = None
          /\ UNCHANGED <<saved, crashed, leaked>>
      BY <2>1, <2>3 DEF DownloadKe
    <3>2. "player" \in Receivers /\ "all" \in Receivers  BY DEF Receivers
    <3>3. /\ downloads' \in [Receivers -> [Kes -> Nat]]
          /\ \A l \in Kes : downloads'["all"][l] = downloads["all"][l]
      BY <3>1, <3>2, OneMore DEF Fetch, IInv, TypeOK
    <3> QED BY <3>1, <3>3 DEF IInv, TypeOK
  <2> QED BY <2>2, <2>3
<1>5. Waiting'  BY <1>1, <1>4, WaitingKept DEF IInv
<1>6. Asked'  BY <1>3 DEF Asked
<1> QED BY <1>1, <1>3, <1>4, <1>5, <1>6 DEF IInv, TypeOK, Opened

(* The dialog is opened. *)
LEMMA TypeDialog ==
  ASSUME IInv, OnDownloadAllClicked
  PROVE  IInv'
<1> USE MobileAssumption
<1>1. /\ UNCHANGED <<files, saved, crashed, current, shown, next, class, kes, listed,
                     requests, wanted, widget, leaked, downloads, restarts, usage>>
      /\ dialog = None /\ class \in Classes
      /\ dialog' = [class |-> class, kes |-> kes, begun |-> FALSE, count |-> 0]
  BY DEF IInv, TypeOK, OnDownloadAllClicked, CanTap, AtHand, disk, window, classPage,
         playerPage
<1>2. dialog' \in Dialog /\ ~dialog'.begun  BY <1>1 DEF Dialog, IInv, TypeOK
<1>3. Awaited' = {}  BY <1>1 DEF IInv, Waiting, Awaited
<1>4. Waiting'  BY <1>1, <1>2, <1>3 DEF IInv, Waiting
<1> QED BY <1>1, <1>2, <1>4 DEF IInv, TypeOK, Opened, Asked

(* What the dialog asks for when its timer shoots. *)
LEMMA BeginAsks ==
  ASSUME IInv, dialog \in Dialog, ~dialog.begun, NEW S \in SUBSET Kes,
         downloads' = [downloads EXCEPT !["all"] =
           [k \in Kes |-> @[k] + IF k \in S THEN 1 ELSE 0]]
  PROVE  /\ downloads' \in [Receivers -> [Kes -> Nat]]
         /\ downloads'["player"] = downloads["player"]
         /\ \A k \in Kes : downloads'["all"][k] = IF k \in S THEN 1 ELSE 0
<1>1. "all" \in Receivers /\ "player" \in Receivers  BY DEF Receivers
<1>2. downloads \in [Receivers -> [Kes -> Nat]]  BY DEF IInv, TypeOK
<1>3. downloads["all"] \in [Kes -> Nat]  BY <1>1, <1>2
<1>4. \A k \in Kes : downloads["all"][k] = 0
  BY <1>3 DEF IInv, Waiting, Awaited
<1>5. downloads'["all"] = [k \in Kes |-> downloads["all"][k] + IF k \in S THEN 1 ELSE 0]
  BY <1>1, <1>2
<1> QED BY <1>1, <1>2, <1>3, <1>4, <1>5

(* The dialog's timer shoots: DownloadAllProgress::BeginDownload. *)
LEMMA TypeBegin ==
  ASSUME IInv, BeginDownload
  PROVE  IInv'
<1> USE MobileAssumption
<1> DEFINE cached == Whole(files, dialog.kes)
<1>1. /\ UNCHANGED <<files, crashed, current, shown, next, class, kes, listed, requests,
                     wanted, widget, leaked, restarts, usage>>
      /\ dialog # None /\ dialog \in Dialog /\ ~dialog.begun
      /\ dialog.class \in Classes /\ dialog.kes \in SUBSET Kes
  BY DEF BeginDownload, IInv, TypeOK, Dialog, window, classPage, playerPage
<1>2. CASE dialog' = None /\ UNCHANGED <<saved, downloads>>
  <2>1. Awaited' = {}  BY <1>1, <1>2 DEF IInv, Waiting, Awaited
  <2>2. Waiting'  BY <1>2, <2>1 DEF IInv, Waiting
  <2> QED BY <1>1, <1>2, <2>2 DEF IInv, TypeOK, Opened, Asked
<1>3. CASE /\ saved' = [saved EXCEPT ![dialog.class] = Keep(@, dialog.kes)]
           /\ downloads' = [downloads EXCEPT !["all"] =
                [k \in Kes |-> @[k] + IF k \in dialog.kes \ cached THEN 1 ELSE 0]]
           /\ dialog' = IF cached = dialog.kes THEN None
                        ELSE [dialog EXCEPT !.begun = TRUE, !.count = Cardinality(cached)]
  <2>1. Keep(saved[dialog.class], dialog.kes) \subseteq Kes
    BY <1>1 DEF Keep, CleanKeCount, AddKeFiles, Whole, IInv, TypeOK
  <2>2. saved' \in [Classes -> SUBSET Kes]  BY <1>1, <1>3, <2>1 DEF IInv, TypeOK
  <2>3. /\ downloads' \in [Receivers -> [Kes -> Nat]]
        /\ downloads'["player"] = downloads["player"]
        /\ \A k \in Kes : downloads'["all"][k] = IF k \in dialog.kes \ cached THEN 1 ELSE 0
    <3>1. dialog.kes \ cached \in SUBSET Kes  BY <1>1
    <3> HIDE DEF cached
    <3> QED BY <1>1, <1>3, <3>1, BeginAsks
  <2>4. Awaited' = dialog.kes \ cached  BY <1>1, <2>3 DEF Awaited
  <2>5. cached \in SUBSET dialog.kes  BY DEF Whole
  <2>6. /\ Cardinality(cached) \in Nat /\ Cardinality(dialog.kes) \in Nat
        /\ IsFiniteSet(dialog.kes)
    BY <1>1, <2>5, FiniteLessons
  <2> HIDE DEF cached
  <2>7. dialog.kes \cap cached = cached  BY <2>5
  <2>8. Cardinality(dialog.kes \ cached) = Cardinality(dialog.kes) - Cardinality(cached)
    BY <2>6, <2>7, FS_Difference
  <2>9. CASE cached = dialog.kes
    <3>1. dialog' = None /\ Awaited' = {}  BY <1>3, <2>4, <2>9
    <3>2. Waiting'  BY <2>3, <3>1 DEF Waiting
    <3> QED BY <1>1, <2>2, <2>3, <3>1, <3>2 DEF IInv, TypeOK, Opened, Asked
  <2>10. CASE cached # dialog.kes
    <3>1. dialog' = [dialog EXCEPT !.begun = TRUE, !.count = Cardinality(cached)]
      BY <1>3, <2>10
    <3>2. /\ dialog' \in Dialog
          /\ dialog'.begun /\ dialog'.kes = dialog.kes
          /\ dialog'.count = Cardinality(cached)
      BY <1>1, <2>6, <3>1 DEF Dialog
    <3>3. dialog' # None  BY <3>2
    <3>4. Cardinality(cached) < Cardinality(dialog.kes)
      BY <2>5, <2>6, <2>10, FS_Subset
    <3>5. Waiting'  BY <2>3, <2>4, <2>6, <2>8, <3>2, <3>3 DEF Waiting
    <3> QED BY <1>1, <2>2, <2>3, <3>2, <3>4, <3>5 DEF IInv, TypeOK, Opened, Asked
  <2> QED BY <2>9, <2>10
<1> QED BY <1>2, <1>3 DEF BeginDownload

(* The dialog is dismissed: nobody is left to be told of its files. *)
LEMMA TypeDismiss ==
  ASSUME IInv, Dismiss
  PROVE  IInv'
<1> USE MobileAssumption
<1>1. /\ UNCHANGED <<files, saved, crashed, current, shown, next, class, kes, listed,
                     requests, wanted, widget, leaked, restarts, usage>>
      /\ dialog' = None
  BY DEF Dismiss, disk, window, classPage, playerPage
<1>2. downloads \in [Receivers -> [Kes -> Nat]]  BY DEF IInv, TypeOK
<1>3. \A r \in Receivers, k \in Kes : downloads[r][k] \in Nat  BY <1>2
<1>4. /\ downloads' \in [Receivers -> [Kes -> Nat]]
      /\ downloads'["player"] = downloads["player"]
      /\ downloads'["all"] = NoFiles
  BY <1>2, <1>3 DEF Dismiss, Receivers, NoFiles
<1>5. Awaited' = {} /\ \A k \in Kes : downloads'["all"][k] = 0
  BY <1>4 DEF Awaited, NoFiles
<1>6. Waiting'  BY <1>1, <1>5 DEF Waiting
<1> QED BY <1>1, <1>4, <1>6 DEF IInv, TypeOK, Opened, Asked

(* A file comes. *)
LEMMA TypeDownloaded ==
  ASSUME IInv, NEW k \in Kes, NEW by \in Receivers, NEW body \in Bodies,
         Downloaded(k, by, body)
  PROVE  IInv'
<1> USE MobileAssumption
<1>1. /\ UNCHANGED <<current, shown, next, class, kes, listed, requests, wanted, restarts,
                     usage>>
      /\ files' \in [Kes -> {"none", "whole", "page"}]
      /\ downloads[by][k] > 0
  BY DEF Downloaded, Bodies, IInv, TypeOK, window, classPage
<1>2. downloads \in [Receivers -> [Kes -> Nat]]  BY DEF IInv, TypeOK
<1>3. /\ downloads' \in [Receivers -> [Kes -> Nat]]
      /\ downloads'[by][k] = downloads[by][k] - 1
      /\ \A l \in Kes, r \in Receivers : l # k \/ r # by => downloads'[r][l] = downloads[r][l]
  BY <1>1, <1>2, OneLess DEF Downloaded
<1>4. \A r \in Receivers, l \in Kes : downloads[r][l] \in Nat  BY <1>2
<1>5. {"player", "all", "nobody"} = Receivers  BY DEF Receivers
<1>6. Asked'
  BY <1>1, <1>3, <1>4, <1>5 DEF IInv, Asked
<1>7. CASE by = "player"
  <2>1. PlayerHas(k, files', wanted, widget) /\ UNCHANGED dialog
    BY <1>7 DEF Downloaded
  <2>2. wanted \in Want  BY <1>1, <1>7 DEF IInv, TypeOK, Asked
  <2>3. /\ saved' \in [Classes -> SUBSET Kes] /\ crashed' \in BOOLEAN
        /\ widget' \in Kes \cup {None} /\ leaked' \subseteq Kes
    BY <2>1, <2>2, PlayerHasTypes DEF IInv, TypeOK
  <2>4. Waiting'
    BY <1>3, <1>5, <1>7, <2>1, WaitingKept DEF IInv
  <2> QED BY <1>1, <1>3, <1>6, <2>1, <2>3, <2>4 DEF IInv, TypeOK, Opened
<1>8. CASE by = "nobody"
  <2>1. UNCHANGED <<saved, crashed, widget, leaked, dialog>>
    BY <1>8 DEF Downloaded
  <2>2. Waiting'
    BY <1>3, <1>5, <1>8, <2>1, WaitingKept DEF IInv
  <2> QED BY <1>1, <1>3, <1>6, <2>1, <2>2 DEF IInv, TypeOK, Opened
<1>9. CASE by = "all"
  <2>1. DialogHas(k, files') /\ UNCHANGED <<crashed, widget, leaked>>
    BY <1>9 DEF Downloaded
  <2>2. k \in Awaited  BY <1>1, <1>9 DEF Awaited
  <2>3. /\ dialog # None /\ dialog \in Dialog /\ dialog.begun
        /\ dialog.class \in Classes /\ dialog.kes \in SUBSET Kes /\ dialog.count \in Nat
        /\ Awaited \subseteq dialog.kes
        /\ dialog.count + Cardinality(Awaited) <= Cardinality(dialog.kes)
    BY <2>2 DEF IInv, TypeOK, Waiting, Dialog
  <2>4. saved' \in [Classes -> SUBSET Kes]
    <3>1. AddKeFiles(saved[dialog.class], files', {k}) \in SUBSET Kes
      BY <2>3, AddsLessons DEF IInv, TypeOK
    <3> QED BY <2>1, <2>3, <3>1 DEF DialogHas, IInv, TypeOK
  <2>5. Awaited' = Awaited \ {k}
    <3>1. downloads["all"][k] = 1  BY <1>1, <1>4, <1>5, <1>9 DEF IInv, Waiting
    <3> QED BY <1>3, <1>5, <1>9, <3>1 DEF Awaited
  <2>6. /\ IsFiniteSet(Awaited) /\ Cardinality(Awaited) \in Nat
        /\ Cardinality(dialog.kes) \in Nat
    BY <2>3, FiniteLessons DEF Awaited
  <2>7. Cardinality(Awaited') = Cardinality(Awaited) - 1 /\ Cardinality(Awaited') \in Nat
    <3>1. Cardinality(Awaited \ {k}) = Cardinality(Awaited) - 1
      BY <2>2, <2>6, FS_RemoveElement
    <3>2. Awaited \ {k} \in SUBSET Kes  BY DEF Awaited
    <3> QED BY <2>5, <3>1, <3>2, FiniteLessons
  <2>8. \A l \in Kes : downloads'["all"][l] <= 1
    BY <1>3, <1>4, <1>5, <1>9 DEF IInv, Waiting
  <2>9. CASE dialog.count + 1 >= Cardinality(dialog.kes)
    <3>1. dialog' = None  BY <2>1, <2>9 DEF DialogHas
    <3>2. Cardinality(Awaited') = 0  BY <2>3, <2>6, <2>7, <2>9
    <3>3. Awaited' = {}
      <4>1. Awaited \ {k} \in SUBSET Kes  BY DEF Awaited
      <4>2. IsFiniteSet(Awaited')  BY <2>5, <4>1, FiniteLessons
      <4> QED BY <3>2, <4>2, FS_EmptySet
    <3>4. Waiting'  BY <2>8, <3>1, <3>3 DEF Waiting
    <3> QED BY <1>1, <1>3, <1>6, <2>1, <2>4, <3>1, <3>4 DEF IInv, TypeOK, Opened
  <2>10. CASE ~(dialog.count + 1 >= Cardinality(dialog.kes))
    <3>1. dialog' = [dialog EXCEPT !.count = @ + 1]  BY <2>1, <2>10 DEF DialogHas
    <3>2. /\ dialog' \in Dialog /\ dialog'.begun /\ dialog'.kes = dialog.kes
          /\ dialog'.count = dialog.count + 1
      BY <2>3, <3>1 DEF Dialog
    <3>3. dialog' # None  BY <3>2
    <3>4. dialog'.count < Cardinality(dialog'.kes)  BY <2>3, <2>6, <2>10, <3>2
    <3>5. dialog'.count + Cardinality(Awaited') <= Cardinality(dialog'.kes)
      BY <2>3, <2>6, <2>7, <3>2
    <3>6. Awaited' \subseteq dialog'.kes  BY <2>3, <2>5, <3>2
    <3>7. Waiting'  BY <2>8, <3>2, <3>3, <3>5, <3>6 DEF Waiting
    <3> QED BY <1>1, <1>3, <1>6, <2>1, <2>4, <3>2, <3>4, <3>7 DEF IInv, TypeOK, Opened
  <2> QED BY <2>9, <2>10
<1> QED BY <1>5, <1>7, <1>8, <1>9

(* A file does not come. *)
LEMMA TypeFails ==
  ASSUME IInv, NEW k \in Kes, NEW by \in Receivers, DownloadFails(k, by)
  PROVE  IInv'
<1>1. /\ UNCHANGED <<files, saved, crashed, current, shown, next, class, kes, listed,
                     requests, wanted, widget, leaked, dialog, restarts, usage>>
      /\ downloads[by][k] > 0
  BY DEF DownloadFails, disk, window, classPage, playerPage
<1>2. downloads \in [Receivers -> [Kes -> Nat]]  BY DEF IInv, TypeOK
<1>3. /\ downloads' \in [Receivers -> [Kes -> Nat]]
      /\ \A l \in Kes, r \in Receivers :
           downloads'[r][l] \in Nat /\ downloads'[r][l] <= downloads[r][l]
  <2>1. \A r \in Receivers, l \in Kes : downloads[r][l] \in Nat  BY <1>2
  <2>2. /\ downloads' \in [Receivers -> [Kes -> Nat]]
        /\ downloads'[by][k] = downloads[by][k] - 1
        /\ \A l \in Kes, r \in Receivers :
             l # k \/ r # by => downloads'[r][l] = downloads[r][l]
    BY <1>1, <1>2, OneLess DEF DownloadFails
  <2> QED BY <2>1, <2>2
<1>4. \A l \in Kes, r \in Receivers : downloads[r][l] \in Nat  BY <1>2
<1>5. {"player", "all", "nobody"} = Receivers  BY DEF Receivers
<1>6. Asked'  BY <1>1, <1>3, <1>4, <1>5 DEF IInv, Asked
<1>7. Awaited' \in SUBSET Awaited  BY <1>3, <1>4, <1>5 DEF Awaited
<1>8. \A l \in Kes : downloads'["all"][l] <= 1
  BY <1>3, <1>4, <1>5 DEF IInv, Waiting
<1>9. Waiting'
  <2>1. Cardinality(Awaited') <= Cardinality(Awaited)
    <3>1. IsFiniteSet(Awaited)  BY FiniteLessons DEF Awaited
    <3> QED BY <1>7, <3>1, FS_Subset
  <2>2. Cardinality(Awaited) \in Nat /\ Cardinality(Awaited') \in Nat
    <3>1. Awaited \in SUBSET Kes  BY DEF Awaited
    <3>2. Awaited' \in SUBSET Kes  BY <1>7, <3>1
    <3> QED BY <3>1, <3>2, FiniteLessons
  <2>3. dialog # None /\ dialog.begun
          => dialog.count + Cardinality(Awaited') <= Cardinality(dialog.kes)
    <3> SUFFICES ASSUME dialog # None, dialog.begun
                 PROVE  dialog.count + Cardinality(Awaited') <= Cardinality(dialog.kes)
      OBVIOUS
    <3>1. dialog.count \in Nat /\ Cardinality(dialog.kes) \in Nat
      BY FiniteLessons DEF IInv, TypeOK, Dialog
    <3>2. dialog.count + Cardinality(Awaited) <= Cardinality(dialog.kes)
      BY DEF IInv, Waiting
    <3> QED BY <2>1, <2>2, <3>1, <3>2
  <2> QED BY <1>1, <1>7, <1>8, <2>3 DEF IInv, Waiting
<1> QED BY <1>1, <1>3, <1>6, <1>9 DEF IInv, TypeOK, Opened

(* The process starts: nothing is open, asked for or awaited. *)
Started ==
  /\ crashed = FALSE
  /\ current = "Menu" /\ shown = "Menu" /\ next = "Menu"
  /\ class = None /\ kes = {} /\ listed = {} /\ requests = NoRequests
  /\ wanted = None /\ widget = None /\ leaked = {}
  /\ dialog = None /\ downloads = NoDownloads
  /\ files \in [Kes -> {"none", "whole", "page"}] /\ saved \in [Classes -> SUBSET Kes]
  /\ restarts \in Nat /\ usage \in Usages

(* A process that starts is in a good state. *)
LEMMA StartsWell == Started => IInv
<1> SUFFICES ASSUME Started PROVE IInv  OBVIOUS
<1> USE DEF Started
<1>1. /\ requests \in [Classes -> Nat] /\ \A c \in Classes : ~(requests[c] > 0)
      BY DEF NoRequests
<1>2. NoFiles \in [Kes -> Nat] /\ \A k \in Kes : NoFiles[k] = 0  BY DEF NoFiles
<1>3. /\ downloads \in [Receivers -> [Kes -> Nat]]
      /\ downloads["player"] = NoFiles /\ downloads["all"] = NoFiles
  BY <1>2 DEF NoDownloads, Receivers
<1>4. Awaited = {}  BY <1>2, <1>3 DEF Awaited
<1>5. Waiting  BY <1>2, <1>3, <1>4 DEF Waiting
<1>6. Asked  BY <1>2, <1>3 DEF Asked
<1>7. Opened  BY <1>1 DEF Opened
<1> QED BY <1>1, <1>3, <1>5, <1>6, <1>7 DEF IInv, TypeOK, Activities

(* What a process that starts again finds in its file, also when it was    *)
(* killed in the middle of saving.                                         *)
LEMMA FoundInFile ==
  ASSUME IInv, KilledBeginning \/ KilledSaving
  PROVE  saved' \in [Classes -> SUBSET Kes]
<1>1. CASE KilledSaving  BY <1>1 DEF KilledSaving
<1>2. CASE KilledBeginning
  <2>1. dialog \in Dialog /\ dialog.class \in Classes /\ dialog.kes \in SUBSET Kes
    BY <1>2 DEF KilledBeginning, IInv, TypeOK, Dialog
  <2>2. PICK some \in SUBSET Whole(files, dialog.kes) \ {{}} :
          saved' = [saved EXCEPT ![dialog.class] = AddKeFiles(CleanKeCount(@, 0), files, some)]
    BY <1>2 DEF KilledBeginning
  <2>3. /\ CleanKeCount(saved[dialog.class], 0) \in SUBSET Kes
        /\ some \in SUBSET Kes
    BY <2>1 DEF CleanKeCount, Whole, IInv, TypeOK
  <2>4. AddKeFiles(CleanKeCount(saved[dialog.class], 0), files, some) \in SUBSET Kes
    BY <2>3, AddsLessons
  <2> QED BY <2>1, <2>2, <2>4 DEF IInv, TypeOK
<1> QED BY <1>1, <1>2

(* The process is started again, with what is in the files. *)
LEMMA TypeRestart ==
  ASSUME IInv, Restart \/ KilledBeginning \/ KilledSaving
  PROVE  Started'
<1>1. StartAgain  BY DEF Restart, KilledBeginning, KilledSaving
<1>2. saved' \in [Classes -> SUBSET Kes]
  BY FoundInFile DEF Restart, IInv, TypeOK
<1> QED BY <1>1, <1>2 DEF IInv, TypeOK, StartAgain, Started

(* The invariant. *)
LEMMA TypeInvariant == Spec => []IInv
<1>1. Init => IInv
  <2> SUFFICES ASSUME Init PROVE IInv  OBVIOUS
  <2>1. Started  BY DEF Init, Started
  <2> QED BY <2>1, StartsWell
<1>2. Started' => IInv'  BY StartsWell, PTL
<1>3. IInv /\ [Next]_vars => IInv'
  <2> SUFFICES ASSUME IInv, [Next]_vars PROVE IInv'  OBVIOUS
  <2>1. CASE UNCHANGED vars
    <3>1. Waiting'
      BY <2>1, WaitingKept DEF vars, IInv
    <3> QED BY <2>1, <3>1 DEF IInv, TypeOK, Opened, Asked, vars, disk, window, classPage,
                             playerPage
  <2> QED BY <1>2, <2>1, TypePages, TypeList, TypePlay, TypeDialog, TypeBegin, TypeDismiss,
            TypeDownloaded, TypeFails, TypeRestart DEF Next
<1> QED BY <1>1, <1>3, PTL DEF Spec

(* Every reachable state of the phone application has the declared shape,  *)
(* and a "download all" that has begun is always short of a lesson: the    *)
(* last file that DownloadKeFileTriggered counts closes it, and no file    *)
(* of a dialog comes when there is none.                                   *)
THEOREM MobileTypeCorrect == Spec => []TypeOK
<1>1. IInv => TypeOK  BY DEF IInv
<1> QED BY <1>1, TypeInvariant, PTL

-----------------------------------------------------------------------------
(* What is kept for offline use.  The code loses lessons when the answer   *)
(* for one class comes to the page of another (SavedBelongs); the theorems *)
(* of this section are about a user of one class.                          *)

OnlyClass == \A c, d \in Classes : c = d

Belongs ==
  /\ SavedBelongs
  /\ \A c \in Classes : kes \in {{}, LessonsOf[c]} /\ listed \subseteq LessonsOf[c]
  /\ wanted # None => wanted.ke \in LessonsOf[wanted.class]
  /\ dialog # None => dialog.kes \in {{}, LessonsOf[dialog.class]}

(* What a step may not do to the list. *)
Spared == \A c \in Classes : \A k \in saved[c] : files'[k] = "whole" => k \in saved'[c]

(* A step that leaves the list alone. *)
LEMMA SparedAll ==
  ASSUME SavedBelongs, UNCHANGED saved
  PROVE  SavedBelongs' /\ Spared
  BY DEF SavedBelongs, Spared

(* Adding a lesson of the class takes out no other lesson of it, since     *)
(* their indices differ.                                                   *)
LEMMA AddsOne ==
  ASSUME NEW c \in Classes, NEW s \in SUBSET LessonsOf[c], NEW k \in LessonsOf[c], NEW f
  PROVE  /\ AddKeFiles(s, f, {k}) \subseteq LessonsOf[c]
         /\ \A l \in s : l # k \/ f[l] = "whole" => l \in AddKeFiles(s, f, {k})
         /\ f[k] = "whole" => k \in AddKeFiles(s, f, {k})
<1>1. \A l \in s : IndexOf[l] = IndexOf[k] => l = k  BY MobileAssumption
<1> QED BY <1>1 DEF AddKeFiles, Whole

(* Clearing the list and adding what is there keeps all that is whole of   *)
(* the lessons asked for: DownloadAllProgress::BeginDownload.              *)
LEMMA KeepsWhole ==
  ASSUME NEW s \in SUBSET Kes, NEW ks \in SUBSET Kes
  PROVE  Keep(s, ks) = Whole(files, ks)
<1> DEFINE W == Whole(files, ks)
<1>1. CleanKeCount(s, 0) = {}
  <2> SUFFICES ASSUME NEW k \in CleanKeCount(s, 0) PROVE FALSE  OBVIOUS
  <2>1. {l \in s : IndexOf[l] < IndexOf[k]} \in SUBSET Kes  OBVIOUS
  <2>2. Cardinality({l \in s : IndexOf[l] < IndexOf[k]}) \in Nat
    BY <2>1, FiniteLessons
  <2> QED BY <2>2 DEF CleanKeCount
<1>2. AddKeFiles({}, files, W) = W  BY DEF AddKeFiles, Whole
<1>3. CleanKeCount(W, Cardinality(ks)) = W
  <2> SUFFICES ASSUME NEW k \in W
               PROVE  Cardinality({l \in W : IndexOf[l] < IndexOf[k]}) < Cardinality(ks)
    BY DEF CleanKeCount
  <2> DEFINE below == {l \in W : IndexOf[l] < IndexOf[k]}
  <2>1. k \in ks /\ IndexOf[k] \in Nat  BY MobileAssumption DEF Whole
  <2>2. below \in SUBSET (ks \ {k})  BY <2>1 DEF Whole
  <2>3. /\ IsFiniteSet(ks) /\ Cardinality(ks) \in Nat
        /\ IsFiniteSet(ks \ {k}) /\ Cardinality(ks \ {k}) \in Nat
        /\ Cardinality(below) \in Nat
    BY <2>2, FiniteLessons
  <2>4. Cardinality(ks \ {k}) = Cardinality(ks) - 1  BY <2>1, <2>3, FS_RemoveElement
  <2>5. Cardinality(below) <= Cardinality(ks \ {k})  BY <2>2, <2>3, FS_Subset
  <2> QED BY <2>3, <2>4, <2>5
<1> QED BY <1>1, <1>2, <1>3 DEF Keep

(* The player's page keeps the lesson it wants, and takes out no other. *)
LEMMA PlayerSpares ==
  ASSUME IInv, SavedBelongs, NEW k \in Kes, NEW want \in Want,
         want.ke \in LessonsOf[want.class], NEW old, PlayerHas(k, files', want, old)
  PROVE  SavedBelongs' /\ Spared
<1>1. CASE files'[k] = "whole"
  <2> DEFINE c == want.class
             s == AddKeFiles(saved[c], files', {want.ke})
  <2>1. c \in Classes  BY DEF Want
  <2>2. saved' = [saved EXCEPT ![c] = s]  BY <1>1 DEF PlayerHas
  <2>3. saved'[c] = s /\ \A d \in Classes \ {c} : saved'[d] = saved[d]
    BY <2>1, <2>2 DEF IInv, TypeOK
  <2>4. saved[c] \in SUBSET LessonsOf[c]  BY <2>1 DEF SavedBelongs
  <2>5. s \subseteq LessonsOf[c] /\ \A l \in saved[c] : files'[l] = "whole" => l \in s
    BY <2>1, <2>4, AddsOne
  <2> HIDE DEF s, c
  <2> QED BY <2>1, <2>3, <2>5 DEF SavedBelongs, Spared
<1>2. CASE files'[k] # "whole"
  <2>1. UNCHANGED saved  BY <1>2 DEF PlayerHas
  <2> QED BY <2>1, SparedAll
<1> QED BY <1>1, <1>2

(* The dialog keeps the lesson that has come, and takes out no other. *)
LEMMA DialogSpares ==
  ASSUME IInv, Belongs, NEW k \in Kes, Downloaded(k, "all", "whole") \/ Downloaded(k, "all", "page")
  PROVE  /\ SavedBelongs' /\ Spared
         /\ dialog # None /\ dialog \in Dialog /\ dialog.begun /\ k \in dialog.kes
         /\ files'[k] = "whole" => k \in saved'[dialog.class]
         /\ DialogHas(k, files')
<1>1. /\ DialogHas(k, files') /\ downloads["all"][k] > 0  BY DEF Downloaded
<1>2. k \in Awaited  BY <1>1 DEF Awaited
<1>3. /\ dialog # None /\ dialog.begun /\ k \in dialog.kes
      /\ dialog \in Dialog /\ dialog.class \in Classes
  BY <1>2 DEF IInv, Waiting, TypeOK, Dialog
<1> DEFINE c == dialog.class
           s == AddKeFiles(saved[c], files', {k})
<1>4. k \in LessonsOf[c]  BY <1>3 DEF Belongs
<1>5. saved' = [saved EXCEPT ![c] = s]  BY <1>1 DEF DialogHas
<1>6. saved'[c] = s /\ \A d \in Classes \ {c} : saved'[d] = saved[d]
  BY <1>3, <1>5 DEF IInv, TypeOK
<1>7. saved[c] \in SUBSET LessonsOf[c]  BY <1>3 DEF Belongs, SavedBelongs
<1>8. /\ s \subseteq LessonsOf[c] /\ \A l \in saved[c] : files'[l] = "whole" => l \in s
      /\ files'[k] = "whole" => k \in s
  <2>1. c \in Classes  BY <1>3
  <2> HIDE DEF c
  <2> QED BY <1>4, <1>7, <2>1, AddsOne
<1> HIDE DEF s, c
<1>9. SavedBelongs' /\ Spared
  BY <1>3, <1>6, <1>7, <1>8 DEF Belongs, SavedBelongs, Spared
<1>10. files'[k] = "whole" => k \in saved'[c]  BY <1>6, <1>8
<1> QED BY <1>1, <1>3, <1>9, <1>10 DEF c

(* BeginDownload lists the lessons that are whole, and nothing else. *)
LEMMA BeginSpares ==
  ASSUME IInv, Belongs, BeginDownload
  PROVE  /\ SavedBelongs' /\ Spared
         /\ dialog.kes # {} => saved'[dialog.class] = Whole(files, dialog.kes)
<1>1. /\ dialog # None /\ dialog \in Dialog /\ dialog.class \in Classes
      /\ dialog.kes \in SUBSET Kes /\ files' = files
  BY DEF BeginDownload, IInv, TypeOK, Dialog
<1> DEFINE c == dialog.class
           ks == dialog.kes
<1>2. CASE ks = {} /\ UNCHANGED saved
  BY <1>2, SparedAll DEF Belongs
<1>3. CASE ks # {} /\ saved' = [saved EXCEPT ![c] = Keep(@, ks)]
  <2>1. Keep(saved[c], ks) = Whole(files, ks)  BY <1>1, KeepsWhole DEF IInv, TypeOK
  <2>2. saved'[c] = Whole(files, ks) /\ \A d \in Classes \ {c} : saved'[d] = saved[d]
    BY <1>1, <1>3, <2>1 DEF IInv, TypeOK
  <2>3. ks = LessonsOf[c]  BY <1>1, <1>3 DEF Belongs
  <2>4. saved[c] \subseteq LessonsOf[c]  BY <1>1 DEF Belongs, SavedBelongs
  <2>5. Whole(files, ks) \subseteq LessonsOf[c]
    BY <2>3 DEF Whole
  <2>6. \A l \in saved[c] : files'[l] = "whole" => l \in saved'[c]
    BY <1>1, <2>2, <2>3, <2>4 DEF Whole
  <2> HIDE DEF c, ks
  <2>7. SavedBelongs'  BY <2>2, <2>5 DEF Belongs, SavedBelongs
  <2>8. Spared  BY <2>2, <2>6 DEF Spared
  <2> QED BY <2>2, <2>7, <2>8 DEF c, ks
<1> QED BY <1>2, <1>3 DEF BeginDownload

(* What a death in the middle of saving leaves in the list is the class's. *)
LEMMA KilledBelongs ==
  ASSUME IInv, Belongs, KilledBeginning \/ KilledSaving
  PROVE  SavedBelongs'
<1>1. CASE KilledSaving  BY <1>1 DEF KilledSaving, SavedBelongs
<1>2. CASE KilledBeginning
  <2>1. /\ dialog # None /\ dialog \in Dialog
        /\ dialog.class \in Classes /\ dialog.kes \in SUBSET LessonsOf[dialog.class]
    BY <1>2 DEF KilledBeginning, IInv, TypeOK, Dialog, Belongs
  <2>2. PICK some \in SUBSET Whole(files, dialog.kes) \ {{}} :
          saved' = [saved EXCEPT ![dialog.class] = AddKeFiles(CleanKeCount(@, 0), files, some)]
    BY <1>2 DEF KilledBeginning
  <2>3. AddKeFiles(CleanKeCount(saved[dialog.class], 0), files, some)
          \subseteq LessonsOf[dialog.class]
    BY <2>1 DEF AddKeFiles, CleanKeCount, Whole, Belongs, SavedBelongs
  <2> QED BY <2>1, <2>2, <2>3 DEF Belongs, SavedBelongs, IInv, TypeOK
<1> QED BY <1>1, <1>2

(* Every step keeps what belongs to the class in its place, and all but a  *)
(* death in the middle of saving keep what can be played in the list.      *)
LEMMA BelongsStep ==
  ASSUME OnlyClass, IInv, Belongs, Next
  PROVE  Belongs' /\ (Spared \/ KilledBeginning \/ KilledSaving)
<1> USE MobileAssumption
<1>1. ASSUME UNCHANGED <<saved, kes, listed, wanted, dialog>>
      PROVE  Belongs' /\ Spared
  BY <1>1, SparedAll DEF Belongs
<1>2. CASE animationDone \/ Back
  BY <1>1, <1>2 DEF animationDone, Back, disk, classPage, playerPage
<1>3. ASSUME NEW c \in Classes, OnGotoNewClass(c)
      PROVE  Belongs' /\ Spared
  <2>1. UNCHANGED <<saved, kes, wanted, dialog>> /\ listed' = {}
    BY <1>3 DEF OnGotoNewClass, disk, playerPage
  <2> QED BY <2>1, SparedAll DEF Belongs
<1>4. ASSUME NEW c \in Classes, GetKesTriggered(c)
      PROVE  Belongs' /\ Spared
  <2>1. /\ UNCHANGED <<saved, wanted, dialog>>
        /\ kes' = LessonsOf[c] /\ listed' = listed \cup LessonsOf[c]
    BY <1>4 DEF GetKesTriggered, disk, playerPage
  <2>2. \A d \in Classes : d = c  BY DEF OnlyClass
  <2> QED BY <2>1, <2>2, SparedAll DEF Belongs
<1>5. ASSUME NEW c \in Classes, GetKesFails(c)
      PROVE  Belongs' /\ Spared
  BY <1>1, <1>5 DEF GetKesFails, disk, playerPage
<1>6. ASSUME NEW k \in Kes, OnPlayClicked(k)
      PROVE  Belongs' /\ Spared
  <2>1. /\ UNCHANGED <<files, kes, listed, dialog>>
        /\ wanted' = [class |-> class, ke |-> k] /\ DownloadKe(k, wanted')
        /\ k \in listed
    BY <1>6 DEF OnPlayClicked, classPage
  <2>2. class \in Classes  BY <2>1 DEF IInv, TypeOK, Opened
  <2>3. wanted' \in Want /\ wanted'.ke \in LessonsOf[wanted'.class]
    BY <2>1, <2>2 DEF Want, Belongs
  <2>4. SavedBelongs' /\ Spared
    <3>1. CASE UNCHANGED saved
      BY <3>1, SparedAll DEF Belongs
    <3>2. CASE PlayerHas(k, files, wanted', None)
      <4>1. PlayerHas(k, files', wanted', None)  BY <2>1, <3>2
      <4> QED BY <2>3, <4>1, PlayerSpares DEF Belongs
    <3> QED BY <2>1, <3>1, <3>2 DEF DownloadKe
  <2> QED BY <2>1, <2>3, <2>4 DEF Belongs
<1>7. CASE OnDownloadAllClicked
  <2>1. /\ UNCHANGED <<saved, kes, listed, wanted>> /\ class \in Classes
        /\ dialog' = [class |-> class, kes |-> kes, begun |-> FALSE, count |-> 0]
    BY <1>7 DEF OnDownloadAllClicked, IInv, TypeOK, disk, classPage, playerPage
  <2>2. dialog'.kes \in {{}, LessonsOf[dialog'.class]}  BY <2>1 DEF Belongs
  <2> QED BY <2>1, <2>2, SparedAll DEF Belongs
<1>8. CASE BeginDownload
  <2>1. UNCHANGED <<kes, listed, wanted>>
    BY <1>8 DEF BeginDownload, classPage, playerPage
  <2>2. dialog # None /\ dialog \in Dialog  BY <1>8 DEF BeginDownload, IInv, TypeOK
  <2>3. dialog' # None => dialog'.kes = dialog.kes /\ dialog'.class = dialog.class
    <3> DEFINE n == Cardinality(Whole(files, dialog.kes))
    <3>1. dialog' = None \/ dialog' = [dialog EXCEPT !.begun = TRUE, !.count = n]
      BY <1>8 DEF BeginDownload
    <3> HIDE DEF n
    <3>2. ASSUME dialog' = [dialog EXCEPT !.begun = TRUE, !.count = n]
          PROVE  dialog'.kes = dialog.kes /\ dialog'.class = dialog.class
      BY <2>2, <3>2 DEF Dialog
    <3> QED BY <3>1, <3>2
  <2> QED BY <1>8, <2>1, <2>2, <2>3, BeginSpares DEF Belongs
<1>9. CASE Dismiss
  <2>1. UNCHANGED <<saved, kes, listed, wanted>> /\ dialog' = None
    BY <1>9 DEF Dismiss, disk, classPage, playerPage
  <2> QED BY <2>1, SparedAll DEF Belongs
<1>10. ASSUME NEW k \in Kes, NEW by \in Receivers, NEW body \in Bodies,
              Downloaded(k, by, body)
       PROVE  Belongs' /\ Spared
  <2>1. UNCHANGED <<kes, listed, wanted>>  BY <1>10 DEF Downloaded, classPage
  <2>2. by \in {"player", "all", "nobody"}  BY DEF Receivers
  <2>3. CASE by = "player"
    <3>1. PlayerHas(k, files', wanted, widget) /\ UNCHANGED dialog /\ downloads["player"][k] > 0
      BY <1>10, <2>3 DEF Downloaded
    <3>2. wanted \in Want /\ wanted.ke \in LessonsOf[wanted.class]
      BY <3>1 DEF IInv, Asked, TypeOK, Belongs
    <3>3. SavedBelongs' /\ Spared  BY <3>1, <3>2, PlayerSpares DEF Belongs
    <3> QED BY <2>1, <3>1, <3>3 DEF Belongs
  <2>4. CASE by = "all"
    <3>1. Downloaded(k, "all", "whole") \/ Downloaded(k, "all", "page")
      BY <1>10, <2>4 DEF Bodies
    <3>2. /\ SavedBelongs' /\ Spared
          /\ dialog # None /\ dialog \in Dialog /\ DialogHas(k, files')
      BY <3>1, DialogSpares
    <3>3. dialog' # None => dialog'.kes = dialog.kes /\ dialog'.class = dialog.class
      BY <3>2 DEF DialogHas, Dialog
    <3> QED BY <2>1, <3>2, <3>3 DEF Belongs
  <2>5. CASE by = "nobody"
    <3>1. UNCHANGED <<saved, dialog>>  BY <1>10, <2>5 DEF Downloaded
    <3> QED BY <1>1, <2>1, <3>1
  <2> QED BY <2>2, <2>3, <2>4, <2>5
<1>11. ASSUME NEW k \in Kes, NEW by \in Receivers, DownloadFails(k, by)
       PROVE  Belongs' /\ Spared
  BY <1>1, <1>11 DEF DownloadFails, disk, classPage, playerPage
<1>12. CASE Restart
  <2>1. UNCHANGED saved /\ kes' = {} /\ listed' = {} /\ wanted' = None /\ dialog' = None
    BY <1>12 DEF Restart, StartAgain
  <2> QED BY <2>1, SparedAll DEF Belongs
<1>13. CASE KilledBeginning \/ KilledSaving
  <2>1. kes' = {} /\ listed' = {} /\ wanted' = None /\ dialog' = None
    BY <1>13 DEF KilledBeginning, KilledSaving, StartAgain
  <2>2. SavedBelongs'  BY <1>13, KilledBelongs
  <2> QED BY <1>13, <2>1, <2>2 DEF Belongs
<1> QED
  BY <1>2, <1>3, <1>4, <1>5, <1>6, <1>7, <1>8, <1>9, <1>10, <1>11, <1>12, <1>13 DEF Next

(* What belongs to the class stays in its place. *)
LEMMA BelongsInvariant ==
  ASSUME OnlyClass
  PROVE  Spec => []Belongs
<1>1. Init => Belongs
  BY MobileAssumption DEF Init, Belongs, SavedBelongs
<1>2. IInv /\ Belongs /\ [Next]_vars => Belongs'
  <2>1. CASE UNCHANGED vars
    <3>1. UNCHANGED <<saved, kes, listed, wanted, dialog>>
      BY <2>1 DEF vars, disk, classPage, playerPage
    <3> QED BY <3>1 DEF Belongs, SavedBelongs
  <2> QED BY <2>1, BelongsStep
<1> QED BY <1>1, <1>2, TypeInvariant, PTL DEF Spec

(* However answers and files come, and wherever else the process dies than *)
(* in the middle of saving, clearing the list (BeginDownload) and adding   *)
(* to it (LocalSave::AddKeFile) take out no lesson of a user's one class   *)
(* whose file is still there: KeepsOffline.                                *)
THEOREM KeepsOfflineHolds ==
  ASSUME OnlyClass
  PROVE  Spec => KeepsOffline
<1>1. IInv /\ Belongs /\ [Next]_vars =>
        [~(KilledBeginning \/ KilledSaving)
           => \A c \in Classes : \A k \in Offered(c) :
                files'[k] = "whole" => k \in saved'[c]]_vars
  <2> SUFFICES ASSUME IInv, Belongs, Next, ~(KilledBeginning \/ KilledSaving)
               PROVE  \A c \in Classes : \A k \in Offered(c) :
                        files'[k] = "whole" => k \in saved'[c]
    OBVIOUS
  <2> QED BY BelongsStep DEF Spared, Offered, Whole
<1> QED BY <1>1, TypeInvariant, BelongsInvariant, PTL DEF Spec, KeepsOffline

-----------------------------------------------------------------------------
(* What "download all" has kept when it closes by itself.  Its count is    *)
(* only a number: that it stands for lessons which have come and are in    *)
(* the list, also when other downloads of the same lessons end meanwhile,  *)
(* is the invariant.                                                       *)

Arrived == {l \in dialog.kes : /\ files[l] = "whole"
                               /\ l \in saved[dialog.class]
                               /\ downloads["all"][l] = 0}

Counted ==
  "page" \notin usage =>
    /\ \A k \in Kes : files[k] # "page"
    /\ dialog # None /\ dialog.begun => dialog.count <= Cardinality(Arrived)

(* A step that leaves the dialog alone or closes it. *)
LEMMA CountedKept ==
  ASSUME IInv, Counted, Spared, usage' = usage,
         dialog' = dialog \/ dialog' = None,
         "page" \notin usage =>
           /\ \A k \in Kes : files'[k] # "page" /\ (files[k] = "whole" => files'[k] = "whole")
           /\ \A k \in Kes : downloads["all"][k] = 0 => downloads'["all"][k] = 0
  PROVE  Counted'
<1> SUFFICES ASSUME "page" \notin usage, dialog' # None, dialog'.begun
             PROVE  dialog'.count <= Cardinality(Arrived')
  BY DEF Counted
<1>1. dialog' = dialog /\ dialog \in Dialog  BY DEF IInv, TypeOK
<1>2. dialog.class \in Classes /\ dialog.kes \in SUBSET Kes /\ dialog.count \in Nat
  BY <1>1 DEF Dialog
<1>3. Arrived \in SUBSET Arrived'
  BY <1>1, <1>2 DEF Arrived, Spared
<1>4. Arrived' \in SUBSET Kes  BY <1>1, <1>2 DEF Arrived
<1>5. /\ IsFiniteSet(Arrived') /\ Cardinality(Arrived') \in Nat
      /\ Cardinality(Arrived) \in Nat
  BY <1>3, <1>4, FiniteLessons
<1>6. Cardinality(Arrived) <= Cardinality(Arrived')  BY <1>3, <1>5, FS_Subset
<1>7. dialog.count <= Cardinality(Arrived)  BY <1>1 DEF Counted
<1> QED BY <1>1, <1>2, <1>5, <1>6, <1>7

(* What begins with the lessons that are there has counted them. *)
LEMMA CountedBegin ==
  ASSUME IInv, Belongs, Counted, BeginDownload
  PROVE  /\ Counted'
         /\ dialog' # None \/ Whole(files', dialog.kes) \subseteq saved'[dialog.class]
<1> DEFINE cached == Whole(files, dialog.kes)
<1>1. /\ dialog # None /\ dialog \in Dialog /\ dialog.class \in Classes /\ ~dialog.begun
      /\ dialog.kes \in SUBSET Kes /\ files' = files /\ usage' = usage
  BY DEF BeginDownload, IInv, TypeOK, Dialog
<1>2. /\ dialog.kes # {} => saved'[dialog.class] = cached
      /\ dialog.kes = {} => cached = {}
  BY BeginSpares DEF Whole
<1>3. Whole(files', dialog.kes) \subseteq saved'[dialog.class]
  BY <1>1, <1>2
<1>4. CASE dialog' = None
  BY <1>1, <1>3, <1>4 DEF Counted
<1>5. CASE /\ dialog.kes # {}
           /\ downloads' = [downloads EXCEPT !["all"] =
                [k \in Kes |-> @[k] + IF k \in dialog.kes \ cached THEN 1 ELSE 0]]
           /\ dialog' = [dialog EXCEPT !.begun = TRUE, !.count = Cardinality(cached)]
  <2>1. cached \in SUBSET dialog.kes  BY DEF Whole
  <2>2. Cardinality(cached) \in Nat  BY <1>1, <2>1, FiniteLessons
  <2>3. \A k \in Kes : downloads'["all"][k] = IF k \in dialog.kes \ cached THEN 1 ELSE 0
    <3>1. dialog.kes \ cached \in SUBSET Kes  BY <1>1
    <3> HIDE DEF cached
    <3> QED BY <1>1, <1>5, <3>1, BeginAsks
  <2>4. \A l \in cached : files'[l] = "whole" /\ downloads'["all"][l] = 0
    BY <1>1, <2>1, <2>3 DEF Whole
  <2> HIDE DEF cached
  <2>5. /\ dialog'.kes = dialog.kes /\ dialog'.class = dialog.class
        /\ dialog'.count = Cardinality(cached)
    BY <1>1, <1>5, <2>2 DEF Dialog
  <2>6. cached \in SUBSET Arrived'
    BY <1>2, <1>5, <2>1, <2>4, <2>5 DEF Arrived
  <2>7. Arrived' \in SUBSET Kes  BY <1>1, <2>5 DEF Arrived
  <2>8. Cardinality(cached) <= Cardinality(Arrived')
    BY <2>6, <2>7, FiniteLessons, FS_Subset
  <2>9. Counted'  BY <1>1, <2>5, <2>8 DEF Counted
  <2> QED BY <1>3, <2>9
<1> QED BY <1>4, <1>5 DEF BeginDownload

(* The file that has come is counted, and the last one completes the list. *)
LEMMA CountedHas ==
  ASSUME IInv, Belongs, Counted, "page" \notin usage,
         NEW k \in Kes, Downloaded(k, "all", "whole")
  PROVE  /\ Counted'
         /\ dialog' # None \/ Whole(files', dialog.kes) \subseteq saved'[dialog.class]
<1>1. /\ Spared /\ dialog # None /\ dialog \in Dialog /\ dialog.begun /\ k \in dialog.kes
      /\ DialogHas(k, files')
      /\ files'[k] = "whole" => k \in saved'[dialog.class]
  BY DialogSpares
<1>2. dialog.class \in Classes /\ dialog.kes \in SUBSET Kes /\ dialog.count \in Nat
  BY <1>1 DEF Dialog
<1>3. /\ files \in [Kes -> {"none", "whole", "page"}]
      /\ downloads \in [Receivers -> [Kes -> Nat]] /\ "all" \in Receivers
      /\ downloads["all"][k] > 0
  BY DEF IInv, TypeOK, Receivers, Downloaded
<1>4. /\ usage' = usage /\ files'[k] = "whole"
      /\ \A l \in Kes \ {k} : files'[l] = files[l]
      /\ \A l \in Kes : files'[l] # "page"
  BY <1>3 DEF Downloaded, Counted
<1>5. /\ downloads'["all"][k] = downloads["all"][k] - 1
      /\ \A l \in Kes \ {k} : downloads'["all"][l] = downloads["all"][l]
  BY <1>3, OneLess DEF Downloaded
<1>6. downloads["all"][k] = 1 /\ downloads'["all"][k] = 0
  <2>1. downloads["all"][k] \in Nat  BY <1>3
  <2> QED BY <1>3, <1>5, <2>1 DEF IInv, Waiting
<1> DEFINE now == {l \in dialog.kes : /\ files'[l] = "whole"
                                      /\ l \in saved'[dialog.class]
                                      /\ downloads'["all"][l] = 0}
<1>7. k \in now /\ k \notin Arrived /\ Arrived \in SUBSET now
  BY <1>1, <1>2, <1>4, <1>5, <1>6 DEF Arrived, Spared
<1>8. now \in SUBSET dialog.kes  OBVIOUS
<1> HIDE DEF now
<1>9. Arrived \cup {k} \in SUBSET now  BY <1>7
<1>10. /\ IsFiniteSet(now) /\ Cardinality(now) \in Nat
       /\ IsFiniteSet(Arrived) /\ Cardinality(Arrived) \in Nat
       /\ IsFiniteSet(dialog.kes) /\ Cardinality(dialog.kes) \in Nat
  BY <1>2, <1>7, <1>8, FiniteLessons
<1>11. Cardinality(Arrived \cup {k}) = Cardinality(Arrived) + 1
  BY <1>7, <1>10, FS_AddElement
<1>12. Cardinality(Arrived \cup {k}) <= Cardinality(now)
  BY <1>9, <1>10, FS_Subset
<1>13. dialog.count + 1 <= Cardinality(now)
  <2>1. dialog.count <= Cardinality(Arrived)  BY <1>1 DEF Counted
  <2> QED BY <1>2, <1>10, <1>11, <1>12, <2>1
<1>14. CASE dialog.count + 1 >= Cardinality(dialog.kes)
  <2>1. dialog' = None  BY <1>1, <1>14 DEF DialogHas
  <2>2. Cardinality(now) <= Cardinality(dialog.kes)  BY <1>8, <1>10, FS_Subset
  <2>3. Cardinality(dialog.kes) = Cardinality(now)
    BY <1>2, <1>10, <1>13, <1>14, <2>2
  <2>4. now = dialog.kes  BY <1>8, <1>10, <2>3, FS_Subset
  <2>5. Whole(files', dialog.kes) \subseteq saved'[dialog.class]
    BY <2>4 DEF now, Whole
  <2>6. Counted'  BY <1>4, <2>1 DEF Counted
  <2> QED BY <2>5, <2>6
<1>15. CASE ~(dialog.count + 1 >= Cardinality(dialog.kes))
  <2>1. dialog' = [dialog EXCEPT !.count = @ + 1]  BY <1>1, <1>15 DEF DialogHas
  <2>2. /\ dialog'.kes = dialog.kes /\ dialog'.class = dialog.class
        /\ dialog'.count = dialog.count + 1 /\ dialog' \in Dialog
    BY <1>1, <1>2, <2>1 DEF Dialog
  <2>3. dialog' # None  BY <2>2, MobileAssumption
  <2>4. Arrived' = now  BY <2>2 DEF Arrived, now
  <2> QED BY <1>4, <1>13, <2>2, <2>3, <2>4 DEF Counted
<1> QED BY <1>14, <1>15

(* Files that come whole stay so, where the site sends no error pages. *)
LEMMA CountedStep ==
  ASSUME OnlyClass, IInv, Belongs, Counted, Next
  PROVE  Counted'
<1>1. CASE Restart \/ KilledBeginning \/ KilledSaving
  <2>1. UNCHANGED <<files, usage>> /\ dialog' = None
    BY <1>1 DEF Restart, KilledBeginning, KilledSaving, StartAgain
  <2> QED BY <2>1 DEF Counted
<1> SUFFICES ASSUME ~(Restart \/ KilledBeginning \/ KilledSaving) PROVE Counted'
  BY <1>1
<1>12. Spared  BY BelongsStep
<1>2. /\ files \in [Kes -> {"none", "whole", "page"}]
      /\ downloads \in [Receivers -> [Kes -> Nat]]
      /\ {"player", "all", "nobody"} = Receivers
  BY DEF IInv, TypeOK, Receivers
<1>3. ASSUME UNCHANGED <<files, downloads, usage>>, dialog' = dialog \/ dialog' = None
      PROVE  Counted'
  BY <1>12, <1>3, CountedKept DEF Counted
<1>4. CASE animationDone \/ Back
  BY <1>3, <1>4 DEF animationDone, Back, disk
<1>5. ASSUME NEW c \in Classes, OnGotoNewClass(c) \/ GetKesTriggered(c) \/ GetKesFails(c)
      PROVE  Counted'
  BY <1>3, <1>5 DEF OnGotoNewClass, GetKesTriggered, GetKesFails, disk
<1>6. ASSUME NEW k \in Kes, OnPlayClicked(k)
      PROVE  Counted'
  <2>1. UNCHANGED <<files, usage, dialog>> /\ DownloadKe(k, wanted')
    BY <1>6 DEF OnPlayClicked
  <2>2. \A l \in Kes : downloads'["all"][l] = downloads["all"][l]
    BY <1>2, <2>1, OneMore DEF DownloadKe, Fetch
  <2> QED BY <1>12, <2>1, <2>2, CountedKept DEF Counted
<1>7. CASE OnDownloadAllClicked
  <2>1. /\ UNCHANGED <<files, usage>>
        /\ dialog' = [class |-> class, kes |-> kes, begun |-> FALSE, count |-> 0]
    BY <1>7 DEF OnDownloadAllClicked, disk
  <2>2. ~dialog'.begun  BY <2>1
  <2> QED BY <2>1, <2>2 DEF Counted
<1>8. CASE BeginDownload
  BY <1>8, CountedBegin
<1>9. CASE Dismiss
  <2>1. UNCHANGED <<files, usage>> /\ dialog' = None
    BY <1>9 DEF Dismiss, disk
  <2> QED BY <2>1 DEF Counted
<1>10. ASSUME NEW k \in Kes, NEW by \in Receivers, NEW body \in Bodies,
              Downloaded(k, by, body)
       PROVE  Counted'
  <2>1. usage' = usage  BY <1>10 DEF Downloaded
  <2> SUFFICES ASSUME "page" \notin usage PROVE Counted'
    BY <2>1 DEF Counted
  <2>2. body = "whole"  BY DEF Bodies
  <2>3. CASE by = "all"
    BY <1>10, <2>2, <2>3, CountedHas
  <2>4. CASE by # "all"
    <3>1. dialog' = dialog  BY <1>10, <2>4 DEF Downloaded
    <3>2. \A l \in Kes : downloads'["all"][l] = downloads["all"][l]
      BY <1>2, <1>10, <2>4, OneLess DEF Downloaded
    <3>3. \A l \in Kes : files'[l] # "page" /\ (files[l] = "whole" => files'[l] = "whole")
      BY <1>2, <1>10, <2>2 DEF Downloaded, Counted
    <3> QED BY <1>12, <2>1, <3>1, <3>2, <3>3, CountedKept
  <2> QED BY <2>3, <2>4
<1>11. ASSUME NEW k \in Kes, NEW by \in Receivers, DownloadFails(k, by)
       PROVE  Counted'
  <2>1. UNCHANGED <<files, usage, dialog>>  BY <1>11 DEF DownloadFails, disk
  <2>2. /\ downloads[by][k] > 0 /\ downloads'[by][k] = downloads[by][k] - 1
        /\ \A l \in Kes, r \in Receivers :
             l # k \/ r # by => downloads'[r][l] = downloads[r][l]
    BY <1>2, <1>11, OneLess DEF DownloadFails
  <2>3. \A l \in Kes : downloads["all"][l] = 0 => downloads'["all"][l] = 0
    BY <1>2, <2>2
  <2> QED BY <1>12, <2>1, <2>3, CountedKept DEF Counted
<1> QED BY <1>4, <1>5, <1>6, <1>7, <1>8, <1>9, <1>10, <1>11 DEF Next

(* When DownloadAllProgress closes by itself, every lesson of its list     *)
(* whose file is whole is kept under the class, however many lessons there *)
(* are, whatever fails, and although the list was cleared first and other  *)
(* downloads of the same lessons may end while it is open: DoneListsWhole. *)
THEOREM DoneListsWholeHolds ==
  ASSUME OnlyClass
  PROVE  Spec => DoneListsWhole
<1>1. Init => Counted  BY DEF Init, Counted
<1>2. IInv /\ Belongs /\ Counted /\ [Next]_vars => Counted'
  <2>1. CASE UNCHANGED vars
    <3>1. UNCHANGED <<files, saved, downloads, dialog, usage>>
      BY <2>1 DEF vars, disk
    <3> QED BY <3>1 DEF Counted, Arrived
  <2> QED BY <2>1, CountedStep
<1>3. IInv /\ Belongs /\ Counted /\ [Next]_vars =>
        ["page" \notin usage /\ (BeginDownload \/ \E k \in Kes : Downloaded(k, "all", "whole"))
           => dialog' # None \/ Whole(files', dialog.kes) \subseteq saved'[dialog.class]]_vars
  BY CountedBegin, CountedHas
<1> QED BY <1>1, <1>2, <1>3, TypeInvariant, BelongsInvariant, PTL DEF Spec, DoneListsWhole
=============================================================================
