-------------------------------- MODULE Voice --------------------------------
(***************************************************************************)
(* How the members of a class call each other for the voice               *)
(* (LiveWidget::GetHades and the HADESDATA command).                       *)
(*                                                                         *)
(* Whoever is in class when another comes online calls it: it makes a      *)
(* Hades for that user, an object of the closed voice library, whose       *)
(* session descriptions and candidates travel through the server.  The one *)
(* that is called makes a Hades when the first of them arrives.  A client  *)
(* names its Hades by the user at the other end, and the server relays by  *)
(* user too: a process that has gone and the one that takes its place are  *)
(* one user.  A process that has lost its link and answers Retry goes on   *)
(* over another connection with every Hades it has                         *)
(* (LiveWidget::ShowNetworkRetry).  It sends its login twice then, and     *)
(* handles each command twice, as Reconnect counts: which makes the second *)
(* of two Hades the one that is kept, and hands a description twice to it. *)
(*                                                                         *)
(* Outside the source: a Hades made to call emits an offer, and one that   *)
(* was made to be called emits an answer after each offer handed to it;    *)
(* both emit candidates after that.  On the server, uv_close and its       *)
(* callback are one step here, for nothing is written between them.        *)
(***************************************************************************)
EXTENDS Naturals, Sequences, Functions

CONSTANTS
  Clients,        \* connections, each of one client process
  Users, UserId,  \* their users; several connections may be of one user
  MaxCandidates,  \* bound: candidates that one Hades emits
  MaxLeaving      \* bound: connections that end

ASSUME VoiceAssumption ==
  /\ UserId \in [Clients -> Users]
  /\ MaxCandidates \in Nat /\ MaxLeaving \in Nat

VARIABLES
  app,         \* the process on it: "off"; "on"; "cut", its link has failed;
               \* "again", it goes on here after a Retry; "gone"
  joined,      \* client: its login was answered
  classUsers,  \* server: the class's connections
  hades,       \* client: LiveWidget::_n2nHades, by user
  toServer, toClient

vars == <<app, joined, classUsers, hades, toServer, toClient>>

Signals == {"Offer", "Answer", "Candidate"}
Command == [type : {"Login", "Reply", "Peer"} \cup Signals, from : Users, to : Users]

(* A Hades: which end it is, whether its description is still to come, the *)
(* candidates it has emitted, and the descriptions handed to it.           *)
Hades == [caller : BOOLEAN, due : BOOLEAN, candidates : 0..MaxCandidates,
          remote : SUBSET {"Offer", "Answer"}]
NewHades(caller) == [caller |-> caller, due |-> caller, candidates |-> 0, remote |-> {}]

TypeOK ==
  /\ app \in [Clients -> {"off", "on", "cut", "again", "gone"}]
  /\ joined \in [Clients -> BOOLEAN]
  /\ classUsers \subseteq Clients
  /\ \A c \in Clients : hades[c] \in [DOMAIN hades[c] -> Hades] /\ DOMAIN hades[c] \subseteq Users
  /\ toServer \in [Clients -> Seq(Command)]
  /\ toClient \in [Clients -> Seq(Command)]

Init ==
  /\ app = [c \in Clients |-> "off"]
  /\ joined = [c \in Clients |-> FALSE]
  /\ classUsers = {}
  /\ hades = [c \in Clients |-> <<>>]
  /\ toServer = [c \in Clients |-> <<>>]
  /\ toClient = [c \in Clients |-> <<>>]

-----------------------------------------------------------------------------
(* The server. *)

Writable(c) == app[c] \in {"on", "again"}
Write(queues, S, m) ==
  [c \in Clients |-> IF c \in S /\ Writable(c) THEN Append(queues[c], m) ELSE queues[c]]

Handles(c, types) ==
  /\ toServer[c] # <<>> /\ Head(toServer[c]).type \in types
  /\ toServer' = [toServer EXCEPT ![c] = Tail(@)]

NoteOfConnection(type, c) == [type |-> type, from |-> c, to |-> UserId[c]]
Note(type, c) == [type |-> type, from |-> UserId[c], to |-> UserId[c]]
HandleLogin(c) ==
  /\ Handles(c, {"Login"})
  /\ classUsers' = classUsers \cup {c}
  /\ toClient' = Write(Write(toClient, {c}, Note("Reply", c)), classUsers \ {c}, Note("Peer", c))
  /\ UNCHANGED <<app, joined, hades>>

HandleHadesDataBack(c) ==
  /\ Handles(c, Signals)
  /\ LET m == Head(toServer[c])
     IN toClient' = Write(toClient, {d \in classUsers : UserId[d] = m.from}, m)
  /\ UNCHANGED <<app, joined, classUsers, hades>>
HandleHadesData(c) ==
  /\ Handles(c, Signals)
  /\ LET m == Head(toServer[c])
     IN toClient' = Write(toClient, {d \in classUsers : UserId[d] = m.to}, m)
  /\ UNCHANGED <<app, joined, classUsers, hades>>

(* What the process had sent may or may not have been read. *)
OnClose(c) ==
  /\ app[c] \in {"cut", "gone"}
  /\ c \in classUsers \/ toServer[c] # <<>>
  /\ classUsers' = classUsers \ {c}
  /\ toServer' = [toServer EXCEPT ![c] = <<>>]
  /\ UNCHANGED <<app, joined, hades, toClient>>

-----------------------------------------------------------------------------
(* The client. *)

Receives(c, types) ==
  /\ Writable(c)
  /\ toClient[c] # <<>> /\ Head(toClient[c]).type \in types
  /\ toClient' = [toClient EXCEPT ![c] = Tail(@)]

Sends(c, type, u) ==
  toServer' = [toServer EXCEPT ![c] = Append(@, [type |-> type, from |-> UserId[c], to |-> u])]

(* GetHades: a caller makes another one, the called takes what there is. *)
GetHadesReuses(c, u, caller) == IF u \in DOMAIN hades[c] THEN hades[c][u] ELSE NewHades(caller)
GetHades(c, u, caller) ==
  IF u \in DOMAIN hades[c] /\ ~caller THEN hades[c][u] ELSE NewHades(caller)
Keeps(c, u, h) ==
  hades' = [hades EXCEPT ![c] = [v \in DOMAIN @ \cup {u} |-> IF v = u THEN h ELSE @[v]]]

OnBoardLogin(c) ==
  /\ Receives(c, {"Reply"})
  /\ joined' = [joined EXCEPT ![c] = TRUE]
  /\ UNCHANGED <<app, classUsers, hades, toServer>>

OnPeerLogin(c) ==
  /\ Receives(c, {"Peer"})
  /\ LET u == Head(toClient[c]).from IN Keeps(c, u, GetHades(c, u, TRUE))
  /\ UNCHANGED <<app, joined, classUsers, toServer>>

(* OnRemoteSdp and OnRemoteCandidate of the Hades. *)
Remote(h, type) ==
  IF type = "Candidate" THEN h
  ELSE [h EXCEPT !.remote = @ \cup {type}, !.due = @ \/ (type = "Offer" /\ ~h.caller)]
OnHadesData(c) ==
  /\ Receives(c, Signals)
  /\ LET m == Head(toClient[c])
     IN Keeps(c, m.from, Remote(GetHades(c, m.from, FALSE), m.type))
  /\ UNCHANGED <<app, joined, classUsers, toServer>>

(* SignalSdp and SignalCandidateSdp.  What is emitted while there is no    *)
(* link is lost at best (a candidate is then as if it had not been).       *)
OnSdp(c, u) ==
  /\ u \in DOMAIN hades[c] /\ hades[c][u].due
  /\ hades' = [hades EXCEPT ![c][u].due = FALSE]
  /\ \/ Writable(c) /\ Sends(c, IF hades[c][u].caller THEN "Offer" ELSE "Answer", u)
     \/ ~Writable(c) /\ UNCHANGED toServer
  /\ UNCHANGED <<app, joined, classUsers, toClient>>

OnCandidateSdp(c, u) ==
  /\ Writable(c) /\ u \in DOMAIN hades[c]
  /\ ~hades[c][u].due /\ (hades[c][u].caller \/ hades[c][u].remote # {})
  /\ hades[c][u].candidates < MaxCandidates
  /\ hades' = [hades EXCEPT ![c][u].candidates = @ + 1]
  /\ Sends(c, "Candidate", u)
  /\ UNCHANGED <<app, joined, classUsers, toClient>>

(* A user's next process starts when the one before has gone. *)
Start(c) ==
  /\ app[c] = "off"
  /\ \A d \in Clients \ {c} : UserId[d] = UserId[c] => app[d] \in {"off", "gone"}
  /\ app' = [app EXCEPT ![c] = "on"]
  /\ Sends(c, "Login", UserId[c])
  /\ UNCHANGED <<joined, classUsers, hades, toClient>>

(* What a connection that ends leaves; it ends when the process has been   *)
(* welcomed and all its logins have been handled (a bound).                *)
Ends(c) ==
  /\ Writable(c) /\ joined[c]
  /\ \A i \in DOMAIN toServer[c] : toServer[c][i].type # "Login"
  /\ SumFunction([d \in Clients |-> IF app[d] \in {"cut", "gone"} THEN 1 ELSE 0]) < MaxLeaving
  /\ joined' = [joined EXCEPT ![c] = FALSE]
  /\ toClient' = [toClient EXCEPT ![c] = <<>>]
  /\ UNCHANGED <<classUsers, toServer>>

(* The process ends. *)
Leave(c) ==
  /\ \/ Ends(c)
     \/ app[c] = "cut" /\ UNCHANGED <<joined, classUsers, toServer, toClient>>
  /\ app' = [app EXCEPT ![c] = "gone"]
  /\ hades' = [hades EXCEPT ![c] = <<>>]

(* The link fails: the window stays, with every Hades.  A process's second *)
(* link does not fail here (a bound).                                      *)
LinkFails(c) ==
  /\ Ends(c) /\ app[c] = "on"
  /\ app' = [app EXCEPT ![c] = "cut"]
  /\ UNCHANGED hades

(* Retry: LokiClient::Init connects again, over d. *)
ShowNetworkRetry(c, d) ==
  /\ app[c] = "cut" /\ app[d] = "off" /\ UserId[d] = UserId[c]
  /\ app' = [app EXCEPT ![c] = "gone", ![d] = "again"]
  /\ hades' = [hades EXCEPT ![c] = <<>>, ![d] = hades[c]]
  /\ toServer' = [toServer EXCEPT ![d] = <<Note("Login", c), Note("Login", c)>>]
  /\ UNCHANGED <<joined, classUsers, toClient>>

Next == \E c \in Clients :
  \/ HandleLogin(c) \/ HandleHadesData(c) \/ OnClose(c)
  \/ OnBoardLogin(c) \/ OnPeerLogin(c) \/ OnHadesData(c)
  \/ \E u \in Users : OnSdp(c, u) \/ OnCandidateSdp(c, u)
  \/ Start(c) \/ Leave(c) \/ LinkFails(c)
  \/ \E d \in Clients : ShowNetworkRetry(c, d)

(* The loops run, the network delivers and the library answers. *)
Fairness == \A c \in Clients :
  /\ WF_vars(HandleLogin(c) \/ HandleHadesData(c) \/ OnClose(c))
  /\ WF_vars(OnBoardLogin(c) \/ OnPeerLogin(c) \/ OnHadesData(c))
  /\ \A u \in Users : WF_vars(OnSdp(c, u))

Spec == Init /\ [][Next]_vars
FairSpec == Spec /\ Fairness

-----------------------------------------------------------------------------
Mates(c, d) == joined[c] /\ joined[d] /\ UserId[c] # UserId[d]
Calls(c, d) == UserId[d] \in DOMAIN hades[c] /\ hades[c][UserId[d]].caller

Settled ==
  /\ \A c \in Clients : toServer[c] = <<>> /\ toClient[c] = <<>>
  /\ \A c \in Clients : \A u \in DOMAIN hades[c] : ~hades[c][u].due

(* However the members come, go and come back, of any two of them one is   *)
(* the caller and the other is called, once everything has been handled.   *)
(* Both are callers only where one has retried: GetHades hands the offer   *)
(* of the new call to the Hades of the old one.                            *)
BothCall(c, d) == Calls(c, d) /\ Calls(d, c) /\ "again" \in {app[c], app[d]}
OneCaller ==
  Settled => \A c, d \in Clients :
    Mates(c, d) => (Calls(c, d) <=> ~Calls(d, c)) \/ BothCall(c, d)

(* Two who stay in class are connected at last: the caller has an answer   *)
(* and the called an offer; unless both call.                              *)
Connected(c, d) ==
  LET mine == hades[c][UserId[d]]
  IN /\ UserId[d] \in DOMAIN hades[c]
     /\ (IF mine.caller THEN "Answer" ELSE "Offer") \in mine.remote
AllConnected ==
  \A c, d \in Clients : []<>(Mates(c, d) => Connected(c, d) \/ BothCall(c, d))

(* A comment of GetHades says the called one has just come online and      *)
(* cannot have a Hades: an offer is never handed to one there is already.  *)
CalledHasNone ==
  [][\A c \in Clients :
       OnHadesData(c) /\ Head(toClient[c]).type = "Offer"
         => Head(toClient[c]).from \notin DOMAIN hades[c]]_vars

(* The same after a Retry (LiveWidget::ShowNetworkRetry): the new call     *)
(* does not meet the Hades of the old one.                                 *)
RetryIsCalled == Settled => \A c, d \in Clients : Mates(c, d) => ~BothCall(c, d)
=============================================================================
