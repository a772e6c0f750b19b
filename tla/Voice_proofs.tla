----------------------------- MODULE Voice_proofs -----------------------------
(***************************************************************************)
(* Theorems about Voice, for any number of users, any number of processes  *)
(* that each of them runs one after the other, each of which may lose its  *)
(* link and retry, and any interleaving of their logins, calls and         *)
(* departures.                                                             *)
(***************************************************************************)
EXTENDS Voice, SequenceTheorems, TLAPS

-----------------------------------------------------------------------------
Has(q, A) == \E i \in DOMAIN q : q[i] \in A

(* What Append and Tail are, element by element. *)
LEMMA AppendElements ==
  ASSUME NEW S, NEW q \in Seq(S), NEW m \in S
  PROVE  /\ Append(q, m) \in Seq(S)
         /\ DOMAIN Append(q, m) = 1 .. Len(q) + 1
         /\ DOMAIN q = 1 .. Len(q)
         /\ Len(q) \in Nat
         /\ \A i \in 1 .. Len(q) : Append(q, m)[i] = q[i]
         /\ Append(q, m)[Len(q) + 1] = m
  OBVIOUS

(* Taking the first element of a queue. *)
LEMMA TailElements ==
  ASSUME NEW S, NEW q \in Seq(S), q # <<>>
  PROVE  /\ Tail(q) \in Seq(S)
         /\ Head(q) = q[1]
         /\ Head(q) \in S
         /\ Len(q) \in Nat \ {0}
         /\ DOMAIN q = 1 .. Len(q)
         /\ DOMAIN Tail(q) = 1 .. Len(q) - 1
         /\ \A i \in 1 .. Len(q) - 1 : Tail(q)[i] = q[i + 1]
  OBVIOUS

(* An empty queue has nothing. *)
LEMMA EmptyQueue ==
  ASSUME NEW A
  PROVE  ~Has(<<>>, A)
  BY DEF Has

(* The one element of a queue is all it has. *)
LEMMA HasSingle ==
  ASSUME NEW m, NEW A, m \notin A
  PROVE  ~Has(<<m>>, A)
<1>1. DOMAIN <<m>> = {1} /\ <<m>>[1] = m  OBVIOUS
<1> QED BY <1>1 DEF Has

(* What joins a queue is in it, with all that was there. *)
LEMMA HasAppend ==
  ASSUME NEW S, NEW q \in Seq(S), NEW m \in S, NEW A
  PROVE  Has(Append(q, m), A) <=> Has(q, A) \/ m \in A
  BY AppendElements DEF Has

(* What leaves a queue was its head. *)
LEMMA HasTail ==
  ASSUME NEW S, NEW q \in Seq(S), q # <<>>, NEW A
  PROVE  Has(q, A) <=> Head(q) \in A \/ Has(Tail(q), A)
<1>1. ASSUME Has(q, A), Head(q) \notin A PROVE Has(Tail(q), A)
  <2>1. PICK i \in 1 .. Len(q) : q[i] \in A  BY <1>1, TailElements DEF Has
  <2>2. i # 1  BY <2>1, <1>1, TailElements
  <2>3. i - 1 \in 1 .. Len(q) - 1 /\ Tail(q)[i - 1] = q[i]
    BY <2>2, TailElements
  <2> QED BY <2>1, <2>3, TailElements DEF Has
<1>2. ASSUME Has(Tail(q), A) PROVE Has(q, A)
  <2>1. PICK i \in 1 .. Len(q) - 1 : Tail(q)[i] \in A
    BY <1>2, TailElements DEF Has
  <2>2. i + 1 \in 1 .. Len(q) /\ q[i + 1] \in A  BY <2>1, TailElements
  <2> QED BY <2>2, TailElements DEF Has
<1>3. ASSUME Head(q) \in A PROVE Has(q, A)
  BY <1>3, TailElements DEF Has
<1> QED BY <1>1, <1>2, <1>3

-----------------------------------------------------------------------------
(* Types.                                                                  *)

(* What a client keeps in _n2nHades: a Hades for some of the users. *)
Kept == UNION {[U -> Hades] : U \in SUBSET Users}

Typed ==
  /\ app \in [Clients -> {"off", "on", "cut", "again", "gone"}]
  /\ joined \in [Clients -> BOOLEAN]
  /\ classUsers \subseteq Clients
  /\ hades \in [Clients -> Kept]
  /\ toServer \in [Clients -> Seq(Command)]
  /\ toClient \in [Clients -> Seq(Command)]

(* Every command that is sent is one. *)
LEMMA Commands ==
  /\ \A c \in Clients, t \in {"Login", "Reply", "Peer"} : Note(t, c) \in Command
  /\ \A c \in Clients, u \in Users, t \in {"Login"} \cup Signals :
       [type |-> t, from |-> UserId[c], to |-> u] \in Command
  BY VoiceAssumption DEF Command, Note

(* No client has a Hades yet, and a Hades just made is one. *)
LEMMA HadesMade ==
  /\ <<>> \in Kept /\ DOMAIN <<>> = {}
  /\ \A caller \in BOOLEAN : NewHades(caller) \in Hades
<1>1. <<>> \in [{} -> Hades] /\ DOMAIN <<>> = {}  OBVIOUS
<1>2. <<>> \in Kept  BY <1>1 DEF Kept
<1>3. \A caller \in BOOLEAN : NewHades(caller) \in Hades
  BY VoiceAssumption DEF NewHades, Hades
<1> QED BY <1>1, <1>2, <1>3

(* What is kept under a user that has an entry is a Hades. *)
LEMMA KeptEntry ==
  ASSUME NEW k \in Kept
  PROVE  /\ DOMAIN k \subseteq Users
         /\ k \in [DOMAIN k -> Hades]
         /\ \A u \in DOMAIN k : k[u] \in Hades
  BY DEF Kept

(* Keeping a Hades under a user changes that entry and no other. *)
LEMMA KeepsEntry ==
  ASSUME Typed, NEW c \in Clients, NEW u \in Users, NEW h \in Hades, Keeps(c, u, h)
  PROVE  /\ hades' \in [Clients -> Kept]
         /\ \A d \in Clients \ {c} : hades'[d] = hades[d]
         /\ DOMAIN hades'[c] = DOMAIN hades[c] \cup {u}
         /\ hades'[c][u] = h
         /\ \A v \in DOMAIN hades[c] \ {u} : hades'[c][v] = hades[c][v]
<1> DEFINE k == [v \in DOMAIN hades[c] \cup {u} |-> IF v = u THEN h ELSE hades[c][v]]
<1>1. hades \in [Clients -> Kept] /\ hades' = [hades EXCEPT ![c] = k]
  BY DEF Typed, Keeps
<1>2. k \in Kept
  <2>1. DOMAIN hades[c] \cup {u} \in SUBSET Users  BY <1>1, KeptEntry
  <2>2. k \in [DOMAIN hades[c] \cup {u} -> Hades]  BY <1>1, KeptEntry
  <2> QED BY <2>1, <2>2 DEF Kept
<1>3. hades'[c] = k  BY <1>1
<1>4. hades' \in [Clients -> Kept] /\ \A d \in Clients \ {c} : hades'[d] = hades[d]
  BY <1>1, <1>2
<1> QED BY <1>3, <1>4

(* A change to one Hades of a client, made by the library. *)
LEMMA ChangesEntry ==
  ASSUME Typed, NEW c \in Clients, NEW u \in DOMAIN hades[c], NEW h \in Hades,
         hades' = [hades EXCEPT ![c] = [@ EXCEPT ![u] = h]]
  PROVE  /\ hades' \in [Clients -> Kept]
         /\ \A d \in Clients \ {c} : hades'[d] = hades[d]
         /\ DOMAIN hades'[c] = DOMAIN hades[c]
         /\ hades'[c][u] = h
         /\ \A v \in DOMAIN hades[c] \ {u} : hades'[c][v] = hades[c][v]
<1> DEFINE k == [hades[c] EXCEPT ![u] = h]
<1>1. hades \in [Clients -> Kept] /\ hades' = [hades EXCEPT ![c] = k]
  BY DEF Typed
<1>2. /\ DOMAIN hades[c] \in SUBSET Users
      /\ hades[c] \in [DOMAIN hades[c] -> Hades]
  BY <1>1, KeptEntry
<1>3. k \in [DOMAIN hades[c] -> Hades]  BY <1>2
<1>4. k \in Kept  BY <1>2, <1>3 DEF Kept
<1>5. hades'[c] = k  BY <1>1
<1>6. hades' \in [Clients -> Kept] /\ \A d \in Clients \ {c} : hades'[d] = hades[d]
  BY <1>1, <1>4
<1> QED BY <1>2, <1>5, <1>6

(* Writing to a set of connections keeps queues of commands, and reaches   *)
(* each of them at the end of its queue.                                   *)
LEMMA WriteQueues ==
  ASSUME NEW queues \in [Clients -> Seq(Command)], NEW S, NEW m \in Command
  PROVE  /\ Write(queues, S, m) \in [Clients -> Seq(Command)]
         /\ \A d \in Clients :
              Write(queues, S, m)[d] =
                IF d \in S /\ Writable(d) THEN Append(queues[d], m) ELSE queues[d]
  BY DEF Write

(* What GetHades returns, and what the library makes of what it is handed, *)
(* is a Hades of the same end of the call.                                 *)
LEMMA GotHades ==
  ASSUME Typed, NEW c \in Clients, NEW u, NEW t \in Signals
  PROVE  /\ GetHades(c, u, TRUE) = NewHades(TRUE)
         /\ Remote(GetHades(c, u, FALSE), t) \in Hades
         /\ Remote(GetHades(c, u, FALSE), t).caller =
              IF u \in DOMAIN hades[c] THEN hades[c][u].caller ELSE FALSE
<1> DEFINE h == GetHades(c, u, FALSE)
<1>1. /\ GetHades(c, u, TRUE) = NewHades(TRUE)
      /\ h = IF u \in DOMAIN hades[c] THEN hades[c][u] ELSE NewHades(FALSE)
  BY DEF GetHades
<1>2. /\ h \in Hades
      /\ h.caller = IF u \in DOMAIN hades[c] THEN hades[c][u].caller ELSE FALSE
  <2>1. CASE u \in DOMAIN hades[c]
    <3>1. hades[c] \in Kept  BY DEF Typed
    <3>2. hades[c][u] \in Hades  BY <2>1, <3>1, KeptEntry
    <3> QED BY <1>1, <2>1, <3>2
  <2>2. CASE u \notin DOMAIN hades[c]
    <3>1. h = NewHades(FALSE)  BY <1>1, <2>2
    <3>2. NewHades(FALSE) \in Hades  BY HadesMade
    <3>3. NewHades(FALSE).caller = FALSE  BY DEF NewHades
    <3> QED BY <2>2, <3>1, <3>2, <3>3
  <2> QED BY <2>1, <2>2
<1> HIDE DEF h
<1>3. CASE t = "Candidate"  BY <1>1, <1>2, <1>3 DEF Remote, h
<1>4. CASE t # "Candidate"
  <2>1. t \in {"Offer", "Answer"}  BY <1>4 DEF Signals
  <2>2. h.remote \cup {t} \in SUBSET {"Offer", "Answer"}
    BY <1>2, <2>1 DEF Hades
  <2>3. (h.due \/ (t = "Offer" /\ ~h.caller)) \in BOOLEAN  OBVIOUS
  <2>4. Remote(h, t) = [h EXCEPT !.remote = h.remote \cup {t},
                                 !.due = h.due \/ (t = "Offer" /\ ~h.caller)]
    BY <1>4 DEF Remote
  <2>5. Remote(h, t) \in Hades /\ Remote(h, t).caller = h.caller
    BY <1>2, <2>2, <2>3, <2>4 DEF Hades
  <2> QED BY <1>1, <1>2, <2>5 DEF h
<1> QED BY <1>3, <1>4

(* A client takes the head of its queue. *)
LEMMA ReceivesHead ==
  ASSUME Typed, NEW c \in Clients, NEW T, Receives(c, T)
  PROVE  /\ Writable(c) /\ toClient[c] \in Seq(Command) /\ toClient[c] # <<>>
         /\ Head(toClient[c]) \in Command /\ Head(toClient[c]).type \in T
         /\ Head(toClient[c]).from \in Users
         /\ toClient' \in [Clients -> Seq(Command)]
         /\ toClient'[c] = Tail(toClient[c])
         /\ \A d \in Clients \ {c} : toClient'[d] = toClient[d]
<1>1. toClient[c] \in Seq(Command) /\ toClient[c] # <<>>
  BY DEF Typed, Receives
<1>2. Head(toClient[c]) \in Command /\ Tail(toClient[c]) \in Seq(Command)
  BY <1>1, TailElements
<1> QED BY <1>1, <1>2 DEF Typed, Receives, Command

(* The server takes the head of what a client has sent. *)
LEMMA HandlesHead ==
  ASSUME Typed, NEW c \in Clients, NEW T, Handles(c, T)
  PROVE  /\ toServer[c] \in Seq(Command) /\ toServer[c] # <<>>
         /\ Head(toServer[c]) \in Command /\ Head(toServer[c]).type \in T
         /\ toServer' \in [Clients -> Seq(Command)]
         /\ toServer'[c] = Tail(toServer[c])
         /\ \A d \in Clients \ {c} : toServer'[d] = toServer[d]
<1>1. toServer[c] \in Seq(Command) /\ toServer[c] # <<>>
  BY DEF Typed, Handles
<1>2. Head(toServer[c]) \in Command /\ Tail(toServer[c]) \in Seq(Command)
  BY <1>1, TailElements
<1> QED BY <1>1, <1>2 DEF Typed, Handles

(* Sending puts a command at the end of one queue. *)
LEMMA SendsLast ==
  ASSUME Typed, NEW c \in Clients, NEW u \in Users, NEW t \in {"Login"} \cup Signals,
         Sends(c, t, u)
  PROVE  /\ toServer' \in [Clients -> Seq(Command)]
         /\ toServer'[c] = Append(toServer[c], [type |-> t, from |-> UserId[c], to |-> u])
         /\ [type |-> t, from |-> UserId[c], to |-> u] \in Command
         /\ \A d \in Clients \ {c} : toServer'[d] = toServer[d]
<1> DEFINE m == [type |-> t, from |-> UserId[c], to |-> u]
<1>1. m \in Command  BY Commands
<1>2. /\ toServer \in [Clients -> Seq(Command)]
      /\ toServer' = [toServer EXCEPT ![c] = Append(toServer[c], m)]
  BY DEF Typed, Sends
<1> HIDE DEF m
<1>3. Append(toServer[c], m) \in Seq(Command)  BY <1>1, <1>2
<1>4. /\ toServer' \in [Clients -> Seq(Command)]
      /\ toServer'[c] = Append(toServer[c], m)
      /\ \A d \in Clients \ {c} : toServer'[d] = toServer[d]
  BY <1>2, <1>3
<1> QED BY <1>1, <1>4 DEF m

(* SignalSdp and SignalCandidateSdp keep which end of the call a Hades is, *)
(* and send a signal where there is a link.                                *)
LEMMA EmitsSignal ==
  ASSUME Typed, NEW c \in Clients, NEW u \in Users, OnSdp(c, u) \/ OnCandidateSdp(c, u)
  PROVE  /\ u \in DOMAIN hades[c]
         /\ hades' \in [Clients -> Kept]
         /\ \A d \in Clients \ {c} : hades'[d] = hades[d]
         /\ DOMAIN hades'[c] = DOMAIN hades[c]
         /\ \A v \in DOMAIN hades[c] : hades'[c][v].caller = hades[c][v].caller
         /\ UNCHANGED toServer \/ \E t \in Signals : Sends(c, t, u)
         /\ UNCHANGED <<app, joined, classUsers, toClient>>
<1>1. /\ u \in DOMAIN hades[c]
      /\ UNCHANGED <<app, joined, classUsers, toClient>>
      /\ UNCHANGED toServer \/ \E t \in Signals : Sends(c, t, u)
  BY DEF OnSdp, OnCandidateSdp, Signals
<1>2. hades[c][u] \in Hades
  <2>1. hades[c] \in Kept  BY DEF Typed
  <2> QED BY <1>1, <2>1, KeptEntry
<1>3. ASSUME NEW h \in Hades, h.caller = hades[c][u].caller,
             hades' = [hades EXCEPT ![c] = [@ EXCEPT ![u] = h]]
      PROVE  /\ hades' \in [Clients -> Kept]
             /\ \A d \in Clients \ {c} : hades'[d] = hades[d]
             /\ DOMAIN hades'[c] = DOMAIN hades[c]
             /\ \A v \in DOMAIN hades[c] : hades'[c][v].caller = hades[c][v].caller
  BY <1>1, <1>3, ChangesEntry
<1>4. CASE OnSdp(c, u)
  <2> DEFINE h == [hades[c][u] EXCEPT !.due = FALSE]
  <2>1. hades' = [hades EXCEPT ![c] = [@ EXCEPT ![u] = h]]
    BY <1>4 DEF OnSdp
  <2>2. h \in Hades /\ h.caller = hades[c][u].caller  BY <1>2 DEF Hades
  <2> HIDE DEF h
  <2> QED BY <1>1, <1>3, <2>1, <2>2
<1>5. CASE OnCandidateSdp(c, u)
  <2> DEFINE h == [hades[c][u] EXCEPT !.candidates = hades[c][u].candidates + 1]
  <2>1. hades' = [hades EXCEPT ![c] = [@ EXCEPT ![u] = h]]
    BY <1>5 DEF OnCandidateSdp
  <2>2. hades[c][u].candidates + 1 \in 0..MaxCandidates
    BY <1>2, <1>5, VoiceAssumption DEF OnCandidateSdp, Hades
  <2>3. h \in Hades /\ h.caller = hades[c][u].caller  BY <1>2, <2>2 DEF Hades
  <2> HIDE DEF h
  <2> QED BY <1>1, <1>3, <2>1, <2>3
<1> QED BY <1>4, <1>5

(* OnPeerLogin makes a Hades that calls; OnHadesData keeps which end of    *)
(* the call a Hades is, or makes one that is called.                       *)
LEMMA HearsPeer ==
  ASSUME Typed, NEW c \in Clients, OnPeerLogin(c) \/ OnHadesData(c)
  PROVE  /\ hades' \in [Clients -> Kept]
         /\ \A d \in Clients \ {c} : hades'[d] = hades[d]
         /\ LET u == Head(toClient[c]).from
            IN /\ DOMAIN hades'[c] = DOMAIN hades[c] \cup {u}
               /\ \A v \in DOMAIN hades[c] \ {u} : hades'[c][v] = hades[c][v]
               /\ OnPeerLogin(c) => hades'[c][u].caller
               /\ OnHadesData(c) => (hades'[c][u].caller
                    <=> u \in DOMAIN hades[c] /\ hades[c][u].caller)
<1> DEFINE u == Head(toClient[c]).from
           t == Head(toClient[c]).type
<1>1. ASSUME NEW h \in Hades, Keeps(c, u, h), u \in Users
      PROVE  /\ hades' \in [Clients -> Kept]
             /\ \A d \in Clients \ {c} : hades'[d] = hades[d]
             /\ DOMAIN hades'[c] = DOMAIN hades[c] \cup {u}
             /\ \A v \in DOMAIN hades[c] \ {u} : hades'[c][v] = hades[c][v]
             /\ hades'[c][u] = h
  BY <1>1, KeepsEntry
<1>2. CASE OnPeerLogin(c)
  <2>1. u \in Users /\ t = "Peer"  BY <1>2, ReceivesHead DEF OnPeerLogin
  <2>2. Keeps(c, u, NewHades(TRUE))
    BY <1>2 DEF OnPeerLogin, GetHades
  <2>3. NewHades(TRUE) \in Hades /\ NewHades(TRUE).caller
    BY HadesMade DEF NewHades
  <2>4. ~OnHadesData(c)
    BY <2>1 DEF OnHadesData, Receives, Signals
  <2> QED BY <1>1, <2>1, <2>2, <2>3, <2>4
<1>3. CASE OnHadesData(c)
  <2>1. u \in Users /\ t \in Signals  BY <1>3, ReceivesHead DEF OnHadesData
  <2> DEFINE h == Remote(GetHades(c, u, FALSE), t)
  <2>2. Keeps(c, u, h)  BY <1>3 DEF OnHadesData
  <2>3. /\ h \in Hades
        /\ h.caller = IF u \in DOMAIN hades[c] THEN hades[c][u].caller ELSE FALSE
    BY <2>1, GotHades
  <2>4. ~OnPeerLogin(c)
    BY <2>1 DEF OnPeerLogin, Receives, Signals
  <2> HIDE DEF h
  <2> QED BY <1>1, <2>1, <2>2, <2>3, <2>4
<1> QED BY <1>2, <1>3

-----------------------------------------------------------------------------
(* Type correctness. *)

(* A connection that ends is one of a process in class that has no login   *)
(* on its way; it is not in class any more, and nothing comes over it.     *)
LEMMA EndsClean ==
  ASSUME Typed, NEW c \in Clients, Ends(c)
  PROVE  /\ Writable(c) /\ joined[c]
         /\ \A i \in DOMAIN toServer[c] : toServer[c][i].type # "Login"
         /\ joined' = [joined EXCEPT ![c] = FALSE]
         /\ toClient' = [toClient EXCEPT ![c] = <<>>]
         /\ UNCHANGED <<classUsers, toServer>>
         /\ joined' \in [Clients -> BOOLEAN]
         /\ toClient' \in [Clients -> Seq(Command)]
<1>1. /\ Writable(c) /\ joined[c]
      /\ \A i \in DOMAIN toServer[c] : toServer[c][i].type # "Login"
      /\ joined' = [joined EXCEPT ![c] = FALSE]
      /\ toClient' = [toClient EXCEPT ![c] = <<>>]
      /\ UNCHANGED <<classUsers, toServer>>
  BY Zenon DEF Ends
<1>2. <<>> \in Seq(Command)  OBVIOUS
<1> QED BY <1>1, <1>2 DEF Typed

(* Every step keeps the declared shape. *)
LEMMA TypedNext ==
  ASSUME Typed, NEW c \in Clients,
         \/ HandleLogin(c) \/ HandleHadesData(c) \/ OnClose(c)
         \/ OnBoardLogin(c) \/ OnPeerLogin(c) \/ OnHadesData(c)
         \/ \E u \in Users : OnSdp(c, u) \/ OnCandidateSdp(c, u)
         \/ Start(c) \/ Leave(c) \/ LinkFails(c)
         \/ \E d \in Clients : ShowNetworkRetry(c, d)
  PROVE  Typed'
<1> USE VoiceAssumption
<1>1. CASE HandleLogin(c)
  <2>1. Note("Reply", c) \in Command /\ Note("Peer", c) \in Command
    BY Commands
  <2>2. Write(toClient, {c}, Note("Reply", c)) \in [Clients -> Seq(Command)]
    BY <2>1, WriteQueues DEF Typed
  <2>3. toClient' \in [Clients -> Seq(Command)]
    BY <1>1, <2>1, <2>2, WriteQueues DEF HandleLogin
  <2>4. toServer' \in [Clients -> Seq(Command)]
    BY <1>1, HandlesHead DEF HandleLogin
  <2> QED BY <1>1, <2>3, <2>4 DEF HandleLogin, Typed
<1>2. CASE HandleHadesData(c)
  <2>1. Handles(c, Signals)  BY <1>2 DEF HandleHadesData
  <2>2. toServer' \in [Clients -> Seq(Command)] /\ Head(toServer[c]) \in Command
    BY <2>1, HandlesHead
  <2>3. toClient' \in [Clients -> Seq(Command)]
    BY <1>2, <2>2, WriteQueues DEF HandleHadesData, Typed
  <2> QED BY <1>2, <2>2, <2>3 DEF HandleHadesData, Typed
<1>3. CASE OnClose(c)  BY <1>3 DEF OnClose, Typed
<1>4. CASE OnBoardLogin(c)
  <2>1. toClient' \in [Clients -> Seq(Command)]
    BY <1>4, ReceivesHead DEF OnBoardLogin
  <2> QED BY <1>4, <2>1 DEF OnBoardLogin, Typed
<1>5. CASE OnPeerLogin(c) \/ OnHadesData(c)
  <2>1. toClient' \in [Clients -> Seq(Command)]
    BY <1>5, ReceivesHead DEF OnPeerLogin, OnHadesData
  <2>2. hades' \in [Clients -> Kept]  BY <1>5, HearsPeer
  <2> QED BY <1>5, <2>1, <2>2 DEF OnPeerLogin, OnHadesData, Typed
<1>6. ASSUME NEW u \in Users, OnSdp(c, u) \/ OnCandidateSdp(c, u) PROVE Typed'
  <2>1. /\ hades' \in [Clients -> Kept]
        /\ UNCHANGED <<app, joined, classUsers, toClient>>
        /\ UNCHANGED toServer \/ \E t \in Signals : Sends(c, t, u)
    BY <1>6, EmitsSignal
  <2>2. toServer' \in [Clients -> Seq(Command)]  BY <2>1, SendsLast DEF Typed
  <2> QED BY <2>1, <2>2 DEF Typed
<1>7. CASE Start(c)
  <2>1. toServer' \in [Clients -> Seq(Command)]
    BY <1>7, SendsLast DEF Start
  <2> QED BY <1>7, <2>1 DEF Start, Typed
<1>8. CASE Leave(c) \/ LinkFails(c)
  <2>1. hades' \in [Clients -> Kept]  BY <1>8, HadesMade DEF Leave, LinkFails, Typed
  <2>2. app' \in [Clients -> {"off", "on", "cut", "again", "gone"}]
    BY <1>8 DEF Leave, LinkFails, Typed
  <2>3. \/ Ends(c)
        \/ UNCHANGED <<joined, classUsers, toServer, toClient>>
    BY <1>8 DEF Leave, LinkFails
  <2>4. /\ joined' \in [Clients -> BOOLEAN] /\ toClient' \in [Clients -> Seq(Command)]
        /\ UNCHANGED <<classUsers, toServer>>
    BY <2>3, EndsClean DEF Typed
  <2> QED BY <2>1, <2>2, <2>4 DEF Typed
<1>9. ASSUME NEW d \in Clients, ShowNetworkRetry(c, d) PROVE Typed'
  <2> DEFINE q == <<Note("Login", c), Note("Login", c)>>
  <2>1. q \in Seq(Command)  BY Commands
  <2>2. toServer' = [toServer EXCEPT ![d] = q]  BY <1>9 DEF ShowNetworkRetry
  <2> HIDE DEF q
  <2>3. toServer' \in [Clients -> Seq(Command)]  BY <2>1, <2>2 DEF Typed
  <2>4. hades' \in [Clients -> Kept]
    BY <1>9, HadesMade DEF ShowNetworkRetry, Typed
  <2> QED BY <1>9, <2>3, <2>4 DEF ShowNetworkRetry, Typed
<1> QED BY <1>1, <1>2, <1>3, <1>4, <1>5, <1>6, <1>7, <1>8, <1>9

(* The shape TypeOK declares, with a Hades for users only, holds always. *)
LEMMA TypedInvariant == Spec => []Typed
<1>1. Init => Typed  BY HadesMade DEF Init, Typed
<1>2. Typed /\ [Next]_vars => Typed'
  <2> SUFFICES ASSUME Typed, [Next]_vars PROVE Typed'
    OBVIOUS
  <2>1. CASE UNCHANGED vars  BY <2>1 DEF Typed, vars
  <2>2. CASE Next  BY <2>2, TypedNext DEF Next
  <2> QED BY <2>1, <2>2
<1> QED BY <1>1, <1>2, PTL DEF Spec

(* Every process keeps a Hades only for users of the class, each with the  *)
(* candidates it may emit and the descriptions handed to it, and           *)
(* all queues hold commands: TypeOK, for any class.                        *)
THEOREM VoiceTypeCorrect == Spec => []TypeOK
<1>1. Typed => TypeOK
  <2> SUFFICES ASSUME Typed PROVE TypeOK
    OBVIOUS
  <2>1. \A c \in Clients : /\ hades[c] \in [DOMAIN hades[c] -> Hades]
                           /\ DOMAIN hades[c] \subseteq Users
    BY KeptEntry DEF Typed
  <2> QED BY <2>1 DEF Typed, TypeOK
<1> QED BY <1>1, TypedInvariant, PTL

-----------------------------------------------------------------------------
(* Sessions: where a process is between its start and its departure.  One  *)
(* that has retried has sent its login twice, and may be handled signals   *)
(* of the Hades it kept before it is in class again.                       *)

OfType(t) == {m \in Command : m.type = t}

Runs(c) == app[c] \in {"on", "cut", "again"}

Session(c) ==
  /\ app[c] = "off" => /\ toServer[c] = <<>> /\ toClient[c] = <<>>
                       /\ DOMAIN hades[c] = {} /\ ~joined[c] /\ c \notin classUsers
  /\ app[c] = "on" /\ c \notin classUsers =>
       /\ toServer[c] = <<Note("Login", c)>> /\ toClient[c] = <<>>
       /\ DOMAIN hades[c] = {} /\ ~joined[c]
  /\ app[c] = "again" /\ c \notin classUsers => toClient[c] = <<>>
  /\ joined[c] => Writable(c) /\ c \in classUsers
  /\ app[c] \in {"cut", "gone"} \/ (app[c] = "on" /\ c \in classUsers)
       => ~Has(toServer[c], OfType("Login"))

(* One process of a user runs at a time. *)
Alone == \A c, d \in Clients : Runs(c) /\ Runs(d) /\ UserId[c] = UserId[d] => c = d

Sessions == Alone /\ \A c \in Clients : Session(c)

(* A queue of one command. *)
LEMMA OneCommand ==
  \A m : /\ Tail(<<m>>) = <<>> /\ Head(<<m>>) = m /\ Append(<<>>, m) = <<m>>
  OBVIOUS

(* A login comes from a process that runs: from a fresh one it is the only *)
(* thing it has sent.                                                      *)
LEMMA LoginFirst ==
  ASSUME Typed, Sessions, NEW c \in Clients, HandleLogin(c)
  PROVE  /\ \/ app[c] = "again"
            \/ /\ app[c] = "on" /\ c \notin classUsers /\ toClient[c] = <<>>
               /\ DOMAIN hades[c] = {} /\ toServer'[c] = <<>>
         /\ \A d \in Clients \ {c} : toServer'[d] = toServer[d]
<1>1. /\ toServer[c] \in Seq(Command) /\ toServer[c] # <<>>
      /\ Head(toServer[c]) \in OfType("Login")
      /\ toServer'[c] = Tail(toServer[c])
      /\ \A d \in Clients \ {c} : toServer'[d] = toServer[d]
  BY HandlesHead DEF HandleLogin, OfType
<1>2. Has(toServer[c], OfType("Login"))  BY <1>1, HasTail
<1>3. Session(c) /\ app[c] \in {"off", "on", "cut", "again", "gone"}  BY DEF Sessions, Typed
<1>4. app[c] = "again" \/ (app[c] = "on" /\ c \notin classUsers)
  BY <1>1, <1>2, <1>3 DEF Session
<1> QED BY <1>1, <1>3, <1>4, OneCommand DEF Session

(* What a login leaves in the queues: the reply at its process, a note at  *)
(* every other process in class that runs.                                 *)
LEMMA LoginWrites ==
  ASSUME Typed, Sessions, NEW c \in Clients, HandleLogin(c), NEW d \in Clients
  PROVE  toClient'[d] =
           IF d = c THEN Append(toClient[c], Note("Reply", c))
           ELSE IF d \in classUsers /\ Writable(d)
                THEN Append(toClient[d], Note("Peer", c)) ELSE toClient[d]
<1> DEFINE q == Write(toClient, {c}, Note("Reply", c))
<1>1. toClient' = Write(q, classUsers \ {c}, Note("Peer", c))
  BY DEF HandleLogin
<1>2. q[d] = IF d \in {c} /\ Writable(d)
             THEN Append(toClient[d], Note("Reply", c)) ELSE toClient[d]
  BY DEF Write
<1> HIDE DEF q
<1>3. toClient'[d] = IF d \in classUsers \ {c} /\ Writable(d)
                     THEN Append(q[d], Note("Peer", c)) ELSE q[d]
  BY <1>1 DEF Write
<1>4. Writable(c)  BY LoginFirst DEF Writable
<1> QED BY <1>2, <1>3, <1>4

(* A relayed signal goes to processes in class that run, and leaves the    *)
(* sender's queue.                                                         *)
LEMMA SignalWrites ==
  ASSUME Typed, NEW c \in Clients, HandleHadesData(c), NEW d \in Clients
  PROVE  /\ Head(toServer[c]) \in Command /\ Head(toServer[c]).type \in Signals
         /\ toClient'[d] = toClient[d] \/ /\ d \in classUsers /\ Writable(d)
                                          /\ toClient'[d] = Append(toClient[d], Head(toServer[c]))
         /\ toServer'[d] = IF d = c THEN Tail(toServer[d]) ELSE toServer[d]
<1> DEFINE S == {e \in classUsers : UserId[e] = Head(toServer[c]).to}
<1>1. toClient' = Write(toClient, S, Head(toServer[c]))
  BY DEF HandleHadesData
<1>2. toClient'[d] = IF d \in S /\ Writable(d)
                     THEN Append(toClient[d], Head(toServer[c])) ELSE toClient[d]
  BY <1>1 DEF Write
<1>3. Handles(c, Signals)  BY DEF HandleHadesData
<1> QED BY <1>2, <1>3, HandlesHead

(* A session goes on as it is when a process only receives, sends signals, *)
(* or is not touched.                                                      *)
LEMMA SessionKept ==
  ASSUME Typed, NEW d \in Clients, Session(d), UNCHANGED <<app[d], joined[d]>>,
         (d \in classUsers') = (d \in classUsers),
         app[d] = "off" \/ (app[d] = "on" /\ d \notin classUsers)
           => UNCHANGED <<toServer[d], toClient[d], hades[d]>>,
         d \notin classUsers => UNCHANGED toClient[d],
         Has(toServer'[d], OfType("Login")) => Has(toServer[d], OfType("Login"))
  PROVE  Session(d)'
  BY DEF Session, Writable, OfType, Note, Typed

(* Every step keeps the sessions. *)
LEMMA SessionsNext ==
  ASSUME Typed, Sessions, NEW c \in Clients,
         \/ HandleLogin(c) \/ HandleHadesData(c) \/ OnClose(c)
         \/ OnBoardLogin(c) \/ OnPeerLogin(c) \/ OnHadesData(c)
         \/ \E u \in Users : OnSdp(c, u) \/ OnCandidateSdp(c, u)
         \/ Start(c) \/ Leave(c) \/ LinkFails(c)
         \/ \E d \in Clients : ShowNetworkRetry(c, d)
  PROVE  Sessions'
<1>1. \A d \in Clients : Session(d) /\ app[d] \in {"off", "on", "cut", "again", "gone"}
  BY DEF Sessions, Typed
<1>2. ASSUME UNCHANGED app PROVE Alone'
  BY <1>2 DEF Sessions, Alone, Runs
<1>3. CASE HandleLogin(c)
  <2> SUFFICES ASSUME NEW d \in Clients PROVE Session(d)'
    BY <1>2, <1>3 DEF Sessions, HandleLogin
  <2>1. /\ app[c] = "again" \/ (app[c] = "on" /\ toServer'[c] = <<>>)
        /\ d # c => toServer'[d] = toServer[d]
    BY <1>3, LoginFirst
  <2>2. UNCHANGED <<app, joined, hades>> /\ classUsers' = classUsers \cup {c}
    BY <1>3 DEF HandleLogin
  <2>3. CASE d = c
    BY <1>1, <2>1, <2>2, <2>3, EmptyQueue DEF Session, OfType, Writable
  <2>4. CASE d # c
    <3>1. d \notin classUsers => toClient'[d] = toClient[d]
      BY <1>3, <2>4, LoginWrites
    <3>2. app[d] = "off" => d \notin classUsers  BY <1>1 DEF Session
    <3> QED BY <1>1, <2>1, <2>2, <2>4, <3>1, <3>2, SessionKept
  <2> QED BY <2>3, <2>4
<1>4. CASE HandleHadesData(c)
  <2> SUFFICES ASSUME NEW d \in Clients PROVE Session(d)'
    BY <1>2, <1>4 DEF Sessions, HandleHadesData
  <2>1. UNCHANGED <<app, joined, classUsers, hades>> /\ Handles(c, Signals)
    BY <1>4 DEF HandleHadesData
  <2>2. /\ d \notin classUsers => toClient'[d] = toClient[d]
        /\ toServer'[d] = IF d = c THEN Tail(toServer[d]) ELSE toServer[d]
        /\ toServer[d] \in Seq(Command)
        /\ toServer[c] # <<>> /\ Head(toServer[c]).type \in Signals
    BY <1>4, <2>1, SignalWrites, HandlesHead DEF Typed
  <2>3. Has(toServer'[d], OfType("Login")) => Has(toServer[d], OfType("Login"))
    BY <2>2, HasTail
  <2>4. d = c => ~(app[d] = "off" \/ (app[d] = "on" /\ d \notin classUsers))
    <3>1. Head(<<Note("Login", c)>>).type \notin Signals
      BY OneCommand DEF Note, Signals
    <3> QED BY <1>1, <2>2, <3>1 DEF Session
  <2>5. app[d] = "off" => d \notin classUsers  BY <1>1 DEF Session
  <2> QED BY <1>1, <2>1, <2>2, <2>3, <2>4, <2>5, SessionKept
<1>5. CASE OnClose(c)
  <2> SUFFICES ASSUME NEW d \in Clients PROVE Session(d)'
    BY <1>2, <1>5 DEF Sessions, OnClose
  <2>1. /\ app[c] \in {"cut", "gone"} /\ UNCHANGED <<app, joined, hades, toClient>>
        /\ classUsers' = classUsers \ {c}
        /\ toServer'[d] = IF d = c THEN <<>> ELSE toServer[d]
    BY <1>5 DEF OnClose, Typed
  <2>2. CASE d = c
    BY <1>1, <2>1, <2>2, EmptyQueue DEF Session, OfType, Writable
  <2>3. CASE d # c
    BY <1>1, <2>1, <2>3, SessionKept
  <2> QED BY <2>2, <2>3
<1>6. CASE OnBoardLogin(c)
  <2> SUFFICES ASSUME NEW d \in Clients PROVE Session(d)'
    BY <1>2, <1>6 DEF Sessions, OnBoardLogin
  <2>1. /\ Writable(c) /\ toClient[c] # <<>> /\ UNCHANGED <<app, classUsers, hades, toServer>>
        /\ d # c => UNCHANGED <<toClient[d], joined[d]>>
    BY <1>6, ReceivesHead DEF OnBoardLogin, Typed
  <2>2. c \in classUsers  BY <1>1, <2>1 DEF Session, Writable
  <2>3. CASE d = c  BY <1>1, <2>1, <2>2, <2>3 DEF Session, OfType, Writable
  <2>4. CASE d # c  BY <1>1, <2>1, <2>4, SessionKept
  <2> QED BY <2>3, <2>4
<1>7. CASE OnPeerLogin(c) \/ OnHadesData(c)
  <2> SUFFICES ASSUME NEW d \in Clients PROVE Session(d)'
    BY <1>2, <1>7 DEF Sessions, OnPeerLogin, OnHadesData
  <2>1. /\ UNCHANGED <<app, joined, classUsers, toServer>>
        /\ \E T : Receives(c, T)
    BY <1>7 DEF OnPeerLogin, OnHadesData
  <2>2. /\ Writable(c) /\ toClient[c] # <<>>
        /\ d # c => UNCHANGED <<toClient[d], hades[d]>>
    BY <1>7, <2>1, ReceivesHead, HearsPeer
  <2>3. c \in classUsers  BY <1>1, <2>2 DEF Session, Writable
  <2>4. app[c] # "off"  BY <2>2 DEF Writable
  <2> QED BY <1>1, <2>1, <2>2, <2>3, <2>4, SessionKept
<1>8. ASSUME NEW u \in Users, OnSdp(c, u) \/ OnCandidateSdp(c, u) PROVE Sessions'
  <2>1. /\ UNCHANGED <<app, joined, classUsers, toClient>>
        /\ u \in DOMAIN hades[c]
        /\ \A d \in Clients \ {c} : hades'[d] = hades[d]
        /\ UNCHANGED toServer \/ \E t \in Signals : Sends(c, t, u)
    BY <1>8, EmitsSignal
  <2> SUFFICES ASSUME NEW d \in Clients PROVE Session(d)'
    BY <1>2, <2>1 DEF Sessions
  <2>2. ~(app[c] = "off" \/ (app[c] = "on" /\ c \notin classUsers))
    BY <1>1, <2>1 DEF Session
  <2>3. CASE UNCHANGED toServer
    BY <1>1, <2>1, <2>2, <2>3, SessionKept
  <2>4. ASSUME NEW t \in Signals, Sends(c, t, u) PROVE Session(d)'
    <3> DEFINE m == [type |-> t, from |-> UserId[c], to |-> u]
    <3>1. /\ m \in Command
          /\ toServer'[d] = IF d = c THEN Append(toServer[d], m) ELSE toServer[d]
      BY <2>4, SendsLast
    <3>2. m \notin OfType("Login")  BY DEF OfType, Signals
    <3> HIDE DEF m
    <3>3. Has(Append(toServer[d], m), OfType("Login")) => Has(toServer[d], OfType("Login"))
      BY <3>1, <3>2, HasAppend DEF Typed
    <3> QED BY <1>1, <2>1, <2>2, <3>1, <3>3, SessionKept
  <2> QED BY <2>1, <2>3, <2>4
<1>9. CASE Start(c)
  <2>1. /\ app[c] = "off" /\ app' = [app EXCEPT ![c] = "on"]
        /\ \A d \in Clients \ {c} : UserId[d] = UserId[c] => app[d] \in {"off", "gone"}
        /\ UNCHANGED <<joined, classUsers, hades, toClient>>
    BY <1>9 DEF Start
  <2>2. Alone'  BY <2>1 DEF Sessions, Alone, Runs, Typed
  <2> SUFFICES ASSUME NEW d \in Clients PROVE Session(d)'
    BY <2>2 DEF Sessions
  <2>3. /\ toServer'[c] = Append(toServer[c], Note("Login", c))
        /\ d # c => toServer'[d] = toServer[d]
    BY <1>9, SendsLast, VoiceAssumption DEF Start, Note
  <2>4. toServer'[c] = <<Note("Login", c)>>  BY <1>1, <2>1, <2>3, OneCommand DEF Session
  <2>5. CASE d = c
    BY <1>1, <2>1, <2>4, <2>5 DEF Session, Note, Typed
  <2>6. CASE d # c
    <3>1. app'[d] = app[d]  BY <2>1, <2>6 DEF Typed
    <3> QED BY <1>1, <2>1, <2>3, <2>6, <3>1, SessionKept
  <2> QED BY <2>5, <2>6
<1>10. CASE Leave(c) \/ LinkFails(c)
  <2>1. /\ UNCHANGED <<classUsers, toServer>> /\ app'[c] \in {"cut", "gone"}
        /\ \A d \in Clients \ {c} : UNCHANGED <<app[d], joined[d], hades[d], toClient[d]>>
        /\ Runs(c) /\ ~joined'[c] /\ ~Has(toServer[c], OfType("Login"))
    <3>1. /\ UNCHANGED <<classUsers, toServer>> /\ app'[c] \in {"cut", "gone"}
          /\ \A d \in Clients \ {c} : UNCHANGED <<app[d], joined[d], hades[d], toClient[d]>>
      BY <1>10 DEF Leave, LinkFails, Ends, Typed
    <3>2. CASE Ends(c)
      <4>1. ~joined'[c] /\ Runs(c)  BY <3>2, EndsClean DEF Typed, Runs, Writable
      <4>2. ~Has(toServer[c], OfType("Login"))  BY <3>2, EndsClean DEF Has, OfType
      <4> QED BY <3>1, <4>1, <4>2
    <3>3. CASE app[c] = "cut" /\ UNCHANGED <<joined, classUsers, toServer, toClient>>
      BY <1>1, <3>1, <3>3 DEF Session, Writable, Runs
    <3>4. Ends(c) \/ (app[c] = "cut" /\ UNCHANGED <<joined, classUsers, toServer, toClient>>)
      BY <1>10 DEF Leave, LinkFails
    <3> QED BY <3>1, <3>2, <3>3, <3>4
  <2>2. Alone'  BY <2>1 DEF Sessions, Alone, Runs
  <2> SUFFICES ASSUME NEW d \in Clients PROVE Session(d)'
    BY <2>2 DEF Sessions
  <2>3. CASE d = c  BY <2>1, <2>3 DEF Session, OfType
  <2>4. CASE d # c  BY <1>1, <2>1, <2>4, SessionKept
  <2> QED BY <2>3, <2>4
<1>11. ASSUME NEW e \in Clients, ShowNetworkRetry(c, e) PROVE Sessions'
  <2>1. /\ app[c] = "cut" /\ app[e] = "off" /\ UserId[e] = UserId[c]
        /\ app'[c] = "gone" /\ app'[e] = "again"
        /\ UNCHANGED <<joined, classUsers, toClient>>
        /\ \A d \in Clients \ {c, e} : UNCHANGED <<app[d], hades[d], toServer[d]>>
        /\ toServer'[c] = toServer[c]
    BY <1>11 DEF ShowNetworkRetry, Typed
  <2>2. Alone'  BY <2>1 DEF Sessions, Alone, Runs
  <2> SUFFICES ASSUME NEW d \in Clients PROVE Session(d)'
    BY <2>2 DEF Sessions
  <2>3. CASE d = c
    BY <1>1, <2>1, <2>3 DEF Session, OfType, Writable
  <2>4. CASE d = e
    BY <1>1, <2>1, <2>4 DEF Session, OfType, Writable
  <2>5. CASE d # c /\ d # e
    BY <1>1, <2>1, <2>5, SessionKept
  <2> QED BY <2>3, <2>4, <2>5
<1> QED BY <1>3, <1>4, <1>5, <1>6, <1>7, <1>8, <1>9, <1>10, <1>11

(* The sessions hold always. *)
LEMMA SessionsInvariant == Spec => []Sessions
<1>1. Init => Sessions
  <2> SUFFICES ASSUME Init PROVE Sessions
    OBVIOUS
  <2>1. Alone  BY DEF Init, Alone, Runs
  <2>2. ASSUME NEW c \in Clients PROVE Session(c)
    <3>1. /\ app[c] = "off" /\ toServer[c] = <<>> /\ toClient[c] = <<>>
          /\ hades[c] = <<>> /\ ~joined[c] /\ c \notin classUsers
      BY DEF Init
    <3> QED BY <3>1, HadesMade DEF Session
  <2> QED BY <2>1, <2>2 DEF Sessions
<1>2. Typed /\ Sessions /\ [Next]_vars => Sessions'
  <2> SUFFICES ASSUME Typed, Sessions, [Next]_vars PROVE Sessions'
    OBVIOUS
  <2>1. CASE UNCHANGED vars
    BY <2>1 DEF Sessions, Alone, Runs, Session, Writable, OfType, Note, vars
  <2>2. CASE Next  BY <2>2, SessionsNext DEF Next
  <2> QED BY <2>1, <2>2
<1> QED BY <1>1, <1>2, TypedInvariant, PTL DEF Spec

-----------------------------------------------------------------------------
(* Callers: of two members of the class, the one that was there first has  *)
(* called the other, or has the note of its login on the way.  The other   *)
(* may call it too if one of them has retried.                             *)

Peers(u) == {m \in OfType("Peer") : m.from = u}
Calling(c, u) == u \in DOMAIN hades[c] /\ hades[c][u].caller
Bound(c, u) == Has(toClient[c], Peers(u)) \/ Calling(c, u)
Member(c) == Writable(c) /\ c \in classUsers
Again(c, d) == "again" \in {app[c], app[d]}

Callers == \A c, d \in Clients :
  Member(c) /\ Member(d) /\ UserId[c] # UserId[d] =>
    /\ Bound(c, UserId[d]) \/ Bound(d, UserId[c])
    /\ Bound(c, UserId[d]) /\ Bound(d, UserId[c]) => Again(c, d)

(* A member that was one before, and is bound to call the same users. *)
Same(d) ==
  Member(d) /\ app'[d] = app[d] /\ \A u \in Users : Bound(d, u)' <=> Bound(d, u)

(* Nothing but a login makes a member, and nothing but a login changes     *)
(* whom a member calls or is going to call: the Hades of a caller is made  *)
(* when the note of the login leaves the queue.                            *)
LEMMA BoundKept ==
  ASSUME Typed, Sessions, NEW c \in Clients,
         \/ HandleHadesData(c) \/ OnClose(c)
         \/ OnBoardLogin(c) \/ OnPeerLogin(c) \/ OnHadesData(c)
         \/ \E u \in Users : OnSdp(c, u) \/ OnCandidateSdp(c, u)
         \/ Start(c) \/ Leave(c) \/ LinkFails(c)
         \/ \E e \in Clients : ShowNetworkRetry(c, e),
         NEW d \in Clients, Member(d)'
  PROVE  Same(d)
<1>1. Session(d) /\ toClient[d] \in Seq(Command)  BY DEF Sessions, Typed
<1>2. ASSUME UNCHANGED <<app[d], toClient[d], hades[d]>>,
             d \in classUsers' => d \in classUsers
      PROVE  Same(d)
  BY <1>2 DEF Same, Member, Writable, Bound, Calling, Peers, OfType
<1>3. CASE HandleHadesData(c)
  <2> DEFINE m == Head(toServer[c])
  <2>1. /\ m \in Command /\ m.type \in Signals
        /\ toClient'[d] = toClient[d] \/ toClient'[d] = Append(toClient[d], m)
    BY <1>3, SignalWrites
  <2>2. ASSUME NEW u \in Users
        PROVE  Has(toClient'[d], Peers(u)) <=> Has(toClient[d], Peers(u))
    <3>1. m \notin Peers(u)  BY <2>1 DEF Peers, OfType, Signals
    <3>2. Has(Append(toClient[d], m), Peers(u)) <=> Has(toClient[d], Peers(u))
      BY <1>1, <2>1, <3>1, HasAppend
    <3> QED BY <2>1, <3>2
  <2>3. UNCHANGED <<app, classUsers, hades>>  BY <1>3 DEF HandleHadesData
  <2> QED BY <2>2, <2>3 DEF Same, Member, Writable, Bound, Calling, Peers, OfType
<1>4. CASE OnClose(c)  BY <1>2, <1>4 DEF OnClose
<1>5. CASE OnBoardLogin(c)
  <2>1. /\ UNCHANGED <<app, classUsers, hades>> /\ toClient[c] # <<>>
        /\ Head(toClient[c]).type \in {"Reply"}
        /\ toClient'[d] = IF d = c THEN Tail(toClient[d]) ELSE toClient[d]
    BY <1>5, ReceivesHead DEF OnBoardLogin
  <2>2. ASSUME NEW u \in Users
        PROVE  Has(toClient'[d], Peers(u)) <=> Has(toClient[d], Peers(u))
    <3>1. Head(toClient[c]) \notin Peers(u)  BY <2>1 DEF Peers, OfType
    <3> QED BY <1>1, <2>1, <3>1, HasTail
  <2> QED BY <2>1, <2>2 DEF Same, Member, Writable, Bound, Calling, Peers, OfType
<1>6. CASE OnPeerLogin(c) \/ OnHadesData(c)
  <2>1. UNCHANGED <<app, classUsers>> /\ \E T : Receives(c, T)
    BY <1>6 DEF OnPeerLogin, OnHadesData
  <2>2. CASE d # c
    BY <1>2, <1>6, <2>1, <2>2, ReceivesHead, HearsPeer
  <2>3. CASE d = c
    <3> DEFINE m == Head(toClient[c])
    <3>1. /\ toClient[c] # <<>> /\ m \in Command /\ m.from \in Users
          /\ toClient'[c] = Tail(toClient[c])
      BY <2>1, ReceivesHead
    <3>2. ASSUME NEW u
          PROVE  Has(toClient[c], Peers(u))
                   <=> m \in Peers(u) \/ Has(Tail(toClient[c]), Peers(u))
      BY <1>1, <2>3, <3>1, HasTail
    <3>3. \A u : m \in Peers(u) <=> OnPeerLogin(c) /\ u = m.from
      <4>1. CASE OnPeerLogin(c)
        BY <3>1, <4>1 DEF OnPeerLogin, Receives, Peers, OfType
      <4>2. CASE OnHadesData(c)
        BY <4>2 DEF OnPeerLogin, OnHadesData, Receives, Peers, OfType, Signals
      <4> QED BY <1>6, <4>1, <4>2
    <3>4. /\ DOMAIN hades'[c] = DOMAIN hades[c] \cup {m.from}
          /\ \A v \in DOMAIN hades[c] \ {m.from} : hades'[c][v] = hades[c][v]
          /\ OnPeerLogin(c) => hades'[c][m.from].caller
          /\ OnHadesData(c) => (hades'[c][m.from].caller <=> Calling(c, m.from))
      BY <1>6, HearsPeer DEF Calling
    <3>5. ASSUME NEW u \in Users, u # m.from PROVE Bound(c, u)' <=> Bound(c, u)
      <4>1. Calling(c, u)' <=> Calling(c, u)  BY <3>4, <3>5 DEF Calling
      <4>2. Has(toClient'[c], Peers(u)) <=> Has(toClient[c], Peers(u))
        BY <3>1, <3>2, <3>3, <3>5
      <4> QED BY <4>1, <4>2 DEF Bound, Peers, OfType
    <3>6. ASSUME NEW u \in Users, u = m.from PROVE Bound(c, u)' <=> Bound(c, u)
      <4>1. Calling(c, u)' <=> hades'[c][u].caller
        BY <3>4, <3>6 DEF Calling
      <4>2. CASE OnPeerLogin(c)
        <5>1. Has(toClient[c], Peers(u))  BY <3>2, <3>3, <3>6, <4>2
        <5>2. Calling(c, u)'  BY <3>4, <3>6, <4>1, <4>2
        <5> QED BY <5>1, <5>2 DEF Bound, Peers, OfType
      <4>3. CASE ~OnPeerLogin(c)
        <5>1. Calling(c, u)' <=> Calling(c, u)
          BY <1>6, <3>4, <3>6, <4>1, <4>3
        <5>2. Has(toClient'[c], Peers(u)) <=> Has(toClient[c], Peers(u))
          BY <3>1, <3>2, <3>3, <4>3
        <5> QED BY <5>1, <5>2 DEF Bound, Peers, OfType
      <4> QED BY <4>2, <4>3
    <3>7. Member(c)  BY <2>1, <2>3 DEF Member, Writable
    <3> QED BY <2>1, <2>3, <3>5, <3>6, <3>7 DEF Same
  <2> QED BY <2>2, <2>3
<1>7. ASSUME NEW u \in Users, OnSdp(c, u) \/ OnCandidateSdp(c, u)
      PROVE  Same(d)
  <2>1. /\ UNCHANGED <<app, classUsers, toClient>>
        /\ DOMAIN hades'[d] = DOMAIN hades[d]
        /\ \A v \in DOMAIN hades[d] : hades'[d][v].caller = hades[d][v].caller
    BY <1>7, EmitsSignal
  <2>2. \A v : Calling(d, v)' <=> Calling(d, v)  BY <2>1 DEF Calling
  <2> QED BY <2>1, <2>2 DEF Same, Member, Writable, Bound, Peers, OfType
<1>8. CASE Start(c)
  <2>1. /\ app[c] = "off" /\ UNCHANGED <<classUsers, hades, toClient>>
        /\ d # c => app'[d] = app[d]
    BY <1>8 DEF Start, Typed
  <2>2. d # c  BY <1>1, <2>1 DEF Session, Member
  <2> QED BY <1>2, <2>1, <2>2
<1>9. CASE Leave(c) \/ LinkFails(c)
  <2>1. /\ UNCHANGED classUsers /\ app'[c] \in {"cut", "gone"}
        /\ d # c => UNCHANGED <<app[d], hades[d], toClient[d]>>
    BY <1>9 DEF Leave, LinkFails, Ends, Typed
  <2>2. d # c  BY <2>1 DEF Member, Writable
  <2> QED BY <1>2, <2>1, <2>2
<1>10. ASSUME NEW e \in Clients, ShowNetworkRetry(c, e) PROVE Same(d)
  <2>1. /\ app[e] = "off" /\ app'[c] = "gone" /\ UNCHANGED <<classUsers, toClient>>
        /\ d # c /\ d # e => UNCHANGED <<app[d], hades[d]>>
    BY <1>10 DEF ShowNetworkRetry, Typed
  <2>2. d # c  BY <2>1 DEF Member, Writable
  <2>3. d # e
    <3>1. e \notin classUsers  BY <2>1 DEF Sessions, Session
    <3> QED BY <2>1, <3>1 DEF Member
  <2> QED BY <1>2, <2>1, <2>2, <2>3
<1> QED BY <1>3, <1>4, <1>5, <1>6, <1>7, <1>8, <1>9, <1>10

(* A login: every other member is bound to call its process, for no other  *)
(* process of that user runs; a fresh process calls nobody.                *)
LEMMA CallersLogin ==
  ASSUME Typed, Sessions, Callers, NEW c \in Clients, HandleLogin(c)
  PROVE  Callers'
<1>1. UNCHANGED <<app, hades>> /\ classUsers' = classUsers \cup {c}
  BY DEF HandleLogin
<1>2. /\ Note("Reply", c) \in Command /\ Note("Reply", c).type = "Reply"
      /\ Note("Peer", c) \in Command /\ Note("Peer", c).type = "Peer"
      /\ Note("Peer", c).from = UserId[c]
  BY Commands DEF Note
<1>3. app[c] = "again" \/ \A u : ~Bound(c, u)'
  <2>1. SUFFICES ASSUME app[c] # "again" PROVE \A u : ~Bound(c, u)'
    OBVIOUS
  <2>2. toClient'[c] = <<Note("Reply", c)>> /\ DOMAIN hades[c] = {}
    BY <2>1, LoginFirst, LoginWrites, OneCommand
  <2>3. \A u : Note("Reply", c) \notin Peers(u)  BY <1>2 DEF Peers, OfType
  <2>4. \A u : ~Has(toClient'[c], Peers(u))  BY <2>2, <2>3, HasSingle
  <2> QED BY <1>1, <2>2, <2>4 DEF Bound, Calling, Peers, OfType
<1>4. ASSUME NEW d \in Clients, d # c, Member(d)'
      PROVE  /\ Member(d)
             /\ UserId[d] # UserId[c]
             /\ Bound(d, UserId[c])'
             /\ \A u : u # UserId[c] => (Bound(d, u)' <=> Bound(d, u))
  <2>1. Member(d)  BY <1>1, <1>4 DEF Member, Writable
  <2>2. UserId[d] # UserId[c]
    <3>1. Runs(c) /\ Runs(d)  BY <2>1, LoginFirst DEF Member, Writable, Runs
    <3> QED BY <1>4, <3>1 DEF Sessions, Alone
  <2>3. toClient'[d] = Append(toClient[d], Note("Peer", c))
    BY <1>4, <2>1, LoginWrites DEF Member
  <2>4. ASSUME NEW u
        PROVE  Has(toClient'[d], Peers(u))
                 <=> Has(toClient[d], Peers(u)) \/ u = UserId[c]
    <3>1. Note("Peer", c) \in Peers(u) <=> u = UserId[c]
      BY <1>2 DEF Peers, OfType
    <3>2. toClient[d] \in Seq(Command)  BY DEF Typed
    <3> QED BY <1>2, <2>3, <3>1, <3>2, HasAppend
  <2> QED BY <1>1, <2>1, <2>2, <2>4 DEF Bound, Calling, Peers, OfType
<1> SUFFICES ASSUME NEW a \in Clients, NEW b \in Clients,
                    Member(a)', Member(b)', UserId[a] # UserId[b]
             PROVE  /\ Bound(a, UserId[b])' \/ Bound(b, UserId[a])'
                    /\ Bound(a, UserId[b])' /\ Bound(b, UserId[a])' => Again(a, b)
  BY <1>1 DEF Callers, Again
<1>5. CASE a = c \/ b = c
  BY <1>3, <1>4, <1>5 DEF Again
<1>6. CASE a # c /\ b # c
  BY <1>4, <1>6 DEF Callers
<1> QED BY <1>5, <1>6

(* However many processes the users of a class run one after the other,    *)
(* and however their logins, calls, departures and retries cross on the    *)
(* way, once all is handled LiveWidget::GetHades has made at least one of  *)
(* any two members the caller, and both only if one has retried:           *)
(* OneCaller.                                                              *)
THEOREM OneCallerHolds == Spec => []OneCaller
<1> USE VoiceAssumption
<1>1. Init => Callers  BY DEF Init, Callers, Member
<1>2. Typed /\ Sessions /\ Callers /\ [Next]_vars => Callers'
  <2> SUFFICES ASSUME Typed, Sessions, Callers, [Next]_vars PROVE Callers'
    OBVIOUS
  <2>1. CASE UNCHANGED vars
    BY <2>1 DEF Callers, Again, Member, Writable, Bound, Calling, Peers, OfType, vars
  <2>2. ASSUME NEW c \in Clients,
               \/ HandleHadesData(c) \/ OnClose(c)
               \/ OnBoardLogin(c) \/ OnPeerLogin(c) \/ OnHadesData(c)
               \/ \E u \in Users : OnSdp(c, u) \/ OnCandidateSdp(c, u)
               \/ Start(c) \/ Leave(c) \/ LinkFails(c)
               \/ \E d \in Clients : ShowNetworkRetry(c, d)
        PROVE  Callers'
    <3>1. \A d \in Clients : Member(d)' => Same(d)
      BY <2>2, BoundKept
    <3> QED BY <3>1 DEF Callers, Same, Again
  <2> QED BY <2>1, <2>2, CallersLogin DEF Next
<1>3. Sessions /\ Callers => OneCaller
  <2> SUFFICES ASSUME Sessions, Callers, Settled, NEW c \in Clients, NEW d \in Clients,
                      Mates(c, d)
               PROVE  (Calls(c, d) <=> ~Calls(d, c)) \/ BothCall(c, d)
    BY DEF OneCaller
  <2>1. Member(c) /\ Member(d) /\ UserId[c] # UserId[d]
    BY DEF Mates, Sessions, Session, Member
  <2>2. toClient[c] = <<>> /\ toClient[d] = <<>>  BY DEF Settled
  <2>3. /\ Bound(c, UserId[d]) <=> Calls(c, d)
        /\ Bound(d, UserId[c]) <=> Calls(d, c)
    BY <2>2, EmptyQueue DEF Bound, Calling, Calls
  <2> QED BY <2>1, <2>3 DEF Callers, Again, BothCall
<1> QED BY <1>1, <1>2, <1>3, TypedInvariant, SessionsInvariant, PTL DEF Spec
=============================================================================
