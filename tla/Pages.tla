------------------------------- MODULE Pages -------------------------------
(***************************************************************************)
(* One page of the blackboard (Client/src/hera/BanBaseWidget): the         *)
(* elements drawn on it, the elements undone, and what a page says of      *)
(* itself when it is sent to the other clients.                            *)
(*                                                                         *)
(* An element has a uuid, which travels with it, and what can be changed   *)
(* of it (its line, colour, size or text), here its look.  A page may hold *)
(* two objects of one uuid: _allElements is a set of pointers, and         *)
(* FindElementByUuid returns the first of them in the order of their       *)
(* addresses, drawn or not.  Copies of a uuid are therefore numbered in    *)
(* the order of their making, and "found" remembers which of them has the  *)
(* lowest address.                                                         *)
(***************************************************************************)
EXTENDS Naturals, Sequences, SequencesExt, FiniteSets

CONSTANTS
  Uuids,     \* uuids of elements
  Looks,     \* what an element may look like
  MaxCopies  \* bound: objects of one uuid that one page may hold

Element == [id : Uuids, copy : 1..MaxCopies, look : Looks]

(* Pages as TLC meets them.  copies counts the objects of a uuid in        *)
(* _allElements; those neither drawn nor undone are out of reach except    *)
(* through FindElementByUuid.                                              *)
PageSet == [drawn : Seq(Element), undos : Seq(Element), copies : [Uuids -> 0..MaxCopies],
            found : [Uuids -> 0..MaxCopies], disabled : BOOLEAN]
SameObject(e, f) == e.id = f.id /\ e.copy = f.copy
NoneTwice(s) == \A i, j \in DOMAIN s : SameObject(s[i], s[j]) => i = j
IsPage(p) ==
  /\ p \in PageSet
  /\ \A u \in Uuids : p.found[u] <= p.copies[u] /\ (p.found[u] = 0 => p.copies[u] = 0)
  /\ NoneTwice(p.drawn) /\ NoneTwice(p.undos)
  /\ \A i \in DOMAIN p.drawn, j \in DOMAIN p.undos : ~SameObject(p.drawn[i], p.undos[j])

EmptyPage(disabled) ==
  [drawn |-> <<>>, undos |-> <<>>, copies |-> [u \in Uuids |-> 0],
   found |-> [u \in Uuids |-> 0], disabled |-> disabled]

(* What a page shows, from the bottom to the top. *)
Shown(p) == [i \in DOMAIN p.drawn |-> [id |-> p.drawn[i].id, look |-> p.drawn[i].look]]

IsCopy(e, u, n) == e.id = u /\ e.copy = n
(* The positions of the object FindElementByUuid returns, if it is drawn. *)
FoundAt(p, u) == {i \in DOMAIN p.drawn : IsCopy(p.drawn[i], u, p.found[u])}
Named(p, u) == {i \in DOMAIN p.drawn : p.drawn[i].id = u}
Lowest(S) == CHOOSE i \in S : \A j \in S : i <= j

-----------------------------------------------------------------------------
(* What the user of the page does.                                         *)

(* A new object enters _allElements: its address is anywhere among those   *)
(* of its uuid.                                                            *)
NewCopy(p, u) == p.copies[u] + 1
Addresses(p, u) == {[p.found EXCEPT ![u] = n] :
                      n \in {NewCopy(p, u)} \cup ({p.found[u]} \ {0})}
Insert(p, u, look) ==
  {[p EXCEPT !.drawn = Append(@, [id |-> u, copy |-> NewCopy(p, u), look |-> look]),
             !.copies[u] = @ + 1, !.found = f] : f \in Addresses(p, u)}

(* AddElement of something new: what was undone is forgotten. *)
AddElement(p, u, look) == {[q EXCEPT !.undos = <<>>] : q \in Insert(p, u, look)}

RemoveDrawn(p, i) ==
  [p EXCEPT !.drawn = RemoveAt(@, i), !.undos = Append(@, p.drawn[i])]
OnUndo(p) == RemoveDrawn(p, Len(p.drawn))
OnRedoKeeps(p) == [p EXCEPT !.drawn = Append(@, Last(p.undos))]
OnRedo(p) == [p EXCEPT !.drawn = Append(@, Last(p.undos)), !.undos = Front(@)]

TopMost(p, i) == [p EXCEPT !.drawn = Append(RemoveAt(@, i), p.drawn[i])]
BottomMost(p, i) == [p EXCEPT !.drawn = <<p.drawn[i]>> \o RemoveAt(@, i)]
SetLook(p, i, look) == [p EXCEPT !.drawn[i].look = look]

-----------------------------------------------------------------------------
(* What arrives from another client.                                       *)

PlayNetworkShow(p, u, look) == Insert(p, u, look)

PlayHide(p, u) ==
  IF FoundAt(p, u) = {} THEN p
  ELSE [p EXCEPT !.drawn = RemoveAt(@, Lowest(FoundAt(p, u)))]

PlayTopMost(p, u) == IF Named(p, u) = {} THEN p ELSE TopMost(p, Lowest(Named(p, u)))
PlayBottomMost(p, u) == IF Named(p, u) = {} THEN p ELSE BottomMost(p, Lowest(Named(p, u)))

(* SetLineWidth and its like change the object that is found, also one     *)
(* that is undone here; an object that is neither shows it nowhere.        *)
PlaySetLook(p, u, look) ==
  LET changed(s) == [i \in DOMAIN s |-> IF IsCopy(s[i], u, p.found[u])
                                        THEN [s[i] EXCEPT !.look = look] ELSE s[i]]
  IN [p EXCEPT !.drawn = changed(@), !.undos = changed(@)]

(* GetMsgPackData packs the drawn elements; SetMsgPackData deletes every   *)
(* element of the page it is called on and makes those again.              *)
Occurrences(content, u, i) == Cardinality({j \in 1..i : content[j].id = u})
Remade(content) ==
  [i \in DOMAIN content |-> [id |-> content[i].id, look |-> content[i].look,
                             copy |-> Occurrences(content, content[i].id, i)]]
SetMsgPackDataAdds(p, content) == {[p EXCEPT !.drawn = @ \o Remade(content)]}
SetMsgPackData(p, content) ==
  LET copies == [u \in Uuids |-> Occurrences(content, u, Len(content))]
  IN {[p EXCEPT !.drawn = Remade(content), !.undos = <<>>, !.copies = copies, !.found = f]
      : f \in {g \in [Uuids -> 0..MaxCopies] :
                 \A u \in Uuids : g[u] <= copies[u] /\ (g[u] = 0 => copies[u] = 0)}}
=============================================================================
