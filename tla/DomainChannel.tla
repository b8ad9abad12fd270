--------------------------- MODULE DomainChannel ---------------------------
(***************************************************************************)
(* What the collector promises the user about the datagrams of one         *)
(* observation domain: those that are delivered are delivered once and in  *)
(* the order in which the socket received them.  Any of them may be lost   *)
(* on the way (a full queue, a worker that ended, a shutdown), and nothing *)
(* is promised about the order of two domains.                             *)
(***************************************************************************)
EXTENDS Naturals, Sequences

CONSTANTS Odids,        (* observation domain ids                           *)
          Ids           (* what tells datagrams apart, older ones smaller   *)

VARIABLES transit,      (* by domain: datagrams received, not delivered     *)
          delivered     (* by domain: datagrams the user has read, in order *)

vars == <<transit, delivered>>

Init ==
  /\ transit = [o \in Odids |-> {}]
  /\ delivered = [o \in Odids |-> <<>>]

(* Every datagram seen so far is older than id.                             *)
Newer(id, o) ==
  /\ \A other \in transit[o] : other < id
  /\ \A i \in 1..Len(delivered[o]) : delivered[o][i] < id

Receive(o, id) ==
  /\ Newer(id, o)
  /\ transit' = [transit EXCEPT ![o] = @ \cup {id}]
  /\ UNCHANGED delivered

(* The oldest one on its way is the only one that can be delivered.         *)
Deliver(o, id) ==
  /\ id \in transit[o] /\ \A other \in transit[o] : id <= other
  /\ transit' = [transit EXCEPT ![o] = @ \ {id}]
  /\ delivered' = [delivered EXCEPT ![o] = Append(@, id)]

Lose ==
  /\ transit' \in [Odids -> SUBSET Ids]
  /\ \A o \in Odids : transit'[o] \subseteq transit[o]
  /\ UNCHANGED delivered

Next ==
  \/ \E o \in Odids : \E id \in Ids : Receive(o, id) \/ Deliver(o, id)
  \/ Lose

Spec == Init /\ [][Next]_vars
=============================================================================
