-------------------------- MODULE MonitoringProofs --------------------------
(***************************************************************************)
(* Proofs about the counters of one worker, for any number of odids,       *)
(* buckets, cells, updates, passes and failing mallocs, in every           *)
(* interleaving of the worker and the monitoring thread.                   *)
(*                                                                         *)
(* Until an update goes on during a removal, Core holds: a list only grows *)
(* while the other thread walks along it, at the end that its walk does    *)
(* not reach, because the monitoring thread looks for odids that have a    *)
(* cell.  It therefore never creates a cell, and every cell that is being  *)
(* built is the worker's.                                                  *)
(*                                                                         *)
(* The lists of the hash table are described without recursion: some       *)
(* ranking of the cells increases along the next pointers, and no cell of  *)
(* a bucket ranks strictly between a cell and its successor.               *)
(***************************************************************************)
EXTENDS Monitoring, FiniteSetTheorems, TLAPS

WorkerLabels == {"idle", "walk", "create", "init", "index", "load_length", "store_length",
                 "found", "store_count", "message_id"}

MonitorLabels == {"idle", "visit", "walk", "found", "summary", "clear", "mark", "remove",
                  "unlink", "compact", "shrink"}

Fields == {"received", "dropped", "reordered", "last"}

Counts == [Fields -> Nat]

Pointers == Buckets \cup Cells

Entries == [odid : Odids \cup {Garbage}, active : Nat]

TableTypes ==
  /\ next \in [Pointers -> Cells \cup {NULL, Garbage}]
  /\ owner \in [Cells -> Odids \cup {NULL, Garbage}]
  /\ count \in [Cells -> Counts]

IndexTypes ==
  /\ active_odids_length \in Nat /\ active_odids_max_length \in Nat
  /\ active_odids \in [0..active_odids_max_length-1 -> Entries]

CallTypes ==
  /\ pc \in [Threads -> WorkerLabels \cup MonitorLabels]
  /\ pc["worker"] \in WorkerLabels /\ pc["monitor"] \in MonitorLabels
  /\ odid \in [Threads -> Odids \cup {NULL}]
  /\ pc["worker"] # "idle" => odid["worker"] \in Odids
  /\ pc["monitor"] \notin {"idle", "visit"} => odid["monitor"] \in Odids
  /\ cur \in [Threads -> Pointers \cup {NULL}]
  /\ tmp \in [Threads -> Nat]
  /\ segment \in [type : {"received", "dropped"}, mid : Nat]

PassTypes == y \in Nat /\ n \in Nat /\ sum \in Counts

Types == TableTypes /\ IndexTypes /\ CallTypes /\ PassTypes /\ owed \in [Odids -> Int]

-----------------------------------------------------------------------------
(* The lists, as built by who (the odid of each cell, NULL when it is free) *)
(* and succ (the next pointers).                                            *)
Nodes(w) == Buckets \cup {c \in Cells : w[c] # NULL}

Home(w, l) == IF l \in Buckets THEN l ELSE hash_key[w[l]]

SameList(w, l, m) == l \in Nodes(w) /\ m \in Nodes(w) /\ Home(w, l) = Home(w, m)

Ranks == [Pointers -> Nat]

Ordered(rank, w, s) ==
  /\ \A b \in Buckets : rank[b] = 0
  /\ \A c \in Cells : w[c] # NULL => rank[c] > 0
  /\ \A l \in Nodes(w) : s[l] # NULL =>
       /\ s[l] \in Cells /\ SameList(w, l, s[l]) /\ rank[l] < rank[s[l]]
  /\ \A l, m \in Pointers : SameList(w, l, m) /\ rank[l] < rank[m] =>
       s[l] # NULL /\ rank[s[l]] <= rank[m]
  /\ \A l, m \in Pointers : SameList(w, l, m) /\ rank[l] = rank[m] => l = m

(* The walk along the list of odid o has reached l, and not met o.          *)
Passed(rank, w, l, o) ==
  /\ l \in Nodes(w) /\ Home(w, l) = hash_key[o]
  /\ \A c \in Cells : w[c] = o => rank[l] < rank[c]

(* A cell that is linked and not built is the worker's, and ends its list.  *)
who == [c \in Cells |-> IF owner[c] = Garbage THEN odid["worker"] ELSE owner[c]]

succ == [l \in Pointers |-> IF next[l] = Garbage THEN NULL ELSE next[l]]

Building ==
  /\ \A c \in Cells : owner[c] = Garbage => pc["worker"] = "init" /\ c = cur["worker"]
  /\ \A l \in Pointers : next[l] = Garbage => pc["worker"] = "init" /\ l = cur["worker"]
  /\ pc["worker"] = "init" =>
       /\ cur["worker"] \in Cells
       /\ owner[cur["worker"]] = Garbage /\ next[cur["worker"]] = Garbage

(* No odid has two cells.                                                   *)
OneCell == \A c, d \in Cells : who[c] = who[d] /\ who[c] # NULL => c = d

Walking(t) == pc[t] \in {"walk", "unlink"} /\ cur[t] # NULL

Chain ==
  \E rank \in Ranks :
    /\ Ordered(rank, who, succ)
    /\ \A t \in Threads : Walking(t) => Passed(rank, who, cur[t], odid[t])

Has(o) == \E c \in Cells : owner[c] = o

(* Where the threads are, and what their pointers point at.                 *)
WorkerStands ==
  /\ pc["worker"] = "walk" => cur["worker"] # NULL
  /\ pc["worker"] = "create" =>
       /\ cur["worker"] \in Nodes(owner)
       /\ Home(owner, cur["worker"]) = hash_key[odid["worker"]]
       /\ next[cur["worker"]] = NULL /\ ~Has(odid["worker"])
  /\ pc["worker"] \in {"index", "load_length", "store_length", "found", "store_count",
                       "message_id"} =>
       cur["worker"] \in Cells /\ owner[cur["worker"]] = odid["worker"]

MonitorStands ==
  /\ pc["monitor"] = "walk" => cur["monitor"] # NULL
  /\ pc["monitor"] \in {"walk", "remove"} => Has(odid["monitor"])
  /\ pc["monitor"] \in {"found", "summary", "clear"} =>
       cur["monitor"] \in Cells /\ owner[cur["monitor"]] = odid["monitor"]
  /\ pc["monitor"] = "unlink" /\ cur["monitor"] = NULL => ~Has(odid["monitor"])
  /\ pc["monitor"] = "compact" => ~Has(odid["monitor"])

Lists == Building /\ OneCell /\ Chain /\ WorkerStands /\ MonitorStands

-----------------------------------------------------------------------------
(* What the index lists: in the middle of a creation all but the new odid,  *)
(* in the middle of a removal perhaps the one that is leaving.              *)
Length == IF pc["monitor"] = "shrink" THEN active_odids_length - 1 ELSE active_odids_length

Listed(o) == \E i \in 0..Length-1 : active_odids[i].odid = o

Pending(o) ==
  /\ pc["worker"] \in {"init", "index", "load_length", "store_length"}
  /\ odid["worker"] = o

Leaving(o) == pc["monitor"] \in {"unlink", "compact"} /\ odid["monitor"] = o

Index ==
  /\ active_odids_length <= active_odids_max_length
  /\ \A i \in 0..active_odids_length-1 : active_odids[i].odid # Garbage
  /\ pc["monitor"] = "shrink" => active_odids_length > 0 /\ tmp["monitor"] = active_odids_length
  /\ \A i, j \in 0..Length-1 : active_odids[i].odid = active_odids[j].odid => i = j
  /\ \A o \in Odids : Pending(o) => ~Listed(o)
  /\ \A o \in Odids : ~Pending(o) /\ ~Leaving(o) => (Listed(o) <=> Has(o))
  /\ pc["worker"] \in {"load_length", "store_length"} =>
       /\ active_odids_length < active_odids_max_length
       /\ active_odids[active_odids_length].odid = odid["worker"]
  /\ pc["worker"] = "store_length" => tmp["worker"] = active_odids_length

(* The entries that the pass has before it, which may have left the index,  *)
(* are those of different odids that have a cell; none is the odid it is at *)
(* or one that the worker is about to index.                                *)
Ahead == (IF pc["monitor"] = "visit" THEN y ELSE y + 1)..n-1

Searching == pc["monitor"] \in {"walk", "found"}

AheadExact ==
  /\ \A i \in Ahead : active_odids[i].odid \in Odids /\ Has(active_odids[i].odid)
  /\ \A i, j \in Ahead : active_odids[i].odid = active_odids[j].odid => i = j
  /\ pc["worker"] = "index" => \A i \in Ahead : active_odids[i].odid # odid["worker"]
  /\ Searching \/ Removing => \A i \in Ahead : active_odids[i].odid # odid["monitor"]

(* The entry that the pass is at is of another odid only if the worker has  *)
(* just written it.                                                         *)
Pass ==
  pc["monitor"] # "idle" =>
    /\ n <= active_odids_max_length
    /\ pc["monitor"] # "visit" => y < n
    /\ AheadExact
    /\ Searching => active_odids[y].odid = odid["monitor"] \/ active_odids[y].active = 0
    /\ Searching /\ pc["worker"] = "index" => odid["monitor"] # odid["worker"]
    /\ pc["monitor"] = "remove" => active_odids[y].odid = odid["monitor"]

(* Every segment that was counted is in a summary or in a counter.          *)
Clashed == clashed \cup Clashes

Sums ==
  /\ \A c \in Cells : owner[c] \in Odids \ Clashed => owed[owner[c]] = Total(count[c])
  /\ \A o \in Odids \ Clashed : ~Has(o) => owed[o] = 0
  /\ pc["worker"] = "store_count" /\ odid["worker"] \notin Clashed =>
       tmp["worker"] = count[cur["worker"]][segment.type]
  /\ pc["monitor"] = "clear" /\ odid["monitor"] \notin Clashed =>
       Total(sum) = Total(count[cur["monitor"]])
  /\ pc["monitor"] \in {"remove", "unlink"} =>
       \A c \in Cells : owner[c] = odid["monitor"] => Total(count[c]) = 0

(* No update goes on during a removal.                                      *)
NoMeeting == Removing => pc["worker"] = "idle"

Core == ~undefined /\ NoMeeting /\ Types /\ Lists /\ Index /\ Pass /\ Sums

MonitoringInv ==
  /\ undefined => races # {} \/ IndexFull
  /\ ~undefined /\ "removal" \notin races \cup Races => Core
-----------------------------------------------------------------------------
Whos == [Cells -> Odids \cup {NULL}]

Succs == [Pointers -> Cells \cup {NULL}]

(* NULL is no odid, no bucket and no cell; buckets are no cells.            *)
LEMMA Names ==
  /\ NULL \notin Odids /\ NULL \notin Pointers /\ Garbage \notin Odids /\ NULL # Garbage
  /\ Garbage \notin Pointers
  /\ \A o \in Odids : hash_key[o] \in Buckets
  /\ \A b \in Buckets : b \in Pointers /\ b \notin Cells
  /\ \A c \in Cells : c \in Pointers /\ c \notin Buckets
BY MonitoringAssumption DEF Pointers

(* A walk starts before every cell of its list.                             *)
LEMMA WalkStarts ==
  ASSUME NEW rank \in Ranks, NEW w \in Whos, NEW s \in Succs, Ordered(rank, w, s), NEW o \in Odids
  PROVE  Passed(rank, w, hash_key[o], o)
BY Names DEF Ranks, Whos, Ordered, Passed, Nodes, Home

(* One step along a list: at its end the odid is not in the table, and the  *)
(* next cell is either its cell or is passed too.                           *)
LEMMA WalkGoesOn ==
  ASSUME NEW rank \in Ranks, NEW w \in Whos, NEW s \in Succs, Ordered(rank, w, s),
         NEW o \in Odids, NEW l \in Pointers, Passed(rank, w, l, o)
  PROVE  /\ s[l] = NULL => \A c \in Cells : w[c] # o
         /\ s[l] # NULL => s[l] \in Cells /\ w[s[l]] # NULL
         /\ s[l] # NULL /\ w[s[l]] # o => Passed(rank, w, s[l], o)
<1>1. l \in Nodes(w) /\ Home(w, l) = hash_key[o]
  BY DEF Passed
<1>2. \A c \in Cells : w[c] = o => SameList(w, l, c) /\ rank[l] < rank[c]
  BY <1>1, Names DEF Passed, SameList, Nodes, Home
<1>3. s[l] = NULL => \A c \in Cells : w[c] # o
  BY <1>2, Names DEF Ordered
<1>4. ASSUME s[l] # NULL
      PROVE  /\ s[l] \in Cells /\ w[s[l]] # NULL
             /\ w[s[l]] # o => Passed(rank, w, s[l], o)
  <2>1. s[l] \in Cells /\ SameList(w, l, s[l]) /\ rank[l] < rank[s[l]]
    BY <1>1, <1>4 DEF Ordered
  <2>2. w[s[l]] # NULL
    BY <2>1, Names DEF SameList, Nodes
  <2>3. Home(w, s[l]) = hash_key[o] /\ s[l] \in Nodes(w)
    BY <1>1, <2>1 DEF SameList
  <2>4. ASSUME NEW c \in Cells, w[c] = o, w[s[l]] # o PROVE rank[s[l]] < rank[c]
    <3>1. rank[s[l]] <= rank[c]
      BY <1>2, <2>4, Names DEF Ordered
    <3>2. SameList(w, s[l], c)
      BY <1>2, <2>1, <2>4 DEF SameList
    <3>3. rank[s[l]] # rank[c]
      BY <2>1, <2>4, <3>2, Names DEF Ordered
    <3> QED
      BY <2>1, <3>1, <3>3, Names DEF Ranks
  <2> QED
    BY <2>1, <2>2, <2>3, <2>4 DEF Passed
<1> QED
  BY <1>3, <1>4

(* A free cell is put at the end of a list.                                 *)
LEMMA ListGrows ==
  ASSUME NEW rank \in Ranks, NEW w \in Whos, NEW s \in Succs, Ordered(rank, w, s),
         NEW l \in Nodes(w), s[l] = NULL, NEW o \in Odids, Home(w, l) = hash_key[o],
         NEW a \in Cells, w[a] = NULL
  PROVE  Ordered([rank EXCEPT ![a] = rank[l] + 1], [w EXCEPT ![a] = o],
                 [s EXCEPT ![l] = a, ![a] = NULL])
<1> DEFINE r2 == [rank EXCEPT ![a] = rank[l] + 1]
           w2 == [w EXCEPT ![a] = o]
           s2 == [s EXCEPT ![l] = a, ![a] = NULL]
<1>1. l # a /\ l \in Pointers /\ a \in Pointers
  BY Names DEF Nodes, Pointers
<1>2. /\ r2 \in Ranks /\ r2[a] = rank[l] + 1 /\ \A m \in Pointers : m # a => r2[m] = rank[m]
      /\ \A m \in Pointers : rank[m] \in Nat /\ r2[m] \in Nat
  BY <1>1 DEF Ranks
<1>3. /\ w2[a] = o /\ \A c \in Cells : c # a => w2[c] = w[c]
      /\ s2[l] = a /\ s2[a] = NULL /\ \A m \in Pointers : m # a /\ m # l => s2[m] = s[m]
  BY <1>1 DEF Whos, Succs
<1>4. /\ \A m : m \in Nodes(w2) <=> m \in Nodes(w) \/ m = a
      /\ \A m \in Nodes(w) : m # a /\ Home(w2, m) = Home(w, m) /\ m \in Pointers
      /\ Home(w2, a) = Home(w, l)
  BY <1>3, Names DEF Nodes, Home, Pointers
<1>5. /\ \A m, k \in Pointers : m # a /\ k # a => (SameList(w2, m, k) <=> SameList(w, m, k))
      /\ \A m \in Pointers : m # a => (SameList(w2, m, a) <=> SameList(w, m, l))
      /\ \A m \in Pointers : m # a => (SameList(w2, a, m) <=> SameList(w, l, m))
  BY <1>4 DEF SameList
<1>6. \A m \in Pointers : SameList(w, m, l) => rank[m] <= rank[l]
  BY <1>1, <1>2 DEF Ordered, SameList
<1>7. \A m, k : SameList(w, m, k) => SameList(w, k, m)
  BY DEF SameList
<1> HIDE DEF r2, w2, s2
<1>8. \A b \in Buckets : r2[b] = 0
  BY <1>2, Names DEF Ordered
<1>9. \A c \in Cells : w2[c] # NULL => r2[c] > 0
  BY <1>1, <1>2, <1>3, Names DEF Ordered
<1>10. ASSUME NEW m \in Nodes(w2), s2[m] # NULL
       PROVE  s2[m] \in Cells /\ SameList(w2, m, s2[m]) /\ r2[m] < r2[s2[m]]
  <2>1. CASE m = l
    <3>1. SameList(w, l, l)
      BY DEF SameList
    <3> QED
      BY <1>1, <1>2, <1>3, <1>5, <2>1, <3>1
  <2>2. CASE m # l
    <3>1. m # a /\ m \in Nodes(w) /\ m \in Pointers
      BY <1>3, <1>4, <1>10
    <3>2. s2[m] = s[m]
      BY <1>3, <2>2, <3>1
    <3>3. s[m] \in Cells /\ SameList(w, m, s[m]) /\ rank[m] < rank[s[m]]
      BY <1>10, <3>1, <3>2 DEF Ordered
    <3>4. s[m] # a /\ s[m] \in Pointers
      BY <1>4, <3>3 DEF SameList
    <3> QED
      BY <1>2, <1>5, <3>1, <3>2, <3>3, <3>4
  <2> QED
    BY <2>1, <2>2
<1>11. ASSUME NEW m \in Pointers, NEW k \in Pointers, SameList(w2, m, k), r2[m] < r2[k]
       PROVE  s2[m] # NULL /\ r2[s2[m]] <= r2[k]
  <2>1. CASE m = a
    <3>1. k # a
      BY <1>1, <1>2, <1>11, <2>1
    <3>2. rank[k] <= rank[l]
      BY <1>5, <1>6, <1>7, <1>11, <2>1, <3>1
    <3> QED
      BY <1>1, <1>2, <1>11, <2>1, <3>1, <3>2
  <2>2. CASE m = l
    <3>1. k = a
      <4> SUFFICES ASSUME k # a PROVE FALSE
        OBVIOUS
      <4>1. SameList(w, k, l)
        BY <1>1, <1>5, <1>7, <1>11, <2>2
      <4> QED
        BY <1>1, <1>2, <1>6, <1>11, <2>2, <4>1
    <3> QED
      BY <1>1, <1>2, <1>3, <2>2, <3>1, Names
  <2>3. CASE m # a /\ m # l
    <3>1. PICK j \in Pointers : j # a /\ SameList(w, m, j) /\ rank[m] < rank[j] /\ rank[j] <= r2[k]
      <4>1. CASE k # a
        BY <1>2, <1>5, <1>11, <2>3, <4>1
      <4>2. CASE k = a
        <5>1. SameList(w, m, l) /\ rank[m] <= rank[l]
          BY <1>5, <1>6, <1>11, <2>3, <4>2
        <5>2. rank[m] # rank[l]
          BY <1>1, <2>3, <5>1 DEF Ordered
        <5> QED
          BY <1>1, <1>2, <4>2, <5>1, <5>2
      <4> QED
        BY <4>1, <4>2
    <3>2. s[m] # NULL /\ rank[s[m]] <= rank[j]
      BY <3>1 DEF Ordered
    <3>3. s[m] \in Cells /\ SameList(w, m, s[m])
      BY <3>1, <3>2 DEF Ordered, SameList
    <3>4. s[m] # a /\ s[m] \in Pointers
      BY <1>4, <3>3 DEF SameList
    <3> QED
      BY <1>2, <1>3, <2>3, <3>1, <3>2, <3>4
  <2> QED
    BY <2>1, <2>2, <2>3
<1>12. ASSUME NEW m \in Pointers, NEW k \in Pointers, SameList(w2, m, k), r2[m] = r2[k]
       PROVE  m = k
  <2> SUFFICES ASSUME m # k PROVE FALSE
    OBVIOUS
  <2>1. CASE m # a /\ k # a
    BY <1>2, <1>5, <1>12, <2>1 DEF Ordered
  <2>2. CASE m = a \/ k = a
    BY <1>1, <1>2, <1>5, <1>6, <1>7, <1>12, <2>2
  <2> QED
    BY <2>1, <2>2
<1>13. Ordered(r2, w2, s2)
  BY <1>8, <1>9, <1>10, <1>11, <1>12 DEF Ordered
<1> QED
  BY <1>13 DEF r2, w2, s2

(* The successor of a node leaves its list.                                 *)
LEMMA ListShrinks ==
  ASSUME NEW rank \in Ranks, NEW w \in Whos, NEW s \in Succs, Ordered(rank, w, s),
         NEW p \in Nodes(w), NEW a \in Cells, s[p] = a
  PROVE  /\ Ordered(rank, [w EXCEPT ![a] = NULL], [s EXCEPT ![p] = s[a], ![a] = NULL])
         /\ p # a /\ w[a] # NULL
<1> DEFINE w2 == [w EXCEPT ![a] = NULL]
           s2 == [s EXCEPT ![p] = s[a], ![a] = NULL]
<1>1. a \in Pointers /\ p \in Pointers /\ NULL # a
  BY Names DEF Nodes, Pointers
<1>2. \A m \in Pointers : rank[m] \in Nat
  BY DEF Ranks
<1>3. SameList(w, p, a) /\ rank[p] < rank[a]
  BY <1>1 DEF Ordered
<1>4. p # a /\ w[a] # NULL
  BY <1>1, <1>2, <1>3, Names DEF SameList, Nodes
<1>5. /\ w2[a] = NULL /\ \A c \in Cells : c # a => w2[c] = w[c]
      /\ s2[p] = s[a] /\ s2[a] = NULL /\ \A m \in Pointers : m # a /\ m # p => s2[m] = s[m]
  BY <1>1, <1>4 DEF Whos, Succs
<1>6. /\ \A m : m \in Nodes(w2) <=> m \in Nodes(w) /\ m # a
      /\ \A m \in Nodes(w2) : Home(w2, m) = Home(w, m) /\ m \in Pointers
  BY <1>5, Names DEF Nodes, Home, Pointers
<1>7. \A m, k : SameList(w2, m, k) <=> SameList(w, m, k) /\ m # a /\ k # a
  BY <1>6 DEF SameList
<1>8. \A m, k : SameList(w, m, k) => m \in Nodes(w) /\ k \in Nodes(w)
  BY DEF SameList
<1>9. \A m, k, j : SameList(w, m, k) /\ SameList(w, k, j) => SameList(w, m, j) /\ SameList(w, k, m)
  BY DEF SameList
<1>10. \A m \in Nodes(w) : m # p => s[m] # a
  <2> SUFFICES ASSUME NEW m \in Nodes(w), m # p, s[m] = a PROVE FALSE
    OBVIOUS
  <2>1. m \in Pointers /\ SameList(w, m, a) /\ rank[m] < rank[a]
    BY <1>1, Names DEF Ordered, Nodes, Pointers
  <2>2. SameList(w, m, p) /\ SameList(w, p, m)
    BY <1>3, <2>1 DEF SameList
  <2>3. CASE rank[m] < rank[p]
    BY <1>1, <1>2, <1>3, <2>1, <2>2, <2>3 DEF Ordered
  <2>4. CASE rank[p] < rank[m]
    BY <1>1, <1>2, <1>3, <2>1, <2>2, <2>4 DEF Ordered
  <2>5. CASE rank[p] = rank[m]
    BY <1>1, <2>1, <2>2, <2>5 DEF Ordered
  <2> QED
    BY <1>1, <1>2, <2>1, <2>3, <2>4, <2>5
<1> HIDE DEF w2, s2
<1>11. \A c \in Cells : w2[c] # NULL => rank[c] > 0
  BY <1>5 DEF Ordered
<1>12. ASSUME NEW m \in Nodes(w2), s2[m] # NULL
       PROVE  s2[m] \in Cells /\ SameList(w2, m, s2[m]) /\ rank[m] < rank[s2[m]]
  <2>1. CASE m = p
    <3>1. a \in Nodes(w) /\ s[a] # NULL
      BY <1>3, <1>5, <1>8, <1>12, <2>1
    <3>2. s[a] \in Cells /\ SameList(w, a, s[a]) /\ rank[a] < rank[s[a]]
      BY <3>1 DEF Ordered
    <3>3. s[a] # a /\ SameList(w, p, s[a])
      BY <1>1, <1>2, <1>3, <1>9, <3>2
    <3>4. s[a] \in Pointers /\ s2[m] = s[a]
      BY <1>5, <2>1, <3>2, Names
    <3> QED
      BY <1>1, <1>2, <1>3, <1>4, <1>7, <2>1, <3>2, <3>3, <3>4
  <2>2. CASE m # p
    <3>1. m \in Nodes(w) /\ m # a /\ s2[m] = s[m]
      BY <1>5, <1>6, <2>2
    <3> QED
      BY <1>7, <1>10, <1>12, <2>2, <3>1 DEF Ordered
  <2> QED
    BY <2>1, <2>2
<1>13. ASSUME NEW m \in Pointers, NEW k \in Pointers, SameList(w2, m, k), rank[m] < rank[k]
       PROVE  s2[m] # NULL /\ rank[s2[m]] <= rank[k]
  <2>1. SameList(w, m, k) /\ m # a /\ k # a
    BY <1>7, <1>13
  <2>2. s[m] # NULL /\ rank[s[m]] <= rank[k]
    BY <1>13, <2>1 DEF Ordered
  <2>3. CASE m # p
    BY <1>5, <2>1, <2>2, <2>3
  <2>4. CASE m = p
    <3>1. SameList(w, a, k)
      BY <1>3, <2>1, <2>4 DEF SameList
    <3>2. rank[a] # rank[k]
      BY <1>1, <2>1, <3>1 DEF Ordered
    <3>3. rank[a] < rank[k]
      BY <1>1, <1>2, <2>2, <2>4, <3>2
    <3> QED
      BY <1>1, <1>5, <2>4, <3>1, <3>3 DEF Ordered
  <2> QED
    BY <2>3, <2>4
<1>14. Ordered(rank, w2, s2)
  BY <1>7, <1>11, <1>12, <1>13 DEF Ordered
<1> QED
  BY <1>4, <1>14 DEF w2, s2
-----------------------------------------------------------------------------
LEMMA TwoThreads == Threads = {"worker", "monitor"}
BY DEF Threads

(* The odids and the pointers are those of a table.                         *)
LEMMA TableOfNames ==
  ASSUME Core
  PROVE  /\ who \in Whos /\ succ \in Succs
         /\ \A c \in Cells : owner[c] \in Odids => who[c] = owner[c]
         /\ \A l \in Pointers : next[l] # Garbage => succ[l] = next[l]
         /\ \A c \in Cells : owner[c] = NULL => who[c] = NULL
<1>1. odid["worker"] \in Odids \cup {NULL}
  BY TwoThreads DEF Core, Types, CallTypes
<1> QED
  BY <1>1, Names DEF Core, Types, TableTypes, who, succ, Whos, Succs

(* While no cell is being built, who and succ are the fields of the cells.  *)
LEMMA AllBuilt ==
  ASSUME Core, pc["worker"] # "init"
  PROVE  /\ who = owner /\ succ = next
         /\ \A c \in Cells : owner[c] # Garbage
         /\ \A l \in Pointers : next[l] # Garbage
         /\ owner \in Whos /\ next \in Succs
<1>1. (\A c \in Cells : owner[c] # Garbage) /\ (\A l \in Pointers : next[l] # Garbage)
  BY DEF Core, Lists, Building
<1> QED
  BY <1>1 DEF Core, Types, TableTypes, who, succ, Whos, Succs

(* A thread that follows a list in which no cell is being built stands on a *)
(* node of it, and sees one next.                                           *)
LEMMA OnTheList ==
  ASSUME Core, NEW t \in Threads, pc[t] \in {"walk", "unlink"}, cur[t] # NULL,
         pc["worker"] # "init"
  PROVE  /\ cur[t] \in Nodes(owner) /\ Home(owner, cur[t]) = hash_key[odid[t]]
         /\ odid[t] \in Odids /\ cur[t] \in Pointers
         /\ next[cur[t]] = NULL => ~Has(odid[t])
         /\ next[cur[t]] # NULL => next[cur[t]] \in Cells /\ owner[next[cur[t]]] # NULL
<1>1. who = owner /\ succ = next /\ owner \in Whos /\ next \in Succs
  BY AllBuilt
<1>2. PICK rank \in Ranks : Ordered(rank, owner, next) /\ Passed(rank, owner, cur[t], odid[t])
  BY <1>1 DEF Core, Lists, Chain, Walking
<1>3. odid[t] \in Odids
  BY TwoThreads DEF Core, Types, CallTypes
<1>4. cur[t] \in Nodes(owner) /\ Home(owner, cur[t]) = hash_key[odid[t]]
  BY <1>2 DEF Passed
<1>5. cur[t] \in Pointers
  BY <1>4, Names DEF Nodes
<1> QED
  BY <1>1, <1>2, <1>3, <1>4, <1>5, WalkGoesOn DEF Has

(* The monitoring thread finds the cell of its odid before it comes to the  *)
(* one that the worker is building.                                         *)
LEMMA MonitorSees ==
  ASSUME Core, pc["monitor"] = "walk"
  PROVE  LET p == cur["monitor"] IN
         /\ p \in Nodes(owner) /\ Usable(p)
         /\ next[p] \in Cells /\ owner[next[p]] \in Odids /\ succ[p] = next[p]
<1> DEFINE p == cur["monitor"]
           o == odid["monitor"]
<1>1. /\ p # NULL /\ o \in Odids /\ Has(o) /\ Building /\ OneCell
  BY DEF Core, Types, CallTypes, Lists, MonitorStands
<1>2. PICK rank \in Ranks : Ordered(rank, who, succ) /\ Passed(rank, who, p, o)
  BY <1>1, TwoThreads DEF Core, Lists, Chain, Walking
<1>3. p \in Nodes(who) /\ p \in Pointers
  BY <1>2, Names DEF Passed, Nodes
<1>4. who \in Whos /\ succ \in Succs
  BY TableOfNames
<1>5. PICK c \in Cells : owner[c] = o /\ who[c] = o
  BY <1>1, TableOfNames DEF Has
<1> DEFINE a == succ[p]
<1>6. a \in Cells /\ who[a] # NULL /\ (who[a] # o => Passed(rank, who, a, o))
  BY <1>1, <1>2, <1>3, <1>4, <1>5, WalkGoesOn
<1>7. next[p] = a
  BY <1>3, <1>6, Names DEF succ
<1>8. owner[p] # Garbage \/ p \in Buckets
  BY <1>1, <1>3, <1>6, <1>7, Names DEF Building, Nodes
<1>9. owner[a] # Garbage
  <2> SUFFICES ASSUME owner[a] = Garbage PROVE FALSE
    OBVIOUS
  <2>1. a \in Pointers /\ succ[a] = NULL
    BY <1>1, <1>6, Names DEF Building, succ
  <2>2. who[a] # o
    BY <1>1, <1>5, <1>6, Names DEF OneCell
  <2> QED
    BY <1>1, <1>2, <1>4, <1>5, <1>6, <2>1, <2>2, WalkGoesOn
<1>10. owner[a] \in Odids
  BY <1>6, <1>9, TableOfNames DEF Core, Types, TableTypes
<1>11. p \in Nodes(owner) /\ Usable(p)
  BY <1>3, <1>8, TableOfNames DEF Nodes, Usable
<1> QED
  BY <1>7, <1>10, <1>11, <1>6

(* The monitoring thread never creates a cell.                              *)
LEMMA MonitorNeverCreates ==
  ASSUME Core, get_odid_counter("monitor") PROVE Walk("monitor")
BY DEF get_odid_counter, LinkCell, NoCell, InitCell, IndexOdid, LoadLength, StoreLength,
   GoTo, Undefined, At, Core, Types, CallTypes, MonitorLabels

(* The entry of the index that a pass is at.                                *)
LEMMA EntryOfPass ==
  ASSUME Core, pc["monitor"] # "idle", y < n
  PROVE  y \in 0..n-1 /\ y \in 0..active_odids_max_length-1 /\ y \in DOMAIN active_odids
         /\ active_odids[y] \in Entries
BY DEF Core, Types, IndexTypes, PassTypes, Pass

(* From Core, a thread uses memory that is not its own only when the index  *)
(* moves during a pass or cannot grow.                                      *)
LEMMA StaysDefined ==
  ASSUME Core, Next, undefined' PROVE Races # {} \/ IndexFull'
<1>1. ASSUME Walk("worker") PROVE ~undefined'
  <2> DEFINE p == cur["worker"]
  <2>1. pc["worker"] = "walk" /\ p # NULL /\ "worker" \in Threads
    BY <1>1, TwoThreads DEF Walk, At, Core, Lists, WorkerStands
  <2>2. /\ p \in Nodes(owner) /\ \A c \in Cells : owner[c] # Garbage
        /\ next[p] # NULL => next[p] \in Cells /\ owner[next[p]] # NULL
    BY <2>1, OnTheList, AllBuilt
  <2>3. Usable(p) /\ (next[p] = NULL \/ Usable(next[p]))
    BY <2>2 DEF Nodes, Usable
  <2> QED
    BY <1>1, <2>3 DEF Walk, At
<1>2. ASSUME LinkCell("worker") PROVE ~undefined'
  <2>1. pc["worker"] = "create"
    BY <1>2 DEF LinkCell, GoTo, Undefined, At
  <2>2. cur["worker"] \in Nodes(owner) /\ \A c \in Cells : owner[c] # Garbage
    BY <2>1, AllBuilt DEF Core, Lists, WorkerStands
  <2>3. Usable(cur["worker"])
    BY <2>2 DEF Nodes, Usable
  <2> QED
    BY <1>2, <2>3 DEF LinkCell, Core
<1>3. ASSUME IndexOdid("worker") PROVE Races # {} \/ IndexFull'
  <2>1. PICK fails \in BOOLEAN, stale \in BOOLEAN :
          LET grow == active_odids_length + 1 >= active_odids_max_length
              size == active_odids_max_length + (IF grow /\ ~fails THEN ACTIVE_ODIDS ELSE 0)
          IN /\ fails => grow
             /\ stale => grow /\ Addressing("worker")
             /\ ~stale /\ active_odids_length < size => undefined' = undefined
             /\ stale \/ ~(active_odids_length < size) => UNCHANGED index
    BY <1>3 DEF IndexOdid, Undefined
  <2>2. /\ active_odids_length \in Nat /\ active_odids_max_length \in Nat
        /\ ACTIVE_ODIDS \in Nat \ {0} /\ ~undefined
        /\ active_odids_length <= active_odids_max_length /\ pc["worker"] = "index"
    BY <1>3, MonitoringAssumption DEF Core, Types, IndexTypes, Index, IndexOdid, GoTo, Undefined,
       At
  <2>3. CASE stale
    <3>1. Growing /\ pc["monitor"] # "idle"
      BY <2>1, <2>2, <2>3, TwoThreads DEF Growing, Addressing
    <3>2. "growth" \in Races
      BY <3>1 DEF Races
    <3> QED
      BY <3>2
  <2>4. CASE ~stale
    <3> DEFINE grow == active_odids_length + 1 >= active_odids_max_length
               size == active_odids_max_length + (IF grow /\ ~fails THEN ACTIVE_ODIDS ELSE 0)
    <3>1. ~(active_odids_length < size) /\ UNCHANGED index
      BY <2>1, <2>2, <2>4
    <3>2. size \in Nat /\ size >= active_odids_max_length
      BY <2>2
    <3>3. active_odids_length >= active_odids_max_length
      BY <2>2, <3>1, <3>2
    <3> QED
      BY <3>1, <3>3 DEF IndexFull, index
  <2> QED
    BY <2>3, <2>4
<1>4. ASSUME LoadCount \/ StoreCount \/ CountMessageId PROVE ~undefined'
  <2>1. pc["worker"] \in {"found", "store_count", "message_id"}
    BY <1>4 DEF LoadCount, StoreCount, CountMessageId, GoTo, Undefined, At
  <2>2. cur["worker"] \in Cells /\ owner[cur["worker"]] \in Odids
    BY <2>1 DEF Core, Types, CallTypes, Lists, WorkerStands
  <2>3. Usable(cur["worker"])
    BY <2>2, Names DEF Usable
  <2> QED
    BY <1>4, <2>3 DEF LoadCount, StoreCount, CountMessageId, Core
<1>5. ASSUME Walk("monitor") PROVE ~undefined'
  <2>1. pc["monitor"] = "walk"
    BY <1>5 DEF Walk, At
  <2>2. Usable(cur["monitor"]) /\ Usable(next[cur["monitor"]])
    BY <2>1, MonitorSees, Names DEF Usable
  <2> QED
    BY <1>5, <2>2 DEF Walk, At
<1>6. ASSUME Visit PROVE ~undefined'
  <2>1. pc["monitor"] = "visit" /\ y < n
    BY <1>6 DEF Visit, GoTo, Undefined, At
  <2>2. y \in Ahead /\ y \in DOMAIN active_odids
    BY <2>1, EntryOfPass DEF Ahead, Core, Types, PassTypes
  <2>3. active_odids[y].odid # Garbage
    BY <2>1, <2>2, Names DEF Core, Pass, AheadExact
  <2> QED
    BY <1>6, <2>2, <2>3 DEF Visit, Core
<1>7. ASSUME Unlink PROVE ~undefined'
  <2> DEFINE p == cur["monitor"]
  <2>1. pc["monitor"] = "unlink" /\ pc["worker"] = "idle" /\ "monitor" \in Threads
    BY <1>7, TwoThreads DEF Unlink, At, Core, NoMeeting, Removing
  <2>2. ASSUME p # NULL
        PROVE  /\ p \in Nodes(owner) /\ \A c \in Cells : owner[c] # Garbage
               /\ next[p] # NULL => next[p] \in Cells /\ owner[next[p]] # NULL
    BY <2>1, <2>2, OnTheList, AllBuilt
  <2>3. p # NULL => Usable(p) /\ (next[p] = NULL \/ Usable(next[p]))
    BY <2>2 DEF Nodes, Usable
  <2> QED
    BY <1>7, <2>3 DEF Unlink, At
<1>8. ASSUME NEW t \in Threads, get_odid_counter(t) PROVE Races # {} \/ IndexFull'
  <2>1. CASE t = "worker"
    BY <1>1, <1>2, <1>3, <1>8, <2>1 DEF get_odid_counter, NoCell, InitCell, LoadLength,
       StoreLength, Core
  <2>2. CASE t = "monitor"
    BY <1>5, <1>8, <2>2, MonitorNeverCreates
  <2> QED
    BY <2>1, <2>2, TwoThreads
<1>9. ASSUME t_monitoring_unyte_udp PROVE ~undefined'
  BY <1>6, <1>7, <1>9 DEF t_monitoring_unyte_udp, Wake, EndPass, Inspect, get_summary,
     NoSummary, reinit_odid_counters, Mark, Remove, Compact, Shrink, Core
<1> QED
  BY <1>4, <1>8, <1>9 DEF Next, Update, Core

-----------------------------------------------------------------------------
(* The counters of a new cell are counts, and so are those that grew.       *)
LEMMA CountsGrow ==
  /\ Zero \in Counts /\ Total(Zero) = 0
  /\ \A c \in Counts : \A f \in {"received", "dropped"} : \A k \in Nat :
       /\ [c EXCEPT ![f] = k] \in Counts
       /\ c[f] \in Nat /\ Total(c) \in Nat
       /\ k = c[f] + 1 => Total([c EXCEPT ![f] = k]) = Total(c) + 1
  /\ \A c \in Counts : \A k \in Nat :
       /\ [c EXCEPT !.last = k] \in Counts /\ Total([c EXCEPT !.last = k]) = Total(c)
  /\ \A c \in Counts :
       /\ [c EXCEPT !.reordered = c.reordered + 1] \in Counts
       /\ Total([c EXCEPT !.reordered = c.reordered + 1]) = Total(c)
<1>1. Zero \in Counts
  BY DEF Zero, Counts, Fields
<1>2. Total(Zero) = 0
  BY DEF Zero, Total
<1>3. ASSUME NEW c \in Counts, NEW f \in {"received", "dropped"}, NEW k \in Nat
      PROVE  /\ [c EXCEPT ![f] = k] \in Counts
             /\ c[f] \in Nat /\ Total(c) \in Nat
             /\ k = c[f] + 1 => Total([c EXCEPT ![f] = k]) = Total(c) + 1
  BY <1>3 DEF Counts, Fields, Total
<1>4. ASSUME NEW c \in Counts, NEW k \in Nat
      PROVE  [c EXCEPT !.last = k] \in Counts /\ Total([c EXCEPT !.last = k]) = Total(c)
  BY <1>4 DEF Counts, Fields, Total
<1>5. ASSUME NEW c \in Counts
      PROVE  /\ [c EXCEPT !.reordered = c.reordered + 1] \in Counts
             /\ Total([c EXCEPT !.reordered = c.reordered + 1]) = Total(c)
  BY <1>5 DEF Counts, Fields, Total
<1> QED
  BY <1>1, <1>2, <1>3, <1>4, <1>5

(* What is true when the step of a thread leaves a part of the state alone. *)
Still(t) == pc'[t] = pc[t] /\ odid'[t] = odid[t] /\ cur'[t] = cur[t] /\ tmp'[t] = tmp[t]

SameOdids ==
  /\ UNCHANGED <<active_odids_length, active_odids_max_length>>
  /\ \A i \in 0..active_odids_max_length-1 : active_odids'[i].odid = active_odids[i].odid

LEMMA ClashedGrows == ASSUME Observe PROVE Clashed \subseteq Clashed'
BY DEF Observe, Clashed

LEMMA TablesStay ==
  ASSUME Core, Types', UNCHANGED <<next, owner>>, pc'["worker"] = "init" <=> pc["worker"] = "init",
         pc["worker"] = "init" => cur'["worker"] = cur["worker"] /\ odid'["worker"] = odid["worker"]
  PROVE  /\ who' = who /\ succ' = succ /\ Building' /\ OneCell'
         /\ \A o : Has(o)' <=> Has(o)
<1>1. who' = who
  BY DEF who, Core, Lists, Building
<1>2. succ' = succ
  BY DEF succ
<1>3. Building'
  BY DEF Core, Lists, Building
<1>4. OneCell'
  BY <1>1 DEF Core, Lists, OneCell
<1> QED
  BY <1>1, <1>2, <1>3, <1>4 DEF Has

(* A thread begins to walk along a list, or goes on along it.               *)
WalksOn(t) ==
  \/ Walking(t) /\ cur'[t] = cur[t] /\ odid'[t] = odid[t]
  \/ odid'[t] \in Odids /\ cur'[t] = hash_key[odid'[t]]
  \/ /\ Walking(t) /\ odid'[t] = odid[t]
     /\ succ[cur[t]] # NULL /\ cur'[t] = succ[cur[t]] /\ who[succ[cur[t]]] # odid[t]

LEMMA ChainStays ==
  ASSUME Core, who' = who, succ' = succ, \A t \in Threads : Walking(t)' => WalksOn(t)
  PROVE  Chain'
<1>1. PICK rank \in Ranks :
        /\ Ordered(rank, who, succ)
        /\ \A t \in Threads : Walking(t) => Passed(rank, who, cur[t], odid[t])
  BY DEF Core, Lists, Chain
<1>2. who \in Whos /\ succ \in Succs
  BY TableOfNames
<1>3. ASSUME NEW t \in Threads, Walking(t)' PROVE Passed(rank, who, cur'[t], odid'[t])
  <2>1. CASE Walking(t) /\ cur'[t] = cur[t] /\ odid'[t] = odid[t]
    BY <1>1, <2>1
  <2>2. CASE odid'[t] \in Odids /\ cur'[t] = hash_key[odid'[t]]
    BY <1>1, <1>2, <2>2, WalkStarts
  <2>3. CASE /\ Walking(t) /\ odid'[t] = odid[t]
             /\ succ[cur[t]] # NULL /\ cur'[t] = succ[cur[t]] /\ who[succ[cur[t]]] # odid[t]
    <3>1. Passed(rank, who, cur[t], odid[t])
      BY <1>1, <2>3
    <3>2. cur[t] \in Pointers /\ odid[t] \in Odids
      BY <2>3, <3>1, TwoThreads, Names DEF Passed, Nodes, Walking, Core, Types, CallTypes
    <3> QED
      BY <1>1, <1>2, <2>3, <3>1, <3>2, WalkGoesOn
  <2> QED
    BY <1>3, <2>1, <2>2, <2>3 DEF WalksOn
<1> QED
  BY <1>1, <1>3 DEF Chain

LEMMA IndexStays ==
  ASSUME Core, Types', SameOdids, \A o \in Odids : Has(o)' <=> Has(o),
         \A o \in Odids : (Pending(o)' <=> Pending(o)) /\ (Leaving(o) => Leaving(o)'),
         pc["monitor"] # "shrink", pc'["monitor"] # "shrink",
         pc'["worker"] \in {"load_length", "store_length"} =>
           pc["worker"] \in {"load_length", "store_length"} /\ odid'["worker"] = odid["worker"],
         pc'["worker"] = "store_length" => tmp'["worker"] = active_odids_length
  PROVE  Index'
<1>1. /\ active_odids_length \in Nat /\ active_odids_max_length \in Nat
      /\ active_odids_length <= active_odids_max_length
  BY DEF Core, Types, IndexTypes, Index
<1>2. /\ Length = active_odids_length /\ Length' = Length
      /\ \A i \in 0..Length-1 : active_odids'[i].odid = active_odids[i].odid
  BY <1>1 DEF Length, SameOdids
<1>3. \A o : Listed(o)' <=> Listed(o)
  BY <1>2 DEF Listed
<1>4. pc'["worker"] \in {"load_length", "store_length"} =>
        active_odids_length \in 0..active_odids_max_length-1
  BY <1>1 DEF Core, Index
<1> QED
  BY <1>1, <1>2, <1>3, <1>4 DEF Core, Index, SameOdids

LEMMA PassStays ==
  ASSUME Core, Still("monitor"), UNCHANGED <<active_odids, active_odids_max_length, y, n>>,
         \A o \in Odids : Has(o) => Has(o)',
         pc'["worker"] = "index" => pc["worker"] = "index" /\ odid'["worker"] = odid["worker"]
  PROVE  Pass'
BY DEF Core, Pass, AheadExact, Ahead, Searching, Removing, Still

LEMMA SumsStay ==
  ASSUME Core, UNCHANGED <<owner, count, owed, sum>>, Clashed \subseteq Clashed',
         pc'["worker"] = "store_count" => Still("worker") /\ UNCHANGED segment,
         pc'["monitor"] = "clear" => Still("monitor"),
         pc'["monitor"] \in {"remove", "unlink"} =>
           pc["monitor"] \in {"remove", "unlink"} /\ odid'["monitor"] = odid["monitor"]
  PROVE  Sums'
BY DEF Core, Sums, Still, Has

(* A step of the worker that does not change the lists.                     *)
LEMMA WorkerKeepsLists ==
  ASSUME Core, Types', Still("monitor"), UNCHANGED <<next, owner>>,
         pc["worker"] # "init", pc'["worker"] # "init",
         Walking("worker")' => WalksOn("worker"), WorkerStands'
  PROVE  Lists' /\ \A o : Has(o)' <=> Has(o)
<1>1. /\ who' = who /\ succ' = succ /\ Building' /\ OneCell'
      /\ \A o : Has(o)' <=> Has(o)
  BY TablesStay
<1>2. Walking("monitor")' => WalksOn("monitor")
  BY DEF Walking, WalksOn, Still
<1>3. Chain'
  BY <1>1, <1>2, ChainStays, TwoThreads
<1>4. MonitorStands'
  BY <1>1 DEF MonitorStands, Core, Lists, Still
<1> QED
  BY <1>1, <1>3, <1>4 DEF Lists

(* A step of the worker that changes neither the lists nor the index.       *)
LEMMA WorkerMoves ==
  ASSUME Core, Types', Still("monitor"), UNCHANGED <<next, owner, index, y, n>>,
         pc["worker"] # "init", pc'["worker"] \notin {"init", "index"},
         Walking("worker")' => WalksOn("worker"), WorkerStands',
         \A o \in Odids : Pending(o)' <=> Pending(o),
         pc'["worker"] \in {"load_length", "store_length"} =>
           pc["worker"] \in {"load_length", "store_length"} /\ odid'["worker"] = odid["worker"],
         pc'["worker"] = "store_length" => tmp'["worker"] = active_odids_length,
         NoMeeting'
  PROVE  Lists' /\ Index' /\ Pass'
<1>1. Lists' /\ \A o : Has(o)' <=> Has(o)
  BY WorkerKeepsLists
<1>2. SameOdids /\ \A o \in Odids : Leaving(o)' <=> Leaving(o)
  BY DEF SameOdids, index, Leaving, Still
<1>3. CASE pc["monitor"] # "shrink"
  <2>1. Index'
    BY <1>1, <1>2, <1>3, IndexStays DEF Still
  <2>2. Pass'
    BY <1>1, PassStays DEF index
  <2> QED
    BY <1>1, <2>1, <2>2
<1>4. CASE pc["monitor"] = "shrink"
  <2>1. pc["worker"] = "idle" /\ pc'["worker"] = "idle"
    BY <1>4 DEF Core, NoMeeting, Removing, Still
  <2>2. Index'
    BY <1>1, <1>2, <1>4, <2>1 DEF Core, Index, Length, Listed, Pending, Leaving, Still, index
  <2>3. Pass'
    BY <1>1, PassStays DEF index
  <2> QED
    BY <1>1, <2>2, <2>3
<1> QED
  BY <1>3, <1>4

(* A step of the monitoring thread that does not change the lists, and one  *)
(* that does not change the odids of the index either.                      *)
LEMMA MonitorKeepsLists ==
  ASSUME Core, Types', Still("worker"), UNCHANGED <<next, owner>>,
         Walking("monitor")' => WalksOn("monitor"), MonitorStands'
  PROVE  Lists' /\ \A o : Has(o)' <=> Has(o)
<1>1. /\ who' = who /\ succ' = succ /\ Building' /\ OneCell'
      /\ \A o : Has(o)' <=> Has(o)
  BY TablesStay DEF Still
<1>2. Walking("worker")' => WalksOn("worker")
  BY DEF Walking, WalksOn, Still
<1>3. Chain'
  BY <1>1, <1>2, ChainStays, TwoThreads
<1>4. WorkerStands'
  <2>1. Nodes(owner)' = Nodes(owner) /\ \A l : Home(owner, l)' = Home(owner, l)
    BY DEF Nodes, Home
  <2> QED
    BY <1>1, <2>1 DEF WorkerStands, Core, Lists, Still
<1> QED
  BY <1>1, <1>3, <1>4 DEF Lists

LEMMA MonitorMoves ==
  ASSUME Core, Types', Still("worker"), UNCHANGED <<next, owner>>, SameOdids,
         Walking("monitor")' => WalksOn("monitor"), MonitorStands',
         pc["monitor"] # "shrink", pc'["monitor"] # "shrink",
         \A o \in Odids : Leaving(o) => Leaving(o)'
  PROVE  Lists' /\ Index' /\ \A o : Has(o)' <=> Has(o)
<1>1. Lists' /\ \A o : Has(o)' <=> Has(o)
  BY MonitorKeepsLists
<1>2. \A o \in Odids : Pending(o)' <=> Pending(o)
  BY DEF Pending, Still
<1>3. Index'
  BY <1>1, <1>2, IndexStays DEF Still, Core, Index
<1> QED
  BY <1>1, <1>3

(* A step of the monitoring thread at one entry of the index.               *)
LEMMA PassGoesOn ==
  ASSUME Core, Still("worker"), UNCHANGED <<active_odids, active_odids_max_length, y, n>>,
         odid'["monitor"] = odid["monitor"],
         {pc["monitor"], pc'["monitor"]} \cap {"idle", "visit"} = {},
         \A o : Has(o)' <=> Has(o),
         Searching' => Searching, Removing' => Searching \/ Removing,
         pc'["monitor"] = "remove" => active_odids[y].odid = odid["monitor"]
  PROVE  Pass'
<1>1. pc["monitor"] \notin {"idle", "visit"} /\ pc'["monitor"] \notin {"idle", "visit"}
  OBVIOUS
<1>2. Ahead' = Ahead
  BY <1>1 DEF Ahead
<1>3. AheadExact'
  BY <1>1, <1>2 DEF Core, Pass, AheadExact, Still
<1> QED
  BY <1>1, <1>3 DEF Core, Pass, Still

-----------------------------------------------------------------------------
(* The steps of the worker.                                                 *)
LEMMA UpdateKeepsCore ==
  ASSUME Core, NEW o \in Odids, NEW type \in {"received", "dropped"}, NEW mid \in Mids,
         Update(o, type, mid), NoMeeting'
  PROVE  Core'
<1>1. /\ pc["worker"] = "idle" /\ pc' = [pc EXCEPT !["worker"] = "walk"]
      /\ odid' = [odid EXCEPT !["worker"] = o] /\ cur' = [cur EXCEPT !["worker"] = hash_key[o]]
      /\ segment' = [type |-> type, mid |-> mid]
      /\ UNCHANGED <<table, index, tmp, pass, undefined, owed>> /\ Observe
  BY DEF Update, GoTo, At, StartWalk, history
<1>2. hash_key[o] \in Buckets /\ hash_key[o] \in Pointers /\ mid \in Nat
  BY Names, MonitoringAssumption
<1>3. /\ pc'["worker"] = "walk" /\ odid'["worker"] = o /\ cur'["worker"] = hash_key[o]
      /\ Still("monitor")
  BY <1>1, <1>2, TwoThreads DEF Core, Types, CallTypes, Still
<1>4. Types'
  BY <1>1, <1>2, <1>3 DEF Core, Types, TableTypes, IndexTypes, CallTypes, PassTypes, table, index,
     pass, Still, WorkerLabels
<1>5. WorkerStands'
  BY <1>2, <1>3, Names DEF WorkerStands
<1>6. WalksOn("worker")
  BY <1>3 DEF WalksOn
<1>7. Lists' /\ Index' /\ Pass'
  BY <1>1, <1>3, <1>4, <1>5, <1>6, WorkerMoves DEF Pending, table, pass
<1>8. Sums'
  BY <1>1, <1>3, SumsStay, ClashedGrows DEF table, pass, Still
<1> QED
  BY <1>1, <1>4, <1>7, <1>8 DEF Core

LEMMA WorkerWalkKeepsCore ==
  ASSUME Core, Walk("worker"), ~undefined', NoMeeting'
  PROVE  Core'
<1> DEFINE p == cur["worker"]
           a == next[p]
<1>1. /\ pc["worker"] = "walk"
      /\ pc' = [pc EXCEPT !["worker"] = IF a = NULL THEN "create"
                                        ELSE IF owner[a] = odid["worker"] THEN "found" ELSE "walk"]
      /\ cur' = [cur EXCEPT !["worker"] = IF a = NULL THEN p ELSE a]
      /\ UNCHANGED <<table, index, odid, tmp, segment, pass, undefined, owed>> /\ Observe
  BY DEF Walk, GoTo, At, Undefined, history
<1>2. /\ p # NULL /\ p \in Nodes(owner) /\ Home(owner, p) = hash_key[odid["worker"]]
      /\ p \in Pointers /\ (a = NULL => ~Has(odid["worker"]))
      /\ (a # NULL => a \in Cells /\ owner[a] # NULL)
      /\ who = owner /\ succ = next
  BY <1>1, OnTheList, AllBuilt, TwoThreads DEF Core, Lists, WorkerStands
<1>3. /\ pc'["worker"] = IF a = NULL THEN "create"
                         ELSE IF owner[a] = odid["worker"] THEN "found" ELSE "walk"
      /\ cur'["worker"] = (IF a = NULL THEN p ELSE a) /\ odid'["worker"] = odid["worker"]
      /\ Still("monitor")
  BY <1>1, TwoThreads DEF Core, Types, CallTypes, Still
<1>4. Types'
  <2>1. cur'["worker"] \in Pointers
    BY <1>2, <1>3, Names
  <2> QED
    BY <1>1, <1>3, <2>1 DEF Core, Types, TableTypes, IndexTypes, CallTypes, PassTypes, table,
       index, pass, Still, WorkerLabels
<1> HIDE DEF a, p
<1>5. Has(odid["worker"])' <=> Has(odid["worker"])
  BY <1>1, <1>3 DEF Has, table
<1>6. WorkerStands'
  <2>1. CASE a = NULL
    <3>1. /\ pc'["worker"] = "create" /\ cur'["worker"] = p
          /\ odid'["worker"] = odid["worker"] /\ next' = next /\ owner' = owner
      BY <1>1, <1>3, <2>1 DEF table
    <3>2. ~Has(odid["worker"])' /\ next[p] = NULL
      BY <1>2, <1>5, <2>1 DEF a
    <3>3. p \in Nodes(owner') /\ Home(owner', p) = hash_key[odid["worker"]]
      BY <1>2, <3>1
    <3> QED
      BY <3>1, <3>2, <3>3 DEF WorkerStands
  <2>2. CASE a # NULL
    BY <1>1, <1>2, <1>3, <2>2 DEF WorkerStands, table
  <2> QED
    BY <2>1, <2>2
<1>7. Walking("worker")' => WalksOn("worker")
  BY <1>1, <1>2, <1>3 DEF Walking, WalksOn, p, a
<1>8. Lists' /\ Index' /\ Pass'
  BY <1>1, <1>3, <1>4, <1>6, <1>7, WorkerMoves DEF Pending, table, pass
<1>9. Sums'
  BY <1>1, <1>3, SumsStay, ClashedGrows DEF table, pass, Still
<1> QED
  BY <1>1, <1>4, <1>8, <1>9 DEF Core

LEMMA NoCellKeepsCore ==
  ASSUME Core, NoCell("worker"), NoMeeting'
  PROVE  Core'
<1>1. /\ pc["worker"] = "create" /\ pc' = [pc EXCEPT !["worker"] = "idle"]
      /\ odid' = [odid EXCEPT !["worker"] = NULL] /\ cur' = [cur EXCEPT !["worker"] = NULL]
      /\ tmp' = [tmp EXCEPT !["worker"] = 0] /\ segment' = NoSegment
      /\ UNCHANGED <<table, index, pass, undefined, owed>> /\ Observe
  BY DEF NoCell, GoTo, At, Return, history
<1>2. pc'["worker"] = "idle" /\ Still("monitor")
  BY <1>1, TwoThreads DEF Core, Types, CallTypes, Still
<1>3. Types'
  BY <1>1, <1>2 DEF Core, Types, TableTypes, IndexTypes, CallTypes, PassTypes, table, index, pass,
     Still, WorkerLabels, NoSegment
<1>4. WorkerStands' /\ ~(Walking("worker")')
  BY <1>2 DEF WorkerStands, Walking
<1>5. Lists' /\ Index' /\ Pass'
  BY <1>1, <1>2, <1>3, <1>4, WorkerMoves DEF Pending, table, pass
<1>6. Sums'
  BY <1>1, <1>2, SumsStay, ClashedGrows DEF table, pass, Still
<1> QED
  BY <1>1, <1>3, <1>5, <1>6 DEF Core

LEMMA LoadLengthKeepsCore ==
  ASSUME Core, LoadLength("worker"), NoMeeting'
  PROVE  Core'
<1>1. /\ pc["worker"] = "load_length" /\ pc' = [pc EXCEPT !["worker"] = "store_length"]
      /\ tmp' = [tmp EXCEPT !["worker"] = active_odids_length]
      /\ UNCHANGED <<table, index, odid, cur, segment, pass, undefined, owed>> /\ Observe
  BY DEF LoadLength, GoTo, At, history
<1>2. /\ pc'["worker"] = "store_length" /\ tmp'["worker"] = active_odids_length
      /\ odid'["worker"] = odid["worker"] /\ cur'["worker"] = cur["worker"] /\ Still("monitor")
  BY <1>1, TwoThreads DEF Core, Types, CallTypes, Still
<1>3. Types'
  BY <1>1, <1>2 DEF Core, Types, TableTypes, IndexTypes, CallTypes, PassTypes, table, index, pass,
     Still, WorkerLabels
<1>4. WorkerStands' /\ ~(Walking("worker")')
  BY <1>1, <1>2 DEF Core, Lists, WorkerStands, Walking, table
<1>5. Lists' /\ Index' /\ Pass'
  BY <1>1, <1>2, <1>3, <1>4, WorkerMoves DEF Pending, table, pass
<1>6. Sums'
  BY <1>1, <1>2, SumsStay, ClashedGrows DEF table, pass, Still
<1> QED
  BY <1>1, <1>3, <1>5, <1>6 DEF Core

LEMMA LoadCountKeepsCore ==
  ASSUME Core, LoadCount, ~undefined', NoMeeting'
  PROVE  Core'
<1>1. /\ pc["worker"] = "found" /\ pc' = [pc EXCEPT !["worker"] = "store_count"]
      /\ tmp' = [tmp EXCEPT !["worker"] = count[cur["worker"]][segment.type]]
      /\ UNCHANGED <<table, index, odid, cur, segment, pass, undefined, owed>> /\ Observe
  BY DEF LoadCount, GoTo, At, Undefined, history
<1>2. cur["worker"] \in Cells /\ owner[cur["worker"]] = odid["worker"]
  BY <1>1 DEF Core, Lists, WorkerStands
<1>3. count[cur["worker"]][segment.type] \in Nat
  <2>1. count[cur["worker"]] \in Counts /\ segment.type \in {"received", "dropped"}
    BY <1>2 DEF Core, Types, TableTypes, CallTypes
  <2> QED
    BY <2>1, CountsGrow
<1>4. /\ pc'["worker"] = "store_count" /\ tmp'["worker"] = count[cur["worker"]][segment.type]
      /\ odid'["worker"] = odid["worker"] /\ cur'["worker"] = cur["worker"] /\ Still("monitor")
  BY <1>1, TwoThreads DEF Core, Types, CallTypes, Still
<1>5. Types'
  BY <1>1, <1>3, <1>4 DEF Core, Types, TableTypes, IndexTypes, CallTypes, PassTypes, table, index,
     pass, Still, WorkerLabels
<1>6. WorkerStands' /\ ~(Walking("worker")')
  BY <1>1, <1>2, <1>4 DEF WorkerStands, Walking, table
<1>7. Lists' /\ Index' /\ Pass'
  BY <1>1, <1>4, <1>5, <1>6, WorkerMoves DEF Pending, table, pass
<1>8. Sums'
  <2>1. Clashed \subseteq Clashed'
    BY <1>1, ClashedGrows
  <2> QED
    BY <1>1, <1>4, <2>1 DEF Core, Sums, Has, table, pass, Still
<1> QED
  BY <1>1, <1>5, <1>7, <1>8 DEF Core

(* A count goes up by one, which a summary that is being sent of the same   *)
(* odid would miss.                                                         *)
LEMMA StoreCountKeepsCore ==
  ASSUME Core, StoreCount, ~undefined', NoMeeting'
  PROVE  Core'
<1> DEFINE a == cur["worker"]
           o == odid["worker"]
           c == [count[a] EXCEPT ![segment.type] = tmp["worker"] + 1]
<1>1. /\ pc["worker"] = "store_count" /\ pc' = [pc EXCEPT !["worker"] = "message_id"]
      /\ count' = [count EXCEPT ![a] = c] /\ owed' = [owed EXCEPT ![o] = owed[o] + 1]
      /\ UNCHANGED <<next, owner, index, call, pass, undefined>> /\ Observe
  BY DEF StoreCount, GoTo, At, Undefined
<1>2. a \in Cells /\ owner[a] = o /\ o \in Odids
  BY <1>1 DEF Core, Types, CallTypes, Lists, WorkerStands
<1>3. /\ count[a] \in Counts /\ segment.type \in {"received", "dropped"}
      /\ tmp["worker"] \in Nat
  BY <1>2, TwoThreads DEF Core, Types, TableTypes, CallTypes
<1>4. /\ c \in Counts
      /\ tmp["worker"] = count[a][segment.type] => Total(c) = Total(count[a]) + 1
  BY <1>3, CountsGrow
<1>5. pc'["worker"] = "message_id" /\ Still("monitor") /\ UNCHANGED <<odid, cur, tmp, segment>>
  BY <1>1, TwoThreads DEF Core, Types, CallTypes, Still, call
<1> HIDE DEF c
<1>6. /\ count' \in [Cells -> Counts] /\ count'[a] = c
      /\ \A d \in Cells : d # a => count'[d] = count[d]
      /\ owed' \in [Odids -> Int] /\ owed'[o] = owed[o] + 1
      /\ \A q \in Odids : q # o => owed'[q] = owed[q]
  BY <1>1, <1>2, <1>4 DEF Core, Types, TableTypes
<1>7. Types'
  BY <1>1, <1>5, <1>6 DEF Core, Types, TableTypes, IndexTypes, CallTypes, PassTypes, index, pass,
     Still, WorkerLabels
<1>8. WorkerStands' /\ ~(Walking("worker")')
  BY <1>1, <1>2, <1>5 DEF WorkerStands, Walking
<1>9. Lists' /\ Index' /\ Pass'
  BY <1>1, <1>5, <1>7, <1>8, WorkerMoves DEF Pending, pass
<1>10. Sums'
  <2>1. Clashed \subseteq Clashed'
    BY <1>1, ClashedGrows
  <2>2. \A d \in Cells : owner[d] = o => d = a
    BY <1>2, TableOfNames, Names DEF Core, Lists, OneCell
  <2>3. ASSUME NEW d \in Cells, owner'[d] \in Odids \ Clashed'
        PROVE  owed'[owner'[d]] = Total(count'[d])
    <3>1. owner'[d] = owner[d] /\ owner[d] \in Odids \ Clashed /\ owed[owner[d]] = Total(count[d])
      BY <1>1, <2>1, <2>3 DEF Core, Sums
    <3>2. CASE d = a
      <4>1. tmp["worker"] = count[a][segment.type]
        BY <1>1, <1>2, <3>1, <3>2 DEF Core, Sums
      <4> QED
        BY <1>2, <1>4, <1>6, <3>1, <3>2, <4>1
    <3>3. CASE d # a
      BY <1>6, <2>2, <3>1, <3>3
    <3> QED
      BY <3>2, <3>3
  <2>4. ASSUME NEW q \in Odids \ Clashed', ~Has(q)' PROVE owed'[q] = 0
    <3>1. q \in Odids \ Clashed /\ ~Has(q)
      BY <1>1, <2>1, <2>4 DEF Has
    <3>2. q # o
      BY <1>2, <3>1 DEF Has
    <3> QED
      BY <1>6, <3>1, <3>2 DEF Core, Sums
  <2>5. ASSUME pc'["monitor"] = "clear", odid'["monitor"] \notin Clashed'
        PROVE  Total(sum') = Total(count'[cur'["monitor"]])
    <3>1. pc["monitor"] = "clear" /\ odid["monitor"] \notin Clashed /\ odid["monitor"] \in Odids
      BY <1>5, <2>1, <2>5 DEF Still, Core, Types, CallTypes
    <3>2. odid["monitor"] # o
      BY <1>1, <1>2, <3>1 DEF Clashed, Clashes
    <3>3. cur["monitor"] \in Cells /\ cur["monitor"] # a
      BY <1>2, <3>1, <3>2 DEF Core, Lists, MonitorStands
    <3> QED
      BY <1>1, <1>5, <1>6, <3>1, <3>3 DEF Core, Sums, Still, pass
  <2>6. pc'["monitor"] \notin {"remove", "unlink"}
    BY <1>1, <1>5 DEF Core, NoMeeting, Removing, Still
  <2> QED
    BY <1>5, <2>3, <2>4, <2>5, <2>6 DEF Sums
<1> QED
  BY <1>1, <1>7, <1>9, <1>10 DEF Core

LEMMA CountMessageIdKeepsCore ==
  ASSUME Core, CountMessageId, ~undefined', NoMeeting'
  PROVE  Core'
<1> DEFINE a == cur["worker"]
<1>1. /\ pc["worker"] = "message_id" /\ pc' = [pc EXCEPT !["worker"] = "idle"]
      /\ \/ count' = [count EXCEPT ![a] =
                        [count[a] EXCEPT !.reordered = count[a].reordered + 1]]
         \/ count' = [count EXCEPT ![a] = [count[a] EXCEPT !.last = segment.mid]]
      /\ odid' = [odid EXCEPT !["worker"] = NULL] /\ cur' = [cur EXCEPT !["worker"] = NULL]
      /\ tmp' = [tmp EXCEPT !["worker"] = 0] /\ segment' = NoSegment
      /\ UNCHANGED <<next, owner, index, pass, undefined, owed>> /\ Observe
  BY DEF CountMessageId, GoTo, At, Undefined, Return, history
<1>2. a \in Cells
  BY <1>1 DEF Core, Lists, WorkerStands
<1>3. count[a] \in Counts /\ segment.mid \in Nat
  BY <1>2 DEF Core, Types, TableTypes, CallTypes
<1>4. PICK c \in Counts : count' = [count EXCEPT ![a] = c] /\ Total(c) = Total(count[a])
  BY <1>1, <1>3, CountsGrow
<1>5. /\ count' \in [Cells -> Counts]
      /\ \A d \in Cells : Total(count'[d]) = Total(count[d])
  BY <1>2, <1>4 DEF Core, Types, TableTypes
<1>6. pc'["worker"] = "idle" /\ Still("monitor")
  BY <1>1, TwoThreads DEF Core, Types, CallTypes, Still
<1>7. Types'
  BY <1>1, <1>5, <1>6 DEF Core, Types, TableTypes, IndexTypes, CallTypes, PassTypes, index, pass,
     Still, WorkerLabels, NoSegment
<1>8. WorkerStands' /\ ~(Walking("worker")')
  BY <1>6 DEF WorkerStands, Walking
<1>9. Lists' /\ Index' /\ Pass'
  BY <1>1, <1>6, <1>7, <1>8, WorkerMoves DEF Pending, pass
<1>10. Sums'
  <2>1. Clashed \subseteq Clashed'
    BY <1>1, ClashedGrows
  <2>2. pc'["monitor"] = "clear" => cur["monitor"] \in Cells
    BY <1>6 DEF Core, Lists, MonitorStands, Still
  <2> QED
    BY <1>1, <1>5, <1>6, <2>1, <2>2 DEF Core, Sums, Has, pass, Still
<1> QED
  BY <1>1, <1>7, <1>9, <1>10 DEF Core

(* A cell is linked at the end of its list, for the worker; the walk of the *)
(* monitoring thread ends before it.                                        *)
LEMMA LinkCellKeepsCore ==
  ASSUME Core, LinkCell("worker"), ~undefined', NoMeeting'
  PROVE  Core'
<1> DEFINE p == cur["worker"]
           o == odid["worker"]
<1>1. PICK a \in Cells :
        /\ owner[a] = NULL /\ pc["worker"] = "create"
        /\ next' = [next EXCEPT ![p] = a, ![a] = Garbage]
        /\ owner' = [owner EXCEPT ![a] = Garbage]
        /\ cur' = [cur EXCEPT !["worker"] = a]
        /\ pc' = [pc EXCEPT !["worker"] = "init"]
        /\ UNCHANGED <<count, index, odid, tmp, segment, pass, undefined, owed>> /\ Observe
  BY DEF LinkCell, GoTo, At, Undefined, history
<1>2. /\ who = owner /\ succ = next /\ owner \in Whos /\ next \in Succs
      /\ \A c \in Cells : owner[c] # Garbage
      /\ \A l \in Pointers : next[l] # Garbage
  BY <1>1, AllBuilt
<1>3. /\ o \in Odids /\ p \in Nodes(owner) /\ Home(owner, p) = hash_key[o]
      /\ next[p] = NULL /\ ~Has(o)
  BY <1>1 DEF Core, Types, CallTypes, Lists, WorkerStands
<1>4. p # a /\ p \in Pointers /\ a \in Pointers
  BY <1>1, <1>3, Names DEF Nodes
<1>5. /\ pc'["worker"] = "init" /\ cur'["worker"] = a /\ odid'["worker"] = o /\ Still("monitor")
  BY <1>1, TwoThreads DEF Core, Types, CallTypes, Still
<1> HIDE DEF p, o
<1>6. /\ \A c \in Cells : owner'[c] = IF c = a THEN Garbage ELSE owner[c]
      /\ \A l \in Pointers :
           next'[l] = IF l = a THEN Garbage ELSE IF l = p THEN a ELSE next[l]
  BY <1>1, <1>2, <1>4 DEF Whos, Succs
<1>7. Types'
  BY <1>1, <1>4, <1>5 DEF Core, Types, TableTypes, IndexTypes, CallTypes, PassTypes, index, pass,
     Still, WorkerLabels
<1>8. who' = [owner EXCEPT ![a] = o]
  <2>1. \A c \in Cells : who'[c] = IF c = a THEN o ELSE owner[c]
    BY <1>2, <1>5, <1>6 DEF who
  <2> QED
    BY <1>2, <2>1 DEF who, Whos
<1>9. succ' = [next EXCEPT ![p] = a, ![a] = NULL]
  <2>1. \A l \in Pointers : succ'[l] = IF l = a THEN NULL ELSE IF l = p THEN a ELSE next[l]
    BY <1>1, <1>2, <1>4, <1>6, Names DEF succ
  <2> QED
    BY <1>2, <1>4, <2>1 DEF succ, Succs
<1>10. \A q \in Odids : Has(q)' <=> Has(q)
  BY <1>1, <1>6, Names DEF Has
<1>11. pc["monitor"] \notin {"remove", "unlink", "compact", "shrink"}
  BY <1>1 DEF Core, NoMeeting, Removing
<1>12. Building'
  <2>1. \A c \in Cells : owner'[c] = Garbage => c = a
    BY <1>2, <1>6
  <2>2. \A l \in Pointers : next'[l] = Garbage => l = a
    BY <1>1, <1>2, <1>6, Names
  <2>3. owner'[a] = Garbage /\ next'[a] = Garbage
    BY <1>1, <1>4, <1>6
  <2> QED
    BY <1>1, <1>5, <2>1, <2>2, <2>3 DEF Building
<1>13. OneCell'
  BY <1>2, <1>3, <1>8 DEF Core, Lists, OneCell, Has, Whos
<1>14. Chain'
  <2>1. PICK rank \in Ranks :
          /\ Ordered(rank, owner, next)
          /\ \A t \in Threads : Walking(t) => Passed(rank, owner, cur[t], odid[t])
    BY <1>2 DEF Core, Lists, Chain
  <2> DEFINE r == [rank EXCEPT ![a] = rank[p] + 1]
  <2>2. Ordered(r, who', succ')
    BY <1>1, <1>2, <1>3, <1>8, <1>9, <2>1, ListGrows
  <2>3. r \in Ranks /\ \A l \in Pointers : l # a => r[l] = rank[l]
    BY <1>4 DEF Ranks
  <2> HIDE DEF r
  <2>4. ASSUME Walking("monitor")'
        PROVE  Passed(r, who', cur'["monitor"], odid'["monitor"])
    <3> DEFINE k == cur["monitor"]
               q == odid["monitor"]
    <3>1. Walking("monitor") /\ pc["monitor"] = "walk"
      BY <1>5, <1>11, <2>4 DEF Walking, Still
    <3>2. Passed(rank, owner, k, q) /\ Has(q) /\ q \in Odids
      BY <2>1, <3>1, TwoThreads DEF Core, Lists, MonitorStands, Types, CallTypes
    <3>3. q # o
      BY <1>3, <3>2
    <3>4. k \in Pointers /\ k # a /\ k \in Nodes(owner) /\ Home(owner, k) = hash_key[q]
      BY <1>1, <3>2, Names DEF Passed, Nodes
    <3>5. k \in Nodes(who') /\ Home(who', k) = hash_key[q]
      BY <1>2, <1>8, <3>4, Names DEF Nodes, Home, Whos
    <3>6. \A c \in Cells : who'[c] = q => c # a /\ owner[c] = q
      BY <1>2, <1>8, <3>3 DEF Whos
    <3>7. \A c \in Cells : who'[c] = q => r[k] < r[c]
      BY <2>3, <3>2, <3>4, <3>6, Names DEF Passed
    <3> QED
      BY <1>5, <3>5, <3>7 DEF Passed, Still
  <2>5. ~(Walking("worker")')
    BY <1>5 DEF Walking
  <2> QED
    BY <2>2, <2>3, <2>4, <2>5, TwoThreads DEF Chain
<1>15. WorkerStands'
  BY <1>5 DEF WorkerStands
<1>16. MonitorStands'
  <2>1. pc'["monitor"] = pc["monitor"] /\ odid'["monitor"] = odid["monitor"]
        /\ cur'["monitor"] = cur["monitor"]
    BY <1>5 DEF Still
  <2>2. pc["monitor"] \notin {"idle", "visit"} => odid["monitor"] \in Odids
    BY DEF Core, Types, CallTypes
  <2>3. Has(odid["monitor"]) /\ odid["monitor"] \in Odids => Has(odid["monitor"])'
    BY <1>10, <2>1
  <2>4. \A c \in Cells : owner[c] \in Odids => owner'[c] = owner[c]
    BY <1>1, <1>6, Names
  <2> QED
    BY <1>11, <2>1, <2>2, <2>3, <2>4 DEF Core, Lists, MonitorStands
<1>17. Index'
  <2>1. ~Pending(o) /\ ~Leaving(o)
    BY <1>1, <1>11 DEF Pending, Leaving
  <2>2. ~Listed(o)
    BY <1>3, <2>1 DEF Core, Index
  <2>3. \A q : (Listed(q)' <=> Listed(q)) /\ ~(Leaving(q)') /\ ~Leaving(q) /\ ~Pending(q)
    BY <1>1, <1>5, <1>11 DEF Listed, Length, Leaving, Still, index, Pending
  <2>4. \A q : Pending(q)' <=> q = o
    BY <1>5 DEF Pending
  <2>5. Length' = Length
    BY <1>1, <1>5 DEF Length, Still, index
  <2> QED
    BY <1>1, <1>5, <1>10, <1>11, <2>2, <2>3, <2>4, <2>5 DEF Core, Index, Still, index
<1>18. Pass'
  BY <1>1, <1>5, <1>10, PassStays DEF index, pass
<1>19. Sums'
  <2>1. Clashed \subseteq Clashed'
    BY <1>1, ClashedGrows
  <2>2. \A c \in Cells : owner'[c] \in Odids => owner'[c] = owner[c]
    BY <1>6, Names
  <2> QED
    BY <1>1, <1>5, <1>10, <1>11, <2>1, <2>2 DEF Core, Sums, pass, Still
<1> QED
  BY <1>1, <1>7, <1>12, <1>13, <1>14, <1>15, <1>16, <1>17, <1>18, <1>19 DEF Core, Lists

(* The cell gets the fields it was linked for.                              *)
LEMMA InitCellKeepsCore ==
  ASSUME Core, InitCell("worker"), NoMeeting'
  PROVE  Core'
<1> DEFINE a == cur["worker"]
           o == odid["worker"]
<1>1. /\ pc["worker"] = "init" /\ pc' = [pc EXCEPT !["worker"] = "index"]
      /\ owner' = [owner EXCEPT ![a] = o] /\ next' = [next EXCEPT ![a] = NULL]
      /\ count' = [count EXCEPT ![a] = Zero]
      /\ UNCHANGED <<index, odid, cur, tmp, segment, pass, undefined, owed>> /\ Observe
  BY DEF InitCell, GoTo, At, call, history
<1>2. /\ o \in Odids /\ a \in Cells /\ owner[a] = Garbage /\ next[a] = Garbage
      /\ \A c \in Cells : owner[c] = Garbage => c = a
      /\ \A l \in Pointers : next[l] = Garbage => l = a
  BY <1>1 DEF Core, Types, CallTypes, Lists, Building
<1>3. a \in Pointers /\ who[a] = o
  BY <1>2, Names DEF who
<1>4. ~Has(o)
  <2> SUFFICES ASSUME NEW c \in Cells, owner[c] = o PROVE FALSE
    BY DEF Has
  <2>1. who[c] = o /\ o # NULL
    BY <1>2, TableOfNames, Names
  <2>2. c = a
    BY <1>3, <1>2, <2>1 DEF Core, Lists, OneCell
  <2> QED
    BY <1>2, <2>2, Names
<1>5. /\ pc'["worker"] = "index" /\ cur'["worker"] = a /\ odid'["worker"] = o /\ Still("monitor")
  BY <1>1, TwoThreads DEF Core, Types, CallTypes, Still
<1> HIDE DEF a, o
<1>6. /\ \A c \in Cells : /\ owner'[c] = IF c = a THEN o ELSE owner[c]
                          /\ count'[c] = IF c = a THEN Zero ELSE count[c]
      /\ \A l \in Pointers : next'[l] = IF l = a THEN NULL ELSE next[l]
  BY <1>1, <1>2, <1>3 DEF Core, Types, TableTypes
<1>7. Types'
  <2>1. Zero \in Counts
    BY CountsGrow
  <2> QED
    BY <1>1, <1>2, <1>5, <2>1 DEF Core, Types, TableTypes, IndexTypes, CallTypes, PassTypes, index,
       pass, Still, WorkerLabels
<1>8. \A q \in Odids : Has(q)' <=> Has(q) \/ q = o
  BY <1>2, <1>6, Names DEF Has
<1>9. \A c \in Cells : owner'[c] = who[c] /\ owner'[c] # Garbage
  BY <1>2, <1>3, <1>6, Names DEF who
<1>10. \A l \in Pointers : next'[l] = succ[l] /\ next'[l] # Garbage
  BY <1>2, <1>6, Names DEF succ
<1>11. who' = who /\ succ' = succ
  BY <1>9, <1>10 DEF who, succ
<1>12. Building' /\ OneCell'
  BY <1>5, <1>9, <1>10, <1>11 DEF Core, Lists, Building, OneCell
<1>13. Chain'
  <2>1. ~(Walking("worker")') /\ (Walking("monitor")' => WalksOn("monitor"))
    BY <1>5 DEF Walking, WalksOn, Still
  <2> QED
    BY <1>11, <2>1, ChainStays, TwoThreads
<1>14. WorkerStands'
  BY <1>2, <1>5, <1>6 DEF WorkerStands
<1>15. pc["monitor"] \notin {"remove", "unlink", "compact", "shrink"}
  BY <1>1 DEF Core, NoMeeting, Removing
<1>16. /\ pc'["monitor"] = pc["monitor"] /\ odid'["monitor"] = odid["monitor"]
       /\ cur'["monitor"] = cur["monitor"]
       /\ pc["monitor"] \notin {"idle", "visit"} => odid["monitor"] \in Odids
  BY <1>5 DEF Still, Core, Types, CallTypes
<1>17. MonitorStands'
  <2>1. Has(odid["monitor"]) /\ odid["monitor"] \in Odids => Has(odid["monitor"])'
    BY <1>8, <1>16
  <2>2. \A c \in Cells : owner[c] \in Odids => owner'[c] = owner[c]
    BY <1>2, <1>6, Names
  <2> QED
    BY <1>15, <1>16, <2>1, <2>2 DEF Core, Lists, MonitorStands
<1>18. Searching => odid["monitor"] # o
  BY <1>2, <1>4, <1>16 DEF Core, Lists, MonitorStands, Searching, Has
<1>19. Index'
  <2>1. \A q : /\ Listed(q)' <=> Listed(q)
               /\ ~(Leaving(q)') /\ ~Leaving(q)
               /\ (Pending(q)' <=> q = o) /\ (Pending(q) <=> q = o)
    BY <1>1, <1>5, <1>15, <1>16 DEF Listed, Length, Leaving, index, Pending, o
  <2>2. Length' = Length
    BY <1>1, <1>16 DEF Length, index
  <2> QED
    BY <1>1, <1>5, <1>8, <1>15, <1>16, <2>1, <2>2 DEF Core, Index, index
<1>20. Pass'
  <2>1. ASSUME pc["monitor"] # "idle", NEW i \in Ahead
        PROVE  /\ active_odids[i].odid # o
               /\ \E c \in Cells : owner'[c] = active_odids[i].odid
    <3>1. active_odids[i].odid \in Odids /\ Has(active_odids[i].odid)
      BY <2>1 DEF Core, Pass, AheadExact
    <3>2. PICK c \in Cells : owner[c] = active_odids[i].odid
      BY <3>1 DEF Has
    <3>3. owner'[c] = active_odids[i].odid
      BY <1>2, <1>6, <3>1, <3>2, Names
    <3> QED
      BY <1>4, <3>1, <3>3
  <2> QED
    BY <1>1, <1>5, <1>15, <1>16, <1>18, <2>1 DEF Core, Pass, AheadExact, Ahead, Searching,
       Removing, Has, index, pass
<1>21. Sums'
  <2>1. Clashed \subseteq Clashed'
    BY <1>1, ClashedGrows
  <2>2. ASSUME NEW c \in Cells, owner'[c] \in Odids \ Clashed'
        PROVE  owed'[owner'[c]] = Total(count'[c])
    <3>1. CASE c = a
      <4>1. owner'[c] = o /\ o \in Odids \ Clashed /\ Total(count'[c]) = 0
        BY <1>2, <1>6, <2>1, <2>2, <3>1, CountsGrow
      <4>2. owed[o] = 0
        BY <1>4, <4>1 DEF Core, Sums
      <4> QED
        BY <1>1, <4>1, <4>2
    <3>2. CASE c # a
      BY <1>1, <1>6, <2>1, <2>2, <3>2 DEF Core, Sums
    <3> QED
      BY <3>1, <3>2
  <2>3. pc["monitor"] = "clear" => cur["monitor"] \in Cells /\ cur["monitor"] # a
    BY <1>2, <1>16, Names DEF Core, Lists, MonitorStands
  <2> QED
    BY <1>1, <1>5, <1>6, <1>8, <1>15, <1>16, <2>1, <2>2, <2>3 DEF Core, Sums, pass
<1> QED
  BY <1>1, <1>7, <1>12, <1>13, <1>14, <1>17, <1>19, <1>20, <1>21 DEF Core, Lists

(* The new odid is written behind the index, where a pass that captured a   *)
(* longer one may come to it, or be.                                        *)
LEMMA IndexOdidKeepsCore ==
  ASSUME Core, IndexOdid("worker"), ~undefined', NoMeeting'
  PROVE  Core'
<1> DEFINE o == odid["worker"]
           L == active_odids_length
           entry == [odid |-> o, active |-> 0]
<1>1. PICK fails \in BOOLEAN :
        LET grow == L + 1 >= active_odids_max_length
            size == active_odids_max_length + (IF grow /\ ~fails THEN ACTIVE_ODIDS ELSE 0)
            array == [i \in 0..size-1 |-> IF i \in DOMAIN active_odids
                                          THEN active_odids[i] ELSE UnusedSlot]
        IN /\ L < size /\ active_odids' = [array EXCEPT ![L] = entry]
           /\ active_odids_max_length' = size
           /\ pc["worker"] = "index" /\ pc' = [pc EXCEPT !["worker"] = "load_length"]
           /\ UNCHANGED <<table, active_odids_length, call, pass, undefined, owed>> /\ Observe
  BY DEF IndexOdid, GoTo, At, Undefined, history
<1> DEFINE size == active_odids_max_length'
<1>2. /\ L \in Nat /\ active_odids_max_length \in Nat /\ ACTIVE_ODIDS \in Nat \ {0}
      /\ active_odids \in [0..active_odids_max_length-1 -> Entries]
      /\ L <= active_odids_max_length /\ o \in Odids
  BY <1>1, MonitoringAssumption DEF Core, Types, IndexTypes, CallTypes, Index
<1>3. size \in Nat /\ active_odids_max_length <= size /\ L < size
  BY <1>1, <1>2
<1>4. /\ active_odids' \in [0..size-1 -> Entries]
      /\ active_odids'[L] = entry
      /\ \A i \in 0..active_odids_max_length-1 : i # L => active_odids'[i] = active_odids[i]
  <2>1. entry \in Entries /\ UnusedSlot \in Entries
    BY <1>2 DEF Entries, UnusedSlot
  <2>2. DOMAIN active_odids = 0..active_odids_max_length-1
    BY <1>2
  <2>3. active_odids' = [i \in 0..size-1 |->
                           IF i = L THEN entry
                           ELSE IF i \in 0..active_odids_max_length-1 THEN active_odids[i]
                           ELSE UnusedSlot]
    BY <1>1, <1>2, <2>2
  <2> HIDE DEF size, entry
  <2> QED
    BY <1>2, <1>3, <2>1, <2>3
<1>5. /\ pc'["worker"] = "load_length" /\ cur'["worker"] = cur["worker"]
      /\ odid'["worker"] = o /\ Still("monitor")
  BY <1>1, TwoThreads DEF Core, Types, CallTypes, Still, call
<1>6. /\ entry.odid = o /\ entry.active = 0
      /\ UNCHANGED <<next, owner, count, active_odids_length, odid, cur, tmp, segment, y, n, sum,
                     undefined, owed>> /\ Observe
  BY <1>1 DEF table, call, pass
<1> HIDE DEF o, L, entry, size
<1>7. Types'
  BY <1>1, <1>3, <1>4, <1>5, <1>6 DEF Core, Types, TableTypes, IndexTypes, CallTypes, PassTypes,
     Still, WorkerLabels, size
<1>8. WorkerStands' /\ ~(Walking("worker")')
  BY <1>1, <1>5, <1>6 DEF Core, Lists, WorkerStands, Walking
<1>9. Lists' /\ \A q : Has(q)' <=> Has(q)
  BY <1>1, <1>5, <1>6, <1>7, <1>8, WorkerKeepsLists
<1>10. pc["monitor"] \notin {"remove", "unlink", "compact", "shrink"}
  BY <1>1 DEF Core, NoMeeting, Removing
<1>11. Index'
  <2>0. pc'["monitor"] = pc["monitor"]
    BY <1>5 DEF Still
  <2>1. Length = L /\ Length' = L
    BY <1>6, <1>10, <2>0 DEF Length, L
  <2>2. \A i \in 0..L-1 : active_odids'[i] = active_odids[i]
    BY <1>2, <1>4
  <2>3. \A q : Listed(q)' <=> Listed(q)
    BY <2>1, <2>2 DEF Listed
  <2>4. \A q : /\ Listed(q)' <=> Listed(q)
               /\ ~(Leaving(q)') /\ ~Leaving(q)
               /\ (Pending(q)' <=> q = o) /\ (Pending(q) <=> q = o)
    BY <1>1, <1>5, <1>10, <2>0, <2>3 DEF Leaving, Pending, o
  <2>5. active_odids_length' = L /\ L <= size /\ L < size /\ active_odids'[L].odid = o
    BY <1>2, <1>3, <1>4, <1>6 DEF L
  <2>6. /\ \A i \in 0..L-1 : active_odids'[i].odid # Garbage
        /\ \A i, j \in 0..L-1 : active_odids'[i].odid = active_odids'[j].odid => i = j
    BY <2>1, <2>2 DEF Core, Index, L
  <2>7. \A q \in Odids : /\ Pending(q)' => ~(Listed(q)')
                         /\ ~(Pending(q)') /\ ~(Leaving(q)') => (Listed(q)' <=> Has(q)')
    BY <1>9, <2>4 DEF Core, Index
  <2> QED
    BY <1>5, <1>10, <2>0, <2>1, <2>5, <2>6, <2>7 DEF Index, size
<1>12. Pass'
  <2> SUFFICES ASSUME pc["monitor"] # "idle" PROVE Pass'
    BY <1>5 DEF Pass, Still
  <2>1. y \in Nat /\ n \in Nat /\ n <= active_odids_max_length
    BY DEF Core, Types, PassTypes, Pass
  <2>2. pc["monitor"] # "visit" => y < n
    BY DEF Core, Pass
  <2>3. Ahead' = Ahead /\ \A i \in Ahead : i \in 0..active_odids_max_length-1
    BY <1>2, <1>5, <1>6, <2>1 DEF Ahead, Still
  <2>4. \A i \in Ahead : active_odids'[i].odid = IF i = L THEN o ELSE active_odids[i].odid
    BY <1>4, <1>6, <2>3
  <2>5. \A i \in Ahead : active_odids[i].odid # o
    BY <1>1 DEF Core, Pass, AheadExact, o
  <2>6. \E c \in Cells : owner'[c] = o
    BY <1>1, <1>6 DEF Core, Lists, WorkerStands, o
  <2>7. \A i \in Ahead : active_odids'[i].odid \in Odids
                         /\ \E c \in Cells : owner'[c] = active_odids'[i].odid
    BY <1>2, <1>6, <2>4, <2>6 DEF Core, Pass, AheadExact, Has
  <2>8. \A i, j \in Ahead : active_odids'[i].odid = active_odids'[j].odid => i = j
    BY <2>4, <2>5 DEF Core, Pass, AheadExact
  <2>9. Searching => odid["monitor"] # o
    BY <1>1 DEF Core, Pass, o
  <2>10. Searching => \A i \in Ahead : active_odids'[i].odid # odid["monitor"]
    BY <2>4, <2>9 DEF Core, Pass, AheadExact
  <2>11. Searching =>
           active_odids'[y].odid = odid["monitor"] \/ active_odids'[y].active = 0
    <3>1. Searching => y \in 0..active_odids_max_length-1
      BY <1>2, <2>1, <2>2 DEF Searching
    <3> QED
      BY <1>4, <1>6, <3>1 DEF Core, Pass
  <2>12. /\ Searching' <=> Searching
         /\ ~Removing /\ ~(Removing')
    BY <1>5, <1>10 DEF Searching, Still, Removing
  <2>13. AheadExact'
    BY <1>5, <2>3, <2>7, <2>8, <2>10, <2>12 DEF AheadExact, Has, Still
  <2> QED
    BY <1>2, <1>3, <1>5, <1>6, <1>10, <2>1, <2>2, <2>11, <2>12, <2>13 DEF Pass, Still, size
<1>13. Sums'
  BY <1>5, <1>6, SumsStay, ClashedGrows DEF Still
<1> QED
  BY <1>1, <1>6, <1>7, <1>9, <1>11, <1>12, <1>13 DEF Core

(* The new odid is part of the index.                                       *)
LEMMA StoreLengthKeepsCore ==
  ASSUME Core, StoreLength("worker"), NoMeeting'
  PROVE  Core'
<1> DEFINE o == odid["worker"]
           L == active_odids_length
<1>1. /\ pc["worker"] = "store_length" /\ pc' = [pc EXCEPT !["worker"] = "found"]
      /\ active_odids_length' = tmp["worker"] + 1
      /\ UNCHANGED <<table, active_odids, active_odids_max_length, call, pass, undefined, owed>>
      /\ Observe
  BY DEF StoreLength, GoTo, At, history
<1>2. /\ L \in Nat /\ active_odids_max_length \in Nat /\ tmp["worker"] = L /\ o \in Odids
      /\ L < active_odids_max_length /\ active_odids[L].odid = o
  BY <1>1 DEF Core, Types, IndexTypes, CallTypes, Index
<1>3. /\ pc'["worker"] = "found" /\ cur'["worker"] = cur["worker"]
      /\ odid'["worker"] = o /\ Still("monitor")
  BY <1>1, TwoThreads DEF Core, Types, CallTypes, Still, call
<1> HIDE DEF o
<1>4. Types'
  BY <1>1, <1>2, <1>3 DEF Core, Types, TableTypes, IndexTypes, CallTypes, PassTypes, table, call,
     pass, Still, WorkerLabels
<1>5. WorkerStands' /\ ~(Walking("worker")')
  BY <1>1, <1>3 DEF Core, Lists, WorkerStands, Walking, table, o
<1>6. Lists' /\ \A q : Has(q)' <=> Has(q)
  BY <1>1, <1>3, <1>4, <1>5, WorkerKeepsLists DEF table
<1>7. pc["monitor"] \notin {"remove", "unlink", "compact", "shrink"}
  BY <1>1 DEF Core, NoMeeting, Removing
<1>8. Index'
  <2>1. Length = L /\ Length' = L + 1 /\ active_odids_length' = L + 1
    BY <1>1, <1>2, <1>3, <1>7 DEF Length, Still
  <2>2. \A i \in 0..L : i \in 0..L-1 \/ i = L
    BY <1>2
  <2>3. \A q : Listed(q)' <=> Listed(q) \/ q = o
    <3>1. L \in 0..L /\ \A i \in 0..L-1 : i \in 0..L
      BY <1>2
    <3>2. 0..Length-1 = 0..L-1 /\ 0..Length'-1 = 0..L
      BY <1>2, <2>1
    <3> QED
      BY <1>1, <1>2, <2>2, <3>1, <3>2 DEF Listed
  <2>4. \A q : /\ ~(Leaving(q)') /\ ~Leaving(q)
               /\ ~(Pending(q)') /\ (Pending(q) <=> q = o)
    BY <1>1, <1>3, <1>7 DEF Leaving, Still, Pending, o
  <2>5. ~Listed(o) /\ Has(o)
    BY <1>1, <1>2, <2>4 DEF Core, Index, Lists, WorkerStands, Has, o
  <2>6. \A i \in 0..L-1 : active_odids[i].odid # o
    BY <2>1, <2>5 DEF Listed
  <2>7. \A i, j \in 0..L : active_odids[i].odid = active_odids[j].odid => i = j
    BY <1>2, <2>1, <2>2, <2>6 DEF Core, Index
  <2>8. \A i \in 0..L : active_odids[i].odid # Garbage
    BY <1>2, <2>2, Names DEF Core, Index
  <2>9. 0..Length'-1 = 0..L /\ 0..active_odids_length'-1 = 0..L
    BY <1>2, <2>1
  <2>10. \A q \in Odids : Listed(q)' <=> Has(q)'
    BY <1>6, <2>3, <2>4, <2>5 DEF Core, Index
  <2> HIDE DEF L
  <2> QED
    BY <1>1, <1>2, <1>3, <1>7, <2>1, <2>4, <2>7, <2>8, <2>9, <2>10 DEF Index, Still
<1>9. Pass'
  BY <1>1, <1>3, <1>6, PassStays DEF pass
<1>10. Sums'
  BY <1>1, <1>3, SumsStay, ClashedGrows DEF table, pass, Still
<1> QED
  BY <1>1, <1>4, <1>6, <1>8, <1>9, <1>10 DEF Core

-----------------------------------------------------------------------------
(* The steps of the monitoring thread.                                      *)
LEMMA WakeKeepsCore ==
  ASSUME Core, Wake
  PROVE  Core'
<1>1. /\ pc["monitor"] = "idle" /\ pc' = [pc EXCEPT !["monitor"] = "visit"]
      /\ y' = 0 /\ n' = active_odids_length
      /\ UNCHANGED <<table, index, call, sum, undefined, owed>> /\ Observe
  BY DEF Wake, GoTo, At, history
<1>2. pc'["monitor"] = "visit" /\ Still("worker") /\ UNCHANGED <<odid, cur, tmp>>
  BY <1>1, TwoThreads DEF Core, Types, CallTypes, Still, call
<1>3. Types'
  BY <1>1, <1>2 DEF Core, Types, TableTypes, IndexTypes, CallTypes, PassTypes, table, index, call,
     Still, MonitorLabels
<1>4. MonitorStands' /\ ~(Walking("monitor")') /\ SameOdids /\ \A o : ~Leaving(o)
  BY <1>1, <1>2 DEF MonitorStands, Walking, SameOdids, index, Leaving
<1>5. Lists' /\ Index' /\ \A o : Has(o)' <=> Has(o)
  BY <1>1, <1>2, <1>3, <1>4, MonitorMoves DEF table
<1>6. Pass'
  <2>1. /\ active_odids_length \in Nat /\ active_odids_length <= active_odids_max_length
        /\ active_odids \in [0..active_odids_max_length-1 -> Entries]
        /\ active_odids_max_length \in Nat
    BY DEF Core, Types, IndexTypes, Index
  <2>2. Ahead' = 0..active_odids_length-1 /\ Length = active_odids_length
    BY <1>1, <1>2 DEF Ahead, Length
  <2>3. ASSUME NEW i \in Ahead'
        PROVE  /\ active_odids[i].odid \in Odids /\ Has(active_odids[i].odid)
               /\ pc["worker"] = "index" => active_odids[i].odid # odid["worker"]
    <3> DEFINE o == active_odids[i].odid
    <3>1. i \in 0..active_odids_max_length-1 /\ i \in 0..active_odids_length-1
      BY <2>1, <2>2
    <3>2. active_odids[i] \in Entries /\ o # Garbage
      BY <2>1, <3>1 DEF Core, Index
    <3>3. o \in Odids /\ Listed(o)
      BY <2>2, <3>1, <3>2 DEF Entries, Listed
    <3>4. ~Pending(o)
      BY <3>3 DEF Core, Index
    <3> HIDE DEF o
    <3>5. Has(o)
      BY <1>4, <3>3, <3>4 DEF Core, Index
    <3> QED
      BY <3>3, <3>4, <3>5 DEF Pending, o
  <2>4. \A i, j \in Ahead' : active_odids[i].odid = active_odids[j].odid => i = j
    BY <2>2 DEF Core, Index
  <2>5. AheadExact'
    BY <1>1, <1>2, <2>3, <2>4 DEF AheadExact, Searching, Removing, Has, Still, table, index
  <2> QED
    BY <1>1, <1>2, <2>1, <2>5 DEF Pass, Searching, index
<1>7. Sums'
  BY <1>1, <1>2, SumsStay, ClashedGrows DEF table, call, Still
<1> QED
  BY <1>1, <1>2, <1>3, <1>5, <1>6, <1>7 DEF Core, NoMeeting, Removing

LEMMA EndPassKeepsCore ==
  ASSUME Core, EndPass
  PROVE  Core'
<1>1. /\ pc["monitor"] = "visit" /\ pc' = [pc EXCEPT !["monitor"] = "idle"]
      /\ y' = 0 /\ n' = 0
      /\ UNCHANGED <<table, index, call, sum, undefined, owed>> /\ Observe
  BY DEF EndPass, GoTo, At, history
<1>2. pc'["monitor"] = "idle" /\ Still("worker") /\ UNCHANGED <<odid, cur, tmp>>
  BY <1>1, TwoThreads DEF Core, Types, CallTypes, Still, call
<1>3. Types'
  BY <1>1, <1>2 DEF Core, Types, TableTypes, IndexTypes, CallTypes, PassTypes, table, index, call,
     Still, MonitorLabels
<1>4. MonitorStands' /\ ~(Walking("monitor")') /\ SameOdids /\ \A o : ~Leaving(o)
  BY <1>1, <1>2 DEF MonitorStands, Walking, SameOdids, index, Leaving
<1>5. Lists' /\ Index'
  BY <1>1, <1>2, <1>3, <1>4, MonitorMoves DEF table
<1>6. Sums'
  BY <1>1, <1>2, SumsStay, ClashedGrows DEF table, call, Still
<1> QED
  BY <1>1, <1>2, <1>3, <1>5, <1>6 DEF Core, NoMeeting, Removing, Pass

(* The odid of the entry has a cell, for the walk to find.                  *)
LEMMA VisitKeepsCore ==
  ASSUME Core, Visit, ~undefined'
  PROVE  Core'
<1> DEFINE o == active_odids[y].odid
<1>1. /\ pc["monitor"] = "visit" /\ pc' = [pc EXCEPT !["monitor"] = "walk"] /\ y < n
      /\ odid' = [odid EXCEPT !["monitor"] = o]
      /\ cur' = [cur EXCEPT !["monitor"] = hash_key[o]]
      /\ UNCHANGED <<table, index, tmp, segment, pass, undefined, owed>> /\ Observe
  BY DEF Visit, GoTo, At, StartWalk, Undefined, history
<1>2. /\ y \in Nat /\ n \in Nat /\ y \in Ahead
      /\ \A i \in y+1..n-1 : i \in Ahead /\ i # y
  BY <1>1 DEF Core, Types, PassTypes, Ahead
<1>3. o \in Odids /\ Has(o) /\ hash_key[o] \in Buckets /\ hash_key[o] \in Pointers
  BY <1>1, <1>2, Names DEF Core, Pass, AheadExact
<1>4. /\ pc'["monitor"] = "walk" /\ odid'["monitor"] = o /\ cur'["monitor"] = hash_key[o]
      /\ Still("worker")
  BY <1>1, <1>3, TwoThreads DEF Core, Types, CallTypes, Still
<1>5. Types'
  BY <1>1, <1>3, <1>4 DEF Core, Types, TableTypes, IndexTypes, CallTypes, PassTypes, table, index,
     pass, Still, MonitorLabels
<1>6. MonitorStands'
  BY <1>1, <1>3, <1>4, Names DEF MonitorStands, Has, table
<1>7. WalksOn("monitor") /\ SameOdids /\ \A q : ~Leaving(q)
  BY <1>1, <1>3, <1>4 DEF WalksOn, SameOdids, index, Leaving
<1>8. Lists' /\ Index' /\ \A q : Has(q)' <=> Has(q)
  BY <1>1, <1>4, <1>5, <1>6, <1>7, MonitorMoves DEF table
<1>9. Pass'
  <2>1. Ahead' = y+1..n-1
    BY <1>1, <1>4 DEF Ahead, pass
  <2>2. \A i \in y+1..n-1 : active_odids[i].odid # o
    BY <1>1, <1>2 DEF Core, Pass, AheadExact
  <2>3. pc["worker"] = "index" => o # odid["worker"]
    BY <1>1, <1>2 DEF Core, Pass, AheadExact
  <2>4. AheadExact'
    BY <1>1, <1>2, <1>4, <2>1, <2>2 DEF Core, Pass, AheadExact, Has, Still, table, index
  <2> QED
    BY <1>1, <1>4, <2>3, <2>4 DEF Core, Pass, Still, index, pass
<1>10. Sums'
  BY <1>1, <1>4, SumsStay, ClashedGrows DEF table, pass, Still
<1> QED
  BY <1>1, <1>4, <1>5, <1>8, <1>9, <1>10 DEF Core, NoMeeting, Removing

LEMMA MonitorWalkKeepsCore ==
  ASSUME Core, Walk("monitor"), ~undefined'
  PROVE  Core'
<1> DEFINE p == cur["monitor"]
           a == next[p]
           o == odid["monitor"]
<1>1. pc["monitor"] = "walk"
  BY DEF Walk, At
<1>2. /\ a \in Cells /\ owner[a] \in Odids /\ succ[p] = a /\ o \in Odids
      /\ a \in Pointers /\ a # NULL /\ p # NULL /\ who[a] = owner[a]
  BY <1>1, MonitorSees, TableOfNames, Names DEF Core, Types, CallTypes, Lists, MonitorStands
<1>3. /\ pc' = [pc EXCEPT !["monitor"] = IF owner[a] = o THEN "found" ELSE "walk"]
      /\ cur' = [cur EXCEPT !["monitor"] = a]
      /\ UNCHANGED <<table, index, odid, tmp, segment, pass, undefined, owed>> /\ Observe
  BY <1>2 DEF Walk, GoTo, At, Undefined, history
<1>4. /\ pc'["monitor"] = (IF owner[a] = o THEN "found" ELSE "walk") /\ cur'["monitor"] = a
      /\ odid'["monitor"] = o /\ Still("worker")
  BY <1>3, TwoThreads DEF Core, Types, CallTypes, Still
<1>5. Types'
  BY <1>2, <1>3, <1>4 DEF Core, Types, TableTypes, IndexTypes, CallTypes, PassTypes, table, index,
     pass, Still, MonitorLabels
<1>6. MonitorStands'
  <2>1. Has(o)
    BY <1>1 DEF Core, Lists, MonitorStands
  <2> HIDE DEF a, o
  <2> QED
    BY <1>2, <1>3, <1>4, <2>1 DEF MonitorStands, Has, table
<1>7. Walking("monitor")' => WalksOn("monitor")
  BY <1>1, <1>2, <1>4 DEF Walking, WalksOn
<1>8. Lists' /\ Index' /\ \A q : Has(q)' <=> Has(q)
  <2>1. SameOdids /\ \A q : ~Leaving(q)
    BY <1>1, <1>3 DEF SameOdids, index, Leaving
  <2> QED
    BY <1>1, <1>3, <1>4, <1>5, <1>6, <1>7, <2>1, MonitorMoves DEF table
<1>9. Pass'
  BY <1>1, <1>3, <1>4, <1>8, PassGoesOn DEF Searching, Removing, index, pass
<1>10. Sums'
  BY <1>3, <1>4, SumsStay, ClashedGrows DEF table, pass, Still
<1> QED
  BY <1>3, <1>4, <1>5, <1>8, <1>9, <1>10 DEF Core, NoMeeting, Removing

(* An entry that has aged is the one of the odid that was looked up: the    *)
(* worker would have written another one as young.                          *)
LEMMA InspectKeepsCore ==
  ASSUME Core, Inspect, NoMeeting'
  PROVE  Core'
<1> DEFINE a == cur["monitor"]
           o == odid["monitor"]
<1>1. /\ pc["monitor"] = "found" /\ has_values' = odid_counter_has_values(a)
      /\ pc' = [pc EXCEPT !["monitor"] =
                  IF ~has_values' /\ active_odids[y].active = ODID_TIME_TO_LIVE
                    THEN "remove" ELSE "summary"]
      /\ UNCHANGED <<table, index, call, y, n, sum, undefined, owed>> /\ Observe
  BY DEF Inspect, GoTo, At, history
<1>2. a \in Cells /\ owner[a] = o /\ o \in Odids
  BY <1>1 DEF Core, Types, CallTypes, Lists, MonitorStands
<1>3. /\ pc'["monitor"] \in {"remove", "summary"} /\ UNCHANGED <<odid, cur, tmp, segment>>
      /\ pc'["monitor"] = "remove" =>
           ~odid_counter_has_values(a) /\ active_odids[y].active = ODID_TIME_TO_LIVE
      /\ Still("worker")
  BY <1>1, TwoThreads DEF Core, Types, CallTypes, Still, call
<1>4. Types'
  BY <1>1, <1>2, <1>3 DEF Core, Types, TableTypes, IndexTypes, CallTypes, PassTypes, table, index,
     Still, MonitorLabels
<1>5. MonitorStands' /\ ~(Walking("monitor")')
  BY <1>1, <1>2, <1>3 DEF MonitorStands, Has, Walking, table
<1>6. Lists' /\ Index' /\ \A q : Has(q)' <=> Has(q)
  <2>1. SameOdids /\ \A q : ~Leaving(q)
    BY <1>1 DEF SameOdids, index, Leaving
  <2> QED
    BY <1>1, <1>3, <1>4, <1>5, <2>1, MonitorMoves DEF table
<1>7. Pass'
  <2>1. pc'["monitor"] = "remove" => active_odids[y].odid = o
    BY <1>1, <1>3, MonitoringAssumption DEF Core, Pass, Searching
  <2> QED
    BY <1>1, <1>3, <1>6, <2>1, PassGoesOn DEF Searching, Removing, index
<1>8. Sums'
  <2>1. ASSUME pc'["monitor"] = "remove", NEW c \in Cells, owner[c] = o PROVE Total(count[c]) = 0
    <3>1. c = a
      BY <1>2, <2>1, TableOfNames, Names DEF Core, Lists, OneCell
    <3>2. count[a] = Zero
      BY <1>2, <1>3, <2>1, Names DEF odid_counter_has_values
    <3> QED
      BY <3>1, <3>2, CountsGrow
  <2>2. Clashed \subseteq Clashed'
    BY <1>1, ClashedGrows
  <2> QED
    BY <1>1, <1>3, <2>1, <2>2 DEF Core, Sums, Has, table, Still
<1> QED
  BY <1>1, <1>4, <1>6, <1>7, <1>8 DEF Core

LEMMA SummaryKeepsCore ==
  ASSUME Core, get_summary \/ NoSummary, NoMeeting'
  PROVE  Core'
<1> DEFINE a == cur["monitor"]
<1>1. /\ pc["monitor"] = "summary"
      /\ \/ pc' = [pc EXCEPT !["monitor"] = "clear"] /\ sum' = count[a]
         \/ pc' = [pc EXCEPT !["monitor"] = "mark"] /\ sum' = sum
      /\ UNCHANGED <<table, index, call, y, n, undefined, owed>> /\ Observe
  BY DEF get_summary, NoSummary, GoTo, At, pass, history
<1>2. a \in Cells /\ owner[a] = odid["monitor"] /\ odid["monitor"] \in Odids
  BY <1>1 DEF Core, Types, CallTypes, Lists, MonitorStands
<1>3. /\ pc'["monitor"] \in {"clear", "mark"} /\ UNCHANGED <<odid, cur, tmp, segment>>
      /\ pc'["monitor"] = "clear" => sum' = count[a]
      /\ sum' \in Counts /\ Still("worker")
  BY <1>1, <1>2, TwoThreads DEF Core, Types, TableTypes, PassTypes, CallTypes, Still, call
<1>4. Types'
  BY <1>1, <1>2, <1>3 DEF Core, Types, TableTypes, IndexTypes, CallTypes, PassTypes, table, index,
     Still, MonitorLabels
<1>5. MonitorStands' /\ ~(Walking("monitor")')
  BY <1>1, <1>2, <1>3 DEF MonitorStands, Walking, table
<1>6. Lists' /\ Index' /\ \A q : Has(q)' <=> Has(q)
  <2>1. SameOdids /\ \A q : ~Leaving(q)
    BY <1>1 DEF SameOdids, index, Leaving
  <2> QED
    BY <1>1, <1>3, <1>4, <1>5, <2>1, MonitorMoves DEF table
<1>7. Pass'
  BY <1>1, <1>3, <1>6, PassGoesOn DEF Searching, Removing, index
<1>8. Sums'
  <2>1. Clashed \subseteq Clashed'
    BY <1>1, ClashedGrows
  <2> QED
    BY <1>1, <1>3, <2>1 DEF Core, Sums, Has, table, Still
<1> QED
  BY <1>1, <1>4, <1>6, <1>7, <1>8 DEF Core

(* What the summary does not have was counted in between, and is lost.      *)
LEMMA ReinitKeepsCore ==
  ASSUME Core, reinit_odid_counters, NoMeeting'
  PROVE  Core'
<1> DEFINE a == cur["monitor"]
           o == odid["monitor"]
<1>1. /\ pc["monitor"] = "clear" /\ pc' = [pc EXCEPT !["monitor"] = "mark"]
      /\ count' = [count EXCEPT ![a] = Zero] /\ owed' = [owed EXCEPT ![o] = owed[o] - Total(sum)]
      /\ UNCHANGED <<next, owner, index, call, pass, undefined>> /\ Observe
  BY DEF reinit_odid_counters, GoTo, At
<1>2. /\ a \in Cells /\ owner[a] = o /\ o \in Odids
      /\ Zero \in Counts /\ Total(Zero) = 0 /\ sum \in Counts /\ Total(sum) \in Nat
  BY <1>1, CountsGrow DEF Core, Types, CallTypes, PassTypes, Lists, MonitorStands
<1>3. /\ pc'["monitor"] = "mark" /\ UNCHANGED <<odid, cur, tmp, segment, y, n, sum>>
      /\ Still("worker")
  BY <1>1, TwoThreads DEF Core, Types, CallTypes, Still, call, pass
<1>4. /\ count' \in [Cells -> Counts] /\ count'[a] = Zero
      /\ \A d \in Cells : d # a => count'[d] = count[d]
      /\ owed' \in [Odids -> Int] /\ owed'[o] = owed[o] - Total(sum)
      /\ \A q \in Odids : q # o => owed'[q] = owed[q]
  BY <1>1, <1>2 DEF Core, Types, TableTypes
<1>5. Types'
  BY <1>1, <1>2, <1>3, <1>4 DEF Core, Types, TableTypes, IndexTypes, CallTypes, PassTypes, index,
     Still, MonitorLabels
<1>6. MonitorStands' /\ ~(Walking("monitor")')
  BY <1>3 DEF MonitorStands, Walking
<1>7. Lists' /\ Index' /\ \A q : Has(q)' <=> Has(q)
  <2>1. SameOdids /\ \A q : ~Leaving(q)
    BY <1>1 DEF SameOdids, index, Leaving
  <2> QED
    BY <1>1, <1>3, <1>5, <1>6, <2>1, MonitorMoves
<1>8. Pass'
  BY <1>1, <1>3, <1>7, PassGoesOn DEF Searching, Removing, index
<1>9. Sums'
  <2>1. Clashed \subseteq Clashed'
    BY <1>1, ClashedGrows
  <2>2. \A d \in Cells : owner[d] = o => d = a
    BY <1>2, TableOfNames, Names DEF Core, Lists, OneCell
  <2>3. ASSUME NEW d \in Cells, owner'[d] \in Odids \ Clashed'
        PROVE  owed'[owner'[d]] = Total(count'[d])
    <3>1. owner'[d] = owner[d] /\ owner[d] \in Odids \ Clashed /\ owed[owner[d]] = Total(count[d])
      BY <1>1, <2>1, <2>3 DEF Core, Sums
    <3>2. CASE d = a
      <4>1. Total(sum) = Total(count[a])
        BY <1>1, <1>2, <3>1, <3>2 DEF Core, Sums
      <4> QED
        BY <1>2, <1>4, <3>1, <3>2, <4>1
    <3>3. CASE d # a
      BY <1>4, <2>2, <3>1, <3>3
    <3> QED
      BY <3>2, <3>3
  <2>4. ASSUME NEW q \in Odids \ Clashed', ~Has(q)' PROVE owed'[q] = 0
    <3>1. q \in Odids \ Clashed /\ ~Has(q)
      BY <1>1, <2>1, <2>4 DEF Has
    <3>2. q # o
      BY <1>2, <3>1 DEF Has
    <3> QED
      BY <1>4, <3>1, <3>2 DEF Core, Sums
  <2>5. ASSUME pc'["worker"] = "store_count", odid'["worker"] \notin Clashed'
        PROVE  tmp'["worker"] = count'[cur'["worker"]][segment'.type]
    <3>1. pc["worker"] = "store_count" /\ odid["worker"] \notin Clashed /\ odid["worker"] \in Odids
      BY <1>3, <2>1, <2>5 DEF Still, Core, Types, CallTypes
    <3>2. odid["worker"] # o
      BY <1>1, <1>2, <3>1 DEF Clashed, Clashes
    <3>3. cur["worker"] \in Cells /\ cur["worker"] # a
      BY <1>2, <3>1, <3>2 DEF Core, Lists, WorkerStands
    <3> QED
      BY <1>3, <1>4, <3>1, <3>3 DEF Core, Sums, Still
  <2> QED
    BY <1>3, <2>3, <2>4, <2>5 DEF Sums
<1> QED
  BY <1>1, <1>5, <1>7, <1>8, <1>9 DEF Core

LEMMA MarkKeepsCore ==
  ASSUME Core, Mark
  PROVE  Core'
<1> DEFINE age == IF has_values THEN 0 ELSE active_odids[y].active + 1
<1>1. /\ pc["monitor"] = "mark" /\ pc' = [pc EXCEPT !["monitor"] = "visit"]
      /\ active_odids' = [active_odids EXCEPT ![y] = [active_odids[y] EXCEPT !.active = age]]
      /\ y' = y + 1 /\ n' = n /\ sum' = Zero
      /\ odid' = [odid EXCEPT !["monitor"] = NULL] /\ cur' = [cur EXCEPT !["monitor"] = NULL]
      /\ tmp' = [tmp EXCEPT !["monitor"] = 0]
      /\ UNCHANGED <<table, active_odids_length, active_odids_max_length, segment, undefined, owed>>
      /\ Observe
  BY DEF Mark, GoTo, At, Return, history
<1>2. /\ y \in 0..active_odids_max_length-1 /\ active_odids[y] \in Entries
      /\ y \in Nat /\ n \in Nat /\ age \in Nat
      /\ active_odids \in [0..active_odids_max_length-1 -> Entries]
  <2>1. y < n
    BY <1>1 DEF Core, Pass
  <2> QED
    BY <1>1, <2>1, EntryOfPass DEF Core, Types, PassTypes, IndexTypes, Entries
<1> HIDE DEF age
<1>3. /\ active_odids' \in [0..active_odids_max_length-1 -> Entries]
      /\ \A i \in 0..active_odids_max_length-1 : active_odids'[i].odid = active_odids[i].odid
  <2>1. /\ [active_odids[y] EXCEPT !.active = age] \in Entries
        /\ [active_odids[y] EXCEPT !.active = age].odid = active_odids[y].odid
    BY <1>2 DEF Entries
  <2> QED
    BY <1>1, <1>2, <2>1
<1>4. pc'["monitor"] = "visit" /\ Still("worker")
  BY <1>1, TwoThreads DEF Core, Types, CallTypes, Still
<1>5. Types'
  <2>1. Zero \in Counts
    BY CountsGrow
  <2> QED
    BY <1>1, <1>2, <1>3, <1>4, <2>1 DEF Core, Types, TableTypes, IndexTypes, CallTypes, PassTypes,
       table, Still, MonitorLabels
<1>6. MonitorStands' /\ ~(Walking("monitor")') /\ SameOdids /\ \A o : ~Leaving(o)
  BY <1>1, <1>3, <1>4 DEF MonitorStands, Walking, SameOdids, Leaving
<1>7. Lists' /\ Index' /\ \A o : Has(o)' <=> Has(o)
  BY <1>1, <1>4, <1>5, <1>6, MonitorMoves DEF table
<1>8. Pass'
  <2>1. n <= active_odids_max_length /\ AheadExact
    BY <1>1 DEF Core, Pass
  <2>2. Ahead' = Ahead /\ \A i \in Ahead : i \in 0..active_odids_max_length-1
    BY <1>1, <1>2, <1>4, <2>1 DEF Ahead, Core, Types, IndexTypes
  <2>3. \A i \in Ahead : active_odids'[i].odid = active_odids[i].odid
    BY <1>3, <2>2
  <2>4. AheadExact'
    BY <1>1, <1>4, <2>1, <2>2, <2>3 DEF AheadExact, Has, Searching, Removing, Still, table
  <2> QED
    BY <1>1, <1>4, <2>1, <2>4 DEF Pass, Searching
<1>9. Sums'
  <2>1. Clashed \subseteq Clashed'
    BY <1>1, ClashedGrows
  <2> QED
    BY <1>1, <1>4, <2>1 DEF Core, Sums, Has, Still, table
<1> QED
  BY <1>1, <1>4, <1>5, <1>7, <1>8, <1>9 DEF Core, NoMeeting, Removing

LEMMA RemoveKeepsCore ==
  ASSUME Core, Remove
  PROVE  Core'
<1> DEFINE o == odid["monitor"]
<1>1. /\ pc["monitor"] = "remove" /\ pc' = [pc EXCEPT !["monitor"] = "unlink"]
      /\ odid' = [odid EXCEPT !["monitor"] = active_odids[y].odid]
      /\ cur' = [cur EXCEPT !["monitor"] = hash_key[active_odids[y].odid]]
      /\ UNCHANGED <<table, index, tmp, segment, pass, undefined, owed>> /\ Observe
  BY DEF Remove, GoTo, At, StartWalk, history
<1>2. /\ active_odids[y].odid = o /\ o \in Odids /\ hash_key[o] \in Buckets
      /\ hash_key[o] \in Pointers /\ pc["worker"] = "idle"
  BY <1>1, Names DEF Core, Pass, Types, CallTypes, NoMeeting, Removing
<1>3. /\ pc'["monitor"] = "unlink" /\ odid'["monitor"] = o /\ cur'["monitor"] = hash_key[o]
      /\ Still("worker")
  BY <1>1, <1>2, TwoThreads DEF Core, Types, CallTypes, Still
<1>4. Types'
  BY <1>1, <1>2, <1>3 DEF Core, Types, TableTypes, IndexTypes, CallTypes, PassTypes, table, index,
     pass, Still, MonitorLabels
<1>5. MonitorStands' /\ WalksOn("monitor") /\ SameOdids /\ \A q : ~Leaving(q)
  BY <1>1, <1>2, <1>3, Names DEF MonitorStands, WalksOn, SameOdids, Leaving, index
<1>6. Lists' /\ Index' /\ \A q : Has(q)' <=> Has(q)
  BY <1>1, <1>3, <1>4, <1>5, MonitorMoves DEF table
<1>7. Pass'
  BY <1>1, <1>3, <1>6, PassGoesOn DEF Searching, Removing, index, pass
<1>8. Sums'
  BY <1>1, <1>3, SumsStay, ClashedGrows DEF table, pass, Still
<1> QED
  BY <1>1, <1>2, <1>3, <1>4, <1>6, <1>7, <1>8 DEF Core, NoMeeting, Still

(* The walk of a removal comes to the cell of the odid, frees it and goes   *)
(* on to the end of the list.                                               *)
LEMMA UnlinkKeepsCore ==
  ASSUME Core, Unlink, ~undefined'
  PROVE  Core'
<1> DEFINE p == cur["monitor"]
           a == next[p]
           o == odid["monitor"]
<1>1. pc["monitor"] = "unlink" /\ UNCHANGED <<count, index, odid, tmp, segment, pass, owed>>
      /\ pc["worker"] = "idle" /\ o \in Odids /\ Observe
  BY DEF Unlink, GoTo, At, Undefined, Core, NoMeeting, Removing, Types, CallTypes, table, call,
     history
<1>2. /\ who = owner /\ succ = next /\ owner \in Whos /\ next \in Succs
      /\ \A c \in Cells : owner[c] # Garbage
      /\ \A l \in Pointers : next[l] # Garbage
  BY <1>1, AllBuilt
<1>3. p # NULL => /\ p \in Nodes(owner) /\ Home(owner, p) = hash_key[o] /\ p \in Pointers
                  /\ a = NULL => ~Has(o)
                  /\ a # NULL => a \in Cells /\ owner[a] # NULL
  BY <1>1, OnTheList, TwoThreads
<1>4. Clashed \subseteq Clashed' /\ SameOdids
  BY <1>1, ClashedGrows DEF SameOdids, index
<1>5. CASE p = NULL \/ a = NULL
  <2>1. pc' = [pc EXCEPT !["monitor"] = "compact"] /\ UNCHANGED <<next, owner, cur>>
    BY <1>5 DEF Unlink, GoTo, Undefined, Usable, table, call
  <2>2. /\ pc'["monitor"] = "compact" /\ odid'["monitor"] = o /\ cur'["monitor"] = p
        /\ Still("worker")
    BY <1>1, <2>1, TwoThreads DEF Core, Types, CallTypes, Still
  <2>3. Types'
    BY <1>1, <2>1, <2>2 DEF Core, Types, TableTypes, IndexTypes, CallTypes, PassTypes, index,
       pass, Still, MonitorLabels
  <2>4. ~Has(o)
    BY <1>1, <1>3, <1>5 DEF Core, Lists, MonitorStands
  <2> HIDE DEF a, p, o
  <2>5. MonitorStands' /\ ~(Walking("monitor")')
    BY <2>1, <2>2, <2>4 DEF MonitorStands, Walking, Has
  <2>6. \A q : Leaving(q) => Leaving(q)'
    BY <1>1, <2>2 DEF Leaving, o
  <2>7. Lists' /\ Index' /\ \A q : Has(q)' <=> Has(q)
    BY <1>1, <1>4, <2>1, <2>2, <2>3, <2>5, <2>6, MonitorMoves
  <2>8. Pass'
    BY <1>1, <2>2, <2>7, PassGoesOn DEF Searching, Removing, index, pass, o
  <2>9. Sums'
    BY <1>1, <1>4, <2>1, <2>2, SumsStay DEF pass, Still
  <2> QED
    BY <1>1, <2>2, <2>3, <2>7, <2>8, <2>9 DEF Core, NoMeeting, Still
<1>6. CASE p # NULL /\ a # NULL /\ owner[a] # o
  <2>1. /\ pc' = [pc EXCEPT !["monitor"] = "unlink"] /\ UNCHANGED <<next, owner>>
        /\ cur' = [cur EXCEPT !["monitor"] = a]
    BY <1>6 DEF Unlink, GoTo, Undefined
  <2>2. /\ pc'["monitor"] = "unlink" /\ odid'["monitor"] = o /\ cur'["monitor"] = a
        /\ Still("worker")
    BY <1>1, <2>1, TwoThreads DEF Core, Types, CallTypes, Still
  <2>3. Types'
    BY <1>1, <1>3, <1>6, <2>1, <2>2, Names DEF Core, Types, TableTypes, IndexTypes, CallTypes,
       PassTypes, index, pass, Still, MonitorLabels
  <2>4. MonitorStands' /\ WalksOn("monitor")
    BY <1>1, <1>2, <1>6, <2>2 DEF MonitorStands, WalksOn, Walking
  <2>5. \A q : Leaving(q) => Leaving(q)'
    BY <1>1, <2>2 DEF Leaving
  <2> HIDE DEF a, p, o
  <2>6. Lists' /\ Index' /\ \A q : Has(q)' <=> Has(q)
    BY <1>1, <1>4, <2>1, <2>2, <2>3, <2>4, <2>5, MonitorMoves
  <2>7. Pass'
    BY <1>1, <2>2, <2>6, PassGoesOn DEF Searching, Removing, index, pass, o
  <2>8. Sums'
    BY <1>1, <1>4, <2>1, <2>2, SumsStay DEF pass, Still
  <2> QED
    BY <1>1, <2>2, <2>3, <2>6, <2>7, <2>8 DEF Core, NoMeeting, Still
<1>7. CASE p # NULL /\ a # NULL /\ owner[a] = o
  <2>1. /\ pc' = [pc EXCEPT !["monitor"] = "unlink"]
        /\ next' = [next EXCEPT ![p] = next[a], ![a] = NULL]
        /\ owner' = [owner EXCEPT ![a] = NULL]
        /\ cur' = [cur EXCEPT !["monitor"] = next[a]]
    BY <1>7 DEF Unlink, GoTo, Undefined
  <2>2. /\ pc'["monitor"] = "unlink" /\ odid'["monitor"] = o /\ cur'["monitor"] = next[a]
        /\ Still("worker")
    BY <1>1, <2>1, TwoThreads DEF Core, Types, CallTypes, Still
  <2>3. PICK rank \in Ranks : Ordered(rank, owner, next)
    BY <1>2 DEF Core, Lists, Chain
  <2>4. next[p] = a /\ a \in Pointers /\ next[a] \in Cells \cup {NULL}
    BY <1>2, <1>3, <1>7, Names DEF Succs
  <2> HIDE DEF a, p, o
  <2>5. Ordered(rank, owner', next') /\ p # a
    BY <1>2, <1>3, <1>7, <2>1, <2>3, <2>4, ListShrinks
  <2>6. /\ owner'[a] = NULL /\ \A c \in Cells : c # a => owner'[c] = owner[c]
        /\ next'[p] = next[a] /\ next'[a] = NULL
        /\ \A l \in Pointers : l # a /\ l # p => next'[l] = next[l]
    BY <1>2, <1>3, <1>7, <2>1, <2>4, <2>5 DEF Whos, Succs
  <2>7. Types'
    BY <1>1, <1>3, <1>7, <2>1, <2>2, <2>4, Names DEF Core, Types, TableTypes, IndexTypes,
       CallTypes, PassTypes, index, pass, Still, MonitorLabels, Pointers
  <2>8. /\ \A c \in Cells : owner'[c] # Garbage
        /\ \A l \in Pointers : next'[l] # Garbage
    BY <1>2, <1>3, <1>7, <2>4, <2>6, Names
  <2>9. who' = owner' /\ succ' = next'
    BY <1>2, <2>1, <2>8 DEF who, succ, Whos, Succs
  <2>10. Building' /\ OneCell'
    BY <1>1, <1>2, <2>2, <2>6, <2>8, <2>9 DEF Core, Lists, Building, OneCell, Still
  <2>11. \A c \in Cells : owner'[c] # o
    BY <1>1, <1>2, <1>3, <1>7, <2>6, Names DEF Core, Lists, OneCell
  <2>12. \A q \in Odids : q # o => (Has(q)' <=> Has(q))
    BY <1>3, <1>7, <2>6, Names DEF Has
  <2>13. Chain'
    <3>1. ASSUME Walking("monitor")'
          PROVE  Passed(rank, who', cur'["monitor"], odid'["monitor"])
      <4>1. SameList(owner, p, a) /\ rank[p] < rank[a]
        BY <1>3, <1>7, <2>3, <2>4 DEF Ordered
      <4>2. a \in Nodes(owner) /\ next[a] # NULL
        BY <2>2, <3>1, <4>1 DEF SameList, Walking
      <4>3. next[a] \in Cells /\ SameList(owner, a, next[a]) /\ rank[a] < rank[next[a]]
        BY <2>3, <4>2 DEF Ordered
      <4>4. next[a] # a
        BY <2>4, <4>3 DEF Ranks
      <4>5. next[a] \in Nodes(owner) /\ Home(owner, next[a]) = hash_key[o]
        BY <1>3, <1>7, <4>1, <4>3 DEF SameList
      <4>6. next[a] \in Nodes(owner') /\ Home(owner', next[a]) = hash_key[o]
        BY <2>6, <4>3, <4>4, <4>5, Names DEF Nodes, Home
      <4> QED
        BY <2>2, <2>9, <2>11, <4>6 DEF Passed
    <3>2. ~(Walking("worker")')
      BY <1>1, <2>2 DEF Walking, Still
    <3> QED
      BY <2>3, <2>5, <2>9, <3>1, <3>2, TwoThreads DEF Chain
  <2>14. WorkerStands' /\ MonitorStands'
    BY <1>1, <2>2, <2>11 DEF WorkerStands, MonitorStands, Has, Still
  <2>15. Index'
    <3>1. \A q : /\ (Leaving(q)' <=> q = o) /\ (Leaving(q) <=> q = o)
                 /\ ~Pending(q) /\ ~(Pending(q)')
                 /\ Listed(q)' <=> Listed(q)
      BY <1>1, <2>2 DEF Leaving, Pending, Listed, Length, Still, index, o
    <3>2. Length' = Length
      BY <1>1, <2>2 DEF Length, index
    <3> QED
      BY <1>1, <2>2, <2>12, <3>1, <3>2 DEF Core, Index, Still, index
  <2>16. Pass'
    <3>1. Ahead' = Ahead
      BY <1>1, <2>2 DEF Ahead, pass
    <3>2. ASSUME NEW i \in Ahead
          PROVE  \E c \in Cells : owner'[c] = active_odids[i].odid
      <4>1. /\ active_odids[i].odid \in Odids /\ Has(active_odids[i].odid)
            /\ active_odids[i].odid # o
        BY <1>1 DEF Core, Pass, AheadExact, Removing, o
      <4>2. PICK c \in Cells : owner[c] = active_odids[i].odid
        BY <4>1 DEF Has
      <4>3. c # a
        BY <1>7, <4>1, <4>2
      <4> QED
        BY <2>6, <4>2, <4>3
    <3>3. AheadExact'
      BY <1>1, <2>2, <3>1, <3>2 DEF Core, Pass, AheadExact, Has, Searching, Removing, Still,
         index, o
    <3> QED
      BY <1>1, <2>2, <3>3 DEF Core, Pass, Searching, index, pass
  <2>17. Sums'
    <3>1. ASSUME NEW q \in Odids \ Clashed', ~Has(q)' PROVE owed'[q] = 0
      <4>1. CASE q = o
        <5>1. a \in Cells /\ owner[a] = o /\ Total(count[a]) = 0
          BY <1>1, <1>3, <1>7 DEF Core, Sums, o
        <5> QED
          BY <1>1, <1>4, <3>1, <4>1, <5>1 DEF Core, Sums
      <4>2. CASE q # o
        BY <1>1, <1>4, <2>12, <3>1, <4>2 DEF Core, Sums
      <4> QED
        BY <4>1, <4>2
    <3>2. \A c \in Cells : owner'[c] \in Odids => owner'[c] = owner[c]
      BY <2>6, Names
    <3> QED
      BY <1>1, <1>4, <2>2, <2>11, <3>1, <3>2 DEF Core, Sums, Still, o
  <2> QED
    BY <1>1, <2>2, <2>7, <2>10, <2>13, <2>14, <2>15, <2>16, <2>17 DEF Core, Lists, NoMeeting, Still
<1> QED
  BY <1>5, <1>6, <1>7

(* The only entry of an odid, and the last entry of the index.              *)
LEMMA FirstEntry ==
  ASSUME Core, pc["monitor"] = "compact", NEW o
  PROVE  LET found == {i \in 0..active_odids_length-1 : active_odids[i].odid = o}
             first == CHOOSE i \in found : \A j \in found : i <= j
         IN found # {} => /\ found = {first} /\ active_odids_length > 0
                          /\ first \in 0..active_odids_length-1
                          /\ active_odids_length - 1 \in 0..active_odids_max_length-1
<1> DEFINE found == {i \in 0..active_odids_length-1 : active_odids[i].odid = o}
           first == CHOOSE i \in found : \A j \in found : i <= j
<1> SUFFICES ASSUME found # {}
             PROVE  /\ found = {first} /\ active_odids_length > 0
                    /\ first \in 0..active_odids_length-1
                    /\ active_odids_length - 1 \in 0..active_odids_max_length-1
  BY Zenon
<1>1. PICK i \in found : TRUE
  OBVIOUS
<1>2. /\ active_odids_length \in Nat /\ active_odids_max_length \in Nat
      /\ active_odids_length <= active_odids_max_length
  BY DEF Core, Types, IndexTypes, Index
<1>3. \A k \in found : \A j \in found : active_odids[k].odid = active_odids[j].odid
  OBVIOUS
<1>4. \A k \in found : \A j \in found : k = j
  BY <1>3 DEF Core, Index, Length
<1>5. i \in found /\ \A j \in found : i <= j
  BY <1>1, <1>2, <1>4
<1>6. first \in found
  <2> HIDE DEF found
  <2> QED
    BY <1>5, Zenon
<1>7. first \in 0..active_odids_length-1
  BY <1>6
<1>8. found = {first}
  <2> HIDE DEF first, found
  <2> QED
    BY <1>4, <1>6
<1> HIDE DEF first, found
<1> QED
  BY <1>2, <1>7, <1>8

(* The last entry of the index takes the place of the one that leaves.      *)
LEMMA CompactKeepsCore ==
  ASSUME Core, Compact
  PROVE  Core'
<1> DEFINE o == odid["monitor"]
           L == active_odids_length
           found == {i \in 0..L-1 : active_odids[i].odid = o}
           first == CHOOSE i \in found : \A j \in found : i <= j
<1>1. /\ pc["monitor"] = "compact" /\ pc["worker"] = "idle" /\ o \in Odids /\ ~Has(o)
      /\ pc' = [pc EXCEPT !["monitor"] = IF found = {} THEN "visit" ELSE "shrink"]
      /\ UNCHANGED <<table, active_odids_length, active_odids_max_length, segment, n, sum,
                     undefined, owed>> /\ Observe
      /\ y \in Nat /\ n \in Nat /\ L \in Nat /\ active_odids_max_length \in Nat
      /\ active_odids \in [0..active_odids_max_length-1 -> Entries]
      /\ L <= active_odids_max_length
  BY DEF Compact, GoTo, At, history, Core, NoMeeting, Removing, Types, CallTypes, PassTypes,
     IndexTypes, Index, Lists, MonitorStands
<1>2. pc'["monitor"] = (IF found = {} THEN "visit" ELSE "shrink") /\ pc'["worker"] = "idle"
  BY <1>1, TwoThreads DEF Core, Types, CallTypes
<1>3. ~(Walking("monitor")') /\ MonitorStands'
  BY <1>2 DEF Walking, MonitorStands
<1>4. /\ \A q : ~Pending(q) /\ ~(Pending(q)') /\ (Leaving(q) <=> q = o) /\ ~(Leaving(q)')
      /\ Length = L
  BY <1>1, <1>2 DEF Pending, Leaving, Length
<1>5. Clashed \subseteq Clashed'
  BY <1>1, ClashedGrows
<1>6. CASE found = {}
  <2>1. /\ odid' = [odid EXCEPT !["monitor"] = NULL] /\ cur' = [cur EXCEPT !["monitor"] = NULL]
        /\ tmp' = [tmp EXCEPT !["monitor"] = 0] /\ y' = y + 1 /\ UNCHANGED active_odids
    BY <1>6 DEF Compact, Return
  <2>2. pc'["monitor"] = "visit" /\ Still("worker")
    BY <1>1, <1>2, <1>6, <2>1, TwoThreads DEF Core, Types, CallTypes, Still
  <2>3. Types'
    BY <1>1, <2>1, <2>2 DEF Core, Types, TableTypes, IndexTypes, CallTypes, PassTypes, table,
       Still, MonitorLabels
  <2>4. ~Listed(o)
    BY <1>4, <1>6 DEF Listed
  <2> HIDE DEF found, first, o, L
  <2>5. Lists' /\ \A q : Has(q)' <=> Has(q)
    BY <1>1, <1>3, <2>2, <2>3, MonitorKeepsLists DEF table
  <2>6. Index'
    <3>1. Length' = L /\ active_odids_length' = L
      BY <1>1, <2>2 DEF Length, L
    <3>2. \A q : Listed(q)' <=> Listed(q)
      BY <1>4, <2>1, <3>1 DEF Listed
    <3>3. \A q \in Odids : Listed(q)' <=> Has(q)'
      BY <1>1, <1>4, <2>4, <2>5, <3>2 DEF Core, Index
    <3> QED
      BY <1>1, <1>2, <1>4, <2>1, <2>2, <3>1, <3>3 DEF Core, Index, L
  <2>7. Pass'
    <3>1. Ahead' = Ahead
      BY <1>1, <2>1, <2>2 DEF Ahead
    <3>2. AheadExact'
      BY <1>1, <2>1, <2>2, <2>5, <3>1 DEF Core, Pass, AheadExact, Searching, Removing, Still
    <3> QED
      BY <1>1, <2>2, <3>2 DEF Core, Pass, Searching
  <2>8. Sums'
    BY <1>1, <1>5, <2>2, SumsStay DEF table, Still
  <2> QED
    BY <1>1, <2>2, <2>3, <2>5, <2>6, <2>7, <2>8 DEF Core, NoMeeting, Removing
<1>7. CASE found # {}
  <2>1. /\ active_odids' = [active_odids EXCEPT ![first] = active_odids[L-1]]
        /\ tmp' = [tmp EXCEPT !["monitor"] = L] /\ UNCHANGED <<y, odid, cur>>
    BY <1>7 DEF Compact
  <2>2. /\ found = {first} /\ L > 0 /\ first \in 0..L-1
        /\ L - 1 \in 0..active_odids_max_length-1
    BY <1>1, <1>7, FirstEntry
  <2>3. /\ pc'["monitor"] = "shrink" /\ tmp'["monitor"] = L /\ odid'["monitor"] = o
        /\ Still("worker")
    BY <1>1, <1>2, <1>7, <2>1, TwoThreads DEF Core, Types, CallTypes, Still
  <2>4. /\ active_odids[first].odid = o
        /\ \A i \in 0..L-1 : active_odids[i].odid = o => i = first
    BY <2>2
  <2> HIDE DEF found, first, o
  <2>5. /\ active_odids' \in [0..active_odids_max_length-1 -> Entries]
        /\ \A i \in 0..active_odids_max_length-1 :
             active_odids'[i] = IF i = first THEN active_odids[L-1] ELSE active_odids[i]
    BY <1>1, <2>1, <2>2
  <2>6. Types'
    BY <1>1, <2>1, <2>3, <2>5 DEF Core, Types, TableTypes, IndexTypes, CallTypes, PassTypes, table,
       Still, MonitorLabels
  <2>7. Lists' /\ \A q : Has(q)' <=> Has(q)
    BY <1>1, <1>3, <2>3, <2>6, MonitorKeepsLists DEF table
  <2>8. Index'
    <3>1. Length' = L - 1 /\ active_odids_length' = L
      BY <1>1, <2>3 DEF Length
    <3>2. \A i \in 0..L-2 :
            /\ i \in 0..L-1 /\ i # L - 1 /\ i \in 0..active_odids_max_length-1
            /\ active_odids'[i] = IF i = first THEN active_odids[L-1] ELSE active_odids[i]
      BY <1>1, <2>2, <2>5
    <3>3. L - 1 \in 0..L-1 /\ \A i \in 0..L-1 : i = L - 1 \/ i \in 0..L-2
      BY <1>1, <2>2
    <3>4. \A i, j \in 0..L-1 : active_odids[i].odid = active_odids[j].odid => i = j
      BY <1>4 DEF Core, Index
    <3>5. \A i, j \in 0..L-2 : active_odids'[i].odid = active_odids'[j].odid => i = j
      BY <3>2, <3>3, <3>4
    <3>6. \A i \in 0..L-1 : active_odids'[i].odid # Garbage
      <4>1. \A i \in 0..L-1 : i \in 0..active_odids_max_length-1
        BY <1>1
      <4> QED
        BY <2>2, <2>5, <3>3, <4>1 DEF Core, Index
    <3>7. \A q : Listed(q) <=> \E i \in 0..L-1 : active_odids[i].odid = q
      BY <1>4 DEF Listed
    <3>8. \A q : Listed(q)' <=> \E i \in 0..L-2 : active_odids'[i].odid = q
      <4>1. 0..Length'-1 = 0..L-2
        BY <1>1, <3>1
      <4> QED
        BY <4>1 DEF Listed
    <3>9. ASSUME NEW q, q = o PROVE ~(Listed(q)')
      <4> SUFFICES ASSUME NEW i \in 0..L-2, active_odids'[i].odid = o PROVE FALSE
        BY <3>8, <3>9
      <4>1. CASE i = first
        BY <2>4, <3>2, <3>3, <4>1
      <4>2. CASE i # first
        BY <2>4, <3>2, <4>2
      <4> QED
        BY <4>1, <4>2
    <3>10. ASSUME NEW q, q # o PROVE Listed(q)' <=> Listed(q)
      <4>1. ASSUME NEW i \in 0..L-1, active_odids[i].odid = q PROVE Listed(q)'
        <5>1. i # first
          BY <2>4, <3>10, <4>1
        <5>2. CASE i \in 0..L-2
          BY <3>2, <3>8, <4>1, <5>1, <5>2
        <5>3. CASE i = L - 1
          <6>1. first \in 0..L-2
            BY <2>2, <3>3, <5>1, <5>3
          <6> QED
            BY <3>2, <3>8, <4>1, <5>3, <6>1
        <5> QED
          BY <3>3, <5>2, <5>3
      <4>2. ASSUME NEW i \in 0..L-2, active_odids'[i].odid = q PROVE Listed(q)
        BY <3>2, <3>3, <3>7, <4>2
      <4> QED
        BY <3>7, <3>8, <4>1, <4>2
    <3>11. \A q \in Odids : Listed(q)' <=> Has(q)'
      BY <1>1, <1>4, <2>7, <3>9, <3>10 DEF Core, Index
    <3> HIDE DEF L
    <3>12. 0..Length'-1 = 0..L-2 /\ 0..active_odids_length'-1 = 0..L-1
      BY <1>1, <3>1
    <3> QED
      BY <1>1, <1>2, <1>4, <2>2, <2>3, <3>1, <3>5, <3>6, <3>11, <3>12 DEF Index
  <2>9. Pass'
    <3>1. /\ Ahead' = Ahead /\ n <= active_odids_max_length
          /\ \A i \in Ahead : i \in 0..active_odids_max_length-1
      BY <1>1, <2>1, <2>3 DEF Ahead, Core, Pass
    <3>2. \A i \in Ahead : active_odids[i].odid # o
      BY <1>1 DEF Core, Pass, AheadExact, Removing, o
    <3>3. \A i \in Ahead : active_odids'[i] = active_odids[i]
      BY <2>4, <2>5, <3>1, <3>2
    <3>4. AheadExact'
      BY <1>1, <2>3, <2>7, <3>1, <3>2, <3>3 DEF Core, Pass, AheadExact, Has, Searching, Still,
         table, o
    <3> QED
      BY <1>1, <2>1, <2>3, <3>4 DEF Core, Pass, Searching
  <2>10. Sums'
    BY <1>1, <1>5, <2>3, SumsStay DEF table, Still
  <2> QED
    BY <1>1, <1>2, <2>3, <2>6, <2>7, <2>8, <2>9, <2>10 DEF Core, NoMeeting
<1> QED
  BY <1>6, <1>7

LEMMA ShrinkKeepsCore ==
  ASSUME Core, Shrink
  PROVE  Core'
<1> DEFINE L == active_odids_length
<1>1. /\ pc["monitor"] = "shrink" /\ pc["worker"] = "idle"
      /\ pc' = [pc EXCEPT !["monitor"] = "visit"]
      /\ active_odids_length' = tmp["monitor"] - 1 /\ y' = y + 1
      /\ odid' = [odid EXCEPT !["monitor"] = NULL] /\ cur' = [cur EXCEPT !["monitor"] = NULL]
      /\ tmp' = [tmp EXCEPT !["monitor"] = 0]
      /\ UNCHANGED <<table, active_odids, active_odids_max_length, segment, n, sum, undefined,
                     owed>> /\ Observe
      /\ L \in Nat /\ L > 0 /\ tmp["monitor"] = L /\ active_odids_max_length \in Nat
      /\ L <= active_odids_max_length /\ y \in Nat /\ n \in Nat
  BY DEF Shrink, GoTo, At, Return, history, Core, NoMeeting, Removing, Index, Types, IndexTypes,
     PassTypes
<1>2. pc'["monitor"] = "visit" /\ Still("worker")
  BY <1>1, TwoThreads DEF Core, Types, CallTypes, Still
<1>3. Types'
  BY <1>1, <1>2 DEF Core, Types, TableTypes, IndexTypes, CallTypes, PassTypes, table, Still,
     MonitorLabels
<1>4. Lists' /\ \A q : Has(q)' <=> Has(q)
  <2>1. ~(Walking("monitor")') /\ MonitorStands'
    BY <1>2 DEF Walking, MonitorStands
  <2> QED
    BY <1>1, <1>2, <1>3, <2>1, MonitorKeepsLists DEF table
<1>5. Index'
  <2>1. Length = L - 1 /\ Length' = L - 1 /\ active_odids_length' = L - 1
    BY <1>1, <1>2 DEF Length
  <2>2. \A q : Listed(q)' <=> Listed(q)
    BY <1>1, <2>1 DEF Listed
  <2>3. \A q : ~Pending(q) /\ ~(Pending(q)') /\ ~Leaving(q) /\ ~(Leaving(q)')
    BY <1>1, <1>2 DEF Pending, Leaving, Still
  <2>4. \A i \in 0..L-2 : i \in 0..L-1
    BY <1>1
  <2>5. \A i \in 0..L-2 : active_odids[i].odid # Garbage
    BY <2>4 DEF Core, Index
  <2>6. 0..Length-1 = 0..L-2 /\ 0..Length'-1 = 0..L-2 /\ 0..active_odids_length'-1 = 0..L-2
    BY <1>1, <2>1
  <2>7. \A i, j \in 0..L-2 : active_odids'[i].odid = active_odids'[j].odid => i = j
    BY <1>1, <2>6 DEF Core, Index
  <2>8. \A q \in Odids : Listed(q)' <=> Has(q)'
    BY <1>4, <2>2, <2>3 DEF Core, Index
  <2> QED
    BY <1>1, <1>2, <2>1, <2>3, <2>5, <2>6, <2>7, <2>8 DEF Index, Still
<1>6. Pass'
  <2>1. Ahead' = Ahead
    BY <1>1, <1>2 DEF Ahead
  <2>2. AheadExact'
    BY <1>1, <1>2, <1>4, <2>1 DEF Core, Pass, AheadExact, Searching, Removing, Still
  <2> QED
    BY <1>1, <1>2, <2>2 DEF Core, Pass, Searching
<1>7. Sums'
  BY <1>1, <1>2, SumsStay, ClashedGrows DEF table, Still
<1> QED
  BY <1>1, <1>2, <1>3, <1>4, <1>5, <1>6, <1>7 DEF Core, NoMeeting, Removing

-----------------------------------------------------------------------------
LEMMA InitIsCore == Init => Core
<1> SUFFICES ASSUME Init PROVE Core
  OBVIOUS
<1>1. Types
  <2>1. Zero \in Counts
    BY CountsGrow
  <2>2. UnusedSlot \in Entries
    BY DEF UnusedSlot, Entries
  <2> QED
    BY <2>1, <2>2, MonitoringAssumption, TwoThreads DEF Init, Types, TableTypes, IndexTypes,
       CallTypes, PassTypes, Pointers, WorkerLabels, MonitorLabels, NoSegment
<1>2. /\ pc["worker"] = "idle" /\ pc["monitor"] = "idle"
      /\ \A c \in Cells : owner[c] = NULL
      /\ \A l \in Pointers : next[l] = NULL
  BY TwoThreads DEF Init, Pointers
<1>3. /\ \A c \in Cells : who[c] = NULL
      /\ \A l \in Pointers : succ[l] = NULL
      /\ \A o \in Odids : ~Has(o)
  BY <1>2, Names DEF who, succ, Has
<1>4. Chain
  <2> DEFINE rank == [l \in Pointers |-> 0]
  <2>1. rank \in Ranks /\ \A l \in Pointers : rank[l] = 0
    BY DEF Ranks
  <2>2. \A l : l \in Nodes(who) <=> l \in Buckets
    BY <1>3 DEF Nodes
  <2>3. \A l \in Buckets : Home(who, l) = l
    BY DEF Home
  <2> HIDE DEF rank
  <2>4. Ordered(rank, who, succ)
    BY <1>3, <2>1, <2>2, <2>3, Names DEF Ordered, SameList
  <2> QED
    BY <1>2, <2>1, <2>4, TwoThreads DEF Chain, Walking
<1>5. Lists
  BY <1>2, <1>3, <1>4, Names DEF Lists, Building, OneCell, WorkerStands, MonitorStands
<1>6. Index
  <2>1. \A o : ~Pending(o) /\ ~Leaving(o)
    BY <1>2 DEF Pending, Leaving
  <2>2. Length = 0 /\ active_odids_length = 0
    BY <1>2 DEF Init, Length
  <2>3. \A o : ~Listed(o)
    BY <2>2 DEF Listed
  <2>4. active_odids_max_length \in Nat \ {0}
    BY MonitoringAssumption DEF Init
  <2> QED
    BY <1>2, <1>3, <2>1, <2>2, <2>3, <2>4 DEF Index
<1>7. Pass
  BY <1>2 DEF Pass
<1>8. Sums
  BY <1>2, Names DEF Sums, Init
<1>9. NoMeeting
  BY <1>2 DEF NoMeeting
<1> QED
  BY <1>1, <1>5, <1>6, <1>7, <1>8, <1>9 DEF Core, Init

(* A step from Core that is defined and does not begin an update during a   *)
(* removal, or a removal during an update, leads to Core.                   *)
LEMMA NextKeepsCore ==
  ASSUME Core, Next, ~undefined', NoMeeting'
  PROVE  Core'
<1>1. ASSUME NEW t \in Threads, get_odid_counter(t) PROVE Core'
  <2>1. CASE t = "worker"
    BY <1>1, <2>1, WorkerWalkKeepsCore, LinkCellKeepsCore, NoCellKeepsCore, InitCellKeepsCore,
       IndexOdidKeepsCore, LoadLengthKeepsCore, StoreLengthKeepsCore DEF get_odid_counter
  <2>2. CASE t = "monitor"
    BY <1>1, <2>2, MonitorNeverCreates, MonitorWalkKeepsCore
  <2> QED
    BY <2>1, <2>2, TwoThreads
<1>2. ASSUME NEW o \in Odids, NEW type \in {"received", "dropped"}, NEW mid \in Mids,
             Update(o, type, mid)
      PROVE  Core'
  BY <1>2, UpdateKeepsCore
<1>3. ASSUME t_monitoring_unyte_udp PROVE Core'
  BY <1>3, WakeKeepsCore, EndPassKeepsCore, VisitKeepsCore, InspectKeepsCore, SummaryKeepsCore,
     ReinitKeepsCore, MarkKeepsCore, RemoveKeepsCore, UnlinkKeepsCore, CompactKeepsCore,
     ShrinkKeepsCore DEF t_monitoring_unyte_udp
<1> QED
  BY <1>1, <1>2, <1>3, LoadCountKeepsCore, StoreCountKeepsCore, CountMessageIdKeepsCore DEF Next

(* Every step records how the threads met.                                  *)
LEMMA StepsObserve ==
  ASSUME Next PROVE ~undefined /\ Observe
BY DEF Next, get_odid_counter, t_monitoring_unyte_udp, Walk, LinkCell, NoCell, InitCell,
   IndexOdid, LoadLength, StoreLength, Update, LoadCount, StoreCount, CountMessageId, Wake,
   EndPass, Visit, Inspect, get_summary, NoSummary, reinit_odid_counters, Mark, Remove, Unlink,
   Compact, Shrink, GoTo, Undefined, At

LEMMA NextMonitoring ==
  ASSUME MonitoringInv, Next
  PROVE  MonitoringInv'
<1>1. ~undefined /\ races' = races \cup Races
  BY StepsObserve DEF Observe
<1>2. CASE "removal" \in races \cup Races
  BY <1>1, <1>2 DEF MonitoringInv
<1>3. CASE "removal" \notin races \cup Races
  <2>1. Core
    BY <1>1, <1>3 DEF MonitoringInv
  <2>2. undefined' => races' # {} \/ IndexFull'
    BY <1>1, <2>1, StaysDefined
  <2>3. "removal" \notin races' \cup Races' => NoMeeting'
    BY DEF Races, NoMeeting
  <2>4. ~undefined' /\ "removal" \notin races' \cup Races' => Core'
    BY <2>1, <2>3, NextKeepsCore
  <2> QED
    BY <2>2, <2>4 DEF MonitoringInv
<1> QED
  BY <1>2, <1>3

(* Until an update goes on during a removal, the lists of the table, the    *)
(* index, the pass and the counters are as Core describes them, at every    *)
(* access of either thread.                                                 *)
THEOREM MonitoringInvHolds == Spec => []MonitoringInv
<1>1. Init => MonitoringInv
  BY InitIsCore DEF MonitoringInv, Core
<1>2. MonitoringInv /\ [Next]_vars => MonitoringInv'
  <2> SUFFICES ASSUME MonitoringInv, [Next]_vars PROVE MonitoringInv'
    OBVIOUS
  <2>1. CASE Next
    BY <2>1, NextMonitoring
  <2>2. CASE UNCHANGED vars
    <3>1. UNCHANGED <<next, owner, count, active_odids, active_odids_length,
                      active_odids_max_length, pc, odid, cur, tmp, segment, y, n, sum, undefined,
                      owed, races, clashed>>
      BY <2>2 DEF vars
    <3>2. Races' = Races /\ Clashed' = Clashed /\ (IndexFull' <=> IndexFull)
      BY <3>1 DEF Races, Removing, Growing, Clashed, Clashes, IndexFull
    <3>3. who' = who /\ succ' = succ
      BY <3>1 DEF who, succ
    <3>4. (NoMeeting' <=> NoMeeting) /\ (Types' <=> Types)
      BY <3>1 DEF NoMeeting, Removing, Types, TableTypes, IndexTypes, CallTypes, PassTypes
    <3>5. Lists' <=> Lists
      BY <3>1, <3>3 DEF Lists, Building, OneCell, Chain, Walking, WorkerStands, MonitorStands, Has
    <3>6. Index' <=> Index
      BY <3>1 DEF Index, Length, Listed, Pending, Leaving, Has
    <3>7. Pass' <=> Pass
      BY <3>1 DEF Pass, AheadExact, Ahead, Searching, Removing, Has
    <3>8. Sums' <=> Sums
      BY <3>1, <3>2 DEF Sums, Has
    <3> QED
      BY <3>1, <3>2, <3>4, <3>5, <3>6, <3>7, <3>8 DEF MonitoringInv, Core
  <2> QED
    BY <2>1, <2>2
<1> QED
  BY <1>1, <1>2, PTL DEF Spec

(* A thread uses memory that is not its own only after an update went on    *)
(* during a removal or the index moved during a pass, or to write in an     *)
(* index that could not grow: linking a cell before it is built, copying    *)
(* and resetting counters that are being incremented and removing odids     *)
(* between updates never lead there, for any number of odids and cells.     *)
THEOREM UndefinedOnlyInRaces == Spec => []OnlyRacesUndefined
<1>1. MonitoringInv => OnlyRacesUndefined
  BY DEF MonitoringInv, OnlyRacesUndefined
<1> QED
  BY <1>1, MonitoringInvHolds, PTL

(* Between calls the cells, their owners and the entries of the index are   *)
(* in one-to-one correspondence.                                            *)
LEMMA QuietIndex ==
  ASSUME Core, Quiet
  PROVE  /\ Indexed = {owner[a] : a \in Linked}
         /\ Cardinality(Indexed) = active_odids_length
         /\ Cardinality(Linked) = active_odids_length
<1> DEFINE len == active_odids_length
           entry == [i \in 1..len |-> active_odids[i-1].odid]
           cell == [i \in 1..len |-> CHOOSE a \in Cells : owner[a] = entry[i]]
<1>0. pc["worker"] = "idle" /\ pc["monitor"] = "idle"
  BY DEF Quiet
<1>1. who = owner /\ \A c \in Cells : owner[c] # Garbage
  BY <1>0, AllBuilt
<1>2. /\ Length = len /\ len \in Nat
      /\ \A i, j \in 0..len-1 : active_odids[i].odid = active_odids[j].odid => i = j
      /\ \A i \in 0..len-1 : active_odids[i].odid # Garbage
      /\ \A o \in Odids : Listed(o) <=> Has(o)
  BY <1>0 DEF Core, Index, Length, Pending, Leaving, Types, IndexTypes
<1>3. \A i \in 0..len-1 : active_odids[i].odid \in Odids
  BY <1>2 DEF Core, Types, IndexTypes, Index, Entries
<1>4. \A o \in Odids : (\E i \in 0..len-1 : active_odids[i].odid = o) <=> (\E c \in Cells : owner[c] = o)
  BY <1>1, <1>2 DEF Listed, Has
<1>5. \A a : a \in Linked <=> a \in Cells /\ owner[a] \in Odids
  BY <1>1, Names DEF Linked, Core, Types, TableTypes
<1>6. \A o : o \in Indexed <=> \E i \in 0..len-1 : active_odids[i].odid = o
  BY DEF Indexed
<1>7. Indexed = {owner[a] : a \in Linked}
  BY <1>3, <1>4, <1>5, <1>6
<1>8. /\ \A i \in 1..len : i-1 \in 0..len-1 /\ entry[i] = active_odids[i-1].odid
      /\ \A j \in 0..len-1 : j+1 \in 1..len /\ entry[j+1] = active_odids[j].odid
  BY <1>2
<1>9. \A i, j \in 1..len : entry[i] = entry[j] => i = j
  BY <1>2, <1>8
<1>10. /\ \A i \in 1..len : entry[i] \in Indexed /\ entry[i] \in Odids
       /\ \A o \in Indexed : \E i \in 1..len : entry[i] = o
  <2> HIDE DEF entry, len
  <2>1. \A i \in 1..len : entry[i] \in Indexed /\ entry[i] \in Odids
    BY <1>3, <1>6, <1>8
  <2>2. ASSUME NEW o \in Indexed PROVE \E i \in 1..len : entry[i] = o
    <3>1. PICK j \in 0..len-1 : active_odids[j].odid = o
      BY <1>6
    <3>2. j+1 \in 1..len /\ entry[j+1] = o
      BY <1>8, <3>1
    <3> QED
      BY <3>2
  <2> QED
    BY <2>1, <2>2
<1>11. entry \in [1..len -> Indexed]
  BY <1>10
<1>12. Cardinality(Indexed) = len
  <2> HIDE DEF entry, len
  <2>1. entry \in Bijection(1..len, Indexed)
    BY <1>9, <1>10, <1>11 DEF Bijection, Injection, Surjection, IsInjective
  <2> QED
    BY <1>2, <2>1, FS_CountingElements DEF ExistsBijection
<1>13. \A i \in 1..len : cell[i] \in Cells /\ owner[cell[i]] = entry[i]
  <2> SUFFICES ASSUME NEW i \in 1..len PROVE cell[i] \in Cells /\ owner[cell[i]] = entry[i]
    OBVIOUS
  <2>1. \E a \in Cells : owner[a] = entry[i]
    BY <1>4, <1>6, <1>10
  <2>2. cell[i] = CHOOSE a \in Cells : owner[a] = entry[i]
    OBVIOUS
  <2> HIDE DEF cell, entry
  <2> QED
    BY <2>1, <2>2
<1>14. cell \in [1..len -> Linked]
  BY <1>5, <1>10, <1>13
<1> HIDE DEF cell, entry, len
<1>15. \A i, j \in 1..len : cell[i] = cell[j] => i = j
  BY <1>9, <1>13
<1>16. \A a \in Linked : \E i \in 1..len : cell[i] = a
  <2> SUFFICES ASSUME NEW a \in Linked PROVE \E i \in 1..len : cell[i] = a
    OBVIOUS
  <2>1. a \in Cells /\ owner[a] \in Odids /\ owner[a] \in Indexed
    BY <1>5, <1>7
  <2>2. PICK i \in 1..len : entry[i] = owner[a]
    BY <1>10, <2>1
  <2>3. cell[i] = a
    BY <1>1, <1>13, <2>1, <2>2, Names DEF Core, Lists, OneCell
  <2> QED
    BY <2>3
<1>17. Cardinality(Linked) = len
  <2>1. cell \in Bijection(1..len, Linked)
    BY <1>14, <1>15, <1>16 DEF Bijection, Injection, Surjection, IsInjective
  <2> QED
    BY <1>2, <2>1, FS_CountingElements DEF ExistsBijection
<1> QED
  BY <1>7, <1>12, <1>17 DEF len

(* Between calls, and until an update goes on during a removal, the index   *)
(* lists every odid that has counters, once.                                *)
THEOREM IndexAlwaysExact == Spec => []IndexExact
<1>1. MonitoringInv => IndexExact
  <2> SUFFICES ASSUME MonitoringInv, Quiet, "removal" \notin races
               PROVE  /\ Indexed = {owner[a] : a \in Linked}
                      /\ Cardinality(Indexed) = active_odids_length
                      /\ Cardinality(Linked) = active_odids_length
    BY DEF IndexExact
  <2>1. Core
    BY DEF MonitoringInv, Quiet, Races
  <2> QED
    BY <2>1, QuietIndex
<1> QED
  BY <1>1, MonitoringInvHolds, PTL

(* Between calls, the segments counted of an odid are those in summaries    *)
(* that were sent and those in its counters, unless it clashed, or an       *)
(* update went on during a removal.                                         *)
THEOREM SummariesAlwaysAddUp == Spec => []SummariesAddUp
<1>1. ASSUME MonitoringInv PROVE SummariesAddUp
  <2> SUFFICES ASSUME Quiet, "removal" \notin races, NEW o \in Odids \ clashed
               PROVE  IF \E a \in Linked : owner[a] = o
                        THEN \E a \in Linked : owner[a] = o /\ owed[o] = Total(count[a])
                        ELSE owed[o] = 0
    BY DEF SummariesAddUp
  <2>1. Core /\ o \notin Clashed
    BY <1>1 DEF MonitoringInv, Quiet, Races, Clashed, Clashes
  <2>2. CASE Has(o)
    BY <2>1, <2>2, Names DEF Core, Sums, Linked, Has
  <2>3. CASE ~Has(o)
    BY <2>1, <2>3 DEF Core, Sums, Linked, Has
  <2> QED
    BY <2>2, <2>3
<1> QED
  BY <1>1, MonitoringInvHolds, PTL
=============================================================================
