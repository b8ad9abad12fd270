----------------------------- MODULE Monitoring -----------------------------
(***************************************************************************)
(* The counters of one worker (src/monitoring_worker.c): a hash table of   *)
(* linked cells, one per observation domain id, and the array active_odids *)
(* that indexes them.  The worker counts segments in them; the monitoring  *)
(* thread reports and resets them, and removes those of silent odids.      *)
(* Neither takes a lock: a step here is one access that the other thread   *)
(* can come before or after, and nothing keeps an update and a pass apart. *)
(* Two history variables record how they met.                              *)
(*                                                                         *)
(* The monitoring thread goes through the counters of every worker in      *)
(* turn; the counters of different workers share nothing.                  *)
(***************************************************************************)
EXTENDS Integers, FiniteSets, Sequences

CONSTANTS Odids, Buckets, hash_key,  (* hash_key \in [Odids -> Buckets]     *)
          Cells,               (* the addresses malloc may hand out         *)
          Mids,                (* the message ids                           *)
          NULL,
          Garbage,             (* what uninitialised memory contains        *)
          ODID_TIME_TO_LIVE,
          ACTIVE_ODIDS,        (* room in active_odids, and its increment   *)
          MaxUpdates,          (* bound: segments counted                   *)
          MaxPasses,           (* bound: monitoring passes, 0 for no bound  *)
          FailingMallocs       (* bound: how many mallocs may fail          *)

ASSUME MonitoringAssumption ==
  /\ hash_key \in [Odids -> Buckets]
  /\ Buckets \cap Cells = {}
  /\ {NULL, Garbage} \cap (Odids \cup Buckets \cup Cells) = {} /\ NULL # Garbage
  /\ Mids \subseteq Nat
  /\ ODID_TIME_TO_LIVE \in Nat \ {0} /\ ACTIVE_ODIDS \in Nat \ {0}
  /\ MaxUpdates \in Nat /\ MaxPasses \in Nat /\ FailingMallocs \in Nat

VARIABLES next,     (* the next pointer of each bucket's head and cell      *)
          owner,    (* observation_domain_id of each cell; NULL when free   *)
          count,    (* the counters of each cell                            *)
          active_odids, active_odids_length, active_odids_max_length,
          pc, odid, cur, tmp,  (* per thread: where it is, its argument,    *)
                               (* its pointer and the value it loaded       *)
          segment,  (* the segment the worker is counting                   *)
          y, n,     (* the monitoring thread's index and captured length    *)
          has_values, sum,  (* what it saw in the cell, and the summary     *)
          undefined,         (* some thread used memory that is not its own *)
          updates, passes, failures,
          owed,              (* history: segments counted less those sent   *)
          races, clashed     (* history: how the threads met, see Observe   *)

table == <<next, owner, count>>
index == <<active_odids, active_odids_length, active_odids_max_length>>
call == <<odid, cur, tmp, segment>>
pass == <<y, n, has_values, sum>>
bounds == <<updates, passes, failures>>
history == owed
vars == <<next, owner, count, active_odids, active_odids_length,
          active_odids_max_length, pc, odid, cur, tmp, segment, y, n, has_values, sum,
          undefined, updates, passes, failures, owed, races, clashed>>

Threads == {"worker", "monitor"}

Zero == [received |-> 0, dropped |-> 0, reordered |-> 0, last |-> 0]

UnusedSlot == [odid |-> Garbage, active |-> 0]

NoSegment == [type |-> "received", mid |-> 0]

Total(c) == c.received + c.dropped

Init ==
  /\ next = [l \in Buckets \cup Cells |-> NULL]
  /\ owner = [a \in Cells |-> NULL]
  /\ count = [a \in Cells |-> Zero]
  /\ active_odids = [i \in 0..ACTIVE_ODIDS-1 |-> UnusedSlot]
  /\ active_odids_length = 0 /\ active_odids_max_length = ACTIVE_ODIDS
  /\ pc = [t \in Threads |-> "idle"]
  /\ odid = [t \in Threads |-> NULL] /\ cur = [t \in Threads |-> NULL]
  /\ tmp = [t \in Threads |-> 0]
  /\ segment = NoSegment
  /\ y = 0 /\ n = 0 /\ has_values = FALSE /\ sum = Zero
  /\ undefined = FALSE
  /\ updates = 0 /\ passes = 0 /\ failures = FailingMallocs
  /\ owed = [o \in Odids |-> 0]
  /\ races = {} /\ clashed = {}

(* Memory that may be read and written through the pointer l: the head of a *)
(* bucket, or a cell that is allocated and built.                           *)
Usable(l) == l \in Buckets \/ (l \in Cells /\ owner[l] \notin {NULL, Garbage})

(***************************************************************************)
(* How the threads meet, which no lock prevents: an update goes on while   *)
(* the monitoring thread removes an odid; the index is about to be moved   *)
(* by realloc while a pass goes on; a count is loaded and not stored yet   *)
(* while the summary of the same odid is copied and the counter not reset. *)
(* Every step records what it met.                                         *)
(***************************************************************************)
Removing == pc["monitor"] \in {"remove", "unlink", "compact", "shrink"}

Growing == pc["worker"] = "index" /\ active_odids_length + 1 >= active_odids_max_length

Races ==
  {r \in {"removal", "growth"} :
     \/ r = "removal" /\ Removing /\ pc["worker"] # "idle"
     \/ r = "growth" /\ Growing /\ pc["monitor"] # "idle"}

Clashes ==
  {o \in Odids : /\ odid["worker"] = o /\ pc["worker"] = "store_count"
                 /\ odid["monitor"] = o /\ pc["monitor"] = "clear"}

Observe == races' = races \cup Races /\ clashed' = clashed \cup Clashes

At(t, label) == ~undefined /\ pc[t] = label

GoTo(t, from, to) ==
  /\ At(t, from)
  /\ pc' = [pc EXCEPT ![t] = to]
  /\ Observe

(* A call of t returns: its local variables are no more.                    *)
Return(t) ==
  /\ odid' = [odid EXCEPT ![t] = NULL] /\ cur' = [cur EXCEPT ![t] = NULL]
  /\ tmp' = [tmp EXCEPT ![t] = 0]

(* The access is undefined behaviour: nothing is said of what follows.      *)
Undefined(t, from) ==
  /\ At(t, from)
  /\ undefined' = TRUE
  /\ Observe
  /\ UNCHANGED <<table, index, pc, call, pass, bounds, history>>

-----------------------------------------------------------------------------
(***************************************************************************)
(* Plausible slips, each a mutated form of a definition below; the         *)
(* specification uses none of them.                                        *)
(***************************************************************************)
InitCell_without_next(t) ==
  /\ GoTo(t, "init", "index")
  /\ owner' = [owner EXCEPT ![cur[t]] = odid[t]]
  /\ count' = [count EXCEPT ![cur[t]] = Zero]
  /\ UNCHANGED <<next, index, call, pass, undefined, bounds, history>>

reinit_odid_counters_forgotten ==
  /\ GoTo("monitor", "clear", "mark")
  /\ owed' = [owed EXCEPT ![odid["monitor"]] = @ - Total(sum)]
  /\ UNCHANGED <<table, index, call, pass, undefined, bounds>>

Mark_never_ages ==
  /\ GoTo("monitor", "mark", "visit")
  /\ active_odids' = [active_odids EXCEPT ![y].active = 0]
  /\ y' = y + 1 /\ has_values' = FALSE /\ sum' = Zero
  /\ Return("monitor")
  /\ UNCHANGED <<table, active_odids_length, active_odids_max_length, segment, n, undefined,
                 bounds, history>>

Compact_without_copy ==
  /\ At("monitor", "compact")
  /\ GoTo("monitor", "compact", "shrink")
  /\ tmp' = [tmp EXCEPT !["monitor"] = active_odids_length]
  /\ UNCHANGED <<table, index, odid, cur, segment, pass, undefined, bounds, history>>

-----------------------------------------------------------------------------
(***************************************************************************)
(* get_odid_counter, called by both threads.                               *)
(***************************************************************************)
StartWalk(t, o) ==
  /\ odid' = [odid EXCEPT ![t] = o]
  /\ cur' = [cur EXCEPT ![t] = hash_key[o]]

(* One round of the search loop.                                            *)
Walk(t) ==
  /\ At(t, "walk")
  /\ LET a == next[cur[t]]
     IN IF Usable(cur[t]) /\ (a = NULL \/ Usable(a))
          THEN /\ GoTo(t, "walk", IF a = NULL THEN "create"
                                  ELSE IF owner[a] = odid[t] THEN "found" ELSE "walk")
               /\ cur' = [cur EXCEPT ![t] = IF a = NULL THEN @ ELSE a]
               /\ UNCHANGED <<table, index, odid, tmp, segment, pass, undefined, bounds,
                              history>>
          ELSE Undefined(t, "walk")

(* The new cell is linked before its fields are set.                        *)
LinkCell(t) ==
  IF Usable(cur[t])
    THEN /\ GoTo(t, "create", "init")
         /\ \E a \in {x \in Cells : owner[x] = NULL} :
              /\ next' = [next EXCEPT ![cur[t]] = a, ![a] = Garbage]
              /\ owner' = [owner EXCEPT ![a] = Garbage]
              /\ cur' = [cur EXCEPT ![t] = a]
         /\ UNCHANGED <<count, index, odid, tmp, segment, pass, undefined, bounds, history>>
    ELSE Undefined(t, "create")

(* malloc fails: the update prints a message and returns, the monitoring    *)
(* thread goes on with a NULL counter.                                      *)
NoCell(t) ==
  /\ failures > 0 /\ failures' = failures - 1
  /\ IF t = "worker"
       THEN GoTo(t, "create", "idle") /\ Return(t) /\ segment' = NoSegment
       ELSE /\ GoTo(t, "create", "found")
            /\ cur' = [cur EXCEPT ![t] = NULL]
            /\ UNCHANGED <<odid, tmp, segment>>
  /\ UNCHANGED <<table, index, pass, undefined, updates, passes, history>>

InitCell(t) ==
  /\ GoTo(t, "init", "index")
  /\ owner' = [owner EXCEPT ![cur[t]] = odid[t]]
  /\ next' = [next EXCEPT ![cur[t]] = NULL]
  /\ count' = [count EXCEPT ![cur[t]] = Zero]
  /\ UNCHANGED <<index, call, pass, undefined, bounds, history>>

(* The other thread is about to use active_odids.                           *)
Addressing(t) ==
  \E u \in Threads \ {t} : pc[u] \in {"visit", "found", "mark", "remove", "compact", "index"}

(* resize_active_odid_index when the array is about to be full.  It may     *)
(* fail, and the entry is written all the same.  When it does not, realloc  *)
(* frees the old array, whose address the other thread may have loaded.     *)
IndexOdid(t) ==
  \E fails, stale \in BOOLEAN :
    LET grow == active_odids_length + 1 >= active_odids_max_length
        size == active_odids_max_length + (IF grow /\ ~fails THEN ACTIVE_ODIDS ELSE 0)
        array == [i \in 0..size-1 |-> IF i \in DOMAIN active_odids
                                      THEN active_odids[i] ELSE UnusedSlot]
    IN /\ fails => grow /\ failures > 0
       /\ stale => grow /\ ~fails /\ Addressing(t)
       /\ IF ~stale /\ active_odids_length < size
            THEN /\ GoTo(t, "index", "load_length")
                 /\ failures' = failures - (IF fails THEN 1 ELSE 0)
                 /\ active_odids' = [array EXCEPT ![active_odids_length] =
                                       [odid |-> odid[t], active |-> 0]]
                 /\ active_odids_max_length' = size
                 /\ UNCHANGED <<table, active_odids_length, call, pass, undefined, updates,
                                passes, history>>
            ELSE Undefined(t, "index")

(* active_odids_length += 1                                                 *)
LoadLength(t) ==
  /\ GoTo(t, "load_length", "store_length")
  /\ tmp' = [tmp EXCEPT ![t] = active_odids_length]
  /\ UNCHANGED <<table, index, odid, cur, segment, pass, undefined, bounds, history>>

StoreLength(t) ==
  /\ GoTo(t, "store_length", "found")
  /\ active_odids_length' = tmp[t] + 1
  /\ UNCHANGED <<table, active_odids, active_odids_max_length, call, pass, undefined,
                 bounds, history>>

get_odid_counter(t) ==
  Walk(t) \/ LinkCell(t) \/ NoCell(t) \/ InitCell(t) \/ IndexOdid(t)
  \/ LoadLength(t) \/ StoreLength(t)

-----------------------------------------------------------------------------
(***************************************************************************)
(* The worker: unyte_udp_update_received_segment and                       *)
(* unyte_udp_update_dropped_segment.                                       *)
(***************************************************************************)
Update(o, type, mid) ==
  /\ GoTo("worker", "idle", "walk")
  /\ updates < MaxUpdates /\ updates' = updates + 1
  /\ StartWalk("worker", o)
  /\ segment' = [type |-> type, mid |-> mid]
  /\ UNCHANGED <<table, index, tmp, pass, undefined, passes, failures, history>>

(* segments_received++ or segments_dropped++                                *)
LoadCount ==
  IF Usable(cur["worker"])
    THEN /\ GoTo("worker", "found", "store_count")
         /\ tmp' = [tmp EXCEPT !["worker"] = count[cur["worker"]][segment.type]]
         /\ UNCHANGED <<table, index, odid, cur, segment, pass, undefined, bounds, history>>
    ELSE Undefined("worker", "found")

StoreCount ==
  IF Usable(cur["worker"])
    THEN /\ GoTo("worker", "store_count", "message_id")
         /\ count' = [count EXCEPT ![cur["worker"]][segment.type] = tmp["worker"] + 1]
         /\ owed' = [owed EXCEPT ![odid["worker"]] = @ + 1]
         /\ UNCHANGED <<next, owner, index, call, pass, undefined, bounds>>
    ELSE Undefined("worker", "store_count")

(* A received segment older than the last one is counted as reordered.      *)
CountMessageId ==
  IF Usable(cur["worker"])
    THEN /\ GoTo("worker", "message_id", "idle")
         /\ count' = IF segment.type = "received" /\ segment.mid < count[cur["worker"]].last
                       THEN [count EXCEPT ![cur["worker"]].reordered = @ + 1]
                       ELSE [count EXCEPT ![cur["worker"]].last = segment.mid]
         /\ Return("worker") /\ segment' = NoSegment
         /\ UNCHANGED <<next, owner, index, pass, undefined, bounds, history>>
    ELSE Undefined("worker", "message_id")

-----------------------------------------------------------------------------
(***************************************************************************)
(* The monitoring thread: a pass of t_monitoring_unyte_udp.                *)
(***************************************************************************)
(* sleep(delay) ends, and the length of the index is captured.              *)
Wake ==
  /\ GoTo("monitor", "idle", "visit")
  /\ MaxPasses = 0 \/ passes < MaxPasses
  /\ passes' = IF MaxPasses = 0 THEN 0 ELSE passes + 1
  /\ y' = 0 /\ n' = active_odids_length
  /\ UNCHANGED <<table, index, call, has_values, sum, undefined, updates, failures, history>>

EndPass ==
  /\ y >= n
  /\ GoTo("monitor", "visit", "idle")
  /\ y' = 0 /\ n' = 0
  /\ UNCHANGED <<table, index, call, has_values, sum, undefined, bounds, history>>

(* Entry y of the index, which may have left the index since the pass       *)
(* began.                                                                   *)
Visit ==
  /\ y < n
  /\ IF y \in DOMAIN active_odids /\ active_odids[y].odid # Garbage
       THEN /\ GoTo("monitor", "visit", "walk")
            /\ StartWalk("monitor", active_odids[y].odid)
            /\ UNCHANGED <<table, index, tmp, segment, pass, undefined, bounds, history>>
       ELSE Undefined("monitor", "visit")

odid_counter_has_values(a) == a # NULL /\ count[a] # Zero

Inspect ==
  /\ At("monitor", "found")
  /\ has_values' = odid_counter_has_values(cur["monitor"])
  /\ GoTo("monitor", "found",
          IF ~has_values' /\ active_odids[y].active = ODID_TIME_TO_LIVE
            THEN "remove" ELSE "summary")
  /\ UNCHANGED <<table, index, call, y, n, sum, undefined, bounds, history>>

get_summary ==
  /\ At("monitor", "summary") /\ cur["monitor"] # NULL
  /\ GoTo("monitor", "summary", "clear")
  /\ sum' = count[cur["monitor"]]
  /\ UNCHANGED <<table, index, call, y, n, has_values, undefined, bounds, history>>

(* There is no counter, or no memory for the summary: nothing is sent.      *)
NoSummary ==
  /\ IF cur["monitor"] = NULL THEN failures' = failures
     ELSE failures > 0 /\ failures' = failures - 1
  /\ GoTo("monitor", "summary", "mark")
  /\ UNCHANGED <<table, index, call, pass, undefined, updates, passes, history>>

(* The summary goes to the monitoring queue and the counters are reset.     *)
reinit_odid_counters ==
  /\ GoTo("monitor", "clear", "mark")
  /\ count' = [count EXCEPT ![cur["monitor"]] = Zero]
  /\ owed' = [owed EXCEPT ![odid["monitor"]] = @ - Total(sum)]
  /\ UNCHANGED <<next, owner, index, call, pass, undefined, bounds>>

Mark ==
  /\ GoTo("monitor", "mark", "visit")
  /\ active_odids' = [active_odids EXCEPT ![y].active = IF has_values THEN 0 ELSE @ + 1]
  /\ y' = y + 1 /\ has_values' = FALSE /\ sum' = Zero
  /\ Return("monitor")
  /\ UNCHANGED <<table, active_odids_length, active_odids_max_length, segment, n,
                 undefined, bounds, history>>

(***************************************************************************)
(* remove_odid_counter, for the odid that entry y has by now.              *)
(***************************************************************************)
Remove ==
  /\ GoTo("monitor", "remove", "unlink")
  /\ StartWalk("monitor", active_odids[y].odid)
  /\ UNCHANGED <<table, index, tmp, segment, pass, undefined, bounds, history>>

(* One round of its loop, which goes on to the end of the list.             *)
Unlink ==
  /\ At("monitor", "unlink")
  /\ LET p == cur["monitor"]
         a == next[p]
     IN IF p = NULL \/ (Usable(p) /\ a = NULL)
          THEN /\ GoTo("monitor", "unlink", "compact")
               /\ UNCHANGED <<table, index, call, pass, undefined, bounds, history>>
          ELSE IF Usable(p) /\ Usable(a)
          THEN /\ GoTo("monitor", "unlink", "unlink")
               /\ IF owner[a] = odid["monitor"]
                    THEN /\ next' = [next EXCEPT ![p] = next[a], ![a] = NULL]
                         /\ owner' = [owner EXCEPT ![a] = NULL]
                         /\ cur' = [cur EXCEPT !["monitor"] = next[a]]
                    ELSE /\ cur' = [cur EXCEPT !["monitor"] = a]
                         /\ UNCHANGED <<next, owner>>
               /\ UNCHANGED <<count, index, odid, tmp, segment, pass, undefined, bounds,
                              history>>
          ELSE Undefined("monitor", "unlink")

(* Every later entry is copied in turn over the removed one: it ends up     *)
(* with the last.                                                           *)
Compact ==
  LET found == {i \in 0..active_odids_length-1 : active_odids[i].odid = odid["monitor"]}
      first == CHOOSE i \in found : \A j \in found : i <= j
  IN /\ At("monitor", "compact")
     /\ GoTo("monitor", "compact", IF found = {} THEN "visit" ELSE "shrink")
     /\ IF found = {}
          THEN y' = y + 1 /\ Return("monitor") /\ UNCHANGED active_odids
          ELSE /\ active_odids' = [active_odids EXCEPT ![first] =
                                     active_odids[active_odids_length - 1]]
               /\ tmp' = [tmp EXCEPT !["monitor"] = active_odids_length]
               /\ UNCHANGED <<y, odid, cur>>
     /\ UNCHANGED <<table, active_odids_length, active_odids_max_length, segment,
                    n, has_values, sum, undefined, bounds, history>>

(* active_odids_length -= 1                                                 *)
Shrink ==
  /\ GoTo("monitor", "shrink", "visit")
  /\ active_odids_length' = tmp["monitor"] - 1
  /\ y' = y + 1
  /\ Return("monitor")
  /\ UNCHANGED <<table, active_odids, active_odids_max_length, segment, n, has_values, sum,
                 undefined, bounds, history>>

t_monitoring_unyte_udp ==
  \/ Wake \/ EndPass \/ Visit \/ Inspect \/ get_summary \/ NoSummary
  \/ reinit_odid_counters \/ Mark \/ Remove \/ Unlink \/ Compact \/ Shrink

Next ==
  \/ \E t \in Threads : get_odid_counter(t)
  \/ \E o \in Odids, type \in {"received", "dropped"}, mid \in Mids : Update(o, type, mid)
  \/ LoadCount \/ StoreCount \/ CountMessageId
  \/ t_monitoring_unyte_udp

Spec == Init /\ [][Next]_vars

(* The monitoring thread sleeps for a bounded time, and both threads run.   *)
FairSpec ==
  /\ Spec
  /\ WF_vars(t_monitoring_unyte_udp \/ get_odid_counter("monitor"))
  /\ WF_vars(LoadCount \/ StoreCount \/ CountMessageId \/ get_odid_counter("worker"))

-----------------------------------------------------------------------------
Quiet == ~undefined /\ pc["worker"] = "idle" /\ pc["monitor"] = "idle"

Linked == {a \in Cells : owner[a] \notin {NULL, Garbage}}

Indexed == {active_odids[i].odid : i \in 0..active_odids_length-1}

IndexFull == active_odids_length >= active_odids_max_length

(* get_odid_counter "Returns existant odid_counter if exists, creates a new *)
(* one if not existant", monitoring_worker.c:100: what a thread got from it *)
(* is a counter it may use, and no thread reads or writes a freed cell, a   *)
(* cell that is not built yet or an entry outside the index.                *)
NeverUndefined == ~undefined

(* A thread uses memory that is not its own only after an update went on    *)
(* during a removal or the index moved during a pass, or to write in an     *)
(* index that could not grow.  Creating a cell in a list that the other     *)
(* thread walks, copying and resetting counters that are being incremented, *)
(* removals between updates and a malloc that fails never lead there.       *)
OnlyRacesUndefined == undefined => races # {} \/ IndexFull

(* Between calls, the index lists every odid that has counters, and each of *)
(* them once, as long as no update went on during a removal: an odid that   *)
(* is not listed would never be reported again.                             *)
IndexExact ==
  Quiet /\ "removal" \notin races =>
    /\ Indexed = {owner[a] : a \in Linked}
    /\ Cardinality(Indexed) = active_odids_length
    /\ Cardinality(Linked) = active_odids_length

(* "The thread will every monitoring_delay seconds send all observation     *)
(* domain id's counters", README.md:124: between calls, the segments of an  *)
(* odid that were counted are those sent in summaries and those still in    *)
(* its counters, unless one of them was being counted between the copy and  *)
(* the reset of the counter, or an update went on during a removal.         *)
SummariesAddUp ==
  Quiet /\ "removal" \notin races =>
    \A o \in Odids \ clashed :
      IF \E a \in Linked : owner[a] = o
        THEN \E a \in Linked : owner[a] = o /\ owed[o] = Total(count[a])
        ELSE owed[o] = 0

(* Once no segment comes any more, every counter is reported and removed,   *)
(* unless an update went on during a removal.                               *)
SilentAreForgotten ==
  \/ <>(undefined \/ "removal" \in races)
  \/ <>[](updates = MaxUpdates => active_odids_length = 0 /\ Linked = {})
=============================================================================
