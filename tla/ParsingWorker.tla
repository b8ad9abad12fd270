--------------------------- MODULE ParsingWorker ---------------------------
(***************************************************************************)
(* A parsing worker (src/parsing_worker.c) with its segmentation buffer,   *)
(* its clean-up thread (src/cleanup_worker.c), the clock and the consumer  *)
(* of the output queue.                                                    *)
(*                                                                         *)
(* Any segment of any message may arrive at any time and any number of     *)
(* times: the network loses, repeats and reorders datagrams.  The worker   *)
(* handles one datagram per iteration, and only the cleanup flag is shared *)
(* with another thread, so an iteration is one action.  A malloc may fail, *)
(* at most FailingMallocs times.  The output queue is what BoundedFifo     *)
(* promises: a write on a full queue is refused.                           *)
(***************************************************************************)
EXTENDS SegmentationBuffer

CONSTANTS Capacity,        (* messages the output queue holds               *)
          FailingMallocs   (* bound: how many mallocs may fail              *)

ASSUME WorkerAssumption == Capacity \in Nat \ {0} /\ FailingMallocs \in Nat

VARIABLES buf,                  (* the stored lists, by key                 *)
          count,                (* segment_buff->count                      *)
          cleanup,              (* segment_buff->cleanup                    *)
          cleanup_start_index,
          headless,             (* keys whose cell was linked with no list  *)
          output,               (* the messages in the output queue         *)
          report,               (* the monitoring counter just updated      *)
          max_malloc_errs,
          failures,             (* mallocs that may still fail              *)
          parser                (* "running", "stopped" or "crashed"        *)

buffer == <<buf, count, headless>>
sweep == <<cleanup, cleanup_start_index>>
memory == <<max_malloc_errs, failures>>
vars == <<buf, count, cleanup, cleanup_start_index, headless, output, report,
          max_malloc_errs, failures, parser>>

Init ==
  /\ buf = <<>> /\ count = 0 /\ headless = {}
  /\ cleanup = 0 /\ cleanup_start_index = 0
  /\ output = <<>> /\ report = "none"
  /\ max_malloc_errs = 3 /\ failures = FailingMallocs
  /\ parser = "running"

Stored(k) == k \in DOMAIN buf

List(k) == IF Stored(k) THEN buf[k] ELSE create_message_segment_list

With(k, m) == [j \in DOMAIN buf \cup {k} |-> IF j = k THEN m ELSE buf[j]]

Without(k) == [j \in DOMAIN buf \ {k} |-> buf[j]]

(* insert_segment counts the list it creates.                               *)
CountWith(k) == IF Stored(k) THEN count ELSE count + 1

-----------------------------------------------------------------------------
(* Mutated forms of definitions below, used by none of them.                *)
cleanup_seg_buff_keeps_count(b, n) ==
  /\ buf' = Swept(b, cleanup_start_index)
  /\ count' = n
  /\ cleanup' = 0
  /\ cleanup_start_index' = NextStart(cleanup_start_index)
  /\ UNCHANGED parser

WriteOutput_one_early(x) ==
  IF Len(output) < Capacity - 1
    THEN output' = Append(output, x) /\ report' = "received"
    ELSE output' = output /\ report' = "dropped"

-----------------------------------------------------------------------------
(* unyte_udp_queue_write on the output queue; a refused message is freed.   *)
WriteOutput(x) ==
  IF Len(output) < Capacity
    THEN output' = Append(output, x) /\ report' = "received"
    ELSE output' = output /\ report' = "dropped"

NoOutput == output' = output /\ report' = "none"

(* A pass of the clean-up over the table b of n messages.  A cell that has  *)
(* no list is dereferenced.                                                 *)
cleanup_seg_buff(b, n) ==
  /\ buf' = Swept(b, cleanup_start_index)
  /\ count' = n - Cardinality(Expired(b, cleanup_start_index))
  /\ cleanup' = 0
  /\ cleanup_start_index' = NextStart(cleanup_start_index)
  /\ parser' = IF \E k \in headless' : InPass(hashKey[k], cleanup_start_index)
                 THEN "crashed" ELSE "running"

(* The end of an iteration on a segment, after which the table is b.        *)
EndIteration(b, n) ==
  IF cleanup = 1 /\ n > CLEAN_COUNT_MAX
    THEN cleanup_seg_buff(b, n)
    ELSE buf' = b /\ count' = n /\ UNCHANGED <<sweep, parser>>

(* A datagram arrives that is a segment of k.                               *)
Receives(k) == parser = "running" /\ NbSegments[k] > 1 /\ k \notin headless

-----------------------------------------------------------------------------
(* A message that is not segmented goes straight to the output queue.       *)
parse_unsegmented(k) ==
  /\ parser = "running"
  /\ NbSegments[k] = 1
  /\ WriteOutput(create_assembled_msg(
       insert_into_msl(create_message_segment_list, k, 0), k))
  /\ UNCHANGED <<buffer, sweep, memory, parser>>

(* insert_segment answers 0: stored, the message is not complete.           *)
StoreSegment(k, i) ==
  LET m == insert_into_msl(List(k), k, i)
  IN /\ Receives(k) /\ ~IsDuplicate(List(k), i) /\ ~IsComplete(m)
     /\ UNCHANGED <<headless, memory>>
     /\ EndIteration(With(k, m), CountWith(k))
     /\ NoOutput

(* insert_segment answers -1: freed, and the iteration ends there.          *)
IgnoreDuplicate(k, i) ==
  LET m == LearnTotal(List(k), k, i)
  IN /\ Receives(k) /\ IsDuplicate(List(k), i) /\ ~IsComplete(m)
     /\ buf' = With(k, m)
     /\ NoOutput
     /\ UNCHANGED <<count, headless, sweep, memory, parser>>

(* insert_segment answers 1: the message is assembled, written and cleared. *)
CompleteMessage(k, i) ==
  LET m == insert_into_msl(List(k), k, i)
  IN /\ Receives(k) /\ ~IsDuplicate(List(k), i) /\ IsComplete(m)
     /\ UNCHANGED <<headless, memory>>
     /\ WriteOutput(create_assembled_msg(m, k))
     /\ EndIteration(Without(k), CountWith(k) - 1)

-----------------------------------------------------------------------------
(* insert_segment answers -3; the worker gives up at the third time.        *)
MallocError(b, n) ==
  /\ failures > 0 /\ failures' = failures - 1
  /\ max_malloc_errs' = max_malloc_errs - 1
  /\ NoOutput
  /\ IF max_malloc_errs <= 1
       THEN buf' = b /\ count' = n /\ parser' = "stopped" /\ UNCHANGED sweep
       ELSE EndIteration(b, n)

(* No memory for the collision cell: nothing changes.                       *)
NoCell(k, i) ==
  /\ Receives(k) /\ ~Stored(k)
  /\ headless' = headless
  /\ MallocError(buf, count)

(* No memory for the list: the cell stays linked, without a list.           *)
NoList(k, i) ==
  /\ Receives(k) /\ ~Stored(k)
  /\ headless' = headless \cup {k}
  /\ MallocError(buf, count)

(* No memory for the segment's cell.                                        *)
NoSegmentCell(k, i) ==
  /\ Receives(k) /\ ~IsDuplicate(List(k), i)
  /\ headless' = headless
  /\ MallocError(With(k, LoseRest(List(k), k, i)), CountWith(k))

(* No memory for the head of the options: insert_segment answers -4, which  *)
(* the worker does not look at.                                             *)
NoOptions(k, i) ==
  /\ Receives(k) /\ ~IsDuplicate(List(k), i) /\ ~List(k).options_head
  /\ failures > 0 /\ failures' = failures - 1
  /\ UNCHANGED <<headless, max_malloc_errs>>
  /\ EndIteration(With(k, LinkSegment(List(k), k, i)), CountWith(k))
  /\ NoOutput

(* No memory to assemble the message: it is cleared without being written.  *)
NoAssembly(k, i) ==
  LET m == insert_into_msl(List(k), k, i)
  IN /\ Receives(k) /\ ~IsDuplicate(List(k), i) /\ IsComplete(m)
     /\ failures > 0 /\ failures' = failures - 1
     /\ UNCHANGED <<headless, max_malloc_errs>>
     /\ EndIteration(Without(k), CountWith(k) - 1)
     /\ NoOutput

(* No memory to parse the datagram: the worker ends.                        *)
NoParse ==
  /\ parser = "running"
  /\ failures > 0 /\ failures' = failures - 1
  /\ parser' = "stopped"
  /\ NoOutput
  /\ UNCHANGED <<buffer, sweep, max_malloc_errs>>

(* insert_segment answers -2.  Complete messages are cleared at once, but   *)
(* one whose completing segment met NoOptions: if no segment of it got an   *)
(* options list, create_assembled_msg dereferences the missing one.         *)
CompleteAgain(k, i) ==
  LET m == LearnTotal(List(k), k, i)
  IN /\ Receives(k) /\ IsDuplicate(List(k), i) /\ IsComplete(m)
     /\ UNCHANGED <<headless, memory>>
     /\ IF m.options_head
          THEN /\ WriteOutput(create_assembled_msg(m, k))
               /\ EndIteration(Without(k), count - 1)
          ELSE /\ parser' = "crashed"
               /\ NoOutput
               /\ UNCHANGED <<buf, count, sweep>>

(* No memory to assemble it then: cleared without being written, before its *)
(* options are looked at.                                                   *)
NoAssemblyAgain(k, i) ==
  /\ Receives(k) /\ IsDuplicate(List(k), i) /\ IsComplete(LearnTotal(List(k), k, i))
  /\ failures > 0 /\ failures' = failures - 1
  /\ UNCHANGED <<headless, max_malloc_errs>>
  /\ EndIteration(Without(k), count - 1)
  /\ NoOutput

(* A segment whose walk of the collision list reaches a cell that has no    *)
(* list: its own, or one whose next was never set.                          *)
WalkHeadless(k) ==
  /\ parser = "running" /\ NbSegments[k] > 1
  /\ ~Stored(k)
  /\ \E h \in headless : hashKey[h] = hashKey[k]
  /\ parser' = "crashed"
  /\ NoOutput
  /\ UNCHANGED <<buffer, sweep, memory>>

-----------------------------------------------------------------------------
(* The clean-up thread, every CLEANUP_FLAG_CRON milliseconds.               *)
t_clean_up ==
  /\ parser # "crashed"
  /\ cleanup' = 1
  /\ report' = "none"
  /\ UNCHANGED <<buffer, cleanup_start_index, output, memory, parser>>

(* A second passes, for the program and for the history of each list.       *)
Tick ==
  /\ buf' = [k \in DOMAIN buf |->
               [buf[k] EXCEPT !.timestamp = IF @ = Unset THEN @ ELSE Elapse(@),
                              !.since = Elapse(@)]]
  /\ report' = "none"
  /\ UNCHANGED <<count, headless, sweep, output, memory, parser>>

(* The user takes the oldest message.                                       *)
Consume ==
  /\ parser # "crashed"
  /\ output # <<>>
  /\ output' = Tail(output)
  /\ report' = "none"
  /\ UNCHANGED <<buffer, sweep, memory, parser>>

Next ==
  \/ \E k \in Keys : \E i \in 0..NbSegments[k]-1 :
        \/ StoreSegment(k, i) \/ IgnoreDuplicate(k, i) \/ CompleteMessage(k, i)
        \/ NoCell(k, i) \/ NoList(k, i) \/ NoSegmentCell(k, i) \/ NoOptions(k, i)
        \/ NoAssembly(k, i) \/ CompleteAgain(k, i) \/ NoAssemblyAgain(k, i)
  \/ \E k \in Keys : parse_unsegmented(k) \/ WalkHeadless(k)
  \/ NoParse
  \/ t_clean_up \/ Tick \/ Consume

Spec == Init /\ [][Next]_vars

(* Time passes and the clean-up thread is scheduled; nothing makes a        *)
(* datagram arrive or the user take a message.                              *)
FairSpec == Spec /\ WF_vars(Tick) /\ WF_vars(t_clean_up)

-----------------------------------------------------------------------------
Message(k) == [i \in 1..NbSegments[k] |-> i - 1]

(* Every variable has its type; nothing is stored twice, and a stored list  *)
(* only ever holds segments of its own message.                             *)
TypeOK ==
  /\ DOMAIN buf \subseteq Keys /\ headless \subseteq Keys
  /\ \A k \in DOMAIN buf :
       /\ buf[k].total_size \in {0, NbSegments[k]}
       /\ buf[k].current_size \in Nat /\ buf[k].total_payload_byte_size \in Nat
       /\ \A j \in 1..Len(buf[k].segs) : buf[k].segs[j] \in 0..NbSegments[k]-1
       /\ buf[k].to_clean_up \in {0, 1}
       /\ buf[k].timestamp \in Unset..EXPIRE_MSG+1
       /\ buf[k].since \in 0..EXPIRE_MSG+1
  /\ count \in Nat
  /\ cleanup \in {0, 1} /\ cleanup_start_index \in 0..IndexModulus-1
  /\ Len(output) <= Capacity
  /\ report \in {"none", "received", "dropped"}
  /\ max_malloc_errs \in 0..3 /\ failures \in 0..FailingMallocs
  /\ parser \in {"running", "stopped", "crashed"}

(* segment_buff->count, changed by insert_segment, by the worker and by the *)
(* sweep, is the number of lists in the table, whatever mallocs failed.     *)
CountIsStored == count = Cardinality(DOMAIN buf)

(* A list is strictly sorted, without a segment twice, in any order of      *)
(* arrival and after any failed malloc.                                     *)
ListsSorted ==
  \A k \in DOMAIN buf : \A a, b \in 1..Len(buf[k].segs) :
     a < b => buf[k].segs[a] < buf[k].segs[b]

(* Every message handed to the user has all its segments, once each and in  *)
(* order, and the option of each of them once, and the length of payload    *)
(* the user reads is that of the payload: no segment of an earlier          *)
(* delivery, of an expired list or of another message slips in.             *)
DeliveredWhole ==
  \A j \in 1..Len(output) : LET x == output[j] IN
     /\ x.payload = Message(x.key)
     /\ Len(x.options) = Cardinality(Tagged[x.key])
     /\ {x.options[o] : o \in 1..Len(x.options)} = Tagged[x.key]
     /\ payload_length(x) = ContentSize[x.key] * NbSegments[x.key]

(* A message all of whose segments are there is not in the buffer: the      *)
(* segment that arrived last delivered it, whichever it was.                *)
CompleteLeaves == \A k \in DOMAIN buf : Len(buf[k].segs) < NbSegments[k]

(* The step writes or drops a message, and k lacked one segment before it.  *)
Completes(k) == report' # "none" /\ Len(buf[k].segs) = NbSegments[k] - 1

(* A list leaves the buffer only when its last missing segment arrives or   *)
(* when it was created more than EXPIRE_MSG seconds ago.                    *)
LeavesCompleteOrOld ==
  [][\A k \in DOMAIN buf \ DOMAIN buf' : Completes(k) \/ buf[k].since > EXPIRE_MSG]_vars

(* A message that completes is written or reported as dropped, never lost   *)
(* silently, and it is dropped only when the output queue is full.          *)
DropsOnlyWhenFull ==
  [][/\ report' = "dropped" => Len(output) = Capacity /\ output' = output
     /\ report' = "received" => Len(output') = Len(output) + 1
     /\ (DOMAIN buf \ DOMAIN buf') \ Expired(buf, cleanup_start_index) # {}
          => report' # "none"]_vars

Sweeping == []<><<cleanup_start_index' # cleanup_start_index>>_vars

(* As long as the sweeps go on, no list in the first IndexModulus buckets   *)
(* stays for ever.                                                          *)
SweptBucketsEmpty ==
  Sweeping => \A k \in Keys : hashKey[k] < IndexModulus => (Stored(k) ~> ~Stored(k))
=============================================================================
