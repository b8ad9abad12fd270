------------------------------ MODULE UdpQueue ------------------------------
(***************************************************************************)
(* The ring buffer of src/unyte_udp_queue.c: two counting semaphores, a    *)
(* mutex and a circular array, shared by any number of threads.  A call    *)
(* is split where other threads can run: before sem_wait, before           *)
(* pthread_mutex_lock, in the critical section, before                     *)
(* pthread_mutex_unlock and before sem_post.                               *)
(*                                                                         *)
(* The semaphore "empty" starts at Size although the array can hold only   *)
(* Size - 1 handles (head = tail means empty): a producer that finds the   *)
(* array full still passes sem_wait and puts its permit back.              *)
(***************************************************************************)
EXTENDS Integers, FiniteSets, Sequences

CONSTANTS Writers,             (* threads calling unyte_udp_queue_write     *)
          DestructiveWriters,  (* ... unyte_udp_queue_destructive_write     *)
          Readers,             (* ... unyte_udp_queue_read                  *)
          Drainers,            (* the readers that ask is_udp_queue_empty   *)
                               (* before each read                          *)
          Handles,             (* the addresses malloc may hand out         *)
          NULL,
          Garbage,             (* what an uninitialised slot contains       *)
          NoThread,            (* "lock" when nobody holds the mutex        *)
          Size                 (* queue->size                               *)

Producers == Writers \cup DestructiveWriters
Threads == Producers \cup Readers

ASSUME ThreadsAssumption ==
  /\ IsFiniteSet(Writers) /\ IsFiniteSet(DestructiveWriters) /\ IsFiniteSet(Readers)
  /\ Writers \cap DestructiveWriters = {}
  /\ Producers \cap Readers = {}
  /\ Drainers \subseteq Readers
  /\ NoThread \notin Threads

ASSUME HandlesAssumption == NULL \notin Handles /\ Garbage \notin Handles

ASSUME SizeAssumption == Size \in Nat \ {0}

VARIABLES head, tail, data,  (* the ring; data is not initialised by malloc *)
          empty, full,       (* the values of the two semaphores            *)
          lock,              (* the thread that holds the mutex             *)
          pc,                (* where each thread is                        *)
          hand,              (* the handle each thread owns, or NULL        *)
          ret,               (* the result of each thread's call            *)
          live               (* the handles malloc'ed and not yet freed     *)

ring == <<head, tail, data>>
sems == <<empty, full>>
vars == <<head, tail, data, empty, full, lock, pc, hand, ret, live>>

Slots == 0..Size-1

-----------------------------------------------------------------------------
(***************************************************************************)
(* Plausible slips in unyte_udp_queue.c, each a mutated form of one of the *)
(* definitions below; the specification uses none of them.                 *)
(***************************************************************************)
NextIndex_unwrapped(i) == i + 1

IsFullNever == FALSE

IsFullOneEarly == (head + 2) % Size = tail \/ (head + 1) % Size = tail

GoTo(t, from, to) ==
  /\ pc[t] = from
  /\ pc' = [pc EXCEPT ![t] = to]

sem_post_always_full(t) ==
  /\ GoTo(t, "sem_post", "return")
  /\ full' = full + 1
  /\ UNCHANGED <<ring, empty, lock, hand, ret, live>>

sem_post_not_when_full(t) ==
  /\ GoTo(t, "sem_post", "return")
  /\ full' = IF t \in Producers /\ ret[t] = 0 THEN full + 1 ELSE full
  /\ empty' = IF t \in Readers /\ ret[t] = 0 THEN empty + 1 ELSE empty
  /\ UNCHANGED <<ring, lock, hand, ret, live>>

sem_post_forgets_reader(t) ==
  /\ GoTo(t, "sem_post", "return")
  /\ full' = full
  /\ empty' = IF t \in Readers \/ ret[t] # 0 THEN empty + 1 ELSE empty
  /\ UNCHANGED <<ring, lock, hand, ret, live>>

DestroyOldest_frees_newest(m) ==
  /\ GoTo(m, "critical", "unlock")
  /\ (head + 1) % Size = tail
  /\ live' = live \ {data[(head + Size - 1) % Size]}
  /\ data' = [data EXCEPT ![head] = hand[m]]
  /\ head' = (head + 1) % Size
  /\ tail' = (tail + 1) % Size
  /\ hand' = [hand EXCEPT ![m] = NULL]
  /\ ret' = [ret EXCEPT ![m] = 1]
  /\ UNCHANGED <<sems, lock>>

is_udp_queue_empty_by_ring(r) ==
  /\ GoTo(r, "idle", "sem_wait")
  /\ r \in Drainers
  /\ head # tail
  /\ UNCHANGED <<ring, sems, lock, hand, ret, live>>

-----------------------------------------------------------------------------
NextIndex(i) == (i + 1) % Size

IsFull == NextIndex(head) = tail

(* unyte_udp_queue_init: the slots are what malloc left in them.            *)
unyte_udp_queue_init ==
  /\ head = 0 /\ tail = 0
  /\ data = [i \in Slots |-> Garbage]
  /\ empty = Size /\ full = 0
  /\ lock = NoThread

Init ==
  /\ unyte_udp_queue_init
  /\ pc = [t \in Threads |-> "idle"]
  /\ hand = [t \in Threads |-> NULL]
  /\ ret = [t \in Threads |-> 0]
  /\ live = {}

(* A producer allocates what it is about to queue and calls the queue.      *)
CallWrite(p) ==
  /\ GoTo(p, "idle", "sem_wait")
  /\ \E h \in Handles \ live :
        /\ hand' = [hand EXCEPT ![p] = h]
        /\ live' = live \cup {h}
  /\ UNCHANGED <<ring, sems, lock, ret>>

CallRead(r) ==
  /\ GoTo(r, "idle", "sem_wait")
  /\ r \notin Drainers
  /\ UNCHANGED <<ring, sems, lock, hand, ret, live>>

(* unyte_udp_free_collector reads only after is_udp_queue_empty, which      *)
(* looks at the semaphore and not at the ring, answered 1 ("not empty").    *)
is_udp_queue_empty(r) ==
  /\ GoTo(r, "idle", "sem_wait")
  /\ r \in Drainers
  /\ full # 0
  /\ UNCHANGED <<ring, sems, lock, hand, ret, live>>

sem_wait_empty(p) ==
  /\ GoTo(p, "sem_wait", "mutex_lock")
  /\ empty > 0
  /\ empty' = empty - 1
  /\ UNCHANGED <<ring, full, lock, hand, ret, live>>

sem_wait_full(r) ==
  /\ GoTo(r, "sem_wait", "mutex_lock")
  /\ full > 0
  /\ full' = full - 1
  /\ UNCHANGED <<ring, empty, lock, hand, ret, live>>

pthread_mutex_lock(t) ==
  /\ GoTo(t, "mutex_lock", "critical")
  /\ lock = NoThread
  /\ lock' = t
  /\ UNCHANGED <<ring, sems, hand, ret, live>>

(* The critical section of a producer whose handle fits.                    *)
Enqueue(p) ==
  /\ GoTo(p, "critical", "unlock")
  /\ ~IsFull
  /\ data' = [data EXCEPT ![head] = hand[p]]
  /\ head' = NextIndex(head)
  /\ hand' = [hand EXCEPT ![p] = NULL]
  /\ ret' = [ret EXCEPT ![p] = 0]
  /\ UNCHANGED <<tail, sems, lock, live>>

(* unyte_udp_queue_write on a full ring: -1, the caller keeps its handle.   *)
RejectWrite(w) ==
  /\ GoTo(w, "critical", "unlock")
  /\ IsFull
  /\ ret' = [ret EXCEPT ![w] = -1]
  /\ UNCHANGED <<ring, sems, lock, hand, live>>

(* unyte_udp_queue_destructive_write on a full ring: the oldest is freed.   *)
DestroyOldest(m) ==
  /\ GoTo(m, "critical", "unlock")
  /\ IsFull
  /\ live' = live \ {data[tail]}
  /\ data' = [data EXCEPT ![head] = hand[m]]
  /\ head' = NextIndex(head)
  /\ tail' = NextIndex(tail)
  /\ hand' = [hand EXCEPT ![m] = NULL]
  /\ ret' = [ret EXCEPT ![m] = 1]
  /\ UNCHANGED <<sems, lock>>

(* The critical section of unyte_udp_queue_read, with its early return of   *)
(* NULL (here -1) when head = tail.                                         *)
Dequeue(r) ==
  /\ GoTo(r, "critical", "unlock")
  /\ IF tail = head
       THEN /\ ret' = [ret EXCEPT ![r] = -1]
            /\ UNCHANGED <<tail, data, hand>>
       ELSE /\ ret' = [ret EXCEPT ![r] = 0]
            /\ hand' = [hand EXCEPT ![r] = data[tail]]
            /\ data' = [data EXCEPT ![tail] = NULL]
            /\ tail' = NextIndex(tail)
  /\ UNCHANGED <<head, sems, lock, live>>

pthread_mutex_unlock(t) ==
  /\ GoTo(t, "unlock", "sem_post")
  /\ lock' = NoThread
  /\ UNCHANGED <<ring, sems, hand, ret, live>>

(* A producer that stored its handle in a free slot announces it on "full"; *)
(* one that found the ring full gives its permit back.  A reader posts the  *)
(* slot it emptied, or gives its permit back.                               *)
sem_post(t) ==
  /\ GoTo(t, "sem_post", "return")
  /\ IF (t \in Producers) = (ret[t] = 0)
       THEN full' = full + 1 /\ empty' = empty
       ELSE empty' = empty + 1 /\ full' = full
  /\ UNCHANGED <<ring, lock, hand, ret, live>>

(* The caller frees what it still owns: the listener and the parsers the    *)
(* message that was refused, a consumer the message it has processed.       *)
Return(t) ==
  /\ GoTo(t, "return", "idle")
  /\ live' = live \ {hand[t]}
  /\ hand' = [hand EXCEPT ![t] = NULL]
  /\ UNCHANGED <<ring, sems, lock, ret>>

Next ==
  \/ \E p \in Producers : CallWrite(p) \/ sem_wait_empty(p) \/ Enqueue(p)
  \/ \E w \in Writers : RejectWrite(w)
  \/ \E m \in DestructiveWriters : DestroyOldest(m)
  \/ \E r \in Readers :
        CallRead(r) \/ is_udp_queue_empty(r) \/ sem_wait_full(r) \/ Dequeue(r)
  \/ \E t \in Threads :
        pthread_mutex_lock(t) \/ pthread_mutex_unlock(t) \/ sem_post(t) \/ Return(t)

Spec == Init /\ [][Next]_vars

-----------------------------------------------------------------------------
(* The scheduler runs every thread that can run: a thread inside a call     *)
(* keeps going.  Nothing makes a producer call, and ReadersKeepReading is   *)
(* assumed only where a property is about consumers that do.                *)
InsideCall(t) ==
  \/ t \in Producers /\ (sem_wait_empty(t) \/ Enqueue(t))
  \/ t \in Writers /\ RejectWrite(t)
  \/ t \in DestructiveWriters /\ DestroyOldest(t)
  \/ t \in Readers /\ (sem_wait_full(t) \/ Dequeue(t))
  \/ pthread_mutex_lock(t) \/ pthread_mutex_unlock(t) \/ sem_post(t) \/ Return(t)

CallsProceed == \A t \in Threads : WF_vars(InsideCall(t))

ReadersKeepReading == \A r \in Readers : WF_vars(CallRead(r) \/ is_udp_queue_empty(r))

FairSpec == Spec /\ CallsProceed

-----------------------------------------------------------------------------
(* The number of queued handles, and the i-th of them, oldest first.        *)
Count == IF head >= tail THEN head - tail ELSE Size - tail + head

SlotOf(i) == IF tail + i <= Size THEN tail + i - 1 ELSE tail + i - 1 - Size

Contents == [i \in 1..Count |-> data[SlotOf(i)]]

Queued(h) == \E i \in 1..Count : data[SlotOf(i)] = h

PC == {"idle", "sem_wait", "mutex_lock", "critical", "unlock", "sem_post", "return"}

(* Every variable has its type, the indices stay inside the array and the   *)
(* semaphores between 0 and queue->size (src/unyte_udp_queue.c:21-31).      *)
TypeOK ==
  /\ head \in Slots /\ tail \in Slots
  /\ data \in [Slots -> Handles \cup {NULL, Garbage}]
  /\ empty \in 0..Size /\ full \in 0..Size
  /\ lock \in Threads \cup {NoThread}
  /\ pc \in [Threads -> PC]
  /\ hand \in [Threads -> Handles \cup {NULL}]
  /\ ret \in [Threads -> {-1, 0, 1}]
  /\ live \in SUBSET Handles

(* Two threads are never between pthread_mutex_lock and                     *)
(* pthread_mutex_unlock at once, whatever the semaphores let through: this  *)
(* is what lets a critical section be one step.                             *)
CriticalSectionsDisjoint ==
  \A t, u \in Threads :
     pc[t] \in {"critical", "unlock"} /\ pc[u] \in {"critical", "unlock"} => t = u

(* A reader that got past sem_wait(&queue->full) finds a handle, however    *)
(* many readers and destructive writers run: unyte_udp_queue_read never     *)
(* returns NULL, so no caller dereferences it.                              *)
ReadNeverFindsEmpty == \A r \in Readers : pc[r] = "critical" => head # tail

(* The threads that took a permit of "empty" and have not turned it into a  *)
(* queued handle, and readers that emptied a slot they have not posted yet. *)
SlotHolders ==
  {p \in Producers : \/ pc[p] \in {"mutex_lock", "critical"}
                     \/ pc[p] \in {"unlock", "sem_post"} /\ ret[p] # 0}
  \cup {r \in Readers : pc[r] \in {"unlock", "sem_post"} /\ ret[r] = 0}

(* The readers that took a permit of "full" and hold no handle yet, and the *)
(* producers that stored a handle they have not posted yet.                 *)
ItemHolders ==
  {r \in Readers : \/ pc[r] \in {"mutex_lock", "critical"}
                   \/ pc[r] \in {"unlock", "sem_post"} /\ ret[r] # 0}
  \cup {p \in Producers : pc[p] \in {"unlock", "sem_post"} /\ ret[p] = 0}

(* No permit is lost or made up by any interleaving of calls, those that    *)
(* fail included: the permits of "empty", in the semaphore or with a        *)
(* thread, and the queued handles add up to Size; those of "full" add up to *)
(* the queued handles.                                                      *)
PermitsBalance ==
  /\ empty + Cardinality(SlotHolders) + Count = Size
  /\ full + Cardinality(ItemHolders) = Count

(* Every allocated handle has exactly one owner, one slot of the queue or   *)
(* one thread, and every handle queued or owned is allocated: nothing is    *)
(* leaked, freed twice, delivered twice or freed while queued, also when a  *)
(* destructive write frees the oldest handle.                               *)
OneOwner ==
  /\ \A i \in 1..Count : data[SlotOf(i)] \in live
  /\ \A i, j \in 1..Count : data[SlotOf(i)] = data[SlotOf(j)] => i = j
  /\ \A t \in Threads : hand[t] # NULL => hand[t] \in live /\ ~Queued(hand[t])
  /\ \A t, u \in Threads : hand[t] # NULL /\ hand[t] = hand[u] => t = u
  /\ \A h \in live : Queued(h) \/ \E t \in Threads : hand[t] = h

(* What a destructive write frees on a full queue is a handle that is       *)
(* queued (src/unyte_udp_queue.h:37-41), never what malloc left in a slot.  *)
DestroysQueuedHandle ==
  \A m \in DestructiveWriters : pc[m] = "critical" /\ IsFull => data[tail] \in live

(* A drainer that was told "not empty" is not left waiting in sem_wait, as  *)
(* long as it is the only reader (src/unyte_udp_collector.c:210-215).       *)
DrainerNeverBlocks ==
  Cardinality(Readers) = 1 => \A r \in Drainers : pc[r] = "sem_wait" => full > 0

(* A producer in sem_wait never depends on a consumer: although the readers *)
(* may stop calling, some producer's call always completes.                 *)
ProducersNeverStuck ==
  \A p \in Producers : pc[p] = "sem_wait" ~> \E q \in Producers : pc[q] = "return"

(* No wake-up is lost: once the producers are silent, consumers that keep   *)
(* reading empty the queue.                                                 *)
QueueDrains ==
  ReadersKeepReading /\ <>[](\A p \in Producers : pc[p] = "idle") => <>[](head = tail)

(* The queue implements BoundedFifo: each call takes effect in its critical *)
(* section.                                                                 *)
PhaseOf(c) == IF c = "idle" THEN "idle"
              ELSE IF c \in {"sem_wait", "mutex_lock", "critical"} THEN "called" ELSE "done"

Fifo == INSTANCE BoundedFifo
          WITH Capacity <- Size - 1, fifo <- Contents,
               phase <- [t \in Threads |-> PhaseOf(pc[t])], hand <- hand, ret <- ret

ImplementsFifo == Fifo!Spec
=============================================================================
