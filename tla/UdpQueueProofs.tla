--------------------------- MODULE UdpQueueProofs ---------------------------
(***************************************************************************)
(* Proofs about UdpQueue, for any number of producers and readers, any     *)
(* queue size and any set of handles.                                      *)
(***************************************************************************)
EXTENDS UdpQueue, FiniteSetTheorems, TLAPS

InMutex(t) == pc[t] \in {"critical", "unlock"}

(* The mutex is held by exactly the thread between lock and unlock.         *)
LockInv == \A t \in Threads : lock = t <=> InMutex(t)

(* A producer on its way to the critical section carries a handle.          *)
ProducersCarry ==
  \A p \in Producers : pc[p] \in {"sem_wait", "mutex_lock", "critical"} => hand[p] \in Handles

(* The slots from tail up to head hold handles, not malloc's leftovers.     *)
QueuedAreHandles == \A i \in 1..Count : data[SlotOf(i)] \in Handles

(***************************************************************************)
(* The inductive invariant.  The bounds of the semaphores in TypeOK follow *)
(* from the balance of the permits, and the type of a reader's hand from   *)
(* what the queued slots hold, so the parts are proved together.           *)
(***************************************************************************)
QueueInv == TypeOK /\ LockInv /\ ProducersCarry /\ QueuedAreHandles /\ PermitsBalance

-----------------------------------------------------------------------------
(* The index arithmetic of the ring, (i + 1) % queue->size                  *)
(* (src/unyte_udp_queue.c:50,60,68).                                        *)
LEMMA NextIndexWraps ==
  \A i \in Slots : /\ NextIndex(i) \in Slots
                   /\ NextIndex(i) = IF i = Size - 1 THEN 0 ELSE i + 1
BY SizeAssumption DEF NextIndex, Slots

(* The number of queued handles decides emptiness and fullness.             *)
LEMMA CountDecides ==
  ASSUME head \in Slots, tail \in Slots
  PROVE  /\ Count \in 0..Size-1
         /\ Count = 0 <=> head = tail
         /\ IsFull <=> Count = Size - 1
BY SizeAssumption, NextIndexWraps DEF Count, IsFull, Slots

(* The i-th queued handle is inside the array, and the handle after the     *)
(* last goes to head.                                                       *)
LEMMA SlotsOfQueue ==
  ASSUME head \in Slots, tail \in Slots
  PROVE  /\ \A i \in 1..Size : SlotOf(i) \in Slots
         /\ \A i, j \in 1..Size : SlotOf(i) = SlotOf(j) => i = j
         /\ SlotOf(Count + 1) = head
         /\ SlotOf(1) = tail
BY SizeAssumption DEF Count, SlotOf, Slots

(* Threads come in two disjoint kinds, finitely many.                       *)
LEMMA ThreadKinds ==
  /\ IsFiniteSet(Producers) /\ IsFiniteSet(Readers) /\ IsFiniteSet(Threads)
  /\ \A t \in Threads : t \in Producers <=> t \notin Readers
  /\ Producers \subseteq Threads /\ Readers \subseteq Threads
<1>1. IsFiniteSet(Producers)
  BY ThreadsAssumption, FS_Union DEF Producers
<1>2. IsFiniteSet(Threads)
  BY <1>1, ThreadsAssumption, FS_Union DEF Threads
<1> QED
  BY <1>1, <1>2, ThreadsAssumption DEF Threads

(* The holders of permits are finitely many, in every state.                *)
LEMMA HoldersFinite ==
  /\ IsFiniteSet(SlotHolders) /\ Cardinality(SlotHolders) \in Nat
  /\ IsFiniteSet(ItemHolders) /\ Cardinality(ItemHolders) \in Nat
<1>1. SlotHolders \subseteq Threads /\ ItemHolders \subseteq Threads
  BY ThreadKinds DEF SlotHolders, ItemHolders
<1> QED
  BY <1>1, ThreadKinds, FS_Subset, FS_CardinalityType

-----------------------------------------------------------------------------
(* unyte_udp_queue_init leaves an empty ring, all permits on "empty" and    *)
(* nobody in a call.                                                        *)
LEMMA InitEstablishesQueueInv == Init => QueueInv
<1> SUFFICES ASSUME Init PROVE QueueInv
  OBVIOUS
<1> USE DEF Init, unyte_udp_queue_init
<1>1. TypeOK
  BY SizeAssumption DEF TypeOK, PC, Slots
<1>2. LockInv
  BY ThreadsAssumption DEF LockInv, InMutex
<1>3. ProducersCarry /\ QueuedAreHandles
  BY ThreadKinds DEF ProducersCarry, QueuedAreHandles, Count
<1>4. SlotHolders = {} /\ ItemHolders = {}
  BY ThreadKinds DEF SlotHolders, ItemHolders
<1>5. PermitsBalance
  BY <1>4, FS_EmptySet, SizeAssumption DEF PermitsBalance, Count
<1> QED
  BY <1>1, <1>2, <1>3, <1>5 DEF QueueInv

-----------------------------------------------------------------------------
(* What each kind of step does to the holders of permits: the thread that   *)
(* moves joins or leaves one of the two sets.                               *)
LEMMA AddHolder ==
  ASSUME NEW S, IsFiniteSet(S), NEW t, t \notin S
  PROVE  Cardinality(S \cup {t}) = Cardinality(S) + 1
BY FS_AddElement

(* A thread that leaves the set of holders makes it smaller by one.         *)
LEMMA RemoveHolder ==
  ASSUME NEW S, IsFiniteSet(S), NEW t, t \in S
  PROVE  Cardinality(S \ {t}) = Cardinality(S) - 1
BY FS_RemoveElement

(* A step that leaves the ring and the semaphores alone and moves a thread  *)
(* between two places where it holds the same permits.                      *)
LEMMA CallSteps ==
  ASSUME QueueInv, NEW t \in Threads,
         \/ t \in Producers /\ CallWrite(t)
         \/ t \in Readers /\ (CallRead(t) \/ is_udp_queue_empty(t))
         \/ pthread_mutex_lock(t) \/ pthread_mutex_unlock(t) \/ Return(t)
  PROVE  QueueInv'
<1> USE DEF CallWrite, CallRead, is_udp_queue_empty, pthread_mutex_lock,
            pthread_mutex_unlock, Return, GoTo, ring, sems
<1>1. UNCHANGED <<head, tail, data, empty, full, ret>>
  OBVIOUS
<1>2. TypeOK'
  BY <1>1, HandlesAssumption DEF QueueInv, TypeOK, PC
<1>3. LockInv'
  BY ThreadsAssumption DEF QueueInv, TypeOK, LockInv, InMutex
<1>4. ProducersCarry'
  BY ThreadKinds DEF QueueInv, TypeOK, ProducersCarry
<1>5. QueuedAreHandles' /\ Count' = Count
  BY <1>1 DEF QueueInv, QueuedAreHandles, Count, SlotOf
<1>6. SlotHolders' = SlotHolders /\ ItemHolders' = ItemHolders
  BY <1>1, ThreadKinds DEF QueueInv, TypeOK, SlotHolders, ItemHolders
<1>7. PermitsBalance'
  BY <1>1, <1>5, <1>6 DEF QueueInv, PermitsBalance
<1> QED
  BY <1>2, <1>3, <1>4, <1>5, <1>7 DEF QueueInv

(* sem_wait(&queue->empty) moves a permit from the semaphore to the         *)
(* producer.                                                                *)
LEMMA SemWaitEmptyStep ==
  ASSUME QueueInv, NEW p \in Producers, sem_wait_empty(p)
  PROVE  QueueInv'
<1> USE ThreadKinds DEF sem_wait_empty, GoTo, ring, sems
<1>1. LockInv' /\ ProducersCarry'
  BY ThreadsAssumption DEF QueueInv, TypeOK, LockInv, InMutex, ProducersCarry
<1>2. QueuedAreHandles' /\ Count' = Count
  BY DEF QueueInv, QueuedAreHandles, Count, SlotOf
<1>3. SlotHolders' = SlotHolders \cup {p} /\ p \notin SlotHolders /\ ItemHolders' = ItemHolders
  BY DEF QueueInv, TypeOK, SlotHolders, ItemHolders
<1>4. Cardinality(SlotHolders') = Cardinality(SlotHolders) + 1
  BY <1>3, HoldersFinite, AddHolder
<1>5. PermitsBalance'
  BY <1>2, <1>3, <1>4, HoldersFinite, SizeAssumption, CountDecides
     DEF QueueInv, TypeOK, PermitsBalance
<1>6. TypeOK'
  BY SizeAssumption DEF QueueInv, TypeOK, PC
<1> QED
  BY <1>1, <1>2, <1>5, <1>6 DEF QueueInv

(* sem_wait(&queue->full) moves a permit from the semaphore to the reader.  *)
LEMMA SemWaitFullStep ==
  ASSUME QueueInv, NEW r \in Readers, sem_wait_full(r)
  PROVE  QueueInv'
<1> USE ThreadKinds DEF sem_wait_full, GoTo, ring, sems
<1>1. LockInv' /\ ProducersCarry'
  BY ThreadsAssumption DEF QueueInv, TypeOK, LockInv, InMutex, ProducersCarry
<1>2. QueuedAreHandles' /\ Count' = Count
  BY DEF QueueInv, QueuedAreHandles, Count, SlotOf
<1>3. ItemHolders' = ItemHolders \cup {r} /\ r \notin ItemHolders /\ SlotHolders' = SlotHolders
  BY DEF QueueInv, TypeOK, SlotHolders, ItemHolders
<1>4. Cardinality(ItemHolders') = Cardinality(ItemHolders) + 1
  BY <1>3, HoldersFinite, AddHolder
<1>5. PermitsBalance'
  BY <1>2, <1>3, <1>4, HoldersFinite, SizeAssumption, CountDecides
     DEF QueueInv, TypeOK, PermitsBalance
<1>6. TypeOK'
  BY SizeAssumption DEF QueueInv, TypeOK, PC
<1> QED
  BY <1>1, <1>2, <1>5, <1>6 DEF QueueInv

(* Storing a handle turns the producer's slot permit into a queued handle.  *)
LEMMA EnqueueStep ==
  ASSUME QueueInv, NEW p \in Producers, Enqueue(p)
  PROVE  QueueInv'
<1> USE ThreadKinds DEF Enqueue, GoTo, ring, sems
<1>0. /\ head \in Slots /\ tail \in Slots /\ head' \in Slots
      /\ head' = IF head = Size - 1 THEN 0 ELSE head + 1
      /\ Count < Size - 1
      /\ hand[p] \in Handles
  BY NextIndexWraps, CountDecides, SizeAssumption DEF QueueInv, TypeOK, ProducersCarry
<1>1. LockInv' /\ ProducersCarry'
  BY ThreadsAssumption DEF QueueInv, TypeOK, LockInv, InMutex, ProducersCarry
<1>2. Count' = Count + 1
  BY <1>0, SizeAssumption, NextIndexWraps DEF Count, Slots, IsFull
<1>3. QueuedAreHandles'
  <2>1. \A i \in 1..Count : SlotOf(i) # head /\ SlotOf(i) \in Slots
    BY <1>0, SlotsOfQueue, CountDecides, SizeAssumption
  <2>2. \A i \in 1..Size : SlotOf(i)' = SlotOf(i)
    BY DEF SlotOf
  <2>3. SlotOf(Count + 1) = head
    BY <1>0, SlotsOfQueue
  <2>4. \A i \in 1..Count+1 : data'[SlotOf(i)] \in Handles
    BY <1>0, <2>1, <2>3, CountDecides, SizeAssumption DEF QueueInv, TypeOK, QueuedAreHandles
  <2> QED
    BY <1>0, <1>2, <2>2, <2>4, CountDecides, SizeAssumption DEF QueuedAreHandles
<1>4. /\ SlotHolders' = SlotHolders \ {p} /\ p \in SlotHolders
      /\ ItemHolders' = ItemHolders \cup {p} /\ p \notin ItemHolders
  BY DEF QueueInv, TypeOK, SlotHolders, ItemHolders
<1>5. /\ Cardinality(SlotHolders') = Cardinality(SlotHolders) - 1
      /\ Cardinality(ItemHolders') = Cardinality(ItemHolders) + 1
  BY <1>4, HoldersFinite, AddHolder, RemoveHolder
<1>6. PermitsBalance'
  BY <1>0, <1>2, <1>5, HoldersFinite, SizeAssumption, CountDecides
     DEF QueueInv, TypeOK, PermitsBalance
<1>7. TypeOK'
  BY <1>0 DEF QueueInv, TypeOK, PC
<1> QED
  BY <1>1, <1>3, <1>6, <1>7 DEF QueueInv

(* A refused producer leaves the ring alone and keeps its slot permit.      *)
LEMMA RejectWriteStep ==
  ASSUME QueueInv, NEW w \in Writers, RejectWrite(w)
  PROVE  QueueInv'
<1> USE ThreadKinds DEF RejectWrite, GoTo, ring, sems
<1>0. w \in Producers
  BY DEF Producers
<1>1. LockInv' /\ ProducersCarry'
  BY <1>0, ThreadsAssumption DEF QueueInv, TypeOK, LockInv, InMutex, ProducersCarry
<1>2. QueuedAreHandles' /\ Count' = Count
  BY DEF QueueInv, QueuedAreHandles, Count, SlotOf
<1>3. SlotHolders' = SlotHolders /\ ItemHolders' = ItemHolders
  BY <1>0 DEF QueueInv, TypeOK, SlotHolders, ItemHolders
<1>4. PermitsBalance'
  BY <1>2, <1>3 DEF QueueInv, PermitsBalance
<1>5. TypeOK'
  BY <1>0 DEF QueueInv, TypeOK, PC
<1> QED
  BY <1>1, <1>2, <1>4, <1>5 DEF QueueInv

(* Replacing the oldest handle keeps their number and the slot permit.      *)
LEMMA DestroyOldestStep ==
  ASSUME QueueInv, NEW m \in DestructiveWriters, DestroyOldest(m)
  PROVE  QueueInv'
<1> USE ThreadKinds DEF DestroyOldest, GoTo, ring, sems
<1>0. /\ m \in Producers
      /\ head \in Slots /\ tail \in Slots /\ head' \in Slots /\ tail' \in Slots
      /\ head' = IF head = Size - 1 THEN 0 ELSE head + 1
      /\ tail' = IF tail = Size - 1 THEN 0 ELSE tail + 1
      /\ Count = Size - 1
      /\ hand[m] \in Handles
  BY NextIndexWraps, CountDecides, SizeAssumption
     DEF QueueInv, TypeOK, ProducersCarry, Producers
<1>1. LockInv' /\ ProducersCarry'
  BY <1>0, ThreadsAssumption DEF QueueInv, TypeOK, LockInv, InMutex, ProducersCarry
<1>2. Count' = Count
  BY <1>0, SizeAssumption DEF Count, Slots
<1>3. QueuedAreHandles'
  <2>1. \A i \in 1..Size-1 : SlotOf(i)' = SlotOf(i + 1)
    BY <1>0, SizeAssumption DEF SlotOf, Slots
  <2>2. \A i \in 1..Size-1 : SlotOf(i) # head /\ SlotOf(i) \in Slots
    BY <1>0, SlotsOfQueue, SizeAssumption
  <2>3. SlotOf(Size) = head
    BY <1>0, SlotsOfQueue, SizeAssumption
  <2>4. \A i \in 1..Size : data'[SlotOf(i)] \in Handles
    <3> SUFFICES ASSUME NEW i \in 1..Size PROVE data'[SlotOf(i)] \in Handles
      OBVIOUS
    <3>1. CASE i = Size
      BY <1>0, <2>3, <3>1 DEF QueueInv, TypeOK
    <3>2. CASE i \in 1..Size-1
      BY <1>0, <2>2, <3>2 DEF QueueInv, TypeOK, QueuedAreHandles
    <3> QED
      BY <3>1, <3>2, SizeAssumption
  <2> QED
    BY <1>0, <1>2, <2>1, <2>4, SizeAssumption DEF QueuedAreHandles
<1>4. SlotHolders' = SlotHolders /\ ItemHolders' = ItemHolders
  BY <1>0 DEF QueueInv, TypeOK, SlotHolders, ItemHolders
<1>5. PermitsBalance'
  BY <1>2, <1>4 DEF QueueInv, PermitsBalance
<1>6. TypeOK'
  BY <1>0 DEF QueueInv, TypeOK, PC
<1> QED
  BY <1>1, <1>3, <1>5, <1>6 DEF QueueInv

(* The reader in the critical section holds a permit of "full", so at least *)
(* one handle is queued.                                                    *)
LEMMA ReaderFindsHandle ==
  ASSUME QueueInv
  PROVE  ReadNeverFindsEmpty
<1> SUFFICES ASSUME NEW r \in Readers, pc[r] = "critical" PROVE head # tail
  BY DEF ReadNeverFindsEmpty
<1>1. r \in ItemHolders
  BY DEF ItemHolders
<1>2. Cardinality(ItemHolders) # 0
  BY <1>1, HoldersFinite, FS_EmptySet
<1> QED
  BY <1>2, HoldersFinite, CountDecides DEF QueueInv, TypeOK, PermitsBalance

(* Taking the oldest handle turns the reader's permit into a free slot.     *)
LEMMA DequeueStep ==
  ASSUME QueueInv, NEW r \in Readers, Dequeue(r)
  PROVE  QueueInv'
<1> USE ThreadKinds DEF Dequeue, GoTo, ring, sems
<1>0. /\ head # tail
      /\ head \in Slots /\ tail \in Slots /\ tail' \in Slots
      /\ tail' = IF tail = Size - 1 THEN 0 ELSE tail + 1
      /\ Count \in 1..Size-1
      /\ data[tail] \in Handles
  <2>1. head # tail
    BY ReaderFindsHandle DEF ReadNeverFindsEmpty
  <2>2. head \in Slots /\ tail \in Slots
    BY DEF QueueInv, TypeOK
  <2>3. Count \in 1..Size-1
    BY <2>1, <2>2, CountDecides, SizeAssumption
  <2>4. data[tail] \in Handles
    BY <2>2, <2>3, SlotsOfQueue DEF QueueInv, QueuedAreHandles
  <2> QED
    BY <2>1, <2>2, <2>3, <2>4, NextIndexWraps
<1>1. LockInv' /\ ProducersCarry'
  BY <1>0, ThreadsAssumption DEF QueueInv, TypeOK, LockInv, InMutex, ProducersCarry
<1>2. Count' = Count - 1
  BY <1>0, SizeAssumption DEF Count, Slots
<1>3. QueuedAreHandles'
  <2>1. \A i \in 1..Size-1 : SlotOf(i)' = SlotOf(i + 1)
    BY <1>0, SizeAssumption DEF SlotOf, Slots
  <2>2. \A i \in 2..Count : SlotOf(i) # tail /\ SlotOf(i) \in Slots
    BY <1>0, SlotsOfQueue, SizeAssumption
  <2>3. data' = [data EXCEPT ![tail] = NULL] /\ data \in [Slots -> Handles \cup {NULL, Garbage}]
    BY <1>0 DEF QueueInv, TypeOK
  <2>4. \A i \in 2..Count : data[SlotOf(i)] \in Handles
    BY <1>0 DEF QueueInv, QueuedAreHandles
  <2>5. \A i \in 2..Count : data'[SlotOf(i)] \in Handles
    BY <2>2, <2>3, <2>4
  <2> QED
    BY <1>0, <1>2, <2>1, <2>5, SizeAssumption DEF QueuedAreHandles
<1>4. /\ ItemHolders' = ItemHolders \ {r} /\ r \in ItemHolders
      /\ SlotHolders' = SlotHolders \cup {r} /\ r \notin SlotHolders
  BY <1>0 DEF QueueInv, TypeOK, SlotHolders, ItemHolders
<1>5. /\ Cardinality(ItemHolders') = Cardinality(ItemHolders) - 1
      /\ Cardinality(SlotHolders') = Cardinality(SlotHolders) + 1
  BY <1>4, HoldersFinite, AddHolder, RemoveHolder
<1>6. PermitsBalance'
  BY <1>0, <1>2, <1>5, HoldersFinite, SizeAssumption
     DEF QueueInv, TypeOK, PermitsBalance
<1>7. TypeOK'
  BY <1>0 DEF QueueInv, TypeOK, PC
<1> QED
  BY <1>1, <1>3, <1>6, <1>7 DEF QueueInv

(* A post moves the permit the thread holds into the semaphore.             *)
LEMMA SemPostStep ==
  ASSUME QueueInv, NEW t \in Threads, sem_post(t)
  PROVE  QueueInv'
<1> USE ThreadKinds DEF sem_post, GoTo, ring, sems
<1>1. LockInv' /\ ProducersCarry'
  BY ThreadsAssumption DEF QueueInv, TypeOK, LockInv, InMutex, ProducersCarry
<1>2. QueuedAreHandles' /\ Count' = Count
  BY DEF QueueInv, QueuedAreHandles, Count, SlotOf
<1>3. CASE (t \in Producers) = (ret[t] = 0)
  <2>1. ItemHolders' = ItemHolders \ {t} /\ t \in ItemHolders /\ SlotHolders' = SlotHolders
    BY <1>3 DEF QueueInv, TypeOK, SlotHolders, ItemHolders
  <2>2. Cardinality(ItemHolders') = Cardinality(ItemHolders) - 1
    BY <2>1, HoldersFinite, RemoveHolder
  <2>3. PermitsBalance'
    BY <1>2, <1>3, <2>1, <2>2, HoldersFinite, CountDecides, SizeAssumption
       DEF QueueInv, TypeOK, PermitsBalance
  <2>4. full + 1 \in 0..Size
    BY <1>3, <2>1, HoldersFinite, FS_EmptySet, CountDecides, SizeAssumption
       DEF QueueInv, TypeOK, PermitsBalance
  <2>5. TypeOK'
    BY <1>3, <2>4 DEF QueueInv, TypeOK, PC
  <2> QED
    BY <1>1, <1>2, <2>3, <2>5 DEF QueueInv
<1>4. CASE ~((t \in Producers) = (ret[t] = 0))
  <2>1. SlotHolders' = SlotHolders \ {t} /\ t \in SlotHolders /\ ItemHolders' = ItemHolders
    BY <1>4 DEF QueueInv, TypeOK, SlotHolders, ItemHolders
  <2>2. Cardinality(SlotHolders') = Cardinality(SlotHolders) - 1
    BY <2>1, HoldersFinite, RemoveHolder
  <2>3. PermitsBalance'
    BY <1>2, <1>4, <2>1, <2>2, HoldersFinite, CountDecides, SizeAssumption
       DEF QueueInv, TypeOK, PermitsBalance
  <2>4. empty + 1 \in 0..Size
    BY <1>4, <2>1, HoldersFinite, FS_EmptySet, CountDecides, SizeAssumption
       DEF QueueInv, TypeOK, PermitsBalance
  <2>5. TypeOK'
    BY <1>4, <2>4 DEF QueueInv, TypeOK, PC
  <2> QED
    BY <1>1, <1>2, <2>3, <2>5 DEF QueueInv
<1> QED
  BY <1>3, <1>4

(* QueueInv is inductive: one case per step of a call.                      *)
LEMMA NextPreservesQueueInv == QueueInv /\ [Next]_vars => QueueInv'
<1> SUFFICES ASSUME QueueInv, [Next]_vars PROVE QueueInv'
  OBVIOUS
<1>1. CASE UNCHANGED vars
  BY <1>1 DEF vars, QueueInv, TypeOK, LockInv, InMutex, ProducersCarry, QueuedAreHandles,
              PermitsBalance, Count, SlotOf, SlotHolders, ItemHolders
<1>2. CASE Next
  BY <1>2, ThreadKinds, CallSteps, SemWaitEmptyStep, SemWaitFullStep, EnqueueStep,
     RejectWriteStep, DestroyOldestStep, DequeueStep, SemPostStep DEF Next
<1> QED
  BY <1>1, <1>2

(* The inductive invariant holds in every reachable state of the queue.     *)
THEOREM QueueInvHolds == Spec => []QueueInv
BY InitEstablishesQueueInv, NextPreservesQueueInv, PTL DEF Spec

(* Indices stay inside the array and the semaphores between 0 and Size, for *)
(* any number of threads (src/unyte_udp_queue.c:21-31).                     *)
THEOREM QueueTypeOK == Spec => []TypeOK
BY QueueInvHolds, PTL DEF QueueInv

(* The mutex keeps the critical sections of all threads apart.              *)
THEOREM QueueMutualExclusion == Spec => []CriticalSectionsDisjoint
<1>1. QueueInv => CriticalSectionsDisjoint
  BY DEF QueueInv, LockInv, InMutex, CriticalSectionsDisjoint
<1> QED
  BY <1>1, QueueInvHolds, PTL

(* No interleaving loses or makes up a permit of either semaphore, the      *)
(* failing calls of src/unyte_udp_queue.c:41-47,60-65,80-88 included.       *)
THEOREM QueuePermitsBalance == Spec => []PermitsBalance
BY QueueInvHolds, PTL DEF QueueInv

(* unyte_udp_queue_read never takes its NULL branch                         *)
(* (src/unyte_udp_queue.c:41-47).                                           *)
THEOREM QueueReadNeverFindsEmpty == Spec => []ReadNeverFindsEmpty
BY QueueInvHolds, ReaderFindsHandle, PTL

-----------------------------------------------------------------------------
(***************************************************************************)
(* Ownership of the handles.  A thread that is about to be given a handle  *)
(* has none, so no assignment overwrites the last reference to one.        *)
(***************************************************************************)
EmptyHanded ==
  /\ \A t \in Threads : pc[t] = "idle" => hand[t] = NULL
  /\ \A r \in Readers : pc[r] \in {"sem_wait", "mutex_lock", "critical"} => hand[r] = NULL

OwnerInv == EmptyHanded /\ OneOwner

(* The i-th queued handle, oldest first.                                    *)
Item(i) == data[SlotOf(i)]

(* How each critical section changes the sequence of queued handles.        *)
LEMMA EnqueueItems ==
  ASSUME QueueInv, NEW p \in Producers, Enqueue(p)
  PROVE  /\ Count < Size - 1 /\ Count \in Nat
         /\ Count' = Count + 1
         /\ \A i \in 1..Count+1 : Item(i)' = IF i = Count + 1 THEN hand[p] ELSE Item(i)
<1> USE DEF Enqueue, GoTo
<1>1. /\ head \in Slots /\ tail \in Slots /\ tail' = tail
      /\ head' = IF head = Size - 1 THEN 0 ELSE head + 1
      /\ Count < Size - 1 /\ Count \in Nat
  BY NextIndexWraps, CountDecides, SizeAssumption DEF QueueInv, TypeOK
<1>2. Count' = Count + 1
  BY <1>1, SizeAssumption, NextIndexWraps DEF Count, Slots, IsFull
<1>3. data' = [data EXCEPT ![head] = hand[p]] /\ data \in [Slots -> Handles \cup {NULL, Garbage}]
  BY DEF QueueInv, TypeOK
<1>4. \A i \in 1..Count : SlotOf(i) # head /\ SlotOf(i) \in Slots
  BY <1>1, SlotsOfQueue, SizeAssumption
<1>5. SlotOf(Count + 1) = head
  BY <1>1, SlotsOfQueue
<1>6. \A i \in 1..Count : data'[SlotOf(i)] = data[SlotOf(i)]
  BY <1>3, <1>4
<1>7. data'[SlotOf(Count + 1)] = hand[p]
  BY <1>1, <1>3, <1>5
<1>8. \A i \in Nat : SlotOf(i)' = SlotOf(i)
  BY <1>1 DEF SlotOf
<1>9. \A i \in 1..Count+1 : Item(i)' = IF i = Count + 1 THEN hand[p] ELSE Item(i)
  BY <1>1, <1>6, <1>7, <1>8 DEF Item
<1> QED
  BY <1>1, <1>2, <1>9

(* A read takes the oldest queued handle and the others move up by one.     *)
LEMMA DequeueItems ==
  ASSUME QueueInv, NEW r \in Readers, Dequeue(r)
  PROVE  /\ Count \in 1..Size-1
         /\ Count' = Count - 1
         /\ \A i \in 1..Count-1 : Item(i)' = Item(i + 1)
         /\ hand' = [hand EXCEPT ![r] = Item(1)]
         /\ ret' = [ret EXCEPT ![r] = 0]
<1> USE DEF Dequeue, GoTo
<1>1. /\ head # tail /\ head' = head
      /\ head \in Slots /\ tail \in Slots
      /\ tail' = IF tail = Size - 1 THEN 0 ELSE tail + 1
      /\ Count \in 1..Size-1
  <2>1. head # tail
    BY ReaderFindsHandle DEF ReadNeverFindsEmpty
  <2>2. head \in Slots /\ tail \in Slots
    BY DEF QueueInv, TypeOK
  <2> QED
    BY <2>1, <2>2, CountDecides, NextIndexWraps, SizeAssumption
<1>2. Count' = Count - 1
  BY <1>1, SizeAssumption DEF Count, Slots
<1>3. data' = [data EXCEPT ![tail] = NULL] /\ data \in [Slots -> Handles \cup {NULL, Garbage}]
  BY <1>1 DEF QueueInv, TypeOK
<1>4. \A i \in 1..Count-1 : SlotOf(i)' = SlotOf(i + 1) /\ SlotOf(i + 1) \in Slots
  BY <1>1, SizeAssumption DEF SlotOf, Slots
<1>5. \A i \in 1..Count-1 : SlotOf(i + 1) # tail
  BY <1>1, SlotsOfQueue, SizeAssumption
<1>6. \A i \in 1..Count-1 : data'[SlotOf(i + 1)] = data[SlotOf(i + 1)]
  BY <1>3, <1>4, <1>5
<1>7. \A i \in 1..Count-1 : Item(i)' = Item(i + 1)
  BY <1>4, <1>6 DEF Item
<1> QED
  BY <1>1, <1>2, <1>7, SlotsOfQueue DEF Item

(* A destructive write on a full ring frees the oldest handle and puts its  *)
(* own last.                                                                *)
LEMMA DestroyOldestItems ==
  ASSUME QueueInv, Size > 1, NEW m \in DestructiveWriters, DestroyOldest(m)
  PROVE  /\ Count = Size - 1 /\ Count \in Nat \ {0}
         /\ Count' = Count
         /\ \A i \in 1..Count : Item(i)' = IF i = Count THEN hand[m] ELSE Item(i + 1)
         /\ live' = live \ {Item(1)}
<1> USE DEF DestroyOldest, GoTo
<1>1. /\ head \in Slots /\ tail \in Slots
      /\ head' = IF head = Size - 1 THEN 0 ELSE head + 1
      /\ tail' = IF tail = Size - 1 THEN 0 ELSE tail + 1
      /\ Count = Size - 1 /\ Count \in Nat \ {0}
  BY NextIndexWraps, CountDecides, SizeAssumption DEF QueueInv, TypeOK
<1>2. Count' = Count
  BY <1>1, SizeAssumption DEF Count, Slots
<1>3. data' = [data EXCEPT ![head] = hand[m]] /\ data \in [Slots -> Handles \cup {NULL, Garbage}]
  BY DEF QueueInv, TypeOK
<1>4. \A i \in 1..Count : SlotOf(i)' = SlotOf(i + 1) /\ SlotOf(i + 1) \in Slots
  BY <1>1, SizeAssumption DEF SlotOf, Slots
<1>5. \A i \in 1..Count-1 : SlotOf(i + 1) # head
  BY <1>1, SlotsOfQueue, SizeAssumption
<1>6. \A i \in 1..Count-1 : data'[SlotOf(i + 1)] = data[SlotOf(i + 1)]
  BY <1>3, <1>4, <1>5
<1>7. data'[SlotOf(Count + 1)] = hand[m]
  BY <1>1, <1>3, SlotsOfQueue
<1>8. \A i \in 1..Count : Item(i)' = IF i = Count THEN hand[m] ELSE Item(i + 1)
  BY <1>1, <1>4, <1>6, <1>7 DEF Item
<1> QED
  BY <1>1, <1>2, <1>8, SlotsOfQueue DEF Item

(* OneOwner, said of the items.                                             *)
LEMMA OneOwnerOfItems ==
  OneOwner <=>
    /\ \A i \in 1..Count : Item(i) \in live
    /\ \A i, j \in 1..Count : Item(i) = Item(j) => i = j
    /\ \A t \in Threads : hand[t] # NULL =>
          hand[t] \in live /\ \A i \in 1..Count : Item(i) # hand[t]
    /\ \A t, u \in Threads : hand[t] # NULL /\ hand[t] = hand[u] => t = u
    /\ \A h \in live : \/ \E i \in 1..Count : Item(i) = h
                       \/ \E t \in Threads : hand[t] = h
BY DEF OneOwner, Queued, Item

(* No handle is allocated at the start.                                     *)
LEMMA InitEstablishesOwnerInv == Init => OwnerInv
BY ThreadKinds DEF Init, unyte_udp_queue_init, OwnerInv, EmptyHanded, OneOwner, Count, Queued

(* Steps that move no handle.                                               *)
LEMMA StillSteps ==
  ASSUME QueueInv, OwnerInv, NEW t \in Threads,
         \/ t \in Readers /\ (CallRead(t) \/ is_udp_queue_empty(t) \/ sem_wait_full(t))
         \/ t \in Producers /\ sem_wait_empty(t)
         \/ t \in Writers /\ RejectWrite(t)
         \/ pthread_mutex_lock(t) \/ pthread_mutex_unlock(t) \/ sem_post(t)
  PROVE  OwnerInv'
<1> USE DEF CallRead, is_udp_queue_empty, sem_wait_full, sem_wait_empty, RejectWrite,
            pthread_mutex_lock, pthread_mutex_unlock, sem_post, GoTo, ring, sems
<1>1. UNCHANGED <<head, tail, data, hand, live>>
  OBVIOUS
<1>2. OneOwner'
  BY <1>1 DEF OwnerInv, OneOwner, Queued, Count, SlotOf
<1>3. EmptyHanded'
  BY <1>1, ThreadKinds, ThreadsAssumption DEF QueueInv, TypeOK, OwnerInv, EmptyHanded, Producers
<1> QED
  BY <1>2, <1>3 DEF OwnerInv

(* malloc gives the producer a handle nobody owns.                          *)
LEMMA CallWriteOwner ==
  ASSUME QueueInv, OwnerInv, NEW p \in Producers, CallWrite(p)
  PROVE  OwnerInv'
<1> USE ThreadKinds DEF CallWrite, GoTo, ring, sems
<1>1. PICK h \in Handles \ live : hand' = [hand EXCEPT ![p] = h] /\ live' = live \cup {h}
  OBVIOUS
<1>2. Count' = Count /\ \A i \in 1..Count : Item(i)' = Item(i)
  BY DEF Count, Item, SlotOf
<1>3. hand[p] = NULL /\ hand \in [Threads -> Handles \cup {NULL}] /\ NULL \notin Handles
  BY HandlesAssumption DEF QueueInv, TypeOK, OwnerInv, EmptyHanded
<1>4. OneOwner'
  <2>1. \A i \in 1..Count : Item(i) \in live
    BY OneOwnerOfItems DEF OwnerInv
  <2>2. \A t \in Threads : t # p => hand'[t] = hand[t]
    BY <1>1, <1>3
  <2>3. hand'[p] = h /\ h # NULL /\ h \notin live
    BY <1>1, <1>3
  <2>4. \A t \in Threads : hand[t] # NULL =>
          hand[t] \in live /\ \A i \in 1..Count : Item(i) # hand[t]
    BY OneOwnerOfItems DEF OwnerInv
  <2>5. \A t, u \in Threads : hand[t] # NULL /\ hand[t] = hand[u] => t = u
    BY OneOwnerOfItems DEF OwnerInv
  <2>6. \A t, u \in Threads : hand'[t] # NULL /\ hand'[t] = hand'[u] => t = u
    BY <2>2, <2>3, <2>4, <2>5
  <2>7. \A t \in Threads : hand'[t] # NULL =>
          hand'[t] \in live' /\ \A i \in 1..Count : Item(i) # hand'[t]
    BY <1>1, <2>1, <2>2, <2>3, <2>4
  <2>8. \A g \in live' : \/ \E i \in 1..Count : Item(i) = g
                         \/ \E t \in Threads : hand'[t] = g
    BY <1>1, <1>3, <2>2, <2>3, OneOwnerOfItems, HandlesAssumption DEF OwnerInv, QueueInv, TypeOK
  <2>9. \A i, j \in 1..Count : Item(i) = Item(j) => i = j
    BY OneOwnerOfItems DEF OwnerInv
  <2> QED
    BY <1>1, <1>2, <2>1, <2>6, <2>7, <2>8, <2>9 DEF OneOwner, Queued, Item
<1>5. EmptyHanded'
  BY <1>1 DEF QueueInv, TypeOK, OwnerInv, EmptyHanded
<1> QED
  BY <1>4, <1>5 DEF OwnerInv

(* The caller frees the handle it alone owns, or nothing.                   *)
LEMMA ReturnOwner ==
  ASSUME QueueInv, OwnerInv, NEW t \in Threads, Return(t)
  PROVE  OwnerInv'
<1> USE ThreadKinds DEF Return, GoTo, ring, sems
<1>1. Count' = Count /\ \A i \in 1..Count : Item(i)' = Item(i)
  BY DEF Count, Item, SlotOf
<1>2. hand \in [Threads -> Handles \cup {NULL}] /\ NULL \notin Handles /\ live \subseteq Handles
  BY HandlesAssumption DEF QueueInv, TypeOK
<1>3. hand' = [hand EXCEPT ![t] = NULL] /\ live' = live \ {hand[t]}
  OBVIOUS
<1>4. OneOwner'
  <2>1. /\ \A i \in 1..Count : Item(i) \in live'
        /\ \A i, j \in 1..Count : Item(i) = Item(j) => i = j
    BY <1>2, <1>3, OneOwnerOfItems DEF OwnerInv
  <2>2. \A u \in Threads : hand'[u] # NULL => u # t /\ hand'[u] = hand[u]
    BY <1>2, <1>3
  <2>3. \A u \in Threads : hand'[u] # NULL =>
          hand'[u] \in live' /\ \A i \in 1..Count : Item(i) # hand'[u]
    BY <1>3, <2>2, OneOwnerOfItems DEF OwnerInv
  <2>4. \A u, v \in Threads : hand'[u] # NULL /\ hand'[u] = hand'[v] => u = v
    BY <2>2, OneOwnerOfItems DEF OwnerInv
  <2>5. \A h \in live' : \/ \E i \in 1..Count : Item(i) = h
                         \/ \E u \in Threads : hand'[u] = h
    BY <1>2, <1>3, OneOwnerOfItems DEF OwnerInv
  <2> QED
    BY <1>1, <2>1, <2>3, <2>4, <2>5 DEF OneOwner, Queued, Item
<1>5. EmptyHanded'
  BY <1>3 DEF QueueInv, TypeOK, OwnerInv, EmptyHanded
<1> QED
  BY <1>4, <1>5 DEF OwnerInv

(* A stored handle passes from the producer to the queue.                   *)
LEMMA EnqueueOwner ==
  ASSUME QueueInv, OwnerInv, NEW p \in Producers, Enqueue(p)
  PROVE  OwnerInv'
<1> USE ThreadKinds
<1>1. /\ Count' = Count + 1 /\ Count \in Nat
      /\ \A i \in 1..Count+1 : Item(i)' = IF i = Count + 1 THEN hand[p] ELSE Item(i)
  BY EnqueueItems
<1>2. /\ hand \in [Threads -> Handles \cup {NULL}] /\ NULL \notin Handles
      /\ hand[p] \in Handles
      /\ hand' = [hand EXCEPT ![p] = NULL] /\ live' = live
  BY HandlesAssumption DEF QueueInv, TypeOK, ProducersCarry, Enqueue, GoTo
<1>3. hand[p] \in live /\ \A i \in 1..Count : Item(i) # hand[p]
  BY <1>2, OneOwnerOfItems DEF OwnerInv
<1>4. OneOwner'
  <2>1. \A i \in 1..Count' : Item(i)' \in live'
    BY <1>1, <1>2, <1>3, OneOwnerOfItems DEF OwnerInv
  <2>2. \A i, j \in 1..Count' : Item(i)' = Item(j)' => i = j
    <3> SUFFICES ASSUME NEW i \in 1..Count', NEW j \in 1..Count', Item(i)' = Item(j)'
                 PROVE  i = j
      OBVIOUS
    <3>1. \A k, l \in 1..Count : Item(k) = Item(l) => k = l
      BY OneOwnerOfItems DEF OwnerInv
    <3>2. CASE i \in 1..Count /\ j \in 1..Count
      BY <1>1, <3>1, <3>2
    <3>3. CASE i = Count + 1 \/ j = Count + 1
      BY <1>1, <1>3, <3>3
    <3> QED
      BY <1>1, <3>2, <3>3
  <2>3. \A u \in Threads : hand'[u] # NULL => u # p /\ hand'[u] = hand[u]
    BY <1>2
  <2>4. \A u \in Threads : hand[u] # NULL /\ u # p => hand[u] # hand[p]
    BY OneOwnerOfItems DEF OwnerInv
  <2>5. \A u \in Threads : hand'[u] # NULL =>
          hand'[u] \in live' /\ \A i \in 1..Count' : Item(i)' # hand'[u]
    BY <1>1, <1>2, <2>3, <2>4, OneOwnerOfItems DEF OwnerInv
  <2>6. \A u, v \in Threads : hand'[u] # NULL /\ hand'[u] = hand'[v] => u = v
    BY <2>3, OneOwnerOfItems DEF OwnerInv
  <2>7. \A h \in live' : \/ \E i \in 1..Count' : Item(i)' = h
                         \/ \E u \in Threads : hand'[u] = h
    <3> SUFFICES ASSUME NEW h \in live
                 PROVE  \/ \E i \in 1..Count' : Item(i)' = h
                        \/ \E u \in Threads : hand'[u] = h
      BY <1>2
    <3>1. CASE h = hand[p]
      BY <1>1, <3>1
    <3>2. CASE \E i \in 1..Count : Item(i) = h
      BY <1>1, <3>2
    <3>3. CASE \E u \in Threads : hand[u] = h /\ h # hand[p]
      BY <1>2, <3>3
    <3> QED
      BY <3>1, <3>2, <3>3, OneOwnerOfItems DEF OwnerInv
  <2> QED
    BY <2>1, <2>2, <2>5, <2>6, <2>7 DEF OneOwner, Queued, Item
<1>5. EmptyHanded'
  BY <1>2 DEF QueueInv, TypeOK, OwnerInv, EmptyHanded, Enqueue, GoTo
<1> QED
  BY <1>4, <1>5 DEF OwnerInv

(* A destructive write passes its handle to the queue and frees the oldest. *)
LEMMA DestroyOldestOwner ==
  ASSUME QueueInv, OwnerInv, Size > 1, NEW m \in DestructiveWriters, DestroyOldest(m)
  PROVE  OwnerInv'
<1> USE ThreadKinds
<1>0. m \in Producers
  BY DEF Producers
<1>1. /\ Count' = Count /\ Count \in Nat \ {0}
      /\ \A i \in 1..Count : Item(i)' = IF i = Count THEN hand[m] ELSE Item(i + 1)
      /\ live' = live \ {Item(1)}
  BY DestroyOldestItems
<1>2. /\ hand \in [Threads -> Handles \cup {NULL}] /\ NULL \notin Handles
      /\ hand[m] \in Handles
      /\ hand' = [hand EXCEPT ![m] = NULL]
  BY <1>0, HandlesAssumption DEF QueueInv, TypeOK, ProducersCarry, DestroyOldest, GoTo
<1>3. hand[m] \in live /\ \A i \in 1..Count : Item(i) # hand[m]
  BY <1>0, <1>2, OneOwnerOfItems DEF OwnerInv
<1>4. /\ \A i \in 1..Count : Item(i) \in live
      /\ \A i, j \in 1..Count : Item(i) = Item(j) => i = j
  BY OneOwnerOfItems DEF OwnerInv
<1>5. OneOwner'
  <2>1. \A i \in 1..Count' : Item(i)' \in live'
    BY <1>1, <1>3, <1>4
  <2>2. \A i, j \in 1..Count' : Item(i)' = Item(j)' => i = j
    <3> SUFFICES ASSUME NEW i \in 1..Count, NEW j \in 1..Count, Item(i)' = Item(j)'
                 PROVE  i = j
      BY <1>1
    <3>1. CASE i # Count /\ j # Count
      BY <1>1, <1>4, <3>1
    <3>2. CASE i = Count \/ j = Count
      BY <1>1, <1>3, <3>2
    <3> QED
      BY <3>1, <3>2
  <2>3. \A u \in Threads : hand'[u] # NULL => u # m /\ hand'[u] = hand[u]
    BY <1>0, <1>2
  <2>4. \A u \in Threads : hand[u] # NULL /\ u # m => hand[u] # hand[m]
    BY <1>0, OneOwnerOfItems DEF OwnerInv
  <2>5. \A u \in Threads : hand[u] # NULL =>
          hand[u] \in live /\ \A i \in 1..Count : Item(i) # hand[u]
    BY OneOwnerOfItems DEF OwnerInv
  <2>6. \A u \in Threads : hand'[u] # NULL =>
          hand'[u] \in live' /\ \A i \in 1..Count' : Item(i)' # hand'[u]
    BY <1>1, <2>3, <2>4, <2>5
  <2>7. \A u, v \in Threads : hand'[u] # NULL /\ hand'[u] = hand'[v] => u = v
    BY <2>3, OneOwnerOfItems DEF OwnerInv
  <2>8. \A h \in live' : \/ \E i \in 1..Count' : Item(i)' = h
                         \/ \E u \in Threads : hand'[u] = h
    <3> SUFFICES ASSUME NEW h \in live, h # Item(1)
                 PROVE  \/ \E i \in 1..Count : Item(i)' = h
                        \/ \E u \in Threads : hand'[u] = h
      BY <1>1
    <3>1. CASE h = hand[m]
      BY <1>1, <3>1
    <3>2. CASE \E i \in 1..Count : Item(i) = h
      <4>1. PICK i \in 1..Count : Item(i) = h
        BY <3>2
      <4>2. i # 1 /\ i - 1 \in 1..Count /\ i - 1 # Count /\ (i - 1) + 1 = i
        BY <1>1, <4>1
      <4>3. Item(i - 1)' = h
        BY <1>1, <4>1, <4>2
      <4> QED
        BY <4>2, <4>3
    <3>3. CASE \E u \in Threads : hand[u] = h /\ h # hand[m]
      BY <1>2, <3>3
    <3> QED
      BY <3>1, <3>2, <3>3, OneOwnerOfItems DEF OwnerInv
  <2> QED
    BY <2>1, <2>2, <2>6, <2>7, <2>8 DEF OneOwner, Queued, Item
<1>6. EmptyHanded'
  BY <1>0, <1>2 DEF QueueInv, TypeOK, OwnerInv, EmptyHanded, DestroyOldest, GoTo
<1> QED
  BY <1>5, <1>6 DEF OwnerInv

(* The oldest handle passes from the queue to the reader.                   *)
LEMMA DequeueOwner ==
  ASSUME QueueInv, OwnerInv, NEW r \in Readers, Dequeue(r)
  PROVE  OwnerInv'
<1> USE ThreadKinds
<1>1. /\ Count' = Count - 1 /\ Count \in Nat \ {0}
      /\ \A i \in 1..Count-1 : Item(i)' = Item(i + 1)
      /\ hand' = [hand EXCEPT ![r] = Item(1)]
  BY DequeueItems, SizeAssumption
<1>2. /\ hand \in [Threads -> Handles \cup {NULL}] /\ NULL \notin Handles
      /\ hand[r] = NULL /\ live' = live /\ live \subseteq Handles
  BY HandlesAssumption DEF QueueInv, TypeOK, OwnerInv, EmptyHanded, Dequeue, GoTo
<1>3. /\ \A i \in 1..Count : Item(i) \in live
      /\ \A i, j \in 1..Count : Item(i) = Item(j) => i = j
      /\ 1 \in 1..Count
  BY <1>1, OneOwnerOfItems DEF OwnerInv
<1>4. OneOwner'
  <2>1. \A i \in 1..Count' : Item(i)' \in live'
    BY <1>1, <1>2, <1>3
  <2>2. \A i, j \in 1..Count' : Item(i)' = Item(j)' => i = j
    BY <1>1, <1>3
  <2>3. \A u \in Threads : hand'[u] = IF u = r THEN Item(1) ELSE hand[u]
    BY <1>1, <1>2
  <2>4. \A u \in Threads : hand[u] # NULL =>
          hand[u] \in live /\ \A i \in 1..Count : Item(i) # hand[u]
    BY OneOwnerOfItems DEF OwnerInv
  <2>5. \A u \in Threads : hand'[u] # NULL =>
          hand'[u] \in live' /\ \A i \in 1..Count' : Item(i)' # hand'[u]
    <3> SUFFICES ASSUME NEW u \in Threads, hand'[u] # NULL
                 PROVE  hand'[u] \in live' /\ \A i \in 1..Count-1 : Item(i + 1) # hand'[u]
      BY <1>1
    <3>1. CASE u = r
      BY <1>1, <1>2, <1>3, <2>3, <3>1
    <3>2. CASE u # r
      BY <1>1, <1>2, <2>3, <2>4, <3>2
    <3> QED
      BY <3>1, <3>2
  <2>6. \A u, v \in Threads : hand'[u] # NULL /\ hand'[u] = hand'[v] => u = v
    BY <1>3, <2>3, <2>4, OneOwnerOfItems DEF OwnerInv
  <2>7. \A h \in live' : \/ \E i \in 1..Count' : Item(i)' = h
                         \/ \E u \in Threads : hand'[u] = h
    <3> SUFFICES ASSUME NEW h \in live
                 PROVE  \/ \E i \in 1..Count-1 : Item(i)' = h
                        \/ \E u \in Threads : hand'[u] = h
      BY <1>1, <1>2
    <3>1. CASE \E i \in 1..Count : Item(i) = h
      <4>1. PICK i \in 1..Count : Item(i) = h
        BY <3>1
      <4>2. CASE i = 1
        BY <2>3, <4>1, <4>2
      <4>3. CASE i # 1
        <5>1. i - 1 \in 1..Count-1 /\ (i - 1) + 1 = i
          BY <1>1, <4>3
        <5>2. Item(i - 1)' = h
          BY <1>1, <4>1, <5>1
        <5> QED
          BY <5>1, <5>2
      <4> QED
        BY <4>2, <4>3
    <3>2. CASE \E u \in Threads : hand[u] = h
      BY <1>2, <2>3, <3>2
    <3> QED
      BY <3>1, <3>2, OneOwnerOfItems DEF OwnerInv
  <2> QED
    BY <2>1, <2>2, <2>5, <2>6, <2>7 DEF OneOwner, Queued, Item
<1>5. EmptyHanded'
  BY <1>1, <1>2 DEF QueueInv, TypeOK, OwnerInv, EmptyHanded, Dequeue, GoTo
<1> QED
  BY <1>4, <1>5 DEF OwnerInv

(* OwnerInv is inductive relative to QueueInv, in a ring of at least two    *)
(* slots.                                                                   *)
LEMMA NextPreservesOwnerInv ==
  ASSUME Size > 1
  PROVE  QueueInv /\ OwnerInv /\ [Next]_vars => OwnerInv'
<1> SUFFICES ASSUME QueueInv, OwnerInv, [Next]_vars PROVE OwnerInv'
  OBVIOUS
<1>1. CASE UNCHANGED vars
  BY <1>1 DEF vars, OwnerInv, EmptyHanded, OneOwner, Queued, Count, SlotOf
<1>2. CASE Next
  BY <1>2, ThreadKinds, StillSteps, CallWriteOwner, ReturnOwner, EnqueueOwner,
     DestroyOldestOwner, DequeueOwner DEF Next, Producers
<1> QED
  BY <1>1, <1>2

(* Handles in the ring and in threads' hands are live and all different.    *)
THEOREM OwnerInvHolds ==
  ASSUME Size > 1
  PROVE  Spec => []OwnerInv
BY InitEstablishesOwnerInv, NextPreservesOwnerInv, QueueInvHolds, PTL DEF Spec

(* With room for at least one handle, every allocated handle has one owner  *)
(* whatever the threads do: no leak, double free or double delivery.        *)
THEOREM QueueOneOwner ==
  ASSUME Size > 1
  PROVE  Spec => []OneOwner
BY OwnerInvHolds, PTL DEF OwnerInv

(* With room for at least one handle, a destructive write frees a queued    *)
(* handle (src/unyte_udp_queue.c:84).                                       *)
THEOREM QueueDestroysQueuedHandle ==
  ASSUME Size > 1
  PROVE  Spec => []DestroysQueuedHandle
<1>1. QueueInv /\ OwnerInv => DestroysQueuedHandle
  <2> SUFFICES ASSUME QueueInv, OwnerInv, IsFull PROVE data[tail] \in live
    BY DEF DestroysQueuedHandle
  <2>1. 1 \in 1..Count /\ SlotOf(1) = tail
    BY CountDecides, SlotsOfQueue, SizeAssumption DEF QueueInv, TypeOK
  <2> QED
    BY <2>1 DEF OwnerInv, OneOwner
<1> QED
  BY <1>1, QueueInvHolds, OwnerInvHolds, PTL
(* With one reader, only the drainer itself takes permits of "full", so     *)
(* what is_udp_queue_empty has seen is still there when it waits.           *)
LEMMA NextKeepsDrainer ==
  ASSUME QueueInv, DrainerNeverBlocks, [Next]_vars
  PROVE  DrainerNeverBlocks'
<1> SUFFICES ASSUME Cardinality(Readers) = 1, NEW d \in Drainers, pc'[d] = "sem_wait"
             PROVE  full' > 0
  BY DEF DrainerNeverBlocks
<1>1. \A r \in Readers : r = d
  BY ThreadsAssumption, FS_Singleton
<1>2. /\ d \in Readers /\ d \in Threads /\ d \notin Producers
      /\ pc \in [Threads -> PC] /\ full \in Nat
  BY ThreadsAssumption, SizeAssumption DEF Threads, QueueInv, TypeOK
<1>3. CASE pc[d] = "sem_wait"
  <2>1. full > 0
    BY <1>3 DEF DrainerNeverBlocks
  <2>2. ~sem_wait_full(d)
    BY <1>2 DEF sem_wait_full, GoTo
  <2>3. full' = full \/ full' = full + 1
    BY <1>1, <2>2 DEF Next, vars, CallWrite, sem_wait_empty, Enqueue, RejectWrite,
       DestroyOldest, CallRead, is_udp_queue_empty, Dequeue, pthread_mutex_lock,
       pthread_mutex_unlock, sem_post, Return, sems
  <2> QED
    BY <1>2, <2>1, <2>3
<1>4. CASE pc[d] # "sem_wait"
  <2>1. is_udp_queue_empty(d)
    BY <1>1, <1>2, <1>4, ThreadsAssumption DEF Next, vars, CallWrite, sem_wait_empty,
       Enqueue, RejectWrite, DestroyOldest, CallRead, sem_wait_full, Dequeue,
       pthread_mutex_lock, pthread_mutex_unlock, sem_post, Return, GoTo,
       Producers, Threads
  <2> QED
    BY <1>2, <2>1 DEF is_udp_queue_empty, sems
<1> QED
  BY <1>3, <1>4

(* A drainer told "not empty" is never left waiting in sem_wait while it is *)
(* the only reader (src/unyte_udp_collector.c:210-215).                     *)
THEOREM QueueDrainerNeverBlocks == Spec => []DrainerNeverBlocks
<1>1. Init => DrainerNeverBlocks
  BY ThreadsAssumption DEF Init, DrainerNeverBlocks, Threads
<1> QED
  BY <1>1, NextKeepsDrainer, QueueInvHolds, PTL DEF Spec
=============================================================================
