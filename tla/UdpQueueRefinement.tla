------------------------- MODULE UdpQueueRefinement -------------------------
(***************************************************************************)
(* UdpQueue implements BoundedFifo: every call takes effect at once, in    *)
(* its critical section; every other step is invisible to the callers.     *)
(***************************************************************************)
EXTENDS UdpQueueProofs, SequenceTheorems

(* The refinement mapping, written out.                                     *)
LEMMA ContentsSeq ==
  ASSUME QueueInv
  PROVE  /\ Contents \in Seq(Handles) /\ Len(Contents) = Count
         /\ \A i \in 1..Count : Contents[i] = Item(i)
<1>1. Count \in Nat
  BY CountDecides, SizeAssumption DEF QueueInv, TypeOK
<1> QED
  BY <1>1 DEF Contents, Item, QueueInv, QueuedAreHandles

(* The same of the next state.                                              *)
LEMMA ContentsSeqNext ==
  ASSUME QueueInv'
  PROVE  /\ Contents' \in Seq(Handles) /\ Len(Contents') = Count'
         /\ \A i \in 1..Count' : Contents'[i] = Item(i)'
<1>0. head' \in Slots /\ tail' \in Slots
  BY DEF QueueInv, TypeOK
<1>1. Count' \in Nat
  <2>1. \A h, t \in Slots : (IF h >= t THEN h - t ELSE Size - t + h) \in Nat
    BY SizeAssumption DEF Slots
  <2> QED
    BY <1>0, <2>1 DEF Count
<1>2. \A i \in 1..Count' : Item(i)' \in Handles
  BY DEF QueueInv, QueuedAreHandles, Item
<1>3. Contents' = [i \in 1..Count' |-> Item(i)']
  BY DEF Contents, Item
<1> QED
  BY <1>1, <1>2, <1>3

(* Both specifications speak of the same threads.                           *)
LEMMA FifoThreads == Fifo!Threads = Threads
BY DEF Fifo!Threads, Threads, Producers

(* The phase of the thread that moves changes with its pc, no other does.   *)
LEMMA PhaseMoves ==
  ASSUME QueueInv, NEW t \in Threads, NEW to, pc' = [pc EXCEPT ![t] = to]
  PROVE  [u \in Threads |-> PhaseOf(pc[u])]' =
           [[u \in Threads |-> PhaseOf(pc[u])] EXCEPT ![t] = PhaseOf(to)]
BY DEF QueueInv, TypeOK, PhaseOf

(* An initial queue is an initial FIFO.                                     *)
LEMMA InitRefines == Init => Fifo!Init
<1> SUFFICES ASSUME Init PROVE Fifo!Init
  OBVIOUS
<1>1. Contents = <<>>
  BY DEF Init, unyte_udp_queue_init, Contents, Count
<1>2. [t \in Threads |-> PhaseOf(pc[t])] = [t \in Threads |-> "idle"]
  BY DEF Init, PhaseOf
<1> QED
  BY <1>1, <1>2, FifoThreads DEF Init, Fifo!Init

(* Steps the callers cannot see.                                            *)
LEMMA InvisibleSteps ==
  ASSUME QueueInv, NEW t \in Threads,
         sem_wait_empty(t) \/ sem_wait_full(t) \/ pthread_mutex_lock(t)
           \/ pthread_mutex_unlock(t) \/ sem_post(t)
  PROVE  UNCHANGED Fifo!vars
<1> USE DEF sem_wait_empty, sem_wait_full, pthread_mutex_lock, pthread_mutex_unlock,
            sem_post, GoTo, ring, sems
<1>1. UNCHANGED <<head, tail, data, hand, ret>>
  OBVIOUS
<1>2. Contents' = Contents
  BY <1>1 DEF Contents, Count, SlotOf
<1>3. [u \in Threads |-> PhaseOf(pc[u])]' = [u \in Threads |-> PhaseOf(pc[u])]
  BY DEF QueueInv, TypeOK, PhaseOf
<1> QED
  BY <1>1, <1>2, <1>3 DEF Fifo!vars

(* A call begins.                                                           *)
LEMMA CallRefines ==
  ASSUME QueueInv, OwnerInv, NEW t \in Threads,
         \/ t \in Producers /\ CallWrite(t)
         \/ t \in Readers /\ (CallRead(t) \/ is_udp_queue_empty(t))
  PROVE  Fifo!CallWrite(t) \/ Fifo!CallRead(t)
<1> USE DEF CallWrite, CallRead, is_udp_queue_empty, GoTo, ring, sems
<1>1. UNCHANGED <<head, tail, data, ret>> /\ pc[t] = "idle" /\ pc' = [pc EXCEPT ![t] = "sem_wait"]
  OBVIOUS
<1>2. Contents' = Contents
  BY <1>1 DEF Contents, Count, SlotOf
<1>3. /\ [u \in Threads |-> PhaseOf(pc[u])][t] = "idle"
      /\ [u \in Threads |-> PhaseOf(pc[u])]' =
           [[u \in Threads |-> PhaseOf(pc[u])] EXCEPT ![t] = "called"]
  BY <1>1, PhaseMoves DEF PhaseOf
<1>4. CASE t \in Producers /\ CallWrite(t)
  <2>1. PICK h \in Handles \ live : hand' = [hand EXCEPT ![t] = h]
    BY <1>4
  <2>2. \A u \in Threads : hand[u] # h
    BY <2>1, HandlesAssumption DEF OwnerInv, OneOwner
  <2>3. \A i \in 1..Len(Contents) : Contents[i] # h
    BY <2>1, ContentsSeq DEF OwnerInv, OneOwner, Item
  <2>4. ~Fifo!Queued(h)
    BY <2>3 DEF Fifo!Queued
  <2> QED
    BY <1>1, <1>2, <1>3, <1>4, <2>1, <2>2, <2>4, FifoThreads DEF Fifo!CallWrite, Producers
<1>5. CASE t \in Readers /\ (CallRead(t) \/ is_udp_queue_empty(t))
  <2>1. hand' = hand
    BY <1>5
  <2> QED
    BY <1>1, <1>2, <1>3, <1>5, <2>1 DEF Fifo!CallRead
<1> QED
  BY <1>4, <1>5

(* A call ends.                                                             *)
LEMMA ReturnRefines ==
  ASSUME QueueInv, NEW t \in Threads, Return(t)
  PROVE  Fifo!Return(t)
<1> USE DEF Return, GoTo, ring, sems
<1>1. Contents' = Contents
  BY DEF Contents, Count, SlotOf
<1>2. /\ [u \in Threads |-> PhaseOf(pc[u])][t] = "done"
      /\ [u \in Threads |-> PhaseOf(pc[u])]' =
           [[u \in Threads |-> PhaseOf(pc[u])] EXCEPT ![t] = "idle"]
  BY PhaseMoves DEF PhaseOf
<1> QED
  BY <1>1, <1>2 DEF Fifo!Return

(* The steps that take effect all happen in a critical section.             *)
LEMMA EffectPhase ==
  ASSUME QueueInv, NEW t \in Threads, GoTo(t, "critical", "unlock")
  PROVE  /\ [u \in Threads |-> PhaseOf(pc[u])][t] = "called"
         /\ [u \in Threads |-> PhaseOf(pc[u])]' =
              [[u \in Threads |-> PhaseOf(pc[u])] EXCEPT ![t] = "done"]
BY PhaseMoves DEF PhaseOf, GoTo

(* A handle that fits is appended.                                          *)
LEMMA EnqueueRefines ==
  ASSUME QueueInv, QueueInv', NEW p \in Producers, Enqueue(p)
  PROVE  Fifo!Accept(p)
<1>1. /\ hand' = [hand EXCEPT ![p] = NULL] /\ ret' = [ret EXCEPT ![p] = 0]
      /\ hand[p] \in Handles /\ p \in Threads /\ GoTo(p, "critical", "unlock")
  BY ThreadKinds DEF Enqueue, GoTo, QueueInv, ProducersCarry
<1>2. Contents' = Append(Contents, hand[p])
  <2>1. Append(Contents, hand[p]) \in Seq(Handles)
    BY <1>1, ContentsSeq
  <2>2. /\ Len(Append(Contents, hand[p])) = Count + 1
        /\ \A i \in 1..Count+1 :
             Append(Contents, hand[p])[i] = IF i = Count + 1 THEN hand[p] ELSE Item(i)
    BY <1>1, ContentsSeq, EnqueueItems
  <2>3. /\ Contents' \in Seq(Handles) /\ Len(Contents') = Count + 1
        /\ \A i \in 1..Count+1 : Contents'[i] = IF i = Count + 1 THEN hand[p] ELSE Item(i)
    BY ContentsSeqNext, EnqueueItems
  <2> QED
    BY <2>1, <2>2, <2>3, SeqEqual
<1>3. Len(Contents) < Size - 1
  BY ContentsSeq, EnqueueItems
<1> QED
  BY <1>1, <1>2, <1>3, EffectPhase DEF Fifo!Accept, Producers

(* A full queue refuses a plain write.                                      *)
LEMMA RejectRefines ==
  ASSUME QueueInv, NEW w \in Writers, RejectWrite(w)
  PROVE  Fifo!Reject(w)
<1>1. /\ UNCHANGED <<head, tail, data, hand>> /\ ret' = [ret EXCEPT ![w] = -1]
      /\ IsFull /\ w \in Threads /\ GoTo(w, "critical", "unlock")
  BY ThreadKinds DEF RejectWrite, ring, Producers
<1>2. Contents' = Contents
  BY <1>1 DEF Contents, Count, SlotOf
<1>3. Len(Contents) = Size - 1
  BY <1>1, ContentsSeq, CountDecides DEF QueueInv, TypeOK
<1> QED
  BY <1>1, <1>2, <1>3, EffectPhase DEF Fifo!Reject

(* A destructive write on a full queue replaces the oldest handle.          *)
LEMMA DestroyRefines ==
  ASSUME QueueInv, QueueInv', Size > 1, NEW m \in DestructiveWriters, DestroyOldest(m)
  PROVE  Fifo!Replace(m)
<1>1. /\ hand' = [hand EXCEPT ![m] = NULL] /\ ret' = [ret EXCEPT ![m] = 1]
      /\ hand[m] \in Handles /\ m \in Threads /\ GoTo(m, "critical", "unlock")
  BY ThreadKinds DEF DestroyOldest, GoTo, QueueInv, ProducersCarry, Producers
<1>2. Count = Size - 1 /\ Count \in Nat \ {0} /\ Count' = Count
  BY DestroyOldestItems
<1>3. Contents # <<>>
  BY <1>2, ContentsSeq
<1>4. /\ Tail(Contents) \in Seq(Handles) /\ Len(Tail(Contents)) = Count - 1
      /\ \A i \in 1..Count-1 : Tail(Contents)[i] = Item(i + 1)
  BY <1>2, <1>3, ContentsSeq, HeadTailProperties
<1>5. Contents' = Append(Tail(Contents), hand[m])
  <2> DEFINE A == Append(Tail(Contents), hand[m])
  <2>1. A \in Seq(Handles) /\ Len(A) = Count
    BY <1>1, <1>2, <1>4
  <2>2. \A i \in 1..Count : A[i] = IF i = Count THEN hand[m] ELSE Item(i + 1)
    BY <1>1, <1>2, <1>4
  <2>3. /\ Contents' \in Seq(Handles) /\ Len(Contents') = Count
        /\ \A i \in 1..Count : Contents'[i] = IF i = Count THEN hand[m] ELSE Item(i + 1)
    BY ContentsSeqNext, DestroyOldestItems
  <2> HIDE DEF A
  <2>4. Contents' = A
    BY <2>1, <2>2, <2>3, SeqEqual
  <2> QED
    BY <2>4 DEF A
<1>6. Len(Contents) = Size - 1
  BY <1>2, ContentsSeq
<1> QED
  BY <1>1, <1>5, <1>6, EffectPhase DEF Fifo!Replace

(* A read takes the oldest handle.                                          *)
LEMMA DequeueRefines ==
  ASSUME QueueInv, QueueInv', NEW r \in Readers, Dequeue(r)
  PROVE  Fifo!Take(r)
<1>1. r \in Threads /\ GoTo(r, "critical", "unlock")
  BY ThreadKinds DEF Dequeue
<1>2. /\ Count \in Nat \ {0} /\ Count' = Count - 1
      /\ hand' = [hand EXCEPT ![r] = Item(1)] /\ ret' = [ret EXCEPT ![r] = 0]
  BY DequeueItems, SizeAssumption
<1>3. Contents # <<>> /\ Head(Contents) = Item(1)
  BY <1>2, ContentsSeq
<1>4. /\ Tail(Contents) \in Seq(Handles) /\ Len(Tail(Contents)) = Count - 1
      /\ \A i \in 1..Count-1 : Tail(Contents)[i] = Item(i + 1)
  BY <1>2, <1>3, ContentsSeq, HeadTailProperties
<1>5. Contents' = Tail(Contents)
  <2>1. /\ Contents' \in Seq(Handles) /\ Len(Contents') = Count - 1
        /\ \A i \in 1..Count-1 : Contents'[i] = Item(i + 1)
    BY <1>2, ContentsSeqNext, DequeueItems
  <2> QED
    BY <1>4, <2>1, SeqEqual
<1> QED
  BY <1>1, <1>2, <1>3, <1>5, EffectPhase DEF Fifo!Take

(* Every step of a queue call is a step of the FIFO or leaves it unchanged. *)
LEMMA NextRefines ==
  ASSUME Size > 1
  PROVE  QueueInv /\ OwnerInv /\ QueueInv' /\ [Next]_vars => [Fifo!Next]_Fifo!vars
<1> SUFFICES ASSUME QueueInv, OwnerInv, QueueInv', [Next]_vars
             PROVE  Fifo!Next \/ UNCHANGED Fifo!vars
  OBVIOUS
<1>1. CASE UNCHANGED vars
  <2>1. Contents' = Contents /\ UNCHANGED <<pc, hand, ret>>
    BY <1>1 DEF vars, Contents, Count, SlotOf
  <2>2. [u \in Threads |-> PhaseOf(pc[u])]' = [u \in Threads |-> PhaseOf(pc[u])]
    BY <2>1
  <2> QED
    BY <2>1, <2>2 DEF Fifo!vars
<1>2. CASE Next
  <2>1. \A w \in Writers : w \in Threads
    BY ThreadKinds DEF Producers
  <2>2. \A m \in DestructiveWriters : m \in Threads
    BY ThreadKinds DEF Producers
  <2>3. CASE \E p \in Producers : CallWrite(p) \/ sem_wait_empty(p) \/ Enqueue(p)
    BY <2>3, ThreadKinds, FifoThreads, CallRefines, InvisibleSteps, EnqueueRefines DEF Fifo!Next
  <2>4. CASE \E w \in Writers : RejectWrite(w)
    BY <2>1, <2>4, FifoThreads, RejectRefines DEF Fifo!Next
  <2>5. CASE \E m \in DestructiveWriters : DestroyOldest(m)
    BY <2>2, <2>5, FifoThreads, DestroyRefines DEF Fifo!Next
  <2>6. CASE \E r \in Readers :
               CallRead(r) \/ is_udp_queue_empty(r) \/ sem_wait_full(r) \/ Dequeue(r)
    BY <2>6, ThreadKinds, FifoThreads, CallRefines, InvisibleSteps, DequeueRefines DEF Fifo!Next
  <2>7. CASE \E t \in Threads :
               pthread_mutex_lock(t) \/ pthread_mutex_unlock(t) \/ sem_post(t) \/ Return(t)
    BY <2>7, FifoThreads, InvisibleSteps, ReturnRefines DEF Fifo!Next
  <2> QED
    BY <1>2, <2>3, <2>4, <2>5, <2>6, <2>7 DEF Next
<1> QED
  BY <1>1, <1>2

(* With room for at least one handle, the queue of semaphores, mutex and    *)
(* ring is a linearizable bounded FIFO for any threads.                     *)
THEOREM QueueImplementsFifo ==
  ASSUME Size > 1
  PROVE  Spec => ImplementsFifo
<1>1. QueueInv /\ OwnerInv /\ QueueInv' /\ [Next]_vars => [Fifo!Next]_Fifo!vars
  BY NextRefines
<1> QED
  BY <1>1, InitRefines, QueueInvHolds, OwnerInvHolds, PTL DEF Spec, Fifo!Spec, ImplementsFifo
=============================================================================
