---------------------------- MODULE BoundedFifo ----------------------------
(***************************************************************************)
(* What unyte_udp_queue promises its callers: a first-in first-out queue   *)
(* of at most Capacity handles, each operation taking effect at one        *)
(* instant between its call and its return.                                *)
(*                                                                         *)
(*   write              appends, or answers -1 and leaves the queue alone  *)
(*                      exactly when Capacity handles are queued;          *)
(*   destructive write  appends, first destroying the oldest handle (and   *)
(*                      answering 1) exactly when Capacity are queued;     *)
(*   read               waits for a handle and takes the oldest one.       *)
(*                                                                         *)
(* A handle is in the hand of the thread that owns it, or in the queue.    *)
(***************************************************************************)
EXTENDS Integers, Sequences

CONSTANTS Writers,             (* threads calling unyte_udp_queue_write     *)
          DestructiveWriters,  (* ... unyte_udp_queue_destructive_write     *)
          Readers,             (* ... unyte_udp_queue_read                  *)
          Handles,             (* the addresses malloc may hand out         *)
          NULL,
          Capacity             (* handles the queue can hold                *)

VARIABLES fifo,    (* the queued handles, oldest first                      *)
          phase,   (* per thread: "idle", "called" or "done"                *)
          hand,    (* per thread: the handle it owns, or NULL               *)
          ret      (* per thread: the result of its last operation          *)

vars == <<fifo, phase, hand, ret>>

Threads == Writers \cup DestructiveWriters \cup Readers

Init ==
  /\ fifo = <<>>
  /\ phase = [t \in Threads |-> "idle"]
  /\ hand = [t \in Threads |-> NULL]
  /\ ret = [t \in Threads |-> 0]

Queued(h) == \E i \in 1..Len(fifo) : fifo[i] = h

CallWrite(t) ==
  /\ t \in Writers \cup DestructiveWriters
  /\ phase[t] = "idle"
  /\ \E h \in Handles :
        /\ ~Queued(h)
        /\ \A u \in Threads : hand[u] # h
        /\ hand' = [hand EXCEPT ![t] = h]
  /\ phase' = [phase EXCEPT ![t] = "called"]
  /\ UNCHANGED <<fifo, ret>>

CallRead(t) ==
  /\ t \in Readers
  /\ phase[t] = "idle"
  /\ phase' = [phase EXCEPT ![t] = "called"]
  /\ UNCHANGED <<fifo, hand, ret>>

Accept(t) ==
  /\ t \in Writers \cup DestructiveWriters
  /\ phase[t] = "called"
  /\ Len(fifo) < Capacity
  /\ fifo' = Append(fifo, hand[t])
  /\ hand' = [hand EXCEPT ![t] = NULL]
  /\ ret' = [ret EXCEPT ![t] = 0]
  /\ phase' = [phase EXCEPT ![t] = "done"]

Reject(t) ==
  /\ t \in Writers
  /\ phase[t] = "called"
  /\ Len(fifo) = Capacity
  /\ ret' = [ret EXCEPT ![t] = -1]
  /\ phase' = [phase EXCEPT ![t] = "done"]
  /\ UNCHANGED <<fifo, hand>>

Replace(t) ==
  /\ t \in DestructiveWriters
  /\ phase[t] = "called"
  /\ Len(fifo) = Capacity
  /\ fifo' = Append(Tail(fifo), hand[t])
  /\ hand' = [hand EXCEPT ![t] = NULL]
  /\ ret' = [ret EXCEPT ![t] = 1]
  /\ phase' = [phase EXCEPT ![t] = "done"]

Take(t) ==
  /\ t \in Readers
  /\ phase[t] = "called"
  /\ fifo # <<>>
  /\ fifo' = Tail(fifo)
  /\ hand' = [hand EXCEPT ![t] = Head(fifo)]
  /\ ret' = [ret EXCEPT ![t] = 0]
  /\ phase' = [phase EXCEPT ![t] = "done"]

Return(t) ==
  /\ phase[t] = "done"
  /\ phase' = [phase EXCEPT ![t] = "idle"]
  /\ hand' = [hand EXCEPT ![t] = NULL]
  /\ UNCHANGED <<fifo, ret>>

Next == \E t \in Threads :
          \/ CallWrite(t) \/ CallRead(t)
          \/ Accept(t) \/ Reject(t) \/ Replace(t) \/ Take(t)
          \/ Return(t)

Spec == Init /\ [][Next]_vars
=============================================================================
