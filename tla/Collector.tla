----------------------------- MODULE Collector -----------------------------
(***************************************************************************)
(* A collector from its start to its end: the user's thread                *)
(* (unyte_udp_collector.c and the clients of examples/), the listener with *)
(* its dispatch and its shutdown (listening_worker.c), the parsing         *)
(* workers, their clean-up threads and the monitoring thread.              *)
(*                                                                         *)
(* What a worker does with one datagram is in ParsingWorker, a pass of the *)
(* monitoring thread in Monitoring; here a datagram is passed on or        *)
(* absorbed.  The queues are what BoundedFifo promises (UdpQueueRefinement *)
(* proves it): a call takes effect at one instant, a write on a full queue *)
(* is refused, a read waits.                                               *)
(*                                                                         *)
(* live holds the memory that was allocated and not freed.  A step that    *)
(* uses or frees anything else makes undefined true, and nothing is said   *)
(* of what follows.  broken records that the socket failed by itself or    *)
(* that the listener gave up for want of memory.                           *)
(*                                                                         *)
(* The frame of an action is completed by that of its thread's steps, what *)
(* they never change; no step follows an undefined one.                    *)
(***************************************************************************)
EXTENDS Integers, Sequences

CONSTANTS Odids,            (* observation domain ids                       *)
          Clients,          (* which of the client programs run             *)
          Options,          (* the user's options, 0 for the default        *)
          UNYTE_DEFAULT_VLEN, OUTPUT_QUEUE_SIZE, DEFAULT_NB_PARSERS,
          PARSER_QUEUE_SIZE, MONITORING_QUEUE_SIZE,
          MaxDatagrams      (* bound, by client: datagrams that are not empty *)

Given(value, default) == IF value = 0 THEN default ELSE value

set_default_options(o) ==
  [recvmmsg_vlen         |-> Given(o.recvmmsg_vlen, UNYTE_DEFAULT_VLEN),
   output_queue_size     |-> Given(o.output_queue_size, OUTPUT_QUEUE_SIZE),
   nb_parsers            |-> Given(o.nb_parsers, DEFAULT_NB_PARSERS),
   parsers_queue_size    |-> Given(o.parsers_queue_size, PARSER_QUEUE_SIZE),
   monitoring_queue_size |-> Given(o.monitoring_queue_size, MONITORING_QUEUE_SIZE)]

Used == set_default_options(Options)

(* client_sample.c keeps the default, no monitoring; client_monitoring.c    *)
(* asks for it.                                                             *)
MonitoringSize(client) ==
  IF client = "monitoring" THEN Used.monitoring_queue_size ELSE MONITORING_QUEUE_SIZE

ASSUME CollectorAssumption ==
  /\ Odids \subseteq Nat
  /\ Clients \subseteq {"sample", "monitoring"}
  /\ MONITORING_QUEUE_SIZE = 0 /\ MaxDatagrams \in [Clients -> Nat]
  /\ {Used.recvmmsg_vlen, Used.nb_parsers} \subseteq Nat \ {0}
  /\ {Used.output_queue_size, Used.parsers_queue_size, Used.monitoring_queue_size}
       \subseteq Nat \ {0, 1}

Parsers == 0..(Used.nb_parsers - 1)

Ids == UNION {1..MaxDatagrams[c] : c \in Clients}

VARIABLES client,     (* the program the user runs                          *)
          user,       (* where its main thread is                           *)
          reader,     (* where its second thread is, if it has one          *)
          sockfd,     (* the socket is open                                 *)
          listener,   (* where the listener is                              *)
          next,       (* the parser its loops are at                        *)
          batch,      (* the datagrams of a recvmmsg, not yet dispatched    *)
          input,      (* by parser: its input queue                         *)
          worker,     (* by parser: where it is                             *)
          hand,       (* by parser: the parsed message, if any              *)
          cleaner,    (* by parser: where its clean-up thread is            *)
          monitor,    (* where the monitoring thread is                     *)
          stopping,   (* the stop flags of those threads                    *)
          output,     (* the output queue                                   *)
          summaries,  (* how many the monitoring queue holds                *)
          sent,       (* datagrams so far that are not empty                *)
          delivered,  (* by domain: what the user has read                  *)
          abandoned,  (* datagrams whose memory nothing refers to any more  *)
          forgotten,  (* segments whose payload alone nothing refers to     *)
          headless,   (* parsers whose segment buffer has a cell without a  *)
                      (* list, left there by a malloc that failed           *)
          live, undefined, broken

userVars == <<client, user, reader, delivered>>
listenerVars == <<listener, next, batch, sockfd, stopping, sent>>
threadVars == <<worker, hand, cleaner, monitor>>
vars == <<userVars, listenerVars, threadVars, input, output, summaries, abandoned, forgotten,
          headless, live, undefined, broken>>

-----------------------------------------------------------------------------
(* What malloc hands out, one object for what is allocated and freed        *)
(* together.  The payload of a segment is among what the worker has, which  *)
(* keeps it in its segment buffer, until the worker forgets it.             *)
Conn == <<"conn", 0>>
In == <<"listener_thread_input", 0>>
Struct == <<"unyte_udp_collector_t", 0>>
Output == <<"output_queue", 0>>
MonitoringQueue == <<"monitoring_queue", 0>>
ParserArray == <<"parsers", 0>>
MonitoringWorker == <<"monitoring_worker", 0>>
Worker(p) == <<"parse_worker", p>>
CleanupIn(p) == <<"cleanup_thread_input", p>>
Buffer(m) == <<"buffer", m.id>>
Source(m) == <<"sockaddr_storage", m.id>>
Payload(m) == <<"payload", m.id>>

Alloc(objects) == live' = live \cup objects /\ UNCHANGED undefined

Uses(objects) == undefined' = ~(objects \subseteq live) /\ UNCHANGED live

UsesAndAllocs(used, got) == undefined' = ~(used \subseteq live) /\ live' = live \cup got

UsesAndFrees(used, gone) ==
  undefined' = ~(used \cup gone \subseteq live) /\ live' = live \ gone

NoMemory == UNCHANGED <<live, undefined>>

Abandon(queue) == abandoned' = abandoned \cup {queue[i].id : i \in 1..Len(queue)}

(* A datagram of no bytes; one object stands for the buffers of them all,   *)
(* and one for their addresses and for what the slots that a short batch    *)
(* leaves empty lose.                                                       *)
Empty == [odid |-> 0, id |-> 0]

(* unyte_udp_queue_write accepts: one slot of the ring is never used.       *)
HasRoom(queue, size) == Len(queue) < size - 1

Init ==
  /\ client \in Clients /\ user = "start" /\ reader = "none"
  /\ delivered = [o \in Odids |-> <<>>]
  /\ listener = "none" /\ next = 0 /\ batch = <<>> /\ sockfd = TRUE
  /\ stopping = FALSE /\ sent = 0
  /\ worker = [p \in Parsers |-> "none"] /\ hand = [p \in Parsers |-> <<>>]
  /\ cleaner = [p \in Parsers |-> "none"] /\ monitor = "none"
  /\ input = [p \in Parsers |-> <<>>] /\ output = <<>> /\ summaries = 0
  /\ abandoned = {} /\ forgotten = {} /\ headless = {} /\ live = {}
  /\ undefined = FALSE /\ broken = FALSE

-----------------------------------------------------------------------------
(* The user.  start_collector goes up to the creation of the listener.      *)
unyte_udp_start_collector ==
  /\ user = "start" /\ user' = "create_listener"
  /\ Alloc({Output, MonitoringQueue, Conn, In, Struct})
  /\ listener' = "create"
  /\ UNCHANGED <<reader, sockfd, output, summaries, delivered>>

(* The listener already runs when collector->sockfd is taken from conn.     *)
unyte_udp_create_listener ==
  /\ user = "create_listener" /\ user' = "loop"
  /\ Uses({Conn, Struct})
  /\ reader' = IF client = "monitoring" THEN "test" ELSE "none"
  /\ UNCHANGED <<listener, sockfd, output, summaries, delivered>>

CallRead ==
  /\ user = "loop" /\ user' = "read"
  /\ NoMemory
  /\ UNCHANGED <<reader, listener, sockfd, output, summaries, delivered>>

(* unyte_udp_queue_read on the output queue, then unyte_udp_free_all.       *)
ReadMessage ==
  LET m == Head(output)
  IN /\ output # <<>>
     /\ output' = Tail(output)
     /\ UsesAndFrees({Output}, {Source(m)})
     /\ delivered' = [delivered EXCEPT ![m.odid] = Append(@, m.id)]
     /\ UNCHANGED <<listener, sockfd, summaries>>

SampleRead ==
  /\ client = "sample" /\ user = "read" /\ user' = "loop"
  /\ ReadMessage
  /\ UNCHANGED reader

(* The main thread of client_monitoring.c reads the summaries ...           *)
SummaryRead ==
  /\ client = "monitoring" /\ user = "read" /\ user' = "loop"
  /\ summaries > 0 /\ summaries' = summaries - 1
  /\ Uses({MonitoringQueue})
  /\ UNCHANGED <<reader, listener, sockfd, output, delivered>>

(* ... and its thread t_read the messages, until input.stop, which is set   *)
(* right after the socket is closed.                                        *)
t_read_test ==
  /\ reader = "test"
  /\ reader' = IF user \in {"loop", "read"} THEN "read" ELSE "ended"
  /\ NoMemory
  /\ UNCHANGED <<user, listener, sockfd, output, summaries, delivered>>

t_read ==
  /\ reader = "read" /\ reader' = "test"
  /\ ReadMessage
  /\ UNCHANGED user

CloseSocket ==
  /\ user = "loop"
  /\ user' = IF client = "monitoring" THEN "join_reader" ELSE "join"
  /\ Uses({Struct, Conn})
  /\ sockfd' = FALSE
  /\ UNCHANGED <<reader, listener, output, summaries, delivered>>

JoinReader ==
  /\ user = "join_reader" /\ user' = "join"
  /\ reader = "ended"
  /\ NoMemory
  /\ UNCHANGED <<reader, listener, sockfd, output, summaries, delivered>>

JoinListener ==
  /\ user = "join" /\ user' = "free"
  /\ listener = "ended"
  /\ Uses({Struct})
  /\ UNCHANGED <<reader, listener, sockfd, output, summaries, delivered>>

(* Mutated form of a definition below, used by none of them.                *)
unyte_udp_free_collector_undrained ==
  /\ user = "free" /\ user' = "done"
  /\ summaries' = 0
  /\ UsesAndFrees({}, {Struct, Output, MonitoringQueue})
  /\ UNCHANGED <<reader, listener, sockfd, output, delivered>>

(* unyte_udp_free_collector: what is left in the output queue, one message  *)
(* per turn of its loop, ...                                                *)
DrainOutput ==
  /\ user = "free" /\ output # <<>>
  /\ UsesAndFrees({Struct, Output}, {Source(Head(output))})
  /\ output' = Tail(output)
  /\ UNCHANGED <<user, reader, listener, sockfd, summaries, delivered>>

(* ... and then the rest.                                                   *)
unyte_udp_free_collector ==
  /\ user = "free" /\ user' = "done"
  /\ output = <<>> /\ summaries' = 0
  /\ UsesAndFrees({}, {Struct, Output, MonitoringQueue})
  /\ UNCHANGED <<reader, listener, sockfd, output, delivered>>

UserFrame ==
  /\ ~undefined
  /\ UNCHANGED <<client, next, batch, stopping, sent, input, threadVars, abandoned,
                 forgotten, headless, broken>>

UserStep ==
  /\ \/ unyte_udp_start_collector \/ unyte_udp_create_listener
     \/ SampleRead \/ SummaryRead
     \/ JoinReader \/ JoinListener \/ DrainOutput \/ unyte_udp_free_collector
  /\ UserFrame

UserChoice == (CallRead \/ CloseSocket) /\ UserFrame

ReaderStep == (t_read_test \/ t_read) /\ UserFrame

-----------------------------------------------------------------------------
(* The listener creates the other threads.                                  *)
create_monitoring_thread ==
  /\ listener = "create" /\ listener' = "create_parser"
  /\ UsesAndAllocs({In, MonitoringQueue}, {ParserArray, MonitoringWorker})
  /\ monitor' = IF MonitoringSize(client) # 0 THEN "test" ELSE "none"
  /\ UNCHANGED <<next, worker, cleaner, broken>>

(* For parser next, with create_cleanup_thread.                             *)
create_parse_worker ==
  /\ listener = "create_parser"
  /\ UsesAndAllocs({In, ParserArray, MonitoringWorker}, {Worker(next), CleanupIn(next)})
  /\ worker' = [worker EXCEPT ![next] = "reading"]
  /\ cleaner' = [cleaner EXCEPT ![next] = "test"]
  /\ IF next + 1 \in Parsers
       THEN next' = next + 1 /\ UNCHANGED listener
       ELSE next' = 0 /\ listener' = "refill"
  /\ UNCHANGED <<monitor, broken>>

(* A malloc fails: listener returns at once and stops nothing.  The parser  *)
(* being created may already run, and, if it is the last one, its clean-up  *)
(* thread too.                                                              *)
CreationFails ==
  /\ listener \in {"create", "create_parser"} /\ listener' = "exit"
  /\ broken' = TRUE
  /\ \/ UNCHANGED <<worker, cleaner>> /\ NoMemory
     \/ /\ listener = "create_parser"
        /\ worker' = [worker EXCEPT ![next] = "reading"]
        /\ \/ UNCHANGED cleaner /\ Alloc({Worker(next)})
           \/ /\ next + 1 \notin Parsers
              /\ cleaner' = [cleaner EXCEPT ![next] = "test"]
              /\ Alloc({Worker(next), CleanupIn(next)})
  /\ UNCHANGED <<next, monitor>>

CreateFrame ==
  /\ ~undefined
  /\ UNCHANGED <<userVars, batch, sockfd, stopping, sent, input, hand, output, summaries,
                 abandoned, forgotten, headless>>

-----------------------------------------------------------------------------
(* The listener receives and dispatches.  A call of recvmmsg fails on a     *)
(* closed descriptor.                                                       *)
recvmmsg ==
  /\ listener = "refill"
  /\ listener' = IF sockfd THEN "recv" ELSE "stop"
  /\ Uses({In, Conn})
  /\ UNCHANGED <<batch, sent, input, abandoned, broken>>

(* A datagram arrives.  The call has no flags and no timeout: it returns    *)
(* when the batch is full, also when the descriptor was closed meanwhile.   *)
Arrive(m) ==
  /\ listener = "recv"
  /\ batch' = Append(batch, m)
  /\ listener' = IF Len(batch') = Used.recvmmsg_vlen THEN "dispatch" ELSE "recv"
  /\ UNCHANGED <<input, abandoned, broken>>

ArriveMessage ==
  /\ sent < MaxDatagrams[client] /\ sent' = sent + 1
  /\ \E o \in Odids : LET m == [odid |-> o, id |-> sent + 1]
                      IN Arrive(m) /\ Alloc({Buffer(m), Source(m)})

ArriveEmpty == Arrive(Empty) /\ Alloc({Buffer(Empty), Source(Empty)}) /\ UNCHANGED sent

(* A signal or an error of the socket ends the call early: with what has    *)
(* been received, and the memory of the other slots is lost when they are   *)
(* refilled, or with -1.                                                    *)
RecvInterrupted ==
  /\ listener = "recv"
  /\ IF batch = <<>>
       THEN listener' = "stop" /\ broken' = TRUE /\ NoMemory /\ UNCHANGED abandoned
       ELSE /\ listener' = "dispatch"
            /\ Alloc({Source(Empty)}) /\ Abandon(<<Empty>>)
            /\ UNCHANGED broken
  /\ UNCHANGED <<batch, sent, input>>

(* Mutated forms of definitions below, used by none of them.                *)
ParserOf_alternating(m) == m.id % Used.nb_parsers

NextDatagram_waits ==
  /\ \A p \in Parsers : Len(input[p]) < Used.parsers_queue_size - 1
  /\ batch' = Tail(batch)
  /\ listener' = IF Len(batch) = 1 THEN "refill" ELSE "dispatch"
  /\ UNCHANGED <<sent, broken>>

DispatchFails_frees_workers ==
  /\ listener = "dispatch" /\ listener' = "exit"
  /\ Head(batch) # Empty /\ batch' = <<>>
  /\ broken' = TRUE
  /\ UsesAndFrees({}, {Worker(p) : p \in Parsers})
  /\ UNCHANGED <<sent, input, abandoned>>

(* The parser a datagram is dispatched to.                                  *)
ParserOf(m) == m.odid % Used.nb_parsers

(* The end of a turn of the loop over the batch.                            *)
NextDatagram ==
  /\ batch' = Tail(batch)
  /\ listener' = IF Len(batch) = 1 THEN "refill" ELSE "dispatch"
  /\ UNCHANGED <<sent, broken>>

(* Of an empty datagram the buffer is freed, not the addresses.             *)
SkipEmpty ==
  LET more == \E i \in 2..Len(batch) : batch[i] = Empty
  IN /\ listener = "dispatch" /\ Head(batch) = Empty
     /\ UsesAndFrees({Buffer(Empty)}, IF more THEN {} ELSE {Buffer(Empty)})
     /\ Abandon(<<Empty>>)
     /\ NextDatagram
     /\ UNCHANGED input

(* A datagram that the queue of its parser refuses is freed, its addresses  *)
(* are not.                                                                 *)
Dispatch ==
  LET m == Head(batch)
      p == ParserOf(m)
      used == {In, ParserArray, Worker(p), MonitoringWorker, Buffer(m)}
  IN /\ listener = "dispatch" /\ m # Empty
     /\ IF HasRoom(input[p], Used.parsers_queue_size)
          THEN /\ input' = [input EXCEPT ![p] = Append(@, m)]
               /\ Uses(used) /\ UNCHANGED abandoned
          ELSE UsesAndFrees(used, {Buffer(m)}) /\ Abandon(<<m>>) /\ UNCHANGED input
     /\ NextDatagram

(* minimal_parse answers NULL: listener returns and stops nothing.          *)
DispatchFails ==
  /\ listener = "dispatch" /\ listener' = "exit"
  /\ Head(batch) # Empty /\ batch' = <<>>
  /\ broken' = TRUE
  /\ NoMemory
  /\ UNCHANGED <<sent, input, abandoned>>

ReceiveFrame ==
  /\ ~undefined
  /\ UNCHANGED <<userVars, next, sockfd, stopping, threadVars, output, summaries, forgotten,
                 headless>>

-----------------------------------------------------------------------------
(* The listener shuts down.                                                 *)

(* Mutated forms of definitions below, used by none of them.                *)
stop_parsers_and_monitoring_forgotten ==
  /\ listener = "stop" /\ listener' = "join_cleanup"
  /\ NoMemory
  /\ sockfd' = FALSE
  /\ UNCHANGED <<next, input, stopping, abandoned>>

CleanerEnded_unchecked(p) == TRUE

MonitorEnded_unchecked == TRUE

CleanerEnded(p) == cleaner[p] = "ended"

MonitorEnded == monitor \in {"none", "ended"}

(* The socket is closed, once more if the user has closed it.               *)
stop_parsers_and_monitoring ==
  /\ listener = "stop" /\ listener' = "join_cleanup"
  /\ Uses({In, Conn, ParserArray, MonitoringWorker} \cup {CleanupIn(p) : p \in Parsers})
  /\ sockfd' = FALSE /\ stopping' = TRUE
  /\ UNCHANGED <<next, input, abandoned>>

(* free_parsers, for parser next: join the clean-up thread, cancel the      *)
(* worker, ...                                                              *)
free_parsers_cleanup ==
  /\ listener = "join_cleanup" /\ listener' = "join_parser"
  /\ CleanerEnded(next)
  /\ Uses({In, ParserArray})
  /\ UNCHANGED <<next, input, sockfd, stopping, abandoned>>

(* ... join it and free what it had; after the last one, the rest.          *)
(* clear_buffer looks for the list of every cell.                           *)
free_parsers ==
  LET last == next + 1 \notin Parsers
      freed == {Worker(next)} \cup IF last THEN {ParserArray, Conn} ELSE {}
  IN /\ listener = "join_parser" /\ worker[next] = "ended"
     /\ undefined' = (next \in headless \/ ~({In, ParserArray} \cup freed \subseteq live))
     /\ live' = live \ freed
     /\ Abandon(input[next]) /\ input' = [input EXCEPT ![next] = <<>>]
     /\ next' = IF last THEN 0 ELSE next + 1
     /\ listener' = IF last THEN "free_monitoring" ELSE "join_cleanup"
     /\ UNCHANGED <<sockfd, stopping>>

free_monitoring_worker ==
  /\ listener = "free_monitoring" /\ listener' = "exit"
  /\ MonitorEnded
  /\ UsesAndFrees({}, {MonitoringWorker})
  /\ UNCHANGED <<next, input, sockfd, stopping, abandoned>>

t_listener_exit ==
  /\ listener = "exit" /\ listener' = "ended"
  /\ UsesAndFrees({}, {In})
  /\ UNCHANGED <<next, input, sockfd, stopping, abandoned>>

StopFrame ==
  /\ ~undefined
  /\ UNCHANGED <<userVars, batch, sent, threadVars, output, summaries, forgotten, headless,
                 broken>>

ListenerStep ==
  \/ (create_monitoring_thread \/ create_parse_worker) /\ CreateFrame
  \/ (recvmmsg \/ SkipEmpty \/ Dispatch) /\ ReceiveFrame
  \/ /\ \/ stop_parsers_and_monitoring \/ free_parsers_cleanup \/ free_parsers
        \/ free_monitoring_worker \/ t_listener_exit
     /\ StopFrame

ListenerFails ==
  \/ CreationFails /\ CreateFrame
  \/ (RecvInterrupted \/ DispatchFails) /\ ReceiveFrame

Datagram == (ArriveMessage \/ ArriveEmpty) /\ ReceiveFrame

-----------------------------------------------------------------------------
(* A parsing worker reads a datagram, parses it and frees the datagram ...  *)
ReadInput(p) ==
  LET m == Head(input[p])
  IN /\ worker[p] = "reading" /\ input[p] # <<>>
     /\ UsesAndFrees({Worker(p)}, {Buffer(m)})
     /\ input' = [input EXCEPT ![p] = Tail(@)]
     /\ hand' = [hand EXCEPT ![p] = <<m>>]
     /\ worker' = [worker EXCEPT ![p] = "parsed"]
     /\ UNCHANGED <<output, abandoned, forgotten, headless>>

(* ... or, when it cannot allocate, ends.                                   *)
ParseFails(p) ==
  /\ worker[p] = "reading" /\ input[p] # <<>>
  /\ Uses({Worker(p), Buffer(Head(input[p]))})
  /\ Abandon(<<Head(input[p])>>) /\ input' = [input EXCEPT ![p] = Tail(@)]
  /\ worker' = [worker EXCEPT ![p] = "ended"]
  /\ UNCHANGED <<hand, output, forgotten, headless>>

(* A whole message, or the segment that completes one, goes to the output   *)
(* queue or is dropped.  A duplicate that completes leaves its payload.     *)
WriteOutput(p) ==
  LET m == Head(hand[p])
      used == {Worker(p), Output, MonitoringWorker, Source(m)}
      room == HasRoom(output, Used.output_queue_size)
  IN /\ worker[p] = "parsed"
     /\ undefined' = ~(used \subseteq live)
     /\ forgotten' \in {forgotten, forgotten \cup {m.id}}
     /\ live' = (live \ (IF room THEN {} ELSE {Source(m)}))
                  \cup (IF forgotten' = forgotten THEN {} ELSE {Payload(m)})
     /\ output' = IF room THEN Append(output, m) ELSE output
     /\ hand' = [hand EXCEPT ![p] = <<>>]
     /\ worker' = [worker EXCEPT ![p] = "reading"]
     /\ UNCHANGED <<input, abandoned, headless>>

(* Any other segment stays with the worker, or is freed.                    *)
Absorb(p) ==
  /\ worker[p] = "parsed"
  /\ UsesAndFrees({Worker(p)}, {Source(Head(hand[p]))})
  /\ hand' = [hand EXCEPT ![p] = <<>>]
  /\ worker' = [worker EXCEPT ![p] = "reading"]
  /\ UNCHANGED <<input, output, abandoned, forgotten, headless>>

(* A malloc fails: the segment, or the message it completes, is freed but   *)
(* for its payload, and the new cell of the buffer may be left without a    *)
(* list.  At the third error the payload is freed too, and the worker ends. *)
AbsorbFails(p) ==
  LET m == Head(hand[p])
  IN \E third \in BOOLEAN :
       /\ worker[p] = "parsed"
       /\ undefined' = ~({Worker(p), Source(m)} \subseteq live)
       /\ live' = (live \ {Source(m)}) \cup (IF third THEN {} ELSE {Payload(m)})
       /\ forgotten' = forgotten \cup (IF third THEN {} ELSE {m.id})
       /\ hand' = [hand EXCEPT ![p] = <<>>]
       /\ worker' = [worker EXCEPT ![p] = IF third THEN "ended" ELSE "reading"]
       /\ headless' \in {headless, headless \cup {p}}
       /\ UNCHANGED <<input, output, abandoned>>

(* A segment, or the sweep after it, comes to a cell without a list.        *)
WalkHeadless(p) ==
  /\ worker[p] = "parsed" /\ p \in headless
  /\ undefined' = TRUE
  /\ UNCHANGED <<live, input, output, hand, worker, abandoned, forgotten, headless>>

(* pthread_cancel takes effect at sem_wait, in a read or a write: no mutex  *)
(* is held there, but a message may be.                                     *)
CancelWorker(p) ==
  /\ listener = "join_parser" /\ next = p /\ worker[p] \in {"reading", "parsed"}
  /\ worker' = [worker EXCEPT ![p] = "ended"]
  /\ Abandon(hand[p]) /\ hand' = [hand EXCEPT ![p] = <<>>]
  /\ NoMemory
  /\ UNCHANGED <<input, output, forgotten, headless>>

WorkerFrame ==
  /\ ~undefined
  /\ UNCHANGED <<userVars, listenerVars, cleaner, monitor, summaries, broken>>

WorkerStep(p) == (ReadInput(p) \/ WriteOutput(p) \/ CancelWorker(p)) /\ WorkerFrame

WorkerChoice(p) ==
  (ParseFails(p) \/ Absorb(p) \/ AbsorbFails(p) \/ WalkHeadless(p)) /\ WorkerFrame

-----------------------------------------------------------------------------
(* The clean-up thread of a worker raises the flag in its segment buffer.   *)
t_clean_up_test(p) ==
  /\ cleaner[p] = "test"
  /\ IF stopping
       THEN UsesAndFrees({}, {CleanupIn(p)}) /\ cleaner' = [cleaner EXCEPT ![p] = "ended"]
       ELSE Uses({CleanupIn(p)}) /\ cleaner' = [cleaner EXCEPT ![p] = "sleep"]
  /\ UNCHANGED <<monitor, summaries>>

t_clean_up(p) ==
  /\ cleaner[p] = "sleep"
  /\ Uses({CleanupIn(p), Worker(p)})
  /\ cleaner' = [cleaner EXCEPT ![p] = "test"]
  /\ UNCHANGED <<monitor, summaries>>

t_monitoring_test ==
  /\ monitor = "test"
  /\ Uses({MonitoringWorker})
  /\ monitor' = IF stopping THEN "ended" ELSE "sleep"
  /\ UNCHANGED <<cleaner, summaries>>

(* A pass: destructive writes, after which the queue holds at least as many.*)
t_monitoring_unyte_udp ==
  /\ monitor = "sleep" /\ monitor' = "test"
  /\ Uses({MonitoringWorker, MonitoringQueue})
  /\ summaries' \in summaries..(MonitoringSize(client) - 1)
  /\ UNCHANGED cleaner

TimerFrame ==
  /\ ~undefined
  /\ UNCHANGED <<userVars, listenerVars, worker, hand, input, output, abandoned, forgotten,
                 headless, broken>>

CleanerStep(p) == (t_clean_up_test(p) \/ t_clean_up(p)) /\ TimerFrame

MonitorStep == (t_monitoring_test \/ t_monitoring_unyte_udp) /\ TimerFrame

-----------------------------------------------------------------------------
Next ==
  \/ UserStep \/ UserChoice \/ ReaderStep
  \/ ListenerStep \/ ListenerFails \/ Datagram
  \/ \E p \in Parsers : WorkerStep(p) \/ WorkerChoice(p) \/ CleanerStep(p)
  \/ MonitorStep

Spec == Init /\ [][Next]_vars

(* The threads are scheduled; the user need not close, no call need fail.   *)
FairSpec ==
  /\ Spec
  /\ WF_vars(UserStep) /\ WF_vars(ReaderStep)
  /\ WF_vars(ListenerStep) /\ WF_vars(MonitorStep)
  /\ \A p \in Parsers : /\ WF_vars(WorkerStep(p))
                        /\ WF_vars(CleanerStep(p))

(* ... and while the listener waits, datagrams keep arriving.               *)
TrafficSpec == FairSpec /\ WF_vars(Datagram)

-----------------------------------------------------------------------------
(* From the start of the collector to the end of unyte_udp_free_collector,  *)
(* no thread uses or frees a queue, a worker, a datagram, a message or an   *)
(* input of a thread that is not allocated yet or that another thread has   *)
(* freed.  Two cases apart: the listener ended for another reason than the  *)
(* user's close, and a malloc of a segment list failed.  The cells that a   *)
(* worker and the monitoring thread share are in Monitoring, not here.      *)
MemorySafe == undefined => broken \/ headless # {}

(* A listener that ends for another reason leaves every thread running that *)
(* it does not stop, and these go on safely.  Memory is misused in two ways *)
(* only: the user takes or closes the socket that the listener has freed,   *)
(* or has freed the queues that the threads nobody stopped still use.       *)
FailedListenerContained ==
  undefined /\ broken /\ headless = {} =>
    user = "done" \/ (user \in {"loop", "join_reader", "join"} /\ Conn \notin live)

(* When the user's thread is done, so is every thread of the collector:     *)
(* none is left waiting on a queue that is gone.                            *)
NoThreadLeft ==
  user = "done" /\ ~broken =>
    /\ listener = "ended" /\ monitor \in {"none", "ended"}
    /\ \A p \in Parsers : worker[p] = "ended" /\ cleaner[p] = "ended"

(* By then everything is freed, also the messages nobody read, but for what *)
(* the code abandons, and all of that leaks: the slots a short batch left   *)
(* empty, the addresses of empty datagrams and of those a full input queue  *)
(* refused, what a worker held when it was cancelled or could not allocate, *)
(* what was left in its input queue, and the payloads it forgot.            *)
OnlyAbandonedLeak ==
  user = "done" /\ ~broken =>
    /\ live \subseteq ({"buffer", "sockaddr_storage"} \X abandoned)
                         \cup ({"payload"} \X forgotten)
    /\ ({"sockaddr_storage"} \X abandoned) \cup ({"payload"} \X forgotten) \subseteq live

Members(q) == {q[i] : i \in 1..Len(q)}

OnTheWay ==
  Members(output) \cup Members(batch)
    \cup UNION {Members(hand[p]) \cup Members(input[p]) : p \in Parsers}

(* A domain's datagrams on their way.                                       *)
Transit(o) == {m.id : m \in {n \in OnTheWay : n # Empty /\ n.odid = o}}

(* Datagrams of one domain reach the user once and in order, however the    *)
(* workers are scheduled and whatever is lost: one worker handles them all. *)
Channel == INSTANCE DomainChannel WITH transit <- [o \in Odids |-> Transit(o)]

ImplementsChannel == Channel!Spec

(* A full input queue, a worker that has ended or a user who does not read  *)
(* never stops the listener: it goes back to the socket, unless a worker    *)
(* has met a cell without a list.                                           *)
ListenerReturnsToSocket ==
  listener = "dispatch" ~> (listener \in {"recv", "stop", "exit"} \/ undefined)

(* t_read of client_monitoring.c waits for a message that does not come.    *)
Starved == reader = "read" /\ output = <<>>

(* After the user closes the socket every thread is stopped and joined and  *)
(* the collector is freed, unless a list could not be allocated and a cell  *)
(* without one is met; only client_monitoring.c may wait for ever, for its  *)
(* own reading thread.                                                      *)
ShutdownCompletes ==
  (~sockfd ~> (user = "done" \/ broken \/ undefined)) \/ <>[]Starved

(* "To shut down the collector, just close the socket": closing it is       *)
(* enough for the listener to stop, whether or not datagrams still arrive.  *)
ClosingIsEnough == ~sockfd ~> (listener = "ended" \/ broken \/ undefined)
=============================================================================
