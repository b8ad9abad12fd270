--------------------------- MODULE CollectorProofs ---------------------------
(***************************************************************************)
(* Proofs about Collector, for any options, any number of parsing workers, *)
(* any domains and any number of datagrams: as long as the listener ends   *)
(* only because the user closed the socket, no thread uses what is not     *)
(* allocated unless a segment list could not be, none is left when the     *)
(* user is done, and only what the code abandons is leaked.                *)
(*                                                                         *)
(* The invariant has five parts: where the threads can be together         *)
(* (Control), where a datagram can be (Queues), which objects exist for a  *)
(* position of the threads (Objects), which memory of datagrams exists for *)
(* what the queues hold (Packets), and which of empty datagrams and of     *)
(* payloads nothing refers to (Scraps).                                    *)
(*                                                                         *)
(* The order of the datagrams needs none of that, and holds however the    *)
(* listener ended (InOrder): it makes the collector implement              *)
(* DomainChannel.                                                          *)
(***************************************************************************)
EXTENDS Collector, TLAPS

Running == {"refill", "recv", "dispatch"}
Joining == {"join_cleanup", "join_parser"}
Joined == {"free_monitoring", "exit", "ended"}

ControlTypes ==
  /\ client \in Clients
  /\ user \in {"start", "create_listener", "loop", "read", "join_reader", "join",
               "free", "done"}
  /\ reader \in {"none", "test", "read", "ended"}
  /\ listener \in {"none", "create", "create_parser", "stop"}
                    \cup Running \cup Joining \cup Joined
  /\ next \in Parsers
  /\ worker \in [Parsers -> {"none", "reading", "parsed", "ended"}]
  /\ cleaner \in [Parsers -> {"none", "test", "sleep", "ended"}]
  /\ monitor \in {"none", "test", "sleep", "ended"}
  /\ sockfd \in BOOLEAN /\ stopping \in BOOLEAN

(* The listener stops after the user's close, and the user frees after the  *)
(* listener's end.                                                          *)
Phases ==
  /\ user = "start" <=> listener = "none"
  /\ user \in {"free", "done"} => listener = "ended"
  /\ sockfd <=> user \in {"start", "create_listener", "loop", "read"}
  /\ sockfd => listener \in {"none", "create", "create_parser"} \cup Running
  /\ stopping <=> listener \in Joining \cup Joined
  /\ listener \notin {"create_parser"} \cup Joining => next = 0

ReaderPlace ==
  /\ client = "sample" => reader = "none"
  /\ user \in {"start", "create_listener", "join", "free", "done"} =>
       reader \in {"none", "ended"}

NotYet(p) ==
  \/ listener \in {"none", "create"}
  \/ listener = "create_parser" /\ p >= next

Gone(p) ==
  \/ listener \in Joined
  \/ listener \in Joining /\ p < next

ThreadPlaces ==
  /\ \A p \in Parsers : worker[p] = "none" <=> NotYet(p)
  /\ \A p \in Parsers : cleaner[p] = "none" <=> NotYet(p)
  /\ \A p \in Parsers : cleaner[p] = "ended" => stopping
  /\ \A p \in Parsers : Gone(p) => worker[p] = "ended" /\ cleaner[p] = "ended"
  /\ listener = "join_parser" => cleaner[next] = "ended"
  /\ listener \in {"none", "create", "exit", "ended"} => monitor \in {"none", "ended"}

Control == ControlTypes /\ Phases /\ ReaderPlace /\ ThreadPlaces

-----------------------------------------------------------------------------
(* The places a datagram can be in, and the ids there.                      *)
Batch == <<"batch", 0>>
Out == <<"output", 0>>
Lost == <<"abandoned", 0>>
InputOf(p) == <<"input", p>>
HandOf(p) == <<"hand", p>>

Places == {Batch, Out, Lost} \cup {InputOf(p) : p \in Parsers} \cup {HandOf(p) : p \in Parsers}

IdsOf(q) == {q[i].id : i \in 1..Len(q)} \ {0}

At(x) == CASE x[1] = "batch"     -> IdsOf(batch)
           [] x[1] = "output"    -> IdsOf(output)
           [] x[1] = "abandoned" -> abandoned \ {0}
           [] x[1] = "input"     -> IdsOf(input[x[2]])
           [] x[1] = "hand"      -> IdsOf(hand[x[2]])

Messages == [odid : Odids, id : Ids]

NoRepeat(q) == \A i, j \in 1..Len(q) : q[i].id = q[j].id /\ q[i].id # 0 => i = j

QueueTypes ==
  /\ batch \in Seq(Messages \cup {Empty}) /\ output \in Seq(Messages)
  /\ input \in [Parsers -> Seq(Messages)] /\ hand \in [Parsers -> Seq(Messages)]
  /\ sent \in Nat /\ abandoned \subseteq Ids \cup {0}

(* No datagram is in two places, or twice in one.                           *)
OnePlace ==
  /\ NoRepeat(batch) /\ NoRepeat(output) /\ \A p \in Parsers : NoRepeat(input[p])
  /\ \A x, y \in Places : \A i \in Ids : i \in At(x) /\ i \in At(y) => x = y
  /\ \A x \in Places : At(x) \subseteq 1..sent

(* What a queue can hold, by where its threads are.                         *)
Emptied ==
  /\ listener \notin {"recv", "dispatch"} => batch = <<>>
  /\ listener = "dispatch" => batch # <<>>
  /\ user \in {"start", "done"} => output = <<>>
  /\ \A p \in Parsers : Gone(p) => input[p] = <<>>
  /\ \A p \in Parsers : Len(hand[p]) = IF worker[p] = "parsed" THEN 1 ELSE 0

Queues == QueueTypes /\ OnePlace /\ Emptied

-----------------------------------------------------------------------------
Exists(p) ==
  \/ listener = "create_parser" /\ p < next
  \/ listener \in Running \cup {"stop"}
  \/ listener \in Joining /\ p >= next

Objects ==
  /\ Struct \in live <=> user \notin {"start", "done"}
  /\ Output \in live <=> user \notin {"start", "done"}
  /\ MonitoringQueue \in live <=> user \notin {"start", "done"}
  /\ Conn \in live <=> listener \notin {"none"} \cup Joined
  /\ In \in live <=> listener \notin {"none", "ended"}
  /\ ParserArray \in live <=> listener \notin {"none", "create"} \cup Joined
  /\ MonitoringWorker \in live <=> listener \notin {"none", "create", "exit", "ended"}
  /\ \A p \in Parsers : Worker(p) \in live <=> Exists(p)
  /\ \A p \in Parsers : CleanupIn(p) \in live <=> cleaner[p] \in {"test", "sleep"}

FixedObjects ==
  {Struct, Output, MonitoringQueue, Conn, In, ParserArray, MonitoringWorker}
    \cup {Worker(p) : p \in Parsers} \cup {CleanupIn(p) : p \in Parsers}

BufferOf(i) == <<"buffer", i>>
SourceOf(i) == <<"sockaddr_storage", i>>
PayloadOf(i) == <<"payload", i>>

ScrapObjects == {BufferOf(0), SourceOf(0)} \cup {PayloadOf(i) : i \in Ids}

(* Where a datagram still has the buffer it was received in, and where it   *)
(* may have it.                                                             *)
Unparsed == {Batch} \cup {InputOf(p) : p \in Parsers}
MayBeUnparsed == Unparsed \cup {Lost}

Packets ==
  /\ \A i \in Ids : SourceOf(i) \in live <=> \E x \in Places : i \in At(x)
  /\ \A i \in Ids : (\E x \in Unparsed : i \in At(x)) => BufferOf(i) \in live
  /\ \A i \in Ids : BufferOf(i) \in live => \E x \in MayBeUnparsed : i \in At(x)
  /\ \A o \in live : \/ o \in FixedObjects \cup ScrapObjects
                     \/ \E i \in Ids : o = SourceOf(i) \/ o = BufferOf(i)

HasEmpty(q) == \E i \in 1..Len(q) : q[i].id = 0

(* The memory of empty datagrams, which all have the id 0, and the payloads *)
(* that nothing refers to.                                                  *)
Scraps ==
  /\ forgotten \subseteq Ids
  /\ \A i \in Ids : PayloadOf(i) \in live <=> i \in forgotten
  /\ SourceOf(0) \in live <=> 0 \in abandoned \/ HasEmpty(batch)
  /\ BufferOf(0) \in live <=> HasEmpty(batch)

CollectorInv ==
  ~broken => /\ undefined => headless # {}
             /\ Control /\ Queues /\ Objects /\ Packets /\ Scraps

-----------------------------------------------------------------------------
(* The control of the threads.                                              *)

(* A broken collector stays broken: what is proved of one that is not was   *)
(* so before the step.                                                      *)
LEMMA BrokenStays ==
  ASSUME [Next]_vars, ~broken'
  PROVE  ~broken
BY DEF Next, vars, UserStep, UserChoice, ReaderStep, UserFrame, ListenerStep, ListenerFails,
   Datagram, CreateFrame, ReceiveFrame, StopFrame, WorkerStep, WorkerChoice, WorkerFrame,
   CleanerStep, MonitorStep, TimerFrame, create_monitoring_thread, create_parse_worker,
   CreationFails, recvmmsg, SkipEmpty, Dispatch, NextDatagram, RecvInterrupted,
   DispatchFails, ArriveMessage, ArriveEmpty, Arrive

(* The parsers are numbered from 0, and there is at least one.              *)
LEMMA ParserNumbers ==
  /\ Used.nb_parsers \in Nat \ {0} /\ Parsers = 0..(Used.nb_parsers - 1)
  /\ 0 \in Parsers /\ Parsers \subseteq Nat
  /\ \A p \in Parsers : p + 1 \in Parsers \/ p = Used.nb_parsers - 1
<1>1. Used.nb_parsers \in Nat \ {0}
  BY CollectorAssumption
<1> HIDE DEF Used
<1> QED
  BY <1>1 DEF Parsers

(* The user's threads start the listener, close the socket and wait for the *)
(* listener's end before the collector is freed.                            *)
LEMMA UserKeepsControl ==
  ASSUME Control, UserStep \/ UserChoice \/ ReaderStep
  PROVE  Control'
<1> USE DEF UserStep, UserChoice, ReaderStep, UserFrame, threadVars, Control
<1>0. UNCHANGED <<client, next, worker, cleaner, monitor, stopping>>
  OBVIOUS
<1>1. CASE unyte_udp_start_collector
  BY <1>0, <1>1 DEF unyte_udp_start_collector, ControlTypes, Phases, ReaderPlace,
     ThreadPlaces, NotYet, Gone, Running, Joining, Joined
<1>2. CASE listener' = listener
  <2>1. ThreadPlaces'
    BY <1>0, <1>2 DEF ThreadPlaces, NotYet, Gone
  <2>2. CASE user' = user
    <3>1. reader \notin {"none", "ended"} \/ reader' = reader
      BY <2>2 DEF unyte_udp_start_collector, unyte_udp_create_listener, SampleRead,
         SummaryRead, JoinReader, JoinListener, DrainOutput, unyte_udp_free_collector,
         CallRead, CloseSocket, t_read_test, t_read
    <3>2. UNCHANGED sockfd /\ reader' \in {reader, "test", "read", "ended"}
      BY <2>2 DEF unyte_udp_start_collector, unyte_udp_create_listener, SampleRead,
         SummaryRead, JoinReader, JoinListener, DrainOutput, unyte_udp_free_collector,
         CallRead, CloseSocket, t_read_test, t_read, ReadMessage
    <3> QED
      BY <1>0, <1>2, <2>1, <2>2, <3>1, <3>2 DEF ControlTypes, Phases, ReaderPlace
  <2>3. CASE unyte_udp_create_listener \/ SampleRead \/ SummaryRead \/ CallRead
    BY <1>0, <1>2, <2>1, <2>3, CollectorAssumption DEF unyte_udp_create_listener,
       SampleRead, ReadMessage, SummaryRead, CallRead, ControlTypes, Phases, ReaderPlace
  <2>4. CASE CloseSocket
    <3>1. client \in {"sample", "monitoring"}
      BY CollectorAssumption DEF ControlTypes
    <3> QED
      BY <1>0, <1>2, <2>1, <2>4, <3>1 DEF CloseSocket, ControlTypes, Phases, ReaderPlace
  <2>5. CASE JoinReader \/ JoinListener \/ unyte_udp_free_collector
    BY <1>0, <1>2, <2>1, <2>5 DEF JoinReader, JoinListener, unyte_udp_free_collector,
       ControlTypes, Phases, ReaderPlace
  <2>6. ~unyte_udp_start_collector
    BY <1>2 DEF unyte_udp_start_collector, Phases
  <2> QED
    BY <2>2, <2>3, <2>4, <2>5, <2>6 DEF t_read_test, t_read, DrainOutput
<1> QED
  BY <1>1, <1>2 DEF unyte_udp_create_listener, SampleRead, SummaryRead, JoinReader,
     JoinListener, DrainOutput, unyte_udp_free_collector, CallRead, CloseSocket,
     t_read_test, t_read, ReadMessage

(* The listener creates the threads in the order of the parsers.            *)
LEMMA CreationKeepsControl ==
  ASSUME Control, ~broken',
         (create_monitoring_thread \/ create_parse_worker \/ CreationFails) /\ CreateFrame
  PROVE  Control'
<1> USE ParserNumbers DEF CreateFrame, userVars, Control
<1> HIDE DEF Used
<1>1. CASE create_monitoring_thread
  BY <1>1 DEF create_monitoring_thread, ControlTypes, Phases, ReaderPlace,
     ThreadPlaces, NotYet, Gone, Running, Joining, Joined
<1>2. CASE create_parse_worker
  <2> USE <1>2 DEF create_parse_worker
  <2>1. next' \in Parsers /\ listener' \in {"create_parser", "refill"}
    BY DEF ControlTypes
  <2>2. ControlTypes'
    BY <2>1 DEF ControlTypes, Running
  <2>3. \A p \in Parsers : NotYet(p)' <=> NotYet(p) /\ p # next
    BY DEF NotYet, ControlTypes
  <2>4. \A p \in Parsers : ~Gone(p)'
    BY <2>1 DEF Gone, Joining, Joined
  <2>5. ThreadPlaces'
    BY <2>1, <2>3, <2>4 DEF ThreadPlaces, ControlTypes
  <2> QED
    BY <2>1, <2>2, <2>5 DEF Phases, ReaderPlace, Running, Joining, Joined
<1> QED
  BY <1>1, <1>2 DEF CreationFails

(* It receives and dispatches until the socket is closed.                   *)
LEMMA ReceptionKeepsControl ==
  ASSUME Control, ~broken', ReceiveFrame,
         \/ recvmmsg \/ SkipEmpty \/ Dispatch \/ RecvInterrupted \/ DispatchFails
         \/ ArriveMessage \/ ArriveEmpty
  PROVE  Control'
<1>1. /\ UNCHANGED <<client, user, reader, next, sockfd, stopping, worker, cleaner, monitor>>
      /\ listener \in Running
      /\ listener' \in Running \/ (listener' = "stop" /\ ~sockfd)
  <2> USE DEF ReceiveFrame, userVars, threadVars, Running, NextDatagram, Arrive
  <2>1. CASE recvmmsg
    BY <2>1 DEF recvmmsg
  <2>2. CASE SkipEmpty \/ Dispatch
    BY <2>2 DEF SkipEmpty, Dispatch
  <2>3. CASE RecvInterrupted \/ DispatchFails
    BY <2>3 DEF RecvInterrupted, DispatchFails
  <2>4. CASE ArriveMessage \/ ArriveEmpty
    BY <2>4 DEF ArriveMessage, ArriveEmpty
  <2> QED
    BY <2>1, <2>2, <2>3, <2>4
<1> QED
  BY <1>1 DEF Control, ControlTypes, Phases, ReaderPlace, ThreadPlaces, NotYet, Gone,
     Running, Joining, Joined

(* It joins the threads in the order of the parsers.                        *)
LEMMA StopKeepsControl ==
  ASSUME Control, StopFrame,
         \/ stop_parsers_and_monitoring \/ free_parsers_cleanup \/ free_parsers
         \/ free_monitoring_worker \/ t_listener_exit
  PROVE  Control'
<1> USE ParserNumbers DEF StopFrame, userVars, threadVars, Control
<1> HIDE DEF Used
<1>1. CASE stop_parsers_and_monitoring
  <2>1. ~sockfd /\ next = 0
    BY <1>1 DEF stop_parsers_and_monitoring, Phases, Running, Joining
  <2>2. \A p \in Parsers : ~NotYet(p) /\ ~NotYet(p)' /\ ~Gone(p)'
    BY <1>1, <2>1 DEF stop_parsers_and_monitoring, NotYet, Gone, Joining, Joined
  <2>3. ThreadPlaces'
    BY <1>1, <2>2 DEF stop_parsers_and_monitoring, ThreadPlaces
  <2> QED
    BY <1>1, <2>1, <2>3 DEF stop_parsers_and_monitoring, ControlTypes, Phases, ReaderPlace,
       Running, Joining, Joined
<1>2. CASE free_parsers_cleanup
  BY <1>2 DEF free_parsers_cleanup, CleanerEnded, ControlTypes, Phases, ReaderPlace,
     ThreadPlaces, NotYet, Gone, Running, Joining, Joined
<1>3. CASE free_parsers
  <2> USE <1>3 DEF free_parsers
  <2>1. next' \in Parsers /\ listener' \in {"join_cleanup", "free_monitoring"}
    BY DEF ControlTypes
  <2>2. \A p \in Parsers : Gone(p)' => Gone(p) \/ p = next
    BY DEF Gone, Joining, Joined, ControlTypes
  <2>3. \A p \in Parsers : ~NotYet(p) /\ ~NotYet(p)'
    BY <2>1 DEF NotYet
  <2>4. ThreadPlaces'
    BY <2>1, <2>2, <2>3 DEF ThreadPlaces, Phases, Joining, Joined, ControlTypes
  <2>5. Phases'
    BY <2>1 DEF Phases, Running, Joining, Joined
  <2> QED
    BY <2>1, <2>4, <2>5 DEF ControlTypes, ReaderPlace, Joining, Joined
<1>4. CASE free_monitoring_worker \/ t_listener_exit
  BY <1>4 DEF free_monitoring_worker, MonitorEnded, t_listener_exit, ControlTypes, Phases,
     ReaderPlace, ThreadPlaces, NotYet, Gone, Running, Joining, Joined
<1> QED
  BY <1>1, <1>2, <1>3, <1>4

(* The other threads keep to their places, and end only once asked to.      *)
LEMMA ThreadsKeepControl ==
  ASSUME Control,
         \/ \E p \in Parsers : WorkerStep(p) \/ WorkerChoice(p) \/ CleanerStep(p)
         \/ MonitorStep
  PROVE  Control'
<1> USE DEF Control
<1>1. ASSUME NEW p \in Parsers, WorkerStep(p) \/ WorkerChoice(p) PROVE Control'
  <2>1. /\ UNCHANGED <<client, user, reader, listener, next, sockfd, stopping, cleaner, monitor>>
        /\ worker[p] \in {"reading", "parsed"}
        /\ \E w \in {"reading", "parsed", "ended"} : worker' = [worker EXCEPT ![p] = w]
    BY <1>1 DEF WorkerStep, WorkerChoice, WorkerFrame, userVars, listenerVars, ReadInput,
       WriteOutput, CancelWorker, ParseFails, Absorb, AbsorbFails, WalkHeadless, ControlTypes
  <2> QED
    BY <2>1 DEF ControlTypes, Phases, ReaderPlace, ThreadPlaces, NotYet, Gone
<1>2. ASSUME NEW p \in Parsers, CleanerStep(p) PROVE Control'
  <2>1. /\ UNCHANGED <<client, user, reader, listener, next, sockfd, stopping, worker, monitor>>
        /\ cleaner[p] \in {"test", "sleep"}
        /\ \E w \in {"test", "sleep"} \cup IF stopping THEN {"ended"} ELSE {} :
              cleaner' = [cleaner EXCEPT ![p] = w]
    BY <1>2 DEF CleanerStep, TimerFrame, userVars, listenerVars, t_clean_up_test, t_clean_up
  <2> QED
    BY <2>1 DEF ControlTypes, Phases, ReaderPlace, ThreadPlaces, NotYet, Gone
<1>3. CASE MonitorStep
  BY <1>3 DEF MonitorStep, TimerFrame, userVars, listenerVars, t_monitoring_test,
     t_monitoring_unyte_udp, ControlTypes, Phases, ReaderPlace, ThreadPlaces, NotYet, Gone
<1> QED
  BY <1>1, <1>2, <1>3

(* Every step keeps the control.                                            *)
LEMMA ControlKept ==
  ASSUME Control, [Next]_vars, ~broken'
  PROVE  Control'
<1>1. CASE UNCHANGED vars
  BY <1>1 DEF vars, userVars, listenerVars, threadVars, Control, ControlTypes, Phases,
     ReaderPlace, ThreadPlaces, NotYet, Gone
<1> QED
  BY <1>1, UserKeepsControl, CreationKeepsControl, ReceptionKeepsControl, StopKeepsControl,
     ThreadsKeepControl DEF Next, ListenerStep, ListenerFails, Datagram

-----------------------------------------------------------------------------
(* The ids in a queue.                                                      *)

Packet == Messages \cup {Empty}

(* Ids are not 0, the id of an empty datagram.                              *)
LEMMA IdsPositive == Ids \subseteq Nat \ {0}
BY CollectorAssumption DEF Ids

(* So an empty datagram is told from the others by its id.                  *)
LEMMA MessageOrEmpty ==
  ASSUME NEW m \in Packet
  PROVE  /\ m = Empty \/ m.id \in Ids
         /\ m.id = 0 <=> m = Empty
         /\ m \in Messages <=> m # Empty
BY IdsPositive DEF Packet, Messages, Empty

(* Every queue of messages is one of packets.                               *)
LEMMA MessagesArePackets == \A q \in Seq(Messages) : q \in Seq(Packet)
BY DEF Packet

(* Taking the head of a queue takes its id.                                 *)
LEMMA TailIds ==
  ASSUME NEW q \in Seq(Packet), q # <<>>, NoRepeat(q)
  PROVE  /\ Head(q) \in Packet /\ Tail(q) \in Seq(Packet) /\ Len(Tail(q)) = Len(q) - 1
         /\ NoRepeat(Tail(q))
         /\ IdsOf(Tail(q)) = IdsOf(q) \ {Head(q).id}
         /\ Head(q).id # 0 => Head(q).id \in IdsOf(q)
<1>1. /\ Len(q) \in Nat \ {0} /\ Head(q) = q[1] /\ q[1] \in Packet
      /\ Tail(q) \in Seq(Packet) /\ Len(Tail(q)) = Len(q) - 1
      /\ \A i \in 1..(Len(q) - 1) : Tail(q)[i] = q[i + 1]
  OBVIOUS
<1>2. NoRepeat(Tail(q))
  BY <1>1 DEF NoRepeat
<1>3. IdsOf(Tail(q)) \subseteq IdsOf(q) \ {Head(q).id}
  <2> SUFFICES ASSUME NEW i \in 1..(Len(q) - 1), q[i + 1].id # 0
               PROVE  q[i + 1].id \in IdsOf(q) /\ q[i + 1].id # q[1].id
    BY <1>1 DEF IdsOf
  <2>1. i + 1 \in 1..Len(q) /\ 1 \in 1..Len(q) /\ i + 1 # 1
    BY <1>1
  <2> QED
    BY <2>1 DEF IdsOf, NoRepeat
<1>4. ASSUME NEW k \in IdsOf(q), k # Head(q).id PROVE k \in IdsOf(Tail(q))
  <2>1. PICK j \in 1..Len(q) : q[j].id = k /\ k # 0
    BY <1>4 DEF IdsOf
  <2>2. j # 1 /\ j - 1 \in 1..(Len(q) - 1) /\ (j - 1) + 1 = j
    BY <1>1, <1>4, <2>1
  <2>3. Tail(q)[j - 1].id = k
    BY <1>1, <2>1, <2>2
  <2> QED
    BY <1>1, <2>1, <2>2, <2>3 DEF IdsOf
<1>5. Head(q).id # 0 => Head(q).id \in IdsOf(q)
  BY <1>1 DEF IdsOf
<1> QED
  BY <1>1, <1>2, <1>3, <1>4, <1>5

(* Appending a datagram adds its id, unless it is an empty one.             *)
LEMMA AppendIds ==
  ASSUME NEW q \in Seq(Packet), NEW m \in Packet, NoRepeat(q), m.id \notin IdsOf(q)
  PROVE  /\ Append(q, m) \in Seq(Packet) /\ Len(Append(q, m)) = Len(q) + 1
         /\ NoRepeat(Append(q, m))
         /\ IdsOf(Append(q, m)) = IdsOf(q) \cup ({m.id} \ {0})
<1> DEFINE a == Append(q, m)
<1>1. /\ Len(q) \in Nat /\ a \in Seq(Packet) /\ Len(a) = Len(q) + 1
      /\ \A i \in 1..Len(q) : a[i] = q[i]
      /\ a[Len(q) + 1] = m
  OBVIOUS
<1> HIDE DEF a
<1>2. \A i \in 1..Len(a) : i \in 1..Len(q) \/ i = Len(q) + 1
  BY <1>1
<1>3. \A i \in 1..Len(q) : a[i].id # 0 => a[i].id \in IdsOf(q)
  BY <1>1 DEF IdsOf
<1>4. NoRepeat(a)
  BY <1>1, <1>2, <1>3 DEF NoRepeat
<1>5. IdsOf(a) \subseteq IdsOf(q) \cup ({m.id} \ {0})
  BY <1>1, <1>2, <1>3 DEF IdsOf
<1>6. IdsOf(q) \subseteq IdsOf(a)
  BY <1>1 DEF IdsOf
<1>7. {m.id} \ {0} \subseteq IdsOf(a)
  BY <1>1 DEF IdsOf
<1> QED
  BY <1>1, <1>4, <1>5, <1>6, <1>7 DEF a

(* The ids of queues of no message and of one.                              *)
LEMMA ShortIds ==
  /\ IdsOf(<<>>) = {} /\ NoRepeat(<<>>)
  /\ \A h \in Seq(Messages) : Len(h) = 0 => h = <<>>
  /\ \A m \in Messages : IdsOf(<<m>>) = {m.id}
  /\ \A h \in Seq(Messages) : Len(h) = 1 =>
       h = <<Head(h)>> /\ Head(h) \in Messages /\ IdsOf(h) = {Head(h).id}
<1>1. IdsOf(<<>>) = {} /\ NoRepeat(<<>>)
  BY DEF IdsOf, NoRepeat
<1>2. ASSUME NEW m \in Messages PROVE IdsOf(<<m>>) = {m.id}
  <2>1. m.id # 0
    BY IdsPositive DEF Messages
  <2> QED
    BY <2>1 DEF IdsOf
<1>3. ASSUME NEW h \in Seq(Messages), Len(h) = 1
      PROVE  h = <<Head(h)>> /\ Head(h) \in Messages
  BY <1>3
<1> QED
  BY <1>1, <1>2, <1>3

(* A queue of messages holds ids.                                           *)
LEMMA MessageIds == \A q \in Seq(Messages) : IdsOf(q) \subseteq Ids
<1>1. \A m \in Messages : m.id \in Ids
  BY DEF Messages
<1>2. \A q \in Seq(Messages) : \A i \in 1..Len(q) : q[i] \in Messages
  OBVIOUS
<1> QED
  BY <1>1, <1>2 DEF IdsOf

(* Abandoning a queue of messages abandons its ids.                         *)
LEMMA AbandonIds ==
  ASSUME NEW q \in Seq(Messages), Abandon(q)
  PROVE  abandoned' = abandoned \cup IdsOf(q)
<1>1. \A m \in Messages : m.id # 0
  BY IdsPositive DEF Messages
<1>2. \A i \in 1..Len(q) : q[i] \in Messages
  OBVIOUS
<1> QED
  BY <1>1, <1>2 DEF Abandon, IdsOf

(* Abandoning an empty datagram abandons the id 0.                          *)
LEMMA EmptyAbandoned == Abandon(<<Empty>>) => abandoned' = abandoned \cup {0}
BY DEF Abandon, Empty

-----------------------------------------------------------------------------
(* Datagrams move from one place to another.                                *)

Nowhere == <<"nowhere", 0>>

Moves(from, to, ids) ==
  /\ ids \subseteq At(from)
  /\ \A x \in Places :
       At(x)' = IF x = from THEN At(x) \ ids ELSE IF x = to THEN At(x) \cup ids ELSE At(x)

(* The datagrams that are lost.                                             *)
LEMMA LostIds == At(Lost) = abandoned \ {0} /\ At(Lost)' = abandoned' \ {0}
<1>1. Lost[1] = "abandoned"
  BY DEF Lost
<1> HIDE DEF Lost
<1> QED
  BY <1>1 DEF At

(* What is in each place, before and after a step.                          *)
LEMMA AtPlaces ==
  /\ At(Batch) = IdsOf(batch) /\ At(Out) = IdsOf(output)
  /\ \A p : At(InputOf(p)) = IdsOf(input[p]) /\ At(HandOf(p)) = IdsOf(hand[p])
  /\ At(Batch)' = IdsOf(batch') /\ At(Out)' = IdsOf(output')
  /\ \A p : At(InputOf(p))' = IdsOf(input'[p]) /\ At(HandOf(p))' = IdsOf(hand'[p])
  /\ abandoned' = abandoned => At(Lost)' = At(Lost)
  /\ \A ids : 0 \notin ids /\ abandoned' = abandoned \cup ids => At(Lost)' = At(Lost) \cup ids
<1>1. /\ Batch[1] = "batch" /\ Out[1] = "output" /\ Lost[1] = "abandoned"
      /\ \A p : /\ InputOf(p)[1] = "input" /\ InputOf(p)[2] = p
                /\ HandOf(p)[1] = "hand" /\ HandOf(p)[2] = p
  BY DEF Batch, Out, Lost, InputOf, HandOf
<1> HIDE DEF Batch, Out, Lost, InputOf, HandOf
<1>2. At(Batch) = IdsOf(batch) /\ At(Batch)' = IdsOf(batch')
  BY <1>1 DEF At
<1>3. At(Out) = IdsOf(output) /\ At(Out)' = IdsOf(output')
  BY <1>1 DEF At
<1>4. /\ abandoned' = abandoned => At(Lost)' = At(Lost)
      /\ \A ids : 0 \notin ids /\ abandoned' = abandoned \cup ids => At(Lost)' = At(Lost) \cup ids
  BY LostIds
<1>5. ASSUME NEW p
      PROVE  At(InputOf(p)) = IdsOf(input[p]) /\ At(InputOf(p))' = IdsOf(input'[p])
  BY <1>1 DEF At
<1>6. ASSUME NEW p
      PROVE  At(HandOf(p)) = IdsOf(hand[p]) /\ At(HandOf(p))' = IdsOf(hand'[p])
  BY <1>1 DEF At
<1> QED
  BY <1>2, <1>3, <1>4, <1>5, <1>6

(* The places are different.                                                *)
LEMMA PlacesDiffer ==
  /\ {Batch, Out, Lost} \subseteq Places /\ Nowhere \notin Places
  /\ Batch # Out /\ Batch # Lost /\ Out # Lost
  /\ \A p : /\ p \in Parsers => InputOf(p) \in Places /\ HandOf(p) \in Places
            /\ InputOf(p) \notin {Batch, Out, Lost, Nowhere}
            /\ HandOf(p) \notin {Batch, Out, Lost, Nowhere}
  /\ \A p, q : /\ InputOf(p) # HandOf(q)
               /\ InputOf(p) = InputOf(q) => p = q
               /\ HandOf(p) = HandOf(q) => p = q
  /\ \A x \in Places : \/ x \in {Batch, Out, Lost}
                       \/ \E p \in Parsers : x = InputOf(p) \/ x = HandOf(p)
<1> HIDE DEF Parsers
<1>1. Nowhere \notin Places
  BY DEF Places, Nowhere, Batch, Out, Lost, InputOf, HandOf
<1>2. /\ Batch # Out /\ Batch # Lost /\ Out # Lost
      /\ \A p : /\ InputOf(p) \notin {Batch, Out, Lost, Nowhere}
                /\ HandOf(p) \notin {Batch, Out, Lost, Nowhere}
      /\ \A p, q : /\ InputOf(p) # HandOf(q)
                   /\ InputOf(p) = InputOf(q) => p = q
                   /\ HandOf(p) = HandOf(q) => p = q
  BY DEF Nowhere, Batch, Out, Lost, InputOf, HandOf
<1> QED
  BY <1>1, <1>2 DEF Places

(* A move keeps every datagram in one place.                                *)
LEMMA MoveKeepsOnePlace ==
  ASSUME OnePlace, NEW from \in Places, NEW to, NEW ids, Moves(from, to, ids), sent' = sent,
         NoRepeat(batch'), NoRepeat(output'), \A p \in Parsers : NoRepeat(input'[p])
  PROVE  OnePlace'
<1> USE DEF OnePlace, Moves
<1> HIDE DEF Places, At, NoRepeat, Parsers
<1>1. \A x, y \in Places : \A i \in Ids : i \in At(x)' /\ i \in At(y)' => x = y
  OBVIOUS
<1>2. \A x \in Places : At(x)' \subseteq 1..sent'
  OBVIOUS
<1> QED
  BY <1>1, <1>2

-----------------------------------------------------------------------------
(* What each step does to the queues.                                       *)

(* A step that leaves the queues alone.                                     *)
QueuesStay == UNCHANGED <<batch, output, input, hand, abandoned, sent>>

(* Then nothing moves.                                                      *)
LEMMA StayMoves ==
  ASSUME QueuesStay
  PROVE  \A x \in Places : At(x)' = At(x)
BY DEF QueuesStay, At, Places, Batch, Out, Lost, InputOf, HandOf

(* Such a step keeps the types and the places.                              *)
LEMMA StayKeeps ==
  ASSUME QueueTypes, OnePlace, QueuesStay
  PROVE  QueueTypes' /\ OnePlace'
<1>1. QueueTypes'
  BY DEF QueueTypes, QueuesStay
<1>2. OnePlace'
  BY StayMoves DEF OnePlace, QueuesStay
<1> QED
  BY <1>1, <1>2

(* The user takes the oldest message out of the output queue (and frees it).*)
LEMMA OutputTaken ==
  ASSUME QueueTypes, OnePlace, output # <<>>, output' = Tail(output),
         UNCHANGED <<batch, input, hand, abandoned, sent>>
  PROVE  /\ QueueTypes' /\ OnePlace'
         /\ Head(output) \in Messages /\ Moves(Out, Nowhere, {Head(output).id})
<1>1. /\ Head(output) \in Messages /\ Head(output).id # 0
      /\ Tail(output) \in Seq(Messages)
  <2>1. \A m \in Messages : m.id # 0
    BY IdsPositive DEF Messages
  <2>2. Head(output) \in Messages /\ Tail(output) \in Seq(Messages)
    BY DEF QueueTypes
  <2> QED
    BY <2>1, <2>2
<1>2. NoRepeat(Tail(output)) /\ IdsOf(Tail(output)) = IdsOf(output) \ {Head(output).id}
      /\ Head(output).id \in IdsOf(output)
  BY <1>1, TailIds, MessagesArePackets DEF QueueTypes, OnePlace
<1>3. QueueTypes'
  BY <1>1 DEF QueueTypes
<1>4. Moves(Out, Nowhere, {Head(output).id})
  BY <1>2, AtPlaces, PlacesDiffer DEF Moves
<1>5. OnePlace'
  BY <1>2, <1>4, MoveKeepsOnePlace, PlacesDiffer DEF OnePlace
<1> QED
  BY <1>1, <1>3, <1>4, <1>5

(* A datagram arrives: one that is not empty has an id that is nowhere yet. *)
LEMMA DatagramArrives ==
  ASSUME QueueTypes, OnePlace, ControlTypes, ArriveMessage /\ ReceiveFrame
  PROVE  /\ QueueTypes' /\ OnePlace' /\ batch' # <<>>
         /\ sent + 1 \in Ids
         /\ \A x \in Places : sent + 1 \notin At(x)
         /\ \A x \in Places : At(x)' = IF x = Batch THEN At(x) \cup {sent + 1} ELSE At(x)
<1> USE DEF ArriveMessage, ReceiveFrame, Arrive, threadVars
<1>1. sent + 1 \in Ids /\ sent + 1 # 0
  <2>1. MaxDatagrams[client] \in Nat /\ sent + 1 \in 1..MaxDatagrams[client]
    BY CollectorAssumption DEF ControlTypes, QueueTypes
  <2> QED
    BY <2>1 DEF Ids, ControlTypes, QueueTypes
<1>2. \A x \in Places : sent + 1 \notin At(x)
  BY DEF OnePlace, QueueTypes
<1>3. PICK o \in Odids : batch' = Append(batch, [odid |-> o, id |-> sent + 1])
  OBVIOUS
<1> DEFINE m == [odid |-> o, id |-> sent + 1]
<1>4. m \in Messages /\ m \in Packet /\ m.id = sent + 1
  BY <1>1 DEF Messages, Packet
<1>5. m.id \notin IdsOf(batch)
  BY <1>2, <1>4, AtPlaces, PlacesDiffer
<1>6. batch \in Seq(Packet) /\ NoRepeat(batch)
  BY DEF QueueTypes, OnePlace, Packet
<1> HIDE DEF m
<1>7. /\ batch' \in Seq(Packet) /\ NoRepeat(batch') /\ batch' # <<>>
      /\ IdsOf(batch') = IdsOf(batch) \cup {sent + 1}
  BY <1>1, <1>3, <1>4, <1>5, <1>6, AppendIds DEF m
<1>8. QueueTypes'
  BY <1>7 DEF QueueTypes, Packet
<1>9. \A x \in Places : At(x)' = IF x = Batch THEN At(x) \cup {sent + 1} ELSE At(x)
  BY <1>7, AtPlaces, PlacesDiffer
<1>10. OnePlace'
  <2>1. \A x, y \in Places : \A i \in Ids : i \in At(x)' /\ i \in At(y)' => x = y
    BY <1>2, <1>9 DEF OnePlace
  <2>2. \A x \in Places : At(x)' \subseteq 1..sent'
    BY <1>9 DEF OnePlace, QueueTypes
  <2> QED
    BY <1>7, <2>1, <2>2 DEF OnePlace
<1> QED
  BY <1>1, <1>2, <1>7, <1>8, <1>9, <1>10

(* An empty datagram comes and goes unnoticed.                              *)
LEMMA EmptyComesAndGoes ==
  ASSUME QueueTypes, OnePlace, ReceiveFrame,
         ArriveEmpty \/ (SkipEmpty /\ batch # <<>>)
  PROVE  /\ QueueTypes' /\ OnePlace'
         /\ ArriveEmpty => batch' # <<>>
         /\ \A x \in Places : At(x)' = At(x)
<1> USE DEF ReceiveFrame, threadVars
<1>1. batch \in Seq(Packet) /\ NoRepeat(batch) /\ Empty \in Packet /\ Empty.id = 0
      /\ UNCHANGED <<output, input, hand, sent>>
      /\ abandoned' \in {abandoned, abandoned \cup {0}} /\ At(Lost)' = At(Lost)
      /\ 0 \notin IdsOf(batch)
  <2>1. abandoned' \in {abandoned, abandoned \cup {0}}
    BY EmptyAbandoned DEF ArriveEmpty, Arrive, SkipEmpty
  <2>2. At(Lost)' = At(Lost)
    BY <2>1, LostIds
  <2> QED
    BY <2>1, <2>2 DEF QueueTypes, OnePlace, Packet, Empty, IdsOf, ArriveEmpty, Arrive, SkipEmpty,
       NextDatagram
<1>2. /\ batch' \in Seq(Packet) /\ NoRepeat(batch') /\ IdsOf(batch') = IdsOf(batch)
      /\ ArriveEmpty => batch' # <<>>
  <2>1. CASE ArriveEmpty
    <3>1. batch' = Append(batch, Empty)
      BY <2>1 DEF ArriveEmpty, Arrive
    <3>2. /\ Append(batch, Empty) \in Seq(Packet) /\ NoRepeat(Append(batch, Empty))
          /\ IdsOf(Append(batch, Empty)) = IdsOf(batch) \cup ({Empty.id} \ {0})
      BY <1>1, AppendIds
    <3>3. Append(batch, Empty) # <<>>
      BY <1>1
    <3> QED
      BY <1>1, <3>1, <3>2, <3>3
  <2>2. CASE SkipEmpty /\ batch # <<>> /\ ~ArriveEmpty
    <3>1. batch' = Tail(batch) /\ Head(batch).id = 0
      BY <1>1, <2>2 DEF SkipEmpty, NextDatagram
    <3> QED
      BY <1>1, <2>2, <3>1, TailIds
  <2> QED
    BY <2>1, <2>2
<1>3. QueueTypes'
  BY <1>1, <1>2 DEF QueueTypes, Packet
<1>4. \A x \in Places : At(x)' = At(x)
  BY <1>1, <1>2, AtPlaces, PlacesDiffer
<1>5. OnePlace'
  BY <1>1, <1>2, <1>4 DEF OnePlace
<1> QED
  BY <1>2, <1>3, <1>4, <1>5

(* A call that ends early moves no datagram.                                *)
LEMMA BatchInterrupted ==
  ASSUME QueueTypes, OnePlace, RecvInterrupted /\ ReceiveFrame
  PROVE  /\ QueueTypes' /\ OnePlace' /\ UNCHANGED batch
         /\ \A x \in Places : At(x)' = At(x)
<1>1. /\ UNCHANGED <<batch, sent, input, output, hand>>
      /\ abandoned' \in {abandoned, abandoned \cup {0}}
  BY EmptyAbandoned DEF RecvInterrupted, ReceiveFrame, threadVars
<1>2. \A x \in Places : At(x)' = At(x)
  BY <1>1, LostIds, AtPlaces, PlacesDiffer
<1> QED
  BY <1>1, <1>2 DEF QueueTypes, OnePlace

(* A datagram goes to the input queue of its domain's parser, or is lost.   *)
LEMMA DatagramDispatched ==
  ASSUME QueueTypes, OnePlace, batch # <<>>, Dispatch /\ ReceiveFrame
  PROVE  /\ QueueTypes' /\ OnePlace'
         /\ Head(batch) \in Messages /\ ParserOf(Head(batch)) \in Parsers
         /\ \/ /\ Uses({In, ParserArray, Worker(ParserOf(Head(batch))), MonitoringWorker,
                        Buffer(Head(batch))})
               /\ Moves(Batch, InputOf(ParserOf(Head(batch))), {Head(batch).id})
            \/ /\ UsesAndFrees({In, ParserArray, Worker(ParserOf(Head(batch))),
                                MonitoringWorker, Buffer(Head(batch))},
                               {Buffer(Head(batch))})
               /\ Moves(Batch, Lost, {Head(batch).id})
<1> USE DEF Dispatch, ReceiveFrame, threadVars, NextDatagram
<1> DEFINE m == Head(batch)  p == ParserOf(m)
<1>1. batch \in Seq(Packet) /\ NoRepeat(batch)
  BY DEF QueueTypes, OnePlace, Packet
<1>2. /\ m \in Messages /\ m.id \in Ids /\ m.id # 0
  <2>1. m \in Packet /\ m # Empty
    BY <1>1, TailIds
  <2> QED
    BY <2>1, MessageOrEmpty
<1>3. /\ batch' = Tail(batch) /\ batch' \in Seq(Packet) /\ NoRepeat(batch')
      /\ IdsOf(batch') = IdsOf(batch) \ {m.id} /\ m.id \in IdsOf(batch)
  BY <1>1, <1>2, TailIds
<1>4. p \in Parsers
  <2>1. m.odid \in Nat
    BY <1>2, CollectorAssumption DEF Messages
  <2> HIDE DEF m, Used
  <2>2. ASSUME NEW d \in Nat, NEW n \in Nat \ {0} PROVE d % n \in 0..(n - 1)
    OBVIOUS
  <2> QED
    BY <2>1, <2>2, ParserNumbers DEF ParserOf
<1> HIDE DEF p
<1>5. UNCHANGED <<output, hand, sent>>
  OBVIOUS
<1>6. CASE HasRoom(input[p], Used.parsers_queue_size)
  <2>1. input' = [input EXCEPT ![p] = Append(@, m)] /\ UNCHANGED abandoned
    BY <1>6 DEF p
  <2>2. m.id \notin IdsOf(input[p])
    BY <1>2, <1>3, <1>4, AtPlaces, PlacesDiffer DEF OnePlace
  <2>3. input[p] \in Seq(Messages) /\ input[p] \in Seq(Packet) /\ m \in Packet
        /\ NoRepeat(input[p])
    BY <1>2, <1>4, MessagesArePackets DEF QueueTypes, OnePlace, Packet
  <2> HIDE DEF m
  <2>4. NoRepeat(Append(input[p], m)) /\ Append(input[p], m) \in Seq(Messages)
        /\ IdsOf(Append(input[p], m)) = IdsOf(input[p]) \cup {m.id}
    BY <1>2, <2>2, <2>3, AppendIds
  <2>5. /\ input'[p] = Append(input[p], m)
        /\ \A q \in Parsers : q # p => input'[q] = input[q]
        /\ input' \in [Parsers -> Seq(Messages)]
    BY <1>4, <2>1, <2>4 DEF QueueTypes
  <2>6. Moves(Batch, InputOf(p), {m.id})
    <3> SUFFICES ASSUME NEW x \in Places
                 PROVE  At(x)' = IF x = Batch THEN At(x) \ {m.id}
                                 ELSE IF x = InputOf(p) THEN At(x) \cup {m.id} ELSE At(x)
      BY <1>3, AtPlaces DEF Moves
    <3>1. CASE x = Batch
      BY <1>3, <3>1, AtPlaces
    <3>2. CASE x = InputOf(p)
      <4>1. At(x) = IdsOf(input[p]) /\ At(x)' = IdsOf(input'[p])
        BY <3>2, AtPlaces
      <4>2. IdsOf(input'[p]) = IdsOf(input[p]) \cup {m.id} /\ InputOf(p) # Batch
        BY <2>4, <2>5, PlacesDiffer
      <4> QED
        BY <3>2, <4>1, <4>2
    <3>3. CASE x = Out \/ x = Lost \/ \E q \in Parsers : x = HandOf(q)
      <4>1. UNCHANGED <<output, hand, abandoned>>
        BY <1>5, <2>1
      <4>2. At(x)' = At(x)
        BY <3>3, <4>1, AtPlaces
      <4> QED
        BY <3>3, <4>2, PlacesDiffer
    <3>4. CASE \E q \in Parsers : x = InputOf(q) /\ q # p
      BY <2>5, <3>4, AtPlaces, PlacesDiffer
    <3> QED
      BY <3>1, <3>2, <3>3, <3>4, PlacesDiffer
  <2>7. QueueTypes'
    BY <1>3, <1>5, <2>1, <2>5 DEF QueueTypes, Packet
  <2>8. \A q \in Parsers : NoRepeat(input'[q])
    BY <2>4, <2>5 DEF OnePlace
  <2>9. OnePlace'
    BY <1>3, <1>5, <2>6, <2>8, MoveKeepsOnePlace, PlacesDiffer DEF OnePlace
  <2>10. Uses({In, ParserArray, Worker(p), MonitoringWorker, Buffer(m)})
    BY <1>6 DEF p, m
  <2> QED
    BY <1>2, <1>4, <2>6, <2>7, <2>9, <2>10 DEF p, m
<1>7. CASE ~HasRoom(input[p], Used.parsers_queue_size)
  <2>1. UNCHANGED input /\ Abandon(<<m>>) /\ <<m>> \in Seq(Messages)
    BY <1>2, <1>7 DEF p
  <2>2. abandoned' = abandoned \cup {m.id}
    BY <1>2, <2>1, AbandonIds, ShortIds
  <2>3. QueueTypes'
    BY <1>2, <1>3, <1>5, <2>1, <2>2 DEF QueueTypes, Packet
  <2>4. Moves(Batch, Lost, {m.id})
    <3>1. m.id # 0
      BY <1>2, IdsPositive DEF Messages
    <3>2. At(Lost)' = At(Lost) \cup {m.id}
      BY <2>2, <3>1, AtPlaces
    <3> QED
      BY <1>2, <1>3, <1>5, <2>1, <3>2, AtPlaces, PlacesDiffer DEF Moves
  <2>5. OnePlace'
    BY <1>3, <1>5, <2>1, <2>4, MoveKeepsOnePlace, PlacesDiffer DEF OnePlace
  <2>6. UsesAndFrees({In, ParserArray, Worker(p), MonitoringWorker, Buffer(m)}, {Buffer(m)})
    BY <1>7 DEF p, m
  <2> QED
    BY <1>2, <1>4, <2>3, <2>4, <2>5, <2>6 DEF p, m
<1> QED
  BY <1>6, <1>7

(* The oldest message of an input queue, and the queue without it.          *)
LEMMA InputHead ==
  ASSUME QueueTypes, OnePlace, NEW p \in Parsers, input[p] # <<>>,
         input' = [input EXCEPT ![p] = Tail(@)]
  PROVE  /\ Head(input[p]) \in Messages /\ Head(input[p]).id \in IdsOf(input[p])
         /\ IdsOf(input'[p]) = IdsOf(input[p]) \ {Head(input[p]).id}
         /\ \A q \in Parsers : q # p => input'[q] = input[q]
         /\ \A q \in Parsers : NoRepeat(input'[q])
         /\ input' \in [Parsers -> Seq(Messages)]
<1>1. \A m \in Messages : m.id # 0
  BY IdsPositive DEF Messages
<1>2. /\ input[p] \in Seq(Messages) /\ NoRepeat(input[p])
      /\ Head(input[p]) \in Messages /\ Tail(input[p]) \in Seq(Messages)
  BY DEF QueueTypes, OnePlace
<1>3. /\ NoRepeat(Tail(input[p]))
      /\ IdsOf(Tail(input[p])) = IdsOf(input[p]) \ {Head(input[p]).id}
      /\ Head(input[p]).id \in IdsOf(input[p])
  BY <1>1, <1>2, TailIds, MessagesArePackets
<1>4. /\ input'[p] = Tail(input[p]) /\ \A q \in Parsers : q # p => input'[q] = input[q]
      /\ input' \in [Parsers -> Seq(Messages)]
  BY <1>2 DEF QueueTypes
<1> QED
  BY <1>2, <1>3, <1>4 DEF OnePlace

(* A worker takes a datagram from its queue into its hand.                  *)
LEMMA InputRead ==
  ASSUME QueueTypes, OnePlace, Emptied, NEW p \in Parsers, ReadInput(p) /\ WorkerFrame
  PROVE  /\ QueueTypes' /\ OnePlace' /\ Len(hand'[p]) = 1
         /\ Head(input[p]) \in Messages
         /\ Moves(InputOf(p), HandOf(p), {Head(input[p]).id})
<1> USE DEF ReadInput, WorkerFrame, listenerVars
<1> DEFINE m == Head(input[p])
<1>1. /\ m \in Messages /\ m.id \in IdsOf(input[p])
      /\ IdsOf(input'[p]) = IdsOf(input[p]) \ {m.id}
      /\ \A q \in Parsers : q # p => input'[q] = input[q]
      /\ \A q \in Parsers : NoRepeat(input'[q])
      /\ input' \in [Parsers -> Seq(Messages)]
  BY InputHead
<1>2. UNCHANGED <<batch, output, abandoned, sent>>
  OBVIOUS
<1>3. hand[p] = <<>> /\ IdsOf(hand[p]) = {}
  BY ShortIds DEF Emptied, QueueTypes
<1>4. /\ hand'[p] = <<m>> /\ \A q \in Parsers : q # p => hand'[q] = hand[q]
      /\ hand' \in [Parsers -> Seq(Messages)]
  BY <1>1 DEF QueueTypes
<1> HIDE DEF m
<1>5. IdsOf(hand'[p]) = {m.id} /\ Len(hand'[p]) = 1
  BY <1>1, <1>4, ShortIds
<1>6. Moves(InputOf(p), HandOf(p), {m.id})
  <2> SUFFICES ASSUME NEW x \in Places
               PROVE  At(x)' = IF x = InputOf(p) THEN At(x) \ {m.id}
                               ELSE IF x = HandOf(p) THEN At(x) \cup {m.id} ELSE At(x)
    BY <1>1, AtPlaces DEF Moves
  <2>1. CASE x = InputOf(p)
    BY <1>1, <2>1, AtPlaces
  <2>2. CASE x = HandOf(p)
    BY <1>3, <1>5, <2>2, AtPlaces, PlacesDiffer
  <2>3. CASE x \in {Batch, Out, Lost}
    BY <1>2, <2>3, AtPlaces, PlacesDiffer
  <2>4. CASE \E q \in Parsers : (x = InputOf(q) \/ x = HandOf(q)) /\ q # p
    BY <1>1, <1>4, <2>4, AtPlaces, PlacesDiffer
  <2> QED
    BY <2>1, <2>2, <2>3, <2>4, PlacesDiffer
<1>7. QueueTypes'
  BY <1>1, <1>2, <1>4 DEF QueueTypes
<1>8. OnePlace'
  BY <1>1, <1>2, <1>6, MoveKeepsOnePlace, PlacesDiffer DEF OnePlace
<1> QED
  BY <1>1, <1>5, <1>6, <1>7, <1>8 DEF m

(* A worker that cannot allocate loses the datagram it has read.            *)
LEMMA InputLost ==
  ASSUME QueueTypes, OnePlace, NEW p \in Parsers, ParseFails(p) /\ WorkerFrame
  PROVE  /\ QueueTypes' /\ OnePlace'
         /\ Head(input[p]) \in Messages
         /\ Moves(InputOf(p), Lost, {Head(input[p]).id})
<1> USE DEF ParseFails, WorkerFrame, listenerVars
<1> DEFINE m == Head(input[p])
<1>1. /\ m \in Messages /\ m.id \in IdsOf(input[p])
      /\ IdsOf(input'[p]) = IdsOf(input[p]) \ {m.id}
      /\ \A q \in Parsers : q # p => input'[q] = input[q]
      /\ \A q \in Parsers : NoRepeat(input'[q])
      /\ input' \in [Parsers -> Seq(Messages)]
  BY InputHead
<1>2. UNCHANGED <<batch, output, hand, sent>> /\ Abandon(<<m>>)
  OBVIOUS
<1> HIDE DEF m
<1>3. abandoned' = abandoned \cup {m.id} /\ m.id \in Ids /\ m.id # 0
  <2>1. <<m>> \in Seq(Messages) /\ m.id \in Ids
    BY <1>1 DEF Messages
  <2> QED
    BY <1>1, <1>2, <2>1, AbandonIds, ShortIds, IdsPositive
<1>4. Moves(InputOf(p), Lost, {m.id})
  <2> SUFFICES ASSUME NEW x \in Places
               PROVE  At(x)' = IF x = InputOf(p) THEN At(x) \ {m.id}
                               ELSE IF x = Lost THEN At(x) \cup {m.id} ELSE At(x)
    BY <1>1, AtPlaces DEF Moves
  <2>1. CASE x = InputOf(p)
    BY <1>1, <2>1, AtPlaces
  <2>2. CASE x \in {Batch, Out, Lost}
    BY <1>2, <1>3, <2>2, AtPlaces, PlacesDiffer
  <2>3. CASE \E q \in Parsers : (x = InputOf(q) /\ q # p) \/ x = HandOf(q)
    BY <1>1, <1>2, <2>3, AtPlaces, PlacesDiffer
  <2> QED
    BY <2>1, <2>2, <2>3, PlacesDiffer
<1>5. QueueTypes'
  BY <1>1, <1>2, <1>3 DEF QueueTypes
<1>6. OnePlace'
  BY <1>1, <1>2, <1>4, MoveKeepsOnePlace, PlacesDiffer DEF OnePlace
<1> QED
  BY <1>1, <1>4, <1>5, <1>6 DEF m

(* The listener frees the input queue of a worker it has joined: what was   *)
(* in it is lost.                                                           *)
LEMMA InputFreed ==
  ASSUME QueueTypes, OnePlace, ControlTypes, free_parsers /\ StopFrame
  PROVE  /\ QueueTypes' /\ OnePlace'
         /\ input' = [input EXCEPT ![next] = <<>>]
         /\ Moves(InputOf(next), Lost, IdsOf(input[next]))
<1> USE DEF free_parsers, StopFrame, threadVars
<1>1. next \in Parsers /\ input[next] \in Seq(Messages)
  BY DEF ControlTypes, QueueTypes
<1>2. UNCHANGED <<batch, output, hand, sent>> /\ Abandon(input[next])
      /\ input' = [input EXCEPT ![next] = <<>>]
  OBVIOUS
<1>3. abandoned' = abandoned \cup IdsOf(input[next])
  BY <1>1, <1>2, AbandonIds
<1>4. IdsOf(input[next]) \subseteq Ids /\ 0 \notin IdsOf(input[next])
  BY <1>1, MessageIds, IdsPositive
<1>5. /\ input'[next] = <<>> /\ \A q \in Parsers : q # next => input'[q] = input[q]
      /\ input' \in [Parsers -> Seq(Messages)]
  BY <1>1, <1>2 DEF QueueTypes
<1>6. Moves(InputOf(next), Lost, IdsOf(input[next]))
  <2> SUFFICES ASSUME NEW x \in Places
               PROVE  At(x)' = IF x = InputOf(next) THEN At(x) \ IdsOf(input[next])
                               ELSE IF x = Lost THEN At(x) \cup IdsOf(input[next]) ELSE At(x)
    BY AtPlaces DEF Moves
  <2>1. CASE x = InputOf(next)
    BY <1>5, <2>1, AtPlaces, ShortIds
  <2>2. CASE x \in {Batch, Out, Lost}
    BY <1>2, <1>3, <1>4, <2>2, AtPlaces, PlacesDiffer
  <2>3. CASE \E q \in Parsers : (x = InputOf(q) /\ q # next) \/ x = HandOf(q)
    BY <1>2, <1>5, <2>3, AtPlaces, PlacesDiffer
  <2> QED
    BY <2>1, <2>2, <2>3, PlacesDiffer
<1>7. QueueTypes'
  BY <1>2, <1>3, <1>4, <1>5 DEF QueueTypes
<1>8. \A q \in Parsers : NoRepeat(input'[q])
  BY <1>5, ShortIds DEF OnePlace
<1>9. OnePlace'
  BY <1>1, <1>2, <1>6, <1>8, MoveKeepsOnePlace, PlacesDiffer DEF OnePlace
<1> QED
  BY <1>2, <1>6, <1>7, <1>9

(* A worker lays down what it holds: on the output queue, nowhere, or lost. *)
LEMMA HandLaidDown ==
  ASSUME QueueTypes, OnePlace, Emptied, NEW p \in Parsers,
         hand' = [hand EXCEPT ![p] = <<>>], UNCHANGED <<batch, input, sent>>,
         NEW to \in {Out, Lost, Nowhere},
         IdsOf(output') = IF to = Out THEN IdsOf(output) \cup IdsOf(hand[p]) ELSE IdsOf(output),
         output' \in Seq(Messages), NoRepeat(output'),
         abandoned' = IF to = Lost THEN abandoned \cup IdsOf(hand[p]) ELSE abandoned
  PROVE  QueueTypes' /\ OnePlace' /\ hand'[p] = <<>> /\ Moves(HandOf(p), to, IdsOf(hand[p]))
<1>1. /\ hand'[p] = <<>> /\ \A q \in Parsers : q # p => hand'[q] = hand[q]
      /\ hand' \in [Parsers -> Seq(Messages)] /\ hand[p] \in Seq(Messages)
  BY DEF QueueTypes
<1>2. IdsOf(hand[p]) \subseteq Ids /\ 0 \notin IdsOf(hand[p])
  BY <1>1, MessageIds, IdsPositive
<1>3. Moves(HandOf(p), to, IdsOf(hand[p]))
  <2> SUFFICES ASSUME NEW x \in Places
               PROVE  At(x)' = IF x = HandOf(p) THEN At(x) \ IdsOf(hand[p])
                               ELSE IF x = to THEN At(x) \cup IdsOf(hand[p]) ELSE At(x)
    BY AtPlaces DEF Moves
  <2>1. CASE x = HandOf(p)
    BY <1>1, <2>1, AtPlaces, ShortIds
  <2>2. CASE x \in {Batch, Out, Lost}
    BY <1>2, <2>2, AtPlaces, PlacesDiffer
  <2>3. CASE \E q \in Parsers : x = InputOf(q) \/ (x = HandOf(q) /\ q # p)
    BY <1>1, <2>3, AtPlaces, PlacesDiffer
  <2> QED
    BY <2>1, <2>2, <2>3, PlacesDiffer
<1>4. QueueTypes'
  BY <1>1, <1>2 DEF QueueTypes
<1>5. OnePlace'
  BY <1>3, MoveKeepsOnePlace, PlacesDiffer DEF OnePlace
<1> QED
  BY <1>1, <1>3, <1>4, <1>5

(* A parsed message goes to the output queue, or is dropped when it is      *)
(* full.                                                                    *)
LEMMA MessageWritten ==
  ASSUME QueueTypes, OnePlace, Emptied, NEW p \in Parsers, WriteOutput(p) /\ WorkerFrame
  PROVE  /\ QueueTypes' /\ OnePlace' /\ hand'[p] = <<>>
         /\ Head(hand[p]) \in Messages
         /\ \E more \in SUBSET {Payload(Head(hand[p]))} :
              \/ /\ Moves(HandOf(p), Out, {Head(hand[p]).id})
                 /\ live' = live \cup more
              \/ /\ Moves(HandOf(p), Nowhere, {Head(hand[p]).id})
                 /\ live' = (live \ {Source(Head(hand[p]))}) \cup more
<1> USE DEF WriteOutput, WorkerFrame, listenerVars
<1> DEFINE m == Head(hand[p])
<1>1. m \in Messages /\ IdsOf(hand[p]) = {m.id} /\ m.id \in Ids /\ m.id # 0
  <2>1. Len(hand[p]) = 1 /\ hand[p] \in Seq(Messages)
    BY DEF Emptied, QueueTypes
  <2>2. m \in Messages /\ IdsOf(hand[p]) = {m.id}
    BY <2>1, ShortIds
  <2> QED
    BY <2>2, IdsPositive DEF Messages
<1>2. UNCHANGED <<batch, input, sent, abandoned>> /\ hand' = [hand EXCEPT ![p] = <<>>]
  OBVIOUS
<1>3. output \in Seq(Messages) /\ output \in Seq(Packet) /\ NoRepeat(output)
  BY MessagesArePackets DEF QueueTypes, OnePlace
<1>4. Out # Lost /\ Nowhere # Out /\ Nowhere # Lost
  BY PlacesDiffer
<1>5. CASE HasRoom(output, Used.output_queue_size)
  <2>1. output' = Append(output, m) /\ \E more \in SUBSET {Payload(m)} : live' = live \cup more
    BY <1>5
  <2>2. m.id \notin IdsOf(output)
    BY <1>1, AtPlaces, PlacesDiffer DEF OnePlace
  <2> HIDE DEF m
  <2>3. output' \in Seq(Messages) /\ NoRepeat(output')
        /\ IdsOf(output') = IdsOf(output) \cup {m.id}
    <3>1. m \in Packet
      BY <1>1 DEF Packet
    <3> QED
      BY <1>1, <1>3, <2>1, <2>2, <3>1, AppendIds
  <2>4. QueueTypes' /\ OnePlace' /\ hand'[p] = <<>> /\ Moves(HandOf(p), Out, {m.id})
    BY <1>1, <1>2, <1>4, <2>3, HandLaidDown
  <2> QED
    BY <1>1, <2>1, <2>4 DEF m
<1>6. CASE ~HasRoom(output, Used.output_queue_size)
  <2>1. output' = output
        /\ \E more \in SUBSET {Payload(m)} : live' = (live \ {Source(m)}) \cup more
    BY <1>6
  <2>2. QueueTypes' /\ OnePlace' /\ hand'[p] = <<>> /\ Moves(HandOf(p), Nowhere, {m.id})
    BY <1>1, <1>2, <1>3, <1>4, <2>1, HandLaidDown
  <2> QED
    BY <1>1, <2>1, <2>2
<1> QED
  BY <1>5, <1>6

(* Any other segment leaves the collector's queues.                         *)
LEMMA MessageAbsorbed ==
  ASSUME QueueTypes, OnePlace, Emptied, NEW p \in Parsers,
         (Absorb(p) \/ AbsorbFails(p)) /\ WorkerFrame
  PROVE  /\ QueueTypes' /\ OnePlace' /\ hand'[p] = <<>>
         /\ Head(hand[p]) \in Messages
         /\ Moves(HandOf(p), Nowhere, {Head(hand[p]).id})
<1> USE DEF Absorb, AbsorbFails, WorkerFrame, listenerVars
<1>1. Len(hand[p]) = 1 /\ hand[p] \in Seq(Messages)
  BY DEF Emptied, QueueTypes
<1>2. Head(hand[p]) \in Messages /\ IdsOf(hand[p]) = {Head(hand[p]).id}
  BY <1>1, ShortIds
<1>3. UNCHANGED <<batch, input, sent, abandoned, output>> /\ hand' = [hand EXCEPT ![p] = <<>>]
      /\ output \in Seq(Messages) /\ NoRepeat(output)
  BY DEF QueueTypes, OnePlace
<1> QED
  BY <1>2, <1>3, HandLaidDown, PlacesDiffer

(* A cancelled worker loses what it holds.                                  *)
LEMMA HandLost ==
  ASSUME QueueTypes, OnePlace, Emptied, NEW p \in Parsers, CancelWorker(p) /\ WorkerFrame
  PROVE  /\ QueueTypes' /\ OnePlace' /\ hand'[p] = <<>>
         /\ Moves(HandOf(p), Lost, IdsOf(hand[p]))
<1> USE DEF CancelWorker, WorkerFrame, listenerVars
<1>1. hand[p] \in Seq(Messages) /\ output \in Seq(Messages) /\ NoRepeat(output)
  BY DEF QueueTypes, OnePlace
<1>2. abandoned' = abandoned \cup IdsOf(hand[p])
  BY <1>1, AbandonIds
<1>3. UNCHANGED <<batch, input, sent, output>> /\ hand' = [hand EXCEPT ![p] = <<>>]
  OBVIOUS
<1> QED
  BY <1>1, <1>2, <1>3, HandLaidDown, PlacesDiffer

-----------------------------------------------------------------------------
(* Every step keeps the queues in order, one case per group of actions.     *)

(* The user.                                                                *)
LEMMA UserKeepsQueues ==
  ASSUME Control, Queues, UserStep \/ UserChoice \/ ReaderStep
  PROVE  Queues'
<1> USE DEF UserStep, UserChoice, ReaderStep, UserFrame, threadVars, Queues
<1>0. /\ UNCHANGED <<next, batch, sent, input, worker, hand, abandoned>>
      /\ listener' = listener \/ (listener = "none" /\ listener' = "create")
  BY DEF unyte_udp_start_collector, unyte_udp_create_listener, SampleRead, SummaryRead,
     JoinReader, JoinListener, DrainOutput, unyte_udp_free_collector, CallRead, CloseSocket,
     t_read_test, t_read, ReadMessage, Control, Phases
<1>1. /\ listener' \notin {"recv", "dispatch"} => batch' = <<>>
      /\ listener' = "dispatch" => batch' # <<>>
      /\ \A p \in Parsers : Gone(p)' => input'[p] = <<>>
      /\ \A p \in Parsers : Len(hand'[p]) = IF worker'[p] = "parsed" THEN 1 ELSE 0
  BY <1>0 DEF Emptied, Gone, Joining, Joined
<1>2. CASE SampleRead \/ t_read \/ DrainOutput
  <2>1. output # <<>> /\ output' = Tail(output) /\ user' \notin {"start", "done"}
    BY <1>2 DEF SampleRead, t_read, DrainOutput, ReadMessage, Emptied
  <2> QED
    BY <1>0, <1>1, <2>1, OutputTaken DEF Emptied
<1>3. CASE ~(SampleRead \/ t_read \/ DrainOutput)
  <2>1. QueuesStay
    BY <1>0, <1>3 DEF QueuesStay, unyte_udp_start_collector, unyte_udp_create_listener,
       SummaryRead, JoinReader, JoinListener, unyte_udp_free_collector, CallRead,
       CloseSocket, t_read_test
  <2>2. user' \in {"start", "done"} => output' = <<>>
    BY <1>3 DEF Emptied, unyte_udp_start_collector, unyte_udp_create_listener,
       SummaryRead, JoinReader, JoinListener, unyte_udp_free_collector, CallRead,
       CloseSocket, t_read_test
  <2> QED
    BY <1>1, <2>1, <2>2, StayKeeps DEF Emptied
<1> QED
  BY <1>2, <1>3

(* The listener while it creates the threads.                               *)
LEMMA CreationKeepsQueues ==
  ASSUME Control, Queues, ~broken',
         (create_monitoring_thread \/ create_parse_worker \/ CreationFails) /\ CreateFrame
  PROVE  Queues'
<1> USE DEF CreateFrame, userVars, Queues
<1>1. QueuesStay
  BY DEF QueuesStay
<1>2. /\ listener \in {"create", "create_parser"} /\ listener' \in {"create_parser", "refill"}
      /\ user' = user
      /\ \A p \in Parsers : worker'[p] = worker[p]
                              \/ (worker[p] = "none" /\ worker'[p] = "reading")
  <2>1. CASE create_monitoring_thread
    BY <2>1 DEF create_monitoring_thread
  <2>2. CASE create_parse_worker
    <3>1. next \in Nat /\ next \in Parsers /\ worker[next] = "none"
      BY <2>2, ParserNumbers DEF create_parse_worker, Control, ControlTypes, ThreadPlaces,
         NotYet
    <3> QED
      BY <2>2, <3>1 DEF create_parse_worker, Control, ControlTypes
  <2> QED
    BY <2>1, <2>2 DEF CreationFails
<1>3. \A p \in Parsers : ~Gone(p)'
  BY <1>2 DEF Gone, Joining, Joined
<1>4. Emptied'
  BY <1>1, <1>2, <1>3 DEF Emptied, QueuesStay
<1> QED
  BY <1>1, <1>4, StayKeeps

(* The listener while it receives and dispatches.                           *)
LEMMA ReceptionKeepsQueues ==
  ASSUME Control, Queues, ~broken', ReceiveFrame,
         \/ recvmmsg \/ SkipEmpty \/ Dispatch \/ RecvInterrupted \/ DispatchFails
         \/ ArriveMessage \/ ArriveEmpty
  PROVE  Queues'
<1>a. ArriveMessage \/ ArriveEmpty => QueueTypes' /\ OnePlace' /\ batch' # <<>>
  BY DatagramArrives, EmptyComesAndGoes DEF Control, Queues
<1>b. (SkipEmpty \/ Dispatch) /\ batch # <<>> => QueueTypes' /\ OnePlace'
  BY DatagramDispatched, EmptyComesAndGoes DEF Queues
<1> USE DEF ReceiveFrame, userVars, threadVars, Queues
<1>1. /\ UNCHANGED <<user, output, hand, worker>>
      /\ \A p \in Parsers : ~Gone(p)'
  <2>1. listener' \in Running \cup {"stop"}
    BY DEF Running, recvmmsg, SkipEmpty, Dispatch, NextDatagram, RecvInterrupted,
       DispatchFails, ArriveMessage, ArriveEmpty, Arrive
  <2> QED
    BY <2>1 DEF Gone, Running, Joining, Joined
<1>2. Emptied' <=> /\ listener' \notin {"recv", "dispatch"} => batch' = <<>>
                   /\ listener' = "dispatch" => batch' # <<>>
  BY <1>1 DEF Emptied
<1>3. CASE recvmmsg \/ DispatchFails
  <2>1. QueuesStay /\ ~DispatchFails
    BY <1>3 DEF recvmmsg, DispatchFails, QueuesStay
  <2>2. Emptied'
    BY <1>2, <1>3, <2>1 DEF recvmmsg, Emptied, QueuesStay
  <2> QED
    BY <2>1, <2>2, StayKeeps
<1>6. CASE RecvInterrupted
  <2>1. QueueTypes' /\ OnePlace' /\ UNCHANGED batch
    BY <1>6, BatchInterrupted
  <2>2. Emptied'
    BY <1>2, <1>6, <2>1 DEF RecvInterrupted, Emptied
  <2> QED
    BY <2>1, <2>2
<1>4. CASE ArriveMessage \/ ArriveEmpty
  <2>1. listener' \in {"recv", "dispatch"}
    BY <1>4 DEF ArriveMessage, ArriveEmpty, Arrive
  <2>2. QueueTypes' /\ OnePlace' /\ batch' # <<>>
    BY <1>4, <1>a
  <2> QED
    BY <1>2, <2>1, <2>2
<1>5. CASE SkipEmpty \/ Dispatch
  <2>1. /\ batch # <<>> /\ batch' = Tail(batch)
        /\ listener' = IF Len(batch) = 1 THEN "refill" ELSE "dispatch"
    BY <1>5 DEF SkipEmpty, Dispatch, NextDatagram, Emptied
  <2>2. batch \in Seq(Packet)
    BY DEF QueueTypes, Packet
  <2>3. Len(batch) = 1 <=> Tail(batch) = <<>>
    <3>1. /\ Len(batch) \in Nat /\ Len(Tail(batch)) = Len(batch) - 1
          /\ Tail(batch) \in Seq(Packet)
      <4>1. \A q \in Seq(Packet) : Len(q) \in Nat
        OBVIOUS
      <4>2. NoRepeat(batch)
        BY DEF OnePlace
      <4> QED
        BY <2>1, <2>2, <4>1, <4>2, TailIds
    <3>2. \A q \in Seq(Packet) : Len(q) = 0 <=> q = <<>>
      OBVIOUS
    <3>3. Len(Tail(batch)) = 0 <=> Tail(batch) = <<>>
      BY <3>1, <3>2, Zenon
    <3>4. ASSUME NEW n \in Nat, NEW k, k = n - 1 PROVE n = 1 <=> k = 0
      BY <3>4
    <3> QED
      BY <3>1, <3>3, <3>4, Zenon
  <2>4. QueueTypes' /\ OnePlace'
    BY <1>5, <2>1, <1>b
  <2> QED
    BY <1>2, <2>1, <2>3, <2>4
<1> QED
  BY <1>3, <1>4, <1>5, <1>6

(* The listener while it shuts down.                                        *)
LEMMA StopKeepsQueues ==
  ASSUME Control, Queues, StopFrame,
         \/ stop_parsers_and_monitoring \/ free_parsers_cleanup \/ free_parsers
         \/ free_monitoring_worker \/ t_listener_exit
  PROVE  Queues'
<1> USE DEF StopFrame, userVars, threadVars, Queues
<1>1. /\ UNCHANGED <<user, output, hand, worker, batch, sent>>
      /\ listener \notin {"recv", "dispatch"} /\ listener' \notin {"recv", "dispatch"}
  BY DEF stop_parsers_and_monitoring, free_parsers_cleanup, free_parsers,
     free_monitoring_worker, t_listener_exit
<1>2. CASE free_parsers
  <2>1. \A p \in Parsers : Gone(p)' => Gone(p) \/ p = next
    BY <1>2, ParserNumbers DEF free_parsers, Gone, Joining, Joined, Control, ControlTypes
  <2>2. /\ input' = [input EXCEPT ![next] = <<>>]
        /\ QueueTypes' /\ OnePlace'
    BY <1>2, InputFreed DEF Control
  <2>3. \A p \in Parsers : Gone(p)' => input'[p] = <<>>
    BY <2>1, <2>2 DEF Emptied, QueueTypes, Control, ControlTypes
  <2> QED
    BY <1>1, <2>2, <2>3 DEF Emptied
<1>3. CASE ~free_parsers
  <2>1. QueuesStay
    BY <1>1, <1>3 DEF QueuesStay, stop_parsers_and_monitoring, free_parsers_cleanup,
       free_monitoring_worker, t_listener_exit
  <2>2. \A p \in Parsers : Gone(p)' => Gone(p)
    <3>1. CASE stop_parsers_and_monitoring
      <4>1. next' = 0 /\ listener' = "join_cleanup"
        BY <3>1 DEF stop_parsers_and_monitoring, Control, Phases, Joining
      <4> QED
        BY <4>1, ParserNumbers DEF Gone, Joined
    <3>2. CASE ~stop_parsers_and_monitoring
      BY <1>3, <3>2 DEF free_parsers_cleanup, free_monitoring_worker, t_listener_exit, Gone,
         Joining, Joined
    <3> QED
      BY <3>1, <3>2
  <2> QED
    BY <1>1, <2>1, <2>2, StayKeeps DEF Emptied, QueuesStay
<1> QED
  BY <1>2, <1>3

(* A thread that runs has not been joined, and the collector is there.      *)
LEMMA RunningThread ==
  ASSUME Control, NEW p \in Parsers,
         worker[p] \in {"reading", "parsed"} \/ cleaner[p] \in {"test", "sleep"}
  PROVE  /\ ~Gone(p) /\ ~NotYet(p) /\ Exists(p)
         /\ user \notin {"start", "done"}
         /\ listener \notin {"none", "create"} \cup Joined
<1>1. ~Gone(p) /\ ~NotYet(p)
  BY DEF Control, ThreadPlaces
<1>2. listener \notin {"none", "create"} \cup Joined /\ Exists(p)
  BY <1>1, ParserNumbers DEF Gone, NotYet, Exists, Control, ControlTypes, Joining, Joined,
     Running
<1>3. user \notin {"start", "done"}
  BY <1>2 DEF Control, Phases, Joined
<1> QED
  BY <1>1, <1>2, <1>3

(* The workers.                                                             *)
LEMMA WorkerKeepsQueues ==
  ASSUME Control, Queues, NEW p \in Parsers, WorkerStep(p) \/ WorkerChoice(p)
  PROVE  Queues'
<1>a. /\ (ReadInput(p) /\ WorkerFrame) => QueueTypes' /\ OnePlace' /\ Len(hand'[p]) = 1
      /\ ((WriteOutput(p) \/ CancelWorker(p) \/ Absorb(p) \/ AbsorbFails(p)) /\ WorkerFrame)
           => QueueTypes' /\ OnePlace' /\ hand'[p] = <<>>
      /\ (ParseFails(p) /\ WorkerFrame) => QueueTypes' /\ OnePlace'
  BY InputRead, MessageWritten, HandLost, MessageAbsorbed, InputLost DEF Queues
<1> USE DEF WorkerStep, WorkerChoice, WorkerFrame, userVars, listenerVars, Queues
<1>1. /\ UNCHANGED <<listener, next, user, batch>>
      /\ worker[p] \in {"reading", "parsed"}
      /\ \A q \in Parsers : Gone(q)' <=> Gone(q)
  BY DEF ReadInput, WriteOutput, CancelWorker, ParseFails, Absorb, AbsorbFails, WalkHeadless,
     Gone
<1>2. user \notin {"start", "done"} /\ ~Gone(p)
  BY <1>1, RunningThread
<1>3. /\ QueueTypes' /\ OnePlace'
      /\ Len(hand'[p]) = IF worker'[p] = "parsed" THEN 1 ELSE 0
  <2>1. CASE ReadInput(p)
    BY <2>1, <1>a DEF ReadInput, Control, ControlTypes
  <2>2. CASE WriteOutput(p)
    BY <2>2, <1>a DEF WriteOutput, Control, ControlTypes
  <2>3. CASE CancelWorker(p)
    BY <2>3, <1>a DEF CancelWorker, Control, ControlTypes
  <2>4. CASE ParseFails(p)
    BY <2>4, <1>a DEF ParseFails, Control, ControlTypes, Emptied
  <2>5. CASE Absorb(p) \/ AbsorbFails(p)
    <3>1. worker'[p] # "parsed"
      BY <2>5 DEF Absorb, AbsorbFails, Control, ControlTypes
    <3> QED
      BY <2>5, <3>1, <1>a
  <2>6. CASE WalkHeadless(p)
    <3>1. QueuesStay /\ worker' = worker
      BY <2>6 DEF WalkHeadless, QueuesStay
    <3> QED
      BY <3>1, StayKeeps DEF QueuesStay, Emptied
  <2> QED
    BY <2>1, <2>2, <2>3, <2>4, <2>5, <2>6
<1>4. \A q \in Parsers : q # p =>
        input'[q] = input[q] /\ hand'[q] = hand[q] /\ worker'[q] = worker[q]
  BY DEF ReadInput, WriteOutput, CancelWorker, ParseFails, Absorb, AbsorbFails, WalkHeadless,
     Control, ControlTypes, QueueTypes
<1>5. Emptied'
  BY <1>1, <1>2, <1>3, <1>4 DEF Emptied
<1> QED
  BY <1>3, <1>5

(* The other threads touch no queue of datagrams.                           *)
LEMMA TimersKeepQueues ==
  ASSUME Queues, (\E p \in Parsers : CleanerStep(p)) \/ MonitorStep
  PROVE  Queues' /\ QueuesStay
<1>1. QueuesStay /\ UNCHANGED <<user, listener, next, worker>>
  BY DEF CleanerStep, MonitorStep, TimerFrame, userVars, listenerVars, QueuesStay
<1>2. Emptied'
  BY <1>1 DEF Queues, Emptied, Gone, QueuesStay
<1> QED
  BY <1>1, <1>2, StayKeeps DEF Queues

(* Every step.                                                              *)
LEMMA QueuesKept ==
  ASSUME Control, Queues, [Next]_vars, ~broken'
  PROVE  Queues'
<1>1. CASE UNCHANGED vars
  <2>1. QueuesStay /\ UNCHANGED <<user, listener, next, worker>>
    BY <1>1 DEF vars, userVars, listenerVars, threadVars, QueuesStay
  <2>2. Emptied'
    BY <2>1 DEF Queues, Emptied, Gone, QueuesStay
  <2> QED
    BY <2>1, <2>2, StayKeeps DEF Queues
<1> QED
  BY <1>1, UserKeepsQueues, CreationKeepsQueues, ReceptionKeepsQueues, StopKeepsQueues,
     WorkerKeepsQueues, TimersKeepQueues DEF Next, ListenerStep, ListenerFails, Datagram

-----------------------------------------------------------------------------
(* The memory.                                                              *)

(* Objects of different kinds are different.                                *)
LEMMA ObjectNames ==
  /\ Struct[1] = "unyte_udp_collector_t" /\ Output[1] = "output_queue"
  /\ MonitoringQueue[1] = "monitoring_queue" /\ Conn[1] = "conn"
  /\ In[1] = "listener_thread_input" /\ ParserArray[1] = "parsers"
  /\ MonitoringWorker[1] = "monitoring_worker"
  /\ \A p : Worker(p)[1] = "parse_worker" /\ Worker(p)[2] = p
  /\ \A p : CleanupIn(p)[1] = "cleanup_thread_input" /\ CleanupIn(p)[2] = p
  /\ \A i : BufferOf(i)[1] = "buffer" /\ BufferOf(i)[2] = i
  /\ \A i : SourceOf(i)[1] = "sockaddr_storage" /\ SourceOf(i)[2] = i
  /\ \A i : PayloadOf(i)[1] = "payload" /\ PayloadOf(i)[2] = i
BY DEF Struct, Output, MonitoringQueue, Conn, In, ParserArray, MonitoringWorker, Worker,
   CleanupIn, BufferOf, SourceOf, PayloadOf

(* The memory of a datagram is named by its id.                             *)
LEMMA PacketMemory ==
  \A m : /\ Buffer(m) = BufferOf(m.id) /\ Source(m) = SourceOf(m.id)
         /\ Payload(m) = PayloadOf(m.id)
BY DEF Buffer, Source, Payload, BufferOf, SourceOf, PayloadOf

(* It is never one of the other objects.                                    *)
LEMMA PacketsNotFixed ==
  \A i : /\ BufferOf(i) \notin FixedObjects /\ SourceOf(i) \notin FixedObjects
         /\ \A j : BufferOf(i) # SourceOf(j)
         /\ \A j : (BufferOf(i) = BufferOf(j) \/ SourceOf(i) = SourceOf(j)) => i = j
<1> HIDE DEF Struct, Output, MonitoringQueue, Conn, In, ParserArray, MonitoringWorker,
             Worker, CleanupIn, BufferOf, SourceOf, Parsers
<1>1. \A o \in FixedObjects : o[1] \notin {"buffer", "sockaddr_storage"}
  BY ObjectNames DEF FixedObjects
<1> QED
  BY <1>1, ObjectNames

(* The scraps are none of these.                                            *)
LEMMA ScrapsApart ==
  /\ ScrapObjects \cap FixedObjects = {}
  /\ \A i \in Ids : SourceOf(i) \notin ScrapObjects /\ BufferOf(i) \notin ScrapObjects
  /\ \A i, j : /\ PayloadOf(i) # SourceOf(j) /\ PayloadOf(i) # BufferOf(j)
               /\ PayloadOf(i) = PayloadOf(j) => i = j
<1> HIDE DEF Struct, Output, MonitoringQueue, Conn, In, ParserArray, MonitoringWorker,
             Worker, CleanupIn, BufferOf, SourceOf, PayloadOf, Parsers, Ids
<1>1. \A o \in FixedObjects : o[1] \notin {"buffer", "sockaddr_storage", "payload"}
  BY ObjectNames DEF FixedObjects
<1>2. \A i \in Ids : i # 0
  BY IdsPositive
<1> QED
  BY <1>1, <1>2, ObjectNames DEF ScrapObjects

(* Only memory of datagrams comes or goes, no thread changes its place.     *)
LEMMA ObjectsStay ==
  ASSUME Objects, UNCHANGED <<listener, next, cleaner>>,
         user' \in {"start", "done"} <=> user \in {"start", "done"},
         \A o \in FixedObjects : o \in live' <=> o \in live
  PROVE  Objects'
<1> USE DEF Objects, Exists
<1> HIDE DEF Parsers
<1>1. /\ {Struct, Output, MonitoringQueue, Conn, In, ParserArray, MonitoringWorker}
           \subseteq FixedObjects
      /\ \A p \in Parsers : Worker(p) \in FixedObjects /\ CleanupIn(p) \in FixedObjects
  BY DEF FixedObjects
<1> QED
  BY <1>1

(* Only other objects come or go, no datagram moves.                        *)
LEMMA PacketsStay ==
  ASSUME Packets, \A x \in Places : At(x)' = At(x),
         \A i \in Ids : /\ SourceOf(i) \in live' <=> SourceOf(i) \in live
                        /\ BufferOf(i) \in live' <=> BufferOf(i) \in live,
         \A o \in live' : o \in live \/ o \in FixedObjects \cup ScrapObjects
  PROVE  Packets'
<1>1. Unparsed \subseteq Places /\ MayBeUnparsed \subseteq Places
  BY DEF Unparsed, MayBeUnparsed, Places
<1> HIDE DEF At, Places, Unparsed, MayBeUnparsed, SourceOf, BufferOf, FixedObjects, ScrapObjects, Ids
<1>2. \A i \in Ids : SourceOf(i) \in live' <=> \E x \in Places : i \in At(x)'
  BY DEF Packets
<1>3. \A i \in Ids : (\E x \in Unparsed : i \in At(x)') => BufferOf(i) \in live'
  BY <1>1 DEF Packets
<1>4. \A i \in Ids : BufferOf(i) \in live' => \E x \in MayBeUnparsed : i \in At(x)'
  BY <1>1 DEF Packets
<1>5. \A o \in live' : \/ o \in FixedObjects \cup ScrapObjects
                       \/ \E i \in Ids : o = SourceOf(i) \/ o = BufferOf(i)
  BY DEF Packets
<1> QED
  BY <1>2, <1>3, <1>4, <1>5 DEF Packets, Unparsed, MayBeUnparsed, Places, FixedObjects,
     ScrapObjects, SourceOf, BufferOf, Ids

(* Datagrams that were parsed have no buffer any more.                      *)
LEMMA ParsedHasNoBuffer ==
  ASSUME Packets, OnePlace, NEW x \in Places, x \notin MayBeUnparsed, NEW i \in Ids, i \in At(x)
  PROVE  BufferOf(i) \notin live
<1>1. MayBeUnparsed \subseteq Places
  BY DEF Unparsed, MayBeUnparsed, Places
<1> HIDE DEF At, Places, MayBeUnparsed, BufferOf, Ids
<1> QED
  BY <1>1 DEF Packets, OnePlace

(* Datagrams move, and keep the memory they have in their new place.        *)
LEMMA PacketsMove ==
  ASSUME Packets, OnePlace, NEW from \in Places, NEW to \in Places \cup {Nowhere}, from # to,
         NEW ids \in SUBSET Ids, Moves(from, to, ids),
         \A o \in live' : o \in live \/ o \in FixedObjects \cup ScrapObjects,
         \A i \in Ids \ ids : /\ SourceOf(i) \in live' <=> SourceOf(i) \in live
                              /\ BufferOf(i) \in live' <=> BufferOf(i) \in live,
         \A i \in ids : /\ SourceOf(i) \in live' <=> to # Nowhere
                        /\ BufferOf(i) \in live' => to \in MayBeUnparsed
                        /\ to \in Unparsed => BufferOf(i) \in live'
  PROVE  Packets'
<1>1. /\ Unparsed \subseteq Places /\ MayBeUnparsed \subseteq Places
      /\ Nowhere \notin Places
  BY PlacesDiffer DEF Unparsed, MayBeUnparsed, Places
<1> HIDE DEF At, Places, Unparsed, MayBeUnparsed, SourceOf, BufferOf, FixedObjects, ScrapObjects, Ids,
             Nowhere
<1>2. /\ ids \subseteq At(from)
      /\ \A x \in Places : x # from /\ x # to => At(x)' = At(x)
      /\ At(from)' = At(from) \ ids
      /\ to \in Places => At(to)' = At(to) \cup ids
  BY DEF Moves
<1>3. ASSUME NEW i \in ids
      PROVE  \A x \in Places : i \in At(x)' <=> x = to
  <2>1. \A x \in Places : i \in At(x) => x = from
    BY <1>2 DEF OnePlace
  <2> QED
    BY <1>2, <2>1
<1>4. ASSUME NEW i \in Ids \ ids
      PROVE  \A x \in Places : i \in At(x)' <=> i \in At(x)
  BY <1>2
<1>5. \A i \in Ids : SourceOf(i) \in live' <=> \E x \in Places : i \in At(x)'
  <2>1. \A i \in ids : SourceOf(i) \in live' <=> \E x \in Places : i \in At(x)'
    BY <1>1, <1>3
  <2>2. \A i \in Ids \ ids : SourceOf(i) \in live' <=> \E x \in Places : i \in At(x)'
    BY <1>4 DEF Packets
  <2> QED
    BY <2>1, <2>2
<1>6. \A i \in Ids : (\E x \in Unparsed : i \in At(x)') => BufferOf(i) \in live'
  <2>1. \A i \in ids : (\E x \in Unparsed : i \in At(x)') => BufferOf(i) \in live'
    BY <1>1, <1>3
  <2>2. \A i \in Ids \ ids : (\E x \in Unparsed : i \in At(x)') => BufferOf(i) \in live'
    BY <1>1, <1>4 DEF Packets
  <2> QED
    BY <2>1, <2>2
<1>7. \A i \in Ids : BufferOf(i) \in live' => \E x \in MayBeUnparsed : i \in At(x)'
  <2>1. \A i \in ids : BufferOf(i) \in live' => \E x \in MayBeUnparsed : i \in At(x)'
    BY <1>1, <1>3
  <2>2. \A i \in Ids \ ids : BufferOf(i) \in live' => \E x \in MayBeUnparsed : i \in At(x)'
    BY <1>1, <1>4 DEF Packets
  <2> QED
    BY <2>1, <2>2
<1>8. \A o \in live' : \/ o \in FixedObjects \cup ScrapObjects
                       \/ \E i \in Ids : o = SourceOf(i) \/ o = BufferOf(i)
  BY DEF Packets
<1> QED
  BY <1>5, <1>6, <1>7, <1>8 DEF Packets, Unparsed, MayBeUnparsed, Places, FixedObjects,
     ScrapObjects, SourceOf, BufferOf, Ids

Memory == (undefined => headless # {}) /\ Objects /\ Packets

(* Nothing is allocated or freed, no datagram moves, no thread that owns    *)
(* memory changes its place.                                                *)
LEMMA MemoryStays ==
  ASSUME Memory, live' = live, undefined' => headless' # {}, QueuesStay,
         UNCHANGED <<listener, next, cleaner>>,
         user' \in {"start", "done"} <=> user \in {"start", "done"}
  PROVE  Memory'
<1>1. Objects'
  BY ObjectsStay DEF Memory
<1>2. Packets'
  BY StayMoves, PacketsStay DEF Memory
<1> QED
  BY <1>1, <1>2 DEF Memory

(* The objects that exist before the collector is freed.                    *)
LEMMA ObjectsInUse ==
  ASSUME Control, Objects
  PROVE  /\ user \notin {"start", "done"} => {Struct, Output, MonitoringQueue} \subseteq live
         /\ user \in {"create_listener", "loop", "read"} => Conn \in live
BY DEF Control, ControlTypes, Phases, Objects, Running, Joined

(* Taking a message from the output queue frees its addresses, once.        *)
LEMMA OutputMemory ==
  ASSUME Control, Queues, Memory, output # <<>>, output' = Tail(output),
         UNCHANGED <<batch, input, hand, abandoned, sent, listener, next, cleaner>>,
         user \notin {"start", "done"}, user' \notin {"start", "done"},
         NEW used \in SUBSET {Struct, Output}, UsesAndFrees(used, {Source(Head(output))})
  PROVE  Memory'
<1> DEFINE k == Head(output).id
<1>1. Moves(Out, Nowhere, {k}) /\ Head(output) \in Messages /\ k \in Ids
  BY OutputTaken DEF Queues, Messages
<1>2. Source(Head(output)) = SourceOf(k)
  BY PacketMemory
<1> HIDE DEF k
<1>3. k \in At(Out) /\ Out \in Places /\ Out \notin MayBeUnparsed /\ Out # Nowhere
      /\ Nowhere \notin MayBeUnparsed /\ Nowhere \notin Unparsed
  BY <1>1, PlacesDiffer DEF Moves, MayBeUnparsed, Unparsed
<1>4. SourceOf(k) \in live /\ BufferOf(k) \notin live
  BY <1>1, <1>3, ParsedHasNoBuffer DEF Memory, Packets, Queues
<1>5. ~undefined' /\ live' = live \ {SourceOf(k)}
  <2>1. used \subseteq live
    BY ObjectsInUse DEF Memory
  <2> QED
    BY <1>2, <1>4, <2>1 DEF UsesAndFrees
<1>6. Objects'
  BY <1>5, ObjectsStay, PacketsNotFixed DEF Memory
<1>7. Packets'
  <2>1. \A i \in Ids \ {k} : /\ SourceOf(i) \in live' <=> SourceOf(i) \in live
                             /\ BufferOf(i) \in live' <=> BufferOf(i) \in live
    BY <1>5, PacketsNotFixed
  <2>2. \A i \in {k} : /\ SourceOf(i) \in live' <=> Nowhere # Nowhere
                       /\ BufferOf(i) \in live' => Nowhere \in MayBeUnparsed
                       /\ Nowhere \in Unparsed => BufferOf(i) \in live'
    BY <1>3, <1>4, <1>5
  <2> HIDE DEF Nowhere
  <2> QED
    BY <1>1, <1>3, <1>5, <2>1, <2>2, PacketsMove DEF Memory, Queues
<1> QED
  BY <1>5, <1>6, <1>7 DEF Memory

(* The user's threads.                                                      *)
LEMMA UserKeepsMemory ==
  ASSUME Control, Queues, Memory, UserStep \/ UserChoice \/ ReaderStep
  PROVE  Memory'
<1> USE DEF UserStep, UserChoice, ReaderStep, UserFrame, threadVars
<1>0. UNCHANGED <<next, batch, sent, input, hand, cleaner, abandoned>>
  OBVIOUS
<1>1. CASE unyte_udp_start_collector
  <2> USE <1>1 DEF unyte_udp_start_collector, Alloc
  <2> DEFINE new == {Output, MonitoringQueue, Conn, In, Struct}
  <2>1. QueuesStay /\ ~undefined' /\ live' = live \cup new /\ new \subseteq FixedObjects
    BY <1>0 DEF QueuesStay, Memory, FixedObjects
  <2>2. /\ user = "start" /\ user' = "create_listener" /\ listener = "none"
        /\ listener' = "create"
    BY DEF Control, Phases
  <2>3. Objects'
    <3>1. ParserArray \notin new /\ MonitoringWorker \notin new
          /\ \A p : Worker(p) \notin new /\ CleanupIn(p) \notin new
      BY ObjectNames
    <3> HIDE DEF new
    <3>2. /\ Struct \in live' /\ Output \in live' /\ MonitoringQueue \in live'
          /\ Conn \in live' /\ In \in live'
      BY <2>1 DEF new
    <3> HIDE DEF Parsers
    <3> QED
      BY <1>0, <2>1, <2>2, <3>1, <3>2 DEF Memory, Objects, Exists, Running, Joining, Joined
  <2> HIDE DEF new
  <2>4. Packets'
    BY <2>1, StayMoves, PacketsStay, PacketsNotFixed DEF Memory
  <2> QED
    BY <2>1, <2>3, <2>4 DEF Memory
<1>2. CASE unyte_udp_free_collector
  <2> USE <1>2 DEF unyte_udp_free_collector, UsesAndFrees
  <2> DEFINE old == {Struct, Output, MonitoringQueue}
  <2>1. user = "free" /\ user' = "done" /\ listener' = listener
    OBVIOUS
  <2>2. old \subseteq live
    BY <2>1, ObjectsInUse DEF Memory
  <2>3. QueuesStay /\ ~undefined' /\ live' = live \ old /\ old \subseteq FixedObjects
    BY <1>0, <2>2 DEF QueuesStay, FixedObjects
  <2>4. Objects'
    <3>1. /\ Conn \notin old /\ In \notin old
          /\ ParserArray \notin old /\ MonitoringWorker \notin old
          /\ \A p : Worker(p) \notin old /\ CleanupIn(p) \notin old
      BY ObjectNames
    <3>2. Struct \notin live' /\ Output \notin live' /\ MonitoringQueue \notin live'
      BY <2>3
    <3> HIDE DEF old, Parsers
    <3> QED
      BY <1>0, <2>1, <2>3, <3>1, <3>2 DEF Memory, Objects, Exists
  <2> HIDE DEF old
  <2>5. Packets'
    BY <2>3, StayMoves, PacketsStay, PacketsNotFixed DEF Memory
  <2> QED
    BY <2>3, <2>4, <2>5 DEF Memory
<1>3. CASE SampleRead \/ t_read
  <2>1. /\ user \notin {"start", "done"} /\ user' \notin {"start", "done"}
        /\ output # <<>> /\ output' = Tail(output) /\ UNCHANGED listener
        /\ UsesAndFrees({Output}, {Source(Head(output))})
    BY <1>3 DEF SampleRead, t_read, ReadMessage, Control, ReaderPlace
  <2> QED
    BY <1>0, <2>1, OutputMemory
<1>4. CASE DrainOutput
  <2>1. /\ user \notin {"start", "done"} /\ user' \notin {"start", "done"}
        /\ output # <<>> /\ output' = Tail(output) /\ UNCHANGED listener
        /\ UsesAndFrees({Struct, Output}, {Source(Head(output))})
    BY <1>4 DEF DrainOutput
  <2> QED
    BY <1>0, <2>1, OutputMemory
<1>5. CASE CallRead \/ JoinReader \/ t_read_test
  <2>1. /\ QueuesStay /\ UNCHANGED <<listener, live, undefined>>
        /\ user' \in {"start", "done"} <=> user \in {"start", "done"}
    BY <1>0, <1>5 DEF CallRead, JoinReader, t_read_test, NoMemory, QueuesStay
  <2> QED
    BY <1>0, <2>1, MemoryStays DEF Memory
<1>6. CASE unyte_udp_create_listener \/ SummaryRead \/ CloseSocket \/ JoinListener
  <2>1. /\ QueuesStay /\ UNCHANGED listener
        /\ user' \notin {"start", "done"} /\ user \notin {"start", "done"}
    BY <1>0, <1>6, CollectorAssumption DEF unyte_udp_create_listener, SummaryRead,
       CloseSocket, JoinListener, QueuesStay
  <2>2. live' = live /\ ~undefined'
    BY <1>6, <2>1, ObjectsInUse DEF unyte_udp_create_listener, SummaryRead, CloseSocket,
       JoinListener, Uses, Memory
  <2> QED
    BY <1>0, <2>1, <2>2, MemoryStays
<1> QED
  BY <1>1, <1>2, <1>3, <1>4, <1>5, <1>6

(* The listener while it creates the threads.                               *)
LEMMA CreationKeepsMemory ==
  ASSUME Control, Queues, Memory, ~broken',
         (create_monitoring_thread \/ create_parse_worker \/ CreationFails) /\ CreateFrame
  PROVE  Memory'
<1> USE ParserNumbers DEF CreateFrame, userVars
<1> HIDE DEF Used, Parsers
<1>0. QueuesStay /\ UNCHANGED user
  BY DEF QueuesStay
<1>1. CASE create_monitoring_thread
  <2> USE <1>1 DEF create_monitoring_thread, UsesAndAllocs
  <2> DEFINE new == {ParserArray, MonitoringWorker}
  <2>1. /\ listener = "create" /\ listener' = "create_parser" /\ next' = 0
        /\ user \notin {"start", "done"} /\ UNCHANGED cleaner
    BY DEF Control, Phases, Joining
  <2>2. ~undefined' /\ live' = live \cup new /\ new \subseteq FixedObjects
    BY <2>1, ObjectsInUse DEF Memory, Objects, FixedObjects
  <2>3. Objects'
    <3>1. /\ Struct \notin new /\ Output \notin new /\ MonitoringQueue \notin new
          /\ Conn \notin new /\ In \notin new
          /\ \A p : Worker(p) \notin new /\ CleanupIn(p) \notin new
      BY ObjectNames
    <3>2. ParserArray \in live' /\ MonitoringWorker \in live'
      BY <2>2
    <3>3. \A p \in Parsers : ~Exists(p) /\ ~Exists(p)'
      BY <2>1 DEF Exists, Running, Joining
    <3> HIDE DEF new
    <3> QED
      BY <1>0, <2>1, <2>2, <3>1, <3>2, <3>3 DEF Memory, Objects, Joined
  <2> HIDE DEF new
  <2>4. Packets'
    BY <1>0, <2>2, StayMoves, PacketsStay, PacketsNotFixed DEF Memory
  <2> QED
    BY <2>2, <2>3, <2>4 DEF Memory
<1>2. CASE create_parse_worker
  <2> USE <1>2 DEF create_parse_worker, UsesAndAllocs
  <2> DEFINE new == {Worker(next), CleanupIn(next)}
  <2>1. /\ listener = "create_parser" /\ listener' \in {"create_parser", "refill"}
        /\ next \in Parsers /\ user \notin {"start", "done"}
        /\ cleaner' = [cleaner EXCEPT ![next] = "test"]
    BY DEF Control, ControlTypes, Phases
  <2>2. ~undefined' /\ live' = live \cup new /\ new \subseteq FixedObjects
    BY <2>1 DEF Memory, Objects, FixedObjects, Joined
  <2>3. Objects'
    <3>1. /\ Struct \notin new /\ Output \notin new /\ MonitoringQueue \notin new
          /\ Conn \notin new /\ In \notin new
          /\ ParserArray \notin new /\ MonitoringWorker \notin new
          /\ \A p : Worker(p) \in new <=> p = next
          /\ \A p : CleanupIn(p) \in new <=> p = next
      BY ObjectNames
    <3>2. \A p \in Parsers : Exists(p)' <=> Exists(p) \/ p = next
      BY <2>1 DEF Exists, Running, Joining
    <3>3. \A p \in Parsers : cleaner'[p] = IF p = next THEN "test" ELSE cleaner[p]
      BY <2>1 DEF Control, ControlTypes
    <3> HIDE DEF new
    <3>4. /\ \A p \in Parsers : Worker(p) \in live' <=> Exists(p)'
          /\ \A p \in Parsers : CleanupIn(p) \in live' <=> cleaner'[p] \in {"test", "sleep"}
      BY <2>2, <3>1, <3>2, <3>3 DEF Memory, Objects
    <3> QED
      BY <1>0, <2>1, <2>2, <3>1, <3>4 DEF Memory, Objects, Joined
  <2> HIDE DEF new
  <2>4. Packets'
    BY <1>0, <2>2, StayMoves, PacketsStay, PacketsNotFixed DEF Memory
  <2> QED
    BY <2>2, <2>3, <2>4 DEF Memory
<1> QED
  BY <1>1, <1>2 DEF CreationFails

(* While the listener receives, its objects are the same.                   *)
LEMMA ReceptionObjects ==
  ASSUME Control, Objects, UNCHANGED <<user, next, cleaner>>,
         listener \in Running, listener' \in Running \cup {"stop"},
         \A o \in FixedObjects : o \in live' <=> o \in live
  PROVE  Objects'
<1> HIDE DEF Parsers
<1>1. /\ {Struct, Output, MonitoringQueue, Conn, In, ParserArray, MonitoringWorker}
           \subseteq FixedObjects
      /\ \A p \in Parsers : Worker(p) \in FixedObjects /\ CleanupIn(p) \in FixedObjects
  BY DEF FixedObjects
<1>2. \A p \in Parsers : Exists(p) /\ Exists(p)'
  BY DEF Exists
<1> HIDE DEF FixedObjects
<1> QED
  BY <1>1, <1>2 DEF Objects, Running, Joined

(* A datagram that arrives has memory of its own.                           *)
LEMMA ArrivalMemory ==
  ASSUME Control, Queues, Memory, ArriveMessage /\ ReceiveFrame
  PROVE  Memory'
<1> DEFINE k == sent + 1
<1>1. /\ k \in Ids /\ \A x \in Places : k \notin At(x)
      /\ \A x \in Places : At(x)' = IF x = Batch THEN At(x) \cup {k} ELSE At(x)
  BY DatagramArrives DEF Queues, Control
<1>2. ~undefined' /\ live' = live \cup {BufferOf(k), SourceOf(k)}
  <2>1. PICK o \in Odids : Alloc({Buffer([odid |-> o, id |-> k]), Source([odid |-> o, id |-> k])})
    BY DEF ArriveMessage
  <2>2. /\ Buffer([odid |-> o, id |-> k]) = BufferOf(k)
        /\ Source([odid |-> o, id |-> k]) = SourceOf(k)
    BY PacketMemory
  <2> QED
    BY <2>1, <2>2 DEF Alloc, ReceiveFrame
<1> HIDE DEF k
<1>3. Objects'
  <2>1. /\ UNCHANGED <<user, next, cleaner>>
        /\ listener \in Running /\ listener' \in Running
    BY DEF ArriveMessage, Arrive, ReceiveFrame, userVars, threadVars, Running
  <2> QED
    BY <1>2, <2>1, ReceptionObjects, PacketsNotFixed DEF Memory
<1>4. Batch \in Places /\ Batch \in Unparsed /\ Batch \in MayBeUnparsed
      /\ Unparsed \subseteq Places /\ MayBeUnparsed \subseteq Places
  BY PlacesDiffer DEF Unparsed, MayBeUnparsed, Places
<1>5. \A i \in Ids : /\ SourceOf(i) \in live' <=> SourceOf(i) \in live \/ i = k
                     /\ BufferOf(i) \in live' <=> BufferOf(i) \in live \/ i = k
  BY <1>2, PacketsNotFixed
<1>6. Packets'
  <2> HIDE DEF At, Places, Unparsed, MayBeUnparsed, SourceOf, BufferOf, FixedObjects, ScrapObjects, Ids, Batch
  <2>1. \A i \in Ids : SourceOf(i) \in live' <=> \E x \in Places : i \in At(x)'
    BY <1>1, <1>4, <1>5 DEF Memory, Packets
  <2>2. \A i \in Ids : (\E x \in Unparsed : i \in At(x)') => BufferOf(i) \in live'
    BY <1>1, <1>4, <1>5 DEF Memory, Packets
  <2>3. \A i \in Ids : BufferOf(i) \in live' => \E x \in MayBeUnparsed : i \in At(x)'
    BY <1>1, <1>4, <1>5 DEF Memory, Packets
  <2>4. \A o \in live' : \/ o \in FixedObjects \cup ScrapObjects
                         \/ \E i \in Ids : o = SourceOf(i) \/ o = BufferOf(i)
    BY <1>1, <1>2 DEF Memory, Packets
  <2> QED
    BY <2>1, <2>2, <2>3, <2>4 DEF Packets, Unparsed, MayBeUnparsed, Places, FixedObjects,
       ScrapObjects, SourceOf, BufferOf, Ids
<1> QED
  BY <1>2, <1>3, <1>6 DEF Memory

(* A datagram that is dispatched keeps its buffer, one that is refused      *)
(* loses it.                                                                *)
LEMMA DispatchMemory ==
  ASSUME Control, Queues, Memory, Dispatch /\ ReceiveFrame
  PROVE  Memory'
<1> DEFINE m == Head(batch)  k == m.id  p == ParserOf(m)
           used == {In, ParserArray, Worker(p), MonitoringWorker, Buffer(m)}
<1>0. /\ UNCHANGED <<user, next, cleaner>> /\ batch # <<>>
      /\ listener = "dispatch" /\ listener' \in Running
  BY DEF Dispatch, NextDatagram, ReceiveFrame, userVars, threadVars, Running, Queues, Emptied
<1>1. /\ m \in Messages /\ p \in Parsers
      /\ \/ Uses(used) /\ Moves(Batch, InputOf(p), {k})
         \/ UsesAndFrees(used, {Buffer(m)}) /\ Moves(Batch, Lost, {k})
  BY <1>0, DatagramDispatched DEF Queues
<1>2. k \in Ids /\ Buffer(m) = BufferOf(k)
  BY <1>1, PacketMemory DEF Messages
<1>3. /\ Batch \in Places /\ Batch \in Unparsed
      /\ InputOf(p) \in Places /\ InputOf(p) \in Unparsed /\ InputOf(p) \in MayBeUnparsed
      /\ Lost \in Places /\ Lost \in MayBeUnparsed /\ Lost \notin Unparsed
      /\ Batch # Lost /\ Batch # InputOf(p) /\ InputOf(p) # Nowhere /\ Lost # Nowhere
  BY <1>1, PlacesDiffer DEF Unparsed, MayBeUnparsed
<1> HIDE DEF k, p, m
<1>4. k \in At(Batch)
  BY <1>1 DEF Moves
<1>5. BufferOf(k) \in live /\ SourceOf(k) \in live
  BY <1>2, <1>3, <1>4 DEF Memory, Packets
<1>6. used \subseteq live
  <2>1. In \in live /\ ParserArray \in live /\ MonitoringWorker \in live /\ Worker(p) \in live
    BY <1>0, <1>1 DEF Memory, Objects, Exists, Running, Joined
  <2> QED
    BY <1>2, <1>5, <2>1
<1> HIDE DEF used
<1>7. \A i \in Ids \ {k} : BufferOf(i) # BufferOf(k) /\ SourceOf(i) # BufferOf(k)
  BY PacketsNotFixed
<1>8. SourceOf(k) # BufferOf(k) /\ BufferOf(k) \notin FixedObjects
  BY PacketsNotFixed
<1>9. CASE Uses(used) /\ Moves(Batch, InputOf(p), {k})
  <2>1. ~undefined' /\ live' = live
    BY <1>6, <1>9 DEF Uses
  <2>2. Objects'
    BY <1>0, <2>1, ReceptionObjects DEF Running, Memory
  <2>3. Packets'
    BY <1>2, <1>3, <1>5, <1>9, <2>1, PacketsMove DEF Memory, Queues
  <2> QED
    BY <2>1, <2>2, <2>3 DEF Memory
<1>10. CASE UsesAndFrees(used, {Buffer(m)}) /\ Moves(Batch, Lost, {k})
  <2>1. ~undefined' /\ live' = live \ {BufferOf(k)}
    BY <1>2, <1>5, <1>6, <1>10 DEF UsesAndFrees
  <2>2. Objects'
    BY <1>0, <1>8, <2>1, ReceptionObjects DEF Running, Memory
  <2>3. Packets'
    <3>1. \A i \in Ids \ {k} : /\ SourceOf(i) \in live' <=> SourceOf(i) \in live
                               /\ BufferOf(i) \in live' <=> BufferOf(i) \in live
      BY <1>7, <2>1
    <3>2. \A i \in {k} : /\ SourceOf(i) \in live' <=> Lost # Nowhere
                         /\ BufferOf(i) \in live' => Lost \in MayBeUnparsed
                         /\ Lost \in Unparsed => BufferOf(i) \in live'
      BY <1>3, <1>5, <1>8, <2>1
    <3> HIDE DEF Lost, Batch, Nowhere
    <3> QED
      BY <1>2, <1>3, <1>10, <2>1, <3>1, <3>2, PacketsMove DEF Memory, Queues
  <2> QED
    BY <2>1, <2>2, <2>3 DEF Memory
<1> QED
  BY <1>1, <1>9, <1>10

(* The listener while it receives and dispatches.                           *)
LEMMA ReceptionKeepsMemory ==
  ASSUME Control, Queues, Memory, Scraps, ~broken', ReceiveFrame,
         \/ recvmmsg \/ SkipEmpty \/ Dispatch \/ RecvInterrupted \/ DispatchFails
         \/ ArriveMessage \/ ArriveEmpty
  PROVE  Memory'
<1>1. CASE ArriveMessage \/ Dispatch
  BY <1>1, ArrivalMemory, DispatchMemory
<1>2. CASE recvmmsg \/ RecvInterrupted \/ SkipEmpty \/ ArriveEmpty
  <2>1. /\ UNCHANGED <<user, next, cleaner>>
        /\ listener \in Running /\ listener' \in Running \cup {"stop"}
    BY <1>2 DEF recvmmsg, RecvInterrupted, SkipEmpty, NextDatagram, ArriveEmpty, Arrive,
       ReceiveFrame, userVars, threadVars, Running
  <2>2. ~undefined' /\ \A o : o \in ScrapObjects \/ (o \in live' <=> o \in live)
    <3>1. In \in live /\ Conn \in live
      BY <2>1 DEF Memory, Objects, Running, Joined
    <3>2. CASE recvmmsg
      BY <3>1, <3>2 DEF recvmmsg, Uses
    <3>3. Buffer(Empty) \in ScrapObjects /\ Source(Empty) \in ScrapObjects
      BY PacketMemory DEF ScrapObjects, Empty
    <3>4. CASE RecvInterrupted \/ ArriveEmpty
      BY <3>3, <3>4 DEF RecvInterrupted, ArriveEmpty, NoMemory, Alloc, ReceiveFrame
    <3>5. CASE SkipEmpty
      <4>1. Buffer(Empty) \in live
        <5>1. batch # <<>> /\ Head(batch).id = 0 /\ batch \in Seq(Packet)
          BY <3>5 DEF SkipEmpty, Queues, Emptied, QueueTypes, Packet, Empty
        <5>2. Len(batch) \in Nat \ {0} /\ Head(batch) = batch[1]
          BY <5>1
        <5>3. HasEmpty(batch)
          BY <5>1, <5>2 DEF HasEmpty
        <5> QED
          BY <5>3, PacketMemory DEF Scraps, Empty
      <4> QED
        BY <3>3, <3>5, <4>1 DEF SkipEmpty, UsesAndFrees
    <3> QED
      BY <1>2, <3>2, <3>4, <3>5
  <2>3. \A x \in Places : At(x)' = At(x)
    <3>1. CASE recvmmsg
      <4>1. QueuesStay
        BY <3>1 DEF QueuesStay, recvmmsg, ReceiveFrame, threadVars
      <4> QED
        BY <4>1, StayMoves
    <3>2. CASE SkipEmpty \/ ArriveEmpty
      <4>1. SkipEmpty => batch # <<>>
        BY DEF SkipEmpty, Queues, Emptied
      <4> QED
        BY <3>2, <4>1, EmptyComesAndGoes DEF Queues
    <3> QED
      BY <1>2, <3>1, <3>2, BatchInterrupted DEF Queues
  <2>4. Objects'
    BY <2>1, <2>2, ReceptionObjects, ScrapsApart DEF Memory
  <2>5. Packets'
    <3>1. \A i \in Ids : /\ SourceOf(i) \in live' <=> SourceOf(i) \in live
                         /\ BufferOf(i) \in live' <=> BufferOf(i) \in live
      BY <2>2, ScrapsApart
    <3> QED
      BY <2>2, <2>3, <3>1, PacketsStay DEF Memory
  <2> QED
    BY <2>2, <2>4, <2>5 DEF Memory
<1> QED
  BY <1>1, <1>2 DEF DispatchFails

(* The listener while it shuts down.                                        *)
LEMMA StopKeepsMemory ==
  ASSUME Control, Queues, Memory, StopFrame,
         \/ stop_parsers_and_monitoring \/ free_parsers_cleanup \/ free_parsers
         \/ free_monitoring_worker \/ t_listener_exit
  PROVE  Memory'
<1>a. free_parsers => Moves(InputOf(next), Lost, IdsOf(input[next]))
  BY InputFreed DEF Queues, Control
<1>b. next \in Parsers /\ IdsOf(input[next]) \subseteq Ids
  BY MessageIds DEF Control, ControlTypes, Queues, QueueTypes
<1> USE ParserNumbers DEF StopFrame, userVars, threadVars
<1> HIDE DEF Used, Parsers
<1>0. UNCHANGED <<user, cleaner>>
  OBVIOUS
<1>1. CASE stop_parsers_and_monitoring \/ free_parsers_cleanup
  <2>1. QueuesStay
    BY <1>1 DEF QueuesStay, stop_parsers_and_monitoring, free_parsers_cleanup
  <2>2. \A p \in Parsers : Exists(p)' <=> Exists(p)
    <3>1. CASE stop_parsers_and_monitoring
      <4>1. next' = 0 /\ listener = "stop" /\ listener' = "join_cleanup"
        BY <3>1 DEF stop_parsers_and_monitoring, Control, Phases, Joining
      <4> QED
        BY <4>1 DEF Exists, Joining
    <3>2. CASE free_parsers_cleanup
      BY <3>2 DEF free_parsers_cleanup, Exists, Running, Joining
    <3> QED
      BY <1>1, <3>1, <3>2
  <2>3. ~undefined' /\ live' = live
    <3>1. {In, Conn, ParserArray, MonitoringWorker} \subseteq live
      BY <1>1 DEF stop_parsers_and_monitoring, free_parsers_cleanup, Memory, Objects, Joined
    <3>2. stop_parsers_and_monitoring => {CleanupIn(p) : p \in Parsers} \subseteq live
      <4> SUFFICES ASSUME stop_parsers_and_monitoring, NEW p \in Parsers
                   PROVE  CleanupIn(p) \in live
        OBVIOUS
      <4>1. listener = "stop" /\ ~stopping /\ ~NotYet(p)
        BY DEF stop_parsers_and_monitoring, NotYet, Control, Phases, Joining, Joined
      <4>2. cleaner[p] \in {"test", "sleep"}
        BY <4>1 DEF Control, ControlTypes, ThreadPlaces
      <4> QED
        BY <4>2 DEF Memory, Objects
    <3> QED
      BY <1>1, <3>1, <3>2 DEF stop_parsers_and_monitoring, free_parsers_cleanup, Uses
  <2>4. Objects'
    BY <1>0, <1>1, <2>2, <2>3 DEF stop_parsers_and_monitoring, free_parsers_cleanup, Memory,
       Objects, Joined
  <2>5. Packets'
    BY <2>1, <2>3, StayMoves, PacketsStay DEF Memory
  <2> QED
    BY <2>3, <2>4, <2>5 DEF Memory
<1>2. CASE free_parsers
  <2> DEFINE last == next + 1 \notin Parsers
             old == {Worker(next)} \cup IF last THEN {ParserArray, Conn} ELSE {}
  <2>1. /\ listener = "join_parser"
        /\ listener' = IF last THEN "free_monitoring" ELSE "join_cleanup"
        /\ next' = IF last THEN 0 ELSE next + 1
        /\ undefined' = (next \in headless \/ ~({In, ParserArray} \cup old \subseteq live))
        /\ live' = live \ old
    BY <1>2 DEF free_parsers
  <2>2. \A p \in Parsers : Exists(p)' <=> Exists(p) /\ p # next
    BY <1>b, <2>1 DEF Exists, Running, Joining
  <2>3. /\ undefined' => headless' # {}
        /\ live' = live \ old /\ old \subseteq FixedObjects
    <3>1. In \in live /\ ParserArray \in live /\ Conn \in live /\ Worker(next) \in live
      BY <1>b, <2>1 DEF Memory, Objects, Exists, Joining, Joined
    <3> QED
      BY <1>b, <2>1, <3>1 DEF FixedObjects
  <2>4. Objects'
    <3>1. /\ Struct \notin old /\ Output \notin old /\ MonitoringQueue \notin old
          /\ In \notin old /\ MonitoringWorker \notin old
          /\ (Conn \in old <=> last) /\ (ParserArray \in old <=> last)
          /\ \A p : Worker(p) \in old <=> p = next
          /\ \A p : CleanupIn(p) \notin old
      BY ObjectNames
    <3> HIDE DEF old
    <3>2. \A p \in Parsers : Worker(p) \in live' <=> Exists(p)'
      BY <2>2, <2>3, <3>1 DEF Memory, Objects
    <3> HIDE DEF last
    <3>3. CASE last
      BY <1>0, <2>1, <2>3, <3>1, <3>2, <3>3 DEF Memory, Objects, Joined
    <3>4. CASE ~last
      BY <1>0, <2>1, <2>3, <3>1, <3>2, <3>4 DEF Memory, Objects, Joined
    <3> QED
      BY <3>3, <3>4
  <2>5. Packets'
    <3> DEFINE ids == IdsOf(input[next])
    <3>1. \A i \in Ids : /\ SourceOf(i) \in live' <=> SourceOf(i) \in live
                         /\ BufferOf(i) \in live' <=> BufferOf(i) \in live
      BY <2>3, PacketsNotFixed
    <3>2. /\ InputOf(next) \in Places /\ Lost \in Places /\ InputOf(next) # Lost
          /\ Lost # Nowhere /\ Lost \in MayBeUnparsed /\ Lost \notin Unparsed
      BY <1>b, PlacesDiffer DEF MayBeUnparsed, Unparsed
    <3>3. ids \in SUBSET Ids /\ Moves(InputOf(next), Lost, ids) /\ ids \subseteq At(InputOf(next))
      BY <1>2, <1>a, <1>b DEF Moves
    <3> HIDE DEF ids, old
    <3>4. \A i \in ids : SourceOf(i) \in live'
      BY <3>1, <3>2, <3>3 DEF Memory, Packets
    <3> QED
      BY <2>3, <3>1, <3>2, <3>3, <3>4, PacketsMove DEF Memory, Queues
  <2> QED
    BY <2>3, <2>4, <2>5 DEF Memory
<1>3. CASE free_monitoring_worker \/ t_listener_exit
  <2> DEFINE old == IF free_monitoring_worker THEN {MonitoringWorker} ELSE {In}
  <2>1. QueuesStay /\ UNCHANGED next
    BY <1>3 DEF QueuesStay, free_monitoring_worker, t_listener_exit
  <2>2. /\ listener \in Joined /\ listener' \in Joined
        /\ listener = IF free_monitoring_worker THEN "free_monitoring" ELSE "exit"
        /\ listener' = IF free_monitoring_worker THEN "exit" ELSE "ended"
        /\ UsesAndFrees({}, old)
    BY <1>3 DEF free_monitoring_worker, t_listener_exit, Joined
  <2>3. ~undefined' /\ live' = live \ old /\ old \subseteq FixedObjects
    BY <2>2 DEF UsesAndFrees, Memory, Objects, FixedObjects
  <2>4. Objects'
    <3>1. /\ Struct \notin old /\ Output \notin old /\ MonitoringQueue \notin old
          /\ Conn \notin old /\ ParserArray \notin old
          /\ (MonitoringWorker \in old <=> free_monitoring_worker)
          /\ (In \in old <=> ~free_monitoring_worker)
          /\ \A p : Worker(p) \notin old /\ CleanupIn(p) \notin old
      BY ObjectNames
    <3> HIDE DEF old
    <3>2. \A p \in Parsers : ~Exists(p) /\ ~Exists(p)'
      BY <2>2 DEF Exists, Running, Joining, Joined
    <3> QED
      BY <1>0, <2>2, <2>3, <3>1, <3>2 DEF Memory, Objects, Joined
  <2> HIDE DEF old
  <2>5. Packets'
    BY <2>1, <2>3, StayMoves, PacketsStay, PacketsNotFixed DEF Memory
  <2> QED
    BY <2>3, <2>4, <2>5 DEF Memory
<1> QED
  BY <1>1, <1>2, <1>3

(* The clean-up and monitoring threads: the input of the first is freed by  *)
(* itself, and what they use is freed after they are joined.                *)
LEMMA TimersKeepMemory ==
  ASSUME Control, Queues, Memory, (\E p \in Parsers : CleanerStep(p)) \/ MonitorStep
  PROVE  Memory'
<1>0. QueuesStay /\ UNCHANGED <<user, listener, next>>
  BY TimersKeepQueues DEF CleanerStep, MonitorStep, TimerFrame, userVars, listenerVars
<1>1. ASSUME NEW p \in Parsers, CleanerStep(p) PROVE Memory'
  <2>1. cleaner[p] \in {"test", "sleep"}
    BY <1>1 DEF CleanerStep, t_clean_up_test, t_clean_up
  <2>2. CleanupIn(p) \in live /\ Worker(p) \in live
    BY <2>1, RunningThread DEF Memory, Objects
  <2>3. CASE live' = live /\ cleaner'[p] \in {"test", "sleep"}
    <3>1. ~undefined'
      BY <1>1, <2>2 DEF CleanerStep, t_clean_up_test, t_clean_up, Uses, UsesAndFrees
    <3>2. \A q \in Parsers : cleaner'[q] \in {"test", "sleep"} <=> cleaner[q] \in {"test", "sleep"}
      BY <1>1, <2>1, <2>3 DEF CleanerStep, t_clean_up_test, t_clean_up, Control, ControlTypes
    <3>3. Objects'
      BY <1>0, <2>3, <3>2 DEF Memory, Objects, Exists
    <3>4. Packets'
      BY <1>0, <2>3, StayMoves, PacketsStay DEF Memory
    <3> QED
      BY <3>1, <3>3, <3>4 DEF Memory
  <2>4. CASE UsesAndFrees({}, {CleanupIn(p)}) /\ cleaner' = [cleaner EXCEPT ![p] = "ended"]
    <3>1. ~undefined' /\ live' = live \ {CleanupIn(p)}
      BY <2>2, <2>4 DEF UsesAndFrees
    <3>2. /\ CleanupIn(p) \in FixedObjects /\ CleanupIn(p) # Struct /\ CleanupIn(p) # Output
          /\ CleanupIn(p) # MonitoringQueue /\ CleanupIn(p) # Conn /\ CleanupIn(p) # In
          /\ CleanupIn(p) # ParserArray /\ CleanupIn(p) # MonitoringWorker
          /\ \A q : Worker(q) # CleanupIn(p)
          /\ \A q : CleanupIn(q) = CleanupIn(p) => q = p
      BY ObjectNames DEF FixedObjects
    <3>3. \A q \in Parsers : cleaner'[q] = IF q = p THEN "ended" ELSE cleaner[q]
      BY <2>4 DEF Control, ControlTypes
    <3>4. Objects'
      BY <1>0, <3>1, <3>2, <3>3 DEF Memory, Objects, Exists
    <3>5. Packets'
      BY <1>0, <3>1, <3>2, StayMoves, PacketsStay, PacketsNotFixed DEF Memory
    <3> QED
      BY <3>1, <3>4, <3>5 DEF Memory
  <2> QED
    BY <1>1, <2>3, <2>4 DEF CleanerStep, t_clean_up_test, t_clean_up, Uses, Control,
       ControlTypes
<1>2. CASE MonitorStep
  <2>1. monitor \in {"test", "sleep"} /\ UNCHANGED cleaner
    BY <1>2 DEF MonitorStep, t_monitoring_test, t_monitoring_unyte_udp, TimerFrame
  <2>2. listener \notin {"none", "create", "exit", "ended"}
    BY <2>1 DEF Control, ThreadPlaces
  <2>3. user \notin {"start", "done"}
    BY <2>2 DEF Control, Phases
  <2>4. MonitoringWorker \in live /\ MonitoringQueue \in live
    BY <2>2, <2>3 DEF Memory, Objects
  <2>5. live' = live /\ ~undefined'
    BY <1>2, <2>4 DEF MonitorStep, t_monitoring_test, t_monitoring_unyte_udp, Uses
  <2> QED
    BY <1>0, <2>1, <2>5, MemoryStays
<1> QED
  BY <1>1, <1>2

(* What a worker uses is there.                                             *)
LEMMA WorkerObjects ==
  ASSUME Control, Memory, NEW p \in Parsers, worker[p] \in {"reading", "parsed"}
  PROVE  {Worker(p), Output, MonitoringWorker} \subseteq live
<1>1. /\ Exists(p) /\ user \notin {"start", "done"}
      /\ listener \notin {"none", "create"} \cup Joined
  BY RunningThread
<1> QED
  BY <1>1 DEF Memory, Objects, Joined

(* A step that moves one datagram and frees part of its memory.             *)
LEMMA OneMoves ==
  ASSUME Control, Queues, Memory, NEW from \in Places, NEW to \in Places \cup {Nowhere},
         from # to, NEW k \in Ids, Moves(from, to, {k}), ~undefined',
         UNCHANGED <<user, listener, next, cleaner>>,
         \A o : \/ o \in ScrapObjects \/ o = SourceOf(k) \/ o = BufferOf(k)
                \/ o \in live' <=> o \in live,
         SourceOf(k) \in live' <=> to # Nowhere,
         BufferOf(k) \in live' => BufferOf(k) \in live /\ to \in MayBeUnparsed,
         to \in Unparsed => BufferOf(k) \in live'
  PROVE  Memory'
<1>1. k \in At(from)
  BY DEF Moves
<1>2. SourceOf(k) \in live
  BY <1>1 DEF Memory, Packets
<1>3. \A o \in FixedObjects : o \in live' <=> o \in live
  BY PacketsNotFixed, ScrapsApart
<1>4. Objects'
  BY <1>3, ObjectsStay DEF Memory
<1>5. \A i \in Ids \ {k} : /\ SourceOf(i) \in live' <=> SourceOf(i) \in live
                           /\ BufferOf(i) \in live' <=> BufferOf(i) \in live
  BY PacketsNotFixed, ScrapsApart
<1>6. \A o \in live' : o \in live \/ o \in FixedObjects \cup ScrapObjects
  BY <1>2
<1> HIDE DEF SourceOf, BufferOf, Nowhere, Unparsed, MayBeUnparsed, ScrapObjects
<1>7. \A i \in {k} : /\ SourceOf(i) \in live' <=> to # Nowhere
                     /\ BufferOf(i) \in live' => to \in MayBeUnparsed
                     /\ to \in Unparsed => BufferOf(i) \in live'
  OBVIOUS
<1>8. Packets'
  BY <1>5, <1>6, <1>7, PacketsMove DEF Memory, Queues
<1> QED
  BY <1>4, <1>8 DEF Memory

(* The parsing workers.                                                     *)
LEMMA WorkerKeepsMemory ==
  ASSUME Control, Queues, Memory, NEW p \in Parsers, WorkerStep(p) \/ WorkerChoice(p)
  PROVE  Memory'
<1>0. /\ UNCHANGED <<user, listener, next, cleaner>> /\ WorkerFrame
      /\ worker[p] \in {"reading", "parsed"}
  BY DEF WorkerStep, WorkerChoice, WorkerFrame, userVars, listenerVars, ReadInput,
     WriteOutput, CancelWorker, ParseFails, Absorb, AbsorbFails, WalkHeadless
<1>1. {Worker(p), Output, MonitoringWorker} \subseteq live
  BY <1>0, WorkerObjects
<1>2. /\ InputOf(p) \in Places /\ HandOf(p) \in Places /\ Out \in Places /\ Lost \in Places
      /\ InputOf(p) # HandOf(p) /\ InputOf(p) # Lost /\ HandOf(p) # Out /\ HandOf(p) # Lost
      /\ Nowhere \notin Places
      /\ InputOf(p) \in Unparsed /\ HandOf(p) \notin Unparsed /\ Out \notin Unparsed
      /\ Lost \notin Unparsed /\ Lost \in MayBeUnparsed /\ Nowhere \notin Unparsed
      /\ HandOf(p) \notin MayBeUnparsed
  BY PlacesDiffer DEF Unparsed, MayBeUnparsed
<1>3. \A m : /\ Buffer(m) = BufferOf(m.id) /\ Source(m) = SourceOf(m.id)
             /\ Payload(m) = PayloadOf(m.id)
  BY PacketMemory
<1>4. \A i : BufferOf(i) # SourceOf(i)
  BY PacketsNotFixed
<1>5. \A i \in Ids : \A x \in Places : i \in At(x) =>
        /\ SourceOf(i) \in live /\ (x \in Unparsed => BufferOf(i) \in live)
        /\ x \notin MayBeUnparsed => BufferOf(i) \notin live
  BY ParsedHasNoBuffer DEF Memory, Packets, Queues
<1>6. CASE ReadInput(p)
  <2> DEFINE m == Head(input[p])
  <2>1. m \in Messages /\ m.id \in Ids /\ Moves(InputOf(p), HandOf(p), {m.id})
    BY <1>0, <1>6, InputRead DEF Queues, Messages
  <2>2. UsesAndFrees({Worker(p)}, {Buffer(m)})
    BY <1>6 DEF ReadInput
  <2> HIDE DEF m
  <2>3. m.id \in At(InputOf(p))
    BY <2>1 DEF Moves
  <2>4. BufferOf(m.id) \in live
    BY <1>2, <1>5, <2>1, <2>3
  <2>5. ~undefined' /\ live' = live \ {BufferOf(m.id)}
    BY <1>1, <1>3, <2>2, <2>4 DEF UsesAndFrees
  <2>6. /\ \A o : o = BufferOf(m.id) \/ (o \in live' <=> o \in live)
        /\ SourceOf(m.id) \in live' /\ BufferOf(m.id) \notin live'
    BY <1>2, <1>4, <1>5, <2>1, <2>3, <2>5
  <2> HIDE DEF Nowhere, InputOf, HandOf, SourceOf, BufferOf, Places, Unparsed, MayBeUnparsed,
               ScrapObjects
  <2> QED
    BY <1>0, <1>2, <2>1, <2>5, <2>6, OneMoves
<1>7. CASE ParseFails(p)
  <2> DEFINE m == Head(input[p])
  <2>1. m \in Messages /\ m.id \in Ids /\ Moves(InputOf(p), Lost, {m.id})
    BY <1>0, <1>7, InputLost DEF Queues, Messages
  <2>2. Uses({Worker(p), Buffer(m)})
    BY <1>7 DEF ParseFails
  <2> HIDE DEF m
  <2>3. m.id \in At(InputOf(p))
    BY <2>1 DEF Moves
  <2>4. BufferOf(m.id) \in live
    BY <1>2, <1>5, <2>1, <2>3
  <2>5. ~undefined' /\ live' = live
    BY <1>1, <1>3, <2>2, <2>4 DEF Uses
  <2>6. SourceOf(m.id) \in live
    BY <1>2, <1>5, <2>1, <2>3
  <2> HIDE DEF Nowhere, InputOf, Lost, SourceOf, BufferOf, Places, Unparsed, MayBeUnparsed,
               ScrapObjects
  <2> QED
    BY <1>0, <1>2, <2>1, <2>4, <2>5, <2>6, OneMoves
<1>a. ASSUME Head(hand[p]) \in Messages, Head(hand[p]).id \in At(HandOf(p))
      PROVE  SourceOf(Head(hand[p]).id) \in live /\ BufferOf(Head(hand[p]).id) \notin live
  <2>1. Head(hand[p]).id \in Ids
    BY <1>a DEF Messages
  <2> QED
    BY <1>2, <1>5, <1>a, <2>1
<1>8. ASSUME Head(hand[p]) \in Messages, ~undefined',
             NEW to \in {Out, Nowhere}, NEW gone, NEW more \in SUBSET {Payload(Head(hand[p]))},
             gone = IF to = Out THEN {} ELSE {Source(Head(hand[p]))},
             live' = (live \ gone) \cup more,
             Moves(HandOf(p), to, {Head(hand[p]).id})
      PROVE  Memory'
  <2> DEFINE m == Head(hand[p])
  <2>1. m.id \in Ids /\ m.id \in At(HandOf(p))
    BY <1>8 DEF Moves, Messages
  <2>2. SourceOf(m.id) \in live /\ BufferOf(m.id) \notin live
    BY <1>8, <1>a, <2>1
  <2>3. gone = IF to = Out THEN {} ELSE {SourceOf(m.id)}
    BY <1>3, <1>8
  <2>4. more \subseteq {PayloadOf(m.id)} /\ PayloadOf(m.id) \in ScrapObjects
    BY <1>3, <1>8, <2>1 DEF ScrapObjects
  <2>5. BufferOf(m.id) \notin more /\ SourceOf(m.id) \notin more
    BY <2>4, ScrapsApart
  <2>6. Moves(HandOf(p), to, {m.id})
    BY <1>8
  <2>7. /\ Out # Nowhere /\ HandOf(p) # to /\ to \in Places \cup {Nowhere} /\ to \notin Unparsed
    BY <1>2, PlacesDiffer
  <2> HIDE DEF m, Nowhere, Out, HandOf, SourceOf, BufferOf, PayloadOf, Places, Unparsed,
               MayBeUnparsed, ScrapObjects
  <2>8. /\ \A o : \/ o \in ScrapObjects \/ o = SourceOf(m.id)
                  \/ o \in live' <=> o \in live
        /\ SourceOf(m.id) \in live' <=> to # Nowhere
        /\ BufferOf(m.id) \notin live'
    BY <1>8, <2>2, <2>3, <2>4, <2>5, <2>7
  <2> QED
    BY <1>0, <1>2, <1>8, <2>1, <2>6, <2>7, <2>8, OneMoves
<1>9. CASE WriteOutput(p)
  <2> DEFINE m == Head(hand[p])
  <2>1. PICK more \in SUBSET {Payload(m)} :
          \/ Moves(HandOf(p), Out, {m.id}) /\ live' = live \cup more
          \/ Moves(HandOf(p), Nowhere, {m.id}) /\ live' = (live \ {Source(m)}) \cup more
    BY <1>0, <1>9, MessageWritten DEF Queues
  <2>2. m \in Messages
    BY <1>0, <1>9, MessageWritten DEF Queues
  <2>3. m.id \in At(HandOf(p))
    BY <2>1 DEF Moves
  <2>4. ~undefined'
    BY <1>1, <1>3, <1>9, <1>a, <2>2, <2>3 DEF WriteOutput
  <2>5. Out # Nowhere
    BY <1>2
  <2>6. CASE Moves(HandOf(p), Out, {m.id}) /\ live' = live \cup more
    <3>1. live' = (live \ {}) \cup more
      BY <2>6
    <3> QED
      BY <1>8, <2>2, <2>4, <2>6, <3>1
  <2>7. CASE Moves(HandOf(p), Nowhere, {m.id}) /\ live' = (live \ {Source(m)}) \cup more
    BY <1>8, <2>2, <2>4, <2>5, <2>7
  <2> QED
    BY <2>1, <2>6, <2>7
<1>10. CASE Absorb(p) \/ AbsorbFails(p)
  <2> DEFINE m == Head(hand[p])
  <2>1. m \in Messages /\ Moves(HandOf(p), Nowhere, {m.id}) /\ m.id \in At(HandOf(p))
    BY <1>0, <1>10, MessageAbsorbed DEF Queues, Moves
  <2>2. SourceOf(m.id) \in live
    BY <1>a, <2>1
  <2>3. ~undefined' /\ \E more \in SUBSET {Payload(m)} : live' = (live \ {Source(m)}) \cup more
    <3>1. CASE Absorb(p)
      <4>1. ~undefined' /\ live' = (live \ {Source(m)}) \cup {}
        BY <1>1, <1>3, <2>2, <3>1 DEF Absorb, UsesAndFrees
      <4> QED
        BY <4>1
    <3>2. CASE AbsorbFails(p)
      BY <1>1, <1>3, <2>2, <3>2 DEF AbsorbFails
    <3> QED
      BY <1>10, <3>1, <3>2
  <2>4. Out # Nowhere
    BY <1>2
  <2> QED
    BY <1>8, <2>1, <2>3, <2>4
<1>12. CASE WalkHeadless(p)
  <2>1. /\ QueuesStay /\ live' = live /\ headless' # {}
    BY <1>0, <1>12 DEF WalkHeadless, WorkerFrame, listenerVars, QueuesStay
  <2> QED
    BY <1>0, <2>1, MemoryStays
<1>11. CASE CancelWorker(p)
  <2> DEFINE ids == IdsOf(hand[p])
  <2>1. Moves(HandOf(p), Lost, ids) /\ ids \subseteq At(HandOf(p))
    BY <1>0, <1>11, HandLost DEF Queues, Moves
  <2>2. ids \in SUBSET Ids
    BY MessageIds DEF Queues, QueueTypes
  <2>3. live' = live /\ ~undefined'
    BY <1>0, <1>11 DEF CancelWorker, NoMemory, WorkerFrame
  <2> HIDE DEF ids
  <2>4. \A i \in ids : SourceOf(i) \in live
    BY <1>2, <1>5, <2>1, <2>2
  <2>5. Objects'
    BY <1>0, <2>3, ObjectsStay DEF Memory
  <2> HIDE DEF Nowhere, HandOf, Lost, SourceOf, BufferOf, Places, Unparsed, MayBeUnparsed
  <2>6. Packets'
    <3>1. \A i \in Ids \ ids : /\ SourceOf(i) \in live' <=> SourceOf(i) \in live
                               /\ BufferOf(i) \in live' <=> BufferOf(i) \in live
      BY <2>3
    <3>2. \A i \in ids : /\ SourceOf(i) \in live' <=> Lost # Nowhere
                         /\ BufferOf(i) \in live' => Lost \in MayBeUnparsed
                         /\ Lost \in Unparsed => BufferOf(i) \in live'
      BY <1>2, <2>3, <2>4
    <3>3. /\ HandOf(p) # Lost /\ Lost \in Places \cup {Nowhere}
          /\ \A o \in live' : o \in live \/ o \in FixedObjects
      BY <1>2, <2>3
    <3> QED
      BY <1>2, <2>1, <2>2, <3>1, <3>2, <3>3, PacketsMove DEF Memory, Queues
  <2> QED
    BY <2>3, <2>5, <2>6 DEF Memory
<1> QED
  BY <1>6, <1>7, <1>9, <1>10, <1>11, <1>12 DEF WorkerStep, WorkerChoice

(* Every step keeps the memory.                                             *)
LEMMA MemoryKept ==
  ASSUME Control, Queues, Memory, Scraps, [Next]_vars, ~broken'
  PROVE  Memory'
<1>1. CASE UNCHANGED vars
  BY <1>1, MemoryStays DEF vars, userVars, listenerVars, threadVars, QueuesStay, Memory
<1> QED
  BY <1>1, UserKeepsMemory, CreationKeepsMemory, ReceptionKeepsMemory, StopKeepsMemory,
     WorkerKeepsMemory, TimersKeepMemory DEF Next, ListenerStep, ListenerFails, Datagram

(* Nothing but the memory of datagrams that are not empty and the other     *)
(* objects comes or goes, no empty datagram does.                           *)
LEMMA ScrapsStay ==
  ASSUME Scraps, UNCHANGED forgotten, 0 \in abandoned' <=> 0 \in abandoned,
         HasEmpty(batch') <=> HasEmpty(batch),
         \A o \in ScrapObjects : o \in live' <=> o \in live
  PROVE  Scraps'
<1>1. HasEmpty(batch)' <=> HasEmpty(batch)
  BY DEF HasEmpty
<1> HIDE DEF HasEmpty, SourceOf, BufferOf, PayloadOf
<1> QED
  BY <1>1 DEF Scraps, ScrapObjects

(* The memory of a message is none of the scraps.                           *)
LEMMA MessagesApart ==
  ASSUME NEW m \in Messages
  PROVE  /\ m.id \in Ids /\ m.id # 0
         /\ Buffer(m) \notin ScrapObjects /\ Source(m) \notin ScrapObjects
         /\ Buffer(m) # Payload(m) /\ Source(m) # Payload(m)
<1>1. m.id \in Ids
  BY DEF Messages
<1> QED
  BY <1>1, IdsPositive, PacketMemory, ScrapsApart

(* Giving up messages is not giving up an empty datagram.                   *)
LEMMA MessagesAbandoned ==
  ASSUME NEW q \in Seq(Messages), Abandon(q)
  PROVE  0 \in abandoned' <=> 0 \in abandoned
<1>1. \A i \in 1..Len(q) : q[i].id # 0
  <2>1. \A i \in 1..Len(q) : q[i] \in Messages
    OBVIOUS
  <2> QED
    BY <2>1, MessagesApart
<1> QED
  BY <1>1 DEF Abandon

(* The empty datagrams of a batch, its head among them or not.              *)
LEMMA EmptiesOfTail ==
  ASSUME NEW q \in Seq(Messages \cup {Empty}), q # <<>>
  PROVE  /\ HasEmpty(q) <=> Head(q) = Empty \/ HasEmpty(Tail(q))
         /\ HasEmpty(Tail(q)) <=> \E i \in 2..Len(q) : q[i] = Empty
<1>1. \A i \in 1..Len(q) : q[i].id = 0 <=> q[i] = Empty
  <2>1. \A i \in 1..Len(q) : q[i] \in Messages \/ q[i] = Empty
    OBVIOUS
  <2>2. \A m \in Messages : m.id # 0
    BY MessagesApart
  <2> QED
    BY <2>1, <2>2 DEF Empty
<1>2. /\ Head(q) = q[1] /\ Len(q) \in Nat \ {0} /\ Len(Tail(q)) = Len(q) - 1
      /\ \A i \in 1..Len(Tail(q)) : Tail(q)[i] = q[i + 1]
  OBVIOUS
<1>3. HasEmpty(Tail(q)) <=> \E i \in 2..Len(q) : q[i].id = 0
  <2>1. ASSUME HasEmpty(Tail(q)) PROVE \E i \in 2..Len(q) : q[i].id = 0
    <3>1. PICK i \in 1..Len(Tail(q)) : Tail(q)[i].id = 0
      BY <2>1 DEF HasEmpty
    <3>2. i + 1 \in 2..Len(q) /\ q[i + 1].id = 0
      BY <1>2, <3>1
    <3> QED
      BY <3>2
  <2>2. ASSUME NEW i \in 2..Len(q), q[i].id = 0 PROVE HasEmpty(Tail(q))
    <3>1. i - 1 \in 1..Len(Tail(q)) /\ Tail(q)[i - 1] = q[i]
      BY <1>2
    <3> QED
      BY <2>2, <3>1 DEF HasEmpty
  <2> QED
    BY <2>1, <2>2
<1>4. HasEmpty(q) <=> q[1].id = 0 \/ \E i \in 2..Len(q) : q[i].id = 0
  BY <1>2 DEF HasEmpty
<1>5. 1 \in 1..Len(q) /\ \A i \in 2..Len(q) : i \in 1..Len(q)
  BY <1>2
<1> HIDE DEF Empty, HasEmpty
<1> QED
  BY <1>1, <1>2, <1>3, <1>4, <1>5

(* The user's threads, the listener's creation of the others, the clean-up  *)
(* threads and the monitoring thread.                                       *)
LEMMA OthersKeepScraps ==
  ASSUME Control, Queues, Scraps,
         \/ UserStep \/ UserChoice \/ ReaderStep
         \/ (create_monitoring_thread \/ create_parse_worker) /\ CreateFrame
         \/ (\E p \in Parsers : CleanerStep(p)) \/ MonitorStep
  PROVE  Scraps'
<1> HIDE DEF Parsers, Scraps, ScrapObjects
<1>1. UNCHANGED <<forgotten, abandoned, batch>>
  BY DEF UserStep, UserChoice, ReaderStep, UserFrame, CreateFrame, CleanerStep, MonitorStep,
     TimerFrame, userVars, listenerVars, create_monitoring_thread, create_parse_worker
<1>2. \A o \in ScrapObjects : o \notin FixedObjects
  BY ScrapsApart
<1>3. /\ {Struct, Output, MonitoringQueue, Conn, In, ParserArray, MonitoringWorker}
           \subseteq FixedObjects
      /\ \A p \in Parsers : Worker(p) \in FixedObjects /\ CleanupIn(p) \in FixedObjects
  BY DEF FixedObjects
<1>4. output # <<>> => Source(Head(output)) \notin ScrapObjects
  <2>1. output # <<>> => Head(output) \in Messages
    BY DEF Queues, QueueTypes
  <2> QED
    BY <2>1, MessagesApart
<1>5. next \in Parsers
  BY DEF Control, ControlTypes
<1> HIDE DEF FixedObjects, Struct, Output, MonitoringQueue, Conn, In, ParserArray,
             MonitoringWorker, Worker, CleanupIn, Source
<1>6. \A o \in ScrapObjects : o \in live' <=> o \in live
  <2>1. CASE UserStep \/ UserChoice \/ ReaderStep
    BY <1>2, <1>3, <1>4, <2>1 DEF UserStep, UserChoice, ReaderStep,
       unyte_udp_start_collector, unyte_udp_create_listener, CallRead, SampleRead, SummaryRead,
       t_read_test, t_read, ReadMessage, CloseSocket, JoinReader, JoinListener, DrainOutput,
       unyte_udp_free_collector, Alloc, Uses, UsesAndFrees, NoMemory
  <2>2. CASE create_monitoring_thread \/ create_parse_worker
    BY <1>2, <1>3, <1>5, <2>2 DEF create_monitoring_thread, create_parse_worker, UsesAndAllocs
  <2>3. CASE (\E p \in Parsers : CleanerStep(p)) \/ MonitorStep
    BY <1>2, <1>3, <2>3 DEF CleanerStep, MonitorStep, t_clean_up_test, t_clean_up,
       t_monitoring_test, t_monitoring_unyte_udp, Uses, UsesAndFrees
  <2> QED
    BY <2>1, <2>2, <2>3
<1> HIDE DEF HasEmpty
<1> QED
  BY <1>1, <1>6, ScrapsStay

(* The listener while it receives and dispatches: where empty datagrams     *)
(* come and go.                                                             *)
LEMMA ReceptionKeepsScraps ==
  ASSUME Control, Queues, Scraps, ~broken', ReceiveFrame,
         \/ recvmmsg \/ SkipEmpty \/ Dispatch \/ RecvInterrupted \/ DispatchFails
         \/ ArriveMessage \/ ArriveEmpty
  PROVE  Scraps'
<1>0. UNCHANGED forgotten /\ batch \in Seq(Messages \cup {Empty})
  BY DEF ReceiveFrame, Queues, QueueTypes
<1>1. CASE recvmmsg
  <2>1. UNCHANGED <<abandoned, batch, live>>
    BY <1>1 DEF recvmmsg, Uses
  <2> HIDE DEF HasEmpty
  <2> QED
    BY <1>0, <2>1, ScrapsStay
<1>2. CASE ArriveMessage
  <2>1. PICK m \in Messages : /\ batch' = Append(batch, m) /\ UNCHANGED abandoned
                              /\ live' = live \cup {Buffer(m), Source(m)}
    <3>1. PICK o \in Odids : LET m == [odid |-> o, id |-> sent + 1]
                             IN Arrive(m) /\ Alloc({Buffer(m), Source(m)})
      BY <1>2 DEF ArriveMessage
    <3>2. sent + 1 \in Ids
      BY <1>2, DatagramArrives DEF Queues, Control
    <3> QED
      BY <3>1, <3>2 DEF Arrive, Alloc, Messages
  <2>2. HasEmpty(batch') <=> HasEmpty(batch)
    BY <1>0, <2>1, MessagesApart DEF HasEmpty
  <2> HIDE DEF HasEmpty
  <2> QED
    BY <1>0, <2>1, <2>2, MessagesApart, ScrapsStay
<1>3. CASE ArriveEmpty
  <2>1. /\ batch' = Append(batch, Empty) /\ UNCHANGED abandoned
        /\ live' = live \cup {BufferOf(0), SourceOf(0)}
    BY <1>3, PacketMemory DEF ArriveEmpty, Arrive, Alloc, Empty
  <2>2. HasEmpty(batch')
    <3>1. batch'[Len(batch')] = Empty /\ Len(batch') \in 1..Len(batch')
      BY <1>0, <2>1
    <3> QED
      BY <3>1 DEF HasEmpty, Empty
  <2>3. HasEmpty(batch)'
    BY <2>2 DEF HasEmpty
  <2> HIDE DEF HasEmpty, SourceOf, BufferOf, PayloadOf
  <2> QED
    BY <1>0, <2>1, <2>3, ScrapsApart DEF Scraps
<1>4. CASE RecvInterrupted
  <2>1. /\ UNCHANGED batch /\ live' = live \cup {SourceOf(0)}
        /\ abandoned' = abandoned \cup {0}
    BY <1>4, PacketMemory, EmptyAbandoned DEF RecvInterrupted, Alloc, ReceiveFrame, Empty
  <2>2. HasEmpty(batch)' <=> HasEmpty(batch)
    BY <2>1 DEF HasEmpty
  <2> HIDE DEF HasEmpty, SourceOf, BufferOf, PayloadOf
  <2>3. BufferOf(0) # SourceOf(0) /\ \A i : PayloadOf(i) # SourceOf(0)
    BY ScrapsApart, PacketsNotFixed
  <2> QED
    BY <1>0, <2>1, <2>2, <2>3 DEF Scraps
<1>5. CASE SkipEmpty \/ Dispatch
  <2>0. batch # <<>> /\ batch' = Tail(batch)
    BY <1>5 DEF SkipEmpty, Dispatch, NextDatagram, Queues, Emptied
  <2>1. /\ HasEmpty(batch) <=> Head(batch) = Empty \/ HasEmpty(Tail(batch))
        /\ HasEmpty(Tail(batch)) <=> \E i \in 2..Len(batch) : batch[i] = Empty
    BY <1>0, <2>0, EmptiesOfTail
  <2>2. HasEmpty(batch)' <=> HasEmpty(Tail(batch))
    BY <2>0 DEF HasEmpty
  <2>3. CASE SkipEmpty
    <3>1. /\ Head(batch) = Empty /\ abandoned' = abandoned \cup {0}
          /\ live' = live \ (IF HasEmpty(Tail(batch)) THEN {} ELSE {BufferOf(0)})
      BY <2>1, <2>3, EmptyAbandoned, PacketMemory DEF SkipEmpty, UsesAndFrees, Empty
    <3> HIDE DEF HasEmpty, SourceOf, BufferOf, PayloadOf, Empty
    <3>2. BufferOf(0) # SourceOf(0) /\ \A i : PayloadOf(i) # BufferOf(0)
      BY ScrapsApart, PacketsNotFixed
    <3> QED
      BY <1>0, <2>1, <2>2, <3>1, <3>2 DEF Scraps
  <2>4. CASE Dispatch
    <3> DEFINE m == Head(batch)
    <3>1. m # Empty /\ m \in Messages
      BY <1>0, <2>0, <2>4 DEF Dispatch
    <3>2. /\ \/ UNCHANGED abandoned
             \/ Abandon(<<m>>)
          /\ UNCHANGED live \/ live' = live \ {Buffer(m)}
      BY <2>4 DEF Dispatch, Uses, UsesAndFrees
    <3> HIDE DEF m
    <3>3. 0 \in abandoned' <=> 0 \in abandoned
      <4>1. <<m>> \in Seq(Messages)
        BY <3>1
      <4> QED
        BY <3>2, <4>1, MessagesAbandoned
    <3>4. \A o \in ScrapObjects : o \in live' <=> o \in live
      BY <3>1, <3>2, MessagesApart
    <3>5. HasEmpty(batch') <=> HasEmpty(batch)
      BY <2>0, <2>1, <3>1 DEF m
    <3> HIDE DEF HasEmpty
    <3> QED
      BY <1>0, <3>3, <3>4, <3>5, ScrapsStay
  <2> QED
    BY <1>5, <2>3, <2>4
<1> QED
  BY <1>1, <1>2, <1>3, <1>4, <1>5 DEF DispatchFails

(* The listener while it shuts down: what it gives up are messages.         *)
LEMMA StopKeepsScraps ==
  ASSUME Control, Queues, Scraps, StopFrame,
         \/ stop_parsers_and_monitoring \/ free_parsers_cleanup \/ free_parsers
         \/ free_monitoring_worker \/ t_listener_exit
  PROVE  Scraps'
<1> HIDE DEF Parsers, ScrapObjects
<1>1. UNCHANGED <<forgotten, batch>> /\ next \in Parsers /\ input[next] \in Seq(Messages)
  BY DEF StopFrame, Control, ControlTypes, Queues, QueueTypes
<1>2. UNCHANGED abandoned \/ Abandon(input[next])
  BY DEF stop_parsers_and_monitoring, free_parsers_cleanup, free_parsers,
     free_monitoring_worker, t_listener_exit
<1>3. 0 \in abandoned' <=> 0 \in abandoned
  BY <1>1, <1>2, MessagesAbandoned
<1>4. \A o \in ScrapObjects : o \in live' <=> o \in live
  <2>1. {MonitoringWorker, In, ParserArray, Conn, Worker(next)} \subseteq FixedObjects
    BY <1>1 DEF FixedObjects
  <2> HIDE DEF FixedObjects, Conn, In, ParserArray, MonitoringWorker, Worker, CleanupIn
  <2>2. UNCHANGED live \/ \E gone \in SUBSET FixedObjects : live' = live \ gone
    BY <2>1 DEF stop_parsers_and_monitoring, free_parsers_cleanup, free_parsers,
       free_monitoring_worker, t_listener_exit, Uses, UsesAndFrees
  <2> QED
    BY <2>2, ScrapsApart
<1> HIDE DEF HasEmpty
<1> QED
  BY <1>1, <1>3, <1>4, ScrapsStay

(* A payload is forgotten.                                                  *)
LEMMA PayloadForgotten ==
  ASSUME Scraps, UNCHANGED <<abandoned, batch>>, NEW m \in Messages,
         forgotten' = forgotten \cup {m.id}, Payload(m) \in live',
         \A o \in ScrapObjects : o = Payload(m) \/ (o \in live' <=> o \in live)
  PROVE  Scraps'
<1>1. HasEmpty(batch)' <=> HasEmpty(batch)
  BY DEF HasEmpty
<1>2. m.id \in Ids /\ Payload(m) = PayloadOf(m.id)
  BY MessagesApart, PacketMemory
<1>3. /\ PayloadOf(m.id) # BufferOf(0) /\ PayloadOf(m.id) # SourceOf(0)
      /\ \A i \in Ids : PayloadOf(i) = PayloadOf(m.id) => i = m.id
  BY ScrapsApart
<1> HIDE DEF HasEmpty, SourceOf, BufferOf, PayloadOf
<1> QED
  BY <1>1, <1>2, <1>3 DEF Scraps, ScrapObjects

(* The workers: where payloads are forgotten.                               *)
LEMMA WorkerKeepsScraps ==
  ASSUME Queues, Scraps, NEW p \in Parsers, WorkerStep(p) \/ WorkerChoice(p)
  PROVE  Scraps'
<1> HIDE DEF Parsers, ScrapObjects
<1>0. /\ UNCHANGED batch
      /\ input[p] \in Seq(Messages) /\ hand[p] \in Seq(Messages)
      /\ worker[p] = "parsed" => hand[p] # <<>>
  <2>1. UNCHANGED batch
    BY DEF WorkerStep, WorkerChoice, WorkerFrame, listenerVars
  <2>2. input[p] \in Seq(Messages) /\ hand[p] \in Seq(Messages)
    BY DEF Queues, QueueTypes
  <2>3. worker[p] = "parsed" => Len(hand[p]) = 1
    BY DEF Queues, Emptied
  <2>4. Len(<<>>) = 0
    OBVIOUS
  <2> QED
    <3>1. ASSUME worker[p] = "parsed" PROVE hand[p] # <<>>
      BY <2>3, <2>4, <3>1
    <3> QED
      BY <2>1, <2>2, <3>1
<1> DEFINE m == Head(hand[p])  n == Head(input[p])
<1>1. worker[p] = "parsed" => m \in Messages
  BY <1>0
<1>2. input[p] # <<>> => n \in Messages
  BY <1>0
<1> HIDE DEF m, n, HasEmpty, Scraps
<1>3. CASE ReadInput(p) \/ Absorb(p) \/ ParseFails(p)
  <2>1. /\ UNCHANGED forgotten
        /\ UNCHANGED abandoned \/ (input[p] # <<>> /\ Abandon(<<n>>))
        /\ \/ UNCHANGED live
           \/ input[p] # <<>> /\ live' = live \ {Buffer(n)}
           \/ worker[p] = "parsed" /\ live' = live \ {Source(m)}
    BY <1>3 DEF ReadInput, Absorb, ParseFails, Uses, UsesAndFrees, m, n
  <2>2. 0 \in abandoned' <=> 0 \in abandoned
    <3>1. input[p] # <<>> => <<n>> \in Seq(Messages)
      BY <1>2
    <3> QED
      BY <2>1, <3>1, MessagesAbandoned
  <2>3. \A o \in ScrapObjects : o \in live' <=> o \in live
    BY <1>1, <1>2, <2>1, MessagesApart
  <2> QED
    BY <1>0, <2>1, <2>2, <2>3, ScrapsStay
<1>4. CASE CancelWorker(p) \/ WalkHeadless(p)
  <2>1. /\ UNCHANGED <<forgotten, live>>
        /\ UNCHANGED abandoned \/ Abandon(hand[p])
    BY <1>4 DEF CancelWorker, WalkHeadless, NoMemory
  <2>2. 0 \in abandoned' <=> 0 \in abandoned
    BY <1>0, <2>1, MessagesAbandoned
  <2> QED
    BY <1>0, <2>1, <2>2, ScrapsStay
<1>5. CASE WriteOutput(p) \/ AbsorbFails(p)
  <2>1. /\ worker[p] = "parsed" /\ UNCHANGED abandoned
        /\ \E freed \in SUBSET {Source(m)} :
             \/ forgotten' = forgotten /\ live' = live \ freed
             \/ forgotten' = forgotten \cup {m.id} /\ live' = (live \ freed) \cup {Payload(m)}
    <3>1. worker[p] = "parsed" /\ UNCHANGED abandoned
      BY <1>5 DEF WriteOutput, AbsorbFails
    <3>2. \/ \E freed \in SUBSET {Source(m)} :
               forgotten' = forgotten /\ live' = (live \ freed) \cup {}
          \/ \E freed \in SUBSET {Source(m)} :
               forgotten' = forgotten \cup {m.id} /\ live' = (live \ freed) \cup {Payload(m)}
      <4>1. CASE WriteOutput(p)
        BY <4>1 DEF WriteOutput, m
      <4>2. CASE AbsorbFails(p)
        <5>1. PICK third \in BOOLEAN :
                /\ live' = (live \ {Source(m)}) \cup (IF third THEN {} ELSE {Payload(m)})
                /\ forgotten' = forgotten \cup (IF third THEN {} ELSE {m.id})
          BY <4>2 DEF AbsorbFails, m
        <5> QED
          BY <5>1
      <4> QED
        BY <1>5, <4>1, <4>2
    <3> QED
      BY <3>1, <3>2
  <2>2. PICK freed \in SUBSET {Source(m)} :
             \/ forgotten' = forgotten /\ live' = live \ freed
             \/ forgotten' = forgotten \cup {m.id} /\ live' = (live \ freed) \cup {Payload(m)}
    BY <2>1
  <2>3. \A o \in ScrapObjects : o \notin freed
    BY <1>1, <2>1, MessagesApart
  <2>4. CASE forgotten' = forgotten /\ live' = live \ freed
    BY <1>0, <2>1, <2>3, <2>4, ScrapsStay
  <2>5. CASE forgotten' = forgotten \cup {m.id} /\ live' = (live \ freed) \cup {Payload(m)}
    BY <1>0, <1>1, <2>1, <2>3, <2>5, PayloadForgotten
  <2> QED
    BY <2>2, <2>4, <2>5
<1> QED
  BY <1>3, <1>4, <1>5 DEF WorkerStep, WorkerChoice

(* Every step keeps the scraps.                                             *)
LEMMA ScrapsKept ==
  ASSUME Control, Queues, Scraps, [Next]_vars, ~broken'
  PROVE  Scraps'
<1>1. CASE UNCHANGED vars
  <2>1. UNCHANGED <<forgotten, abandoned, batch, live>>
    BY <1>1 DEF vars, listenerVars
  <2> HIDE DEF HasEmpty
  <2> QED
    BY <2>1, ScrapsStay
<1>2. ~((CreationFails /\ CreateFrame) \/ DispatchFails)
  BY DEF CreationFails, DispatchFails
<1> HIDE DEF Scraps
<1> QED
  BY <1>1, <1>2, OthersKeepScraps, ReceptionKeepsScraps, StopKeepsScraps, WorkerKeepsScraps
  DEF Next, ListenerStep, ListenerFails, Datagram

-----------------------------------------------------------------------------
(* A collector starts with nothing.                                         *)
LEMMA InitCollector == Init => CollectorInv
<1> SUFFICES ASSUME Init PROVE CollectorInv
  OBVIOUS
<1> USE ParserNumbers DEF Init
<1> HIDE DEF Used, Parsers
<1>1. Control
  BY DEF Control, ControlTypes, Phases, ReaderPlace, ThreadPlaces, NotYet, Gone, Running,
     Joining, Joined
<1>2. \A x \in Places : At(x) = {}
  <2>1. /\ IdsOf(batch) = {} /\ IdsOf(output) = {} /\ abandoned \ {0} = {}
        /\ \A p \in Parsers : IdsOf(input[p]) = {} /\ IdsOf(hand[p]) = {}
    BY ShortIds
  <2>2. /\ At(Batch) = {} /\ At(Out) = {} /\ At(Lost) = {}
        /\ \A p \in Parsers : At(InputOf(p)) = {} /\ At(HandOf(p)) = {}
    BY <2>1, AtPlaces, LostIds
  <2>3. SUFFICES ASSUME NEW x \in Places PROVE At(x) = {}
    OBVIOUS
  <2>4. \/ x = Batch \/ x = Out \/ x = Lost
        \/ \E p \in Parsers : x = InputOf(p) \/ x = HandOf(p)
    BY PlacesDiffer
  <2> QED
    BY <2>2, <2>4
<1>3. Queues
  <2>1. QueueTypes /\ Emptied
    BY DEF QueueTypes, Emptied, Gone, Joining, Joined
  <2>2. OnePlace
    BY <1>2, ShortIds DEF OnePlace
  <2> QED
    BY <2>1, <2>2 DEF Queues
<1>4. Objects
  BY DEF Objects, Exists, Running, Joining
<1>5. Packets
  <2>1. Unparsed \subseteq Places /\ MayBeUnparsed \subseteq Places
    BY DEF Unparsed, MayBeUnparsed, Places
  <2> HIDE DEF Unparsed, MayBeUnparsed, Places
  <2> QED
    BY <1>2, <2>1 DEF Packets
<1>6. Scraps
  <2>1. ~HasEmpty(batch)
    BY ShortIds DEF HasEmpty
  <2> QED
    BY <2>1 DEF Scraps
<1> QED
  BY <1>1, <1>3, <1>4, <1>5, <1>6 DEF CollectorInv

(* As long as nothing but the user's close ended the listener: the threads  *)
(* are where Control says, every datagram is in one place, and exactly the  *)
(* memory that Objects and Packets name is allocated.                       *)
THEOREM CollectorInvHolds == Spec => []CollectorInv
<1>1. CollectorInv /\ [Next]_vars => CollectorInv'
  <2> SUFFICES ASSUME CollectorInv, [Next]_vars, ~broken'
               PROVE  /\ undefined' => headless' # {}
                      /\ (Control /\ Queues /\ Objects /\ Packets /\ Scraps)'
    BY DEF CollectorInv
  <2>1. ~broken
    BY BrokenStays
  <2>2. Control /\ Queues /\ Memory /\ Scraps
    BY <2>1 DEF CollectorInv, Memory
  <2> QED
    BY <2>2, ControlKept, QueuesKept, MemoryKept, ScrapsKept DEF Memory
<1> QED
  BY <1>1, InitCollector, PTL DEF Spec

(* No thread uses or frees an object of the collector that is not allocated *)
(* yet or already freed, from the start to the end of                       *)
(* unyte_udp_free_collector (src/unyte_udp_collector.c, and the shutdown in *)
(* src/listening_worker.c), unless a segment list could not be allocated.   *)
THEOREM CollectorMemorySafe == Spec => []MemorySafe
<1>1. CollectorInv => MemorySafe
  BY DEF CollectorInv, MemorySafe
<1> QED
  BY <1>1, CollectorInvHolds, PTL

(* When the user is done every thread of the collector has ended.           *)
THEOREM CollectorNoThreadLeft == Spec => []NoThreadLeft
<1>1. CollectorInv => NoThreadLeft
  BY DEF CollectorInv, NoThreadLeft, Control, ControlTypes, Phases, ThreadPlaces, Gone, Joined
<1> QED
  BY <1>1, CollectorInvHolds, PTL

(* By then only memory of datagrams that the code has abandoned and the     *)
(* payloads it forgot are left, and all of them are.                        *)
THEOREM CollectorOnlyAbandonedLeak == Spec => []OnlyAbandonedLeak
<1>1. CollectorInv => OnlyAbandonedLeak
  <2> SUFFICES ASSUME CollectorInv, user = "done", ~broken
               PROVE  /\ live \subseteq ({"buffer", "sockaddr_storage"} \X abandoned)
                                           \cup ({"payload"} \X forgotten)
                      /\ ({"sockaddr_storage"} \X abandoned) \cup ({"payload"} \X forgotten)
                           \subseteq live
    BY DEF OnlyAbandonedLeak
  <2>1. Control /\ Queues /\ Objects /\ Packets /\ Scraps
    BY DEF CollectorInv
  <2>2. listener = "ended" /\ \A p \in Parsers : Gone(p)
    BY <2>1 DEF Control, Phases, Gone, Joined
  <2>3. \A p \in Parsers : worker[p] = "ended" /\ cleaner[p] = "ended"
    BY <2>1, <2>2 DEF Control, ThreadPlaces
  <2>4. \A x \in Places : x # Lost => At(x) = {}
    <3>1. IdsOf(batch) = {} /\ IdsOf(output) = {}
      BY <2>1, <2>2, ShortIds DEF Queues, Emptied
    <3>2. \A p \in Parsers : IdsOf(input[p]) = {} /\ IdsOf(hand[p]) = {}
      BY <2>1, <2>2, <2>3, ShortIds DEF Queues, Emptied, QueueTypes
    <3> QED
      BY <3>1, <3>2, AtPlaces, PlacesDiffer
  <2>5. \A o \in FixedObjects : o \notin live
    <3>1. /\ Struct \notin live /\ Output \notin live /\ MonitoringQueue \notin live
          /\ Conn \notin live /\ In \notin live
          /\ ParserArray \notin live /\ MonitoringWorker \notin live
      BY <2>1, <2>2 DEF Objects, Joined
    <3>2. \A p \in Parsers : ~Exists(p)
      BY <2>2 DEF Exists, Running, Joining
    <3>3. \A p \in Parsers : Worker(p) \notin live /\ CleanupIn(p) \notin live
      BY <2>1, <2>3, <3>2 DEF Objects
    <3> QED
      BY <3>1, <3>3 DEF FixedObjects
  <2>6. abandoned \subseteq Ids \cup {0} /\ At(Lost) = abandoned \ {0} /\ Lost \in Places
        /\ MayBeUnparsed \subseteq Places
    BY <2>1, LostIds, PlacesDiffer DEF Queues, QueueTypes, MayBeUnparsed, Unparsed, Places
  <2>7. \A i \in Ids : (SourceOf(i) \in live \/ BufferOf(i) \in live) => i \in abandoned
    <3> HIDE DEF MayBeUnparsed, Places, Lost, SourceOf, BufferOf
    <3> QED
      BY <2>1, <2>4, <2>6 DEF Packets
  <2>8. ~HasEmpty(batch)
    BY <2>1, <2>2, ShortIds DEF Queues, Emptied, HasEmpty
  <2>9. \A i \in abandoned : SourceOf(i) \in live
    BY <2>1, <2>6 DEF Packets, Scraps
  <2>10. \A o \in live : \/ \E i \in abandoned : o = SourceOf(i) \/ o = BufferOf(i)
                        \/ \E i \in forgotten : o = PayloadOf(i)
    <3> SUFFICES ASSUME NEW o \in live
                 PROVE  \/ \E i \in abandoned : o = SourceOf(i) \/ o = BufferOf(i)
                        \/ \E i \in forgotten : o = PayloadOf(i)
      OBVIOUS
    <3>1. CASE o \in ScrapObjects
      <4> HIDE DEF SourceOf, BufferOf, PayloadOf
      <4> QED
        BY <2>1, <2>8, <3>1 DEF Scraps, ScrapObjects
    <3>2. CASE o \notin ScrapObjects
      <4> HIDE DEF SourceOf, BufferOf, PayloadOf, FixedObjects, ScrapObjects
      <4> QED
        BY <2>1, <2>5, <2>7, <3>2 DEF Packets
    <3> QED
      BY <3>1, <3>2
  <2>11. \A i \in forgotten : PayloadOf(i) \in live
    BY <2>1 DEF Scraps
  <2> QED
    BY <2>9, <2>10, <2>11 DEF SourceOf, BufferOf, PayloadOf
<1> QED
  BY <1>1, CollectorInvHolds, PTL

-----------------------------------------------------------------------------
(* The datagrams of a domain stay in order.  These hold of a broken         *)
(* collector too.                                                           *)

(* m was received before n, if it matters.                                  *)
Before(m, n) == m # Empty /\ n # Empty /\ m.odid = n.odid => m.id < n.id

Precede(older, newer) == \A m \in older, n \in newer : Before(m, n)

Sorted(q) == \A i, j \in 1..Len(q) : i < j => Before(q[i], q[j])

(* With a parser.                                                           *)
Held(p) == Members(hand[p]) \cup Members(input[p])

OrderTypes ==
  /\ client \in Clients
  /\ batch \in Seq(Messages \cup {Empty}) /\ output \in Seq(Messages)
  /\ input \in [Parsers -> Seq(Messages)] /\ hand \in [Parsers -> Seq(Messages)]
  /\ sent \in Nat /\ delivered \in [Odids -> Seq(Ids)]
  /\ worker \in [Parsers -> {"none", "reading", "parsed", "ended"}]

AtHand ==
  /\ listener = "dispatch" => batch # <<>>
  /\ \A p \in Parsers : Len(hand[p]) <= 1
  /\ \A p \in Parsers : worker[p] = "parsed" => hand[p] # <<>>

(* One parser has all the datagrams of a domain.                            *)
Routed == \A p \in Parsers : \A m \in Held(p) : ParserOf(m) = p

QueuesSorted == Sorted(batch) /\ Sorted(output) /\ \A p \in Parsers : Sorted(input[p])

(* What is nearer to the user is older.                                     *)
Nearer ==
  /\ Precede(Members(output), Members(batch))
  /\ \A p \in Parsers : /\ Precede(Members(output), Held(p))
                        /\ Precede(Members(hand[p]), Members(input[p]))
                        /\ Precede(Held(p), Members(batch))

(* What has been delivered is older still, and nothing is newer than sent.  *)
Past ==
  /\ \A o \in Odids : \A i \in 1..Len(delivered[o]) :
        delivered[o][i] <= sent /\ \A id \in Transit(o) : delivered[o][i] < id
  /\ \A m \in OnTheWay : m.id <= sent

InOrder == OrderTypes /\ AtHand /\ Routed /\ QueuesSorted /\ Nearer /\ Past

(* What a queue holds once its head is taken.                               *)
LEMMA MembersOfTail ==
  ASSUME NEW q \in Seq(Packet), q # <<>>
  PROVE  /\ Head(q) \in Packet /\ Tail(q) \in Seq(Packet)
         /\ Members(q) = {Head(q)} \cup Members(Tail(q))
         /\ Sorted(q) => Sorted(Tail(q)) /\ Precede({Head(q)}, Members(Tail(q)))
<1>1. /\ Len(q) \in Nat \ {0} /\ Head(q) = q[1] /\ q[1] \in Packet
      /\ Tail(q) \in Seq(Packet) /\ Len(Tail(q)) = Len(q) - 1
      /\ \A i \in 1..(Len(q) - 1) : Tail(q)[i] = q[i + 1]
  OBVIOUS
<1>2. Members(q) \subseteq {Head(q)} \cup Members(Tail(q))
  <2> SUFFICES ASSUME NEW i \in 1..Len(q), i # 1 PROVE q[i] \in Members(Tail(q))
    BY <1>1 DEF Members
  <2>1. i - 1 \in 1..Len(Tail(q)) /\ Tail(q)[i - 1] = q[i]
    BY <1>1
  <2> QED
    BY <2>1 DEF Members
<1>3. {Head(q)} \cup Members(Tail(q)) \subseteq Members(q)
  BY <1>1 DEF Members
<1>4. Sorted(q) => Sorted(Tail(q)) /\ Precede({Head(q)}, Members(Tail(q)))
  BY <1>1 DEF Sorted, Precede, Members
<1> QED
  BY <1>1, <1>2, <1>3, <1>4

(* And once a datagram is appended.                                         *)
LEMMA MembersOfAppend ==
  ASSUME NEW q \in Seq(Packet), NEW m \in Packet
  PROVE  /\ Append(q, m) \in Seq(Packet) /\ Append(q, m) # <<>>
         /\ Members(Append(q, m)) = Members(q) \cup {m}
         /\ Sorted(q) /\ Precede(Members(q), {m}) => Sorted(Append(q, m))
<1> DEFINE a == Append(q, m)
<1>1. /\ Len(q) \in Nat /\ a \in Seq(Packet) /\ Len(a) = Len(q) + 1
      /\ \A i \in 1..Len(q) : a[i] = q[i]
      /\ a[Len(q) + 1] = m
  OBVIOUS
<1> HIDE DEF a
<1>2. \A i \in 1..Len(a) : i \in 1..Len(q) \/ i = Len(q) + 1
  BY <1>1
<1>3. Members(a) = Members(q) \cup {m}
  BY <1>1, <1>2 DEF Members
<1>4. Sorted(q) /\ Precede(Members(q), {m}) => Sorted(a)
  BY <1>1, <1>2 DEF Sorted, Precede, Members
<1>5. a # <<>>
  <2>1. Len(<<>>) = 0
    OBVIOUS
  <2> QED
    BY <1>1, <2>1
<1> QED
  BY <1>1, <1>3, <1>4, <1>5 DEF a

(* And of a queue of no message, or of one.                                 *)
LEMMA MembersOfShort ==
  /\ Members(<<>>) = {} /\ Sorted(<<>>)
  /\ \A m : Members(<<m>>) = {m}
  /\ \A q \in Seq(Messages) : Len(q) <= 1 /\ q # <<>> =>
       Head(q) \in Messages /\ Members(q) = {Head(q)}
<1>1. Members(<<>>) = {} /\ Sorted(<<>>)
  BY DEF Members, Sorted
<1>2. \A m : Members(<<m>>) = {m}
  BY DEF Members
<1>3. ASSUME NEW q \in Seq(Messages), Len(q) <= 1, q # <<>>
      PROVE  Head(q) \in Messages /\ Members(q) = {Head(q)}
  <2>1. Len(q) \in Nat \ {0}
    BY <1>3
  <2>2. Len(q) = 1
    <3>1. Len(q) <= 1
      BY <1>3
    <3> HIDE <1>3
    <3>2. \A n \in Nat \ {0} : n <= 1 => n = 1
      OBVIOUS
    <3> QED
      BY <2>1, <3>1, <3>2
  <2>3. q[1] = Head(q) /\ q[1] \in Messages
    BY <2>2
  <2> QED
    BY <2>2, <2>3 DEF Members
<1> QED
  BY <1>1, <1>2, <1>3

(* The members of queues are what the queues are made of.                   *)
LEMMA MembersTypes ==
  ASSUME OrderTypes
  PROVE  /\ Members(output) \subseteq Messages /\ Members(batch) \subseteq Packet
         /\ \A p \in Parsers : Members(input[p]) \subseteq Messages
                               /\ Members(hand[p]) \subseteq Messages
         /\ OnTheWay \subseteq Packet
         /\ batch \in Seq(Packet) /\ output \in Seq(Packet)
         /\ \A p \in Parsers : input[p] \in Seq(Packet) /\ hand[p] \in Seq(Packet)
<1>1. \A S : \A q \in Seq(S) : Members(q) \subseteq S
  BY DEF Members
<1>2. /\ Members(output) \subseteq Messages /\ Members(batch) \subseteq Packet
      /\ \A p \in Parsers : Members(input[p]) \subseteq Messages
                            /\ Members(hand[p]) \subseteq Messages
  BY <1>1 DEF OrderTypes, Packet
<1>3. OnTheWay \subseteq Packet
  BY <1>2 DEF OnTheWay, Packet
<1> QED
  BY <1>2, <1>3, MessagesArePackets DEF OrderTypes, Packet

(* A domain's ids on their way are ids.                                     *)
LEMMA TransitIds == ASSUME OrderTypes PROVE \A o \in Odids : Transit(o) \subseteq Ids
<1>1. \A m \in OnTheWay : m = Empty \/ m.id \in Ids
  BY MembersTypes, MessageOrEmpty
<1> QED
  BY <1>1 DEF Transit

(* What is on its way.                                                      *)
LEMMA OnTheWayPlaces ==
  /\ Members(output) \subseteq OnTheWay /\ Members(batch) \subseteq OnTheWay
  /\ \A p \in Parsers : Held(p) \subseteq OnTheWay
  /\ \A m \in OnTheWay : \/ m \in Members(output) \/ m \in Members(batch)
                         \/ \E p \in Parsers : m \in Held(p)
BY DEF OnTheWay, Held

(* Fewer datagrams on their way: some have been lost, or none.              *)
LEMMA FewerIsLoss ==
  ASSUME InOrder, OrderTypes', UNCHANGED <<delivered, sent>>,
         \A m \in OnTheWay' : m \in OnTheWay \/ m = Empty
  PROVE  Past' /\ Channel!Lose
<1>1. \A o \in Odids : Transit(o)' \subseteq Transit(o)
  BY DEF Transit
<1>2. Past'
  <2>1. \A m \in OnTheWay' : m.id <= sent'
    BY DEF InOrder, Past, OrderTypes, Empty
  <2> QED
    BY <1>1, <2>1 DEF InOrder, Past
<1>3. \A o \in Odids : Transit(o)' \subseteq Ids
  <2>1. \A m \in OnTheWay : m = Empty \/ m.id \in Ids
    BY MembersTypes, MessageOrEmpty DEF InOrder
  <2> QED
    BY <2>1 DEF Transit
<1>4. [o \in Odids |-> Transit(o)]' \in [Odids -> SUBSET Ids]
  BY <1>3
<1> QED
  BY <1>1, <1>2, <1>4 DEF Channel!Lose

(* A step that only takes datagrams away.                                   *)
Dwindles ==
  /\ \/ batch' = batch \/ batch' = <<>> \/ (batch # <<>> /\ batch' = Tail(batch))
  /\ \/ output' = output \/ (output # <<>> /\ output' = Tail(output))
  /\ \/ input' = input
     \/ \E p \in Parsers : \/ input' = [input EXCEPT ![p] = <<>>]
                           \/ input[p] # <<>> /\ input' = [input EXCEPT ![p] = Tail(@)]
  /\ \/ hand' = hand
     \/ \E p \in Parsers : hand' = [hand EXCEPT ![p] = <<>>]

(* It keeps what is left in order.                                          *)
LEMMA DwindlingKeepsOrder ==
  ASSUME InOrder, Dwindles
  PROVE  /\ batch' \in Seq(Messages \cup {Empty}) /\ output' \in Seq(Messages)
         /\ input' \in [Parsers -> Seq(Messages)] /\ hand' \in [Parsers -> Seq(Messages)]
         /\ \A p \in Parsers : hand'[p] = hand[p] \/ hand'[p] = <<>>
         /\ Routed' /\ QueuesSorted' /\ Nearer' /\ OnTheWay' \subseteq OnTheWay
<1> USE DEF InOrder
<1> HIDE DEF Parsers
<1>1. \A q \in Seq(Packet) : q # <<>> =>
        Members(Tail(q)) \subseteq Members(q) /\ (Sorted(q) => Sorted(Tail(q)))
  BY MembersOfTail
<1>2. /\ batch \in Seq(Packet) /\ output \in Seq(Packet) /\ output \in Seq(Messages)
      /\ \A p \in Parsers : /\ input[p] \in Seq(Packet) /\ input[p] \in Seq(Messages)
                            /\ hand[p] \in Seq(Messages)
  BY MembersTypes DEF OrderTypes
<1>3. /\ batch' \in Seq(Packet) /\ Members(batch') \subseteq Members(batch) /\ Sorted(batch')
  <2>1. CASE batch' = batch
    BY <1>2, <2>1 DEF QueuesSorted
  <2>2. CASE batch' = <<>>
    BY <2>2, MembersOfShort
  <2>3. CASE batch # <<>> /\ batch' = Tail(batch)
    BY <1>1, <1>2, <2>3, MembersOfTail DEF QueuesSorted
  <2> QED
    BY <2>1, <2>2, <2>3 DEF Dwindles
<1>4. output' \in Seq(Messages) /\ Members(output') \subseteq Members(output) /\ Sorted(output')
  <2>1. output # <<>> => Tail(output) \in Seq(Messages)
    BY <1>2
  <2> QED
    BY <1>1, <1>2, <2>1 DEF Dwindles, QueuesSorted
<1>5. /\ input' \in [Parsers -> Seq(Messages)]
      /\ \A p \in Parsers : \/ input'[p] = input[p] \/ input'[p] = <<>>
                            \/ input[p] # <<>> /\ input'[p] = Tail(input[p])
  <2>1. \A p \in Parsers : input[p] # <<>> => Tail(input[p]) \in Seq(Messages)
    BY <1>2
  <2>2. <<>> \in Seq(Messages)
    OBVIOUS
  <2> QED
    BY <1>2, <2>1, <2>2 DEF Dwindles, OrderTypes
<1>6. /\ hand' \in [Parsers -> Seq(Messages)]
      /\ \A p \in Parsers : hand'[p] = hand[p] \/ hand'[p] = <<>>
  <2>1. <<>> \in Seq(Messages)
    OBVIOUS
  <2>2. hand \in [Parsers -> Seq(Messages)]
    BY DEF OrderTypes
  <2>3. CASE hand' = hand
    BY <2>2, <2>3
  <2>4. ASSUME NEW p \in Parsers, hand' = [hand EXCEPT ![p] = <<>>]
        PROVE  /\ hand' \in [Parsers -> Seq(Messages)]
               /\ \A q \in Parsers : hand'[q] = hand[q] \/ hand'[q] = <<>>
    BY <2>1, <2>2, <2>4
  <2> QED
    BY <2>3, <2>4 DEF Dwindles
<1>7. \A p \in Parsers : /\ Members(input'[p]) \subseteq Members(input[p])
                         /\ Members(hand'[p]) \subseteq Members(hand[p])
                         /\ Sorted(input'[p])
  <2> SUFFICES ASSUME NEW p \in Parsers
               PROVE  /\ Members(input'[p]) \subseteq Members(input[p])
                      /\ Members(hand'[p]) \subseteq Members(hand[p])
                      /\ Sorted(input'[p])
    OBVIOUS
  <2>1. Members(hand'[p]) \subseteq Members(hand[p])
    BY <1>6, MembersOfShort
  <2>2. Sorted(input[p]) /\ input[p] \in Seq(Packet)
    BY <1>2 DEF QueuesSorted
  <2>3. CASE input'[p] = input[p] \/ input'[p] = <<>>
    BY <2>1, <2>2, <2>3, MembersOfShort
  <2>4. CASE input[p] # <<>> /\ input'[p] = Tail(input[p])
    BY <1>1, <2>1, <2>2, <2>4
  <2> QED
    BY <1>5, <2>3, <2>4
<1>8. \A p \in Parsers : Held(p)' \subseteq Held(p)
  BY <1>7 DEF Held
<1>9. Routed'
  BY <1>8 DEF Routed, ParserOf
<1>10. Nearer'
  BY <1>3, <1>4, <1>7, <1>8 DEF Nearer, Precede
<1>11. OnTheWay' \subseteq OnTheWay
  BY <1>3, <1>4, <1>7 DEF OnTheWay
<1> QED
  BY <1>3, <1>4, <1>5, <1>6, <1>7, <1>9, <1>10, <1>11 DEF QueuesSorted, Packet

(* Such a step is a loss for the user, or nothing.                          *)
LEMMA DwindlingLoses ==
  ASSUME InOrder, Dwindles, UNCHANGED <<client, delivered, sent>>,
         worker' \in [Parsers -> {"none", "reading", "parsed", "ended"}], AtHand'
  PROVE  InOrder' /\ Channel!Lose
<1>1. OrderTypes'
  BY DwindlingKeepsOrder DEF InOrder, OrderTypes
<1>2. \A m \in OnTheWay' : m \in OnTheWay
  BY DwindlingKeepsOrder
<1> HIDE DEF Dwindles
<1>3. Past' /\ Channel!Lose
  BY <1>1, <1>2, FewerIsLoss
<1> QED
  BY <1>1, <1>3, DwindlingKeepsOrder DEF InOrder

(* A datagram is received: the newest of all.                               *)
LEMMA ArrivalIsReceipt ==
  ASSUME InOrder, ArriveMessage /\ ReceiveFrame
  PROVE  /\ InOrder'
         /\ \E o \in Odids : \E id \in Ids : Channel!Receive(o, id)
<1> USE DEF InOrder
<1> HIDE DEF Parsers
<1>1. PICK o \in Odids : batch' = Append(batch, [odid |-> o, id |-> sent + 1])
  BY DEF ArriveMessage, Arrive
<1>2. /\ UNCHANGED <<client, output, input, hand, worker, delivered>>
      /\ sent' = sent + 1 /\ sent < MaxDatagrams[client]
  BY DEF ArriveMessage, Arrive, ReceiveFrame, userVars, threadVars
<1> DEFINE m == [odid |-> o, id |-> sent + 1]
<1>3. m.odid = o /\ m.id = sent + 1
  OBVIOUS
<1>4. sent + 1 \in Ids /\ m \in Messages /\ m \in Packet
  <2>1. MaxDatagrams[client] \in Nat /\ sent + 1 \in 1..MaxDatagrams[client]
    BY <1>2, CollectorAssumption DEF OrderTypes
  <2> QED
    BY <2>1 DEF Ids, OrderTypes, Messages, Packet
<1> HIDE DEF m
<1>5. m # Empty
  BY <1>4, MessageOrEmpty DEF Messages, Packet, Empty
<1>6. \A n \in OnTheWay : n.id \in Nat /\ n.id <= sent /\ n.id < m.id
  <2>1. ASSUME NEW n \in Packet PROVE n.id \in Nat
    <3>1. n.id = 0 \/ n.id \in Ids
      BY MessageOrEmpty
    <3>2. 0 \in Nat /\ Ids \subseteq Nat
      BY IdsPositive
    <3> QED
      BY <3>1, <3>2, Zenon
  <2>2. \A n \in OnTheWay : n.id \in Nat /\ n.id <= sent
    BY <2>1, MembersTypes DEF Past
  <2>3. sent \in Nat
    BY DEF OrderTypes
  <2> QED
    BY <1>3, <2>2, <2>3
<1>0. \A other \in Odids : \A i \in 1..Len(delivered[other]) :
        /\ delivered[other][i] \in Nat /\ delivered[other][i] <= sent
        /\ \A id \in Transit(other) : delivered[other][i] < id
  <2>1. \A q \in Seq(Ids) : \A i \in 1..Len(q) : q[i] \in Ids
    OBVIOUS
  <2>2. \A other \in Odids : delivered[other] \in Seq(Ids)
    BY DEF OrderTypes
  <2> QED
    BY <2>1, <2>2, IdsPositive DEF Past
<1>7. Precede(OnTheWay, {m})
  BY <1>6 DEF Precede, Before
<1>8. /\ batch' \in Seq(Packet) /\ Members(batch') = Members(batch) \cup {m}
      /\ Sorted(batch')
  <2>1. Precede(Members(batch), {m})
    BY <1>7, OnTheWayPlaces DEF Precede
  <2> QED
    BY <1>1, <1>4, <2>1, MembersTypes, MembersOfAppend DEF m, QueuesSorted
<1>9. OrderTypes'
  BY <1>2, <1>8 DEF OrderTypes, Packet
<1>10. AtHand'
  <2>1. batch' # <<>>
    BY <1>1, <1>4, MembersTypes, MembersOfAppend DEF m
  <2> QED
    BY <1>2, <2>1 DEF AtHand
<1>11. Routed' /\ QueuesSorted'
  BY <1>2, <1>8 DEF Routed, QueuesSorted, Held, ParserOf
<1>12. Nearer'
  <2>1. Precede(Members(output), {m}) /\ \A p \in Parsers : Precede(Held(p), {m})
    BY <1>7, OnTheWayPlaces DEF Precede
  <2> QED
    BY <1>2, <1>8, <2>1 DEF Nearer, Held, Precede
<1>13. OnTheWay' = OnTheWay \cup {m}
  BY <1>2, <1>8 DEF OnTheWay
<1>14. Transit(o)' = Transit(o) \cup {sent + 1}
       /\ \A other \in Odids : other # o => Transit(other)' = Transit(other)
  BY <1>3, <1>5, <1>13 DEF Transit
<1>15. /\ \A id \in Transit(o) : id < sent + 1
       /\ \A other \in Odids : \A i \in 1..Len(delivered[other]) :
            delivered[other][i] < sent + 1
  <2>1. \A id \in Transit(o) : id < sent + 1
    BY <1>3, <1>6 DEF Transit
  <2>2. sent \in Nat
    BY DEF OrderTypes
  <2>3. \A k \in Nat : k <= sent => k < sent + 1
    BY <2>2
  <2> QED
    BY <1>0, <2>1, <2>3
<1>16. Past'
  <2>0. sent \in Nat /\ \A k \in Nat : k <= sent => k <= sent + 1 /\ k < sent + 1
    BY DEF OrderTypes
  <2>1. \A n \in OnTheWay' : n.id <= sent'
    <3>1. m.id <= sent + 1
      BY <1>3, <2>0
    <3> QED
      BY <1>2, <1>6, <1>13, <2>0, <3>1
  <2>2. ASSUME NEW other \in Odids, NEW i \in 1..Len(delivered[other])
        PROVE  /\ delivered[other][i] <= sent'
               /\ \A id \in Transit(other)' : delivered[other][i] < id
    <3>1. /\ delivered[other][i] \in Nat /\ delivered[other][i] <= sent
          /\ \A id \in Transit(other) : delivered[other][i] < id
      BY <1>0
    <3> QED
      BY <1>2, <1>14, <2>0, <3>1
  <2> QED
    BY <1>2, <2>1, <2>2 DEF Past
<1>17. Channel!Receive(o, sent + 1)
  BY <1>2, <1>14, <1>15 DEF Channel!Receive, Channel!Newer
<1> QED
  BY <1>4, <1>9, <1>10, <1>11, <1>12, <1>16, <1>17

(* An empty datagram is not one of the user's.                              *)
LEMMA EmptyKeepsOrder ==
  ASSUME InOrder, ArriveEmpty /\ ReceiveFrame
  PROVE  InOrder' /\ Channel!Lose
<1> USE DEF InOrder
<1> HIDE DEF Parsers
<1>1. /\ batch' = Append(batch, Empty)
      /\ UNCHANGED <<client, output, input, hand, worker, delivered, sent>>
  BY DEF ArriveEmpty, Arrive, ReceiveFrame, userVars, threadVars
<1>2. \A S : Precede(S, {Empty})
  BY DEF Precede, Before
<1>3. /\ batch' \in Seq(Packet) /\ Members(batch') = Members(batch) \cup {Empty}
      /\ Sorted(batch')
  <2>1. Empty \in Packet
    BY DEF Packet
  <2> QED
    BY <1>1, <1>2, <2>1, MembersTypes, MembersOfAppend DEF QueuesSorted
<1>4. OrderTypes'
  BY <1>1, <1>3 DEF OrderTypes, Packet
<1>5. AtHand'
  <2>1. batch' # <<>>
    BY <1>1, MembersTypes, MembersOfAppend DEF Packet
  <2> QED
    BY <1>1, <2>1 DEF AtHand
<1>6. Routed' /\ QueuesSorted'
  BY <1>1, <1>3 DEF Routed, QueuesSorted, Held, ParserOf
<1>7. Nearer'
  BY <1>1, <1>2, <1>3 DEF Nearer, Held, Precede
<1>8. \A m \in OnTheWay' : m \in OnTheWay \/ m = Empty
  BY <1>1, <1>3 DEF OnTheWay
<1>9. Past' /\ Channel!Lose
  BY <1>1, <1>4, <1>8, FewerIsLoss
<1> QED
  BY <1>4, <1>5, <1>6, <1>7, <1>9

(* The parser that a datagram is dispatched to already has all the older    *)
(* ones of its domain.                                                      *)
LEMMA DispatchKeepsOrder ==
  ASSUME InOrder, Dispatch /\ ReceiveFrame, input' # input
  PROVE  InOrder' /\ Channel!Lose
<1> USE DEF InOrder
<1> HIDE DEF Parsers
<1> DEFINE m == Head(batch)  p == ParserOf(m)
<1>1. /\ input' = [input EXCEPT ![p] = Append(@, m)] /\ batch' = Tail(batch)
      /\ m # Empty /\ batch # <<>>
      /\ listener' = (IF Len(batch) = 1 THEN "refill" ELSE "dispatch")
      /\ UNCHANGED <<client, output, hand, worker, delivered, sent>>
  BY DEF Dispatch, NextDatagram, ReceiveFrame, userVars, threadVars, AtHand
<1>2. /\ batch \in Seq(Packet) /\ m \in Packet /\ Tail(batch) \in Seq(Packet)
      /\ Members(batch) = {m} \cup Members(batch') /\ Sorted(batch')
      /\ Precede({m}, Members(batch'))
  BY <1>1, MembersTypes, MembersOfTail DEF QueuesSorted
<1>3. m \in Messages
  BY <1>1, <1>2, MessageOrEmpty
<1>4. p \in Parsers
  <2>1. m.odid \in Nat
    BY <1>3, CollectorAssumption DEF Messages
  <2> HIDE DEF m, Used
  <2>2. ASSUME NEW d \in Nat, NEW n \in Nat \ {0} PROVE d % n \in 0..(n - 1)
    OBVIOUS
  <2> QED
    BY <2>1, <2>2, ParserNumbers DEF ParserOf
<1> HIDE DEF m, p
<1>5. /\ Precede(Members(output), {m})
      /\ \A q \in Parsers : Precede(Held(q), {m})
  BY <1>2 DEF Nearer, Precede
<1>6. /\ input[p] \in Seq(Packet) /\ Sorted(input[p]) /\ Precede(Members(input[p]), {m})
      /\ input[p] \in Seq(Messages) /\ Append(input[p], m) \in Seq(Messages)
  BY <1>3, <1>4, <1>5, MembersTypes DEF QueuesSorted, Held, Precede, OrderTypes
<1>7. /\ input' \in [Parsers -> Seq(Messages)] /\ input'[p] = Append(input[p], m)
      /\ \A q \in Parsers : q # p => input'[q] = input[q]
      /\ Members(input'[p]) = Members(input[p]) \cup {m} /\ Sorted(input'[p])
  <2>1. /\ input' \in [Parsers -> Seq(Messages)] /\ input'[p] = Append(input[p], m)
        /\ \A q \in Parsers : q # p => input'[q] = input[q]
    BY <1>1, <1>4, <1>6 DEF OrderTypes
  <2> QED
    BY <1>2, <1>6, <2>1, MembersOfAppend
<1>8. OrderTypes'
  BY <1>1, <1>2, <1>7 DEF OrderTypes, Packet
<1>9. AtHand'
  <2>1. Len(batch) # 1 => Tail(batch) # <<>>
    <3>1. Len(batch) \in Nat \ {0} /\ Len(Tail(batch)) = Len(batch) - 1
      BY <1>1, <1>2
    <3>2. Len(<<>>) = 0
      OBVIOUS
    <3> QED
      BY <3>1, <3>2
  <2> QED
    BY <1>1, <2>1 DEF AtHand
<1>10. \A q \in Parsers : Held(q)' = IF q = p THEN Held(q) \cup {m} ELSE Held(q)
  BY <1>1, <1>4, <1>7 DEF Held
<1>11. Routed'
  BY <1>10 DEF Routed, ParserOf, p
<1>12. QueuesSorted'
  BY <1>1, <1>2, <1>7 DEF QueuesSorted
<1>13. Nearer'
  <2>1. Precede(Members(output'), Members(batch'))
    BY <1>1, <1>2 DEF Nearer, Precede
  <2>2. ASSUME NEW q \in Parsers
        PROVE  Precede(Members(output'), Held(q)') /\ Precede(Held(q)', Members(batch'))
    BY <1>1, <1>2, <1>5, <1>10 DEF Nearer, Precede
  <2>3. ASSUME NEW q \in Parsers
        PROVE  Precede(Members(hand'[q]), Members(input'[q]))
    BY <1>1, <1>5, <1>7 DEF Nearer, Precede, Held
  <2> QED
    BY <2>1, <2>2, <2>3 DEF Nearer
<1>14. \A n \in OnTheWay' : n \in OnTheWay
  <2>1. \A n \in OnTheWay' : \/ n \in Members(output') \/ n \in Members(batch')
                             \/ \E q \in Parsers : n \in Held(q)'
    BY OnTheWayPlaces DEF OnTheWay, Held
  <2> QED
    BY <1>1, <1>2, <1>10, <2>1, OnTheWayPlaces
<1>15. Past' /\ Channel!Lose
  BY <1>1, <1>8, <1>14, FewerIsLoss
<1> QED
  BY <1>8, <1>9, <1>11, <1>12, <1>13, <1>15

(* A worker takes the oldest datagram it has not parsed.                    *)
LEMMA ReadInputKeepsOrder ==
  ASSUME InOrder, NEW p \in Parsers, ReadInput(p) /\ WorkerFrame
  PROVE  InOrder' /\ Channel!Lose
<1> USE DEF InOrder
<1> HIDE DEF Parsers
<1> DEFINE m == Head(input[p])
<1>1. /\ input' = [input EXCEPT ![p] = Tail(@)] /\ input[p] # <<>>
      /\ hand' = [hand EXCEPT ![p] = <<m>>] /\ worker' = [worker EXCEPT ![p] = "parsed"]
      /\ UNCHANGED <<client, output, batch, delivered, sent, listener>>
  BY DEF ReadInput, WorkerFrame, userVars, listenerVars
<1>2. /\ m \in Messages /\ Tail(input[p]) \in Seq(Messages) /\ <<m>> \in Seq(Messages)
  BY <1>1 DEF OrderTypes
<1>3. /\ Members(input[p]) = {m} \cup Members(Tail(input[p])) /\ Sorted(Tail(input[p]))
      /\ Precede({m}, Members(Tail(input[p])))
  BY <1>1, MembersTypes, MembersOfTail DEF QueuesSorted
<1> HIDE DEF m
<1>4. /\ input' \in [Parsers -> Seq(Messages)] /\ input'[p] = Tail(input[p])
      /\ \A q \in Parsers : q # p => input'[q] = input[q] /\ hand'[q] = hand[q]
      /\ hand' \in [Parsers -> Seq(Messages)] /\ hand'[p] = <<m>>
      /\ worker' \in [Parsers -> {"none", "reading", "parsed", "ended"}]
      /\ \A q \in Parsers : q # p => worker'[q] = worker[q]
  BY <1>1, <1>2 DEF OrderTypes
<1>5. Members(hand'[p]) = {m} /\ Len(hand'[p]) = 1 /\ hand'[p] # <<>>
  BY <1>4, MembersOfShort
<1>6. OrderTypes'
  BY <1>1, <1>4 DEF OrderTypes
<1>7. AtHand'
  BY <1>1, <1>4, <1>5 DEF AtHand
<1>8. \A q \in Parsers : Held(q)' \subseteq Held(q)
  BY <1>3, <1>4, <1>5 DEF Held
<1>9. Routed' /\ QueuesSorted'
  <2>1. Routed'
    BY <1>8 DEF Routed, ParserOf
  <2>2. \A q \in Parsers : Sorted(input'[q])
    BY <1>3, <1>4 DEF QueuesSorted
  <2> QED
    BY <1>1, <2>1, <2>2 DEF QueuesSorted
<1>10. Nearer'
  <2>1. ASSUME NEW q \in Parsers
        PROVE  Precede(Members(hand'[q]), Members(input'[q]))
    BY <1>3, <1>4, <1>5 DEF Nearer
  <2> QED
    BY <1>1, <1>8, <2>1 DEF Nearer, Precede
<1>11. \A n \in OnTheWay' : n \in OnTheWay
  <2>1. \A n \in OnTheWay' : \/ n \in Members(output') \/ n \in Members(batch')
                             \/ \E q \in Parsers : n \in Held(q)'
    BY OnTheWayPlaces DEF OnTheWay, Held
  <2> QED
    BY <1>1, <1>8, <2>1, OnTheWayPlaces
<1>12. Past' /\ Channel!Lose
  BY <1>1, <1>6, <1>11, FewerIsLoss
<1> QED
  BY <1>6, <1>7, <1>9, <1>10, <1>12

(* A message written is newer than all in the output queue, and older than  *)
(* those of its domain that are still with its parser.                      *)
LEMMA WriteOutputKeepsOrder ==
  ASSUME InOrder, NEW p \in Parsers, WriteOutput(p) /\ WorkerFrame, output' # output
  PROVE  InOrder' /\ Channel!Lose
<1> USE DEF InOrder
<1> HIDE DEF Parsers
<1> DEFINE m == Head(hand[p])
<1>1. /\ hand' = [hand EXCEPT ![p] = <<>>] /\ output' = Append(output, m)
      /\ worker[p] = "parsed" /\ worker' = [worker EXCEPT ![p] = "reading"]
      /\ UNCHANGED <<client, input, batch, delivered, sent, listener>>
  BY DEF WriteOutput, WorkerFrame, userVars, listenerVars
<1>2. m \in Messages /\ Members(hand[p]) = {m}
  BY <1>1, MembersOfShort DEF OrderTypes, AtHand
<1> HIDE DEF m
<1>3. m \in Held(p) /\ ParserOf(m) = p
  BY <1>2 DEF Held, Routed
<1>4. /\ hand' \in [Parsers -> Seq(Messages)] /\ hand'[p] = <<>>
      /\ \A q \in Parsers : q # p => hand'[q] = hand[q]
      /\ worker' \in [Parsers -> {"none", "reading", "parsed", "ended"}]
      /\ worker'[p] = "reading" /\ \A q \in Parsers : q # p => worker'[q] = worker[q]
  <2>1. <<>> \in Seq(Messages)
    OBVIOUS
  <2> QED
    BY <1>1, <2>1 DEF OrderTypes
<1>5. /\ output' \in Seq(Messages) /\ Members(output') = Members(output) \cup {m}
      /\ Sorted(output')
  <2>1. Precede(Members(output), {m})
    BY <1>3 DEF Nearer, Precede
  <2>2. m \in Packet /\ Append(output, m) \in Seq(Messages)
    BY <1>2 DEF Packet, OrderTypes
  <2> QED
    BY <1>1, <2>1, <2>2, MembersTypes, MembersOfAppend DEF QueuesSorted
<1>6. OrderTypes'
  BY <1>1, <1>4, <1>5 DEF OrderTypes
<1>7. AtHand'
  <2>1. Len(<<>>) = 0
    OBVIOUS
  <2> QED
    BY <1>1, <1>4, <2>1 DEF AtHand
<1>8. Members(hand'[p]) = {} /\ \A q \in Parsers : Held(q)' \subseteq Held(q)
  BY <1>1, <1>4, MembersOfShort DEF Held
<1>9. Routed' /\ QueuesSorted'
  BY <1>1, <1>5, <1>8 DEF Routed, ParserOf, QueuesSorted
<1>10. Nearer'
  <2>1. Precede(Members(output'), Members(batch'))
    BY <1>1, <1>3, <1>5 DEF Nearer, Precede
  <2>2. Precede({m}, Held(p)')
    BY <1>1, <1>2, <1>8 DEF Nearer, Precede, Held
  <2>3. ASSUME NEW q \in Parsers, q # p
        PROVE  Precede({m}, Held(q)')
    <3>1. ASSUME NEW n \in Held(q)' PROVE n.odid # m.odid
      BY <1>3, <1>8, <2>3 DEF Routed, ParserOf
    <3> QED
      BY <3>1 DEF Precede, Before
  <2>4. \A q \in Parsers : Precede(Members(output'), Held(q)')
    BY <1>5, <1>8, <2>2, <2>3 DEF Nearer, Precede
  <2>5. \A q \in Parsers : /\ Precede(Members(hand'[q]), Members(input'[q]))
                           /\ Precede(Held(q)', Members(batch'))
    BY <1>1, <1>4, <1>8 DEF Nearer, Precede
  <2> QED
    BY <2>1, <2>4, <2>5 DEF Nearer
<1>11. \A n \in OnTheWay' : n \in OnTheWay
  <2>1. \A n \in OnTheWay' : \/ n \in Members(output') \/ n \in Members(batch')
                             \/ \E q \in Parsers : n \in Held(q)'
    BY OnTheWayPlaces DEF OnTheWay, Held
  <2> QED
    BY <1>1, <1>3, <1>5, <1>8, <2>1, OnTheWayPlaces
<1>12. Past' /\ Channel!Lose
  BY <1>1, <1>6, <1>11, FewerIsLoss
<1> QED
  BY <1>6, <1>7, <1>9, <1>10, <1>12

(* The user reads the oldest datagram of its domain that is on its way.     *)
LEMMA ReadIsDelivery ==
  ASSUME InOrder, ReadMessage, UNCHANGED <<client, batch, input, hand, worker, sent>>
  PROVE  /\ InOrder'
         /\ \E o \in Odids : \E id \in Ids : Channel!Deliver(o, id)
<1> USE DEF InOrder
<1> HIDE DEF Parsers
<1> DEFINE m == Head(output)
<1>1. /\ output # <<>> /\ output' = Tail(output) /\ UNCHANGED listener
      /\ delivered' = [delivered EXCEPT ![m.odid] = Append(@, m.id)]
  BY DEF ReadMessage
<1>2. m \in Messages /\ m \in Packet /\ Tail(output) \in Seq(Messages)
  BY <1>1 DEF OrderTypes, Packet
<1>3. /\ Members(output) = {m} \cup Members(output') /\ Sorted(output')
      /\ Precede({m}, Members(output'))
  BY <1>1, MembersTypes, MembersOfTail DEF QueuesSorted
<1> HIDE DEF m
<1>4. m.odid \in Odids /\ m.id \in Ids /\ m.id \in Nat /\ m # Empty
  BY <1>2, IdsPositive, MessageOrEmpty DEF Messages
<1>5. OrderTypes'
  <2>1. delivered' \in [Odids -> Seq(Ids)]
    BY <1>1, <1>4 DEF OrderTypes
  <2> QED
    BY <1>1, <1>2, <2>1 DEF OrderTypes
<1>6. AtHand' /\ Routed' /\ QueuesSorted' /\ Nearer'
  <2>1. \A p \in Parsers : Held(p)' = Held(p)
    BY DEF Held
  <2> QED
    BY <1>1, <1>3, <2>1 DEF AtHand, Routed, ParserOf, QueuesSorted, Nearer, Precede
<1>7. OnTheWay = OnTheWay' \cup {m}
  BY <1>3 DEF OnTheWay
<1>8. \A n \in OnTheWay' : n # Empty /\ n.odid = m.odid => m.id < n.id
  <2>1. Precede({m}, Members(batch)) /\ \A p \in Parsers : Precede({m}, Held(p))
    BY <1>3 DEF Nearer, Precede
  <2>2. \A n \in OnTheWay' : \/ n \in Members(output') \/ n \in Members(batch)
                             \/ \E p \in Parsers : n \in Held(p)
    BY OnTheWayPlaces DEF OnTheWay, Held
  <2> QED
    BY <1>3, <1>4, <2>1, <2>2 DEF Precede, Before
<1>9. \A o \in Odids :
        /\ o = m.odid => /\ m.id \in Transit(o)
                         /\ \A id \in Transit(o)' : m.id < id
                         /\ Transit(o) = Transit(o)' \cup {m.id}
        /\ o # m.odid => Transit(o)' = Transit(o)
  <2> SUFFICES ASSUME NEW o \in Odids
               PROVE  /\ o = m.odid => /\ m.id \in Transit(o)
                                       /\ \A id \in Transit(o)' : m.id < id
                                       /\ Transit(o) = Transit(o)' \cup {m.id}
                      /\ o # m.odid => Transit(o)' = Transit(o)
    OBVIOUS
  <2>1. o = m.odid => m.id \in Transit(o)
    BY <1>4, <1>7 DEF Transit
  <2>2. o = m.odid => \A id \in Transit(o)' : m.id < id
    BY <1>8 DEF Transit
  <2>3. Transit(o)' \subseteq Transit(o)
    BY <1>7 DEF Transit
  <2>4. \A id \in Transit(o) : id \in Transit(o)' \/ (o = m.odid /\ id = m.id)
    BY <1>7 DEF Transit
  <2> QED
    BY <2>1, <2>2, <2>3, <2>4
<1>10. \A o \in Odids : Transit(o)' = IF o = m.odid THEN Transit(o) \ {m.id} ELSE Transit(o)
  <2> SUFFICES ASSUME NEW o \in Odids
               PROVE  Transit(o)' = IF o = m.odid THEN Transit(o) \ {m.id} ELSE Transit(o)
    OBVIOUS
  <2>1. o = m.odid => m.id \notin Transit(o)'
    BY <1>4, <1>9
  <2> QED
    BY <1>9, <2>1
<1>11. \A o \in Odids : o = m.odid => \A id \in Transit(o) : m.id <= id
  <2> SUFFICES ASSUME NEW o \in Odids, o = m.odid, NEW id \in Transit(o) PROVE m.id <= id
    OBVIOUS
  <2>1. id \in Nat
    BY TransitIds, IdsPositive
  <2> QED
    BY <1>4, <1>9, <2>1
<1>12. Past'
  <2>1. m.id <= sent /\ \A n \in OnTheWay' : n.id <= sent'
    BY <1>7 DEF Past
  <2>2. ASSUME NEW o \in Odids, NEW i \in 1..Len(delivered'[o])
        PROVE  /\ delivered'[o][i] <= sent'
               /\ \A id \in Transit(o)' : delivered'[o][i] < id
    <3>1. \A id \in Transit(o)' : id \in Transit(o)
      BY <1>10
    <3>2. delivered[o] \in Seq(Ids) /\ Len(delivered[o]) \in Nat
      BY DEF OrderTypes
    <3>3. CASE i \in 1..Len(delivered[o])
      <4>1. delivered'[o][i] = delivered[o][i]
        BY <1>1, <1>4, <3>2, <3>3 DEF OrderTypes
      <4> QED
        BY <3>1, <3>3, <4>1 DEF Past
    <3>4. CASE i \notin 1..Len(delivered[o])
      <4>1. o = m.odid /\ delivered'[o] = Append(delivered[o], m.id)
        BY <1>1, <1>4, <3>4 DEF OrderTypes
      <4>2. i = Len(delivered[o]) + 1
        BY <3>2, <3>4, <4>1
      <4>3. delivered'[o][i] = m.id
        BY <1>4, <3>2, <4>1, <4>2
      <4> QED
        BY <1>9, <2>1, <4>1, <4>3
    <3> QED
      BY <3>3, <3>4
  <2> QED
    BY <2>1, <2>2 DEF Past
<1>13. Channel!Deliver(m.odid, m.id)
  <2> SUFFICES ASSUME NEW o \in Odids, o = m.odid PROVE Channel!Deliver(o, m.id)
    BY <1>4
  <2>1. m.id \in Transit(o) /\ \A id \in Transit(o) : m.id <= id
    BY <1>9, <1>11
  <2>2. [other \in Odids |-> Transit(other)]'
          = [[other \in Odids |-> Transit(other)] EXCEPT ![o] = @ \ {m.id}]
    BY <1>10
  <2>3. delivered' = [delivered EXCEPT ![o] = Append(@, m.id)]
    BY <1>1
  <2> QED
    BY <2>1, <2>2, <2>3 DEF Channel!Deliver
<1> QED
  BY <1>4, <1>5, <1>6, <1>12, <1>13

(* The user's threads deliver, drop what is left at the end, or neither.    *)
LEMMA UserKeepsOrder ==
  ASSUME InOrder, UserStep \/ UserChoice \/ ReaderStep
  PROVE  InOrder' /\ Channel!Next
<1> USE DEF UserStep, UserChoice, ReaderStep, UserFrame, threadVars
<1>1. UNCHANGED <<client, batch, input, hand, worker, sent>>
  OBVIOUS
<1>2. CASE ReadMessage
  BY <1>1, <1>2, ReadIsDelivery DEF Channel!Next
<1>3. CASE ~ReadMessage
  <2>1. /\ output' = output \/ (output # <<>> /\ output' = Tail(output))
        /\ UNCHANGED delivered /\ (listener' = listener \/ listener' = "create")
    BY <1>3 DEF unyte_udp_start_collector, unyte_udp_create_listener, SampleRead,
       SummaryRead, JoinReader, JoinListener, DrainOutput, unyte_udp_free_collector, CallRead,
       CloseSocket, t_read_test, t_read
  <2>2. Dwindles
    BY <1>1, <2>1 DEF Dwindles
  <2>3. AtHand' /\ worker' \in [Parsers -> {"none", "reading", "parsed", "ended"}]
    BY <1>1, <2>1 DEF AtHand, InOrder, OrderTypes
  <2> HIDE DEF Dwindles
  <2> QED
    BY <1>1, <2>1, <2>2, <2>3, DwindlingLoses DEF Channel!Next
<1> QED
  BY <1>2, <1>3

(* The threads are created before there is anything to keep in order.       *)
LEMMA CreationKeepsOrder ==
  ASSUME InOrder,
         (create_monitoring_thread \/ create_parse_worker \/ CreationFails) /\ CreateFrame
  PROVE  InOrder' /\ Channel!Next
<1> USE DEF InOrder
<1> HIDE DEF Parsers
<1>1. /\ UNCHANGED <<client, batch, sent, input, hand, output, delivered>>
      /\ listener' \in {"create_parser", "refill", "exit"}
      /\ \/ worker' = worker
         \/ worker' = [worker EXCEPT ![next] = "reading"]
  BY DEF CreateFrame, userVars, create_monitoring_thread, create_parse_worker, CreationFails
<1>2. /\ worker' \in [Parsers -> {"none", "reading", "parsed", "ended"}]
      /\ \A p \in Parsers : worker'[p] = "parsed" => worker[p] = "parsed"
  BY <1>1 DEF OrderTypes
<1>3. AtHand' /\ Dwindles
  BY <1>1, <1>2 DEF AtHand, Dwindles
<1> QED
  BY <1>1, <1>2, <1>3, DwindlingLoses DEF Channel!Next

(* The listener receives, dispatches or drops a datagram.                   *)
LEMMA ReceptionKeepsOrder ==
  ASSUME InOrder, ReceiveFrame,
         \/ recvmmsg \/ SkipEmpty \/ Dispatch \/ RecvInterrupted \/ DispatchFails
         \/ ArriveMessage \/ ArriveEmpty
  PROVE  InOrder' /\ Channel!Next
<1> HIDE DEF Parsers
<1>1. /\ UNCHANGED <<client, output, hand, worker, delivered>>
      /\ worker' \in [Parsers -> {"none", "reading", "parsed", "ended"}]
      /\ batch \in Seq(Packet)
      /\ \A p \in Parsers : /\ Len(hand[p]) <= 1
                            /\ worker[p] = "parsed" => hand[p] # <<>>
      /\ listener = "dispatch" => batch # <<>>
  BY MembersTypes DEF ReceiveFrame, userVars, threadVars, InOrder, OrderTypes, AtHand
<1>2. CASE ArriveMessage
  BY <1>2, ArrivalIsReceipt DEF Channel!Next
<1>3. CASE ArriveEmpty
  BY <1>3, EmptyKeepsOrder DEF Channel!Next
<1>4. CASE Dispatch /\ input' # input
  BY <1>4, DispatchKeepsOrder DEF Channel!Next
<1>5. CASE SkipEmpty \/ (Dispatch /\ input' = input)
  <2>1. /\ listener = "dispatch" /\ UNCHANGED <<input, sent>> /\ batch' = Tail(batch)
        /\ listener' = IF Len(batch) = 1 THEN "refill" ELSE "dispatch"
    BY <1>5 DEF SkipEmpty, Dispatch, NextDatagram
  <2>2. Len(batch) # 1 => Tail(batch) # <<>>
    <3>1. Len(batch) \in Nat \ {0} /\ Len(Tail(batch)) = Len(batch) - 1
      BY <1>1, <2>1
    <3>2. Len(<<>>) = 0
      OBVIOUS
    <3> QED
      BY <3>1, <3>2
  <2>3. AtHand' /\ Dwindles
    BY <1>1, <2>1, <2>2 DEF AtHand, Dwindles
  <2> QED
    BY <1>1, <2>1, <2>3, DwindlingLoses DEF Channel!Next
<1>6. CASE recvmmsg \/ RecvInterrupted \/ DispatchFails
  <2>1. /\ UNCHANGED <<input, sent>> /\ (batch' = batch \/ batch' = <<>>)
        /\ listener' = "dispatch" => batch' # <<>>
    BY <1>6 DEF recvmmsg, RecvInterrupted, DispatchFails
  <2>2. AtHand' /\ Dwindles
    BY <1>1, <2>1 DEF AtHand, Dwindles
  <2> QED
    BY <1>1, <2>1, <2>2, DwindlingLoses DEF Channel!Next
<1> QED
  BY <1>2, <1>3, <1>4, <1>5, <1>6

(* Its shutdown only drops.                                                 *)
LEMMA StopKeepsOrder ==
  ASSUME InOrder, StopFrame,
         \/ stop_parsers_and_monitoring \/ free_parsers_cleanup \/ free_parsers
         \/ free_monitoring_worker \/ t_listener_exit
  PROVE  InOrder' /\ Channel!Next
<1> HIDE DEF Parsers
<1>1. /\ UNCHANGED <<client, batch, sent, hand, worker, output, delivered>>
      /\ listener' # "dispatch"
      /\ input' = input \/ input' = [input EXCEPT ![next] = <<>>]
  BY DEF StopFrame, userVars, threadVars, stop_parsers_and_monitoring, free_parsers_cleanup,
     free_parsers, free_monitoring_worker, t_listener_exit
<1>2. input' = input \/ \E p \in Parsers : input' = [input EXCEPT ![p] = <<>>]
  <2>1. CASE next \in Parsers
    BY <1>1, <2>1
  <2>2. CASE next \notin Parsers
    BY <1>1, <2>2 DEF InOrder, OrderTypes
  <2> QED
    BY <2>1, <2>2
<1>3. Dwindles
  BY <1>1, <1>2 DEF Dwindles
<1>4. AtHand' /\ worker' \in [Parsers -> {"none", "reading", "parsed", "ended"}]
  BY <1>1 DEF AtHand, InOrder, OrderTypes
<1> HIDE DEF Dwindles
<1> QED
  BY <1>1, <1>3, <1>4, DwindlingLoses DEF Channel!Next

(* A step that leaves the datagrams alone.                                  *)
LEMMA StandingStill ==
  ASSUME InOrder,
         UNCHANGED <<client, batch, output, input, hand, worker, listener, sent, delivered>>
  PROVE  InOrder' /\ Channel!Next
<1>1. Dwindles
  BY DEF Dwindles
<1>2. AtHand' /\ worker' \in [Parsers -> {"none", "reading", "parsed", "ended"}]
  BY DEF AtHand, InOrder, OrderTypes
<1> HIDE DEF Dwindles
<1> QED
  BY <1>1, <1>2, DwindlingLoses DEF Channel!Next

(* The workers pass datagrams on, in order, or drop them.                   *)
LEMMA WorkersKeepOrder ==
  ASSUME InOrder, NEW p \in Parsers, WorkerStep(p) \/ WorkerChoice(p)
  PROVE  InOrder' /\ Channel!Next
<1> HIDE DEF Parsers
<1>1. WorkerFrame
  BY DEF WorkerStep, WorkerChoice
<1>2. CASE ReadInput(p)
  BY <1>1, <1>2, ReadInputKeepsOrder DEF Channel!Next
<1>3. CASE WriteOutput(p) /\ output' # output
  BY <1>1, <1>3, WriteOutputKeepsOrder DEF Channel!Next
<1>4. CASE \/ WriteOutput(p) /\ output' = output
           \/ CancelWorker(p) \/ ParseFails(p) \/ Absorb(p) \/ AbsorbFails(p)
  <2>1. /\ UNCHANGED <<client, batch, sent, delivered, output, listener>>
        /\ \E w \in {"reading", "ended"} : worker' = [worker EXCEPT ![p] = w]
        /\ \/ UNCHANGED input /\ hand' = [hand EXCEPT ![p] = <<>>]
           \/ /\ UNCHANGED hand /\ input[p] # <<>>
              /\ input' = [input EXCEPT ![p] = Tail(@)]
    BY <1>1, <1>4 DEF WorkerFrame, userVars, listenerVars, WriteOutput, CancelWorker,
       ParseFails, Absorb, AbsorbFails
  <2>2. /\ worker' \in [Parsers -> {"none", "reading", "parsed", "ended"}]
        /\ worker'[p] # "parsed" /\ \A q \in Parsers : q # p => worker'[q] = worker[q]
    BY <2>1 DEF InOrder, OrderTypes
  <2>3. Dwindles
    BY <2>1 DEF Dwindles
  <2>4. AtHand'
    <3>1. /\ \A q \in Parsers : q # p => hand'[q] = hand[q]
          /\ hand'[p] = hand[p] \/ hand'[p] = <<>>
      BY <2>1 DEF InOrder, OrderTypes
    <3>2. Len(<<>>) = 0
      OBVIOUS
    <3> QED
      BY <2>1, <2>2, <3>1, <3>2 DEF InOrder, AtHand
  <2> HIDE DEF Dwindles
  <2> QED
    BY <2>1, <2>2, <2>3, <2>4, DwindlingLoses DEF Channel!Next
<1>5. CASE WalkHeadless(p)
  BY <1>1, <1>5, StandingStill DEF WalkHeadless, WorkerFrame, userVars, listenerVars
<1> QED
  BY <1>2, <1>3, <1>4, <1>5 DEF WorkerStep, WorkerChoice

(* Every step keeps the order and is one of the channel.                    *)
LEMMA OrderKept ==
  ASSUME InOrder, [Next]_vars
  PROVE  InOrder' /\ Channel!Next
<1>1. CASE UNCHANGED vars
  BY <1>1, StandingStill DEF vars, userVars, listenerVars, threadVars
<1>2. ASSUME NEW p \in Parsers, CleanerStep(p) PROVE InOrder' /\ Channel!Next
  BY <1>2, StandingStill DEF CleanerStep, TimerFrame, userVars, listenerVars
<1>3. CASE MonitorStep
  BY <1>3, StandingStill DEF MonitorStep, TimerFrame, userVars, listenerVars
<1> QED
  BY <1>1, <1>2, <1>3, UserKeepsOrder, CreationKeepsOrder, ReceptionKeepsOrder,
     StopKeepsOrder, WorkersKeepOrder DEF Next, ListenerStep, ListenerFails, Datagram

(* A collector starts with no datagrams.                                    *)
LEMMA InitOrder == Init => InOrder /\ Channel!Init
<1> SUFFICES ASSUME Init PROVE InOrder /\ Channel!Init
  OBVIOUS
<1> USE DEF Init
<1> HIDE DEF Parsers
<1>1. OrderTypes
  BY DEF OrderTypes
<1>2. AtHand
  <2>1. Len(<<>>) = 0
    OBVIOUS
  <2> QED
    BY <2>1 DEF AtHand
<1>3. /\ Members(batch) = {} /\ Members(output) = {}
      /\ \A p \in Parsers : Members(hand[p]) = {} /\ Members(input[p]) = {}
  BY MembersOfShort
<1>4. OnTheWay = {} /\ \A o \in Odids : Transit(o) = {}
  BY <1>3 DEF OnTheWay, Transit
<1>5. \A p \in Parsers : Held(p) = {}
  BY <1>3 DEF Held
<1>6. Routed /\ Nearer
  BY <1>3, <1>5 DEF Routed, Nearer, Precede
<1>7. QueuesSorted
  BY MembersOfShort DEF QueuesSorted
<1>8. Past
  BY <1>4 DEF Past
<1>9. Channel!Init
  BY <1>4 DEF Channel!Init
<1> QED
  BY <1>1, <1>2, <1>6, <1>7, <1>8, <1>9 DEF InOrder

(* The datagrams of a domain stay in order, whatever fails: in each queue,  *)
(* and from one queue to the next on the way to the user.                   *)
THEOREM CollectorInOrder == Spec => []InOrder
BY InitOrder, OrderKept, PTL DEF Spec

(* However the threads are scheduled, however many parsers there are and    *)
(* whatever is lost, the user reads the datagrams of each domain once and   *)
(* in the order in which the socket received them: a domain has one parser  *)
(* (src/listening_worker.c), and every queue is first in, first out.        *)
THEOREM CollectorImplementsChannel == Spec => ImplementsChannel
<1>1. InOrder /\ [Next]_vars => [Channel!Next]_Channel!vars
  BY OrderKept
<1> QED
  BY <1>1, InitOrder, CollectorInOrder, PTL DEF Spec, ImplementsChannel, Channel!Spec
=============================================================================
