# A TLA+ model of the UDP-notif collector and sender

This directory specifies the core of the C library in `src/src/`: a collector of
UDP-notif messages (a listener, parsing workers with a reassembly buffer, clean-up
threads, a monitoring thread, message queues between them) and a sender that cuts
messages into segments; and, of `src/examples/`, the clients that run a collector and
the eBPF load balancer in front of several. The modules are checked with TLC on small
instances; part of what TLC checks is proved with TLAPS for every value of the
constants. Line numbers
refer to the files of `src/src/` unless a path is given.

## 1. The system: inventory

| component | state | operations | talks to |
|---|---|---|---|
| message queue (`unyte_udp_queue.c`) | ring `data`, `head`, `tail`; semaphores `empty`, `full`; a mutex | `write` (refuses when full), `destructive_write` (frees the oldest when full), `read` (blocks), `is_udp_queue_empty` | shared by listener, parsers, monitoring thread, user |
| segmentation buffer (`segmentation_buffer.c`) | hash table of lists of segments, `count`, clean-up flag and start index | `insert_segment`, `clear_segment_list`, `cleanup_seg_buff`, `clear_buffer` | owned by one parsing worker; the flag is set by its clean-up thread |
| parsing worker (`parsing_worker.c`) | the buffer, `max_malloc_errs` | one loop: read, parse, insert or pass on, assemble, write, sweep | input queue, output queue, counters |
| clean-up worker (`cleanup_worker.c`) | stop flag | raises the clean-up flag every `CLEANUP_FLAG_CRON` ms | parsing worker's buffer |
| codec (`unyte_udp_utils.c`) | none | `build_message`, `serialize_message`, `parse_with_metadata`, `minimal_parse`, the legacy parser | sender, listener, parser |
| sender (`unyte_sender.c`) | the socket, the default MTU | `unyte_start_sender`, `unyte_send` | the network |
| monitoring (`monitoring_worker.c`) | per worker: a hash table of counters and the index `active_odids` | `update_received/dropped_segment` (worker), a pass (monitoring thread) | every worker, without a lock; the monitoring queue |
| listener (`listening_worker.c`) | socket, parsers, monitoring | receive, dispatch by `odid % nb_parsers`, shut down | input queues, counters |
| collector (`unyte_udp_collector.c`) | options, queues, main thread | start, free (drains the queues) | all |
| clients (`examples/client_sample.c`, `client_monitoring.c`) | the user's threads, a stop flag | read, close the socket, join, free | collector, output and monitoring queues |
| load balancer (`examples/eBPF/`) | the pinned maps `nonce`, `size`, `udp_balancing_targets` | a client attaches and enters its socket; the kernel program picks a socket per datagram | shared by every CPU and every client process |

What is hard here: a queue whose semaphore `empty` starts one above what the ring can
hold; reassembly from lost, repeated and reordered datagrams while a sweep expires what
is stored; allocations that may fail half-way through an update of a list; counters,
a table and an index that two threads change without a lock; fields narrower than the
values put in them; a shutdown in which the listener stops, cancels, joins and frees
the other threads and their memory while the user still reads, and which starts only
when a `recvmmsg` returns; maps that two CPUs and two processes initialise at once.
`PROJECT.json` lists each hazard at its line with the properties
that would show it, or the reason why none does.

What makes each component correct:

* queue: a bounded FIFO, each handle owned once, no permit lost, no consumer needed for
  a producer to make progress, no lost wake-up;
* reassembly: what is delivered is the whole message, each list leaves because it is
  complete or because it is old, every list that never completes eventually leaves,
  `count` is the number of lists;
* codec: what arrives is what was given, cut at the MTU, no byte lost or repeated;
* monitoring: threads without a lock reach undefined behaviour in no other way than the
  known races, the index names exactly the observation domains that have counters, each
  segment is reported once, silent domains are forgotten;
* listener and collector: no thread uses a queue, a datagram, a message or a thread input
  that another has freed, from the start to the end of `unyte_udp_free_collector`; every
  thread ends; what leaks is exactly what the code abandons; the datagrams of a domain are delivered at most once and in order; nothing
  keeps the listener from the socket; a shutdown completes;
* load balancer: once its maps are set, all datagrams of a source go to one bucket, and
  to the open socket of the client that asked for it.

## 2. Modules

| module | models | state ↔ code |
|---|---|---|
| `BoundedFifo` | what the queue promises: calls that take effect once, between call and return, on a sequence of at most `Capacity` handles | abstract |
| `UdpQueue` | `unyte_udp_queue.c`, a step per `sem_wait`, `pthread_mutex_lock`, critical section, `unlock`, `sem_post` | variables have the names of the fields; `live` is what malloc gave and nobody freed |
| `UdpQueueProofs`, `UdpQueueRefinement` | theorems about `UdpQueue` | |
| `SegmentationBuffer` | the operations on one list (`insert_into_msl`, `append_options`, `create_assembled_msg`) and on the table (`cleanup_seg_buff`) as operators | a list is a record: segment numbers in list order, `current_size`, `total_size`, mark, timestamp |
| `ParsingWorker` | `t_parser`, `t_clean_up`, the clock and the consumer; every malloc that may fail is an action | `buf` maps the key (odid, mid) to its list; `headless` are cells linked without a list |
| `ParsingWorkerProofs`, `ReassemblyProofs` | theorems about `ParsingWorker` and the lists of `SegmentationBuffer` | |
| `Codec` | `build_message`, `serialize_message`, `parse_with_metadata`, `parse_with_metadata_legacy` as operators | header and options to the byte and to the width of each field; a payload is the interval of the buffer it came from |
| `Sender` | `unyte_send` and the parsing of what it sends, or of a datagram of the older draft | `packets`, `wire`, `parsed` |
| `SenderProofs` | theorems about `Sender` and the operators of `Codec` | |
| `Monitoring` | the counters of one worker, one step per access that the other thread can see | `next`, `owner`, `count` per cell; `active_odids` and its length; a value loaded but not yet stored is in `tmp`; `races` and `clashed` are history: how the two threads met |
| `Collector` | `unyte_udp_collector.c`, `listening_worker.c`, the two clients, and the creation, stop and end of the other threads; a step per call of a thread that another can see | one variable for where each thread is; `batch`, `input`, `output` are what it has received; `live` is what malloc gave and nobody freed; a use of anything else sets `undefined`; `abandoned` are datagrams nothing refers to any more, `forgotten` segments of which the payload alone is lost; `headless` are the parsers whose buffer has a cell without a list; `broken` says the listener ended by itself |
| `MonitoringProofs`, `CollectorProofs`, `LoadBalancerProofs` | theorems about the module each is named for | |
| `DomainChannel` | what the collector promises about one observation domain: in order, once, but it may lose | abstract |
| `LoadBalancer` | `client_ebpf_user.c` and `reuseport_udp_kern.c`, a step per access to a map | the maps have their names; `settled` in a CPU's record says whether its datagram came once the maps were set |
| `MC...` | instances for TLC | |

`ParsingWorker`, `Monitoring` and `Collector` use of the queues only what `BoundedFifo`
promises (a write on a full queue is refused, or replaces the oldest; a read waits),
which `QueueImplementsFifo` proves of the code. What a worker does with one datagram is
in `ParsingWorker`; in `Collector` it passes the datagram on or absorbs it. A pass of
the monitoring thread is in `Monitoring`; in `Collector` it uses the workers' counters
and adds summaries. `Sender`'s segments are numbered and cut as `ParsingWorker` assumes
(`SegmentNumbersSurvive`, `PayloadCovered`).
Definitions whose name ends in a description (`sem_post_not_when_full`,
`StopsAt_past_first`) are plausible slips in the code; no specification uses them, they
serve to show that each property can fail.

Modelling choices:

* An iteration of the parsing worker is one action: only the clean-up flag is shared
  with another thread while it runs, and it reads that flag once. Calls of the queue
  and of the counters are split, because there other threads interleave.
* The network loses, repeats and reorders: any segment of any message may arrive at any
  time, any number of times. In `Sender` each datagram arrives once and in order; there
  the question is what the two codecs make of it.
* A pointer into freed or unbuilt memory makes `undefined` true (`Monitoring`) or the
  parser `"crashed"`; nothing is said of what follows. `x += 1` on memory shared without
  a lock is a load and a store.
* Time is `Tick`, a second; an age is counted only up to what the code compares it with.
* Memory in `Collector` is a set of objects, one for what is allocated and freed
  together; an action lists what it uses and what it frees. Each thread's actions are
  completed by one frame: what no step of that thread changes.
* `recvmmsg` is called without flags or timeout, so it returns when the batch is full or
  is interrupted. As on Linux, closing the descriptor in another thread does not end a
  call that waits; the next call fails. `pthread_cancel` takes effect at a `sem_wait`:
  there a worker holds no mutex, but it may hold a message.
* The kernel is external to `LoadBalancer`: a closed socket leaves the targets, and the
  program goes with the last socket of its group. The hash is a constant.
* Bounds: `FailingMallocs`, `MaxUpdates`, `MaxPasses` (0 for none), `MaxDatagrams`
  (datagrams that are not empty; empty ones are not bounded), and the sizes of the
  sets. Nothing else is bounded: the queue, the worker, the listener and the monitoring
  loop run for ever.
* In `Monitoring` an update and a pass interleave at every access: nothing in the code
  keeps them apart, and nothing in the model does. `Observe` records the three meetings
  that do harm, so that a property can say what holds until one happens: an update that
  goes on during a removal and an index about to be moved by `realloc` during a pass (in
  `races`), and an increment between the copy and the reset of the same counter (in
  `clashed`, by odid). These variables are never read by an action.
* The test of the four counters, their copy (`get_summary`) and their reset are one step
  each. An update changes one of the counts and then the last id. A test that finds the
  counts 0 one after the other found them all 0 at the first load, since only the
  monitoring thread lowers them; and an update that comes between the loads of a copy or
  the stores of a reset comes between the copy and the reset of the odid, where
  `clashed` excepts it. A local variable of a call is reset when the call returns.
* `realloc` gives the old array back. `IndexOdid` chooses whether the monitoring thread
  has loaded its address (`stale`) wherever it is about to use it.
* `clear_buffer` at the shutdown visits every cell of a parser's buffer: one without a
  list makes `free_parsers` undefined in `Collector`.

## 3. Runs

| run | instance | shows |
|---|---|---|
| `queue_safety` | 2 writers, 1 destructive writer, 2 readers, 3 slots, 4 handles; symmetry on handles and on threads of a kind | `TypeOK`, `ReadNeverFindsEmpty`, `PermitsBalance`, `OneOwner`, `DestroysQueuedHandle`, and that the queue implements `BoundedFifo` |
| `queue_progress` | 1 writer, 1 destructive writer, 1 reader that tests before it reads and may stop; 3 slots | `DrainerNeverBlocks`, `ProducersNeverStuck`, `QueueDrains` |
| `parser_safety` | two messages of 3 and 2 segments in colliding buckets, with options, and one unsegmented; table of 4 buckets, passes of 2, output queue of 1 | `TypeOK`, `DeliveredWhole`, `CompleteLeaves`, `LeavesCompleteOrOld`, `DropsOnlyWhenFull` |
| `parser_faults` | three mallocs that fail anywhere; a table of 10 buckets, passes of 5 and a start index kept modulo 4; one message in a bucket the sweeps reach, one in a bucket they do not | `CountIsStored` and `ListsSorted` survive every error path; `SweptBucketsEmpty` (liveness) |
| `sender_roundtrip` | every buffer length 0..34 around the edges of one to three segments at four MTUs; sets of options up to, at and past what `header_length` can count; headers at the limits of their fields; every encoding of the older draft | `HeadersSurvive`, `SegmentNumbersSurvive`, `OptionsArrive`, `PayloadCovered`, `FitsMtu`, `CrashesOnlyOnLargeOptions`, `LegacyRead` |
| `monitor_overlap` | 2 odids in one bucket, 2 updates and any number of passes interleaved access by access; 2 mallocs that fail; room for one entry, so that the index grows; odids removed after one silent pass | `OnlyRacesUndefined`, `IndexExact`, `SummariesAddUp`, `SilentAreForgotten` |
| `collector_lifecycle` | both clients, 2 parsers with a domain each, batches of 2, queues of 2 slots (one message), 2 datagrams with `client_sample.c` and 1 with `client_monitoring.c`, any number of empty ones; every malloc, call and worker may fail, the user may close at any time | `MemorySafe`, `FailedListenerContained`, `NoThreadLeft`, `OnlyAbandonedLeak`, that the collector implements `DomainChannel`, `ListenerReturnsToSocket`, `ShutdownCompletes` |
| `balancer_settled` | 2 clients (one gives the maximum, one takes the default) that start, fail, end and start again; 2 CPUs, 2 sources, nonces 0 to 2, 3 buckets | `OneBucketPerSource`, `ReachesOpenSocket`, `StaysSettled` |

Why the bounds are enough. Three slots give the ring the states empty, in between, full
and wrapped; with `Size + 1` or more threads all permits can be out. Two messages
collide, one of three segments has a first, a middle and a last, and every order of
arrival and every duplicate is explored; ages are explored to the expiry and beyond.
The sweep is checked in a table scaled down with its constants in proportion (a start
index narrower than the table, a pass longer than what the index can count); that the
far buckets are never visited is proved for every table, the real one included. The
codec is sampled around each edge of its arithmetic. In `monitor_overlap`, two odids
that collide are what a walk past a cell being built, a removal from a list and one from
the index need. Its `CONSTRAINT NoRemovalRace` stops at states where an update has gone
on during a removal: every property of the run excepts what follows, so nothing is hidden,
and the run ends; `monitor_freed_cell` has no constraint. In `collector_lifecycle` queues of
one message are full after one, so that both queues refuse; two datagrams of one domain
can be in any two of the batch, the input queue, a worker, the output queue and the
user's hands, which is where one could overtake the other; two parsers give the shutdown
one that is freed while the other still runs. Two CPUs and two clients are enough for
each of the races on a map, each of them being between a read and a later store.

The clean-up and monitoring constants are shrunk where the code only compares with
them (`CLEAN_COUNT_MAX`, `EXPIRE_MSG`, `ODID_TIME_TO_LIVE`).

Fairness. `UdpQueue!FairSpec`: a thread inside a call keeps running, which the
scheduler, and mutexes and semaphores that are eventually granted, justify; nothing
makes a thread call. `QueueDrains` assumes in its own statement that readers keep
reading. `ParsingWorker!FairSpec`: time passes and the clean-up thread is scheduled; no
datagram is promised, so `SweptBucketsEmpty` assumes, in its statement, that sweeps go
on (a sweep runs only when a segment arrives). `Monitoring!FairSpec`: both threads run
and `sleep` returns. `Collector!FairSpec`: every
thread is scheduled; the user need not close the socket, and no call is promised to fail
or to succeed. `TrafficSpec` adds that datagrams, possibly empty ones, keep arriving
while the listener waits: `ShutdownCompletes` needs it, and `collector_close` shows that
it does. `queue_*`, `parser_*` and `balancer_*` runs check for deadlock; `sender_*`,
`monitor_*` and `collector_*` do not, since a sent message, a bounded number of updates
and a collector end.

### Disagreements

Four runs end in a violation, each of a sentence of the documentation or of a comment:

* `collector_close`: the repository's `README.md:76` says "To shut down the collector,
  just close the socket."; a listener that waits in `recvmmsg` (`listening_worker.c:307`)
  notices only when a whole batch has come, and every client that joins it waits.
* `sender_long_message`: `serialize_message` shifts only the low byte of the segment
  number; segment 128 is read as segment 0.
* `sender_space`: `README.md:101` calls what `unyte_udp_get_space` answers "space of media
  type version", and `README.md:172` the sender's field "UDP-notif protocol space"; the
  parser keeps the masked bit, 0 or 16, in a field of one bit (`unyte_udp_utils.c:85`), so
  the space read is always 0.
* `monitor_freed_cell`: the monitoring thread frees the counters of a silent domain
  while the worker is about to count in them.

The models show these too; no run is kept for them:

* the start of the next pass is stored in 8 bits (`segmentation_buffer.h:50`), so the
  sweeps never reach buckets 755 to 9999, although line 441 of `segmentation_buffer.c`
  reduces it modulo `SIZE_BUF` and `unyte_udp_defaults.h:23` speaks of a buffer of 10000:
  a message that never completes there stays for ever. `FarBucketsNeverSwept` proves it
  for every size; it is a statement of the defect, not a property to be wished, and no
  run lists it. `SweptBucketsEmpty` says what the sweeps do achieve;
* the expiry counts from the second sweep over a list (`segmentation_buffer.c:422`), not
  from its last segment: a message that still receives segments is cleared, although
  `unyte_udp_defaults.h:26` says expired means "not receiving segments anymore";
* a queue of one slot is full when empty, and `destructive_write` frees what malloc left
  in the slot (`unyte_udp_queue.c:82`): `DestroysQueuedHandle` with `Size = 1`, which is
  why the theorem about it assumes `Size > 1`;
* `create_assembled_msg` keeps the length of the payload in 16 bits
  (`parsing_worker.c:15`): `DeliveredWhole` with segments of 40000 bytes;
* a list that cannot be allocated leaves its cell linked without one
  (`segmentation_buffer.c:112`), and the next walk dereferences it, `WalkHeadless`; so does
  `clear_buffer` at the shutdown (`listening_worker.c:48`), at the latest:
  `MemorySafe` excepts `headless`;
* a cell that cannot be allocated in the middle of a list unlinks the rest and leaves
  `current_size` (`segmentation_buffer.c:183`): `DeliveredWhole` with one failing malloc;
* options larger than the bytes of the first segment make its unsigned size wrap
  (`unyte_udp_utils.c:420`): `CrashesOnlyOnLargeOptions` says when;
* "The thread will every monitoring_delay seconds send all observation domain id's
  counters" (`README.md:124`): a segment counted between the copy of its counter and the
  reset (`monitoring_worker.c:271`, `:275`) is lost, or, if it was loaded before the reset
  and is stored after, what was just reported is reported again: the exception of
  `SummariesAddUp` for `clashed`;
* an update during a removal may use the freed cell, put its counts in a cell that is
  gone, or lose the other thread's change of the length of the index
  (`monitoring_worker.c:134`, `:170`): the exception of `IndexExact` and
  `SummariesAddUp` for `"removal"`. `realloc` during a pass frees the array that the pass
  reads (`monitoring_worker.c:57`), and an index that could not grow is written past its
  end (line 132): with the removal, the three ways to undefined behaviour that
  `OnlyRacesUndefined` names;
* a removal moves the last entry of the index and the pass goes on to the length it
  captured (`monitoring_worker.c:262`): an odid may be aged twice in a pass;
* the thread `t_read` of `examples/client_monitoring.c` looks at its stop flag only after
  a message has come, and `main` joins it (line 108) before the listener: with no more
  messages the client waits for ever (`Starved`, the exception of `ShutdownCompletes`);
* a datagram that a full input queue refuses is freed without its addresses
  (`listening_worker.c:344`), and so is an empty one (`:351`, the addresses of `:304`); the
  slots that a short batch leaves empty are allocated anew on the next turn; what a
  cancelled worker held or had not read yet is not freed at all: these are the
  `abandoned` of `OnlyAbandonedLeak`. The payload of a segment that could not be inserted
  (`parsing_worker.c:142`, freed only at the third error), of a message that could not be
  assembled, and of a repeated segment that completes a message (`-2`) is never freed:
  these are `forgotten`. `OnlyAbandonedLeak` says that exactly these leak;
* a listener that gives up for want of memory (`listening_worker.c:264`, `:332`) stops
  nothing, and one whose socket fails by itself frees what `collector->sockfd` points to:
  both are `broken`, which `MemorySafe` and `NoThreadLeft` leave out.
  `FailedListenerContained` says how far the damage goes: until the user closes the
  socket or frees the collector, the threads that were left go on safely;
* encoding 4 of the older draft reads past the table of encodings
  (`unyte_udp_utils.c:168`): `LegacyRead` says what may be read;
* options that take the header past 255 bytes wrap `header_length`
  (`unyte_udp_utils.c:447`): `HeaderFits` in the properties of `Sender`;
* "all packets from one src IP will always go on the same collector"
  (`examples/eBPF/client_ebpf_user.c:3`) holds once the nonce and the size are set: two
  CPUs may both draw a nonce (`reuseport_udp_kern.c:88`), and a selector that has read
  size 0 stores the default over what a client has just set (line 130). `Settled` says
  from when on; nothing changes the maps after that (`StaysSettled`);
* the repository's `README.md:40` gives 10 as the default of `recvmmsg_vlen`, the code
  uses `UNYTE_DEFAULT_VLEN`.

## 4. Theorems

Each theorem holds for every value of the constants that the named `ASSUME`s of the
modules allow (disjoint finite sets of threads, `NULL` and garbage are not handles, sizes
are positive, keys hash into the table); TLC evaluates these in every run. A further
hypothesis stands in the theorem itself and is named below.

**Queue** (`UdpQueueProofs`). `QueueTypeOK`, `QueueMutualExclusion`,
`QueuePermitsBalance`, `QueueReadNeverFindsEmpty`, `QueueDrainerNeverBlocks`. The
inductive invariant is

    QueueInv == TypeOK /\ LockInv /\ ProducersCarry /\ QueuedAreHandles /\ PermitsBalance

`PermitsBalance` says that the permits of `empty`, those held by threads and the
handles in the ring add up to `Size`, and those of `full` and their holders to the
number of handles; a reader in its critical section holds one, so the ring is not
empty. It needs `LockInv`, without which two threads could move the indices at once, and
`QueuedAreHandles`, because the ring's unused slots hold whatever malloc left there.
`DrainerNeverBlocks` is inductive relative to it: between the test and the wait nobody
else takes a permit of `full`, and nobody lowers it.

For `Size > 1`: `QueueOneOwner` and `QueueDestroysQueuedHandle`, from
`OwnerInv == EmptyHanded /\ OneOwner` relative to `QueueInv`; and, in
`UdpQueueRefinement`, `QueueImplementsFifo`: the queue refines `BoundedFifo` with
`fifo` the sequence of queued handles, each call taking effect in its critical section,
and every other step a stutter or a change of phase.

**Parsing worker.** For every set of messages, table size, pass size and number of
failing mallocs, `ParsingWorkerProofs`: `CountIsAlwaysStored`, with `CountInv` adding
that stored keys are keys of the instance (so that the table is finite); and
`FarBucketsNeverSwept`, with `FarInv` adding that the start index fits its field and that
far lists are unmarked, since a list must be marked before it can expire.

`ReassemblyProofs`, still with any mallocs failing: `WorkerTypeCorrect` and
`ListsAlwaysSorted`, from `FaultInv`, which adds to the types that every list is sorted
and that its `timestamp` counts from a moment after its creation. The lemma under them is
`PlaceProperties`: the search loop of `insert_into_msl` stops at a place that exists in
every list, sorted or not, with everything below `i` before it; in a sorted list
everything after it is above `i` or equal to it.

With `FailingMallocs = 0`: `DeliveredAlwaysWhole`, `CompleteAlwaysLeaves`,
`AlwaysLeavesCompleteOrOld`, `AlwaysDropsOnlyWhenFull`. The hypothesis is needed: a cell
that cannot be allocated in the middle of a list loses the rest of it while
`current_size` keeps counting it (section 3). `WholeInv` ties each list to its counters:
`current_size` is its length, the payload size is the sum of its contents, the options
are the tagged segments among those stored, once each, `total_size` is 0 or the number of
segments, and is set once the last segment is in; a stored list lacks a segment. A sorted list of `n` numbers below `n`
is `0..n-1` in order, so a complete list is the message. `DeliveredAlwaysWhole` also
assumes `LengthsFit`: header and payload fit the 8 and 16 bits that
`create_assembled_msg` keeps them in; with longer messages the code truncates them.

**Monitoring** (`MonitoringProofs`), for any set of domains, any collisions, any number
of updates, passes and failing mallocs, in every interleaving: `UndefinedOnlyInRaces`,
`IndexAlwaysExact`, `SummariesAlwaysAddUp`. They have no hypothesis; the exceptions are in
the properties, each a meeting of the threads that section 3 describes. The invariant is

    MonitoringInv ==
      /\ undefined => races # {} \/ IndexFull
      /\ ~undefined /\ "removal" \notin races \cup Races => Core

    Core == ~undefined /\ NoMeeting /\ Types /\ Lists /\ Index /\ Pass /\ Sums

`NoMeeting` says that the worker is between calls while an odid is removed. `Lists` says
where each thread is in its walk and what a cell that is being built looks like: a cell
is added at the end of a list only, by the worker only, because the monitoring thread
looks for odids that have a cell. `Index`: the entries of `active_odids` are the owners of
the linked cells, but for what an update or a removal is just changing. `Pass`: the
entries that the pass has still to visit, up to the length it captured, are of odids that
have a cell and are all distinct, and none of them is the one being created or removed;
this is what keeps the monitoring thread from creating a cell after a removal moved an
entry. `Sums`: counted = reported + stored, per domain outside `clashed`, with the value
held in `tmp` accounted for. The lists are described by the existence of a ranking of the
cells rather than by recursion along `next`.

**Collector** (`CollectorProofs`), for every number of parsers, domains, datagrams and
slots, both clients, any failing malloc: `CollectorMemorySafe`,
`CollectorNoThreadLeft`, `CollectorOnlyAbandonedLeak`. The inductive invariant is

    CollectorInv == ~broken => /\ undefined => headless # {}
                               /\ Control /\ Queues /\ Objects /\ Packets /\ Scraps

`Control` says, for each place of the user's thread and of the listener, where the other
threads can be; `Objects` says, for the same places, exactly which objects of the
collector are live; `Packets` that each datagram is in one place and has its memory, or
is abandoned; `Scraps` that the forgotten payloads are live; `Queues` what is in the batch and in the queues. A step then uses only what
`Objects` and `Packets` say is live where its thread is. `broken` is out of scope for the
reason section 3 gives, and after a cell without a list is met nothing is claimed of the
memory: `CollectorMemorySafe` is about the memory of `Collector`, not about the cells of
`Monitoring`.

`CollectorImplementsChannel`: every step of `Collector` is one of `DomainChannel`, whatever
fails (`broken` or not): a receipt, a delivery, or the loss of some datagrams or of none. `Transit` maps the
queues to the set of ids of a domain on their way, so that the abstract specification says
which one may be delivered, the oldest, and leaves out where it is. The inductive invariant is

    InOrder == OrderTypes /\ AtHand /\ Routed /\ QueuesSorted /\ Nearer /\ Past

`Routed` says that what a parser has was dispatched to it by `ParserOf`, so that two
parsers never race for one domain; `QueuesSorted` and `Nearer`, that the datagrams of a
domain are in order in each queue and from the output queue back through a parser's hand
and input queue to the batch; `Past`, that what was delivered is older than all of those. None of `CollectorInv`
is needed.

**Load balancer** (`LoadBalancerProofs`), for any number of CPUs, clients, sources and
nonces: `AlwaysOneBucket`, `AlwaysReachesOpenSocket`, `AlwaysStaysSettled`, from

    BalancerInv == BalancerTypes /\ TargetsOwned /\ SettledDatagrams /\ ChosenBuckets

`SettledDatagrams` says that a datagram that came once the maps were set has read, or
will read, the values they still have.

**Codec and sender** (`SenderProofs`), for every message, any list of options, any
number of segments: `HeadersAlwaysSurvive`, `ShortMessagesNumbered`,
`OptionsAlwaysArrive`, `PayloadAlwaysCovered`, `DatagramsFitMtu`,
`CrashesNeedLargeOptions`, `LegacyAlwaysRead`. The constants are only assumed to fit the
fields of `unyte_message_t` (`MessagesAssumption`, with an MTU above 16 bytes) and of
the older header (`LegacyAssumption`). The hypotheses in the theorems:

* `Len(packets) <= 2^7` in `ShortMessagesNumbered`, beyond which it is false (run
  `sender_long_message`);
* `PlainMessage`, for the two theorems that read options back: no option of the user has
  the type of the segmentation option, and none has more than 253 bytes of data, so that
  its length with its own two bytes fits in the byte it has. The parser would take the
  one for a segment number and read past the other;
* `mtu < 2^16` in `PayloadAlwaysCovered` and `DatagramsFitMtu`: `used_mtu` is an `uint`,
  while the length in the header has 16 bits, as a UDP datagram has. `HeaderFits`, in the
  properties themselves, is the same for the 8 bits of `header_length`.

The inductive invariant is

    SenderInv == TypeOK /\ PacketsBuilt /\ InTransit /\ LegacyInTransit

`PacketsBuilt` says that `packets` is what `build_message` makes of the message and that
the sender stopped exactly when the options have no room (`RoomForOptions`);
`InTransit`, that the segments sent are those parsed and those on the wire, in order.
What is left is about the codec alone. `MessageBuilt` and `Pieces` say where each segment
starts, how much it carries and that the pieces cover the buffer; `SegmentHeaderRead`,
`SegmentOptionsRead` and `SegmentPayloadRead` say what the parser reads of it. Their
loops (the bytes of the options, the options kept, the place of each segment) are
recursive functions in `Codec`. `LoopExists` proves once that such a function exists
and `UpTo` is the induction it is used with, both for a set where the library's theorems
have an operator: a counterexample would have a least element, by `WFMin`.

Only model-checked: liveness (`ProducersNeverStuck`, `QueueDrains`, `SweptBucketsEmpty`,
`SilentAreForgotten`, `ListenerReturnsToSocket`, `ShutdownCompletes`), since the prover
treats neither fairness nor `ENABLED`; and `FailedListenerContained`, since
`CollectorInv` says nothing of a collector whose listener ended by itself. Every other
invariant, every action property and every refinement of the passing runs is proved.

## 5. Not modelled

* Sockets and addresses (`unyte_udp_create_socket`, `get_dest_addr`), printing, and the
  sender examples: I/O without state of the program's own. The other clients differ from
  `client_sample.c` in how they open the socket.
* The memory of each slot of a batch (`listening_worker.c:298`): what a datagram was
  copied to is modelled one by one; one object stands for the buffers of all empty
  datagrams, and one for their addresses and for what the slots that stay empty after a
  short batch lose.
* An option whose length byte wrapped to 0 (a sender's `data_length` of 254): the parser's
  loop would not advance. `OptionsVisited` has no such case; no run and no theorem
  includes one (`PlainMessage`).
* The second close of a descriptor the user has closed (`listening_worker.c:311`): what
  it hits belongs to the rest of the process.
* MTUs of 16 bytes or less, which divide by zero or wrap
  (`MessagesAssumption`).
* The arithmetic of `jhash`, and failed mallocs in `unyte_udp_start_collector`, which end
  the process.

## 6. Plan

Done, in this order: `UdpQueue` with `BoundedFifo` and their proofs; `SegmentationBuffer`
and `ParsingWorker` with first proofs; `Codec` and `Sender`, with the older draft;
`Monitoring`; `Collector` with `DomainChannel`; `LoadBalancer`.

Proofs done: the safety of `UdpQueue` and its refinement of `BoundedFifo`, of
`ParsingWorker`, `Monitoring`, `Collector` and `LoadBalancer`; the refinement of
`DomainChannel` by `Collector`; the round trip of `Codec` and `Sender`.

Left: an invariant for a collector whose listener ended by itself, from which
`FailedListenerContained` could be proved; what is delivered when an assembled message
is longer than 16 bits can say, or after a list lost its rest; the race of two CPUs for
the nonce before the maps are set.
