---------------------------- MODULE LoadBalancer ----------------------------
(***************************************************************************)
(* The eBPF load balancer of examples/eBPF: collectors on one address and  *)
(* port (client_ebpf_user.c), and the program that chooses the one a       *)
(* datagram goes to (reuseport_udp_kern.c).  The program runs on every     *)
(* CPU at once; the maps nonce, size and udp_balancing_targets are shared  *)
(* by all of them and by the clients, and outlive both (they are pinned).  *)
(*                                                                         *)
(* The kernel is external: a socket that is closed leaves the targets, the *)
(* sockets of a port form a group, the program of a group goes with its    *)
(* last socket, and a group without one spreads its datagrams as it likes. *)
(***************************************************************************)
EXTENDS Integers, FiniteSets

CONSTANTS Clients,             (* processes running client_ebpf_user        *)
          Index,               (* by client: its argument <index>           *)
          BalancerMax,         (* by client: <balancer_max>, 0 for none     *)
          Sources,             (* source addresses                          *)
          Cpus,
          Nonces,              (* what bpf_get_prandom_u32 may answer       *)
          jhash,               (* by nonce and source: the hash             *)
          MAX_BALANCER_COUNT,
          None

Buckets == 0..(MAX_BALANCER_COUNT - 1)

ASSUME BalancerAssumption ==
  /\ MAX_BALANCER_COUNT \in Nat \ {0}
  /\ None \notin Clients
  /\ Index \in [Clients -> Buckets] /\ BalancerMax \in [Clients -> 0..MAX_BALANCER_COUNT]
  /\ \A c \in Clients : BalancerMax[c] = 0 \/ Index[c] < BalancerMax[c]
  /\ Nonces \subseteq Nat /\ jhash \in [Nonces \cup {0} -> [Sources -> Nat]]

VARIABLES nonce, size,            (* the maps of one entry, 0 at first      *)
          udp_balancing_targets,  (* by bucket: a client's socket or None   *)
          attached,               (* the group of sockets has the program   *)
          client,                 (* by client: where it is                 *)
          cpu,                    (* by CPU: the datagram and the program   *)
          chosen                  (* by source: the buckets chosen for the  *)
                                  (* datagrams that came once settled       *)

maps == <<nonce, size, udp_balancing_targets>>
vars == <<maps, attached, client, cpu, chosen>>

Idle == [at |-> "idle", src |-> None, count |-> 0, settled |-> FALSE]

Init ==
  /\ nonce = 0 /\ size = 0
  /\ udp_balancing_targets = [k \in Buckets |-> None]
  /\ attached = FALSE
  /\ client = [c \in Clients |-> "off"]
  /\ cpu = [n \in Cpus |-> Idle]
  /\ chosen = [s \in Sources |-> {}]

Bound == {c \in Clients : client[c] # "off"}

To(c, at) == client' = [client EXCEPT ![c] = at]

(* Nothing is left to be initialised: the maps are set, no CPU is about to  *)
(* set one, and every client that gives a maximum gives this one.           *)
Settled ==
  /\ nonce # 0 /\ size # 0
  /\ \A n \in Cpus : cpu[n].at \notin {"init_size", "draw"}
  /\ \A c \in Clients : BalancerMax[c] \in {0, size} /\ client[c] # "init_size"

-----------------------------------------------------------------------------
(* A client: unyte_udp_create_socket, then attach_ebpf_to_socket.           *)
CreateSocket(c) ==
  /\ client[c] = "off" /\ To(c, "bound")
  /\ UNCHANGED <<maps, attached, cpu, chosen>>

AttachProgram(c) ==
  /\ client[c] = "bound" /\ To(c, "attached")
  /\ attached' = TRUE
  /\ UNCHANGED <<maps, cpu, chosen>>

PutSocket(c) ==
  /\ client[c] = "attached" /\ To(c, "target")
  /\ udp_balancing_targets' = [udp_balancing_targets EXCEPT ![Index[c]] = c]
  /\ UNCHANGED <<nonce, size, attached, cpu, chosen>>

(* A maximum given by the user overwrites the size; ...                     *)
SetSize(c) ==
  /\ client[c] = "target" /\ BalancerMax[c] # 0 /\ To(c, "ready")
  /\ size' = BalancerMax[c]
  /\ UNCHANGED <<nonce, udp_balancing_targets, attached, cpu, chosen>>

(* ... without one the client looks, and initialises it later.              *)
LookSize(c) ==
  /\ client[c] = "target" /\ BalancerMax[c] = 0
  /\ To(c, IF size = 0 THEN "init_size" ELSE "ready")
  /\ UNCHANGED <<maps, attached, cpu, chosen>>

InitSize(c) ==
  /\ client[c] = "init_size" /\ To(c, "ready")
  /\ size' = MAX_BALANCER_COUNT
  /\ UNCHANGED <<nonce, udp_balancing_targets, attached, cpu, chosen>>

(* A call fails; main ignores the answer and listens all the same.          *)
AttachFails(c) ==
  /\ client[c] \in {"bound", "attached", "target", "init_size"} /\ To(c, "ready")
  /\ UNCHANGED <<maps, attached, cpu, chosen>>

(* The client ends.  It may be started again.                               *)
CloseSocket(c) ==
  /\ client[c] = "ready" /\ To(c, "off")
  /\ udp_balancing_targets' = [k \in Buckets |->
       IF udp_balancing_targets[k] = c THEN None ELSE udp_balancing_targets[k]]
  /\ attached' = (attached /\ Bound # {c})
  /\ UNCHANGED <<nonce, size, cpu, chosen>>

-----------------------------------------------------------------------------
(* Mutated forms of definitions below, used by none of them.                *)
ReadNonce_always_draws(n) ==
  /\ cpu[n].at = "read_nonce"
  /\ cpu' = [cpu EXCEPT ![n].at = "draw"]
  /\ UNCHANGED <<maps, attached, client, chosen>>

StoreSize_again(n) ==
  /\ cpu[n].at \in {"init_size", "read_nonce"}
  /\ size' = MAX_BALANCER_COUNT
  /\ cpu' = [cpu EXCEPT ![n].at = "read_nonce", ![n].count = MAX_BALANCER_COUNT]
  /\ UNCHANGED <<nonce, udp_balancing_targets, attached, client, chosen>>

Key_of_all_buckets(n, count) == jhash[nonce][cpu[n].src] % MAX_BALANCER_COUNT

-----------------------------------------------------------------------------
(* _selector on CPU n: a datagram of src comes, and size is read.           *)
ReadSize(n, src) ==
  /\ attached /\ cpu[n].at = "idle"
  /\ cpu' = [cpu EXCEPT ![n] =
       [at |-> IF size = 0 THEN "init_size" ELSE "read_nonce",
        src |-> src, count |-> size, settled |-> Settled]]
  /\ UNCHANGED <<maps, attached, client, chosen>>

StoreSize(n) ==
  /\ cpu[n].at = "init_size"
  /\ size' = MAX_BALANCER_COUNT
  /\ cpu' = [cpu EXCEPT ![n].at = "read_nonce", ![n].count = MAX_BALANCER_COUNT]
  /\ UNCHANGED <<nonce, udp_balancing_targets, attached, client, chosen>>

(* hash: the nonce is drawn if it is 0, ...                                 *)
ReadNonce(n) ==
  /\ cpu[n].at = "read_nonce"
  /\ cpu' = [cpu EXCEPT ![n].at = IF nonce = 0 THEN "draw" ELSE "select"]
  /\ UNCHANGED <<maps, attached, client, chosen>>

DrawNonce(n) ==
  /\ cpu[n].at = "draw"
  /\ nonce' \in Nonces
  /\ cpu' = [cpu EXCEPT ![n].at = "select"]
  /\ UNCHANGED <<size, udp_balancing_targets, attached, client, chosen>>

(* ... and read again.  The size too may be read again, through the pointer *)
(* into the map, or be what was read before.                                *)
Key(n, count) == jhash[nonce][cpu[n].src] % count

Select(n) ==
  /\ cpu[n].at = "select"
  /\ \E count \in {cpu[n].count, size} :
       chosen' = IF cpu[n].settled
                   THEN [chosen EXCEPT ![cpu[n].src] = @ \cup {Key(n, count)}]
                   ELSE chosen
  /\ cpu' = [cpu EXCEPT ![n] = Idle]
  /\ UNCHANGED <<maps, attached, client>>

Next ==
  \/ \E c \in Clients :
       \/ CreateSocket(c) \/ AttachProgram(c) \/ PutSocket(c)
       \/ SetSize(c) \/ LookSize(c) \/ InitSize(c)
       \/ AttachFails(c) \/ CloseSocket(c)
  \/ \E n \in Cpus :
       \/ \E s \in Sources : ReadSize(n, s)
       \/ StoreSize(n) \/ ReadNonce(n) \/ DrawNonce(n) \/ Select(n)

Spec == Init /\ [][Next]_vars

-----------------------------------------------------------------------------
(* All datagrams of one source that come once the maps are settled go to    *)
(* one bucket, on whatever CPUs they are handled and whichever clients come *)
(* and go: "all packets from one src IP will always go on the same          *)
(* collector".                                                              *)
OneBucketPerSource == \A s \in Sources : Cardinality(chosen[s]) <= 1

(* What is settled stays so: no late CPU and no client that starts again    *)
(* changes the nonce or the size under the datagrams.                       *)
StaysSettled == [][Settled => Settled' /\ UNCHANGED <<nonce, size>>]_vars

(* When every bucket in use has its socket, a datagram that came once       *)
(* settled goes to the open socket of the client that asked for the bucket, *)
(* whether the program still uses the size it has read or reads it again.   *)
ReachesOpenSocket ==
  (\A k \in 0..(size - 1) : udp_balancing_targets[k] # None) =>
    \A n \in Cpus : cpu[n].at = "select" /\ cpu[n].settled =>
      \A count \in {cpu[n].count, size} :
        LET c == udp_balancing_targets[Key(n, count)]
        IN c # None /\ client[c] # "off" /\ Index[c] = Key(n, count)
=============================================================================
