-------------------------- MODULE LoadBalancerProofs --------------------------
(***************************************************************************)
(* Proofs about LoadBalancer, for any clients, sources, CPUs, nonces and   *)
(* hash, and any number of buckets.                                        *)
(***************************************************************************)
EXTENDS LoadBalancer, FiniteSetTheorems, TLAPS

ClientPlaces == {"off", "bound", "attached", "target", "init_size", "ready"}

Datagrams ==
  [at : {"idle", "init_size", "read_nonce", "draw", "select"},
   src : Sources \cup {None}, count : 0..MAX_BALANCER_COUNT, settled : BOOLEAN]

BalancerTypes ==
  /\ nonce \in Nonces \cup {0} /\ size \in 0..MAX_BALANCER_COUNT
  /\ udp_balancing_targets \in [Buckets -> Clients \cup {None}]
  /\ client \in [Clients -> ClientPlaces]
  /\ cpu \in [Cpus -> Datagrams]
  /\ chosen \in [Sources -> SUBSET Nat]

(* A socket in the targets is open, in the bucket its client asked for.     *)
TargetsOwned ==
  \A k \in Buckets : udp_balancing_targets[k] # None =>
    /\ client[udp_balancing_targets[k]] \in {"target", "init_size", "ready"}
    /\ Index[udp_balancing_targets[k]] = k

(* A datagram that came once settled is still handled settled, with the     *)
(* size it has read.                                                        *)
SettledDatagrams ==
  \A n \in Cpus : cpu[n].settled =>
    Settled /\ cpu[n].count = size /\ cpu[n].src \in Sources

(* The bucket of a source once the maps are settled.                        *)
Bucket(s) == jhash[nonce][s] % size

(* Only that bucket has been chosen for it, and only once settled.          *)
ChosenBuckets ==
  \A s \in Sources : chosen[s] # {} => Settled /\ chosen[s] = {Bucket(s)}

BalancerInv == BalancerTypes /\ TargetsOwned /\ SettledDatagrams /\ ChosenBuckets

-----------------------------------------------------------------------------
(* The actions of a client, and those of a CPU.                             *)
ClientStep(c) ==
  \/ CreateSocket(c) \/ AttachProgram(c) \/ PutSocket(c)
  \/ SetSize(c) \/ LookSize(c) \/ InitSize(c)
  \/ AttachFails(c) \/ CloseSocket(c)

CpuStep(n) ==
  \/ \E s \in Sources : ReadSize(n, s)
  \/ StoreSize(n) \/ ReadNonce(n) \/ DrawNonce(n) \/ Select(n)

(* Next is one of these (client_ebpf_user.c, reuseport_udp_kern.c).         *)
LEMMA NextIsAStep ==
  Next <=> (\E c \in Clients : ClientStep(c)) \/ (\E n \in Cpus : CpuStep(n))
BY DEF Next, ClientStep, CpuStep

(* A client's step keeps the maps settled: its maximum is the size already  *)
(* (client_ebpf_user.c:115-130), and without one it sees the size set.      *)
LEMMA ClientKeepsSettled ==
  ASSUME BalancerTypes, Settled, NEW c \in Clients, ClientStep(c)
  PROVE  Settled' /\ UNCHANGED <<nonce, size>>
<1> USE DEF BalancerTypes, ClientPlaces
<1>1. UNCHANGED <<nonce, cpu>>
  BY DEF ClientStep, CreateSocket, AttachProgram, PutSocket, SetSize, LookSize,
         InitSize, AttachFails, CloseSocket, maps
<1>2. size' = size
  BY DEF Settled, ClientStep, CreateSocket, AttachProgram, PutSocket, SetSize,
         LookSize, InitSize, AttachFails, CloseSocket, maps
<1>3. \A d \in Clients : client'[d] # "init_size"
  BY DEF Settled, ClientStep, CreateSocket, AttachProgram, PutSocket, SetSize,
         LookSize, InitSize, AttachFails, CloseSocket, To
<1> QED
  BY <1>1, <1>2, <1>3 DEF Settled

(* So does a step of the program on a CPU: it reads a size and a nonce that *)
(* are set (reuseport_udp_kern.c:80-92, 127-131).                           *)
LEMMA CpuKeepsSettled ==
  ASSUME BalancerTypes, Settled, NEW n \in Cpus, CpuStep(n)
  PROVE  Settled' /\ UNCHANGED <<nonce, size>>
<1> USE DEF BalancerTypes
<1>1. UNCHANGED <<client, nonce, size>>
  BY DEF Settled, CpuStep, ReadSize, StoreSize, ReadNonce, DrawNonce, Select, maps
<1>2. \A m \in Cpus : cpu'[m].at \notin {"init_size", "draw"}
  <2>1. cpu[n].at \notin {"init_size", "draw"} /\ nonce # 0 /\ size # 0
    BY DEF Settled
  <2>2. \E r : cpu' = [cpu EXCEPT ![n] = r] /\ r.at \in {"idle", "read_nonce", "select"}
    <3>1. CASE \E s \in Sources : ReadSize(n, s)
      BY <2>1, <3>1 DEF ReadSize
    <3>2. CASE ReadNonce(n)
      <4>1. cpu' = [cpu EXCEPT ![n] = [cpu[n] EXCEPT !.at = "select"]]
        BY <2>1, <3>2 DEF ReadNonce
      <4>2. [cpu[n] EXCEPT !.at = "select"].at = "select"
        BY DEF Datagrams
      <4> QED
        BY <4>1, <4>2
    <3>3. CASE Select(n)
      <4>1. cpu' = [cpu EXCEPT ![n] = Idle]
        BY <3>3 DEF Select
      <4>2. Idle.at = "idle"
        BY DEF Idle
      <4> QED
        BY <4>1, <4>2
    <3> QED
      BY <2>1, <3>1, <3>2, <3>3 DEF CpuStep, StoreSize, DrawNonce
  <2> QED
    BY <2>2 DEF Settled
<1> QED
  BY <1>1, <1>2 DEF Settled

(* What is settled stays so, in every step.                                 *)
LEMMA NextKeepsSettled ==
  ASSUME BalancerTypes, Settled, [Next]_vars
  PROVE  Settled' /\ UNCHANGED <<nonce, size>>
<1>1. CASE UNCHANGED vars
  BY <1>1 DEF vars, maps, Settled
<1> QED
  BY <1>1, NextIsAStep, ClientKeepsSettled, CpuKeepsSettled

-----------------------------------------------------------------------------
(* A hash taken modulo the size is a bucket in use.                         *)
LEMMA BucketInUse ==
  ASSUME BalancerTypes, Settled, NEW s \in Sources
  PROVE  Bucket(s) \in 0..(size - 1) /\ Bucket(s) \in Buckets /\ Bucket(s) \in Nat
<1>1. jhash[nonce][s] \in Nat
  BY BalancerAssumption DEF BalancerTypes
<1>2. size \in Nat \ {0} /\ size <= MAX_BALANCER_COUNT
  BY BalancerAssumption DEF BalancerTypes, Settled
<1>3. ASSUME NEW h \in Nat, NEW z \in Nat \ {0} PROVE h % z \in 0..(z - 1)
  OBVIOUS
<1>4. Bucket(s) \in 0..(size - 1)
  BY <1>1, <1>2, <1>3 DEF Bucket
<1> QED
  BY <1>2, <1>4, BalancerAssumption DEF Buckets

(* Every step keeps the types.                                              *)
LEMMA TypesKept ==
  ASSUME BalancerInv, [Next]_vars
  PROVE  BalancerTypes'
<1> USE BalancerAssumption DEF BalancerInv, BalancerTypes
<1>1. ASSUME NEW c \in Clients, ClientStep(c) PROVE BalancerTypes'
  <2> USE <1>1 DEF To, maps, ClientPlaces
  <2>1. CASE CreateSocket(c) \/ AttachProgram(c) \/ AttachFails(c) \/ LookSize(c)
    BY <2>1 DEF CreateSocket, AttachProgram, AttachFails, LookSize
  <2>2. CASE PutSocket(c)
    BY <2>2 DEF PutSocket
  <2>3. CASE SetSize(c) \/ InitSize(c)
    BY <2>3 DEF SetSize, InitSize
  <2>4. CASE CloseSocket(c)
    BY <2>4 DEF CloseSocket
  <2> QED
    BY <2>1, <2>2, <2>3, <2>4 DEF ClientStep
<1>2. ASSUME NEW n \in Cpus, CpuStep(n) PROVE BalancerTypes'
  <2> USE <1>2 DEF maps
  <2>1. CASE \E s \in Sources : ReadSize(n, s)
    <3>1. Settled \in BOOLEAN
      BY DEF Settled
    <3>2. PICK s \in Sources : ReadSize(n, s)
      BY <2>1
    <3>3. [at |-> IF size = 0 THEN "init_size" ELSE "read_nonce",
           src |-> s, count |-> size, settled |-> Settled] \in Datagrams
      BY <3>1 DEF Datagrams
    <3> QED
      BY <3>2, <3>3 DEF ReadSize
  <2>2. CASE StoreSize(n) \/ ReadNonce(n) \/ DrawNonce(n)
    <3>1. cpu' \in [Cpus -> Datagrams]
      BY <2>2 DEF StoreSize, ReadNonce, DrawNonce, Datagrams
    <3> QED
      BY <2>2, <3>1 DEF StoreSize, ReadNonce, DrawNonce
  <2>3. CASE Select(n)
    <3>1. cpu' \in [Cpus -> Datagrams]
      BY <2>3 DEF Select, Idle, Datagrams
    <3>2. chosen' \in [Sources -> SUBSET Nat]
      <4>1. CASE ~cpu[n].settled
        BY <2>3, <4>1 DEF Select
      <4>2. CASE cpu[n].settled
        <5>1. Settled /\ cpu[n].count = size /\ cpu[n].src \in Sources
          BY <4>2 DEF SettledDatagrams
        <5>2. chosen' = [chosen EXCEPT ![cpu[n].src] = @ \cup {Bucket(cpu[n].src)}]
          BY <2>3, <4>2, <5>1 DEF Select, Key, Bucket
        <5>3. Bucket(cpu[n].src) \in Nat
          BY <5>1, BucketInUse
        <5> QED
          BY <5>2, <5>3
      <4> QED
        BY <4>1, <4>2
    <3> QED
      BY <2>3, <3>1, <3>2 DEF Select
  <2> QED
    BY <2>1, <2>2, <2>3 DEF CpuStep
<1>3. CASE UNCHANGED vars
  BY <1>3 DEF vars, maps
<1> QED
  BY <1>1, <1>2, <1>3, NextIsAStep

(* A socket enters the targets open, and leaves them when it is closed.     *)
LEMMA TargetsKept ==
  ASSUME BalancerInv, [Next]_vars
  PROVE  TargetsOwned'
<1> USE BalancerAssumption DEF BalancerInv, BalancerTypes
<1>1. ASSUME NEW c \in Clients, ClientStep(c) PROVE TargetsOwned'
  <2> USE <1>1 DEF TargetsOwned, To, maps
  <2>1. CASE CreateSocket(c) \/ AttachProgram(c)
    BY <2>1 DEF CreateSocket, AttachProgram
  <2>2. CASE SetSize(c) \/ LookSize(c) \/ InitSize(c) \/ AttachFails(c)
    BY <2>2 DEF SetSize, LookSize, InitSize, AttachFails
  <2>3. CASE PutSocket(c)
    BY <2>3 DEF PutSocket
  <2>4. CASE CloseSocket(c)
    BY <2>4 DEF CloseSocket
  <2> QED
    BY <2>1, <2>2, <2>3, <2>4 DEF ClientStep
<1>2. ASSUME NEW n \in Cpus, CpuStep(n) PROVE TargetsOwned'
  BY <1>2 DEF CpuStep, ReadSize, StoreSize, ReadNonce, DrawNonce, Select, maps,
              TargetsOwned
<1>3. CASE UNCHANGED vars
  BY <1>3 DEF vars, maps, TargetsOwned
<1> QED
  BY <1>1, <1>2, <1>3, NextIsAStep

(* A datagram marked settled is one that has just come while the maps were, *)
(* or one under way, whose marks no step changes.                           *)
LEMMA DatagramsKept ==
  ASSUME BalancerInv, [Next]_vars
  PROVE  SettledDatagrams'
<1> USE DEF BalancerInv
<1>1. SUFFICES ASSUME NEW m \in Cpus, cpu'[m].settled
               PROVE  Settled' /\ cpu'[m].count = size' /\ cpu'[m].src \in Sources
  BY DEF SettledDatagrams
<1>2. Settled /\ cpu'[m].count = size /\ cpu'[m].src \in Sources
  <2>1. CASE cpu'[m] = cpu[m]
    BY <1>1, <2>1 DEF SettledDatagrams
  <2>2. CASE cpu'[m] # cpu[m]
    <3>1. PICK n \in Cpus : CpuStep(n)
      BY <2>2, NextIsAStep DEF ClientStep, CreateSocket, AttachProgram, PutSocket,
         SetSize, LookSize, InitSize, AttachFails, CloseSocket, vars
    <3>2. CASE \E s \in Sources : ReadSize(n, s)
      BY <1>1, <2>2, <3>2 DEF ReadSize, BalancerTypes
    <3>3. CASE StoreSize(n) \/ ReadNonce(n) \/ DrawNonce(n)
      <4>1. m = n /\ cpu[m].settled /\ cpu'[m].src = cpu[m].src
        BY <1>1, <2>2, <3>3 DEF StoreSize, ReadNonce, DrawNonce, BalancerTypes, Datagrams
      <4>2. Settled /\ cpu[m].count = size /\ cpu[m].src \in Sources
        BY <4>1 DEF SettledDatagrams
      <4>3. ~StoreSize(n)
        BY <4>1, <4>2 DEF StoreSize, Settled
      <4> QED
        BY <3>3, <4>1, <4>2, <4>3 DEF ReadNonce, DrawNonce, BalancerTypes, Datagrams
    <3>4. CASE Select(n)
      BY <1>1, <2>2, <3>4 DEF Select, Idle, BalancerTypes
    <3> QED
      BY <3>1, <3>2, <3>3, <3>4 DEF CpuStep
  <2> QED
    BY <2>1, <2>2
<1> QED
  BY <1>2, NextKeepsSettled

(* A bucket is chosen by the nonce and the size that are settled, whichever *)
(* of the two reads of the size is used.                                    *)
LEMMA ChosenKept ==
  ASSUME BalancerInv, [Next]_vars
  PROVE  ChosenBuckets'
<1> USE DEF BalancerInv
<1>1. SUFFICES ASSUME NEW s \in Sources, chosen'[s] # {}
               PROVE  Settled /\ chosen'[s] = {Bucket(s)}
  BY NextKeepsSettled DEF ChosenBuckets, Bucket
<1>2. CASE chosen'[s] = chosen[s]
  BY <1>1, <1>2 DEF ChosenBuckets
<1>3. CASE chosen'[s] # chosen[s]
  <2>1. PICK n \in Cpus : Select(n)
    BY <1>3, NextIsAStep DEF ClientStep, CreateSocket, AttachProgram, PutSocket,
       SetSize, LookSize, InitSize, AttachFails, CloseSocket, vars,
       CpuStep, ReadSize, StoreSize, ReadNonce, DrawNonce
  <2>2. cpu[n].settled
    BY <1>3, <2>1 DEF Select
  <2>3. Settled /\ cpu[n].count = size /\ cpu[n].src \in Sources
    BY <2>2 DEF SettledDatagrams
  <2>4. chosen' = [chosen EXCEPT ![cpu[n].src] = @ \cup {Bucket(cpu[n].src)}]
    BY <2>1, <2>2, <2>3 DEF Select, Key, Bucket
  <2>5. s = cpu[n].src /\ chosen'[s] = chosen[s] \cup {Bucket(s)}
    BY <1>3, <2>3, <2>4 DEF BalancerTypes
  <2> QED
    BY <2>3, <2>5 DEF ChosenBuckets
<1> QED
  BY <1>2, <1>3

(* The maps start unset, with no socket and no datagram.                    *)
LEMMA InitBalanced == Init => BalancerInv
<1> SUFFICES ASSUME Init PROVE BalancerInv
  OBVIOUS
<1>1. BalancerTypes
  BY BalancerAssumption DEF Init, BalancerTypes, ClientPlaces, Datagrams, Idle
<1> QED
  BY <1>1 DEF Init, BalancerInv, TargetsOwned, SettledDatagrams, ChosenBuckets, Idle

-----------------------------------------------------------------------------
(* The inductive invariant of the balancer: open sockets in their buckets,  *)
(* settled datagrams handled settled, one bucket for each source.           *)
THEOREM BalancerInvHolds == Spec => []BalancerInv
<1>1. BalancerInv /\ [Next]_vars => BalancerInv'
  <2> SUFFICES ASSUME BalancerInv, [Next]_vars PROVE BalancerInv'
    OBVIOUS
  <2> QED
    BY TypesKept, TargetsKept, DatagramsKept, ChosenKept DEF BalancerInv
<1> QED
  BY <1>1, InitBalanced, PTL DEF Spec

(* All datagrams of one source that come once the maps are settled go to    *)
(* one bucket, whichever CPUs handle them and whichever clients come and go *)
(* (reuseport_udp_kern.c, _selector).                                       *)
THEOREM AlwaysOneBucket == Spec => []OneBucketPerSource
<1>1. BalancerInv => OneBucketPerSource
  <2> SUFFICES ASSUME BalancerInv, NEW s \in Sources PROVE Cardinality(chosen[s]) <= 1
    BY DEF OneBucketPerSource
  <2>1. CASE chosen[s] = {}
    BY <2>1, FS_EmptySet
  <2>2. CASE chosen[s] # {}
    <3>1. chosen[s] = {Bucket(s)}
      BY <2>2 DEF BalancerInv, ChosenBuckets
    <3>2. Cardinality({Bucket(s)}) = 1
      BY FS_Singleton
    <3> QED
      BY <3>1, <3>2
  <2> QED
    BY <2>1, <2>2
<1> QED
  BY <1>1, BalancerInvHolds, PTL

(* When every bucket in use has its socket, the bucket of a datagram that   *)
(* came once settled holds the open socket of the client that asked for it. *)
THEOREM AlwaysReachesOpenSocket == Spec => []ReachesOpenSocket
<1>1. BalancerInv => ReachesOpenSocket
  <2> SUFFICES ASSUME BalancerInv,
                      \A k \in 0..(size - 1) : udp_balancing_targets[k] # None,
                      NEW n \in Cpus, cpu[n].settled,
                      NEW count \in {cpu[n].count, size}
               PROVE  LET c == udp_balancing_targets[Key(n, count)]
                      IN c # None /\ client[c] # "off" /\ Index[c] = Key(n, count)
    BY DEF ReachesOpenSocket
  <2>1. Settled /\ count = size /\ cpu[n].src \in Sources
    BY DEF BalancerInv, SettledDatagrams
  <2>2. Key(n, count) = Bucket(cpu[n].src)
    BY <2>1 DEF Key, Bucket
  <2>3. Key(n, count) \in 0..(size - 1) /\ Key(n, count) \in Buckets
    BY <2>1, <2>2, BucketInUse DEF BalancerInv
  <2> HIDE DEF Key
  <2> QED
    BY <2>3 DEF BalancerInv, TargetsOwned
<1> QED
  BY <1>1, BalancerInvHolds, PTL

(* No late CPU and no client that starts again changes the nonce or the     *)
(* size once they are settled.                                              *)
THEOREM AlwaysStaysSettled == Spec => StaysSettled
<1>1. BalancerInv /\ [Next]_vars
        => [Settled => Settled' /\ UNCHANGED <<nonce, size>>]_vars
  BY NextKeepsSettled DEF BalancerInv
<1> QED
  BY <1>1, BalancerInvHolds, PTL DEF Spec, StaysSettled
=============================================================================
