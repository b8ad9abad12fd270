SPECIFICATION Spec
CONSTANTS
  c0 = c0
  c1 = c1
  None = None
  Clients = {c0, c1}
  Index <- Indices
  BalancerMax <- Maxima
  Sources = {1, 2}
  Cpus = {p1, p2}
  Nonces = {0, 1, 2}
  jhash <- Hashes
  MAX_BALANCER_COUNT = 3
INVARIANTS OneBucketPerSource ReachesOpenSocket
PROPERTY StaysSettled
