---------------------------- MODULE MCMonitoring ----------------------------
(* Instances of Monitoring for TLC: all odids share a bucket.               *)
EXTENDS Monitoring

CONSTANTS o1, o2, b0

Hashes == [o \in Odids |-> b0]

(* What follows a removal during an update is excused by every property of  *)
(* the run, and is not explored.                                            *)
NoRemovalRace == "removal" \notin races
=============================================================================
