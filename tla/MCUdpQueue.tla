----------------------------- MODULE MCUdpQueue -----------------------------
(* Model values and symmetry for the runs of UdpQueue.                      *)
EXTENDS UdpQueue, TLC

CONSTANTS w1, w2, m1, r1, r2, h1, h2, h3, h4

OneWriter == {w1}
TwoWriters == {w1, w2}
OneDestructive == {m1}
OneReader == {r1}
TwoReaders == {r1, r2}
NoThreads == {}
ThreeHandles == {h1, h2, h3}
FourHandles == {h1, h2, h3, h4}
FiveHandles == {h1, h2, h3, h4}

(* Handles are interchangeable, and so are the threads of one kind; used    *)
(* only by the runs that check no liveness.                                 *)
QueueSymmetry == Permutations(Handles) \cup Permutations(Writers) \cup Permutations(Readers)
=============================================================================
