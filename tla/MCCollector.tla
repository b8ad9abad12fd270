---------------------------- MODULE MCCollector ----------------------------
(* Options of Collector for TLC: 0 takes the default.                       *)
EXTENDS Collector

SmallOptions ==
  [recvmmsg_vlen |-> 2, output_queue_size |-> 0, nb_parsers |-> 0,
   parsers_queue_size |-> 2, monitoring_queue_size |-> 2]

FewDatagrams == [c \in Clients |-> IF c = "sample" THEN 2 ELSE 1]
=============================================================================
