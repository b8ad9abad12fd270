-------------------------- MODULE MCParsingWorker --------------------------
(* Messages for the runs of ParsingWorker: keys are (odid, mid) pairs and   *)
(* hash as in hashKey.                                                      *)
EXTENDS ParsingWorker, Bitwise

Key(odid, mid) == [odid |-> odid, mid |-> mid]

HashKey == [k \in Keys |-> (k.odid ^^ k.mid) % SIZE_BUF]

(* a and b share a bucket of the table of 4 buckets.  In the table of 10    *)
(* with passes of 5 and a start index modulo 4, which is to the real one of *)
(* 10000, 500 and 256 what a small instance can be, near is in bucket 1,    *)
(* visited by two passes in four, and far in bucket 9, past the last pass.  *)
a == Key(1, 300)
b == Key(301, 0)
near == Key(1, 0)
far == Key(1, 8)
single == Key(1, 2)

ThreeMessages == {a, b, single}
NearAndFar == {near, far}

ThreeSegments == [k \in Keys |-> IF k = single THEN 1 ELSE IF k = a THEN 3 ELSE 2]

SmallSegments == [k \in Keys |-> 100]

TagsFirstLast == [k \in Keys |-> {0, NbSegments[k] - 1}]
NoTags == [k \in Keys |-> {}]
=============================================================================
