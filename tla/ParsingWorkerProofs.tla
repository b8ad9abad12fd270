------------------------ MODULE ParsingWorkerProofs ------------------------
(***************************************************************************)
(* Proofs about ParsingWorker, for any messages, any hash, any sizes of    *)
(* the table and of the sweep and any number of failing mallocs.           *)
(***************************************************************************)
EXTENDS ParsingWorker, FiniteSetTheorems, TLAPS

(* The table of lists b is consistent with the counter n.                   *)
Counted(b, n) == DOMAIN b \subseteq Keys /\ n = Cardinality(DOMAIN b)

CountInv == Counted(buf, count)

(* A sweep lowers the count by as many lists as it clears                   *)
(* (segmentation_buffer.c:425-433).                                         *)
LEMMA ExpiredCounted ==
  ASSUME NEW b, NEW n, Counted(b, n), NEW s
  PROVE  Counted(Swept(b, s), n - Cardinality(Expired(b, s)))
<1>1. IsFiniteSet(DOMAIN b)
  BY KeysAssumption, FS_Subset DEF Counted
<1>2. Expired(b, s) \subseteq DOMAIN b
  BY DEF Expired
<1>3. DOMAIN Swept(b, s) = DOMAIN b \ Expired(b, s)
  BY DEF Swept
<1>4. Cardinality(DOMAIN b \ Expired(b, s))
        = Cardinality(DOMAIN b) - Cardinality(DOMAIN b \cap Expired(b, s))
  BY <1>1, FS_Difference
<1>5. DOMAIN b \cap Expired(b, s) = Expired(b, s)
  BY <1>2
<1> QED
  BY <1>2, <1>3, <1>4, <1>5 DEF Counted

(* The end of an iteration, with or without a sweep, keeps the count right. *)
LEMMA EndIterationCounted ==
  ASSUME NEW b, NEW n, Counted(b, n), EndIteration(b, n)
  PROVE  CountInv'
BY ExpiredCounted DEF EndIteration, cleanup_seg_buff, CountInv, Counted

(* Storing a segment counts its list when it is a new one.                  *)
LEMMA WithCounted ==
  ASSUME CountInv, NEW k \in Keys, NEW m
  PROVE  Counted(With(k, m), CountWith(k))
<1>1. IsFiniteSet(DOMAIN buf)
  BY KeysAssumption, FS_Subset DEF CountInv, Counted
<1>2. DOMAIN With(k, m) = DOMAIN buf \cup {k}
  BY DEF With
<1>3. CASE Stored(k)
  <2>1. DOMAIN buf \cup {k} = DOMAIN buf
    BY <1>3 DEF Stored
  <2> QED
    BY <1>2, <1>3, <2>1 DEF CountInv, Counted, CountWith
<1>4. CASE ~Stored(k)
  <2>1. Cardinality(DOMAIN buf \cup {k}) = Cardinality(DOMAIN buf) + 1
    BY <1>1, <1>4, FS_AddElement DEF Stored
  <2> QED
    BY <1>2, <1>4, <2>1 DEF CountInv, Counted, CountWith
<1> QED
  BY <1>3, <1>4

(* Clearing a list after its message was assembled uncounts it.             *)
LEMMA WithoutCounted ==
  ASSUME CountInv, NEW k \in Keys
  PROVE  Counted(Without(k), CountWith(k) - 1)
<1>1. IsFiniteSet(DOMAIN buf) /\ Cardinality(DOMAIN buf) \in Nat
  BY KeysAssumption, FS_Subset, FS_CardinalityType DEF CountInv, Counted
<1>2. DOMAIN Without(k) = DOMAIN buf \ {k}
  BY DEF Without
<1>3. CASE Stored(k)
  <2>1. Cardinality(DOMAIN buf \ {k}) = Cardinality(DOMAIN buf) - 1
    BY <1>1, <1>3, FS_RemoveElement DEF Stored
  <2> QED
    BY <1>2, <1>3, <2>1 DEF CountInv, Counted, CountWith
<1>4. CASE ~Stored(k)
  <2>1. DOMAIN buf \ {k} = DOMAIN buf
    BY <1>4 DEF Stored
  <2> QED
    BY <1>1, <1>2, <1>4, <2>1 DEF CountInv, Counted, CountWith
<1> QED
  BY <1>3, <1>4

(* So does an iteration that ends with a malloc error.                      *)
LEMMA MallocErrorCounted ==
  ASSUME NEW b, NEW n, Counted(b, n), MallocError(b, n)
  PROVE  CountInv'
BY EndIterationCounted DEF MallocError, CountInv, Counted

(* The buffer starts empty with a count of zero.                            *)
LEMMA InitCounted == Init => CountInv
<1> SUFFICES ASSUME Init PROVE CountInv
  OBVIOUS
<1>1. DOMAIN buf = {}
  BY DEF Init
<1> QED
  BY <1>1, FS_EmptySet DEF Init, CountInv, Counted

(* A list that holds nothing has no duplicate: the search stops at once     *)
(* (segmentation_buffer.c:138-142).                                         *)
LEMMA EmptyHasNoDuplicate ==
  ASSUME NEW i
  PROVE  ~IsDuplicate(create_message_segment_list, i)
<1>1. StopsAt(<<>>, i, 0)
  BY DEF StopsAt
<1>2. Place(<<>>, i) \in 0..0
  <2>1. \E p \in 0..Len(<<>>) : StopsAt(<<>>, i, p)
    BY <1>1
  <2> QED
    BY <2>1 DEF Place
<1> QED
  BY <1>2 DEF IsDuplicate, create_message_segment_list

(* The count is right after every step: one case per action of the worker.  *)
LEMMA NextCounted == CountInv /\ [Next]_vars => CountInv'
<1> SUFFICES ASSUME CountInv, [Next]_vars PROVE CountInv'
  OBVIOUS
<1>1. ASSUME NEW k \in Keys, NEW i, StoreSegment(k, i) PROVE CountInv'
  BY <1>1, WithCounted, EndIterationCounted DEF StoreSegment
<1>2. ASSUME NEW k \in Keys, NEW i, IgnoreDuplicate(k, i) PROVE CountInv'
  <2>1. Stored(k)
    BY <1>2, EmptyHasNoDuplicate DEF IgnoreDuplicate, List
  <2>2. Counted(With(k, LearnTotal(List(k), k, i)), count)
    BY <2>1, WithCounted DEF CountWith
  <2> QED
    BY <1>2, <2>2 DEF IgnoreDuplicate, CountInv, Counted
<1>3. ASSUME NEW k \in Keys, NEW i, CompleteMessage(k, i) PROVE CountInv'
  BY <1>3, WithoutCounted, EndIterationCounted DEF CompleteMessage
<1>4. ASSUME NEW k \in Keys, NEW i, NoCell(k, i) \/ NoList(k, i) PROVE CountInv'
  BY <1>4, MallocErrorCounted DEF NoCell, NoList, CountInv
<1>5. ASSUME NEW k \in Keys, NEW i, NoSegmentCell(k, i) PROVE CountInv'
  BY <1>5, WithCounted, MallocErrorCounted DEF NoSegmentCell
<1>6. ASSUME NEW k \in Keys, NEW i, NoOptions(k, i) PROVE CountInv'
  BY <1>6, WithCounted, EndIterationCounted DEF NoOptions
<1>7. ASSUME NEW k \in Keys, NEW i, NoAssembly(k, i) PROVE CountInv'
  BY <1>7, WithoutCounted, EndIterationCounted DEF NoAssembly
<1>8. ASSUME NEW k \in Keys, NEW i, CompleteAgain(k, i) \/ NoAssemblyAgain(k, i)
      PROVE  CountInv'
  <2>1. Stored(k)
    BY <1>8, EmptyHasNoDuplicate DEF CompleteAgain, NoAssemblyAgain, List
  <2>2. Counted(Without(k), count - 1)
    BY <2>1, WithoutCounted DEF CountWith
  <2> QED
    BY <1>8, <2>2, EndIterationCounted DEF CompleteAgain, NoAssemblyAgain, CountInv, Counted
<1>9. ASSUME NEW k \in Keys, parse_unsegmented(k) \/ WalkHeadless(k) PROVE CountInv'
  BY <1>9 DEF parse_unsegmented, WalkHeadless, buffer, CountInv, Counted
<1>10. CASE NoParse \/ t_clean_up \/ Consume \/ UNCHANGED vars
  BY <1>10 DEF NoParse, t_clean_up, Consume, buffer, vars, CountInv, Counted
<1>11. CASE Tick
  <2>1. DOMAIN buf' = DOMAIN buf /\ count' = count
    BY <1>11 DEF Tick
  <2> QED
    BY <2>1 DEF CountInv, Counted
<1> QED
  BY <1>1, <1>2, <1>3, <1>4, <1>5, <1>6, <1>7, <1>8, <1>9, <1>10, <1>11 DEF Next

(* The inductive form of CountIsStored: the stored keys are keys of the     *)
(* instance.                                                                *)
THEOREM CountInvHolds == Spec => []CountInv
BY InitCounted, NextCounted, PTL DEF Spec

(* segment_buff->count, which decides whether a sweep runs                  *)
(* (src/parsing_worker.c:184), is the number of stored lists, whatever      *)
(* arrives and whichever mallocs fail.                                      *)
THEOREM CountIsAlwaysStored == Spec => []CountIsStored
BY CountInvHolds, PTL DEF CountInv, Counted, CountIsStored

-----------------------------------------------------------------------------
(***************************************************************************)
(* The reach of the sweep.  cleanup_start_index is a uint8_t, so a pass    *)
(* starts below IndexModulus and ends below IndexModulus +                 *)
(* CLEAN_UP_PASS_SIZE - 1.                                                 *)
(***************************************************************************)
IsFar(k) == hashKey[k] >= IndexModulus + CLEAN_UP_PASS_SIZE - 1

HasFlag(m) == "to_clean_up" \in DOMAIN m

Unmarked(b) ==
  \A k \in DOMAIN b : k \in Keys /\ HasFlag(b[k]) /\ (IsFar(k) => b[k].to_clean_up = 0)

FarInv == cleanup_start_index \in 0..IndexModulus-1 /\ Unmarked(buf)

(* What the sweep never reaches: a list there is not even marked.           *)
FarBucketsUnswept == \A k \in DOMAIN buf : IsFar(k) => buf[k].to_clean_up = 0

(* A pass that starts below IndexModulus does not reach a far bucket.       *)
LEMMA FarNotInPass ==
  ASSUME NEW k \in Keys, IsFar(k), NEW s \in 0..IndexModulus-1
  PROVE  ~InPass(hashKey[k], s)
<1>1. hashKey[k] \in 0..SIZE_BUF-1
  BY KeysAssumption
<1>2. hashKey[k] - s \in CLEAN_UP_PASS_SIZE..SIZE_BUF-1
  BY <1>1, BufferAssumption DEF IsFar
<1>3. (hashKey[k] - s + SIZE_BUF) % SIZE_BUF = hashKey[k] - s
  BY <1>1, <1>2, BufferAssumption
<1> QED
  BY <1>1, <1>2, <1>3, BufferAssumption DEF InPass

(* The next start is cut to the width of the field                          *)
(* (segmentation_buffer.h:50).                                              *)
LEMMA NextStartIsByte ==
  ASSUME NEW s \in 0..IndexModulus-1
  PROVE  NextStart(s) \in 0..IndexModulus-1
BY BufferAssumption DEF NextStart

(* Inserting a segment leaves the clean-up mark of the list alone.          *)
LEMMA InsertKeepsMark ==
  ASSUME NEW m, HasFlag(m), NEW k, NEW i
  PROVE  /\ HasFlag(LearnTotal(m, k, i)) /\ LearnTotal(m, k, i).to_clean_up = m.to_clean_up
         /\ HasFlag(LoseRest(m, k, i)) /\ LoseRest(m, k, i).to_clean_up = m.to_clean_up
         /\ HasFlag(LinkSegment(m, k, i)) /\ LinkSegment(m, k, i).to_clean_up = m.to_clean_up
         /\ HasFlag(insert_into_msl(m, k, i)) /\ insert_into_msl(m, k, i).to_clean_up = m.to_clean_up
<1>1. HasFlag(LearnTotal(m, k, i)) /\ LearnTotal(m, k, i).to_clean_up = m.to_clean_up
  BY DEF LearnTotal, HasFlag
<1>2. HasFlag(LoseRest(m, k, i)) /\ LoseRest(m, k, i).to_clean_up = m.to_clean_up
  BY <1>1 DEF LoseRest, HasFlag
<1>3. HasFlag(LinkSegment(m, k, i)) /\ LinkSegment(m, k, i).to_clean_up = m.to_clean_up
  BY <1>1 DEF LinkSegment, HasFlag
<1>4. /\ HasFlag(insert_into_msl(m, k, i))
      /\ insert_into_msl(m, k, i).to_clean_up = m.to_clean_up
  BY <1>3 DEF insert_into_msl, append_options, HasFlag
<1> QED
  BY <1>1, <1>2, <1>3, <1>4

(* The list a segment goes to, found or new, is unmarked when its bucket is *)
(* far.                                                                     *)
LEMMA ListUnmarked ==
  ASSUME FarInv, NEW k \in Keys
  PROVE  HasFlag(List(k)) /\ (IsFar(k) => List(k).to_clean_up = 0)
BY DEF FarInv, Unmarked, List, Stored, HasFlag, create_message_segment_list

(* Storing a list that keeps its mark leaves far lists unmarked.            *)
LEMMA WithUnmarked ==
  ASSUME FarInv, NEW k \in Keys, NEW m, HasFlag(m), m.to_clean_up = List(k).to_clean_up
  PROVE  Unmarked(With(k, m))
BY ListUnmarked DEF FarInv, Unmarked, With

(* So does clearing a list.                                                 *)
LEMMA WithoutUnmarked ==
  ASSUME FarInv, NEW k
  PROVE  Unmarked(Without(k))
BY DEF FarInv, Unmarked, Without

(* So does a sweep: it visits no far bucket.                                *)
LEMMA SweptUnmarked ==
  ASSUME NEW b, Unmarked(b), NEW s \in 0..IndexModulus-1
  PROVE  Unmarked(Swept(b, s))
<1> SUFFICES ASSUME NEW k \in DOMAIN Swept(b, s)
             PROVE  /\ k \in Keys /\ HasFlag(Swept(b, s)[k])
                    /\ IsFar(k) => Swept(b, s)[k].to_clean_up = 0
  BY DEF Unmarked
<1>1. /\ k \in DOMAIN b
      /\ Swept(b, s)[k] = IF InPass(hashKey[k], s) THEN Visit(b[k]) ELSE b[k]
  BY DEF Swept
<1>2. k \in Keys /\ HasFlag(b[k]) /\ (IsFar(k) => b[k].to_clean_up = 0)
  BY <1>1 DEF Unmarked
<1>3. HasFlag(Visit(b[k]))
  BY <1>2 DEF Visit, HasFlag
<1> QED
  BY <1>1, <1>2, <1>3, FarNotInPass

(* The end of an iteration preserves FarInv.                                *)
LEMMA EndIterationFar ==
  ASSUME FarInv, NEW b, NEW n, Unmarked(b), EndIteration(b, n)
  PROVE  FarInv'
<1>1. CASE UNCHANGED cleanup_start_index /\ buf' = b
  BY <1>1 DEF FarInv, Unmarked
<1>2. CASE cleanup_seg_buff(b, n)
  BY <1>2, SweptUnmarked, NextStartIsByte DEF cleanup_seg_buff, FarInv, Unmarked
<1> QED
  BY <1>1, <1>2 DEF EndIteration, sweep

(* So does a malloc error.                                                  *)
LEMMA MallocErrorFar ==
  ASSUME FarInv, NEW b, NEW n, Unmarked(b), MallocError(b, n)
  PROVE  FarInv'
BY EndIterationFar DEF MallocError, FarInv, Unmarked, sweep

(* The first pass starts at bucket 0 of an empty buffer.                    *)
LEMMA InitFar == Init => FarInv
BY BufferAssumption DEF Init, FarInv, Unmarked

(* FarInv is inductive: one case per action of the worker.                  *)
LEMMA NextFar == FarInv /\ [Next]_vars => FarInv'
<1> SUFFICES ASSUME FarInv, [Next]_vars PROVE FarInv'
  OBVIOUS
<1>0. Unmarked(buf)
  BY DEF FarInv
<1>1. ASSUME NEW k \in Keys, NEW i, StoreSegment(k, i) PROVE FarInv'
  BY <1>1, ListUnmarked, InsertKeepsMark, WithUnmarked, EndIterationFar DEF StoreSegment
<1>2. ASSUME NEW k \in Keys, NEW i, IgnoreDuplicate(k, i) PROVE FarInv'
  <2>1. Unmarked(With(k, LearnTotal(List(k), k, i)))
    BY ListUnmarked, InsertKeepsMark, WithUnmarked
  <2> QED
    BY <1>2, <2>1 DEF IgnoreDuplicate, FarInv, Unmarked, sweep
<1>3. ASSUME NEW k \in Keys, NEW i,
             CompleteMessage(k, i) \/ NoAssembly(k, i) \/ NoAssemblyAgain(k, i)
      PROVE  FarInv'
  BY <1>3, WithoutUnmarked, EndIterationFar DEF CompleteMessage, NoAssembly, NoAssemblyAgain
<1>4. ASSUME NEW k \in Keys, NEW i, NoCell(k, i) \/ NoList(k, i) PROVE FarInv'
  BY <1>0, <1>4, MallocErrorFar DEF NoCell, NoList
<1>5. ASSUME NEW k \in Keys, NEW i, NoSegmentCell(k, i) PROVE FarInv'
  BY <1>5, ListUnmarked, InsertKeepsMark, WithUnmarked, MallocErrorFar DEF NoSegmentCell
<1>6. ASSUME NEW k \in Keys, NEW i, NoOptions(k, i) PROVE FarInv'
  BY <1>6, ListUnmarked, InsertKeepsMark, WithUnmarked, EndIterationFar DEF NoOptions
<1>7. ASSUME NEW k \in Keys, NEW i, CompleteAgain(k, i) PROVE FarInv'
  BY <1>7, WithoutUnmarked, EndIterationFar DEF CompleteAgain, FarInv, Unmarked, sweep
<1>8. ASSUME NEW k \in Keys, parse_unsegmented(k) \/ WalkHeadless(k) PROVE FarInv'
  BY <1>8 DEF parse_unsegmented, WalkHeadless, buffer, sweep, FarInv, Unmarked
<1>9. CASE NoParse \/ t_clean_up \/ Consume \/ UNCHANGED vars
  BY <1>9 DEF NoParse, t_clean_up, Consume, buffer, sweep, vars, FarInv, Unmarked
<1>10. CASE Tick
  <2>1. cleanup_start_index' = cleanup_start_index /\ DOMAIN buf' = DOMAIN buf
    BY <1>10 DEF Tick, sweep
  <2>2. \A k \in DOMAIN buf : HasFlag(buf'[k]) /\ buf'[k].to_clean_up = buf[k].to_clean_up
    BY <1>0, <1>10 DEF Tick, Unmarked, HasFlag
  <2> QED
    BY <2>1, <2>2 DEF FarInv, Unmarked
<1> QED
  BY <1>1, <1>2, <1>3, <1>4, <1>5, <1>6, <1>7, <1>8, <1>9, <1>10 DEF Next

(* The start of a pass fits in a byte, and no far list is ever marked.      *)
THEOREM FarInvHolds == Spec => []FarInv
BY InitFar, NextFar, PTL DEF Spec

(* A defect, for every size: the start index of the sweep has 8 bits        *)
(* (src/segmentation_buffer.h:50), so the whole table is not swept, as the  *)
(* modulo SIZE_BUF of .c:441 is meant to have it.  With the real constants  *)
(* no list in buckets 755 to 9999 is ever even marked.                      *)
THEOREM FarBucketsNeverSwept == Spec => []FarBucketsUnswept
<1>1. FarInv => FarBucketsUnswept
  BY DEF FarInv, Unmarked, FarBucketsUnswept
<1> QED
  BY <1>1, FarInvHolds, PTL
=============================================================================
