------------------------ MODULE SegmentationBuffer ------------------------
(***************************************************************************)
(* The data of src/segmentation_buffer.c: a hash table of messages being   *)
(* reassembled, each a list of segments sorted by sequence number.  The    *)
(* table is a function from the stored (odid, mid) keys to their lists; a  *)
(* key's bucket matters only to the clean-up sweep.                        *)
(*                                                                         *)
(* Segment i of message k carries content <<k, i>>, written i in the list  *)
(* of k, and at most one custom option, also written i.                    *)
(***************************************************************************)
EXTENDS Integers, Sequences, FiniteSets

CONSTANTS Keys,          (* the (odid, mid) pairs of the messages received  *)
          NbSegments,    (* [Keys -> segments the sender cut it into]       *)
          ContentSize,   (* [Keys -> payload bytes of each of its segments] *)
          Tagged,        (* [Keys -> its segments that carry an option]     *)
          OptionBytes,   (* length of an option, type and length included   *)
          hashKey,       (* [Keys -> bucket], (odid ^ mid) % SIZE_BUF       *)
          SIZE_BUF, CLEAN_UP_PASS_SIZE, CLEAN_COUNT_MAX, EXPIRE_MSG,
          IndexModulus   (* 2^8: cleanup_start_index is a uint8_t           *)

ASSUME KeysAssumption ==
  /\ IsFiniteSet(Keys)
  /\ NbSegments \in [Keys -> Nat \ {0}]
  /\ ContentSize \in [Keys -> Nat]
  /\ Tagged \in [Keys -> SUBSET Nat]
  /\ \A k \in Keys : Tagged[k] \subseteq 0..NbSegments[k]-1
  /\ OptionBytes \in Nat
  /\ hashKey \in [Keys -> 0..SIZE_BUF-1]

ASSUME BufferAssumption ==
  /\ SIZE_BUF \in Nat \ {0}
  /\ CLEAN_UP_PASS_SIZE \in 1..SIZE_BUF
  /\ CLEAN_COUNT_MAX \in Nat
  /\ EXPIRE_MSG \in Nat
  /\ IndexModulus \in Nat \ {0}

HEADER_BYTES == 12

(* How many values a uint8_t and a uint16_t have.                           *)
UINT8_VALUES == 256
UINT16_VALUES == 65536

-----------------------------------------------------------------------------
(***************************************************************************)
(* Plausible slips, each a mutated form of a definition below; the         *)
(* specification uses none of them.                                        *)
(***************************************************************************)
IsComplete_past_total(m) == m.total_size > 0 /\ m.current_size > m.total_size

IsDuplicate_of_first(m, i) == m.segs # <<>> /\ m.segs[1] = i

StopsAt_past_first(s, i, p) ==
  (\A j \in 2..p : s[j] < i) /\ (p < Len(s) => p > 0 /\ s[p + 1] >= i)

LearnTotal_off_by_one(m, k, i) ==
  IF i = NbSegments[k] - 1 THEN [m EXCEPT !.total_size = i] ELSE m

IsExpired_unstamped(m) == m.to_clean_up = 1

Visit_never_stamps(m) == IF m.to_clean_up = 0 THEN [m EXCEPT !.to_clean_up = 1] ELSE m

-----------------------------------------------------------------------------
IsLast(k, i) == i = NbSegments[k] - 1

(* The value of timestamp before the second clean-up pass stamps it.        *)
Unset == -1

(* Seconds are counted up to the first value the code tells apart.          *)
Elapse(s) == IF s > EXPIRE_MSG THEN s ELSE s + 1

(* timestamp is kept as the seconds since it was set.  since is history:    *)
(* the seconds since the list was created.                                  *)
create_message_segment_list ==
  [segs |-> <<>>, total_size |-> 0, current_size |-> 0, total_payload_byte_size |-> 0,
   options_head |-> FALSE, options |-> <<>>,
   to_clean_up |-> 0, timestamp |-> Unset, since |-> 0]

IsComplete(m) == m.total_size > 0 /\ m.current_size = m.total_size

(* The search loop walks over p cells and stops, at the first one that is   *)
(* not below i or at the end of the list.                                   *)
StopsAt(s, i, p) == (\A j \in 1..p : s[j] < i) /\ (p < Len(s) => s[p + 1] >= i)

Place(s, i) == CHOOSE p \in 0..Len(s) : StopsAt(s, i, p)

Before(s, i) == SubSeq(s, 1, Place(s, i))
From(s, i) == SubSeq(s, Place(s, i) + 1, Len(s))

(* Only the cell the search stopped at is compared.                         *)
IsDuplicate(m, i) ==
  LET p == Place(m.segs, i) IN p < Len(m.segs) /\ m.segs[p + 1] = i

(* The options of the segment are spliced to the tail of the list's.        *)
append_options(m, k, i) ==
  [m EXCEPT !.options_head = TRUE,
            !.options = IF i \in Tagged[k] THEN Append(@, i) ELSE @]

(* insert_into_msl starts by learning the total from the last segment, even *)
(* when it turns out to be a duplicate.                                     *)
LearnTotal(m, k, i) == IF IsLast(k, i) THEN [m EXCEPT !.total_size = i + 1] ELSE m

(* insert_into_msl, the segment's cell linked in its place.                 *)
LinkSegment(m, k, i) ==
  [LearnTotal(m, k, i) EXCEPT
     !.segs = Before(@, i) \o <<i>> \o From(@, i),
     !.current_size = @ + 1,
     !.total_payload_byte_size = @ + ContentSize[k]]

(* insert_into_msl when malloc gives no cell: the link to the rest of the   *)
(* list is already overwritten.                                             *)
LoseRest(m, k, i) == [LearnTotal(m, k, i) EXCEPT !.segs = Before(@, i)]

insert_into_msl(m, k, i) == append_options(LinkSegment(m, k, i), k, i)

-----------------------------------------------------------------------------
(* create_assembled_msg: the payload is the contents in list order; the     *)
(* header has 8 bits for its own length and 16 for the message's.           *)
create_assembled_msg(m, k) ==
  LET options_length == OptionBytes * Len(m.options)
      header_length == (HEADER_BYTES + options_length) % UINT8_VALUES
      total_payload_byte_size == m.total_payload_byte_size % UINT16_VALUES
  IN [key |-> k, payload |-> m.segs, options |-> m.options,
      header_length |-> header_length,
      message_length |-> (HEADER_BYTES + options_length + total_payload_byte_size) % UINT16_VALUES]

(* What unyte_udp_get_payload_length returns.                               *)
payload_length(x) == (x.message_length - x.header_length) % UINT16_VALUES

-----------------------------------------------------------------------------
(* cleanup_seg_buff visits CLEAN_UP_PASS_SIZE buckets from start on,        *)
(* wrapping at SIZE_BUF.                                                    *)
InPass(b, start) == (b - start + SIZE_BUF) % SIZE_BUF < CLEAN_UP_PASS_SIZE

(* The first pass marks a message, the second stamps it, and a pass more    *)
(* than EXPIRE_MSG seconds later clears it.                                 *)
IsExpired(m) == m.to_clean_up = 1 /\ m.timestamp > EXPIRE_MSG

Visit(m) ==
  IF m.to_clean_up = 0 THEN [m EXCEPT !.to_clean_up = 1]
  ELSE [m EXCEPT !.timestamp = IF @ = Unset THEN 0 ELSE @]

Expired(b, start) == {k \in DOMAIN b : InPass(hashKey[k], start) /\ IsExpired(b[k])}

Swept(b, start) ==
  [k \in DOMAIN b \ Expired(b, start) |->
     IF InPass(hashKey[k], start) THEN Visit(b[k]) ELSE b[k]]

(* The assignment to the uint8_t cleanup_start_index.                       *)
NextStart(start) == ((start + CLEAN_UP_PASS_SIZE) % SIZE_BUF) % IndexModulus
=============================================================================
