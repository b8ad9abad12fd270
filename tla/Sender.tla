------------------------------- MODULE Sender -------------------------------
(***************************************************************************)
(* unyte_send (src/unyte_sender.c) sends one message, or an exporter of    *)
(* the older draft one datagram, and a collector started for that protocol *)
(* parses the datagrams as they come.  What the network does to datagrams  *)
(* is left to ParsingWorker; here each one arrives once and in order, so   *)
(* that what differs is what the two codecs disagree about.                *)
(***************************************************************************)
EXTENDS Codec

CONSTANTS Messages,       (* the messages the user may send                 *)
          DefaultMtus,    (* sender_sk->default_mtu, 0 when not set         *)
          LegacyMessages  (* what an exporter of the older draft may send   *)

DEFAULT_MTU == 1500

(* 32 bits, in integers that TLC can hold.                                  *)
IsUint32(x) == x \in Nat /\ x \div 2^16 < 2^16

(* The widths of the fields of unyte_message_t and unyte_send_option_t.     *)
(* build_message divides by mtu - 16 bytes: a smaller MTU has no room for   *)
(* a byte of the message.                                                   *)
ASSUME MessagesAssumption ==
  /\ \A m \in Messages :
       /\ m.used_mtu \in Nat /\ (m.used_mtu = 0 \/ m.used_mtu > 16)
       /\ m.buffer_len \in Nat
       /\ m.version \in 0..2^3-1 /\ m.space \in {0, 1} /\ m.media_type \in 0..2^4-1
       /\ IsUint32(m.observation_domain_id) /\ IsUint32(m.message_id)
       /\ m.options \in Seq([type : 0..2^8-1, data_length : 0..2^8-1])
  /\ DefaultMtus \subseteq Nat /\ \A default \in DefaultMtus : default = 0 \/ default > 16

(* The older draft has 4 bits for the version and for the encoding; a       *)
(* message is one datagram, whose length has 16 bits.                       *)
ASSUME LegacyAssumption ==
  \A m \in LegacyMessages :
    /\ m.version \in 0..2^4-1 /\ m.encoding \in 0..2^4-1
    /\ IsUint32(m.observation_domain_id) /\ IsUint32(m.message_id)
    /\ m.buffer_len \in 0..2^16-1-HEADER_BYTES

VARIABLES message, default_mtu,
          legacy,    (* options.legacy of the collector                     *)
          packets,   (* the segments build_message made                     *)
          it,        (* the segments sent so far                            *)
          wire,      (* the datagrams on their way                          *)
          parsed,    (* the segments the collector parsed                   *)
          sender     (* "idle", "sending", "done" or "crashed"              *)

vars == <<message, default_mtu, legacy, packets, it, wire, parsed, sender>>

Init ==
  /\ legacy \in BOOLEAN
  /\ message \in IF legacy THEN LegacyMessages ELSE Messages
  /\ default_mtu \in DefaultMtus
  /\ packets = <<>> /\ it = 0
  /\ wire = <<>> /\ parsed = <<>>
  /\ sender = "idle"

-----------------------------------------------------------------------------
mtu ==
  IF message.used_mtu > 0 THEN message.used_mtu
  ELSE IF default_mtu > 0 THEN default_mtu ELSE DEFAULT_MTU

(* A negative size is an underflow: malloc is asked for 4 GB, and the copy  *)
(* of as many bytes, or the use of the NULL packets, ends the process.      *)
Build ==
  /\ sender = "idle" /\ ~legacy
  /\ packets' = build_message(message, mtu)
  /\ sender' = IF \E j \in 1..Len(packets') : packets'[j].payload.len < 0
                 THEN "crashed" ELSE "sending"
  /\ UNCHANGED <<message, default_mtu, legacy, it, wire, parsed>>

(* The result of send is ignored.                                           *)
SendSegment ==
  /\ sender = "sending"
  /\ it < Len(packets)
  /\ it' = it + 1
  /\ wire' = Append(wire, serialize_message(packets[it + 1]))
  /\ UNCHANGED <<message, default_mtu, legacy, packets, parsed, sender>>

Finish ==
  /\ sender = "sending"
  /\ it = Len(packets)
  /\ sender' = "done"
  /\ UNCHANGED <<message, default_mtu, legacy, packets, it, wire, parsed>>

(* An exporter of the older draft, which is not part of this library: 4     *)
(* bits of version, the encoding in the low half of the second byte.        *)
SendLegacy ==
  /\ sender = "idle" /\ legacy
  /\ sender' = "done"
  /\ wire' = <<[first |-> message.version * 2^4, encoding |-> message.encoding,
               length |-> BigEndian2(HEADER_BYTES + message.buffer_len),
               observation_domain_id |-> BigEndian4(message.observation_domain_id),
               message_id |-> BigEndian4(message.message_id),
               payload_at |-> HEADER_BYTES,
               payload |-> [from |-> 0, len |-> message.buffer_len]]>>
  /\ UNCHANGED <<message, default_mtu, legacy, packets, it, parsed>>

(* parse_with_metadata_func is chosen once, by the option of the collector. *)
Receive ==
  /\ wire # <<>>
  /\ wire' = Tail(wire)
  /\ IF legacy
       THEN \E media_type \in get_encoding_IANA_ET_from_legacy(Head(wire).encoding) :
              parsed' = Append(parsed, parse_with_metadata_legacy(Head(wire), media_type))
       ELSE parsed' = Append(parsed, parse_with_metadata(Head(wire)))
  /\ UNCHANGED <<message, default_mtu, legacy, packets, it, sender>>

Next == Build \/ SendSegment \/ Finish \/ SendLegacy \/ Receive

Spec == Init /\ [][Next]_vars

-----------------------------------------------------------------------------
AllParsed == sender = "done" /\ wire = <<>>

(* header_length, an 8-bit field, counts the header of the first segment.   *)
HeaderFits ==
  HEADER_BYTES + options_total_bytes(packets[1].options)
  + (IF Len(packets) > 1 THEN UNYTE_SEGMENTATION_OPTION_LEN ELSE 0) < 2^8

(* What the user of the collector reads of every segment is what the user   *)
(* of the sender put in the message: version, media type and ids.           *)
HeadersSurvive ==
  ~legacy => \A j \in 1..Len(parsed) :
    /\ parsed[j].version = message.version
    /\ parsed[j].media_type = message.media_type
    /\ parsed[j].observation_domain_id = message.observation_domain_id
    /\ parsed[j].message_id = message.message_id

(* So is the "space of media type version", README.md:101, of the message's *)
(* "UDP-notif protocol space", README.md:172, which a media type of its own *)
(* sets to 1 (examples/sender_custom_encoding.c:66).                        *)
SpaceSurvives == ~legacy => \A j \in 1..Len(parsed) : parsed[j].space = message.space

(* The segments are numbered from 0 and only the last has the last flag:    *)
(* what ParsingWorker assumes of segment i of a message.                    *)
SegmentNumbersSurvive ==
  Len(packets) > 1 /\ HeaderFits =>
    \A j \in 1..Len(parsed) :
       /\ parsed[j].f_num = j - 1
       /\ parsed[j].f_last = IF j = Len(packets) THEN 1 ELSE 0

(* The parsed header tells a segmented message from one that is not, by     *)
(* length alone, and every custom option arrives once, up to the last byte  *)
(* of options that header_length can count.                                 *)
OptionsArrive ==
  packets # <<>> /\ HeaderFits =>
    /\ \A j \in 1..Len(parsed) : IsSegmented(parsed[j]) <=> Len(packets) > 1
    /\ AllParsed /\ parsed # <<>> =>
         /\ parsed[1].options = build_message_options(message)
         /\ \A j \in 2..Len(parsed) : parsed[j].options = <<>>

(* The payloads that arrive are consecutive pieces of the buffer and cover  *)
(* it: no byte is lost, repeated or taken from outside it.                  *)
PayloadCovered ==
  LET End(j) == parsed[j].payload.from + parsed[j].payload.len
  IN packets # <<>> /\ HeaderFits =>
     /\ \A j \in 1..Len(parsed) :
          /\ parsed[j].payload.len >= 0
          /\ parsed[j].payload.from = IF j = 1 THEN 0 ELSE End(j - 1)
     /\ AllParsed => Len(parsed) > 0 /\ End(Len(parsed)) = message.buffer_len

(* "It cuts the message into segments of the protocol if it is larger than  *)
(* the MTU", README.md:159: no datagram is larger than the MTU, and what is *)
(* sent is what the header says.                                            *)
FitsMtu ==
  packets # <<>> /\ HeaderFits =>
    \A j \in 1..Len(wire) :
       /\ wire[j].sent <= mtu
       /\ FromBigEndian2(wire[j].length) = wire[j].sent

(* The only message the sender cannot cut is one that must be cut and whose *)
(* options exceed a segment's room or the buffer.                           *)
CrashesOnlyOnLargeOptions ==
  sender = "crashed" =>
    LET options_bytes == options_total_bytes(build_message_options(message))
    IN /\ HEADER_BYTES + options_bytes + message.buffer_len > mtu
       /\ options_bytes > Smaller(message.buffer_len,
                                  mtu - HEADER_BYTES - UNYTE_SEGMENTATION_OPTION_LEN)

(* "For legacy UDP pub channel: Used encoding types identifiers are taken   *)
(* from IANA", README.md:47: a datagram of the older draft is never taken   *)
(* for a segment, its ids and its whole payload are read, and its encoding  *)
(* is translated, or read as reserved if the table does not have it.  The   *)
(* encoding just past the table may be read as anything, and the versions   *)
(* that need a fourth bit lose it.                                          *)
LegacyRead ==
  legacy => \A j \in 1..Len(parsed) : LET x == parsed[j] IN
    /\ ~IsSegmented(x)
    /\ x.observation_domain_id = message.observation_domain_id
    /\ x.message_id = message.message_id
    /\ x.payload = [from |-> 0, len |-> message.buffer_len]
    /\ message.version < 2^3 => x.version = message.version
    /\ message.encoding # SUPPORTED_ET_LEN =>
         x.media_type = CASE message.encoding = 1 -> UNYTE_MEDIATYPE_YANG_CBOR
                          [] message.encoding = 2 -> UNYTE_MEDIATYPE_YANG_JSON
                          [] message.encoding = 3 -> UNYTE_MEDIATYPE_YANG_XML
                          [] OTHER -> UNYTE_MEDIATYPE_RESERVED
=============================================================================
