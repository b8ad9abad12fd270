------------------------------- MODULE Codec -------------------------------
(***************************************************************************)
(* How the sender cuts a message into segments (build_message), how a      *)
(* segment is laid out in a datagram (serialize_message) and how the       *)
(* collector reads it back (parse_with_metadata): src/unyte_udp_utils.c.   *)
(* parse_with_metadata_legacy reads the header of the older draft.         *)
(*                                                                         *)
(* The header and the options are kept to the byte and to the width of     *)
(* their fields.  A payload is the interval of the sender's buffer that it *)
(* was copied from: [from, len].                                           *)
(***************************************************************************)
EXTENDS Integers, Sequences

HEADER_BYTES == 12
UNYTE_SEGMENTATION_OPTION_LEN == 4
UNYTE_TYPE_SEGMENTATION == 1

Smaller(a, b) == IF a < b THEN a ELSE b

(* f_num and f_last of a header that has no segmentation option.            *)
NotSegmented == -1

-----------------------------------------------------------------------------
(* Mutated forms of definitions below, used by none of them.                *)
packets_to_send_rounded_down(len, mtu) ==
  IF len + HEADER_BYTES > mtu
    THEN len \div (mtu - HEADER_BYTES - UNYTE_SEGMENTATION_OPTION_LEN) ELSE 1

bytes_to_send_ignores_options(message, options_bytes, usable, i, copy_it) ==
  Smaller(message.buffer_len - copy_it, usable)

packets_to_send_always_cut(len, mtu) ==
  len \div (mtu - HEADER_BYTES - UNYTE_SEGMENTATION_OPTION_LEN)
  + (IF len % (mtu - HEADER_BYTES - UNYTE_SEGMENTATION_OPTION_LEN) # 0 THEN 1 ELSE 0)

SegmentationOption_unshifted(h) ==
  [type |-> h.f_type, length |-> UNYTE_SEGMENTATION_OPTION_LEN,
   bytes |-> <<(h.f_num \div 2^8) % 2^8, (h.f_num + h.f_last) % 2^8>>]

CustomOption_data_length(option) ==
  [type |-> option.type, length |-> option.length - 2, bytes |-> <<>>]

get_encoding_IANA_ET_from_legacy_untranslated(legacy_ET) ==
  IF legacy_ET > 4 THEN {0} ELSE {legacy_ET}

FirstByte_overlapping(h) == (h.version * 2^5 + h.space * 2^4 + h.media_type * 2) % 2^8

-----------------------------------------------------------------------------
(* The bytes of the first n options.                                        *)
BytesBefore(options) ==
  LET bytes[n \in 0..Len(options)] ==
        IF n = 0 THEN 0 ELSE bytes[n-1] + options[n].length
  IN bytes

options_total_bytes(options) == BytesBefore(options)[Len(options)]

(* The length of an option counts its type and length bytes, in a uint8_t.  *)
build_message_options(message) ==
  [j \in 1..Len(message.options) |->
     [type |-> message.options[j].type,
      length |-> (message.options[j].data_length + 2) % 2^8]]

(* len is the number of option and buffer bytes to carry.                   *)
packets_to_send(len, mtu) ==
  LET actual_usable_bytes == mtu - HEADER_BYTES - UNYTE_SEGMENTATION_OPTION_LEN
  IN IF len + HEADER_BYTES > mtu
       THEN len \div actual_usable_bytes
            + (IF len % actual_usable_bytes # 0 THEN 1 ELSE 0)
       ELSE 1

(* The first segment gives up some of its room to the custom options; less  *)
(* than nothing is an unsigned underflow in the code.                       *)
bytes_to_send(message, options_bytes, usable, i, copy_it) ==
  Smaller(message.buffer_len - copy_it, usable) - (IF i = 0 THEN options_bytes ELSE 0)

(* copy_it before segment i of n.                                           *)
CopyIt(message, options_bytes, usable, n) ==
  LET copy_it[i \in 0..n] ==
        IF i = 0 THEN 0
        ELSE LET before == copy_it[i-1]
             IN before + bytes_to_send(message, options_bytes, usable, i-1, before)
  IN copy_it

(* A segment of the message, with the bytes [from, len] of its buffer.      *)
Segment(message, segmentation, options, segmentation_bytes, from, len) ==
  [version |-> message.version, space |-> message.space,
   media_type |-> message.media_type,
   observation_domain_id |-> message.observation_domain_id,
   message_id |-> message.message_id,
   header_length |-> (HEADER_BYTES + segmentation_bytes + options_total_bytes(options)) % 2^8,
   message_length |-> len % 2^16,
   f_type |-> segmentation.type, f_num |-> segmentation.num, f_last |-> segmentation.last,
   options |-> options, payload |-> [from |-> from, len |-> len]]

(* The message that fits in one datagram.                                   *)
UnsegmentedMessage(message, options) ==
  <<Segment(message, [type |-> NotSegmented, num |-> NotSegmented, last |-> NotSegmented],
            options, 0, 0, message.buffer_len)>>

SegmentedMessage(message, options, mtu, n) ==
  LET options_bytes == options_total_bytes(options)
      usable == mtu - HEADER_BYTES - UNYTE_SEGMENTATION_OPTION_LEN
      copy_it == CopyIt(message, options_bytes, usable, n)
  IN [j \in 1..n |->
        Segment(message,
                [type |-> UNYTE_TYPE_SEGMENTATION, num |-> j - 1,
                 last |-> IF j = n THEN 1 ELSE 0],
                IF j = 1 THEN options ELSE <<>>, UNYTE_SEGMENTATION_OPTION_LEN,
                copy_it[j-1],
                bytes_to_send(message, options_bytes, usable, j - 1, copy_it[j-1]))]

build_message(message, mtu) ==
  LET options == build_message_options(message)
      n == packets_to_send(options_total_bytes(options) + message.buffer_len, mtu)
  IN IF n = 1 THEN UnsegmentedMessage(message, options)
     ELSE SegmentedMessage(message, options, mtu, n)

-----------------------------------------------------------------------------
BigEndian2(x) == <<(x \div 2^8) % 2^8, x % 2^8>>

BigEndian4(x) ==
  <<(x \div 2^24) % 2^8, (x \div 2^16) % 2^8, (x \div 2^8) % 2^8, x % 2^8>>

(* ntohs(deserialize_uint16(...)) and ntohl(deserialize_uint32(...)).       *)
FromBigEndian2(b) == b[1] * 2^8 + b[2]

FromBigEndian4(b) == b[1] * 2^24 + b[2] * 2^16 + b[3] * 2^8 + b[4]

IsSegmented(h) == h.header_length > HEADER_BYTES + options_total_bytes(h.options)

FirstByte(h) == (h.version * 2^5 + h.space * 2^4 + h.media_type) % 2^8

(* The number is shifted left by one, to make room for the last flag, in    *)
(* the low byte only.                                                       *)
SegmentationOption(h) ==
  [type |-> h.f_type, length |-> UNYTE_SEGMENTATION_OPTION_LEN,
   bytes |-> <<(h.f_num \div 2^8) % 2^8, (h.f_num * 2 + h.f_last) % 2^8>>]

CustomOption(option) == [type |-> option.type, length |-> option.length, bytes |-> <<>>]

(* The datagram: the bytes of the header, the options in their order, and   *)
(* the payload with its place in the datagram.                              *)
serialize_message(h) ==
  LET custom == [j \in 1..Len(h.options) |-> CustomOption(h.options[j])]
      options == IF IsSegmented(h) THEN <<SegmentationOption(h)>> \o custom ELSE custom
      payload_at == HEADER_BYTES + options_total_bytes(options)
      packet_size == payload_at + h.message_length
  IN [first |-> FirstByte(h), header_length |-> h.header_length,
      length |-> BigEndian2(packet_size),
      observation_domain_id |-> BigEndian4(h.observation_domain_id),
      message_id |-> BigEndian4(h.message_id),
      options |-> options, payload_at |-> payload_at, payload |-> h.payload,
      sent |-> h.header_length + h.message_length]

-----------------------------------------------------------------------------
NumberOf(option) == FromBigEndian2(option.bytes) \div 2

LastOf(option) == option.bytes[2] % 2

(* The parsing loop visits n options and stops, at the first one that does  *)
(* not start before the end of the header or after the last.                *)
StopsAfter(p, n) ==
  LET start == BytesBefore(p.options)
  IN /\ \A j \in 0..n-1 : HEADER_BYTES + start[j] < p.header_length
     /\ n < Len(p.options) => HEADER_BYTES + start[n] >= p.header_length

OptionsVisited(p) == CHOOSE n \in 0..Len(p.options) : StopsAfter(p, n)

NoOptions ==
  [f_type |-> NotSegmented, f_num |-> NotSegmented, f_last |-> NotSegmented,
   custom |-> <<>>]

(* A segmentation option replaces the one before it; the others are kept in *)
(* their order.                                                             *)
KeepOption(parsed, option) ==
  IF option.type = UNYTE_TYPE_SEGMENTATION
    THEN [parsed EXCEPT !.f_type = option.type, !.f_num = NumberOf(option),
                        !.f_last = LastOf(option)]
    ELSE [parsed EXCEPT !.custom = Append(@, [type |-> option.type,
                                              length |-> option.length])]

(* What is kept of the first n options.                                     *)
ParsedOptions(options) ==
  LET parsed[n \in 0..Len(options)] ==
        IF n = 0 THEN NoOptions ELSE KeepOption(parsed[n-1], options[n])
  IN parsed

(* The one-bit field keeps the lowest bit of segment[0] & 0b00010000.       *)
SpaceOf(first) == (((first \div 2^4) % 2) * 2^4) % 2

(* The payload is copied from header_length on, wherever the payload is.    *)
parse_with_metadata(p) ==
  LET parsed == ParsedOptions(p.options)[OptionsVisited(p)]
      message_length == FromBigEndian2(p.length)
  IN [version |-> p.first \div 2^5, space |-> SpaceOf(p.first),
      media_type |-> p.first % 2^4,
      header_length |-> p.header_length, message_length |-> message_length,
      observation_domain_id |-> FromBigEndian4(p.observation_domain_id),
      message_id |-> FromBigEndian4(p.message_id),
      f_type |-> parsed.f_type, f_num |-> parsed.f_num, f_last |-> parsed.f_last,
      options |-> parsed.custom,
      payload |-> [from |-> p.payload.from + (p.header_length - p.payload_at),
                   len |-> message_length - p.header_length]]

-----------------------------------------------------------------------------
UNYTE_MEDIATYPE_RESERVED == 0
UNYTE_MEDIATYPE_YANG_JSON == 1
UNYTE_MEDIATYPE_YANG_XML == 2
UNYTE_MEDIATYPE_YANG_CBOR == 3

LEGACY_ET_TO_IANA ==
  <<UNYTE_MEDIATYPE_RESERVED, UNYTE_MEDIATYPE_YANG_CBOR, UNYTE_MEDIATYPE_YANG_JSON,
    UNYTE_MEDIATYPE_YANG_XML>>

SUPPORTED_ET_LEN == Len(LEGACY_ET_TO_IANA)

(* The media types it may answer, in 4 bits.  The index SUPPORTED_ET_LEN is *)
(* let through and reads the integer that follows the table, whatever it is.*)
get_encoding_IANA_ET_from_legacy(legacy_ET) ==
  IF legacy_ET > SUPPORTED_ET_LEN THEN {UNYTE_MEDIATYPE_RESERVED}
  ELSE IF legacy_ET = SUPPORTED_ET_LEN THEN 0..2^4-1
  ELSE {LEGACY_ET_TO_IANA[legacy_ET + 1]}

(* A datagram of draft-ietf-netconf-udp-pub-channel-05 read as media_type,  *)
(* one of those above.  The header is HEADER_BYTES long and has no options. *)
(* The version has 4 bits in the datagram and 3 in the header.              *)
parse_with_metadata_legacy(p, media_type) ==
  LET message_length == FromBigEndian2(p.length)
  IN [version |-> (p.first \div 2^4) % 2^3, space |-> 0, media_type |-> media_type,
      header_length |-> HEADER_BYTES, message_length |-> message_length,
      observation_domain_id |-> FromBigEndian4(p.observation_domain_id),
      message_id |-> FromBigEndian4(p.message_id),
      options |-> <<>>,
      payload |-> [from |-> p.payload.from + (HEADER_BYTES - p.payload_at),
                   len |-> message_length - HEADER_BYTES]]
=============================================================================
