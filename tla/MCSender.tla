------------------------------ MODULE MCSender ------------------------------
(* Instances of Sender for TLC.                                             *)
EXTENDS Sender

Message(used_mtu, len, space, options) ==
  [used_mtu |-> used_mtu, buffer_len |-> len, version |-> 5, space |-> space,
   media_type |-> 11, observation_domain_id |-> 70000, message_id |-> 2^24 + 2^9 + 3,
   options |-> options]

(* Headers with each field at its limits; the 32-bit ids stop at 2^31 - 1,  *)
(* the largest integer of TLC.                                              *)
Headers ==
  {[used_mtu |-> 0, buffer_len |-> 8, version |-> v, space |-> space, media_type |-> media,
    observation_domain_id |-> odid, message_id |-> mid, options |-> <<>>] :
     v \in {0, 1, 4, 7}, space \in {0, 1}, media \in {0, 1, 8, 15},
     odid \in {0, 255, 256, 65535, 2147483647}, mid \in {0, 2^16, 2147483647}}

Option(n) == [type |-> 2, data_length |-> n]

(* Every length around the edges of one, two and three segments of 6, 10 or *)
(* 11 bytes, with options that fit in a segment and options that do not.    *)
SmallMessages ==
  Headers \cup {Message(used, len, 0, options) :
     used \in {0, 26}, len \in 0..34,
     options \in {<<>>, <<Option(0)>>, <<Option(4)>>, <<Option(1), Option(3)>>,
                  <<Option(8)>>}}

(* Options whose header is at, and past, the 255 bytes header_length holds, *)
(* in one datagram and in several.                                          *)
LargeOptions ==
  {Message(used, len, 0, <<Option(100), Option(n)>>) :
     used \in {0, 300}, len \in {0, 290, 600}, n \in 133..142}

ShortAndLargeOptions == SmallMessages \cup LargeOptions

(* Every encoding the 4 bits hold, with versions of 3 and of 4 bits.        *)
AllEncodings ==
  {[version |-> v, encoding |-> e, observation_domain_id |-> 70000,
    message_id |-> 2^24 + 2^9 + 3, buffer_len |-> len] :
     v \in {0, 1, 7, 9}, e \in 0..15, len \in {0, 1, 300}}

NoMessages == {}

LongMessage == {Message(17, 130, 0, <<>>)}

(* As examples/sender_custom_encoding.c sends it.                           *)
CustomSpace == {Message(0, 20, 1, <<Option(3)>>)}
=============================================================================
