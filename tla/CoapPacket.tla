------------------------------ MODULE CoapPacket ------------------------------
(***************************************************************************)
(* The wire format (coap_packet.py) and what depends on it: a message of a *)
(* transfer is encoded, cut to the receive buffer, decoded, answered by    *)
(* the filter with an ACK that takes the same way back, and the ACK must   *)
(* lead the sender to the key of its transaction.  Numbers have the width  *)
(* the format gives them; a file name or a text is a sequence of equal     *)
(* bytes, of which only the length matters.  The loops over the options    *)
(* are one action per turn.                                                *)
(***************************************************************************)
EXTENDS Integers, Sequences, FiniteSetsExt

CONSTANTS
    NameLengths,    \* lengths of file names and paths, in bytes
    Totals,         \* numbers of messages of a transfer
    Positions       \* positions of messages to consider

MaxTotal == 1048576     \* bound: transfers of 1 GiB, numbers of at most three bytes
ASSUME PacketAssumption == /\ NameLengths \subseteq Nat \ {0}
                           /\ Totals \subseteq 1 .. MaxTotal
                           /\ Positions \subseteq Nat \ {0}

(* CoapType, CoapCodeFormat, CoapOptionDelta and CoapContentFormat *)
CON == 0
ACK == 2

EMPTY == 0
GET == 1
POST == 2
PUT == 3
DELETE == 4
FETCH == 5
CONTENT == 69
CONTINUE == 95
IsMethod(code) == code \in {GET, PUT, POST, DELETE, FETCH}

LocationPath == 8
UriPath == 11
ContentFormat == 12
Block2 == 23
Block1 == 27
Size2 == 28
Size1 == 60

Octets == 42
Json == 50

ReceiveBuffer == 1152
Szx == 6
BlockSize == 1024                           \* 2 ^ (Szx + 4)

Text(n) == [i \in 1 .. n |-> 97]

-----------------------------------------------------------------------------
(* Messages *)

(* The block option: NUM, M and SZX in one number *)
EncodeBlock(num, m) == 16 * num + 8 * m + Szx
BlockNum(option) == option \div 16

(* get_option_code and get_block_id.  The option is never 0, since SZX is  *)
(* not, so that it always decodes.                                         *)
NoBlock == -1
OptionCode(p) == IF Block1 \in DOMAIN p.options THEN Block1
                 ELSE IF Block2 \in DOMAIN p.options THEN Block2 ELSE NoBlock
BlockId(p) == IF OptionCode(p) = NoBlock THEN NoBlock
              ELSE BlockNum(p.options[OptionCode(p)])

(* work_id, among the messages exchanged with one peer *)
WorkId_NoBlock(p) == <<p.token, p.mid>>
WorkId(p) == <<p.token, p.mid, BlockId(p)>>

(* value_with: the message id has 16 bits. *)
MessageId_Unbounded(n) == n
MidLimit == 65536
MessageId(n) == n % MidLimit

Token == <<0>>
Packet(type, code, mid, options, payload) ==
    [version |-> 1, type |-> type, token |-> Token, code |-> code, mid |-> mid,
     options |-> options, payload |-> payload]

NoOption == [d \in {} |-> 0]

(* The five requests of the client; all have the message id 0. *)
OptionsOf(code) ==
    {UriPath} \cup (IF code # FETCH THEN {LocationPath} ELSE {})
              \cup (IF code \in {PUT, POST} THEN {ContentFormat} ELSE {})
              \cup (IF code \in {GET, FETCH} THEN {Block2} ELSE {})
              \cup (IF code = PUT THEN {Block1} ELSE {})
RequestOf(code, length) ==
    Packet(CON, code, 0,
        [d \in OptionsOf(code) |-> IF d = LocationPath THEN Text(length)
                                   ELSE IF d = UriPath THEN Text(11)
                                   ELSE IF d = ContentFormat THEN Json ELSE Szx],
        IF code \in {PUT, POST} THEN Text(20) ELSE <<>>)

More(i, total) == IF i # total THEN 1 ELSE 0

(* split_on_bytes_and_send answers a download (Block2) or feeds an upload  *)
(* (Block1); the first message also carries the total.                     *)
BlockMessage(code, length, total, i) ==
    LET option == IF code = PUT THEN Block1 ELSE Block2
        size == IF code = PUT THEN Size1 ELSE Size2
    IN Packet(CON, CONTENT, MessageId(0 + i),
          [d \in {LocationPath, ContentFormat, option} \cup (IF i = 1 THEN {size} ELSE {}) |->
              IF d = LocationPath THEN Text(length)
              ELSE IF d = ContentFormat THEN Octets
              ELSE IF d = option THEN EncodeBlock(i - 1, More(i, total)) ELSE total],
          Text(IF i = total THEN 1 ELSE BlockSize))

(* split_on_paths_and_send: the payload is the JSON text of one path. *)
PathMessage(length, total, i) ==
    Packet(CON, CONTENT, MessageId(i),
        [d \in {ContentFormat, Block2} |->
            IF d = ContentFormat THEN Json ELSE EncodeBlock(i - 1, More(i, total))],
        Text(length))

(* The message at a position of the transfer a request starts; position 0  *)
(* is the request.                                                         *)
MessageAt(code, length, total, i) ==
    IF i = 0 THEN RequestOf(code, length)
    ELSE IF code = FETCH THEN PathMessage(length, total, i)
    ELSE BlockMessage(code, length, total, i)

(* The answer of the filter to a confirmable message *)
Repeated(p) == IF OptionCode(p) # NoBlock /\ (IsMethod(p.code) \/ p.code = CONTENT)
                 THEN {OptionCode(p)} ELSE {}
AckOf(p) ==
    [Packet(ACK, IF p.code = CONTENT THEN CONTINUE ELSE EMPTY, MessageId(p.mid),
            [d \in Repeated(p) |-> p.options[d]], <<>>) EXCEPT !.token = p.token]

-----------------------------------------------------------------------------
(* Options as bytes *)

Bytes == 0 .. 255
PayloadMarker == 255

TwoBytes(n) == <<n \div 256, n % 256>>

(* int.to_bytes with as many bytes as needed, none for 0, and              *)
(* int.from_bytes.  No number of these messages needs more than three      *)
(* bytes (Totals is at most 2 ^ 20).                                       *)
IntBytes(v) ==
    IF v = 0 THEN <<>>
    ELSE IF v < 256 THEN <<v>>
    ELSE IF v < 65536 THEN TwoBytes(v)
    ELSE <<(v \div 65536) % 256>> \o TwoBytes(v % 65536)
BytesInt(s) ==
    IF Len(s) = 0 THEN 0
    ELSE IF Len(s) = 1 THEN s[1]
    ELSE IF Len(s) = 2 THEN 256 * s[1] + s[2]
    ELSE 65536 * s[1] + 256 * s[2] + s[3]

(* The options the decoder takes for text; it takes all others for numbers.*)
IsText(d) == d \in {3, LocationPath, UriPath, 15, 35, 39}
ValueBytes(d, v) == IF IsText(d) THEN v ELSE IntBytes(v)
ValueOf(d, s) == IF IsText(d) THEN s ELSE BytesInt(s)

(* _encode_option.  No option number exceeds 60, which leaves out the      *)
(* branches for deltas from 269.  With a delta from 13 and a value of 269  *)
(* bytes or more no branch holds and the header is lost.                   *)
OptionHeader_DeltaLess14(delta, length) ==
    IF delta < 13 /\ length < 13 THEN <<16 * delta + length>>
    ELSE IF delta < 13 /\ length < 269 THEN <<16 * delta + 13, length - 13>>
    ELSE IF delta < 13 THEN <<16 * delta + 14>> \o TwoBytes(length - 269)
    ELSE <<16 * 13 + length, delta - 14>>
OptionHeader(delta, length) ==
    IF delta < 13
      THEN IF length < 13 THEN <<16 * delta + length>>
           ELSE IF length < 269 THEN <<16 * delta + 13, length - 13>>
           ELSE IF length <= 65804 THEN <<16 * delta + 14>> \o TwoBytes(length - 269)
           ELSE <<>>
      ELSE IF length < 13 THEN <<16 * 13 + length, delta - 13>>
           ELSE IF length < 269 THEN <<16 * 13 + 13, delta - 13, length - 13>>
           ELSE <<>>

-----------------------------------------------------------------------------
VARIABLES
    transfer,   \* <<code of the request, length, total>>
    index,      \* position of the message in it
    packet,     \* what is encoded: the message, then its ACK
    phase,      \* "new", "options", "wire", "header", "decode", "decoded"
    todo,       \* options not encoded yet
    previous,   \* prev_option_delta
    wire,       \* the bytes of the datagram
    at,         \* options_start
    got         \* what is decoded

vars == <<transfer, index, packet, phase, todo, previous, wire, at, got>>

Nothing == Packet(CON, EMPTY, 0, NoOption, <<>>)

Init ==
    /\ transfer \in {GET, PUT, POST, DELETE, FETCH} \X NameLengths \X Totals
    /\ index \in IF transfer[1] \in {GET, PUT, FETCH}
                   THEN {0} \cup {i \in Positions : i <= transfer[3]} ELSE {0}
    /\ packet = MessageAt(transfer[1], transfer[2], transfer[3], index)
    /\ phase = "new" /\ todo = {} /\ previous = 0
    /\ wire = <<>> /\ at = 0 /\ got = Nothing

(* ---- encode ---- *)

EncodeHeader ==
    /\ phase = "new"
    /\ wire' = <<64 * packet.version + 16 * packet.type + Len(packet.token),
                 packet.code, (packet.mid \div 256) % 256, packet.mid % 256>>
               \o packet.token
    /\ todo' = DOMAIN packet.options
    /\ previous' = 0
    /\ phase' = "options"
    /\ UNCHANGED <<transfer, index, packet, at, got>>

EncodeNext ==
    /\ phase = "options"
    /\ todo # {}
    /\ LET d == Min(todo)
           value == ValueBytes(d, packet.options[d])
       IN /\ wire' = wire \o OptionHeader(d - previous, Len(value)) \o value
          /\ todo' = todo \ {d}
          /\ previous' = d
    /\ UNCHANGED <<transfer, index, packet, phase, at, got>>

(* The payload marker is written even if the payload is empty. *)
EncodePayload ==
    /\ phase = "options"
    /\ todo = {}
    /\ wire' = wire \o <<PayloadMarker>> \o packet.payload
    /\ phase' = "wire"
    /\ UNCHANGED <<transfer, index, packet, todo, previous, at, got>>

(* ---- recvfrom and decode ---- *)

(* Python's indexing from 0, and its slices, which stop at the end *)
Byte(i) == wire[i + 1]
Slice(i, j) == SubSeq(wire, i + 1, IF j < Len(wire) THEN j ELSE Len(wire))

(* recvfrom drops what does not fit into its buffer. *)
Receive ==
    /\ phase = "wire"
    /\ wire' = Slice(0, ReceiveBuffer)
    /\ phase' = "header"
    /\ UNCHANGED <<transfer, index, packet, todo, previous, at, got>>

DecodeHeader ==
    /\ phase = "header"
    /\ got' = [version |-> Byte(0) \div 64, type |-> (Byte(0) \div 16) % 4,
               token |-> Slice(4, 4 + (Byte(0) % 16)), code |-> Byte(1),
               mid |-> 256 * Byte(2) + Byte(3),
               options |-> NoOption, payload |-> <<>>]
    /\ at' = 4 + Len(got'.token)
    /\ previous' = 0
    /\ phase' = "decode"
    /\ UNCHANGED <<transfer, index, packet, todo, wire>>

AtOption == at < Len(wire) /\ Byte(at) # PayloadMarker

(* The two nibbles of an option's first byte, and their extensions, which  *)
(* follow it.  Indexing past the end of a datagram that was cut raises,    *)
(* which ends the filter thread.                                           *)
Extension(nibble) == IF nibble = 13 THEN 1 ELSE IF nibble = 14 THEN 2 ELSE 0
AfterDelta == at + Extension(Byte(at) \div 16)
ValueStart == AfterDelta + Extension(Byte(at) % 16) + 1
Indexed == /\ Byte(at) \div 16 = 13 => at + 1 < Len(wire)
           /\ Byte(at) % 16 = 13 => AfterDelta + 1 < Len(wire)
Number == previous + (Byte(at) \div 16) + BytesInt(Slice(at + 1, AfterDelta + 1))
Length == (IF Byte(at) % 16 = 14 THEN 269 ELSE Byte(at) % 16)
              + BytesInt(Slice(AfterDelta + 1, ValueStart))

DecodeNext ==
    /\ phase = "decode"
    /\ AtOption
    /\ Indexed
    /\ got' = [got EXCEPT !.options =
          [d \in DOMAIN @ \cup {Number} |->
              IF d = Number THEN ValueOf(d, Slice(ValueStart, ValueStart + Length))
                            ELSE @[d]]]
    /\ at' = ValueStart + Length
    /\ previous' = Number
    /\ UNCHANGED <<transfer, index, packet, phase, todo, wire>>

(* What json.loads takes: a text that was not cut.  For another it raises, *)
(* which ends the filter thread.                                           *)
Parses(payload) ==
    ContentFormat \in DOMAIN got.options /\ got.options[ContentFormat] = Json
        => payload = packet.payload

DecodePayload ==
    /\ phase = "decode"
    /\ ~ AtOption
    /\ LET payload == IF at + 1 < Len(wire) THEN Slice(at + 1, Len(wire)) ELSE <<>>
       IN /\ Parses(payload)
          /\ got' = [got EXCEPT !.payload = payload]
    /\ phase' = "decoded"
    /\ UNCHANGED <<transfer, index, packet, todo, previous, wire, at>>

(* The filter answers a confirmable message. *)
Answer ==
    /\ phase = "decoded"
    /\ got.type = CON
    /\ packet' = AckOf(got)
    /\ phase' = "new" /\ wire' = <<>> /\ at' = 0 /\ got' = Nothing
    /\ UNCHANGED <<transfer, index, todo, previous>>

Next == \/ EncodeHeader \/ EncodeNext \/ EncodePayload
        \/ Receive \/ DecodeHeader \/ DecodeNext \/ DecodePayload
        \/ Answer

Spec == Init /\ [][Next]_vars

-----------------------------------------------------------------------------
(* Properties *)

(* Message ids have 16 bits before encoding and after decoding, and every  *)
(* byte of the datagram is one (the widths of coap_packet.py:279-298).     *)
TypeOK ==
    /\ phase \in {"new", "options", "wire", "header", "decode", "decoded"}
    /\ packet.mid \in 0 .. MidLimit - 1 /\ got.mid \in 0 .. MidLimit - 1
    /\ \A i \in DOMAIN wire : wire[i] \in Bytes
    /\ todo \subseteq DOMAIN packet.options
    /\ previous \in Nat /\ at \in Nat

(* A message fits into the receive buffer of 1152 bytes when the texts and *)
(* the payload leave 18 bytes for the rest: a full block when the name has *)
(* at most 110 bytes.  With longer names, which file systems allow, the    *)
(* end of the block is cut off and nothing notices.                        *)
TextLength(p, d) == IF d \in DOMAIN p.options THEN Len(p.options[d]) ELSE 0
Fits == TextLength(packet, LocationPath) + TextLength(packet, UriPath)
            + Len(packet.payload) <= ReceiveBuffer - 18

(* A message that fits is decoded as it was encoded: header, every option  *)
(* (extended deltas and lengths, numbers of zero to three bytes) and       *)
(* payload (coap_packet.py:263-397).                                       *)
RoundTrip == phase = "decoded" /\ Fits => got = packet

(* With such a name all options of a message fit, if not the payload.      *)
NameFits == transfer[2] <= ReceiveBuffer - 25
Key(i) == WorkId(MessageAt(transfer[1], transfer[2], transfer[3], i))

(* The ACK that comes back names the transaction of the message, however   *)
(* long the transfer and although the message id wraps: otherwise the      *)
(* message would be sent again until its request failed ("The transaction  *)
(* that waited for it must be finished", coap_worker_pool.py:133).         *)
AckMatches == phase = "decoded" /\ got.type = ACK /\ NameFits => WorkId(got) = Key(index)

(* No other message of the transfer, nor the request, has the same key:    *)
(* neither the pool of the sender nor the marks of the receiver take one   *)
(* for the other when the message id wraps.                                *)
KeysDistinct == phase = "decoded" /\ got.type = CON /\ NameFits =>
    \A i \in Positions \cup {0} :
        i # index /\ i <= transfer[3] => WorkId(got) # Key(i)

=============================================================================
