-------------------------- MODULE CoapPacketProofs --------------------------
(***************************************************************************)
(* Proofs about CoapPacket, for names of any length, any total and any     *)
(* position.                                                               *)
(***************************************************************************)
EXTENDS CoapPacket, SequenceTheorems, NaturalsInduction, WellFoundedInduction, TLAPS

Numbers == {LocationPath, UriPath, ContentFormat, Block2, Block1, Size2, Size1}
Values == {v \in Nat : v < 16777216}        \* numbers of at most three bytes

-----------------------------------------------------------------------------
(* Numbers and headers as bytes *)

LEMMA ByteFacts == \A v : v \in Bytes <=> v \in Nat /\ v < 256
BY SMT DEF Bytes

LEMMA BytesOf ==
    ASSUME NEW s \in Seq(Bytes)
    PROVE  /\ Len(s) \in Nat
           /\ \A i \in 1 .. Len(s) : s[i] \in Bytes /\ s[i] \in Nat /\ s[i] < 256
BY ByteFacts, SMT

LEMMA ConcatBytes ==
    ASSUME NEW s \in Seq(Bytes), NEW t \in Seq(Bytes)
    PROVE  /\ s \o t \in Seq(Bytes) /\ Len(s \o t) = Len(s) + Len(t)
           /\ \A i \in 1 .. Len(s) : (s \o t)[i] = s[i]
           /\ \A i \in 1 .. Len(t) : (s \o t)[Len(s) + i] = t[i]
BY SMT

(* Sequences of one, two and three bytes *)
LEMMA ShortBytes ==
    /\ \A x \in Bytes : <<x>> \in Seq(Bytes) /\ Len(<<x>>) = 1 /\ <<x>>[1] = x
    /\ \A x, y \in Bytes : <<x, y>> \in Seq(Bytes)
    /\ \A x, y, z \in Bytes : <<x, y, z>> \in Seq(Bytes)
BY SMT

(* Two bytes hold a number below 65536, most significant byte first.       *)
IsTwoBytes(u, n) ==
    /\ u \in Seq(Bytes) /\ Len(u) = 2
    /\ u[1] = n \div 256 /\ u[2] = n % 256
    /\ 256 * (n \div 256) + (n % 256) = n

LEMMA TwoByteFacts ==
    ASSUME NEW n \in Nat, n < MidLimit
    PROVE  IsTwoBytes(TwoBytes(n), n)
<1>1. /\ n \div 256 \in Nat /\ n % 256 \in Nat
      /\ n \div 256 < 256 /\ n % 256 < 256
      /\ 256 * (n \div 256) + (n % 256) = n
  BY SMT DEF MidLimit
<1>2. n \div 256 \in Bytes /\ n % 256 \in Bytes
  BY <1>1, ByteFacts, SMT
<1> QED BY <1>1, <1>2, SMT DEF TwoBytes, IsTwoBytes

LEMMA BytesIntCases ==
    ASSUME NEW s
    PROVE  /\ Len(s) = 0 => BytesInt(s) = 0
           /\ Len(s) = 1 => BytesInt(s) = s[1]
           /\ Len(s) = 2 => BytesInt(s) = 256 * s[1] + s[2]
           /\ Len(s) = 3 => BytesInt(s) = 65536 * s[1] + 256 * s[2] + s[3]
BY SMT DEF BytesInt

(* A byte before a sequence of two *)
LEMMA Prepended ==
    ASSUME NEW x \in Bytes, NEW u \in Seq(Bytes), Len(u) = 2
    PROVE  LET s == <<x>> \o u IN
           /\ s \in Seq(Bytes) /\ Len(s) = 3
           /\ s[1] = x /\ s[2] = u[1] /\ s[3] = u[2]
<1>1. PICK a \in Seq(Bytes) : a = <<x>> /\ Len(a) = 1 /\ a[1] = x
  BY ShortBytes, Zenon
<1>2. /\ a \o u \in Seq(Bytes) /\ Len(a \o u) = Len(a) + Len(u)
      /\ \A i \in 1 .. Len(a) : (a \o u)[i] = a[i]
      /\ \A i \in 1 .. Len(u) : (a \o u)[Len(a) + i] = u[i]
  BY ConcatBytes, Zenon
<1>3. PICK s : s = a \o u
  BY Zenon
<1>4. /\ s \in Seq(Bytes) /\ Len(s) = 3
      /\ s[1] = x /\ s[2] = u[1] /\ s[3] = u[2]
  BY <1>1, <1>2, <1>3, SMT
<1> QED BY <1>1, <1>3, <1>4, Zenon

LEMMA UpToTwo == \A n \in Nat : n = 0 \/ n = 1 \/ n = 2 \/ n > 2
BY SMT

(* A number of at most three bytes comes back (coap_packet.py:86 and 150). *)
LEMMA IntBytesFacts ==
    ASSUME NEW v \in Values
    PROVE  /\ IntBytes(v) \in Seq(Bytes) /\ Len(IntBytes(v)) <= 3
           /\ BytesInt(IntBytes(v)) = v
<1>0. v \in Nat /\ v < 16777216
  BY SMT DEF Values
<1>1. CASE v = 0
  BY SMT, <1>1 DEF IntBytes, BytesInt
<1>2. CASE v # 0 /\ v < 256
  <2>1. IntBytes(v) = <<v>>
    BY SMT, <1>2 DEF IntBytes
  <2>2. v \in Bytes
    BY SMT, <1>0, <1>2, ByteFacts
  <2> QED BY SMT, <2>1, <2>2 DEF BytesInt
<1>3. CASE 256 <= v /\ v < 65536
  <2>1. IntBytes(v) = TwoBytes(v)
    BY SMT, <1>3, <1>0 DEF IntBytes
  <2>2. /\ TwoBytes(v) \in Seq(Bytes) /\ Len(TwoBytes(v)) = 2
        /\ TwoBytes(v)[1] = v \div 256 /\ TwoBytes(v)[2] = v % 256
        /\ 256 * (v \div 256) + (v % 256) = v
    <3>1. v \in Nat /\ v < MidLimit
      BY <1>0, <1>3, SMT DEF MidLimit
    <3>2. IsTwoBytes(TwoBytes(v), v)
      BY <3>1, TwoByteFacts, SMT
    <3> QED BY <3>2, SMT DEF IsTwoBytes
  <2>3. PICK u \in Seq(Bytes) : u = TwoBytes(v)
    BY <2>2, SMT
  <2>4. Len(u) = 2 /\ 256 * u[1] + u[2] = v
    BY <2>2, <2>3, SMT
  <2>5. BytesInt(u) = v
    BY <2>4, SMT DEF BytesInt
  <2> QED BY <2>1, <2>3, <2>4, <2>5, SMT
<1>4. CASE v >= 65536
  <2>1. PICK w \in Nat : w = v % 65536
    BY <1>0, SMT
  <2>2. PICK x \in Nat : x = v \div 65536
    BY <1>0, SMT
  <2>3. w < 65536 /\ x < 256 /\ x % 256 = x /\ 65536 * x + w = v
    BY <1>0, <2>1, <2>2, SMT
  <2>4. IntBytes(v) = <<x>> \o TwoBytes(w)
    BY <1>4, <1>0, <2>1, <2>2, <2>3, SMT DEF IntBytes
  <2>5. x \in Bytes
    BY <2>3, ByteFacts, SMT
  <2>6. /\ TwoBytes(w) \in Seq(Bytes) /\ Len(TwoBytes(w)) = 2
        /\ TwoBytes(w)[1] = w \div 256 /\ TwoBytes(w)[2] = w % 256
        /\ 256 * (w \div 256) + (w % 256) = w
    <3>1. w < MidLimit
      BY <2>3, SMT DEF MidLimit
    <3>2. IsTwoBytes(TwoBytes(w), w)
      BY <3>1, TwoByteFacts, SMT
    <3> QED BY <3>2, SMT DEF IsTwoBytes
  <2>7. PICK u \in Seq(Bytes) : u = TwoBytes(w)
    BY <2>6, SMT
  <2>8. Len(u) = 2 /\ 256 * u[1] + u[2] = w
    BY <2>6, <2>7, SMT
  <2>9. PICK s : s = <<x>> \o u
    BY Zenon
  <2>10. /\ s \in Seq(Bytes) /\ Len(s) = 3
         /\ s[1] = x /\ s[2] = u[1] /\ s[3] = u[2]
    BY <2>5, <2>8, <2>9, Prepended, Zenon
  <2>11. BytesInt(s) = 65536 * s[1] + 256 * s[2] + s[3]
    <3>1. Len(s) = 3
      BY <2>10, Zenon
    <3> QED BY <3>1, BytesIntCases, SMT
  <2>12. u[1] \in Nat /\ u[2] \in Nat
    <3>1. Len(u) = 2
      BY <2>6, <2>7, Zenon
    <3>2. 1 \in 1 .. Len(u) /\ 2 \in 1 .. Len(u)
      BY <3>1, SMT
    <3> QED BY <3>2, BytesOf, Zenon
  <2>13. BytesInt(s) = v
    BY <2>3, <2>8, <2>10, <2>11, <2>12, SMT
  <2> QED BY <2>4, <2>7, <2>9, <2>10, <2>13, SMT
<1> QED BY SMT, <1>0, <1>1, <1>2, <1>3, <1>4

(* What is read from bytes is a number of at most three.                   *)
LEMMA BytesIntType ==
    ASSUME NEW s \in Seq(Bytes)
    PROVE  BytesInt(s) \in Values
<1>1. \A i \in 1 .. Len(s) : s[i] \in Nat /\ s[i] < 256
  BY SMT, ByteFacts
<1>2. Len(s) \in Nat
  BY SMT
<1>3. CASE Len(s) = 0
  BY SMT, <1>3 DEF BytesInt, Values
<1>4. CASE Len(s) = 1
  BY SMT, <1>4, <1>1 DEF BytesInt, Values
<1>5. CASE Len(s) = 2
  <2>1. /\ s[1] \in Nat /\ s[1] < 256 /\ s[2] \in Nat /\ s[2] < 256
    BY SMT, <1>5, <1>1
  <2>2. BytesInt(s) = 256 * s[1] + s[2]
    BY SMT, <1>5 DEF BytesInt
  <2> QED BY SMT, <2>1, <2>2 DEF Values
<1>6. CASE Len(s) > 2
  <2>1. /\ s[1] \in Nat /\ s[1] < 256 /\ s[2] \in Nat /\ s[2] < 256
        /\ s[3] \in Nat /\ s[3] < 256
    BY SMT, <1>6, <1>1, <1>2
  <2>2. BytesInt(s) = 65536 * s[1] + 256 * s[2] + s[3]
    BY SMT, <1>6, <1>2 DEF BytesInt
  <2>3. PICK v : v = BytesInt(s)
    BY SMT
  <2>4. v \in Nat /\ v < 16777216
    BY <2>1, <2>2, <2>3, SMT
  <2> QED BY <2>3, <2>4, SMT DEF Values
<1>7. Len(s) = 0 \/ Len(s) = 1 \/ Len(s) = 2 \/ Len(s) > 2
  BY <1>2, UpToTwo, Zenon
<1> QED BY Zenon, <1>3, <1>4, <1>5, <1>6, <1>7

(* An option has a header that _encode_option can express.                 *)
Encodable(delta, length) ==
    \/ delta < 13 /\ length <= 65804
    \/ delta >= 13 /\ length < 13

(* The header of an option consists of bytes (coap_packet.py:93-124).      *)
LEMMA HeaderType ==
    ASSUME NEW delta \in Nat, delta <= 60, NEW length \in Nat
    PROVE  OptionHeader(delta, length) \in Seq(Bytes)
<1>1. CASE delta < 13 /\ length < 13
  <2>1. OptionHeader(delta, length) = <<16 * delta + length>>
    BY <1>1, SMT DEF OptionHeader
  <2>2. 16 * delta + length \in Bytes
    BY <1>1, ByteFacts, SMT
  <2> QED BY <2>1, <2>2, ShortBytes, SMT
<1>2. CASE delta < 13 /\ length >= 13 /\ length < 269
  <2>1. OptionHeader(delta, length) = <<16 * delta + 13, length - 13>>
    BY <1>2, SMT DEF OptionHeader
  <2>2. 16 * delta + 13 \in Bytes /\ length - 13 \in Bytes
    BY <1>2, ByteFacts, SMT
  <2> QED BY <2>1, <2>2, ShortBytes, SMT
<1>3. CASE delta < 13 /\ length >= 269 /\ length <= 65804
  <2>1. OptionHeader(delta, length) = <<16 * delta + 14>> \o TwoBytes(length - 269)
    BY <1>3, SMT DEF OptionHeader
  <2>2. TwoBytes(length - 269) \in Seq(Bytes)
    <3>1. PICK w \in Nat : w = length - 269 /\ w < MidLimit
      BY <1>3, SMT DEF MidLimit
    <3>2. IsTwoBytes(TwoBytes(w), w)
      BY <3>1, TwoByteFacts, SMT
    <3> QED BY <3>1, <3>2, SMT DEF IsTwoBytes
  <2>3. 16 * delta + 14 \in Bytes
    BY <1>3, ByteFacts, SMT
  <2> QED BY <2>1, <2>2, <2>3, SMT
<1>4. CASE delta >= 13 /\ length < 13
  <2>1. OptionHeader(delta, length) = <<16 * 13 + length, delta - 13>>
    BY <1>4, SMT DEF OptionHeader
  <2>2. 16 * 13 + length \in Bytes /\ delta - 13 \in Bytes
    BY <1>4, ByteFacts, SMT
  <2> QED BY <2>1, <2>2, ShortBytes, SMT
<1>5. CASE delta >= 13 /\ length >= 13 /\ length < 269
  <2>1. OptionHeader(delta, length) = <<16 * 13 + 13, delta - 13, length - 13>>
    BY <1>5, SMT DEF OptionHeader
  <2>2. 16 * 13 + 13 \in Bytes /\ delta - 13 \in Bytes /\ length - 13 \in Bytes
    BY <1>5, ByteFacts, SMT
  <2> QED BY <2>1, <2>2, ShortBytes, SMT
<1>6. CASE (delta < 13 /\ length > 65804) \/ (delta >= 13 /\ length >= 269)
  <2>1. OptionHeader(delta, length) = <<>>
    BY <1>6, SMT DEF OptionHeader
  <2> QED BY <2>1, SMT
<1> QED BY <1>1, <1>2, <1>3, <1>4, <1>5, <1>6, SMT

(* Pieces of a short sequence, as BytesInt reads them *)
LEMMA Pieces ==
    ASSUME NEW s \in Seq(Bytes), NEW i \in Nat \ {0}, NEW j \in Nat
    PROVE  /\ j = i - 1 => BytesInt(SubSeq(s, i, j)) = 0
           /\ j = i /\ i <= Len(s) => BytesInt(SubSeq(s, i, j)) = s[i]
           /\ j = i + 1 /\ j <= Len(s) => BytesInt(SubSeq(s, i, j)) = 256 * s[i] + s[j]
<1>1. CASE j = i - 1
  <2>1. Len(SubSeq(s, i, j)) = 0
    BY <1>1, SMT
  <2> QED BY <1>1, <2>1, SMT DEF BytesInt
<1>2. CASE j = i /\ i <= Len(s)
  <2>1. Len(SubSeq(s, i, j)) = 1 /\ SubSeq(s, i, j)[1] = s[i]
    BY <1>2, SMT
  <2> QED BY <1>2, <2>1, SMT DEF BytesInt
<1>3. CASE j = i + 1 /\ j <= Len(s)
  <2>1. /\ Len(SubSeq(s, i, j)) = 2
        /\ SubSeq(s, i, j)[1] = s[i] /\ SubSeq(s, i, j)[2] = s[j]
    BY <1>3, SMT
  <2> QED BY <1>3, <2>1, SMT DEF BytesInt
<1> QED BY <1>1, <1>2, <1>3, SMT

(* The two nibbles of the first byte and their extensions give delta and   *)
(* length back, and the byte is never taken for the payload marker         *)
(* (coap_packet.py:93-109 against 359-378).                                *)
HeaderReads(h, delta, length) ==
    LET d == h[1] \div 16
        l == h[1] % 16
    IN /\ h[1] \in Nat /\ h[1] < 255 /\ Len(h) = 1 + Extension(d) + Extension(l)
       /\ d + BytesInt(SubSeq(h, 2, 1 + Extension(d))) = delta
       /\ (IF l = 14 THEN 269 ELSE l)
             + BytesInt(SubSeq(h, 2 + Extension(d), Len(h))) = length

LEMMA HeaderFacts ==
    ASSUME NEW delta \in Nat, delta <= 60, NEW length \in Nat, Encodable(delta, length)
    PROVE  HeaderReads(OptionHeader(delta, length), delta, length)
<1>0. PICK h \in Seq(Bytes) : h = OptionHeader(delta, length)
  BY HeaderType, SMT
<1> SUFFICES HeaderReads(h, delta, length)
  BY <1>0, SMT
<1>1. CASE delta < 13 /\ length < 13
  <2>1. Len(h) = 1 /\ h[1] = 16 * delta + length
    BY <1>0, <1>1, SMT DEF OptionHeader
  <2>2. /\ (16 * delta + length) \div 16 = delta
        /\ (16 * delta + length) % 16 = length
    BY <1>1, SMT
  <2>3. Extension(delta) = 0 /\ Extension(length) = 0
    BY <1>1, SMT DEF Extension
  <2>4. BytesInt(SubSeq(h, 2, 1)) = 0
    BY Pieces, SMT
  <2> QED BY <2>1, <2>2, <2>3, <2>4, <1>1, SMT DEF HeaderReads
<1>2. CASE delta < 13 /\ length >= 13 /\ length < 269
  <2>1. Len(h) = 2 /\ h[1] = 16 * delta + 13 /\ h[2] = length - 13
    BY <1>0, <1>2, SMT DEF OptionHeader
  <2>2. /\ (16 * delta + 13) \div 16 = delta
        /\ (16 * delta + 13) % 16 = 13
    BY <1>2, SMT
  <2>3. Extension(delta) = 0 /\ Extension(13) = 1
    BY <1>2, SMT DEF Extension
  <2>5. 2 \in Nat \ {0} /\ 1 = 2 - 1 /\ 2 <= Len(h)
    BY <2>1, SMT
  <2>4. BytesInt(SubSeq(h, 2, 1)) = 0 /\ BytesInt(SubSeq(h, 2, 2)) = h[2]
    BY <2>5, Pieces, SMT
  <2> QED BY <2>1, <2>2, <2>3, <2>4, <1>2, SMT DEF HeaderReads
<1>3. CASE delta < 13 /\ length >= 269 /\ length <= 65804
  <2>1. PICK w \in Nat : w = length - 269 /\ w < 65536
    BY <1>3, SMT
  <2>2. h = <<16 * delta + 14>> \o TwoBytes(w)
    BY <1>0, <1>3, <2>1, SMT DEF OptionHeader
  <2>9. w < MidLimit
    BY <2>1, SMT DEF MidLimit
  <2>7. /\ TwoBytes(w) \in Seq(Bytes) /\ Len(TwoBytes(w)) = 2
        /\ TwoBytes(w)[1] = w \div 256 /\ TwoBytes(w)[2] = w % 256
        /\ 256 * (w \div 256) + (w % 256) = w
    <3>1. IsTwoBytes(TwoBytes(w), w)
      BY <2>9, TwoByteFacts, SMT
    <3> QED BY <3>1, SMT DEF IsTwoBytes
  <2>8. PICK u \in Seq(Bytes) : u = TwoBytes(w)
    BY <2>7, SMT
  <2>10. 16 * delta + 14 \in Bytes /\ Len(u) = 2
    <3>1. 16 * delta + 14 \in Nat /\ 16 * delta + 14 < 256
      BY <1>3, SMT
    <3> QED BY <3>1, <2>7, <2>8, ByteFacts, SMT
  <2>11. h = <<16 * delta + 14>> \o u
    BY <2>2, <2>8, Zenon
  <2>12. /\ Len(h) = 3 /\ h[1] = 16 * delta + 14
         /\ h[2] = u[1] /\ h[3] = u[2]
    BY <2>10, <2>11, Prepended, Zenon
  <2>3. /\ Len(h) = 3 /\ h[1] = 16 * delta + 14
        /\ 256 * h[2] + h[3] = length - 269
    BY <2>1, <2>7, <2>8, <2>12, SMT
  <2>4. /\ (16 * delta + 14) \div 16 = delta
        /\ (16 * delta + 14) % 16 = 14
    BY <1>3, SMT
  <2>5. Extension(delta) = 0 /\ Extension(14) = 2
    BY <1>3, SMT DEF Extension
  <2>6. BytesInt(SubSeq(h, 2, 1)) = 0 /\ BytesInt(SubSeq(h, 2, 3)) = length - 269
    BY <2>3, Pieces, SMT
  <2> QED BY <2>3, <2>4, <2>5, <2>6, <1>3, SMT DEF HeaderReads
<1>4. CASE delta >= 13 /\ length < 13
  <2>1. Len(h) = 2 /\ h[1] = 16 * 13 + length /\ h[2] = delta - 13
    BY <1>0, <1>4, SMT DEF OptionHeader
  <2>2. /\ (16 * 13 + length) \div 16 = 13
        /\ (16 * 13 + length) % 16 = length
    BY <1>4, SMT
  <2>3. Extension(13) = 1 /\ Extension(length) = 0
    BY <1>4, SMT DEF Extension
  <2>4. BytesInt(SubSeq(h, 2, 2)) = delta - 13 /\ BytesInt(SubSeq(h, 3, 2)) = 0
    BY <2>1, Pieces, SMT
  <2> QED BY <2>1, <2>2, <2>3, <2>4, <1>4, SMT DEF HeaderReads
<1> QED BY <1>1, <1>2, <1>3, <1>4, SMT DEF Encodable
-----------------------------------------------------------------------------
(* The invariant *)

IsOptions(o) ==
    /\ o = [d \in DOMAIN o |-> o[d]]
    /\ \A d \in DOMAIN o : IF IsText(d) THEN o[d] \in Seq(Bytes) ELSE o[d] \in Values

(* What is encoded, and what may be decoded even from a datagram that was  *)
(* cut                                                                     *)
Sendable(p) ==
    /\ p \in [version : {1}, type : {CON, ACK}, token : {Token}, code : Bytes,
              mid : 0 .. MidLimit - 1, options : {p.options}, payload : Seq(Bytes)]
    /\ DOMAIN p.options \subseteq Numbers /\ IsOptions(p.options)
Readable(p) ==
    /\ p \in [version : Nat, type : Nat, token : Seq(Bytes), code : Bytes,
              mid : 0 .. MidLimit - 1, options : {p.options}, payload : Seq(Bytes)]
    /\ IsOptions(p.options)

(* A transfer and a position in it                                         *)
Legal(t, i) == /\ t \in {GET, PUT, POST, DELETE, FETCH} \X NameLengths \X Totals
               /\ i \in {0} \cup Positions
               /\ i # 0 => i <= t[3]

Typed ==
    /\ phase \in {"new", "options", "wire", "header", "decode", "decoded"}
    /\ Legal(transfer, index)
    /\ Sendable(packet) /\ Readable(got)
    /\ todo \subseteq DOMAIN packet.options
    /\ wire \in Seq(Bytes) /\ previous \in Nat /\ at \in Nat
    /\ phase = "options" => \A d \in todo : previous < d
    /\ phase # "options" => todo = {}

(* The header is read as it was written, whatever was cut behind it.       *)
Headed ==
    /\ phase # "new" =>
          /\ Len(wire) >= 5
          /\ wire[1] = 64 + 16 * packet.type + 1 /\ wire[2] = packet.code
          /\ wire[3] = (packet.mid \div 256) % 256 /\ wire[4] = packet.mid % 256
          /\ wire[5] = 0
    /\ phase \in {"decode", "decoded"} =>
          /\ got.version = 1 /\ got.type = packet.type /\ got.token = Token
          /\ got.code = packet.code /\ got.mid = packet.mid

TInv == Typed /\ Headed

(* The message, then its ACK *)
Message == MessageAt(transfer[1], transfer[2], transfer[3], index)
Origin ==
    \/ packet = Message
    \/ /\ packet.type = ACK /\ packet.payload = <<>>
       /\ DOMAIN packet.options \in {{}, {Block1}, {Block2}}
       /\ NameFits => packet = AckOf(Message)

(* A text with a length that an option header can express                  *)
Proper(p) == \A d \in DOMAIN p.options : IsText(d) => Len(p.options[d]) <= 65804

(* The bytes of an option: its number follows on that of the option before *)
Field(p, d) == ValueBytes(d, p.options[d])
Follows(p, c, d) == /\ c \in {0} \cup DOMAIN p.options /\ c < d
                    /\ \A k \in DOMAIN p.options : k <= c \/ d <= k
Prev(p, d) == CHOOSE c \in {0} \cup DOMAIN p.options : Follows(p, c, d)
Chunk(p, d) == OptionHeader(d - Prev(p, d), Len(Field(p, d))) \o Field(p, d)

(* Where the options from number n on begin in the datagram, and its size  *)
End == 61                   \* behind all option numbers
Part(p, k, n) == IF k \in DOMAIN p.options /\ k < n THEN Len(Chunk(p, k)) ELSE 0
Start(p, n) == 5 + Part(p, LocationPath, n) + Part(p, UriPath, n)
                 + Part(p, ContentFormat, n) + Part(p, Block2, n) + Part(p, Block1, n)
                 + Part(p, Size2, n) + Part(p, Size1, n)
Size(p) == Start(p, End) + 1 + Len(p.payload)

Laid(p, w, d) == \A j \in 1 .. Len(Chunk(p, d)) : w[Start(p, d) + j] = Chunk(p, d)[j]

(* The options up to the last one encoded are in the datagram.             *)
Encoding == phase = "options" =>
    /\ previous \in {0} \cup DOMAIN packet.options
    /\ todo = {d \in DOMAIN packet.options : previous < d}
    /\ Len(wire) = Start(packet, previous + 1)
    /\ \A d \in DOMAIN packet.options : d <= previous => Laid(packet, wire, d)

(* What is behind the header: the options, the marker and the payload      *)
Behind ==
    /\ Start(packet, End) <= Len(wire) =>
          \A d \in DOMAIN packet.options : Laid(packet, wire, d)
    /\ Start(packet, End) < Len(wire) => wire[Start(packet, End) + 1] = PayloadMarker
    /\ \A j \in 1 .. Len(packet.payload) : Start(packet, End) + 1 + j <= Len(wire)
          => wire[Start(packet, End) + 1 + j] = packet.payload[j]
Encoded == phase = "wire" => Len(wire) = Size(packet) /\ Behind
Received == phase \in {"header", "decode", "decoded"} =>
    /\ Len(wire) = IF Size(packet) <= ReceiveBuffer THEN Size(packet) ELSE ReceiveBuffer
    /\ Behind

(* The options up to the last one decoded have their values again.         *)
Decoding == phase = "decode" /\ Start(packet, End) <= Len(wire) =>
    /\ previous \in {0} \cup DOMAIN packet.options
    /\ at = Start(packet, previous + 1)
    /\ got.options = [d \in {k \in DOMAIN packet.options : k <= previous}
                        |-> packet.options[d]]
Decoded == phase = "decoded" /\ Start(packet, End) <= Len(wire) =>
    /\ got.options = packet.options
    /\ Size(packet) <= ReceiveBuffer => got.payload = packet.payload

Layout == Proper(packet) => Encoding /\ Encoded /\ Received /\ Decoding /\ Decoded
IInv == TInv /\ Origin /\ Layout

-----------------------------------------------------------------------------
(* Where the options are *)

LEMMA NumberFacts ==
    /\ Numbers = {8, 11, 12, 23, 27, 28, 60}
    /\ \A d \in Numbers : d \in Nat /\ 0 < d /\ d <= 60
    /\ \A d \in Numbers : IsText(d) <=> d = 8 \/ d = 11
BY SMT DEF Numbers, IsText, LocationPath, UriPath, ContentFormat, Block1, Block2,
           Size1, Size2

LEMMA MidFacts ==
    /\ MidLimit \in Nat /\ 0 < MidLimit
    /\ \A v : v \in 0 .. MidLimit - 1 <=> v \in Nat /\ v < MidLimit
<1>1. MidLimit \in Nat /\ 0 < MidLimit
  BY SMT DEF MidLimit
<1>2. \A n \in Nat : \A v : v \in 0 .. n - 1 <=> v \in Nat /\ v < n
  BY SMT
<1> QED BY <1>1, <1>2, Zenon

(* The value of an option as bytes gives the value back                    *)
(* (coap_packet.py:83-88, 139-154).                                        *)
LEMMA FieldFacts ==
    ASSUME NEW p, IsOptions(p.options), NEW d \in DOMAIN p.options
    PROVE  /\ Field(p, d) \in Seq(Bytes) /\ Len(Field(p, d)) \in Nat
           /\ ValueOf(d, Field(p, d)) = p.options[d]
           /\ IF IsText(d) THEN Field(p, d) = p.options[d] ELSE Len(Field(p, d)) <= 3
<1>1. CASE IsText(d)
  <2>1. p.options[d] \in Seq(Bytes)
    BY <1>1, Zenon DEF IsOptions
  <2>2. Field(p, d) = p.options[d] /\ ValueOf(d, Field(p, d)) = p.options[d]
    BY <1>1, Zenon DEF Field, ValueBytes, ValueOf
  <2> QED BY <1>1, <2>1, <2>2, BytesOf, Zenon
<1>2. CASE ~ IsText(d)
  <2>1. PICK v \in Values : v = p.options[d]
    BY <1>2, Zenon DEF IsOptions
  <2>2. /\ IntBytes(v) \in Seq(Bytes) /\ Len(IntBytes(v)) <= 3
        /\ BytesInt(IntBytes(v)) = v
    BY IntBytesFacts, Zenon
  <2>3. Field(p, d) = IntBytes(v) /\ ValueOf(d, Field(p, d)) = BytesInt(IntBytes(v))
    BY <1>2, <2>1, Zenon DEF Field, ValueBytes, ValueOf
  <2> QED BY <1>2, <2>1, <2>2, <2>3, BytesOf, Zenon
<1> QED BY <1>1, <1>2, Zenon

(* One option, or none, comes directly before a number.                    *)
LEMMA PrevFacts ==
    ASSUME NEW p, DOMAIN p.options \subseteq Numbers, NEW n \in Numbers \cup {End}
    PROVE  /\ Follows(p, Prev(p, n), n)
           /\ \A c : Follows(p, c, n) => c = Prev(p, n)
<1> DEFINE D == DOMAIN p.options
<1>1. D \subseteq {8, 11, 12, 23, 27, 28, 60} /\ n \in {8, 11, 12, 23, 27, 28, 60, 61}
  BY NumberFacts, SMT DEF End
<1>2. \E c \in {0} \cup D : Follows(p, c, n)
  <2> DEFINE W == IF 60 \in D /\ 60 < n THEN 60 ELSE IF 28 \in D /\ 28 < n THEN 28
                  ELSE IF 27 \in D /\ 27 < n THEN 27 ELSE IF 23 \in D /\ 23 < n THEN 23
                  ELSE IF 12 \in D /\ 12 < n THEN 12 ELSE IF 11 \in D /\ 11 < n THEN 11
                  ELSE IF 8 \in D /\ 8 < n THEN 8 ELSE 0
  <2>1. W \in {0} \cup D /\ W < n
    BY <1>1, SMT
  <2>2. ASSUME NEW k \in D PROVE k <= W \/ n <= k
    BY <1>1, SMT
  <2> QED BY <2>1, <2>2, Zenon DEF Follows
<1>3. Follows(p, Prev(p, n), n)
  BY <1>2, Zenon DEF Prev
<1>4. ASSUME NEW c, Follows(p, c, n), NEW b, Follows(p, b, n) PROVE c = b
  <2>1. /\ c \in Nat /\ b \in Nat /\ n \in Nat
    BY <1>1, <1>4, SMT DEF Follows
  <2>2. /\ c \in {0} \cup D /\ b \in {0} \cup D /\ c < n /\ b < n
        /\ \A k \in D : k <= c \/ n <= k
        /\ \A k \in D : k <= b \/ n <= k
    BY <1>4, Zenon DEF Follows
  <2>3. b <= c
    <3>1. CASE b = 0
      BY <2>1, <3>1, SMT
    <3>2. CASE b \in D
      <4>1. b <= c \/ n <= b
        BY <2>2, <3>2, Zenon
      <4> QED BY <2>1, <2>2, <4>1, SMT
    <3> QED BY <2>2, <3>1, <3>2, Zenon
  <2>4. c <= b
    <3>1. CASE c = 0
      BY <2>1, <3>1, SMT
    <3>2. CASE c \in D
      <4>1. c <= b \/ n <= c
        BY <2>2, <3>2, Zenon
      <4> QED BY <2>1, <2>2, <4>1, SMT
    <3> QED BY <2>2, <3>1, <3>2, Zenon
  <2> QED BY <2>1, <2>3, <2>4, SMT
<1> QED BY <1>3, <1>4, Zenon

(* The bytes of an option are its header and its value.                    *)
LEMMA ChunkFacts ==
    ASSUME NEW p, DOMAIN p.options \subseteq Numbers, IsOptions(p.options),
           NEW d \in DOMAIN p.options
    PROVE  /\ d - Prev(p, d) \in Nat /\ d - Prev(p, d) <= 60 /\ 0 < d - Prev(p, d)
           /\ OptionHeader(d - Prev(p, d), Len(Field(p, d))) \in Seq(Bytes)
           /\ Chunk(p, d) \in Seq(Bytes) /\ Len(Chunk(p, d)) \in Nat
           /\ Proper(p) => Encodable(d - Prev(p, d), Len(Field(p, d)))
<1>1. d \in Numbers /\ d \in Nat /\ d <= 60 /\ (IsText(d) <=> d = 8 \/ d = 11)
  BY NumberFacts, Zenon
<1>2. Follows(p, Prev(p, d), d)
  BY <1>1, PrevFacts, Zenon
<1>3. Prev(p, d) \in Nat /\ Prev(p, d) < d
  <2>1. Prev(p, d) \in {0} \cup DOMAIN p.options /\ Prev(p, d) < d
    BY <1>2, Zenon DEF Follows
  <2> QED BY <2>1, NumberFacts, SMT
<1>4. d - Prev(p, d) \in Nat /\ d - Prev(p, d) <= 60 /\ 0 < d - Prev(p, d)
  BY <1>1, <1>3, SMT
<1>5. Field(p, d) \in Seq(Bytes) /\ Len(Field(p, d)) \in Nat
  BY FieldFacts, Zenon
<1>6. OptionHeader(d - Prev(p, d), Len(Field(p, d))) \in Seq(Bytes)
  BY <1>4, <1>5, HeaderType, Zenon
<1>7. Chunk(p, d) \in Seq(Bytes) /\ Len(Chunk(p, d)) \in Nat
  BY <1>5, <1>6, ConcatBytes, BytesOf, Zenon DEF Chunk
<1>8. ASSUME Proper(p) PROVE Encodable(d - Prev(p, d), Len(Field(p, d)))
  <2>1. CASE IsText(d)
    <3>1. Len(Field(p, d)) <= 65804
      <4>1. Field(p, d) = p.options[d]
        BY <2>1, FieldFacts, Zenon
      <4>2. Len(p.options[d]) <= 65804
        BY <1>8, <2>1, SMT DEF Proper
      <4> QED BY <4>1, <4>2, SMT
    <3>2. d - Prev(p, d) < 13
      BY <1>1, <1>3, <2>1, SMT
    <3> QED BY <3>1, <3>2, SMT DEF Encodable
  <2>2. CASE ~ IsText(d)
    <3>1. Len(Field(p, d)) <= 3
      BY <2>2, FieldFacts, Zenon
    <3> QED BY <3>1, <1>4, <1>5, SMT DEF Encodable
  <2> QED BY <2>1, <2>2, Zenon
<1> QED BY <1>4, <1>6, <1>7, <1>8, Zenon

(* What one option contributes to the place of the options from n on       *)
LEMMA PartFacts ==
    ASSUME NEW p, DOMAIN p.options \subseteq Numbers, IsOptions(p.options),
           NEW k \in Numbers
    PROVE  /\ \A n \in Nat : Part(p, k, n) \in Nat
           /\ Part(p, k, 1) = 0
           /\ \A m, n \in Nat : m <= n => Part(p, k, m) <= Part(p, k, n)
           /\ \A n \in Nat : \A c : Follows(p, c, n) => Part(p, k, n) = Part(p, k, c + 1)
           /\ \A d \in DOMAIN p.options : Part(p, k, d + 1) =
                  Part(p, k, d) + (IF k = d THEN Len(Chunk(p, d)) ELSE 0)
<1>1. k \in Nat /\ 0 < k /\ \A d \in DOMAIN p.options : d \in Nat /\ 0 < d
  BY NumberFacts, Zenon
<1>2. CASE k \notin DOMAIN p.options
  <2>1. \A n : Part(p, k, n) = 0
    BY <1>2, Zenon DEF Part
  <2> QED BY <1>2, <2>1, SMT
<1>3. CASE k \in DOMAIN p.options
  <2>1. PICK l \in Nat : l = Len(Chunk(p, k))
    BY <1>3, ChunkFacts, Zenon
  <2>2. \A n : Part(p, k, n) = IF k < n THEN l ELSE 0
    BY <1>3, <2>1, Zenon DEF Part
  <2>3. ASSUME NEW n \in Nat, NEW c, Follows(p, c, n)
        PROVE  Part(p, k, n) = Part(p, k, c + 1)
    <3>1. c \in {0} \cup DOMAIN p.options /\ c < n /\ (k <= c \/ n <= k)
      BY <1>3, <2>3, Zenon DEF Follows
    <3>2. c \in Nat
      BY <1>1, <3>1, SMT
    <3> QED BY <1>1, <2>2, <3>1, <3>2, SMT
  <2>4. ASSUME NEW d \in DOMAIN p.options
        PROVE  Part(p, k, d + 1) = Part(p, k, d)
                                     + (IF k = d THEN Len(Chunk(p, d)) ELSE 0)
    <3>1. CASE k = d
      <4>1. Part(p, k, k + 1) = l /\ Part(p, k, k) = 0
        BY <1>1, <2>2, SMT
      <4> QED BY <2>1, <3>1, <4>1, SMT
    <3>2. CASE k # d
      <4>1. d \in Nat /\ (k < d + 1 <=> k < d)
        BY <1>1, <3>2, SMT
      <4>2. Part(p, k, d + 1) = (IF k < d + 1 THEN l ELSE 0)
        BY <2>2, Zenon
      <4>3. Part(p, k, d) = (IF k < d THEN l ELSE 0)
        BY <2>2, Zenon
      <4> QED BY <2>1, <3>2, <4>1, <4>2, <4>3, SMT
    <3> QED BY <3>1, <3>2, Zenon
  <2>5. \A n \in Nat : Part(p, k, n) \in Nat
    BY <2>1, <2>2, SMT
  <2>6. Part(p, k, 1) = 0
    BY <1>1, <2>2, SMT
  <2>7. \A m, n \in Nat : m <= n => Part(p, k, m) <= Part(p, k, n)
    BY <1>1, <2>1, <2>2, SMT
  <2> QED BY <2>3, <2>4, <2>5, <2>6, <2>7, Zenon
<1> QED BY <1>2, <1>3, Zenon

(* The options follow one another from the sixth byte on.                  *)
LEMMA StartFacts ==
    ASSUME NEW p, DOMAIN p.options \subseteq Numbers, IsOptions(p.options)
    PROVE  /\ \A n \in Nat : Start(p, n) \in Nat /\ 5 <= Start(p, n)
           /\ Start(p, 1) = 5
           /\ \A m, n \in Nat : m <= n => Start(p, m) <= Start(p, n)
           /\ \A n \in Nat : \A c : Follows(p, c, n) => Start(p, n) = Start(p, c + 1)
           /\ \A d \in DOMAIN p.options : Start(p, d + 1) = Start(p, d) + Len(Chunk(p, d))
<1>1. /\ LocationPath \in Numbers /\ UriPath \in Numbers /\ ContentFormat \in Numbers
      /\ Block2 \in Numbers /\ Block1 \in Numbers /\ Size2 \in Numbers /\ Size1 \in Numbers
  BY Zenon DEF Numbers
<1>2. \A k \in Numbers : \A n \in Nat : Part(p, k, n) \in Nat
  BY PartFacts, Zenon
<1>3. \A n \in Nat : Start(p, n) \in Nat /\ 5 <= Start(p, n)
  <2> TAKE n \in Nat
  <2>1. /\ Part(p, LocationPath, n) \in Nat /\ Part(p, UriPath, n) \in Nat
        /\ Part(p, ContentFormat, n) \in Nat /\ Part(p, Block2, n) \in Nat
        /\ Part(p, Block1, n) \in Nat /\ Part(p, Size2, n) \in Nat
        /\ Part(p, Size1, n) \in Nat
    BY <1>1, <1>2, Zenon
  <2> QED BY <2>1, SMT DEF Start
<1>4. Start(p, 1) = 5
  <2>1. \A k \in Numbers : Part(p, k, 1) = 0
    BY PartFacts, Zenon
  <2> QED BY <1>1, <2>1, SMT DEF Start
<1>5. ASSUME NEW m \in Nat, NEW n \in Nat, m <= n
      PROVE  Start(p, m) <= Start(p, n)
  <2>1. \A k \in Numbers : /\ Part(p, k, m) <= Part(p, k, n)
                           /\ Part(p, k, m) \in Nat /\ Part(p, k, n) \in Nat
    BY <1>2, <1>5, PartFacts, Zenon
  <2> QED BY <1>1, <2>1, SMT DEF Start
<1>6. ASSUME NEW n \in Nat, NEW c, Follows(p, c, n)
      PROVE  Start(p, n) = Start(p, c + 1)
  <2>1. \A k \in Numbers : Part(p, k, n) = Part(p, k, c + 1)
    <3> TAKE k \in Numbers
    <3>1. \A b : Follows(p, b, n) => Part(p, k, n) = Part(p, k, b + 1)
      BY PartFacts, Zenon
    <3> QED BY <1>6, <3>1, Zenon
  <2> QED BY <1>1, <2>1, Zenon DEF Start
<1>7. ASSUME NEW d \in DOMAIN p.options
      PROVE  Start(p, d + 1) = Start(p, d) + Len(Chunk(p, d))
  <2>1. d \in Numbers /\ d \in Nat /\ Len(Chunk(p, d)) \in Nat
    BY NumberFacts, ChunkFacts, Zenon
  <2>2. PICK l \in Nat : l = Len(Chunk(p, d))
    BY <2>1, Zenon
  <2>3. \A k \in Numbers : Part(p, k, d) \in Nat
    BY <1>2, <2>1, Zenon
  <2>4. \A k \in Numbers : Part(p, k, d + 1) = Part(p, k, d) + (IF k = d THEN l ELSE 0)
    BY <2>2, PartFacts, Zenon
  <2>5. d = LocationPath \/ d = UriPath \/ d = ContentFormat \/ d = Block2
          \/ d = Block1 \/ d = Size2 \/ d = Size1
    BY <2>1, Zenon DEF Numbers
  <2>6. Start(p, d + 1) = Start(p, d) + l
    <3>1. /\ Part(p, LocationPath, d + 1) = Part(p, LocationPath, d) + (IF LocationPath = d THEN l ELSE 0)
          /\ Part(p, UriPath, d + 1) = Part(p, UriPath, d) + (IF UriPath = d THEN l ELSE 0)
          /\ Part(p, ContentFormat, d + 1) = Part(p, ContentFormat, d) + (IF ContentFormat = d THEN l ELSE 0)
          /\ Part(p, Block2, d + 1) = Part(p, Block2, d) + (IF Block2 = d THEN l ELSE 0)
          /\ Part(p, Block1, d + 1) = Part(p, Block1, d) + (IF Block1 = d THEN l ELSE 0)
          /\ Part(p, Size2, d + 1) = Part(p, Size2, d) + (IF Size2 = d THEN l ELSE 0)
          /\ Part(p, Size1, d + 1) = Part(p, Size1, d) + (IF Size1 = d THEN l ELSE 0)
      BY <1>1, <2>4, Zenon
    <3>2. /\ Part(p, LocationPath, d) \in Nat /\ Part(p, UriPath, d) \in Nat
          /\ Part(p, ContentFormat, d) \in Nat /\ Part(p, Block2, d) \in Nat
          /\ Part(p, Block1, d) \in Nat /\ Part(p, Size2, d) \in Nat
          /\ Part(p, Size1, d) \in Nat
      BY <1>1, <2>3, Zenon
    <3> QED BY <3>1, <3>2, <2>5, SMT DEF Start, LocationPath, UriPath, ContentFormat,
               Block2, Block1, Size2, Size1
  <2> QED BY <2>2, <2>6, Zenon
<1> QED BY <1>3, <1>4, <1>5, <1>6, <1>7, Zenon

-----------------------------------------------------------------------------
(* How long a message is *)

LEMMA HeaderLength ==
    ASSUME NEW delta \in Nat, delta <= 60, NEW length \in Nat
    PROVE  LET l == Len(OptionHeader(delta, length)) IN
           /\ l \in Nat /\ l <= 3
           /\ length < 13 => l <= 2
           /\ delta < 13 /\ length < 13 => l = 1
           /\ delta < 13 /\ length < 269 => l <= 2
<1>1. CASE delta < 13 /\ length < 13
  BY <1>1, SMT DEF OptionHeader
<1>2. CASE delta < 13 /\ length >= 13 /\ length < 269
  BY <1>2, SMT DEF OptionHeader
<1>3. CASE delta < 13 /\ length >= 269 /\ length <= 65804
  <2>1. OptionHeader(delta, length) = <<16 * delta + 14>> \o TwoBytes(length - 269)
    BY <1>3, SMT DEF OptionHeader
  <2>2. Len(OptionHeader(delta, length)) = 3
    BY <2>1, SMT DEF TwoBytes
  <2> QED BY <1>3, <2>2, SMT
<1>4. CASE delta >= 13 /\ length < 13
  BY <1>4, SMT DEF OptionHeader
<1>5. CASE delta >= 13 /\ length >= 13 /\ length < 269
  BY <1>5, SMT DEF OptionHeader
<1>6. CASE (delta < 13 /\ length > 65804) \/ (delta >= 13 /\ length >= 269)
  BY <1>6, SMT DEF OptionHeader
<1> QED BY <1>1, <1>2, <1>3, <1>4, <1>5, <1>6, SMT

LEMMA SmallNumber == \A v \in Nat : v < 256 => Len(IntBytes(v)) <= 1
BY SMT DEF IntBytes

(* An upper bound of what an option takes                                  *)
LEMMA PartBound ==
    ASSUME NEW p, DOMAIN p.options \subseteq Numbers, IsOptions(p.options),
           NEW k \in Numbers
    PROVE  /\ Part(p, k, End) \in Nat
           /\ k \notin DOMAIN p.options => Part(p, k, End) = 0
           /\ k \in DOMAIN p.options /\ IsText(k) =>
                /\ Len(p.options[k]) \in Nat
                /\ Part(p, k, End) <= Len(p.options[k]) + 3
                /\ Len(p.options[k]) < 269 => Part(p, k, End) <= Len(p.options[k]) + 2
                /\ Len(p.options[k]) < 13 => Part(p, k, End) <= Len(p.options[k]) + 1
           /\ k \in DOMAIN p.options /\ ~ IsText(k) =>
                /\ Part(p, k, End) <= 5
                /\ p.options[k] < 256 => Part(p, k, End) <= 3
                /\ k = ContentFormat /\ p.options[k] < 256 => Part(p, k, End) <= 2
<1>1. k \in Nat /\ 0 < k /\ k < End /\ (IsText(k) => k < 13) /\ End \in Nat
  <2>1. k \in Nat /\ 0 < k /\ k <= 60 /\ (IsText(k) <=> k = 8 \/ k = 11)
    BY NumberFacts, Zenon
  <2> QED BY <2>1, SMT DEF End
<1>2. Part(p, k, End) \in Nat
  BY <1>1, PartFacts, Zenon
<1>3. CASE k \notin DOMAIN p.options
  BY <1>2, <1>3, Zenon DEF Part
<1>4. CASE k \in DOMAIN p.options
  <2>1. PICK l \in Nat : l = Len(Field(p, k))
    BY <1>4, FieldFacts, Zenon
  <2>2. PICK e : e = k - Prev(p, k)
    BY Zenon
  <2>3. e \in Nat /\ e <= 60 /\ OptionHeader(e, l) \in Seq(Bytes)
    BY <1>4, <2>1, <2>2, ChunkFacts, Zenon
  <2>4. k < 13 => e < 13
    <3>1. Follows(p, Prev(p, k), k)
      BY PrevFacts, Zenon
    <3>2. Prev(p, k) \in {0} \cup DOMAIN p.options
      BY <3>1, Zenon DEF Follows
    <3>3. Prev(p, k) \in Nat
      BY <3>2, NumberFacts, SMT
    <3> QED BY <1>1, <2>2, <3>3, SMT
  <2>5. Part(p, k, End) = Len(OptionHeader(e, l)) + l
    <3>1. Part(p, k, End) = Len(Chunk(p, k))
      BY <1>1, <1>4, Zenon DEF Part
    <3>2. Chunk(p, k) = OptionHeader(e, l) \o Field(p, k)
      BY <2>1, <2>2, Zenon DEF Chunk
    <3>3. Field(p, k) \in Seq(Bytes)
      BY <1>4, FieldFacts, Zenon
    <3>4. Len(OptionHeader(e, l) \o Field(p, k)) = Len(OptionHeader(e, l)) + Len(Field(p, k))
      BY <2>3, <3>3, ConcatBytes, Zenon
    <3> QED BY <2>1, <3>1, <3>2, <3>4, Zenon
  <2>6. PICK h : h = Len(OptionHeader(e, l))
    BY Zenon
  <2>7. /\ h \in Nat /\ h <= 3 /\ (l < 13 => h <= 2)
        /\ (e < 13 /\ l < 13 => h = 1) /\ (e < 13 /\ l < 269 => h <= 2)
    BY <2>1, <2>3, <2>6, HeaderLength, Zenon
  <2>8. CASE IsText(k)
    <3>1. l = Len(p.options[k])
      BY <1>4, <2>1, <2>8, FieldFacts, Zenon
    <3>2. Part(p, k, End) = h + l
      BY <2>5, <2>6, Zenon
    <3>3. e < 13
      BY <1>1, <2>4, <2>8, Zenon
    <3>4. /\ h + l <= l + 3
          /\ l < 269 => h + l <= l + 2
          /\ l < 13 => h + l <= l + 1
      BY <2>7, <3>3, SMT
    <3> QED BY <1>2, <1>4, <2>8, <3>1, <3>2, <3>4, Zenon
  <2>9. CASE ~ IsText(k)
    <3>1. l <= 3
      BY <1>4, <2>1, <2>9, FieldFacts, Zenon
    <3>2. ASSUME p.options[k] < 256 PROVE l <= 1
      <4>1. PICK v \in Values : v = p.options[k]
        BY <1>4, <2>9, Zenon DEF IsOptions
      <4>2. v \in Nat /\ v < 256
        BY <3>2, <4>1, SMT DEF Values
      <4>3. Field(p, k) = IntBytes(v)
        BY <2>9, <4>1, Zenon DEF Field, ValueBytes
      <4> QED BY <2>1, <4>2, <4>3, SmallNumber, Zenon
    <3>3. k = ContentFormat => k < 13
      BY SMT DEF ContentFormat
    <3>4. Part(p, k, End) = h + l
      BY <2>5, <2>6, Zenon
    <3> QED BY <1>2, <1>4, <2>1, <2>3, <2>4, <3>4, <2>7, <2>9, <3>1, <3>2, <3>3, SMT
  <2> QED BY <2>8, <2>9, Zenon
<1> QED BY <1>3, <1>4, Zenon

LEMMA TextFacts ==
    ASSUME NEW n \in Nat
    PROVE  Text(n) \in Seq(Bytes) /\ Len(Text(n)) = n
<1>1. 97 \in Bytes
  BY ByteFacts, SMT
<1> QED BY <1>1, SMT DEF Text

(* What the properties need to know of a message of a transfer with names  *)
(* of n bytes                                                              *)
Bounded(p, n) ==
    /\ TextLength(p, LocationPath) + TextLength(p, UriPath) + Len(p.payload)
           <= ReceiveBuffer - 18 => Size(p) <= ReceiveBuffer /\ Proper(p)
    /\ n <= ReceiveBuffer - 25 => Start(p, End) <= ReceiveBuffer /\ Proper(p)

LEMMA BlockFacts ==
    ASSUME NEW i \in Nat \ {0}, NEW m \in {0, 1}
    PROVE  /\ BlockNum(EncodeBlock(i - 1, m)) = i - 1
           /\ EncodeBlock(i - 1, m) \in Nat
           /\ i <= MaxTotal => EncodeBlock(i - 1, m) \in Values
           /\ i = 1 => EncodeBlock(i - 1, m) < 256
<1>1. PICK a \in Nat : a = i - 1
  BY SMT
<1>2. (16 * a + 8 * m + 6) \div 16 = a
  BY SMT
<1>3. EncodeBlock(a, m) = 16 * a + 8 * m + 6
  BY SMT DEF EncodeBlock, Szx
<1>4. i <= MaxTotal => EncodeBlock(a, m) \in Values
  BY <1>1, <1>3, SMT DEF MaxTotal, Values
<1>5. i = 1 => EncodeBlock(a, m) < 256
  BY <1>1, <1>3, SMT
<1>6. EncodeBlock(a, m) \in Nat
  BY <1>3, SMT
<1>7. BlockNum(EncodeBlock(a, m)) = a
  BY <1>2, <1>3, SMT DEF BlockNum
<1> QED BY <1>1, <1>4, <1>5, <1>6, <1>7, Zenon

LEMMA MessageIdFacts ==
    ASSUME NEW n \in Nat
    PROVE  MessageId(n) \in 0 .. MidLimit - 1 /\ MessageId(n) \in Nat /\ MessageId(n) < MidLimit
<1>1. n % MidLimit \in Nat /\ n % MidLimit < MidLimit
  BY SMT DEF MidLimit
<1> QED BY <1>1, MidFacts, Zenon DEF MessageId

LEMMA PacketType ==
    ASSUME NEW type \in {CON, ACK}, NEW code \in Bytes, NEW mid \in 0 .. MidLimit - 1,
           NEW options, DOMAIN options \subseteq Numbers, IsOptions(options),
           NEW payload \in Seq(Bytes)
    PROVE  Sendable(Packet(type, code, mid, options, payload))
<1> DEFINE p == Packet(type, code, mid, options, payload)
<1>1. p = [version |-> 1, type |-> type, token |-> Token, code |-> code,
           mid |-> mid, options |-> options, payload |-> payload]
  BY Zenon DEF Packet
<1> HIDE DEF p
<1>2. p.options = options
  BY <1>1, SMT
<1>3. p \in [version : {1}, type : {CON, ACK}, token : {Token}, code : Bytes,
             mid : 0 .. MidLimit - 1, options : {options}, payload : Seq(Bytes)]
  BY <1>1, SMT
<1>4. Sendable(p)
  BY <1>2, <1>3, Zenon DEF Sendable
<1> QED BY <1>4, Zenon DEF p

LEMMA OptionSet ==
    ASSUME NEW a, NEW b, NEW c, NEW e, NEW extra
    PROVE  \A d : d \in {a, b, c} \cup (IF extra THEN {e} ELSE {})
                     <=> d = a \/ d = b \/ d = c \/ (extra /\ d = e)
BY SMT

(* The parts of a message, each bounded by its option                      *)
LEMMA StartSum ==
    ASSUME NEW p, DOMAIN p.options \subseteq Numbers, IsOptions(p.options)
    PROVE  /\ Start(p, End) = 5 + Part(p, LocationPath, End) + Part(p, UriPath, End)
                 + Part(p, ContentFormat, End) + Part(p, Block2, End)
                 + Part(p, Block1, End) + Part(p, Size2, End) + Part(p, Size1, End)
           /\ Part(p, LocationPath, End) \in Nat /\ Part(p, UriPath, End) \in Nat
           /\ Part(p, ContentFormat, End) \in Nat /\ Part(p, Block2, End) \in Nat
           /\ Part(p, Block1, End) \in Nat /\ Part(p, Size2, End) \in Nat
           /\ Part(p, Size1, End) \in Nat
<1>1. /\ LocationPath \in Numbers /\ UriPath \in Numbers /\ ContentFormat \in Numbers
      /\ Block2 \in Numbers /\ Block1 \in Numbers /\ Size2 \in Numbers /\ Size1 \in Numbers
  BY Zenon DEF Numbers
<1>2. \A k \in Numbers : Part(p, k, End) \in Nat
  BY PartBound, Zenon
<1> QED BY <1>1, <1>2, Zenon DEF Start

(* The options are different ones, two of them texts.                      *)
LEMMA Distinct ==
    /\ LocationPath = 8 /\ UriPath = 11 /\ ContentFormat = 12 /\ Block2 = 23
    /\ Block1 = 27 /\ Size2 = 28 /\ Size1 = 60
    /\ IsText(LocationPath) /\ IsText(UriPath)
    /\ ~ IsText(ContentFormat) /\ ~ IsText(Block2) /\ ~ IsText(Block1)
    /\ ~ IsText(Size2) /\ ~ IsText(Size1)
BY SMT DEF IsText, LocationPath, UriPath, ContentFormat, Block1, Block2, Size2, Size1

LEMMA TextNumbers == \A d \in Numbers : IsText(d) => d = LocationPath \/ d = UriPath
BY SMT DEF Numbers, IsText, LocationPath, UriPath, ContentFormat, Block1, Block2,
           Size2, Size1

LEMMA InNumbers ==
    /\ LocationPath \in Numbers /\ UriPath \in Numbers /\ ContentFormat \in Numbers
    /\ Block2 \in Numbers /\ Block1 \in Numbers /\ Size2 \in Numbers /\ Size1 \in Numbers
BY Zenon DEF Numbers

LEMMA SmallValues == \A v \in Nat : v < 256 => v \in Values
BY SMT DEF Values

(* A block of an upload or a download                                      *)
LEMMA BlockShape ==
    ASSUME NEW code, NEW n \in Nat \ {0}, NEW total \in Nat \ {0}, total <= MaxTotal,
           NEW i \in Nat \ {0}, i <= total,
           NEW p, p = BlockMessage(code, n, total, i)
    PROVE  /\ Sendable(p) /\ Bounded(p, n)
           /\ p.type = CON /\ p.code = CONTENT /\ p.mid = MessageId(i)
           /\ OptionCode(p) = (IF code = PUT THEN Block1 ELSE Block2)
           /\ BlockId(p) = i - 1
<1> DEFINE option == IF code = PUT THEN Block1 ELSE Block2
           size == IF code = PUT THEN Size1 ELSE Size2
           D == {LocationPath, ContentFormat, option} \cup (IF i = 1 THEN {size} ELSE {})
           block == EncodeBlock(i - 1, More(i, total))
           o == [d \in D |-> IF d = LocationPath THEN Text(n)
                             ELSE IF d = ContentFormat THEN Octets
                             ELSE IF d = option THEN block ELSE total]
           content == Text(IF i = total THEN 1 ELSE BlockSize)
<1>1. p = Packet(CON, CONTENT, MessageId(0 + i), o, content)
  BY Zenon DEF BlockMessage
<1>2. /\ block \in Nat /\ block \in Values /\ BlockNum(block) = i - 1
      /\ i = 1 => block < 256
  <2>1. PICK m \in {0, 1} : m = More(i, total)
    BY Zenon DEF More
  <2>2. PICK b : b = EncodeBlock(i - 1, m)
    BY Zenon
  <2>3. i <= MaxTotal
    BY SMT DEF MaxTotal
  <2>4. /\ b \in Nat /\ b \in Values /\ BlockNum(b) = i - 1
        /\ i = 1 => b < 256
    BY <2>2, <2>3, BlockFacts, Zenon
  <2>5. block = b
    BY <2>1, <2>2, Zenon
  <2> HIDE DEF block
  <2> QED BY <2>4, <2>5, Zenon
<1>3. /\ total \in Nat /\ total >= 1 /\ total \in Values
  BY SMT DEF MaxTotal, Values
<1>4. Text(n) \in Seq(Bytes) /\ Len(Text(n)) = n
  BY TextFacts, SMT
<1>5. content \in Seq(Bytes) /\ Len(content) = IF i = total THEN 1 ELSE BlockSize
  <2>1. 1 \in Nat /\ BlockSize \in Nat
    BY SMT DEF BlockSize
  <2>2. /\ Text(1) \in Seq(Bytes) /\ Len(Text(1)) = 1
        /\ Text(BlockSize) \in Seq(Bytes) /\ Len(Text(BlockSize)) = BlockSize
    BY <2>1, TextFacts, Zenon
  <2> QED BY <2>2, Zenon
<1> HIDE DEF block, content
<1>6. DOMAIN o = D /\ D \subseteq Numbers
  BY InNumbers, Zenon
<1>7. /\ o[LocationPath] = Text(n) /\ o[ContentFormat] = Octets /\ o[option] = block
      /\ i = 1 => o[size] = total
  BY Distinct, SMT
<1>8. IsOptions(o)
  <2>1. ASSUME NEW d \in D
        PROVE  IF IsText(d) THEN o[d] \in Seq(Bytes) ELSE o[d] \in Values
    <3>1. d = LocationPath \/ d = ContentFormat \/ d = option \/ (i = 1 /\ d = size)
      BY OptionSet, Zenon
    <3>2. CASE d = LocationPath
      BY <1>4, <1>7, <3>2, Distinct, Zenon
    <3>3. CASE d = ContentFormat
      <4>1. Octets \in Values
        BY SMT DEF Octets, Values
      <4> QED BY <1>7, <3>3, <4>1, Distinct, Zenon
    <3>4. CASE d = option
      <4>1. ~ IsText(option)
        BY Distinct, Zenon
      <4> QED BY <1>2, <1>7, <3>4, <4>1, Zenon
    <3>5. CASE d = size /\ i = 1
      <4>1. ~ IsText(size)
        BY Distinct, Zenon
      <4> QED BY <1>3, <1>7, <3>5, <4>1, Zenon
    <3> QED BY <3>1, <3>2, <3>3, <3>4, <3>5, Zenon
  <2>2. o = [d \in DOMAIN o |-> o[d]]
    BY Zenon
  <2> QED BY <1>6, <2>1, <2>2, Zenon DEF IsOptions
<1> HIDE DEF o
<1>9. MessageId(0 + i) = MessageId(i) /\ MessageId(i) \in 0 .. MidLimit - 1
  <2>1. 0 + i = i /\ i \in Nat
    BY SMT
  <2> QED BY <2>1, MessageIdFacts, Zenon
<1>10. CON \in {CON, ACK} /\ CONTENT \in Bytes
  BY ByteFacts, SMT DEF CONTENT
<1>11. /\ Sendable(p) /\ p.options = o /\ p.payload = content
       /\ p.type = CON /\ p.code = CONTENT /\ p.mid = MessageId(i)
  <2>1. PICK mid \in 0 .. MidLimit - 1 : mid = MessageId(0 + i) /\ mid = MessageId(i)
    BY <1>9, Zenon
  <2>2. p = Packet(CON, CONTENT, mid, o, content) /\ DOMAIN o \subseteq Numbers
    BY <1>1, <1>6, <2>1, Zenon
  <2>3. /\ p.options = o /\ p.payload = content
        /\ p.type = CON /\ p.code = CONTENT /\ p.mid = mid
    BY <2>2, SMT DEF Packet
  <2>4. Sendable(p)
    BY <1>5, <1>8, <1>10, <2>1, <2>2, PacketType, Zenon
  <2> QED BY <2>1, <2>3, <2>4, Zenon
<1>12. OptionCode(p) = option /\ BlockId(p) = i - 1
  <2>1. /\ option \in DOMAIN p.options
        /\ code # PUT => Block1 \notin DOMAIN p.options
    BY <1>6, <1>11, Distinct, SMT
  <2>2. OptionCode(p) = option
    BY <2>1, Zenon DEF OptionCode
  <2>3. option # NoBlock
    BY Distinct, SMT DEF NoBlock
  <2> QED BY <1>2, <1>7, <1>11, <2>2, <2>3, Zenon DEF BlockId
<1>13. DOMAIN p.options = D /\ DOMAIN p.options \subseteq Numbers /\ IsOptions(p.options)
  BY <1>6, <1>8, <1>11, Zenon
<1>14. /\ TextLength(p, LocationPath) = n /\ TextLength(p, UriPath) = 0
  <2>1. LocationPath \in DOMAIN p.options /\ UriPath \notin DOMAIN p.options
    BY <1>13, Distinct, SMT
  <2> QED BY <1>4, <1>7, <1>11, <2>1, Zenon DEF TextLength
<1>15. /\ Part(p, LocationPath, End) <= n + 3
       /\ n < 269 => Part(p, LocationPath, End) <= n + 2
       /\ Part(p, UriPath, End) = 0 /\ Part(p, ContentFormat, End) <= 2
       /\ Part(p, Block2, End) + Part(p, Block1, End) <= IF i = 1 THEN 3 ELSE 5
       /\ Part(p, Size2, End) + Part(p, Size1, End)
             <= IF i # 1 THEN 0 ELSE IF total < 256 THEN 3 ELSE 5
  <2>1. /\ Part(p, LocationPath, End) <= n + 3
        /\ n < 269 => Part(p, LocationPath, End) <= n + 2
    <3>1. LocationPath \in DOMAIN p.options /\ Len(p.options[LocationPath]) = n
      BY <1>4, <1>7, <1>11, <1>13, Zenon
    <3>2. LET l == Len(p.options[LocationPath]) IN
          /\ Part(p, LocationPath, End) <= l + 3
          /\ l < 269 => Part(p, LocationPath, End) <= l + 2
      BY <1>13, <3>1, Distinct, InNumbers, PartBound, Zenon
    <3> QED BY <3>1, <3>2, Zenon
  <2>2. Part(p, UriPath, End) = 0
    <3>1. UriPath \notin DOMAIN p.options
      BY <1>13, Distinct, SMT
    <3> QED BY <1>13, <3>1, InNumbers, PartBound, Zenon
  <2>3. Part(p, ContentFormat, End) <= 2
    <3>1. ContentFormat \in DOMAIN p.options /\ p.options[ContentFormat] < 256
      BY <1>7, <1>11, <1>13, SMT DEF Octets
    <3> QED BY <1>13, <3>1, Distinct, InNumbers, PartBound, Zenon
  <2>4. /\ Part(p, option, End) <= 5 /\ (i = 1 => Part(p, option, End) <= 3)
    <3>1. /\ option \in DOMAIN p.options /\ option \in Numbers /\ ~ IsText(option)
          /\ p.options[option] = block
      BY <1>7, <1>11, <1>13, Distinct, InNumbers, Zenon
    <3> QED BY <1>2, <1>13, <3>1, PartBound, Zenon
  <2>5. Part(p, IF code = PUT THEN Block2 ELSE Block1, End) = 0
    <3>1. (IF code = PUT THEN Block2 ELSE Block1) \notin DOMAIN p.options
      BY <1>13, Distinct, SMT
    <3>2. (IF code = PUT THEN Block2 ELSE Block1) \in Numbers
      BY InNumbers, Zenon
    <3> QED BY <1>13, <3>1, <3>2, PartBound, Zenon
  <2>6. /\ i = 1 /\ total < 256 => Part(p, size, End) <= 3
        /\ i = 1 => Part(p, size, End) <= 5
        /\ i # 1 => Part(p, size, End) = 0
    <3>1. size \in Numbers /\ ~ IsText(size)
      BY Distinct, InNumbers, Zenon
    <3>2. CASE i = 1
      <4>1. size \in DOMAIN p.options /\ p.options[size] = total
        BY <1>7, <1>11, <1>13, <3>2, Zenon
      <4> QED BY <1>13, <3>1, <3>2, <4>1, PartBound, Zenon
    <3>3. CASE i # 1
      <4>1. size \notin DOMAIN p.options
        BY <1>13, <3>3, Distinct, SMT
      <4> QED BY <1>13, <3>1, <3>3, <4>1, PartBound, Zenon
    <3> QED BY <3>2, <3>3, Zenon
  <2>7. Part(p, IF code = PUT THEN Size2 ELSE Size1, End) = 0
    <3>1. (IF code = PUT THEN Size2 ELSE Size1) \notin DOMAIN p.options
      BY <1>13, Distinct, SMT
    <3>2. (IF code = PUT THEN Size2 ELSE Size1) \in Numbers
      BY InNumbers, Zenon
    <3> QED BY <1>13, <3>1, <3>2, PartBound, Zenon
  <2>8. Part(p, Block2, End) + Part(p, Block1, End) <= IF i = 1 THEN 3 ELSE 5
    <3>1. Part(p, Block2, End) \in Nat /\ Part(p, Block1, End) \in Nat
      BY <1>13, StartSum, Zenon
    <3> QED BY <3>1, <2>4, <2>5, SMT
  <2>9. Part(p, Size2, End) + Part(p, Size1, End)
             <= IF i # 1 THEN 0 ELSE IF total < 256 THEN 3 ELSE 5
    <3>1. Part(p, Size2, End) \in Nat /\ Part(p, Size1, End) \in Nat
      BY <1>13, StartSum, Zenon
    <3> QED BY <3>1, <2>6, <2>7, SMT
  <2> QED BY <2>1, <2>2, <2>3, <2>8, <2>9, Zenon
<1>16. PICK l \in Nat, c \in Nat, b \in Nat, s \in Nat :
          /\ Start(p, End) = 5 + l + c + b + s
          /\ l <= n + 3 /\ (n < 269 => l <= n + 2) /\ c <= 2
          /\ b <= (IF i = 1 THEN 3 ELSE 5)
          /\ s <= (IF i # 1 THEN 0 ELSE IF total < 256 THEN 3 ELSE 5)
  <2>1. PICK l \in Nat, c \in Nat : l = Part(p, LocationPath, End) /\ c = Part(p, ContentFormat, End)
    BY <1>13, StartSum, Zenon
  <2>2. PICK b \in Nat, s \in Nat : /\ b = Part(p, Block2, End) + Part(p, Block1, End)
                                    /\ s = Part(p, Size2, End) + Part(p, Size1, End)
    <3>1. /\ Part(p, Block2, End) \in Nat /\ Part(p, Block1, End) \in Nat
          /\ Part(p, Size2, End) \in Nat /\ Part(p, Size1, End) \in Nat
      BY <1>13, StartSum, Zenon
    <3> QED BY <3>1, SMT
  <2>3. /\ Part(p, Block2, End) \in Nat /\ Part(p, Block1, End) \in Nat
        /\ Part(p, Size2, End) \in Nat /\ Part(p, Size1, End) \in Nat
        /\ Start(p, End) = 5 + Part(p, LocationPath, End) + Part(p, UriPath, End)
                 + Part(p, ContentFormat, End) + Part(p, Block2, End)
                 + Part(p, Block1, End) + Part(p, Size2, End) + Part(p, Size1, End)
    BY <1>13, StartSum, Zenon
  <2>4. Start(p, End) = 5 + l + c + b + s
    BY <1>15, <2>1, <2>2, <2>3, SMT
  <2> QED BY <1>15, <2>1, <2>2, <2>4, Zenon
<1>17. ASSUME n <= 65804 PROVE Proper(p)
  <2>1. ASSUME NEW d \in DOMAIN p.options, IsText(d) PROVE Len(p.options[d]) <= 65804
    <3>1. d = LocationPath
      BY <1>13, <2>1, Distinct, Zenon
    <3> QED BY <1>4, <1>7, <1>11, <1>17, <3>1, SMT
  <2> QED BY <2>1, SMT DEF Proper
<1>18. Bounded(p, n)
  <2>1. PICK e : e = Len(p.payload) /\ e = IF i = total THEN 1 ELSE BlockSize
    BY <1>5, <1>11, Zenon
  <2>2. Size(p) = Start(p, End) + 1 + e
    BY <2>1, Zenon DEF Size
  <2>3. ASSUME n + 0 + e <= ReceiveBuffer - 18
        PROVE  Size(p) <= ReceiveBuffer /\ n <= 65804
    BY <1>3, <1>16, <2>1, <2>2, <2>3, SMT DEF ReceiveBuffer, BlockSize
  <2>4. ASSUME n <= ReceiveBuffer - 25
        PROVE  Start(p, End) <= ReceiveBuffer /\ n <= 65804
    BY <1>3, <1>16, <2>4, SMT DEF ReceiveBuffer
  <2>5. TextLength(p, LocationPath) + TextLength(p, UriPath) + Len(p.payload) = n + 0 + e
    BY <1>14, <2>1, Zenon
  <2> QED BY <1>17, <2>3, <2>4, <2>5, SMT DEF Bounded
<1> QED BY <1>11, <1>12, <1>18, Zenon

(* A path of a listing *)
LEMMA PathShape ==
    ASSUME NEW n \in Nat \ {0}, NEW total, NEW i \in Nat \ {0}, i <= MaxTotal,
           NEW p, p = PathMessage(n, total, i)
    PROVE  /\ Sendable(p) /\ Bounded(p, n)
           /\ p.type = CON /\ p.code = CONTENT /\ p.mid = MessageId(i)
           /\ OptionCode(p) = Block2 /\ BlockId(p) = i - 1
<1> DEFINE D == {ContentFormat, Block2}
           block == EncodeBlock(i - 1, More(i, total))
           o == [d \in D |-> IF d = ContentFormat THEN Json ELSE block]
<1>1. p = Packet(CON, CONTENT, MessageId(i), o, Text(n))
  BY Zenon DEF PathMessage
<1>2. block \in Values /\ BlockNum(block) = i - 1
  <2>1. PICK m \in {0, 1} : m = More(i, total)
    BY Zenon DEF More
  <2>2. PICK b : b = EncodeBlock(i - 1, m)
    BY Zenon
  <2>4. b \in Values /\ BlockNum(b) = i - 1
    BY <2>2, BlockFacts, Zenon
  <2>5. block = b
    BY <2>1, <2>2, Zenon
  <2> HIDE DEF block
  <2> QED BY <2>4, <2>5, Zenon
<1>4. Text(n) \in Seq(Bytes) /\ Len(Text(n)) = n
  BY TextFacts, SMT
<1> HIDE DEF block
<1>6. DOMAIN o = D /\ D \subseteq Numbers
  BY InNumbers, Zenon
<1>7. o[ContentFormat] = Json /\ o[Block2] = block
  BY Distinct, SMT
<1>8. IsOptions(o)
  <2>1. ASSUME NEW d \in D
        PROVE  IF IsText(d) THEN o[d] \in Seq(Bytes) ELSE o[d] \in Values
    <3>1. Json \in Values
      BY SMT DEF Json, Values
    <3>2. CASE d = ContentFormat
      BY <1>7, <3>1, <3>2, Distinct, Zenon
    <3>3. CASE d = Block2
      BY <1>2, <1>7, <3>3, Distinct, Zenon
    <3> QED BY <3>2, <3>3, Zenon
  <2>2. o = [d \in DOMAIN o |-> o[d]]
    BY Zenon
  <2> QED BY <1>6, <2>1, <2>2, Zenon DEF IsOptions
<1> HIDE DEF o
<1>9. MessageId(i) \in 0 .. MidLimit - 1
  BY MessageIdFacts, SMT
<1>10. CON \in {CON, ACK} /\ CONTENT \in Bytes
  BY ByteFacts, SMT DEF CONTENT
<1>11. /\ Sendable(p) /\ p.options = o /\ p.payload = Text(n)
       /\ p.type = CON /\ p.code = CONTENT /\ p.mid = MessageId(i)
  <2>1. DOMAIN o \subseteq Numbers
    BY <1>6, Zenon
  <2>2. /\ p.options = o /\ p.payload = Text(n)
        /\ p.type = CON /\ p.code = CONTENT /\ p.mid = MessageId(i)
    BY <1>1, SMT DEF Packet
  <2>3. Sendable(p)
    BY <1>1, <1>4, <1>8, <1>9, <1>10, <2>1, PacketType, Zenon
  <2> QED BY <2>2, <2>3, Zenon
<1>12. OptionCode(p) = Block2 /\ BlockId(p) = i - 1
  <2>1. Block2 \in DOMAIN p.options /\ Block1 \notin DOMAIN p.options
    BY <1>6, <1>11, Distinct, SMT
  <2>2. OptionCode(p) = Block2
    BY <2>1, Zenon DEF OptionCode
  <2>3. Block2 # NoBlock
    BY Distinct, SMT DEF NoBlock
  <2> QED BY <1>2, <1>7, <1>11, <2>2, <2>3, Zenon DEF BlockId
<1>13. DOMAIN p.options = D /\ DOMAIN p.options \subseteq Numbers /\ IsOptions(p.options)
  BY <1>6, <1>8, <1>11, Zenon
<1>14. \A k \in Numbers \ D : Part(p, k, End) = 0
  BY <1>13, PartBound, Zenon
<1>15. /\ LocationPath \notin D /\ UriPath \notin D /\ Block1 \notin D
       /\ Size2 \notin D /\ Size1 \notin D
  BY Distinct, SMT
<1>16. Start(p, End) <= 15 /\ Start(p, End) \in Nat
  <2>1. Part(p, ContentFormat, End) <= 5 /\ Part(p, Block2, End) <= 5
    BY <1>13, Distinct, InNumbers, PartBound, Zenon
  <2>2. /\ Part(p, LocationPath, End) = 0 /\ Part(p, UriPath, End) = 0
        /\ Part(p, Block1, End) = 0 /\ Part(p, Size2, End) = 0 /\ Part(p, Size1, End) = 0
    BY <1>14, <1>15, InNumbers, Zenon
  <2>3. PICK c \in Nat, b \in Nat : c = Part(p, ContentFormat, End) /\ b = Part(p, Block2, End)
    BY <1>13, StartSum, Zenon
  <2>4. Start(p, End) = 5 + 0 + 0 + c + b + 0 + 0 + 0
    BY <1>13, <2>2, <2>3, StartSum, Zenon
  <2> QED BY <2>1, <2>3, <2>4, SMT
<1>17. Proper(p)
  <2>1. ASSUME NEW d \in DOMAIN p.options PROVE ~ IsText(d)
    BY <1>13, Distinct, Zenon
  <2> QED BY <2>1, SMT DEF Proper
<1>18. Bounded(p, n)
  <2>1. TextLength(p, LocationPath) = 0 /\ TextLength(p, UriPath) = 0
    BY <1>13, <1>15, Zenon DEF TextLength
  <2>2. PICK e \in Nat : e = Len(p.payload)
    BY <1>4, <1>11, SMT
  <2>3. Size(p) = Start(p, End) + 1 + e
    BY <2>2, Zenon DEF Size
  <2>4. 0 + 0 + e <= ReceiveBuffer - 18 => Size(p) <= ReceiveBuffer
    BY <1>16, <2>3, SMT DEF ReceiveBuffer
  <2>5. Start(p, End) <= ReceiveBuffer
    BY <1>16, SMT DEF ReceiveBuffer
  <2> QED BY <1>17, <2>1, <2>2, <2>4, <2>5, Zenon DEF Bounded
<1> QED BY <1>11, <1>12, <1>18, Zenon

(* A request of the client                                                 *)
LEMMA RequestShape ==
    ASSUME NEW code \in {GET, PUT, POST, DELETE, FETCH}, NEW n \in Nat \ {0},
           NEW p, p = RequestOf(code, n)
    PROVE  /\ Sendable(p) /\ Bounded(p, n)
           /\ p.type = CON /\ p.code = code /\ p.mid = 0 /\ IsMethod(p.code)
           /\ OptionCode(p) = (IF code = PUT THEN Block1
                               ELSE IF code \in {GET, FETCH} THEN Block2 ELSE NoBlock)
           /\ BlockId(p) = (IF code \in {PUT, GET, FETCH} THEN 0 ELSE NoBlock)
<1> DEFINE D == OptionsOf(code)
           o == [d \in D |-> IF d = LocationPath THEN Text(n)
                             ELSE IF d = UriPath THEN Text(11)
                             ELSE IF d = ContentFormat THEN Json ELSE Szx]
           body == IF code \in {PUT, POST} THEN Text(20) ELSE <<>>
<1>1. p = Packet(CON, code, 0, o, body)
  BY Zenon DEF RequestOf
<1>2. /\ GET = 1 /\ POST = 2 /\ PUT = 3 /\ DELETE = 4 /\ FETCH = 5
  BY SMT DEF GET, POST, PUT, DELETE, FETCH
<1>3. \A d : d \in D <=> \/ d = UriPath
                         \/ d = LocationPath /\ code # FETCH
                         \/ d = ContentFormat /\ code \in {PUT, POST}
                         \/ d = Block2 /\ code \in {GET, FETCH}
                         \/ d = Block1 /\ code = PUT
  BY SMT DEF OptionsOf
<1> HIDE DEF D
<1>4. /\ Text(n) \in Seq(Bytes) /\ Len(Text(n)) = n
      /\ Text(11) \in Seq(Bytes) /\ Len(Text(11)) = 11
  <2>1. n \in Nat /\ 11 \in Nat
    BY SMT
  <2> QED BY <2>1, TextFacts, Zenon
<1>5. body \in Seq(Bytes) /\ Len(body) \in Nat
  <2>1. Text(20) \in Seq(Bytes) /\ Len(Text(20)) = 20 /\ 20 \in Nat
    <3>1. 20 \in Nat
      BY SMT
    <3> QED BY <3>1, TextFacts, Zenon
  <2>2. <<>> \in Seq(Bytes) /\ Len(<<>>) = 0
    BY SMT
  <2>3. 0 \in Nat
    BY SMT
  <2> QED BY <2>1, <2>2, <2>3, Zenon
<1> HIDE DEF body
<1>6. DOMAIN o = D /\ D \subseteq Numbers
  BY <1>3, InNumbers, Zenon
<1>7. /\ LocationPath \in D => o[LocationPath] = Text(n)
      /\ UriPath \in D => o[UriPath] = Text(11)
      /\ ContentFormat \in D => o[ContentFormat] = Json
      /\ Block2 \in D => o[Block2] = Szx
      /\ Block1 \in D => o[Block1] = Szx
  BY Distinct, SMT
<1>8. IsOptions(o)
  <2>1. ASSUME NEW d \in D
        PROVE  IF IsText(d) THEN o[d] \in Seq(Bytes) ELSE o[d] \in Values
    <3>1. Json \in Values /\ Szx \in Values
      BY SMT DEF Json, Szx, Values
    <3>2. CASE d = LocationPath
      BY <1>4, <1>7, <2>1, <3>2, Distinct, Zenon
    <3>3. CASE d = UriPath
      BY <1>4, <1>7, <2>1, <3>3, Distinct, Zenon
    <3>4. CASE d = ContentFormat
      BY <1>7, <2>1, <3>1, <3>4, Distinct, Zenon
    <3>5. CASE d = Block2
      BY <1>7, <2>1, <3>1, <3>5, Distinct, Zenon
    <3>6. CASE d = Block1
      BY <1>7, <2>1, <3>1, <3>6, Distinct, Zenon
    <3> QED BY <1>3, <2>1, <3>2, <3>3, <3>4, <3>5, <3>6, Zenon
  <2>2. o = [d \in DOMAIN o |-> o[d]]
    BY Zenon
  <2> QED BY <1>6, <2>1, <2>2, Zenon DEF IsOptions
<1> HIDE DEF o
<1>9. CON \in {CON, ACK} /\ code \in Bytes /\ 0 \in 0 .. MidLimit - 1
  <2>1. code \in Nat /\ code < 256
    BY <1>2, SMT
  <2>2. 0 \in Nat
    BY SMT
  <2> QED BY <2>1, <2>2, ByteFacts, MidFacts, Zenon
<1>11. /\ Sendable(p) /\ p.options = o /\ p.payload = body
       /\ p.type = CON /\ p.code = code /\ p.mid = 0
  <2>1. DOMAIN o \subseteq Numbers
    BY <1>6, Zenon
  <2>2. /\ p.options = o /\ p.payload = body
        /\ p.type = CON /\ p.code = code /\ p.mid = 0
    BY <1>1, SMT DEF Packet
  <2>3. Sendable(p)
    BY <1>1, <1>5, <1>8, <1>9, <2>1, PacketType, Zenon
  <2> QED BY <2>2, <2>3, Zenon
<1>12. /\ OptionCode(p) = (IF code = PUT THEN Block1
                           ELSE IF code \in {GET, FETCH} THEN Block2 ELSE NoBlock)
       /\ BlockId(p) = (IF code \in {PUT, GET, FETCH} THEN 0 ELSE NoBlock)
  <2>1. DOMAIN p.options = D
    BY <1>6, <1>11, Zenon
  <2>2. /\ Block1 \in D <=> code = PUT
        /\ Block2 \in D <=> code \in {GET, FETCH}
    BY <1>3, Distinct, SMT
  <2>3. OptionCode(p) = (IF code = PUT THEN Block1
                         ELSE IF code \in {GET, FETCH} THEN Block2 ELSE NoBlock)
    BY <2>1, <2>2, Zenon DEF OptionCode
  <2>4. Block1 # NoBlock /\ Block2 # NoBlock
    BY Distinct, SMT DEF NoBlock
  <2>5. BlockNum(Szx) = 0
    BY SMT DEF BlockNum, Szx
  <2>6. CASE code = PUT
    <3>1. OptionCode(p) = Block1 /\ p.options[Block1] = Szx
      BY <1>7, <1>11, <2>2, <2>3, <2>6, Zenon
    <3> QED BY <2>3, <2>4, <2>5, <2>6, <3>1, Zenon DEF BlockId
  <2>7. CASE code \in {GET, FETCH} /\ code # PUT
    <3>1. OptionCode(p) = Block2 /\ p.options[Block2] = Szx
      BY <1>7, <1>11, <2>2, <2>3, <2>7, Zenon
    <3> QED BY <2>3, <2>4, <2>5, <2>7, <3>1, Zenon DEF BlockId
  <2>8. CASE code \notin {PUT, GET, FETCH}
    <3>1. OptionCode(p) = NoBlock
      BY <2>3, <2>8, Zenon
    <3> QED BY <2>3, <2>8, <3>1, Zenon DEF BlockId
  <2> QED BY <2>6, <2>7, <2>8, Zenon
<1>13. DOMAIN p.options = D /\ DOMAIN p.options \subseteq Numbers /\ IsOptions(p.options)
  BY <1>6, <1>8, <1>11, Zenon
<1>14. \A k \in Numbers \ D : Part(p, k, End) = 0
  BY <1>13, PartBound, Zenon
<1>15. PICK l \in Nat, u \in Nat, c \in Nat, b \in Nat :
          /\ Start(p, End) = 5 + l + u + c + b
          /\ l <= TextLength(p, LocationPath) + 3
          /\ u <= TextLength(p, UriPath) + 1 /\ c <= 2 /\ b <= 3
          /\ TextLength(p, LocationPath) \in {0, n} /\ TextLength(p, UriPath) = 11
  <2>1. PICK l \in Nat, u \in Nat, c \in Nat :
          /\ l = Part(p, LocationPath, End) /\ u = Part(p, UriPath, End)
          /\ c = Part(p, ContentFormat, End)
    BY <1>13, StartSum, Zenon
  <2>2. PICK b \in Nat : b = Part(p, Block2, End) + Part(p, Block1, End)
    <3>1. Part(p, Block2, End) \in Nat /\ Part(p, Block1, End) \in Nat
      BY <1>13, StartSum, Zenon
    <3> QED BY <3>1, SMT
  <2>3. Part(p, Size2, End) = 0 /\ Part(p, Size1, End) = 0
    <3>1. Size2 \notin D /\ Size1 \notin D
      BY <1>3, Distinct, SMT
    <3> QED BY <1>14, <3>1, InNumbers, Zenon
  <2>4. Start(p, End) = 5 + l + u + c + b
    <3>1. Part(p, Block2, End) \in Nat /\ Part(p, Block1, End) \in Nat
      BY <1>13, StartSum, Zenon
    <3>2. Start(p, End) = 5 + l + u + c + Part(p, Block2, End) + Part(p, Block1, End) + 0 + 0
      BY <1>13, <2>1, <2>3, StartSum, Zenon
    <3> QED BY <2>2, <3>1, <3>2, SMT
  <2>5. TextLength(p, LocationPath) \in {0, n} /\ l <= TextLength(p, LocationPath) + 3
    <3>1. CASE LocationPath \in D
      <4>1. TextLength(p, LocationPath) = n /\ Len(p.options[LocationPath]) = n
        BY <1>4, <1>7, <1>11, <1>13, <3>1, Zenon DEF TextLength
      <4>2. Part(p, LocationPath, End) <= Len(p.options[LocationPath]) + 3
        BY <1>13, <3>1, Distinct, InNumbers, PartBound, Zenon
      <4> QED BY <2>1, <4>1, <4>2, Zenon
    <3>2. CASE LocationPath \notin D
      <4>1. TextLength(p, LocationPath) = 0 /\ l = 0
        BY <1>13, <1>14, <2>1, <3>2, InNumbers, Zenon DEF TextLength
      <4> QED BY <4>1, SMT
    <3> QED BY <3>1, <3>2, Zenon
  <2>6. TextLength(p, UriPath) = 11 /\ u <= TextLength(p, UriPath) + 1
    <3>1. UriPath \in D
      BY <1>3, Zenon
    <3>2. TextLength(p, UriPath) = 11 /\ Len(p.options[UriPath]) = 11
      BY <1>4, <1>7, <1>11, <1>13, <3>1, Zenon DEF TextLength
    <3>3. Len(p.options[UriPath]) < 13 =>
             Part(p, UriPath, End) <= Len(p.options[UriPath]) + 1
      BY <1>13, <3>1, Distinct, InNumbers, PartBound, Zenon
    <3>4. 11 < 13
      BY SMT
    <3> QED BY <2>1, <3>2, <3>3, <3>4, Zenon
  <2>7. c <= 2
    <3>1. CASE ContentFormat \in D
      <4>1. p.options[ContentFormat] < 256
        BY <1>7, <1>11, <3>1, SMT DEF Json
      <4> QED BY <1>13, <2>1, <3>1, <4>1, Distinct, InNumbers, PartBound, Zenon
    <3>2. CASE ContentFormat \notin D
      <4>1. c = 0
        BY <1>14, <2>1, <3>2, InNumbers, Zenon
      <4> QED BY <4>1, SMT
    <3> QED BY <3>1, <3>2, Zenon
  <2>8. b <= 3
    <3>1. Szx < 256
      BY SMT DEF Szx
    <3>2. Block1 \notin D \/ Block2 \notin D
      BY <1>2, <1>3, Distinct, SMT
    <3>3. /\ Part(p, Block2, End) <= 3 /\ Part(p, Block2, End) \in Nat
          /\ Block2 \notin D => Part(p, Block2, End) = 0
      <4>1. CASE Block2 \in D
        <5>1. p.options[Block2] < 256
          BY <1>7, <1>11, <3>1, <4>1, Zenon
        <5> QED BY <1>13, <4>1, <5>1, Distinct, InNumbers, PartBound, Zenon
      <4>2. CASE Block2 \notin D
        <5>1. Part(p, Block2, End) = 0
          BY <1>14, <4>2, InNumbers, Zenon
        <5> QED BY <5>1, SMT
      <4> QED BY <4>1, <4>2, Zenon
    <3>4. /\ Part(p, Block1, End) <= 3 /\ Part(p, Block1, End) \in Nat
          /\ Block1 \notin D => Part(p, Block1, End) = 0
      <4>1. CASE Block1 \in D
        <5>1. p.options[Block1] < 256
          BY <1>7, <1>11, <3>1, <4>1, Zenon
        <5> QED BY <1>13, <4>1, <5>1, Distinct, InNumbers, PartBound, Zenon
      <4>2. CASE Block1 \notin D
        <5>1. Part(p, Block1, End) = 0
          BY <1>14, <4>2, InNumbers, Zenon
        <5> QED BY <5>1, SMT
      <4> QED BY <4>1, <4>2, Zenon
    <3> QED BY <2>2, <3>2, <3>3, <3>4, SMT
  <2> QED BY <2>4, <2>5, <2>6, <2>7, <2>8, Zenon
<1>17. ASSUME n <= 65804 PROVE Proper(p)
  <2>1. ASSUME NEW d \in DOMAIN p.options, IsText(d) PROVE Len(p.options[d]) <= 65804
    <3>1. d = LocationPath \/ d = UriPath
      BY <1>13, <2>1, TextNumbers, Zenon
    <3>2. Len(p.options[d]) \in {n, 11}
      <4>1. CASE d = LocationPath
        BY <1>4, <1>7, <1>11, <1>13, <4>1, Zenon
      <4>2. CASE d = UriPath
        BY <1>4, <1>7, <1>11, <1>13, <4>2, Zenon
      <4> QED BY <3>1, <4>1, <4>2, Zenon
    <3>3. \A m \in {n, 11} : m <= 65804
      BY <1>17, SMT
    <3>4. PICK m \in {n, 11} : m = Len(p.options[d])
      BY <3>2, Zenon
    <3>5. m <= 65804
      BY <3>3, SMT
    <3> QED BY <3>4, <3>5, SMT
  <2> QED BY <2>1, SMT DEF Proper
<1>18. Bounded(p, n)
  <2>1. PICK e \in Nat, t \in {0, n} : e = Len(p.payload) /\ t = TextLength(p, LocationPath)
    BY <1>5, <1>11, <1>15, Zenon
  <2>2. Size(p) = Start(p, End) + 1 + e
    BY <2>1, Zenon DEF Size
  <2>3. l <= t + 3 /\ u <= 11 + 1
    BY <1>15, <2>1, Zenon
  <2>4. t + 11 + e <= ReceiveBuffer - 18 => Size(p) <= ReceiveBuffer
    BY <1>15, <2>2, <2>3, SMT DEF ReceiveBuffer
  <2>5. n <= ReceiveBuffer - 25 => Start(p, End) <= ReceiveBuffer /\ n <= 65804
    BY <1>15, <2>3, SMT DEF ReceiveBuffer
  <2>6. ASSUME t + 11 + e <= ReceiveBuffer - 18 PROVE Proper(p)
    <3>1. CASE LocationPath \in D
      <4>1. t = n
        BY <1>4, <1>7, <1>11, <1>13, <2>1, <3>1, Zenon DEF TextLength
      <4>2. n <= 65804
        BY <2>6, <4>1, SMT DEF ReceiveBuffer
      <4> QED BY <1>17, <4>2, SMT
    <3>2. CASE LocationPath \notin D
      <4>1. ASSUME NEW d \in DOMAIN p.options, IsText(d) PROVE Len(p.options[d]) = 11
        <5>1. d = UriPath /\ UriPath \in D
          BY <1>13, <3>2, <4>1, TextNumbers, Zenon
        <5>2. p.options[UriPath] = Text(11)
          BY <1>7, <1>11, <5>1, Zenon
        <5> QED BY <1>4, <5>1, <5>2, Zenon
      <4>2. ASSUME NEW d \in DOMAIN p.options, IsText(d) PROVE Len(p.options[d]) <= 65804
        <5>1. Len(p.options[d]) = 11
          BY <4>1, <4>2, Zenon
        <5> QED BY <5>1, SMT
      <4> QED BY <4>2, SMT DEF Proper
    <3> QED BY <3>1, <3>2, Zenon
  <2>7. TextLength(p, LocationPath) + TextLength(p, UriPath) + Len(p.payload) = t + 11 + e
    BY <1>15, <2>1, Zenon
  <2> QED BY <1>17, <2>4, <2>5, <2>6, <2>7, SMT DEF Bounded
<1>19. IsMethod(code)
  BY Zenon DEF IsMethod
<1> QED BY <1>11, <1>12, <1>18, <1>19, Zenon


(* An empty message with at most one block option fits.                    *)
LEMMA SmallBound ==
    ASSUME NEW a, Sendable(a), a.payload = <<>>,
           DOMAIN a.options \in {{}, {Block1}, {Block2}}
    PROVE  \A n : Bounded(a, n)
<1> DEFINE D == DOMAIN a.options
<1>1. D \in {{}, {Block1}, {Block2}} /\ D \subseteq Numbers /\ \A d \in D : ~ IsText(d)
  BY Distinct, InNumbers, Zenon
<1> HIDE DEF D
<1>2. DOMAIN a.options = D /\ DOMAIN a.options \subseteq Numbers /\ IsOptions(a.options)
  BY Zenon DEF Sendable, D
<1>3. Len(a.payload) = 0
  BY SMT
<1>4. Start(a, End) \in Nat /\ Start(a, End) <= 15
  <2>1. \A k \in Numbers : /\ Part(a, k, End) \in Nat
                           /\ k \notin D => Part(a, k, End) = 0
                           /\ k \in D => Part(a, k, End) <= 5
    BY <1>1, <1>2, PartBound, Zenon
  <2>2. /\ LocationPath \notin D /\ UriPath \notin D /\ ContentFormat \notin D
        /\ Size2 \notin D /\ Size1 \notin D
    BY <1>1, Distinct, SMT
  <2>3. /\ Part(a, LocationPath, End) = 0 /\ Part(a, UriPath, End) = 0
        /\ Part(a, ContentFormat, End) = 0 /\ Part(a, Size2, End) = 0
        /\ Part(a, Size1, End) = 0
    BY <2>1, <2>2, InNumbers, Zenon
  <2>4. /\ Part(a, Block1, End) \in Nat /\ Part(a, Block1, End) <= 5
        /\ Part(a, Block2, End) \in Nat /\ Part(a, Block2, End) <= 5
    <3>1. ASSUME NEW k \in {Block1, Block2}
          PROVE  Part(a, k, End) \in Nat /\ Part(a, k, End) <= 5
      <4>1. k \in Numbers /\ 0 <= 5
        BY InNumbers, SMT
      <4> QED BY <2>1, <4>1, Zenon
    <3> QED BY <3>1, Zenon
  <2>5. Start(a, End) = 5 + 0 + 0 + 0 + Part(a, Block2, End) + Part(a, Block1, End) + 0 + 0
    BY <1>2, <2>3, StartSum, Zenon
  <2> QED BY <2>4, <2>5, SMT
<1>5. Proper(a)
  <2>1. ASSUME NEW d \in DOMAIN a.options PROVE ~ IsText(d)
    BY <1>1, <1>2, Zenon
  <2> QED BY <2>1, SMT DEF Proper
<1>6. ASSUME NEW n PROVE Bounded(a, n)
  <2>1. Size(a) = Start(a, End) + 1 + 0
    BY <1>3, Zenon DEF Size
  <2>2. Size(a) <= ReceiveBuffer /\ Start(a, End) <= ReceiveBuffer
    BY <1>4, <2>1, SMT DEF ReceiveBuffer
  <2> QED BY <1>5, <2>2, Zenon DEF Bounded
<1> QED BY <1>6, Zenon
(* The answer to a message, even to one of which only the header came      *)
LEMMA AckShape ==
    ASSUME NEW p, Readable(p), p.token = Token
    PROVE  LET a == AckOf(p) IN
           /\ Sendable(a) /\ \A n : Bounded(a, n)
           /\ a.type = ACK /\ a.payload = <<>> /\ a.mid = p.mid
           /\ DOMAIN a.options \in {{}, {Block1}, {Block2}}
           /\ IsMethod(p.code) \/ p.code = CONTENT => BlockId(a) = BlockId(p)
<1> DEFINE D == Repeated(p)
           o == [d \in D |-> p.options[d]]
           code == IF p.code = CONTENT THEN CONTINUE ELSE EMPTY
<1>1. PICK a : a = AckOf(p)
  BY Zenon
<1>2. p.mid \in Nat /\ p.mid < MidLimit /\ IsOptions(p.options)
  <2>1. p.mid \in 0 .. MidLimit - 1 /\ IsOptions(p.options)
    <3>1. p \in [version : Nat, type : Nat, token : Seq(Bytes), code : Bytes,
                 mid : 0 .. MidLimit - 1, options : {p.options}, payload : Seq(Bytes)]
          /\ IsOptions(p.options)
      BY Zenon DEF Readable
    <3> QED BY <3>1, SMT
  <2> QED BY <2>1, MidFacts, Zenon
<1>3. MessageId(p.mid) = p.mid
  BY <1>2, SMT DEF MessageId, MidLimit
<1>4. D \in {{}, {Block1}, {Block2}} /\ D \subseteq DOMAIN p.options
  <2>1. /\ OptionCode(p) \in {Block1, Block2, NoBlock}
        /\ OptionCode(p) # NoBlock => OptionCode(p) \in DOMAIN p.options
    BY Zenon DEF OptionCode
  <2>2. D = {} \/ (D = {OptionCode(p)} /\ OptionCode(p) # NoBlock)
    BY Zenon DEF Repeated
  <2> QED BY <2>1, <2>2, Zenon
<1>5. D \subseteq Numbers /\ \A d \in D : ~ IsText(d)
  BY <1>4, Distinct, InNumbers, Zenon
<1>6. DOMAIN o = D /\ \A d \in D : o[d] = p.options[d]
  BY Zenon
<1> HIDE DEF D
<1>7. IsOptions(o)
  <2>1. ASSUME NEW d \in D PROVE IF IsText(d) THEN o[d] \in Seq(Bytes) ELSE o[d] \in Values
    BY <1>2, <1>4, <1>5, <1>6, <2>1, Zenon DEF IsOptions
  <2>2. o = [d \in DOMAIN o |-> o[d]]
    BY Zenon
  <2> QED BY <1>6, <2>1, <2>2, Zenon DEF IsOptions
<1>8. a = Packet(ACK, code, p.mid, o, <<>>)
  <2>1. a = [Packet(ACK, code, p.mid, o, <<>>) EXCEPT !.token = Token]
    BY <1>1, <1>3, Zenon DEF AckOf, D
  <2> HIDE DEF o, code
  <2> QED BY <2>1, SMT DEF Packet
<1> HIDE DEF o
<1>9. code \in Bytes /\ <<>> \in Seq(Bytes) /\ ACK \in {CON, ACK} /\ Len(<<>>) = 0
  <2>1. CONTINUE \in Bytes /\ EMPTY \in Bytes
    BY ByteFacts, SMT DEF CONTINUE, EMPTY
  <2>2. <<>> \in Seq(Bytes) /\ Len(<<>>) = 0
    BY SMT
  <2> QED BY <2>1, <2>2, Zenon
<1> HIDE DEF code
<1>10. /\ Sendable(a) /\ a.options = o /\ a.payload = <<>> /\ a.type = ACK /\ a.mid = p.mid
  <2>1. DOMAIN o \subseteq Numbers /\ p.mid \in 0 .. MidLimit - 1
    BY <1>2, <1>5, <1>6, MidFacts, Zenon
  <2>2. a.options = o /\ a.payload = <<>> /\ a.type = ACK /\ a.mid = p.mid
    BY <1>8, SMT DEF Packet
  <2>3. Sendable(a)
    BY <1>7, <1>8, <1>9, <2>1, PacketType, Zenon
  <2> QED BY <2>2, <2>3, Zenon
<1>11. DOMAIN a.options = D /\ DOMAIN a.options \subseteq Numbers /\ IsOptions(a.options)
  BY <1>5, <1>6, <1>7, <1>10, Zenon
<1>12. ASSUME IsMethod(p.code) \/ p.code = CONTENT PROVE BlockId(a) = BlockId(p)
  <2>1. Block1 # NoBlock /\ Block2 # NoBlock /\ Block1 # Block2
    BY Distinct, SMT DEF NoBlock
  <2>2. D = IF OptionCode(p) = NoBlock THEN {} ELSE {OptionCode(p)}
    BY <1>12, Zenon DEF D, Repeated
  <2>3. OptionCode(p) \in {Block1, Block2, NoBlock}
    BY Zenon DEF OptionCode
  <2>4. CASE OptionCode(p) = NoBlock
    <3>1. OptionCode(a) = NoBlock
      BY <1>11, <2>2, <2>4, Zenon DEF OptionCode
    <3> QED BY <2>4, <3>1, Zenon DEF BlockId
  <2>5. CASE OptionCode(p) # NoBlock
    <3>1. D = {OptionCode(p)} /\ OptionCode(p) \in {Block1, Block2}
      BY <2>2, <2>3, <2>5, Zenon
    <3>2. OptionCode(a) = OptionCode(p)
      <4>1. CASE OptionCode(p) = Block1
        <5>1. Block1 \in DOMAIN a.options
          BY <1>11, <3>1, <4>1, Zenon
        <5> QED BY <4>1, <5>1, Zenon DEF OptionCode
      <4>2. CASE OptionCode(p) = Block2
        <5>1. Block1 \notin DOMAIN a.options /\ Block2 \in DOMAIN a.options
          <6>1. DOMAIN a.options = {Block2}
            BY <1>11, <3>1, <4>2, Zenon
          <6> QED BY <2>1, <6>1, Zenon
        <5>2. OptionCode(a) = Block2
          BY <5>1, Zenon DEF OptionCode
        <5> QED BY <4>2, <5>2, Zenon
      <4> QED BY <3>1, <4>1, <4>2, Zenon
    <3>3. a.options[OptionCode(p)] = p.options[OptionCode(p)]
      BY <1>6, <1>10, <3>1, Zenon
    <3> QED BY <2>5, <3>2, <3>3, Zenon DEF BlockId
  <2> QED BY <2>4, <2>5, Zenon
<1>13. DOMAIN a.options \in {{}, {Block1}, {Block2}}
  BY <1>4, <1>11, Zenon
<1>14. \A n : Bounded(a, n)
  BY <1>10, <1>13, SmallBound, Zenon
<1> QED BY <1>1, <1>10, <1>12, <1>13, <1>14, Zenon

(* What is known of a transfer                                             *)
LEMMA TransferFacts ==
    ASSUME NEW t, NEW i, Legal(t, i)
    PROVE  /\ t[1] \in {GET, PUT, POST, DELETE, FETCH} /\ t[2] \in Nat \ {0}
           /\ t[3] \in Nat \ {0} /\ t[3] <= MaxTotal
           /\ i \in Nat /\ (i # 0 => i <= t[3] /\ i <= MaxTotal)
<1>1. /\ t[1] \in {GET, PUT, POST, DELETE, FETCH} /\ t[2] \in NameLengths /\ t[3] \in Totals
      /\ i \in {0} \cup Positions /\ (i # 0 => i <= t[3])
  BY SMT DEF Legal
<1>2. \A n \in Nat : \A x \in 1 .. n : x \in Nat \ {0} /\ x <= n
  BY SMT
<1>3. MaxTotal \in Nat
  BY SMT DEF MaxTotal
<1>4. t[3] \in Nat \ {0} /\ t[3] <= MaxTotal
  BY <1>1, <1>2, <1>3, PacketAssumption, Zenon
<1>5. t[2] \in Nat \ {0}
  BY <1>1, PacketAssumption, Zenon
<1>6. i \in Nat
  BY <1>1, PacketAssumption, SMT
<1> QED BY <1>1, <1>3, <1>4, <1>5, <1>6, SMT

LEMMA MessageFacts ==
    ASSUME NEW t, NEW i, Legal(t, i),
           NEW p, p = MessageAt(t[1], t[2], t[3], i)
    PROVE  /\ Sendable(p) /\ Bounded(p, t[2])
           /\ p.type = CON /\ p.mid = MessageId(i)
           /\ IsMethod(p.code) \/ p.code = CONTENT
           /\ i # 0 => BlockId(p) = i - 1
           /\ i = 0 => BlockId(p) \in {0, NoBlock}
<1>1. /\ t[1] \in {GET, PUT, POST, DELETE, FETCH} /\ t[2] \in Nat \ {0}
      /\ t[3] \in Nat \ {0} /\ t[3] <= MaxTotal
      /\ i \in Nat /\ (i # 0 => i <= t[3] /\ i <= MaxTotal)
  BY TransferFacts, Zenon
<1>2. CASE i = 0
  <2>1. p = RequestOf(t[1], t[2])
    BY <1>2, Zenon DEF MessageAt
  <2>2. MessageId(0) = 0
    BY SMT DEF MessageId, MidLimit
  <2>3. /\ Sendable(p) /\ Bounded(p, t[2]) /\ p.type = CON /\ p.mid = 0 /\ IsMethod(p.code)
        /\ p.code = t[1]
        /\ BlockId(p) = (IF t[1] \in {PUT, GET, FETCH} THEN 0 ELSE NoBlock)
    <3>1. PICK c \in {GET, PUT, POST, DELETE, FETCH}, n \in Nat \ {0} : c = t[1] /\ n = t[2]
      BY <1>1, Zenon
    <3>2. p = RequestOf(c, n)
      BY <2>1, <3>1, Zenon
    <3>3. /\ Sendable(p) /\ Bounded(p, n) /\ p.type = CON /\ p.mid = 0 /\ IsMethod(p.code)
          /\ p.code = c
          /\ BlockId(p) = (IF c \in {PUT, GET, FETCH} THEN 0 ELSE NoBlock)
      BY <3>2, RequestShape
    <3> QED BY <3>1, <3>3, Zenon
  <2>4. BlockId(p) \in {0, NoBlock}
    BY <2>3, Zenon
  <2> QED BY <1>2, <2>2, <2>3, <2>4, Zenon
<1>3. CASE i # 0 /\ t[1] = FETCH
  <2>1. p = PathMessage(t[2], t[3], i) /\ i \in Nat \ {0}
    BY <1>1, <1>3, SMT DEF MessageAt
  <2>2. PICK n \in Nat \ {0}, l \in Nat : n = t[2] /\ l = t[3]
    BY <1>1, Zenon
  <2>3. p = PathMessage(n, l, i) /\ i <= MaxTotal
    BY <1>1, <1>3, <2>1, <2>2, Zenon
  <2>4. /\ Sendable(p) /\ Bounded(p, n) /\ p.type = CON /\ p.code = CONTENT
        /\ p.mid = MessageId(i) /\ BlockId(p) = i - 1
    BY <2>1, <2>3, PathShape
  <2> QED BY <1>3, <2>2, <2>4, Zenon
<1>4. CASE i # 0 /\ t[1] # FETCH
  <2>1. p = BlockMessage(t[1], t[2], t[3], i) /\ i \in Nat \ {0}
    BY <1>1, <1>4, SMT DEF MessageAt
  <2>2. PICK n \in Nat \ {0}, l \in Nat \ {0} : n = t[2] /\ l = t[3]
    BY <1>1, Zenon
  <2>5. PICK c : c = t[1]
    BY Zenon
  <2>3. p = BlockMessage(c, n, l, i) /\ l <= MaxTotal /\ i <= l
    BY <1>1, <1>4, <2>1, <2>2, <2>5, Zenon
  <2>4. /\ Sendable(p) /\ Bounded(p, n) /\ p.type = CON /\ p.code = CONTENT
        /\ p.mid = MessageId(i) /\ BlockId(p) = i - 1
    BY <2>1, <2>3, BlockShape
  <2> QED BY <1>4, <2>2, <2>4, Zenon
<1> QED BY <1>2, <1>3, <1>4, Zenon

LEMMA TokenFacts == \A p : Sendable(p) => /\ p.token = Token /\ p.mid \in 0 .. MidLimit - 1
                                          /\ p.version = 1 /\ p.type \in {CON, ACK}
                                          /\ p.code \in Bytes /\ p.payload \in Seq(Bytes)
                                          /\ DOMAIN p.options \subseteq Numbers
                                          /\ IsOptions(p.options)
<1> SUFFICES ASSUME NEW p, Sendable(p)
             PROVE  /\ p.token = Token /\ p.mid \in 0 .. MidLimit - 1
                    /\ p.version = 1 /\ p.type \in {CON, ACK}
                    /\ p.code \in Bytes /\ p.payload \in Seq(Bytes)
                    /\ DOMAIN p.options \subseteq Numbers
                    /\ IsOptions(p.options)
  BY Zenon
<1>1. /\ p \in [version : {1}, type : {CON, ACK}, token : {Token}, code : Bytes,
                mid : 0 .. MidLimit - 1, options : {p.options}, payload : Seq(Bytes)]
      /\ DOMAIN p.options \subseteq Numbers /\ IsOptions(p.options)
  BY Zenon DEF Sendable
<1> QED BY <1>1, SMT

(* Two messages of a transfer, or one and the request, have different keys.*)
LEMMA KeyFacts ==
    ASSUME NEW t, NEW i, Legal(t, i), NEW j, Legal(t, j), i # j
    PROVE  WorkId(MessageAt(t[1], t[2], t[3], i)) # WorkId(MessageAt(t[1], t[2], t[3], j))
<1> DEFINE M(k) == MessageAt(t[1], t[2], t[3], k)
<1> SUFFICES ASSUME WorkId(M(i)) = WorkId(M(j)) PROVE FALSE
  BY Zenon
<1>1. M(i).mid = M(j).mid /\ BlockId(M(i)) = BlockId(M(j))
  BY SMT DEF WorkId
<1>2. i \in Nat /\ j \in Nat
  BY TransferFacts, Zenon
<1>3. \A k \in {i, j} : /\ M(k).mid = MessageId(k)
                        /\ k # 0 => BlockId(M(k)) = k - 1
                        /\ k = 0 => BlockId(M(k)) \in {0, NoBlock}
  BY MessageFacts, Zenon
<1> HIDE DEF M
<1>4. MessageId(0) # MessageId(1)
  BY SMT DEF MessageId, MidLimit
<1>5. i = 0 \/ j = 0
  <2>1. i - 1 # j - 1
    BY <1>2, SMT
  <2> QED BY <1>1, <1>3, <2>1, Zenon
<1>6. \A k \in Nat : k # 0 /\ k - 1 \in {0, NoBlock} => k = 1
  BY SMT DEF NoBlock
<1>7. ASSUME NEW k \in {i, j}, NEW l \in {i, j}, k = 0, l # 0 PROVE FALSE
  <2>1. M(k).mid = M(l).mid /\ BlockId(M(k)) = BlockId(M(l)) /\ l \in Nat
    BY <1>1, <1>2, Zenon
  <2>2. l - 1 \in {0, NoBlock}
    BY <1>3, <1>7, <2>1, Zenon
  <2>3. l = 1
    BY <1>6, <1>7, <2>1, <2>2, Zenon
  <2> QED BY <1>3, <1>4, <1>7, <2>1, <2>3, Zenon
<1> QED BY <1>5, <1>7, Zenon

-----------------------------------------------------------------------------
(* Pieces of a datagram *)

Cut(w, i, j) == SubSeq(w, i + 1, IF j < Len(w) THEN j ELSE Len(w))

LEMMA CutFacts ==
    ASSUME NEW w \in Seq(Bytes), NEW i \in Nat, NEW j \in Nat
    PROVE  /\ Cut(w, i, j) \in Seq(Bytes) /\ Len(Cut(w, i, j)) \in Nat
           /\ i <= j /\ j <= Len(w) =>
                /\ Len(Cut(w, i, j)) = j - i
                /\ \A k \in 1 .. j - i : Cut(w, i, j)[k] = w[i + k]
           /\ i <= Len(w) /\ Len(w) <= j =>
                /\ Len(Cut(w, i, j)) = Len(w) - i
                /\ \A k \in 1 .. Len(w) - i : Cut(w, i, j)[k] = w[i + k]
<1>1. PICK l \in Nat : l = Len(w)
  BY SMT
<1>2. PICK e \in Nat : e = IF j < l THEN j ELSE l
  BY SMT
<1>3. Cut(w, i, j) = SubSeq(w, i + 1, e)
  BY <1>1, <1>2, Zenon DEF Cut
<1>4. \A k \in i + 1 .. e : w[k] \in Bytes
  <2>1. \A k \in 1 .. l : w[k] \in Bytes
    BY <1>1, BytesOf, Zenon
  <2> QED BY <1>2, <2>1, SMT
<1>5. i + 1 \in Int /\ e \in Int
  BY SMT
<1>6. PICK c : c = SubSeq(w, i + 1, e)
  BY Zenon
<1>7. /\ c \in Seq(Bytes) /\ Len(c) = (IF i + 1 <= e THEN e - (i + 1) + 1 ELSE 0)
      /\ \A k \in 1 .. e - (i + 1) + 1 : c[k] = w[(i + 1) + k - 1]
  <2>1. PICK f \in Int : f = i + 1
    BY <1>5, Zenon
  <2>2. \A k \in f .. e : w[k] \in Bytes
    BY <1>4, <2>1, Zenon
  <2>3. /\ SubSeq(w, f, e) \in Seq(Bytes)
        /\ Len(SubSeq(w, f, e)) = (IF f <= e THEN e - f + 1 ELSE 0)
        /\ \A k \in 1 .. e - f + 1 : SubSeq(w, f, e)[k] = w[f + k - 1]
    <3>1. SubSeq(w, f, e) \in Seq(Bytes)
      BY <1>5, <2>2, SubSeqProperties, Zenon
    <3>2. Len(SubSeq(w, f, e)) = (IF f <= e THEN e - f + 1 ELSE 0)
      BY <1>5, <2>2, SubSeqProperties, Zenon
    <3>3. \A k \in 1 .. e - f + 1 : SubSeq(w, f, e)[k] = w[f + k - 1]
      <4> TAKE k \in 1 .. e - f + 1
      <4> QED BY <1>5, <3>2, SMT
    <3> QED BY <3>1, <3>2, <3>3, Zenon
  <2> QED BY <1>6, <2>1, <2>3, Zenon
<1>8. Len(c) \in Nat
  BY <1>7, BytesOf, Zenon
<1>9. ASSUME i <= e
      PROVE  Len(c) = e - i /\ \A k \in 1 .. e - i : c[k] = w[i + k]
  <2>1. e - (i + 1) + 1 = e - i
    BY SMT
  <2>2. Len(c) = e - i
    BY <1>7, <1>9, SMT
  <2>3. \A k \in 1 .. e - i : (i + 1) + k - 1 = i + k
    BY SMT
  <2> QED BY <1>7, <2>1, <2>2, <2>3, Zenon
<1>10. ASSUME i <= j, j <= l PROVE e = j /\ i <= e
  BY <1>2, <1>10, SMT
<1>11. ASSUME i <= l, l <= j PROVE e = l /\ i <= e
  BY <1>2, <1>11, SMT
<1> QED BY <1>1, <1>3, <1>6, <1>7, <1>8, <1>9, <1>10, <1>11, Zenon

LEMMA CutInside ==
    ASSUME NEW w \in Seq(Bytes), NEW i \in Nat, NEW j \in Nat, i <= j, j <= Len(w)
    PROVE  /\ Cut(w, i, j) \in Seq(Bytes) /\ Len(Cut(w, i, j)) = j - i
           /\ \A k \in 1 .. j - i : Cut(w, i, j)[k] = w[i + k]
BY CutFacts, Zenon

LEMMA CutStart ==
    ASSUME NEW w \in Seq(Bytes), NEW r \in Nat
    PROVE  /\ Cut(w, 0, r) \in Seq(Bytes)
           /\ Len(Cut(w, 0, r)) = (IF Len(w) <= r THEN Len(w) ELSE r)
           /\ \A k \in Nat : 1 <= k /\ k <= Len(w) /\ k <= r => Cut(w, 0, r)[k] = w[k]
<1>1. PICK l \in Nat : l = Len(w)
  BY BytesOf, Zenon
<1>2. PICK z \in Nat : z = 0
  BY SMT
<1>3. /\ Cut(w, z, r) \in Seq(Bytes)
      /\ z <= r /\ r <= Len(w) => /\ Len(Cut(w, z, r)) = r - z
                                  /\ \A k \in 1 .. r - z : Cut(w, z, r)[k] = w[z + k]
      /\ z <= Len(w) /\ Len(w) <= r =>
            /\ Len(Cut(w, z, r)) = Len(w) - z
            /\ \A k \in 1 .. Len(w) - z : Cut(w, z, r)[k] = w[z + k]
  BY CutFacts, Zenon
<1>4. PICK c : c = Cut(w, z, r)
  BY Zenon
<1>5. CASE l <= r
  <2>1. l - z = l /\ z <= l
    BY <1>2, SMT
  <2>2. Len(c) = l /\ \A k \in 1 .. l : c[k] = w[z + k]
    BY <1>1, <1>3, <1>4, <1>5, <2>1, Zenon
  <2>3. ASSUME NEW k \in Nat, 1 <= k, k <= l PROVE c[k] = w[k]
    <3>1. k \in 1 .. l /\ z + k = k
      BY <1>2, <2>3, SMT
    <3> QED BY <2>2, <3>1, Zenon
  <2> QED BY <1>1, <1>2, <1>3, <1>4, <1>5, <2>2, <2>3, Zenon
<1>6. CASE ~ (l <= r)
  <2>1. r - z = r /\ z <= r /\ r <= l
    BY <1>2, <1>6, SMT
  <2>2. Len(c) = r /\ \A k \in 1 .. r : c[k] = w[z + k]
    BY <1>1, <1>3, <1>4, <2>1, Zenon
  <2>3. ASSUME NEW k \in Nat, 1 <= k, k <= r PROVE c[k] = w[k]
    <3>1. k \in 1 .. r /\ z + k = k
      BY <1>2, <2>3, SMT
    <3> QED BY <2>2, <3>1, Zenon
  <2> QED BY <1>1, <1>2, <1>3, <1>4, <1>6, <2>2, <2>3, Zenon
<1> QED BY <1>5, <1>6, Zenon

LEMMA LeastNat ==
    ASSUME NEW T \in SUBSET Nat, T # {}
    PROVE  /\ Min(T) \in T /\ \A k \in T : Min(T) <= k
<1> DEFINE R == {p \in Nat \X Nat : p[1] < p[2]}
<1>1. IsWellFoundedOn(R, Nat)
  BY NatLessThanWellFounded DEF OpToRel
<1>2. PICK m \in T : \A k \in T : <<k, m>> \notin R
  BY <1>1, WFMin, Zenon
<1>3. ASSUME NEW k \in T PROVE m <= k
  <2> k \in Nat /\ m \in Nat /\ ~ (k < m)
    BY <1>2
  <2> QED BY SMT
<1> QED BY <1>3, Zenon DEF Min

(* What is appended leaves the first five bytes alone.                     *)
LEMMA HeadKept ==
    ASSUME NEW w \in Seq(Bytes), 5 <= Len(w), NEW s \in Seq(Bytes)
    PROVE  /\ w \o s \in Seq(Bytes) /\ 5 <= Len(w \o s)
           /\ (w \o s)[1] = w[1] /\ (w \o s)[2] = w[2] /\ (w \o s)[3] = w[3]
           /\ (w \o s)[4] = w[4] /\ (w \o s)[5] = w[5]
<1>1. PICK c : c = w \o s
  BY Zenon
<1>2. /\ c \in Seq(Bytes) /\ Len(c) = Len(w) + Len(s)
      /\ \A k \in 1 .. Len(w) : c[k] = w[k]
  BY <1>1, ConcatBytes, Zenon
<1>3. PICK l \in Nat, m \in Nat : l = Len(w) /\ m = Len(s)
  BY BytesOf, Zenon
<1>4. 5 <= l /\ 5 <= l + m
  BY <1>3, SMT
<1>5. 1 \in 1 .. l /\ 2 \in 1 .. l /\ 3 \in 1 .. l /\ 4 \in 1 .. l /\ 5 \in 1 .. l
  BY <1>4, SMT
<1> QED BY <1>1, <1>2, <1>3, <1>4, <1>5, Zenon

-----------------------------------------------------------------------------
(* Types and header *)

LEMMA TypedParts ==
    TInv => /\ phase \in {"new", "options", "wire", "header", "decode", "decoded"}
            /\ Legal(transfer, index) /\ Sendable(packet) /\ Readable(got)
            /\ todo \subseteq DOMAIN packet.options
            /\ wire \in Seq(Bytes) /\ previous \in Nat /\ at \in Nat
            /\ phase = "options" => \A d \in todo : previous < d
            /\ phase # "options" => todo = {}
BY Zenon DEF TInv, Typed

LEMMA HeadedParts ==
    TInv => /\ phase # "new" =>
                 /\ 5 <= Len(wire)
                 /\ wire[1] = 64 + 16 * packet.type + 1 /\ wire[2] = packet.code
                 /\ wire[3] = (packet.mid \div 256) % 256 /\ wire[4] = packet.mid % 256
                 /\ wire[5] = 0
            /\ phase \in {"decode", "decoded"} =>
                 /\ got.version = 1 /\ got.type = packet.type /\ got.token = Token
                 /\ got.code = packet.code /\ got.mid = packet.mid
BY SMT DEF TInv, Headed

LEMMA NothingFacts == Readable(Nothing)
<1>1. \A d \in {} : IF IsText(d) THEN NoOption[d] \in Seq(Bytes) ELSE NoOption[d] \in Values
  BY Zenon
<1>2. DOMAIN NoOption = {} /\ NoOption = [d \in DOMAIN NoOption |-> NoOption[d]]
  BY Zenon DEF NoOption
<1>3. IsOptions(NoOption)
  BY <1>1, <1>2, Zenon DEF IsOptions
<1>4. 0 \in 0 .. MidLimit - 1 /\ EMPTY \in Bytes /\ CON \in Nat
  <2>1. 0 \in Nat
    BY SMT
  <2>2. EMPTY \in Bytes /\ CON \in Nat
    BY ByteFacts, SMT DEF EMPTY, CON
  <2> QED BY <2>1, <2>2, MidFacts, Zenon
<1>5. Token \in Seq(Bytes) /\ <<>> \in Seq(Bytes) /\ 1 \in Nat
  <2>1. 0 \in Bytes
    BY ByteFacts, SMT
  <2> QED BY <2>1, SMT DEF Token
<1>6. Nothing = [version |-> 1, type |-> CON, token |-> Token, code |-> EMPTY,
                 mid |-> 0, options |-> NoOption, payload |-> <<>>]
  BY Zenon DEF Nothing, Packet
<1>7. Nothing \in [version : Nat, type : Nat, token : Seq(Bytes), code : Bytes,
                   mid : 0 .. MidLimit - 1, options : {NoOption}, payload : Seq(Bytes)]
  BY <1>4, <1>5, <1>6, SMT
<1>8. Nothing.options = NoOption
  BY <1>6, SMT
<1> QED BY <1>3, <1>7, <1>8, Zenon DEF Readable

LEMMA TInvInit == Init => TInv
<1> SUFFICES ASSUME Init PROVE TInv
  OBVIOUS
<1>1. Legal(transfer, index)
  <2>1. /\ transfer \in {GET, PUT, POST, DELETE, FETCH} \X NameLengths \X Totals
        /\ index \in IF transfer[1] \in {GET, PUT, FETCH}
                       THEN {0} \cup {i \in Positions : i <= transfer[3]} ELSE {0}
    BY Zenon DEF Init
  <2>2. index = 0 \/ (index \in Positions /\ index <= transfer[3])
    BY <2>1, SMT
  <2> QED BY <2>1, <2>2, Zenon DEF Legal
<1>2. Sendable(packet)
  <2>1. packet = MessageAt(transfer[1], transfer[2], transfer[3], index)
    BY Zenon DEF Init
  <2> QED BY <1>1, <2>1, MessageFacts, Zenon
<1>3. /\ phase = "new" /\ todo = {} /\ previous = 0 /\ wire = <<>> /\ at = 0 /\ got = Nothing
  BY Zenon DEF Init
<1>4. wire \in Seq(Bytes) /\ previous \in Nat /\ at \in Nat
  BY <1>3, SMT
<1>5. /\ Readable(got)
      /\ phase \in {"new", "options", "wire", "header", "decode", "decoded"}
      /\ phase # "options" /\ phase \notin {"decode", "decoded"}
  BY <1>3, NothingFacts, SMT
<1>6. Typed
  BY <1>1, <1>2, <1>3, <1>4, <1>5, Zenon DEF Typed
<1>7. Headed
  BY <1>3, SMT DEF Headed
<1> QED BY <1>6, <1>7, Zenon DEF TInv

LEMMA TypedEncodeHeader == TInv /\ EncodeHeader => TInv' /\ Len(wire') = 5
<1> SUFFICES ASSUME TInv, EncodeHeader PROVE TInv' /\ Len(wire') = 5
  OBVIOUS
<1>1. /\ Legal(transfer, index) /\ Sendable(packet) /\ Readable(got) /\ at \in Nat
  BY TypedParts, Zenon
<1>2. /\ packet.version = 1 /\ packet.type \in {CON, ACK} /\ packet.token = Token
      /\ packet.code \in Bytes /\ packet.mid \in 0 .. MidLimit - 1
      /\ DOMAIN packet.options \subseteq Numbers
  BY <1>1, TokenFacts, Zenon
<1>3. /\ wire' = <<64 * packet.version + 16 * packet.type + Len(packet.token),
                   packet.code, (packet.mid \div 256) % 256, packet.mid % 256>>
                 \o packet.token
      /\ todo' = DOMAIN packet.options /\ previous' = 0 /\ phase' = "options"
      /\ transfer' = transfer /\ index' = index /\ packet' = packet /\ at' = at /\ got' = got
  BY Zenon DEF EncodeHeader
<1>4. PICK a \in Bytes, b \in Bytes, c \in Bytes, d \in Bytes :
          /\ wire' = <<a, b, c, d>> \o Token
          /\ a = 64 + 16 * packet.type + 1 /\ b = packet.code
          /\ c = (packet.mid \div 256) % 256 /\ d = packet.mid % 256
  <2>1. packet.mid \in Nat
    BY <1>2, MidFacts, Zenon
  <2>2. /\ (packet.mid \div 256) % 256 \in Nat /\ (packet.mid \div 256) % 256 < 256
        /\ packet.mid % 256 \in Nat /\ packet.mid % 256 < 256
    BY <2>1, SMT
  <2>3. (packet.mid \div 256) % 256 \in Bytes /\ packet.mid % 256 \in Bytes
    BY <2>2, ByteFacts, SMT
  <2>4. Len(Token) = 1
    BY SMT DEF Token
  <2>5. 64 * packet.version + 16 * packet.type + Len(packet.token) = 64 + 16 * packet.type + 1
    BY <1>2, <2>4, SMT DEF CON, ACK
  <2>6. 64 + 16 * packet.type + 1 \in Nat /\ 64 + 16 * packet.type + 1 < 256
    BY <1>2, SMT DEF CON, ACK
  <2>7. 64 + 16 * packet.type + 1 \in Bytes
    BY <2>6, ByteFacts, SMT
  <2>8. PICK h : h = 64 + 16 * packet.type + 1
    BY Zenon
  <2>9. PICK y, z : y = (packet.mid \div 256) % 256 /\ z = packet.mid % 256
    BY Zenon
  <2>10. h \in Bytes /\ y \in Bytes /\ z \in Bytes /\ packet.code \in Bytes
    BY <1>2, <2>3, <2>7, <2>8, <2>9, SMT
  <2>11. wire' = <<h, packet.code, y, z>> \o Token
    <3>1. 64 * packet.version + 16 * packet.type + Len(packet.token) = h
      BY <2>5, <2>8, SMT
    <3> QED BY <1>2, <1>3, <2>9, <3>1, SMT
  <2> QED BY <2>8, <2>9, <2>10, <2>11
<1>5. PICK u : u = <<a, b, c, d>>
  BY Zenon
<1>6. u \in Seq(Bytes) /\ Len(u) = 4 /\ u[1] = a /\ u[2] = b /\ u[3] = c /\ u[4] = d
  BY <1>5, SMT
<1>7. Token \in Seq(Bytes) /\ Len(Token) = 1 /\ Token[1] = 0
  <2>1. 0 \in Bytes
    BY ByteFacts, SMT
  <2> QED BY <2>1, ShortBytes, Zenon DEF Token
<1>8. /\ u \o Token \in Seq(Bytes) /\ Len(u \o Token) = Len(u) + Len(Token)
      /\ \A k \in 1 .. Len(u) : (u \o Token)[k] = u[k]
      /\ \A k \in 1 .. Len(Token) : (u \o Token)[Len(u) + k] = Token[k]
  BY <1>6, <1>7, ConcatBytes, Zenon
<1>9. PICK w \in Seq(Bytes) : w = u \o Token
  BY <1>8, Zenon
<1>10. /\ Len(w) = 5 /\ w[1] = a /\ w[2] = b /\ w[3] = c /\ w[4] = d /\ w[5] = 0
  BY <1>6, <1>7, <1>8, <1>9, SMT
<1>11. wire' = w /\ 5 <= Len(w)
  BY <1>4, <1>5, <1>9, <1>10, SMT
<1>12. \A k \in todo' : previous' < k
  BY <1>2, <1>3, NumberFacts, Zenon
<1>13. /\ phase' = "options" /\ phase' # "new" /\ phase' \notin {"decode", "decoded"}
       /\ previous' \in Nat
       /\ phase' \in {"new", "options", "wire", "header", "decode", "decoded"}
  BY <1>3, SMT
<1>14. Typed'
  BY <1>1, <1>3, <1>11, <1>12, <1>13, Zenon DEF Typed
<1>15. Headed'
  <2>1. /\ 5 <= Len(wire')
        /\ wire'[1] = 64 + 16 * packet'.type + 1 /\ wire'[2] = packet'.code
        /\ wire'[3] = (packet'.mid \div 256) % 256 /\ wire'[4] = packet'.mid % 256
        /\ wire'[5] = 0
    BY <1>3, <1>4, <1>10, <1>11, Zenon
  <2> QED BY <1>13, <2>1, SMT DEF Headed
<1> QED BY <1>10, <1>11, <1>14, <1>15, Zenon DEF TInv

LEMMA HeadedStep ==
    TInv /\ phase # "new" /\ packet' = packet /\ 5 <= Len(wire')
        /\ wire'[1] = wire[1] /\ wire'[2] = wire[2] /\ wire'[3] = wire[3]
        /\ wire'[4] = wire[4] /\ wire'[5] = wire[5]
        /\ (phase' \in {"decode", "decoded"} =>
                 /\ got'.version = 1 /\ got'.type = packet.type /\ got'.token = Token
                 /\ got'.code = packet.code /\ got'.mid = packet.mid)
    => Headed'
<1> SUFFICES ASSUME TInv, phase # "new", packet' = packet, 5 <= Len(wire'),
                    wire'[1] = wire[1], wire'[2] = wire[2], wire'[3] = wire[3],
                    wire'[4] = wire[4], wire'[5] = wire[5],
                    phase' \in {"decode", "decoded"} =>
                       /\ got'.version = 1 /\ got'.type = packet.type /\ got'.token = Token
                       /\ got'.code = packet.code /\ got'.mid = packet.mid
             PROVE  Headed'
  OBVIOUS
<1>1. /\ wire[1] = 64 + 16 * packet.type + 1 /\ wire[2] = packet.code
      /\ wire[3] = (packet.mid \div 256) % 256 /\ wire[4] = packet.mid % 256
      /\ wire[5] = 0
  BY HeadedParts, Zenon
<1>2. /\ wire'[1] = 64 + 16 * packet'.type + 1 /\ wire'[2] = packet'.code
      /\ wire'[3] = (packet'.mid \div 256) % 256 /\ wire'[4] = packet'.mid % 256
      /\ wire'[5] = 0
  BY <1>1, Zenon
<1> QED BY <1>2, SMT DEF Headed

(* The next option to encode                                               *)
LEMMA NextOption ==
    TInv /\ phase = "options" /\ todo # {} =>
        LET d == Min(todo)
            h == OptionHeader(d - previous, Len(Field(packet, d)))
        IN /\ d \in DOMAIN packet.options /\ d \in Numbers /\ d \in todo
           /\ d \in Nat /\ d <= 60 /\ previous < d
           /\ \A k \in todo : d <= k
           /\ h \in Seq(Bytes) /\ Field(packet, d) \in Seq(Bytes)
<1> SUFFICES ASSUME TInv, phase = "options", todo # {}
             PROVE  LET d == Min(todo)
                        h == OptionHeader(d - previous, Len(Field(packet, d)))
                    IN /\ d \in DOMAIN packet.options /\ d \in Numbers /\ d \in todo
                       /\ d \in Nat /\ d <= 60 /\ previous < d
                       /\ \A k \in todo : d <= k
                       /\ h \in Seq(Bytes) /\ Field(packet, d) \in Seq(Bytes)
  OBVIOUS
<1>1. /\ Sendable(packet) /\ todo \subseteq DOMAIN packet.options
      /\ previous \in Nat /\ \A d \in todo : previous < d
  BY TypedParts, Zenon
<1>2. DOMAIN packet.options \subseteq Numbers /\ IsOptions(packet.options)
  BY <1>1, TokenFacts, Zenon
<1>3. todo \in SUBSET Nat
  BY <1>1, <1>2, NumberFacts, Zenon
<1>4. PICK d : d = Min(todo) /\ d \in todo /\ \A k \in todo : d <= k
  BY <1>3, LeastNat, Zenon
<1>5. /\ d \in DOMAIN packet.options /\ d \in Numbers /\ previous < d
      /\ d \in Nat /\ d <= 60
  BY <1>1, <1>2, <1>4, NumberFacts, Zenon
<1>6. Field(packet, d) \in Seq(Bytes) /\ Len(Field(packet, d)) \in Nat
  BY <1>2, <1>5, FieldFacts, Zenon
<1>7. d - previous \in Nat /\ d - previous <= 60
  BY <1>1, <1>5, SMT
<1>8. OptionHeader(d - previous, Len(Field(packet, d))) \in Seq(Bytes)
  BY <1>6, <1>7, HeaderType, Zenon
<1> QED BY <1>4, <1>5, <1>6, <1>8, Zenon

LEMMA TypedEncodeNext == TInv /\ EncodeNext => TInv'
<1> SUFFICES ASSUME TInv, EncodeNext PROVE TInv'
  OBVIOUS
<1> DEFINE d == Min(todo)
           h == OptionHeader(d - previous, Len(Field(packet, d)))
<1>1. /\ Legal(transfer, index) /\ Sendable(packet) /\ Readable(got)
      /\ todo \subseteq DOMAIN packet.options /\ wire \in Seq(Bytes) /\ at \in Nat
  BY TypedParts, Zenon
<1>2. /\ phase = "options" /\ todo # {}
      /\ wire' = wire \o h \o Field(packet, d)
      /\ todo' = todo \ {d} /\ previous' = d
      /\ transfer' = transfer /\ index' = index /\ packet' = packet
      /\ phase' = phase /\ at' = at /\ got' = got
  BY Zenon DEF EncodeNext, Field
<1>3. /\ d \in DOMAIN packet.options /\ d \in todo /\ d \in Numbers /\ d \in Nat
      /\ \A k \in todo : d <= k
      /\ h \in Seq(Bytes) /\ Field(packet, d) \in Seq(Bytes)
  BY <1>2, NextOption, Zenon
<1> HIDE DEF d, h
<1>4. 5 <= Len(wire)
  <2>1. phase # "new"
    BY <1>2, SMT
  <2> QED BY <2>1, HeadedParts, Zenon
<1>5. PICK u \in Seq(Bytes) : /\ u = wire \o h /\ 5 <= Len(u)
                              /\ u[1] = wire[1] /\ u[2] = wire[2] /\ u[3] = wire[3]
                              /\ u[4] = wire[4] /\ u[5] = wire[5]
  BY <1>1, <1>3, <1>4, HeadKept, Zenon
<1>6. PICK w \in Seq(Bytes) : /\ w = u \o Field(packet, d) /\ 5 <= Len(w)
                              /\ w[1] = u[1] /\ w[2] = u[2] /\ w[3] = u[3]
                              /\ w[4] = u[4] /\ w[5] = u[5]
  BY <1>3, <1>5, HeadKept, Zenon
<1>7. wire' = w
  BY <1>2, <1>5, <1>6, Zenon
<1>8. \A k \in todo' : previous' < k
  <2> TAKE k \in todo'
  <2>1. k \in todo /\ k # d /\ d <= k
    BY <1>2, <1>3, Zenon
  <2>2. k \in Nat
    BY <1>1, <2>1, TokenFacts, NumberFacts, Zenon
  <2> QED BY <1>2, <1>3, <2>1, <2>2, SMT
<1>9. todo' \subseteq DOMAIN packet'.options
  BY <1>1, <1>2, Zenon
<1>10. phase' = "options" /\ phase' \notin {"decode", "decoded"} /\ phase # "new"
       /\ phase' \in {"new", "options", "wire", "header", "decode", "decoded"}
  BY <1>2, SMT
<1>11. Typed'
  BY <1>1, <1>2, <1>3, <1>7, <1>8, <1>9, <1>10, Zenon DEF Typed
<1>12. Headed'
  BY <1>2, <1>5, <1>6, <1>7, <1>10, HeadedStep, Zenon
<1> QED BY <1>11, <1>12, Zenon DEF TInv

LEMMA TypedEncodePayload == TInv /\ EncodePayload => TInv'
<1> SUFFICES ASSUME TInv, EncodePayload PROVE TInv'
  OBVIOUS
<1>1. /\ Legal(transfer, index) /\ Sendable(packet) /\ Readable(got)
      /\ wire \in Seq(Bytes) /\ at \in Nat /\ previous \in Nat
  BY TypedParts, Zenon
<1>2. /\ phase = "options" /\ todo = {}
      /\ wire' = wire \o <<PayloadMarker>> \o packet.payload /\ phase' = "wire"
      /\ transfer' = transfer /\ index' = index /\ packet' = packet
      /\ todo' = todo /\ previous' = previous /\ at' = at /\ got' = got
  BY Zenon DEF EncodePayload
<1>3. packet.payload \in Seq(Bytes)
  BY <1>1, TokenFacts, Zenon
<1>4. <<PayloadMarker>> \in Seq(Bytes)
  <2>1. PayloadMarker \in Bytes
    BY ByteFacts, SMT DEF PayloadMarker
  <2> QED BY <2>1, ShortBytes, Zenon
<1>5. /\ phase' = "wire" /\ phase # "new" /\ phase' # "options"
      /\ phase' \notin {"decode", "decoded"}
      /\ phase' \in {"new", "options", "wire", "header", "decode", "decoded"}
  BY <1>2, SMT
<1>6. PICK m : m = <<PayloadMarker>>
  BY Zenon
<1>7. PICK u \in Seq(Bytes) : /\ u = wire \o m /\ 5 <= Len(u)
                              /\ u[1] = wire[1] /\ u[2] = wire[2] /\ u[3] = wire[3]
                              /\ u[4] = wire[4] /\ u[5] = wire[5]
  <2>1. 5 <= Len(wire) /\ m \in Seq(Bytes)
    BY <1>4, <1>5, <1>6, HeadedParts, Zenon
  <2> QED BY <1>1, <2>1, HeadKept, Zenon
<1>8. PICK w \in Seq(Bytes) : /\ w = u \o packet.payload /\ 5 <= Len(w)
                              /\ w[1] = u[1] /\ w[2] = u[2] /\ w[3] = u[3]
                              /\ w[4] = u[4] /\ w[5] = u[5]
  BY <1>3, <1>7, HeadKept, Zenon
<1>9. wire' = w
  BY <1>2, <1>6, <1>7, <1>8, Zenon
<1>10. todo' \subseteq DOMAIN packet'.options /\ todo' = {}
  BY <1>2, Zenon
<1>11. Typed'
  BY <1>1, <1>2, <1>5, <1>9, <1>10, Zenon DEF Typed
<1>12. Headed'
  BY <1>2, <1>5, <1>7, <1>8, <1>9, HeadedStep, Zenon
<1> QED BY <1>11, <1>12, Zenon DEF TInv

LEMMA TypedReceive == TInv /\ Receive => TInv'
<1> SUFFICES ASSUME TInv, Receive PROVE TInv'
  OBVIOUS
<1>1. /\ Legal(transfer, index) /\ Sendable(packet) /\ Readable(got)
      /\ wire \in Seq(Bytes) /\ at \in Nat /\ previous \in Nat
      /\ todo \subseteq DOMAIN packet.options
      /\ phase # "options" => todo = {}
  BY TypedParts, Zenon
<1>2. /\ phase = "wire" /\ wire' = Cut(wire, 0, ReceiveBuffer) /\ phase' = "header"
      /\ transfer' = transfer /\ index' = index /\ packet' = packet
      /\ todo' = todo /\ previous' = previous /\ at' = at /\ got' = got
  BY Zenon DEF Receive, Slice, Cut
<1>3. /\ phase' = "header" /\ phase # "new" /\ phase # "options" /\ phase' # "options"
      /\ phase' \notin {"decode", "decoded"}
      /\ phase' \in {"new", "options", "wire", "header", "decode", "decoded"}
  BY <1>2, SMT
<1>4. PICK l \in Nat : l = Len(wire) /\ 5 <= l
  BY <1>1, <1>3, BytesOf, HeadedParts, Zenon
<1>5. PICK r \in Nat : r = ReceiveBuffer /\ 5 <= r
  BY SMT DEF ReceiveBuffer
<1>6. PICK c \in Seq(Bytes) :
         /\ c = Cut(wire, 0, r) /\ Len(c) = (IF Len(wire) <= r THEN Len(wire) ELSE r)
         /\ \A k \in Nat : 1 <= k /\ k <= Len(wire) /\ k <= r => c[k] = wire[k]
  BY <1>1, CutStart, Zenon
<1>7. /\ 5 <= Len(c) /\ c[1] = wire[1] /\ c[2] = wire[2] /\ c[3] = wire[3]
      /\ c[4] = wire[4] /\ c[5] = wire[5]
  <2>1. \A k \in {1, 2, 3, 4, 5} : k \in Nat /\ 1 <= k /\ k <= l /\ k <= r
    BY <1>4, <1>5, SMT
  <2>2. \A k \in {1, 2, 3, 4, 5} : c[k] = wire[k]
    BY <1>4, <1>6, <2>1, Zenon
  <2>3. 5 <= Len(c)
    BY <1>4, <1>5, <1>6, Zenon
  <2> QED BY <2>2, <2>3, Zenon
<1>8. wire' = c
  BY <1>2, <1>5, <1>6, Zenon
<1>9. Typed'
  BY <1>1, <1>2, <1>3, <1>8, Zenon DEF Typed
<1>10. Headed'
  BY <1>2, <1>3, <1>7, <1>8, HeadedStep, Zenon
<1> QED BY <1>9, <1>10, Zenon DEF TInv

LEMMA SmallIndices == 0 + 1 = 1 /\ 1 + 1 = 2 /\ 2 + 1 = 3 /\ 3 + 1 = 4
BY SMT

(* The token is one byte, and the id of the message is put together again. *)
LEMMA TypedDecodeHeader ==
    TInv /\ DecodeHeader => TInv' /\ got'.options = NoOption /\ at' = 5
<1> SUFFICES ASSUME TInv, DecodeHeader
             PROVE  TInv' /\ got'.options = NoOption /\ at' = 5
  OBVIOUS
<1>1. /\ Legal(transfer, index) /\ Sendable(packet) /\ wire \in Seq(Bytes)
      /\ todo \subseteq DOMAIN packet.options
      /\ phase # "options" => todo = {}
  BY TypedParts, Zenon
<1>2. packet.type \in {CON, ACK} /\ packet.code \in Bytes /\ packet.mid \in 0 .. MidLimit - 1
  BY <1>1, TokenFacts, Zenon
<1>3. /\ phase = "header"
      /\ got' = [version |-> wire[1] \div 64, type |-> (wire[1] \div 16) % 4,
                 token |-> Cut(wire, 4, 4 + (wire[1] % 16)), code |-> wire[2],
                 mid |-> 256 * wire[3] + wire[4], options |-> NoOption, payload |-> <<>>]
      /\ at' = 4 + Len(got'.token) /\ previous' = 0 /\ phase' = "decode"
      /\ transfer' = transfer /\ index' = index /\ packet' = packet
      /\ todo' = todo /\ wire' = wire
  BY SmallIndices, Zenon DEF DecodeHeader, Byte, Slice, Cut
<1>4. /\ phase' = "decode" /\ phase # "new" /\ phase # "options" /\ phase' # "options"
      /\ phase' \in {"new", "options", "wire", "header", "decode", "decoded"}
  BY <1>3, SMT
<1>5. /\ 5 <= Len(wire)
      /\ wire[1] = 64 + 16 * packet.type + 1 /\ wire[2] = packet.code
      /\ wire[3] = (packet.mid \div 256) % 256 /\ wire[4] = packet.mid % 256
      /\ wire[5] = 0
  BY <1>4, HeadedParts, Zenon
<1>6. /\ wire[1] \div 64 = 1 /\ (wire[1] \div 16) % 4 = packet.type /\ wire[1] % 16 = 1
  BY <1>2, <1>5, SMT DEF CON, ACK
<1>7. 256 * wire[3] + wire[4] = packet.mid
  <2>1. PICK m \in Nat : m = packet.mid /\ m < MidLimit
    BY <1>2, MidFacts, Zenon
  <2>2. 256 * ((m \div 256) % 256) + (m % 256) = m
    BY <2>1, SMT DEF MidLimit
  <2> QED BY <1>5, <2>1, <2>2, Zenon
<1>8. Cut(wire, 4, 4 + (wire[1] % 16)) = Token
  <2>1. PICK s : s = Cut(wire, 4, 5)
    BY Zenon
  <2>2. 4 \in Nat /\ 5 \in Nat /\ 4 <= 5 /\ 5 - 4 = 1 /\ 4 + 1 = 5
    BY SMT
  <2>3. s \in Seq(Bytes) /\ Len(s) = 1 /\ \A k \in 1 .. 1 : s[k] = wire[4 + k]
    <3>1. PICK i \in Nat, j \in Nat : i = 4 /\ j = 5
      BY <2>2, Zenon
    <3>2. /\ Cut(wire, i, j) \in Seq(Bytes)
          /\ i <= j /\ j <= Len(wire) =>
                /\ Len(Cut(wire, i, j)) = j - i
                /\ \A k \in 1 .. j - i : Cut(wire, i, j)[k] = wire[i + k]
      BY <1>1, CutFacts, Zenon
    <3>3. i <= j /\ j <= Len(wire) /\ j - i = 1
      BY <1>5, <2>2, <3>1, Zenon
    <3> QED BY <2>1, <3>1, <3>2, <3>3, Zenon
  <2>4. s[1] = 0
    <3>1. 1 \in 1 .. 1
      BY SMT
    <3>2. s[1] = wire[4 + 1]
      BY <2>3, <3>1, Zenon
    <3> QED BY <1>5, <2>2, <3>2, Zenon
  <2>5. s = <<0>>
    BY <2>3, <2>4, SMT
  <2> QED BY <1>6, <2>1, <2>2, <2>5, Zenon DEF Token
<1>9. got' = [version |-> 1, type |-> packet.type, token |-> Token, code |-> packet.code,
              mid |-> packet.mid, options |-> NoOption, payload |-> <<>>]
  BY <1>3, <1>5, <1>6, <1>7, <1>8, Zenon
<1>10. /\ got'.version = 1 /\ got'.type = packet.type /\ got'.token = Token
       /\ got'.code = packet.code /\ got'.mid = packet.mid /\ got'.options = NoOption
  BY <1>9, SMT
<1>11. Readable(got')
  <2>1. IsOptions(NoOption)
    <3>1. DOMAIN NoOption = {} /\ NoOption = [d \in DOMAIN NoOption |-> NoOption[d]]
      BY Zenon DEF NoOption
    <3>2. \A d \in {} : IF IsText(d) THEN NoOption[d] \in Seq(Bytes) ELSE NoOption[d] \in Values
      BY Zenon
    <3> QED BY <3>1, <3>2, Zenon DEF IsOptions
  <2>2. 1 \in Nat /\ packet.type \in Nat
    BY <1>2, SMT DEF CON, ACK
  <2>3. Token \in Seq(Bytes) /\ <<>> \in Seq(Bytes)
    <3>1. 0 \in Bytes
      BY ByteFacts, SMT
    <3> QED BY <3>1, SMT DEF Token
  <2>4. got' \in [version : Nat, type : Nat, token : Seq(Bytes), code : Bytes,
                  mid : 0 .. MidLimit - 1, options : {NoOption}, payload : Seq(Bytes)]
    BY <1>2, <1>9, <2>2, <2>3, SMT
  <2> QED BY <1>10, <2>1, <2>4, Zenon DEF Readable
<1>12. at' = 5 /\ at' \in Nat /\ previous' \in Nat
  <2>1. Len(Token) = 1
    BY SMT DEF Token
  <2>2. at' = 4 + 1
    BY <1>3, <1>10, <2>1, Zenon
  <2> QED BY <1>3, <2>2, SMT
<1>13. Typed'
  BY <1>1, <1>3, <1>4, <1>11, <1>12, Zenon DEF Typed
<1>14. Headed'
  BY <1>3, <1>4, <1>5, <1>10, HeadedStep, Zenon
<1> QED BY <1>10, <1>12, <1>13, <1>14, Zenon DEF TInv

(* What DecodeNext reads, whatever the bytes are                           *)
LEMMA ReadType ==
    TInv /\ AtOption =>
        /\ wire[at + 1] \in Nat /\ wire[at + 1] < 255
        /\ AfterDelta \in Nat /\ ValueStart \in Nat /\ Number \in Nat /\ Length \in Nat
        /\ ValueOf(Number, Slice(ValueStart, ValueStart + Length)) \in
              IF IsText(Number) THEN Seq(Bytes) ELSE Values
<1> SUFFICES ASSUME TInv, AtOption
             PROVE  /\ wire[at + 1] \in Nat /\ wire[at + 1] < 255
                    /\ AfterDelta \in Nat /\ ValueStart \in Nat /\ Number \in Nat
                    /\ Length \in Nat
                    /\ ValueOf(Number, Slice(ValueStart, ValueStart + Length)) \in
                          IF IsText(Number) THEN Seq(Bytes) ELSE Values
  OBVIOUS
<1>1. wire \in Seq(Bytes) /\ previous \in Nat /\ at \in Nat
  BY TypedParts, Zenon
<1>2. at < Len(wire) /\ wire[at + 1] # PayloadMarker
  BY Zenon DEF AtOption, Byte
<1>3. PICK b : b = wire[at + 1]
  BY Zenon
<1>4. b \in Nat /\ b < 255
  <2>1. PICK l \in Nat : l = Len(wire)
    BY <1>1, BytesOf, Zenon
  <2>2. at + 1 \in 1 .. l
    BY <1>1, <1>2, <2>1, SMT
  <2>3. b \in Nat /\ b < 256
    BY <1>1, <1>3, <2>1, <2>2, BytesOf, Zenon
  <2> QED BY <1>2, <1>3, <2>3, SMT DEF PayloadMarker
<1>5. \A x : Extension(x) \in Nat
  BY SMT DEF Extension
<1>6. PICK e \in Nat, f \in Nat : e = Extension(b \div 16) /\ f = Extension(b % 16)
  BY <1>5, Zenon
<1>7. AfterDelta = at + e /\ ValueStart = at + e + f + 1
  BY <1>3, <1>6, Zenon DEF AfterDelta, ValueStart, Byte
<1>8. AfterDelta \in Nat /\ ValueStart \in Nat
  BY <1>1, <1>7, SMT
<1>9. \A i, j \in Nat : Slice(i, j) \in Seq(Bytes)
  BY <1>1, CutFacts, Zenon DEF Slice, Cut
<1>10. \A i, j \in Nat : BytesInt(Slice(i, j)) \in Values
  BY <1>9, BytesIntType, Zenon
<1>11. \A v \in Values : v \in Nat
  BY SMT DEF Values
<1>12. Number \in Nat
  <2>1. at + 1 \in Nat /\ AfterDelta + 1 \in Nat
    BY <1>1, <1>8, SMT
  <2>2. PICK v \in Nat : v = BytesInt(Slice(at + 1, AfterDelta + 1))
    BY <1>10, <1>11, <2>1, Zenon
  <2>3. Number = previous + (b \div 16) + v
    BY <1>3, <2>2, Zenon DEF Number, Byte
  <2> QED BY <1>1, <1>4, <2>3, SMT
<1>13. Length \in Nat
  <2>1. AfterDelta + 1 \in Nat
    BY <1>8, SMT
  <2>2. PICK v \in Nat : v = BytesInt(Slice(AfterDelta + 1, ValueStart))
    BY <1>8, <1>10, <1>11, <2>1, Zenon
  <2>3. Length = (IF b % 16 = 14 THEN 269 ELSE b % 16) + v
    BY <1>3, <2>2, SMT DEF Length, Byte
  <2> QED BY <1>4, <2>3, SMT
<1>14. ValueOf(Number, Slice(ValueStart, ValueStart + Length)) \in
          IF IsText(Number) THEN Seq(Bytes) ELSE Values
  <2>1. ValueStart + Length \in Nat
    BY <1>8, <1>13, SMT
  <2>2. /\ Slice(ValueStart, ValueStart + Length) \in Seq(Bytes)
        /\ BytesInt(Slice(ValueStart, ValueStart + Length)) \in Values
    BY <1>8, <1>9, <1>10, <2>1, Zenon
  <2> QED BY <2>2, Zenon DEF ValueOf
<1> QED BY <1>3, <1>4, <1>8, <1>12, <1>13, <1>14, Zenon

(* What is decoded stays readable when its options or its payload change.  *)
(* What stays when the options or the payload change                       *)
Changed(q, p) ==
    /\ Readable(q) /\ q.version = p.version /\ q.type = p.type
    /\ q.token = p.token /\ q.code = p.code /\ q.mid = p.mid

LEMMA ReadableFields ==
    ASSUME NEW p, Readable(p)
    PROVE  /\ p \in [version : Nat, type : Nat, token : Seq(Bytes), code : Bytes,
                     mid : 0 .. MidLimit - 1, options : {p.options}, payload : Seq(Bytes)]
           /\ IsOptions(p.options)
  BY Zenon DEF Readable

LEMMA ReadableOptions ==
    ASSUME NEW p, Readable(p), NEW o, IsOptions(o)
    PROVE  Changed([p EXCEPT !.options = o], p)
<1>1. PICK q : q = [p EXCEPT !.options = o]
  BY Zenon
<1>2. /\ q.options = o /\ q.version = p.version /\ q.type = p.type /\ q.token = p.token
      /\ q.code = p.code /\ q.mid = p.mid
  BY <1>1, ReadableFields, SMT
<1>3. q \in [version : Nat, type : Nat, token : Seq(Bytes), code : Bytes,
             mid : 0 .. MidLimit - 1, options : {o}, payload : Seq(Bytes)]
  BY <1>1, ReadableFields, SMT
<1>4. Readable(q)
  BY <1>2, <1>3, Zenon DEF Readable
<1> QED BY <1>1, <1>2, <1>4, Zenon DEF Changed

LEMMA ReadablePayload ==
    ASSUME NEW p, Readable(p), NEW s \in Seq(Bytes)
    PROVE  /\ Changed([p EXCEPT !.payload = s], p)
           /\ [p EXCEPT !.payload = s].options = p.options
           /\ [p EXCEPT !.payload = s].payload = s
<1>1. PICK q : q = [p EXCEPT !.payload = s]
  BY Zenon
<1>2. /\ q.options = p.options /\ q.version = p.version /\ q.type = p.type
      /\ q.token = p.token /\ q.code = p.code /\ q.mid = p.mid /\ q.payload = s
  BY <1>1, ReadableFields, SMT
<1>3. q \in [version : Nat, type : Nat, token : Seq(Bytes), code : Bytes,
             mid : 0 .. MidLimit - 1, options : {p.options}, payload : Seq(Bytes)]
  BY <1>1, ReadableFields, SMT
<1>4. Readable(q)
  BY <1>2, <1>3, ReadableFields, Zenon DEF Readable
<1> QED BY <1>1, <1>2, <1>4, Zenon DEF Changed

LEMMA TypedDecodeNext == TInv /\ DecodeNext => TInv'
<1> SUFFICES ASSUME TInv, DecodeNext PROVE TInv'
  OBVIOUS
<1> DEFINE value == ValueOf(Number, Slice(ValueStart, ValueStart + Length))
           D == DOMAIN got.options \cup {Number}
           o == [d \in D |-> IF d = Number THEN value ELSE got.options[d]]
<1>1. /\ Legal(transfer, index) /\ Sendable(packet) /\ wire \in Seq(Bytes)
      /\ Readable(got) /\ todo \subseteq DOMAIN packet.options
      /\ phase # "options" => todo = {}
  BY TypedParts, Zenon
<1>2. /\ phase = "decode" /\ AtOption
      /\ got' = [got EXCEPT !.options = o]
      /\ at' = ValueStart + Length /\ previous' = Number
      /\ transfer' = transfer /\ index' = index /\ packet' = packet
      /\ todo' = todo /\ wire' = wire /\ phase' = phase
  BY Zenon DEF DecodeNext
<1>3. /\ ValueStart \in Nat /\ Number \in Nat /\ Length \in Nat
      /\ value \in IF IsText(Number) THEN Seq(Bytes) ELSE Values
  BY <1>2, ReadType, Zenon
<1> HIDE DEF value
<1>4. IsOptions(o)
  <2>1. \A d \in DOMAIN got.options :
           IF IsText(d) THEN got.options[d] \in Seq(Bytes) ELSE got.options[d] \in Values
    BY <1>1, ReadableFields, Zenon DEF IsOptions
  <2>2. ASSUME NEW d \in D PROVE IF IsText(d) THEN o[d] \in Seq(Bytes) ELSE o[d] \in Values
    <3>1. CASE d = Number
      BY <1>3, <3>1, Zenon
    <3>2. CASE d # Number
      BY <2>1, <2>2, <3>2, Zenon
    <3> QED BY <3>1, <3>2, Zenon
  <2>3. DOMAIN o = D /\ o = [d \in DOMAIN o |-> o[d]]
    BY Zenon
  <2> QED BY <2>2, <2>3, Zenon DEF IsOptions
<1> HIDE DEF o
<1>5. /\ Readable(got') /\ got'.version = got.version
      /\ got'.type = got.type /\ got'.token = got.token /\ got'.code = got.code
      /\ got'.mid = got.mid
  <2>1. Changed([got EXCEPT !.options = o], got)
    BY <1>1, <1>4, ReadableOptions, Zenon
  <2> QED BY <1>2, <2>1, Zenon DEF Changed
<1>6. at' \in Nat /\ previous' \in Nat
  BY <1>2, <1>3, SMT
<1>7. /\ phase' = "decode" /\ phase # "new" /\ phase # "options" /\ phase' # "options"
      /\ phase' \in {"new", "options", "wire", "header", "decode", "decoded"}
      /\ phase \in {"decode", "decoded"}
  BY <1>2, SMT
<1>8. Typed'
  BY <1>1, <1>2, <1>5, <1>6, <1>7, Zenon DEF Typed
<1>9. Headed'
  <2>1. /\ 5 <= Len(wire)
        /\ got.version = 1 /\ got.type = packet.type /\ got.token = Token
        /\ got.code = packet.code /\ got.mid = packet.mid
    BY <1>7, HeadedParts, Zenon
  <2> QED BY <1>2, <1>5, <1>7, <2>1, HeadedStep, Zenon
<1> QED BY <1>8, <1>9, Zenon DEF TInv

LEMMA TypedDecodePayload == TInv /\ DecodePayload => TInv'
<1> SUFFICES ASSUME TInv, DecodePayload PROVE TInv'
  OBVIOUS
<1> DEFINE payload == IF at + 1 < Len(wire) THEN Slice(at + 1, Len(wire)) ELSE <<>>
<1>1. /\ Legal(transfer, index) /\ Sendable(packet) /\ wire \in Seq(Bytes)
      /\ Readable(got) /\ todo \subseteq DOMAIN packet.options
      /\ previous \in Nat /\ at \in Nat
      /\ phase # "options" => todo = {}
  BY TypedParts, Zenon
<1>2. /\ phase = "decode" /\ got' = [got EXCEPT !.payload = payload]
      /\ phase' = "decoded"
      /\ transfer' = transfer /\ index' = index /\ packet' = packet
      /\ todo' = todo /\ wire' = wire /\ previous' = previous /\ at' = at
  BY Zenon DEF DecodePayload
<1>3. payload \in Seq(Bytes)
  <2>1. at + 1 \in Nat /\ Len(wire) \in Nat /\ <<>> \in Seq(Bytes)
    BY <1>1, SMT
  <2>2. Slice(at + 1, Len(wire)) \in Seq(Bytes)
    BY <1>1, <2>1, CutFacts, Zenon DEF Slice, Cut
  <2> QED BY <2>1, <2>2, Zenon
<1> HIDE DEF payload
<1>4. /\ Readable(got') /\ got'.version = got.version
      /\ got'.type = got.type /\ got'.token = got.token /\ got'.code = got.code
      /\ got'.mid = got.mid
  <2>1. Changed([got EXCEPT !.payload = payload], got)
    BY <1>1, <1>3, ReadablePayload, Zenon
  <2> QED BY <1>2, <2>1, Zenon DEF Changed
<1>5. /\ phase' = "decoded" /\ phase # "new" /\ phase # "options" /\ phase' # "options"
      /\ phase' \in {"new", "options", "wire", "header", "decode", "decoded"}
      /\ phase \in {"decode", "decoded"}
  BY <1>2, SMT
<1>6. Typed'
  BY <1>1, <1>2, <1>4, <1>5, Zenon DEF Typed
<1>7. Headed'
  <2>1. /\ 5 <= Len(wire)
        /\ got.version = 1 /\ got.type = packet.type /\ got.token = Token
        /\ got.code = packet.code /\ got.mid = packet.mid
    BY <1>5, HeadedParts, Zenon
  <2> QED BY <1>2, <1>4, <1>5, <2>1, HeadedStep, Zenon
<1> QED BY <1>6, <1>7, Zenon DEF TInv

LEMMA TypedAnswer == TInv /\ Answer => TInv'
<1> SUFFICES ASSUME TInv, Answer PROVE TInv'
  OBVIOUS
<1>1. /\ Legal(transfer, index) /\ Readable(got) /\ previous \in Nat
      /\ phase # "options" => todo = {}
  BY TypedParts, Zenon
<1>2. /\ phase = "decoded" /\ packet' = AckOf(got)
      /\ phase' = "new" /\ wire' = <<>> /\ at' = 0 /\ got' = Nothing
      /\ transfer' = transfer /\ index' = index /\ todo' = todo /\ previous' = previous
  BY Zenon DEF Answer
<1>3. /\ phase \in {"decode", "decoded"} /\ phase # "options"
      /\ phase' # "options" /\ phase' \notin {"decode", "decoded"}
      /\ phase' \in {"new", "options", "wire", "header", "decode", "decoded"}
  BY <1>2, SMT
<1>4. Sendable(packet')
  <2>1. got.token = Token
    BY <1>3, HeadedParts, Zenon
  <2> QED BY <1>1, <1>2, <2>1, AckShape, Zenon
<1>5. wire' \in Seq(Bytes) /\ at' \in Nat
  BY <1>2, SMT
<1>6. todo' \subseteq DOMAIN packet'.options /\ todo' = {}
  BY <1>1, <1>2, <1>3, Zenon
<1>7. Typed'
  BY <1>1, <1>2, <1>3, <1>4, <1>5, <1>6, NothingFacts, Zenon DEF Typed
<1>8. Headed'
  BY <1>2, <1>3, SMT DEF Headed
<1> QED BY <1>7, <1>8, Zenon DEF TInv

LEMMA TInvStep == TInv /\ [Next]_vars => TInv'
<1> SUFFICES ASSUME TInv, [Next]_vars PROVE TInv'
  OBVIOUS
<1>1. CASE UNCHANGED vars
  BY <1>1, Zenon DEF TInv, Typed, Headed, vars
<1>2. CASE Next
  BY <1>2, TypedEncodeHeader, TypedEncodeNext, TypedEncodePayload, TypedReceive,
     TypedDecodeHeader, TypedDecodeNext, TypedDecodePayload, TypedAnswer, Zenon DEF Next
<1> QED BY <1>1, <1>2, Zenon

-----------------------------------------------------------------------------
(* Options in a datagram *)

LEMMA SameSequence ==
    ASSUME NEW s \in Seq(Bytes), NEW t \in Seq(Bytes), Len(s) = Len(t),
           \A k \in 1 .. Len(s) : s[k] = t[k]
    PROVE  s = t
BY SeqEqual, Zenon

LEMMA Associative ==
    ASSUME NEW s \in Seq(Bytes), NEW t \in Seq(Bytes), NEW u \in Seq(Bytes)
    PROVE  (s \o t) \o u = s \o (t \o u)
BY ConcatAssociative

(* A piece of a datagram in which another sequence lies                    *)
Piece(w, a, s) ==
    /\ w \in Seq(Bytes) /\ a \in Nat /\ s \in Seq(Bytes)
    /\ a + Len(s) <= Len(w) /\ \A k \in 1 .. Len(s) : w[a + k] = s[k]

IsCut(c, w, i, j) == c = Cut(w, i, j)

LEMMA PieceOf ==
    \A w, a, s : Piece(w, a, s) =>
        \A i, j \in Nat : i <= j /\ j <= Len(s) =>
            \A c : IsCut(c, s, i, j) => IsCut(c, w, a + i, a + j)
<1> SUFFICES ASSUME NEW w, NEW a, NEW s, Piece(w, a, s),
                    NEW i \in Nat, NEW j \in Nat, i <= j, j <= Len(s),
                    NEW c, IsCut(c, s, i, j)
             PROVE  IsCut(c, w, a + i, a + j)
  BY Zenon
<1>0. /\ w \in Seq(Bytes) /\ a \in Nat /\ s \in Seq(Bytes)
      /\ a + Len(s) <= Len(w) /\ \A k \in 1 .. Len(s) : w[a + k] = s[k]
  BY Zenon DEF Piece
<1>1. PICK l \in Nat, m \in Nat : l = Len(w) /\ m = Len(s)
  BY <1>0, BytesOf, Zenon
<1>2. a + m <= l /\ j <= m
  BY <1>0, <1>1, Zenon
<1>3. PICK x \in Nat, y \in Nat : x = a + i /\ y = a + j
  BY <1>0, SMT
<1>4. x <= y /\ y <= l /\ y - x = j - i
  BY <1>0, <1>2, <1>3, SMT
<1>5. /\ Cut(w, x, y) \in Seq(Bytes) /\ Len(Cut(w, x, y)) = y - x
      /\ \A k \in 1 .. y - x : Cut(w, x, y)[k] = w[x + k]
  BY <1>0, <1>1, <1>4, CutInside, Zenon
<1>6. /\ Cut(s, i, j) \in Seq(Bytes) /\ Len(Cut(s, i, j)) = j - i
      /\ \A k \in 1 .. j - i : Cut(s, i, j)[k] = s[i + k]
  BY <1>0, CutFacts, Zenon
<1>7. ASSUME NEW k \in 1 .. j - i PROVE w[x + k] = s[i + k]
  <2>1. i + k \in 1 .. m /\ x + k = a + (i + k)
    BY <1>0, <1>2, <1>3, <1>7, SMT
  <2> QED BY <1>0, <1>1, <2>1, Zenon
<1>8. PICK u \in Seq(Bytes), v \in Seq(Bytes) : u = Cut(w, x, y) /\ v = Cut(s, i, j)
  BY <1>5, <1>6, Zenon
<1>9. Len(u) = Len(v) /\ \A k \in 1 .. Len(u) : u[k] = v[k]
  <2>1. Len(u) = j - i /\ Len(v) = j - i
    BY <1>4, <1>5, <1>6, <1>8, Zenon
  <2>2. ASSUME NEW k \in 1 .. j - i PROVE u[k] = v[k]
    BY <1>4, <1>5, <1>6, <1>7, <1>8, <2>2, Zenon
  <2> QED BY <2>1, <2>2, Zenon
<1>10. u = v
  BY <1>9, SameSequence, Zenon
<1> QED BY <1>3, <1>8, <1>10, Zenon DEF IsCut

LEMMA CutWhole ==
    ASSUME NEW s \in Seq(Bytes), NEW z, z = 0
    PROVE  Cut(s, z, Len(s)) = s
<1>1. PICK m \in Nat : m = Len(s) /\ z \in Nat /\ z <= m /\ m <= m /\ m - z = m
  BY BytesOf, SMT
<1>2. PICK c \in Seq(Bytes) : /\ c = Cut(s, z, m) /\ Len(c) = m - z
                              /\ \A k \in 1 .. m - z : c[k] = s[z + k]
  BY <1>1, CutInside, Zenon
<1>3. ASSUME NEW k \in 1 .. m PROVE c[k] = s[k]
  <2>1. z + k = k
    BY <1>3, SMT
  <2> QED BY <1>1, <1>2, <1>3, <2>1, Zenon
<1>4. c = s
  BY <1>1, <1>2, <1>3, SameSequence, Zenon
<1> QED BY <1>1, <1>2, <1>4, Zenon

(* An option stays where it lies when the datagram changes only behind it. *)
LEMMA LaidKept ==
    ASSUME NEW p, DOMAIN p.options \subseteq Numbers, IsOptions(p.options),
           NEW d \in DOMAIN p.options, NEW v, NEW w, Laid(p, v, d),
           NEW n \in Nat, Start(p, d + 1) <= n,
           \A k \in Nat : 1 <= k /\ k <= n => w[k] = v[k]
    PROVE  Laid(p, w, d)
<1>1. PICK l \in Nat : l = Len(Chunk(p, d))
  BY ChunkFacts, Zenon
<1>2. d \in Nat
  BY NumberFacts, Zenon
<1>3. PICK a \in Nat : a = Start(p, d) /\ Start(p, d + 1) = a + l
  BY <1>1, <1>2, StartFacts, Zenon
<1>4. a + l <= n
  BY <1>3, Zenon
<1>5. ASSUME NEW j \in 1 .. l PROVE w[a + j] = Chunk(p, d)[j]
  <2>1. a + j \in Nat /\ 1 <= a + j /\ a + j <= n
    BY <1>4, <1>5, SMT
  <2>2. v[a + j] = Chunk(p, d)[j]
    BY <1>1, <1>3, <1>5, Zenon DEF Laid
  <2> QED BY <2>1, <2>2, Zenon
<1> QED BY <1>1, <1>3, <1>5, Zenon DEF Laid

(* After the last option encoded or decoded comes another one, or the end. *)
LEMMA NextAfter ==
    ASSUME NEW p, DOMAIN p.options \subseteq Numbers, IsOptions(p.options),
           NEW c \in {0} \cup DOMAIN p.options
    PROVE  \/ /\ \A k \in DOMAIN p.options : k <= c
              /\ Start(p, End) = Start(p, c + 1)
           \/ \E d \in DOMAIN p.options :
                 /\ c < d /\ Prev(p, d) = c /\ \A k \in DOMAIN p.options : k <= c \/ d <= k
                 /\ Start(p, d) = Start(p, c + 1)
                 /\ Start(p, d + 1) = Start(p, c + 1) + Len(Chunk(p, d))
                 /\ Start(p, d + 1) <= Start(p, End)
<1> DEFINE T == {k \in DOMAIN p.options : c < k}
<1>1. /\ \A k \in DOMAIN p.options : k \in Numbers /\ k \in Nat /\ 0 < k /\ k <= 60
      /\ c \in Nat /\ c < End /\ End \in Nat
  <2>1. \A k \in DOMAIN p.options : k \in Numbers /\ k \in Nat /\ 0 < k /\ k <= 60
    BY NumberFacts, Zenon
  <2>2. c = 0 \/ (c \in Nat /\ c <= 60)
    BY <2>1, Zenon
  <2> QED BY <2>1, <2>2, SMT DEF End
<1>2. CASE T = {}
  <2>1. \A k \in DOMAIN p.options : k <= c
    BY <1>1, <1>2, SMT
  <2>2. Follows(p, c, End)
    BY <1>1, <2>1, Zenon DEF Follows
  <2> QED BY <1>1, <2>1, <2>2, StartFacts, Zenon
<1>3. CASE T # {}
  <2>1. PICK d \in T : \A k \in T : d <= k
    <3>1. T \in SUBSET Nat
      BY <1>1, Zenon
    <3> QED BY <1>3, <3>1, LeastNat, Zenon
  <2>2. /\ d \in DOMAIN p.options /\ c < d /\ d \in Nat /\ d \in Numbers /\ d + 1 \in Nat
        /\ d + 1 <= End
    BY <1>1, <2>1, SMT DEF End
  <2>3. \A k \in DOMAIN p.options : k <= c \/ d <= k
    BY <1>1, <2>1, SMT
  <2>4. Follows(p, c, d)
    BY <2>2, <2>3, Zenon DEF Follows
  <2>5. Prev(p, d) = c
    BY <2>2, <2>4, PrevFacts, Zenon
  <2>6. Start(p, d) = Start(p, c + 1) /\ Start(p, d + 1) = Start(p, d) + Len(Chunk(p, d))
    BY <2>2, <2>4, StartFacts, Zenon
  <2>7. Start(p, d + 1) <= Start(p, End)
    BY <1>1, <2>2, StartFacts, Zenon
  <2> QED BY <2>2, <2>3, <2>5, <2>6, <2>7, Zenon
<1> QED BY <1>2, <1>3, Zenon

-----------------------------------------------------------------------------
(* The layout of a datagram *)

LEMMA Carried ==
    TInv => /\ DOMAIN packet.options \subseteq Numbers /\ IsOptions(packet.options)
            /\ packet.payload \in Seq(Bytes) /\ wire \in Seq(Bytes)
            /\ previous \in Nat /\ at \in Nat /\ Readable(got)
BY TypedParts, TokenFacts, Zenon

LEMMA LayoutInit == Init => Layout
<1> SUFFICES ASSUME Init PROVE Layout
  OBVIOUS
<1>1. phase = "new"
  BY Zenon DEF Init
<1> QED BY <1>1, SMT DEF Layout, Encoding, Encoded, Received, Decoding, Decoded

LEMMA LayoutEncodeHeader == TInv /\ EncodeHeader => Layout'
<1> SUFFICES ASSUME TInv, EncodeHeader PROVE Layout'
  OBVIOUS
<1>1. /\ DOMAIN packet.options \subseteq Numbers /\ IsOptions(packet.options)
  BY Carried, Zenon
<1>2. /\ todo' = DOMAIN packet.options /\ previous' = 0 /\ phase' = "options"
      /\ packet' = packet /\ Len(wire') = 5
  BY TypedEncodeHeader, Zenon DEF EncodeHeader
<1>3. \A d \in DOMAIN packet.options : 0 < d /\ ~ (d <= 0)
  <2>1. \A d \in DOMAIN packet.options : d \in Nat /\ 0 < d
    BY <1>1, NumberFacts, Zenon
  <2> QED BY <2>1, SMT
<1>4. Start(packet, previous' + 1) = 5
  <2>1. previous' + 1 = 1
    BY <1>2, SMT
  <2> QED BY <1>1, <2>1, StartFacts, Zenon
<1>5. Encoding'
  <2>1. todo' = {d \in DOMAIN packet'.options : previous' < d}
    BY <1>2, <1>3, Zenon
  <2>2. \A d \in DOMAIN packet'.options : d <= previous' => Laid(packet', wire', d)
    BY <1>2, <1>3, Zenon
  <2> QED BY <1>2, <1>4, <2>1, <2>2, Zenon DEF Encoding
<1>6. Encoded' /\ Received' /\ Decoding' /\ Decoded'
  BY <1>2, SMT DEF Encoded, Received, Decoding, Decoded
<1> QED BY <1>5, <1>6, Zenon DEF Layout

LEMMA LayoutEncodeNext == TInv /\ Layout /\ EncodeNext => Layout'
<1> SUFFICES ASSUME TInv, Layout, EncodeNext, Proper(packet') PROVE Encoding'
  <2>1. EncodeNext => phase' = "options"
    BY Zenon DEF EncodeNext
  <2>2. phase' = "options" => Encoded' /\ Received' /\ Decoding' /\ Decoded'
    BY SMT DEF Encoded, Received, Decoding, Decoded
  <2>3. ASSUME TInv, Layout, EncodeNext, Proper(packet') => Encoding' PROVE Layout'
    BY <2>1, <2>2, <2>3, Zenon DEF Layout
  <2> QED BY <2>3, Zenon
<1> DEFINE d == Min(todo)
           h == OptionHeader(d - previous, Len(Field(packet, d)))
<1>1. /\ DOMAIN packet.options \subseteq Numbers /\ IsOptions(packet.options)
      /\ wire \in Seq(Bytes) /\ previous \in Nat
  BY Carried, Zenon
<1>2. /\ phase = "options" /\ todo # {}
      /\ wire' = wire \o h \o Field(packet, d)
      /\ todo' = todo \ {d} /\ previous' = d /\ packet' = packet /\ phase' = phase
  BY Zenon DEF EncodeNext, Field
<1>3. /\ d \in DOMAIN packet.options /\ d \in todo /\ d \in Numbers /\ d \in Nat
      /\ previous < d /\ \A k \in todo : d <= k
      /\ h \in Seq(Bytes) /\ Field(packet, d) \in Seq(Bytes)
  BY <1>2, NextOption, Zenon
<1> HIDE DEF d
<1>4. /\ previous \in {0} \cup DOMAIN packet.options
      /\ todo = {k \in DOMAIN packet.options : previous < k}
      /\ Len(wire) = Start(packet, previous + 1)
      /\ \A k \in DOMAIN packet.options : k <= previous => Laid(packet, wire, k)
  BY <1>2, Zenon DEF Layout, Encoding
<1>5. \A k \in DOMAIN packet.options : k <= previous \/ d <= k
  <2> TAKE k \in DOMAIN packet.options
  <2>1. k \in Nat
    BY <1>1, NumberFacts, Zenon
  <2>2. CASE previous < k
    BY <1>3, <1>4, <2>2, Zenon
  <2>3. CASE ~ (previous < k)
    BY <1>1, <2>1, <2>3, SMT
  <2> QED BY <2>2, <2>3, Zenon
<1>6. Follows(packet, previous, d)
  BY <1>3, <1>4, <1>5, Zenon DEF Follows
<1>7. Prev(packet, d) = previous
  BY <1>1, <1>3, <1>6, PrevFacts, Zenon
<1>8. PICK c \in Seq(Bytes) : c = Chunk(packet, d)
  BY <1>1, <1>3, ChunkFacts, Zenon
<1>9. wire' = wire \o c
  <2>1. c = h \o Field(packet, d)
    BY <1>7, <1>8, Zenon DEF Chunk
  <2> HIDE DEF h
  <2>2. (wire \o h) \o Field(packet, d) = wire \o (h \o Field(packet, d))
    BY <1>1, <1>3, Associative, Zenon
  <2> QED BY <1>2, <2>1, <2>2, Zenon
<1>10. PICK l \in Nat, m \in Nat : l = Len(wire) /\ m = Len(c)
  BY <1>1, <1>8, BytesOf, Zenon
<1>11. PICK w \in Seq(Bytes) : /\ w = wire' /\ Len(w) = l + m
                               /\ \A k \in 1 .. l : w[k] = wire[k]
                               /\ \A k \in 1 .. m : w[l + k] = c[k]
  <2>1. /\ wire \o c \in Seq(Bytes) /\ Len(wire \o c) = Len(wire) + Len(c)
        /\ \A k \in 1 .. Len(wire) : (wire \o c)[k] = wire[k]
        /\ \A k \in 1 .. Len(c) : (wire \o c)[Len(wire) + k] = c[k]
    BY <1>1, <1>8, ConcatBytes, Zenon
  <2>2. PICK w \in Seq(Bytes) : w = wire \o c
    BY <2>1, Zenon
  <2> QED BY <1>9, <1>10, <2>1, <2>2, Zenon
<1>12. Start(packet, d) = l /\ Start(packet, d + 1) = l + m
  <2>1. Start(packet, d) = Start(packet, previous + 1)
    BY <1>1, <1>3, <1>6, StartFacts, Zenon
  <2>2. Start(packet, d + 1) = Start(packet, d) + Len(Chunk(packet, d))
    BY <1>1, <1>3, StartFacts, Zenon
  <2> QED BY <1>4, <1>8, <1>10, <2>1, <2>2, Zenon
<1>13. todo' = {k \in DOMAIN packet'.options : previous' < k}
  <2>1. \A k \in DOMAIN packet.options : k \in Nat
    BY <1>1, NumberFacts, Zenon
  <2>2. \A k \in DOMAIN packet.options : previous < k /\ k # d <=> d < k
    <3> TAKE k \in DOMAIN packet.options
    <3>1. k \in Nat /\ (k <= previous \/ d <= k)
      BY <1>5, <2>1, Zenon
    <3> QED BY <1>1, <1>3, <3>1, SMT
  <2>3. todo \ {d} = {k \in DOMAIN packet.options : d < k}
    BY <1>4, <2>2, Zenon
  <2> QED BY <1>2, <2>3, Zenon
<1>14. \A k \in DOMAIN packet'.options : k <= previous' => Laid(packet', wire', k)
  <2> SUFFICES ASSUME NEW k \in DOMAIN packet.options, k <= d PROVE Laid(packet, w, k)
    BY <1>2, <1>11, Zenon
  <2>1. CASE k = d
    BY <1>8, <1>10, <1>11, <1>12, <2>1, Zenon DEF Laid
  <2>2. CASE k # d
    <3>1. k \in Nat /\ (k <= previous \/ d <= k)
      BY <1>1, <1>5, NumberFacts, Zenon
    <3>2. k <= previous /\ k + 1 \in Nat /\ previous + 1 \in Nat /\ k + 1 <= previous + 1
      BY <1>1, <1>3, <2>2, <3>1, SMT
    <3>3. Laid(packet, wire, k)
      BY <1>4, <3>2, Zenon
    <3>4. Start(packet, k + 1) <= l
      BY <1>1, <1>4, <1>10, <3>2, StartFacts, Zenon
    <3>5. \A j \in Nat : 1 <= j /\ j <= l => w[j] = wire[j]
      <4>1. \A j \in Nat : 1 <= j /\ j <= l => j \in 1 .. l
        BY SMT
      <4> QED BY <1>11, <4>1, Zenon
    <3> QED BY <1>1, <3>3, <3>4, <3>5, LaidKept, Zenon
  <2> QED BY <2>1, <2>2, Zenon
<1>15. Len(wire') = Start(packet', previous' + 1)
  BY <1>2, <1>11, <1>12, Zenon
<1> QED BY <1>2, <1>3, <1>13, <1>14, <1>15, Zenon DEF Encoding

LEMMA LayoutEncodePayload == TInv /\ Layout /\ EncodePayload => Layout'
<1> SUFFICES ASSUME TInv, Layout, EncodePayload, Proper(packet') PROVE Encoded'
  <2>1. EncodePayload => phase' = "wire"
    BY Zenon DEF EncodePayload
  <2>2. phase' = "wire" => Encoding' /\ Received' /\ Decoding' /\ Decoded'
    BY SMT DEF Encoding, Received, Decoding, Decoded
  <2>3. ASSUME TInv, Layout, EncodePayload, Proper(packet') => Encoded' PROVE Layout'
    BY <2>1, <2>2, <2>3, Zenon DEF Layout
  <2> QED BY <2>3, Zenon
<1>1. /\ DOMAIN packet.options \subseteq Numbers /\ IsOptions(packet.options)
      /\ packet.payload \in Seq(Bytes) /\ wire \in Seq(Bytes) /\ previous \in Nat
  BY Carried, Zenon
<1>2. /\ phase = "options" /\ todo = {} /\ packet' = packet
      /\ wire' = wire \o <<PayloadMarker>> \o packet.payload /\ phase' = "wire"
  BY Zenon DEF EncodePayload
<1>3. /\ previous \in {0} \cup DOMAIN packet.options
      /\ todo = {k \in DOMAIN packet.options : previous < k}
      /\ Len(wire) = Start(packet, previous + 1)
      /\ \A k \in DOMAIN packet.options : k <= previous => Laid(packet, wire, k)
  BY <1>2, Zenon DEF Layout, Encoding
<1>4. /\ \A k \in DOMAIN packet.options : k <= previous
      /\ Start(packet, End) = Start(packet, previous + 1)
  <2>1. \A k \in DOMAIN packet.options : ~ (previous < k)
    BY <1>2, <1>3, Zenon
  <2> QED BY <1>1, <1>3, <2>1, NextAfter, Zenon
<1>5. PICK m \in Seq(Bytes) : m = <<PayloadMarker>> /\ Len(m) = 1 /\ m[1] = PayloadMarker
  <2>1. PayloadMarker \in Bytes
    BY ByteFacts, SMT DEF PayloadMarker
  <2> QED BY <2>1, ShortBytes, Zenon
<1>6. PICK l \in Nat, n \in Nat : l = Len(wire) /\ n = Len(packet.payload)
  BY <1>1, BytesOf, Zenon
<1>7. PICK u \in Seq(Bytes) : /\ u = wire \o m /\ Len(u) = l + 1
                              /\ \A k \in 1 .. l : u[k] = wire[k]
                              /\ u[l + 1] = PayloadMarker
  <2>1. /\ wire \o m \in Seq(Bytes) /\ Len(wire \o m) = Len(wire) + Len(m)
        /\ \A k \in 1 .. Len(wire) : (wire \o m)[k] = wire[k]
        /\ \A k \in 1 .. Len(m) : (wire \o m)[Len(wire) + k] = m[k]
    BY <1>1, <1>5, ConcatBytes, Zenon
  <2>2. PICK u \in Seq(Bytes) : u = wire \o m
    BY <2>1, Zenon
  <2>3. 1 \in 1 .. 1
    BY SMT
  <2>4. u[l + 1] = PayloadMarker
    BY <1>5, <1>6, <2>1, <2>2, <2>3, Zenon
  <2> QED BY <1>5, <1>6, <2>1, <2>2, <2>4, Zenon
<1>8. PICK w \in Seq(Bytes) : /\ w = wire' /\ Len(w) = (l + 1) + n
                              /\ \A k \in 1 .. l + 1 : w[k] = u[k]
                              /\ \A k \in 1 .. n : w[(l + 1) + k] = packet.payload[k]
  <2>1. /\ u \o packet.payload \in Seq(Bytes)
        /\ Len(u \o packet.payload) = Len(u) + Len(packet.payload)
        /\ \A k \in 1 .. Len(u) : (u \o packet.payload)[k] = u[k]
        /\ \A k \in 1 .. Len(packet.payload) :
              (u \o packet.payload)[Len(u) + k] = packet.payload[k]
    BY <1>1, <1>7, ConcatBytes, Zenon
  <2>2. PICK w \in Seq(Bytes) : w = u \o packet.payload
    BY <2>1, Zenon
  <2>3. wire' = w
    BY <1>2, <1>5, <1>7, <2>2, Zenon
  <2>4. Len(u) = l + 1 /\ Len(packet.payload) = n
    BY <1>6, <1>7, Zenon
  <2>5. Len(w) = (l + 1) + n
    BY <2>1, <2>2, <2>4, Zenon
  <2>6. \A k \in 1 .. l + 1 : w[k] = u[k]
    BY <2>1, <2>2, <2>4, Zenon
  <2>7. \A k \in 1 .. n : w[(l + 1) + k] = packet.payload[k]
    BY <2>1, <2>2, <2>4, Zenon
  <2> QED BY <2>3, <2>5, <2>6, <2>7, Zenon
<1>9. /\ \A k \in Nat : 1 <= k /\ k <= l => w[k] = wire[k]
      /\ w[l + 1] = PayloadMarker
  <2>1. \A k \in Nat : 1 <= k /\ k <= l => k \in 1 .. l /\ k \in 1 .. l + 1
    BY SMT
  <2>2. l + 1 \in 1 .. l + 1
    BY SMT
  <2> QED BY <1>7, <1>8, <2>1, <2>2, Zenon
<1>10. Start(packet, End) = l
  BY <1>3, <1>4, <1>6, Zenon
<1>11. ASSUME NEW d \in DOMAIN packet.options PROVE Laid(packet, w, d)
  <2>1. d <= previous /\ Laid(packet, wire, d)
    BY <1>3, <1>4, Zenon
  <2>2. d + 1 \in Nat /\ previous + 1 \in Nat /\ d + 1 <= previous + 1
    <3>1. d \in Nat
      BY <1>1, NumberFacts, Zenon
    <3> QED BY <1>1, <2>1, <3>1, SMT
  <2>3. Start(packet, d + 1) <= l
    BY <1>1, <1>3, <1>6, <2>2, StartFacts, Zenon
  <2> QED BY <1>1, <1>9, <2>1, <2>3, LaidKept, Zenon
<1>12. Len(w) = Size(packet)
  BY <1>6, <1>8, <1>10, Zenon DEF Size
<1>13. \A j \in 1 .. Len(packet.payload) :
          w[Start(packet, End) + 1 + j] = packet.payload[j]
  BY <1>6, <1>8, <1>10, Zenon
<1>14. w[Start(packet, End) + 1] = PayloadMarker
  BY <1>9, <1>10, Zenon
<1>15. Behind'
  BY <1>2, <1>8, <1>11, <1>13, <1>14, Zenon DEF Behind
<1> QED BY <1>2, <1>8, <1>12, <1>15, Zenon DEF Encoded

LEMMA LayoutReceive == TInv /\ Layout /\ Receive => Layout'
<1> SUFFICES ASSUME TInv, Layout, Receive, Proper(packet') PROVE Received'
  <2>1. Receive => phase' = "header"
    BY Zenon DEF Receive
  <2>2. phase' = "header" => Encoding' /\ Encoded' /\ Decoding' /\ Decoded'
    BY SMT DEF Encoding, Encoded, Decoding, Decoded
  <2>3. ASSUME TInv, Layout, Receive, Proper(packet') => Received' PROVE Layout'
    BY <2>1, <2>2, <2>3, Zenon DEF Layout
  <2> QED BY <2>3, Zenon
<1>1. /\ DOMAIN packet.options \subseteq Numbers /\ IsOptions(packet.options)
      /\ packet.payload \in Seq(Bytes) /\ wire \in Seq(Bytes)
  BY Carried, Zenon
<1>2. /\ phase = "wire" /\ wire' = Cut(wire, 0, ReceiveBuffer) /\ packet' = packet
  BY Zenon DEF Receive, Slice, Cut
<1>3. Len(wire) = Size(packet) /\ Behind
  BY <1>2, Zenon DEF Layout, Encoded
<1>4. PICK r \in Nat : r = ReceiveBuffer
  BY SMT DEF ReceiveBuffer
<1>5. PICK w \in Seq(Bytes) :
         /\ w = wire' /\ Len(w) = (IF Len(wire) <= r THEN Len(wire) ELSE r)
         /\ \A k \in Nat : 1 <= k /\ k <= Len(wire) /\ k <= r => w[k] = wire[k]
  BY <1>1, <1>2, <1>4, CutStart, Zenon
<1>6. PICK l \in Nat, m \in Nat, b \in Nat, n \in Nat :
         /\ l = Len(wire) /\ m = Len(w) /\ b = Start(packet, End) /\ n = Len(packet.payload)
  <2>1. End \in Nat
    BY SMT DEF End
  <2> QED BY <1>1, <1>5, <2>1, BytesOf, StartFacts, Zenon
<1>7. m <= l /\ m <= r /\ l = b + 1 + n
  <2>1. m = (IF l <= r THEN l ELSE r)
    BY <1>5, <1>6, Zenon
  <2>2. l = b + 1 + n
    BY <1>3, <1>6, Zenon DEF Size
  <2> QED BY <2>1, <2>2, SMT
<1>8. \A k \in Nat : 1 <= k /\ k <= m => w[k] = wire[k]
  <2>1. \A k \in Nat : k <= m => k <= l /\ k <= r
    BY <1>7, SMT
  <2> QED BY <1>5, <1>6, <2>1, Zenon
<1>9. ASSUME b <= m, NEW d \in DOMAIN packet.options PROVE Laid(packet, w, d)
  <2>1. b <= l
    BY <1>7, SMT
  <2>2. Laid(packet, wire, d)
    BY <1>3, <1>6, <2>1, Zenon DEF Behind
  <2>3. d + 1 \in Nat /\ End \in Nat /\ d + 1 <= End
    <3>1. d \in Nat /\ d <= 60
      BY <1>1, NumberFacts, Zenon
    <3> QED BY <3>1, SMT DEF End
  <2>4. Start(packet, d + 1) \in Nat /\ Start(packet, d + 1) <= b
    BY <1>1, <1>6, <2>3, StartFacts, Zenon
  <2>5. Start(packet, d + 1) <= m
    BY <1>9, <2>4, SMT
  <2> QED BY <1>1, <1>8, <2>2, <2>5, LaidKept, Zenon
<1>10. ASSUME b < m PROVE w[b + 1] = PayloadMarker
  <2>1. b < l /\ b + 1 \in Nat /\ 1 <= b + 1 /\ b + 1 <= m
    BY <1>7, <1>10, SMT
  <2>2. wire[b + 1] = PayloadMarker
    BY <1>3, <1>6, <2>1, SMT DEF Behind
  <2> QED BY <1>8, <2>1, <2>2, Zenon
<1>11. ASSUME NEW j \in 1 .. n, b + 1 + j <= m PROVE w[b + 1 + j] = packet.payload[j]
  <2>1. b + 1 + j <= l /\ b + 1 + j \in Nat /\ 1 <= b + 1 + j
    BY <1>7, <1>11, SMT
  <2>2. wire[b + 1 + j] = packet.payload[j]
    BY <1>3, <1>6, <2>1, Zenon DEF Behind
  <2> QED BY <1>8, <1>11, <2>1, <2>2, Zenon
<1>12. Behind'
  BY <1>2, <1>5, <1>6, <1>9, <1>10, <1>11, Zenon DEF Behind
<1>13. Len(wire') = IF Size(packet') <= ReceiveBuffer THEN Size(packet') ELSE ReceiveBuffer
  BY <1>2, <1>3, <1>4, <1>5, Zenon
<1> QED BY <1>12, <1>13, Zenon DEF Received

LEMMA LayoutDecodeHeader == TInv /\ Layout /\ DecodeHeader => Layout'
<1> SUFFICES ASSUME TInv, Layout, DecodeHeader, Proper(packet')
             PROVE  Received' /\ Decoding'
  <2>1. DecodeHeader => phase' = "decode"
    BY Zenon DEF DecodeHeader
  <2>2. phase' = "decode" => Encoding' /\ Encoded' /\ Decoded'
    BY SMT DEF Encoding, Encoded, Decoded
  <2>3. ASSUME TInv, Layout, DecodeHeader, Proper(packet') => Received' /\ Decoding'
        PROVE  Layout'
    BY <2>1, <2>2, <2>3, Zenon DEF Layout
  <2> QED BY <2>3, Zenon
<1>1. /\ DOMAIN packet.options \subseteq Numbers /\ IsOptions(packet.options)
  BY Carried, Zenon
<1>2. /\ phase = "header" /\ packet' = packet /\ wire' = wire /\ previous' = 0
      /\ got'.options = NoOption /\ at' = 5
  BY TypedDecodeHeader, Zenon DEF DecodeHeader
<1>3. Received'
  BY <1>2, Zenon DEF Layout, Received, Behind
<1>4. at' = Start(packet', previous' + 1)
  <2>1. previous' + 1 = 1
    BY <1>2, SMT
  <2> QED BY <1>1, <1>2, <2>1, StartFacts, Zenon
<1>5. got'.options = [d \in {k \in DOMAIN packet'.options : k <= previous'}
                        |-> packet'.options[d]]
  <2>1. \A k \in DOMAIN packet.options : ~ (k <= 0)
    <3>1. \A k \in DOMAIN packet.options : k \in Nat /\ 0 < k
      BY <1>1, NumberFacts, Zenon
    <3> QED BY <3>1, SMT
  <2>2. {k \in DOMAIN packet'.options : k <= previous'} = {}
    BY <1>2, <2>1, Zenon
  <2>3. NoOption = [d \in {} |-> packet'.options[d]]
    BY SMT DEF NoOption
  <2> QED BY <1>2, <2>2, <2>3, Zenon
<1>6. previous' \in {0} \cup DOMAIN packet'.options
  BY <1>2, Zenon
<1> QED BY <1>3, <1>4, <1>5, <1>6, Zenon DEF Decoding

(* The decoder reads an option that lies at its place: number, length and  *)
(* value are the ones that were encoded (coap_packet.py:359-397).          *)
LEMMA OptionRead ==
    ASSUME TInv, Proper(packet), NEW d, d \in DOMAIN packet.options,
           Prev(packet, d) = previous, Laid(packet, wire, d), at = Start(packet, d),
           at + Len(Chunk(packet, d)) <= Len(wire)
    PROVE  /\ at < Len(wire) /\ wire[at + 1] # PayloadMarker
           /\ Number = d
           /\ ValueOf(Number, Slice(ValueStart, ValueStart + Length)) = packet.options[d]
           /\ ValueStart + Length = at + Len(Chunk(packet, d))
<1>1. /\ DOMAIN packet.options \subseteq Numbers /\ IsOptions(packet.options)
      /\ wire \in Seq(Bytes) /\ previous \in Nat /\ at \in Nat
  BY Carried, Zenon
<1>2. PICK delta \in Nat, l \in Nat :
          /\ delta = d - previous /\ l = Len(Field(packet, d))
          /\ delta <= 60 /\ Encodable(delta, l) /\ OptionHeader(delta, l) \in Seq(Bytes)
  <2>1. /\ d - Prev(packet, d) \in Nat /\ d - Prev(packet, d) <= 60
        /\ OptionHeader(d - Prev(packet, d), Len(Field(packet, d))) \in Seq(Bytes)
        /\ Encodable(d - Prev(packet, d), Len(Field(packet, d)))
    BY <1>1, ChunkFacts, Zenon
  <2>2. Len(Field(packet, d)) \in Nat
    BY <1>1, FieldFacts, Zenon
  <2> QED BY <2>1, <2>2, Zenon
<1>3. PICK h \in Seq(Bytes), s \in Seq(Bytes) :
          h = OptionHeader(delta, l) /\ s = Field(packet, d) /\ l = Len(s)
  BY <1>1, <1>2, FieldFacts, Zenon
<1>4. PICK c \in Seq(Bytes) : c = Chunk(packet, d) /\ c = h \o s
  BY <1>1, <1>2, <1>3, ChunkFacts, Zenon DEF Chunk
<1>5. HeaderReads(h, delta, l)
  BY <1>2, <1>3, HeaderFacts, Zenon
<1>6. PICK m \in Nat : m = Len(h)
  BY <1>3, BytesOf, Zenon
<1>7. /\ Len(c) = m + l
      /\ \A k \in 1 .. m : c[k] = h[k]
      /\ \A k \in 1 .. l : c[m + k] = s[k]
  <2>1. /\ Len(h \o s) = Len(h) + Len(s)
        /\ \A k \in 1 .. Len(h) : (h \o s)[k] = h[k]
        /\ \A k \in 1 .. Len(s) : (h \o s)[Len(h) + k] = s[k]
    BY ConcatBytes, Zenon
  <2>2. c = h \o s /\ Len(h) = m /\ Len(s) = l
    BY <1>3, <1>4, <1>6, Zenon
  <2> QED BY <2>1, <2>2, Zenon
<1>8. PICK n \in Nat : n = Len(wire) /\ at + (m + l) <= n
  BY <1>1, <1>4, <1>7, BytesOf, Zenon
<1>9. \A k \in 1 .. m + l : wire[at + k] = c[k]
  BY <1>4, <1>7, Zenon DEF Laid
<1>10. \A k \in 1 .. m : wire[at + k] = h[k]
  <2>1. \A k \in 1 .. m : k \in 1 .. m + l
    BY SMT
  <2> QED BY <1>7, <1>9, <2>1, Zenon
<1>11. PICK b : b = h[1]
  BY Zenon
<1>12. PICK e \in Nat, f \in Nat :
          /\ e = Extension(b \div 16) /\ f = Extension(b % 16)
          /\ b \in Nat /\ b # PayloadMarker /\ m = 1 + e + f
          /\ (b \div 16) + BytesInt(SubSeq(h, 2, 1 + e)) = delta
  <2>1. Extension(b \div 16) \in Nat /\ Extension(b % 16) \in Nat
    BY SMT DEF Extension
  <2>2. /\ b \in Nat /\ b # PayloadMarker
        /\ m = 1 + Extension(b \div 16) + Extension(b % 16)
        /\ (b \div 16) + BytesInt(SubSeq(h, 2, 1 + Extension(b \div 16))) = delta
    BY <1>5, <1>6, <1>11, SMT DEF HeaderReads, PayloadMarker
  <2> QED BY <2>1, <2>2, Zenon
<1>23. (IF b % 16 = 14 THEN 269 ELSE b % 16) + BytesInt(SubSeq(h, 2 + e, m)) = l
  BY <1>5, <1>6, <1>11, <1>12, SMT DEF HeaderReads
<1>13. wire[at + 1] = b /\ at < n
  <2>1. 1 \in 1 .. m
    BY <1>12, SMT
  <2>2. at < n
    <3>1. at \in Nat /\ m \in Nat /\ 1 <= m /\ l \in Nat /\ at + (m + l) <= n /\ n \in Nat
      BY <1>1, <1>8, <2>1, SMT
    <3> QED BY <3>1, SMT
  <2> QED BY <1>10, <1>11, <2>1, <2>2, Zenon
<1>14. AfterDelta = at + e /\ ValueStart = at + m
  <2>1. AfterDelta = at + e
    BY <1>12, <1>13, Zenon DEF AfterDelta, Byte
  <2>2. ValueStart = AfterDelta + f + 1
    BY <1>12, <1>13, Zenon DEF ValueStart, Byte
  <2>3. m = 1 + e + f
    BY <1>12, Zenon
  <2> QED BY <1>1, <2>1, <2>2, <2>3, SMT
<1>15. ASSUME NEW i \in Nat, NEW j \in Nat, i <= j, j <= m
       PROVE  Cut(wire, at + i, at + j) = SubSeq(h, i + 1, j)
  <2>1. at + m <= n
    BY <1>1, <1>8, SMT
  <2>2. Piece(wire, at, h) /\ j <= Len(h)
    BY <1>1, <1>3, <1>6, <1>8, <1>10, <1>15, <2>1, Zenon DEF Piece
  <2>3. IsCut(SubSeq(h, i + 1, j), h, i, j)
    <3>1. (IF j < m THEN j ELSE m) = j
      BY <1>15, SMT
    <3> QED BY <1>6, <3>1, Zenon DEF Cut, IsCut
  <2>4. IsCut(SubSeq(h, i + 1, j), wire, at + i, at + j)
    BY <1>15, <2>2, <2>3, PieceOf, Zenon
  <2> QED BY <2>4, Zenon DEF IsCut
<1>17. /\ Slice(at + 1, AfterDelta + 1) = SubSeq(h, 2, 1 + e)
       /\ Slice(AfterDelta + 1, ValueStart) = SubSeq(h, 2 + e, m)
  <2>1. /\ AfterDelta + 1 = at + (1 + e) /\ 1 <= 1 + e /\ 1 + e <= m /\ m <= m
        /\ 1 + e \in Nat /\ 1 \in Nat /\ 1 + 1 = 2 /\ (1 + e) + 1 = 2 + e
    <3>1. AfterDelta = at + e /\ m = 1 + e + f
      BY <1>12, <1>14, Zenon
    <3> QED BY <1>1, <3>1, SMT
  <2>2. Cut(wire, at + 1, at + (1 + e)) = SubSeq(h, 1 + 1, 1 + e)
    BY <1>15, <2>1, Zenon
  <2>3. Cut(wire, at + (1 + e), at + m) = SubSeq(h, (1 + e) + 1, m)
    BY <1>15, <2>1, Zenon
  <2>4. /\ Slice(at + 1, AfterDelta + 1) = Cut(wire, at + 1, AfterDelta + 1)
        /\ Slice(AfterDelta + 1, ValueStart) = Cut(wire, AfterDelta + 1, ValueStart)
    BY Zenon DEF Slice, Cut
  <2> QED BY <1>14, <2>1, <2>2, <2>3, <2>4, Zenon
<1>18. Number = d
  <2>1. PICK v : v = BytesInt(SubSeq(h, 2, 1 + e))
    BY Zenon
  <2>2. Number = previous + (b \div 16) + v
    BY <1>13, <1>17, <2>1, Zenon DEF Number, Byte
  <2>3. (b \div 16) + v = d - previous
    BY <1>2, <1>12, <2>1, Zenon
  <2>4. SubSeq(h, 2, 1 + e) \in Seq(Bytes)
    <3>1. 1 \in Nat /\ 1 + e \in Nat /\ 1 + 1 = 2 /\ 1 + e <= m
      <4>1. m = 1 + e + f
        BY <1>12, Zenon
      <4> QED BY <4>1, SMT
    <3>2. Cut(h, 1, 1 + e) \in Seq(Bytes)
      BY <3>1, CutFacts, Zenon
    <3>3. (IF 1 + e < m THEN 1 + e ELSE m) = 1 + e
      BY <3>1, SMT
    <3>4. Cut(h, 1, 1 + e) = SubSeq(h, 1 + 1, 1 + e)
      BY <1>6, <3>3, Zenon DEF Cut
    <3> QED BY <3>1, <3>2, <3>4, Zenon
  <2>5. v \in Nat
    <3>1. v \in Values
      BY <2>1, <2>4, BytesIntType, Zenon
    <3> QED BY <3>1, SMT DEF Values
  <2>6. d \in Nat
    BY <1>1, NumberFacts, Zenon
  <2>7. PICK q \in Nat : q = b \div 16
    BY <1>12, SMT
  <2>8. Number = previous + q + v /\ q + v = d - previous
    BY <2>2, <2>3, <2>7, Zenon
  <2>9. previous \in Nat /\ v \in Nat /\ d \in Nat /\ q \in Nat
    BY <1>1, <2>5, <2>6, <2>7, Zenon
  <2> QED BY <2>8, <2>9, SMT
<1>19. Length = l
  <2>1. PICK q : q = 269
    BY Zenon
  <2>2. (IF b % 16 = 14 THEN q ELSE b % 16) + BytesInt(SubSeq(h, 2 + e, m)) = l
    BY <1>23, <2>1, SMT
  <2>3. Length = (IF b % 16 = 14 THEN q ELSE b % 16) + BytesInt(Slice(AfterDelta + 1, ValueStart))
    <3>1. Byte(at) = b
      BY <1>13, Zenon DEF Byte
    <3> QED BY <2>1, <3>1, SMT DEF Length
  <2> QED BY <1>17, <2>2, <2>3, Zenon
<1>20. Slice(ValueStart, ValueStart + Length) = s
  <2>1. PICK a \in Nat : a = at + m /\ a + l <= n
    BY <1>1, <1>8, SMT
  <2>2. ASSUME NEW k \in 1 .. l PROVE wire[a + k] = s[k]
    <3>1. m + k \in 1 .. m + l /\ at + (m + k) = a + k
      BY <1>1, <2>1, <2>2, SMT
    <3> QED BY <1>7, <1>9, <3>1, Zenon
  <2>3. 0 \in Nat /\ 0 <= l /\ a + 0 = a
    BY SMT
  <2>4. Cut(wire, a + 0, a + l) = s
    <3>1. PICK z \in Nat : z = 0 /\ z <= l
      BY <2>3, Zenon
    <3>2. l <= Len(s)
      BY <1>3, SMT
    <3>3. Piece(wire, a, s)
      BY <1>1, <1>3, <1>8, <2>1, <2>2, Zenon DEF Piece
    <3>4. IsCut(s, s, z, l)
      BY <1>3, <3>1, CutWhole, Zenon DEF IsCut
    <3>5. IsCut(s, wire, a + z, a + l)
      BY <1>2, <3>1, <3>2, <3>3, <3>4, PieceOf, Zenon
    <3> QED BY <3>1, <3>5, Zenon DEF IsCut
  <2>5. Slice(ValueStart, ValueStart + Length) = Cut(wire, ValueStart, ValueStart + Length)
    BY Zenon DEF Slice, Cut
  <2> QED BY <1>14, <1>19, <2>1, <2>3, <2>4, <2>5, Zenon
<1>21. ValueOf(d, s) = packet.options[d]
  BY <1>1, <1>3, FieldFacts, Zenon
<1>22. ValueStart + Length = at + Len(Chunk(packet, d))
  <2>1. (at + m) + l = at + (m + l)
    BY <1>1, SMT
  <2> QED BY <1>4, <1>7, <1>14, <1>19, <2>1, Zenon
<1> QED BY <1>8, <1>12, <1>13, <1>18, <1>20, <1>21, <1>22, Zenon


(* The next turn of the decoder: the option that follows on the last one,  *)
(* if the options were not cut.                                            *)
LEMMA NextRead ==
    ASSUME TInv, Proper(packet), phase = "decode", Received, Decoding,
           Start(packet, End) <= Len(wire)
    PROVE  \/ /\ ~ AtOption /\ at = Start(packet, End)
              /\ \A k \in DOMAIN packet.options : k <= previous
           \/ \E d \in DOMAIN packet.options :
                 /\ AtOption /\ Number = d /\ previous < d
                 /\ \A k \in DOMAIN packet.options : k <= previous \/ d <= k
                 /\ ValueOf(Number, Slice(ValueStart, ValueStart + Length)) = packet.options[d]
                 /\ ValueStart + Length = Start(packet, d + 1)
<1>1. /\ DOMAIN packet.options \subseteq Numbers /\ IsOptions(packet.options)
      /\ wire \in Seq(Bytes) /\ previous \in Nat /\ at \in Nat
  BY Carried, Zenon
<1>2. /\ previous \in {0} \cup DOMAIN packet.options
      /\ at = Start(packet, previous + 1)
  BY Zenon DEF Decoding
<1>3. Behind
  <2>1. phase \in {"header", "decode", "decoded"}
    BY SMT
  <2> QED BY <2>1, Zenon DEF Received
<1>4. CASE /\ \A k \in DOMAIN packet.options : k <= previous
           /\ Start(packet, End) = Start(packet, previous + 1)
  <2>1. at = Start(packet, End)
    BY <1>2, <1>4, Zenon
  <2>2. at < Len(wire) => wire[at + 1] = PayloadMarker
    BY <1>3, <2>1, Zenon DEF Behind
  <2>3. ~ AtOption
    BY <2>2, Zenon DEF AtOption, Byte
  <2> QED BY <1>4, <2>1, <2>3, Zenon
<1>5. ASSUME NEW d \in DOMAIN packet.options,
             previous < d, Prev(packet, d) = previous,
             \A k \in DOMAIN packet.options : k <= previous \/ d <= k,
             Start(packet, d) = Start(packet, previous + 1),
             Start(packet, d + 1) = Start(packet, previous + 1) + Len(Chunk(packet, d)),
             Start(packet, d + 1) <= Start(packet, End)
      PROVE  /\ AtOption /\ Number = d
             /\ ValueOf(Number, Slice(ValueStart, ValueStart + Length)) = packet.options[d]
             /\ ValueStart + Length = Start(packet, d + 1)
  <2>1. Laid(packet, wire, d)
    BY <1>3, <1>5, Zenon DEF Behind
  <2>2. at = Start(packet, d) /\ Start(packet, d + 1) = at + Len(Chunk(packet, d))
    BY <1>2, <1>5, Zenon
  <2>3. at + Len(Chunk(packet, d)) <= Len(wire)
    <3>1. PICK x \in Nat, y \in Nat, z \in Nat :
             x = Start(packet, d + 1) /\ y = Start(packet, End) /\ z = Len(wire)
      <4>1. d + 1 \in Nat /\ End \in Nat
        <5>1. d \in Nat
          BY <1>1, <1>5, NumberFacts, Zenon
        <5> QED BY <5>1, SMT DEF End
      <4> QED BY <1>1, <4>1, StartFacts, BytesOf, Zenon
    <3>2. x <= y /\ y <= z
      BY <1>5, <3>1, Zenon
    <3>3. x <= z
      BY <3>2, SMT
    <3> QED BY <2>2, <3>1, <3>3, Zenon
  <2>4. /\ at < Len(wire) /\ wire[at + 1] # PayloadMarker
        /\ Number = d
        /\ ValueOf(Number, Slice(ValueStart, ValueStart + Length)) = packet.options[d]
        /\ ValueStart + Length = at + Len(Chunk(packet, d))
    BY <1>5, <2>1, <2>2, <2>3, OptionRead, Zenon
  <2> QED BY <2>2, <2>4, Zenon DEF AtOption, Byte
<1>6. \/ /\ \A k \in DOMAIN packet.options : k <= previous
         /\ Start(packet, End) = Start(packet, previous + 1)
      \/ \E d \in DOMAIN packet.options :
            /\ previous < d /\ Prev(packet, d) = previous
            /\ \A k \in DOMAIN packet.options : k <= previous \/ d <= k
            /\ Start(packet, d) = Start(packet, previous + 1)
            /\ Start(packet, d + 1) = Start(packet, previous + 1) + Len(Chunk(packet, d))
            /\ Start(packet, d + 1) <= Start(packet, End)
  BY <1>1, <1>2, NextAfter, Zenon
<1> QED BY <1>4, <1>5, <1>6, Zenon

LEMMA LayoutDecodeNext == TInv /\ Layout /\ DecodeNext => Layout'
<1> SUFFICES ASSUME TInv, Layout, DecodeNext, Proper(packet')
             PROVE  Received' /\ Decoding'
  <2>1. DecodeNext => phase' = "decode"
    BY Zenon DEF DecodeNext
  <2>2. phase' = "decode" => Encoding' /\ Encoded' /\ Decoded'
    BY SMT DEF Encoding, Encoded, Decoded
  <2>3. ASSUME TInv, Layout, DecodeNext, Proper(packet') => Received' /\ Decoding'
        PROVE  Layout'
    BY <2>1, <2>2, <2>3, Zenon DEF Layout
  <2> QED BY <2>3, Zenon
<1> DEFINE value == ValueOf(Number, Slice(ValueStart, ValueStart + Length))
           D == DOMAIN got.options \cup {Number}
           o == [d \in D |-> IF d = Number THEN value ELSE got.options[d]]
<1>1. /\ DOMAIN packet.options \subseteq Numbers /\ IsOptions(packet.options)
      /\ previous \in Nat /\ Readable(got)
  BY Carried, Zenon
<1>2. /\ phase = "decode" /\ AtOption /\ got' = [got EXCEPT !.options = o]
      /\ at' = ValueStart + Length /\ previous' = Number
      /\ packet' = packet /\ wire' = wire /\ phase' = "decode"
  BY Zenon DEF DecodeNext
<1>3. /\ Proper(packet) /\ Received /\ Decoding
  BY <1>2, Zenon DEF Layout
<1>4. Received'
  <2>1. phase \in {"header", "decode", "decoded"}
    BY <1>2, SMT
  <2> QED BY <1>2, <1>3, <2>1, Zenon DEF Received, Behind
<1> SUFFICES ASSUME Start(packet, End) <= Len(wire)
             PROVE  /\ previous' \in {0} \cup DOMAIN packet.options
                    /\ at' = Start(packet, previous' + 1)
                    /\ got'.options = [k \in {j \in DOMAIN packet.options : j <= previous'}
                                         |-> packet.options[k]]
  BY <1>2, <1>4, Zenon DEF Decoding
<1>5. PICK d \in DOMAIN packet.options :
         /\ Number = d /\ previous < d
         /\ \A k \in DOMAIN packet.options : k <= previous \/ d <= k
         /\ value = packet.options[d] /\ ValueStart + Length = Start(packet, d + 1)
  BY <1>2, <1>3, NextRead, Zenon
<1> HIDE DEF value
<1>6. got.options = [k \in {j \in DOMAIN packet.options : j <= previous}
                       |-> packet.options[k]]
  BY <1>2, <1>3, Zenon DEF Decoding
<1>7. got'.options = o
  <2>1. got \in [version : Nat, type : Nat, token : Seq(Bytes), code : Bytes,
                 mid : 0 .. MidLimit - 1, options : {got.options}, payload : Seq(Bytes)]
    BY <1>1, Zenon DEF Readable
  <2> HIDE DEF o
  <2>2. [got EXCEPT !.options = o].options = o
    BY <2>1, SMT
  <2> QED BY <1>2, <2>2, Zenon
<1>8. \A k \in DOMAIN packet.options : k <= d <=> k <= previous \/ k = d
  <2>1. \A k \in DOMAIN packet.options : k \in Nat
    BY <1>1, NumberFacts, Zenon
  <2> QED BY <1>1, <1>5, <2>1, SMT
<1>9. D = {j \in DOMAIN packet.options : j <= d}
  <2>1. DOMAIN got.options = {j \in DOMAIN packet.options : j <= previous}
    BY <1>6, Zenon
  <2> QED BY <1>5, <1>8, <2>1, Zenon
<1>10. \A k \in D : (IF k = Number THEN value ELSE got.options[k]) = packet.options[k]
  <2> TAKE k \in D
  <2>1. CASE k = Number
    BY <1>5, <2>1, Zenon
  <2>2. CASE k # Number
    <3>1. k \in {j \in DOMAIN packet.options : j <= previous}
      BY <1>5, <1>8, <1>9, <2>2, Zenon
    <3> QED BY <1>6, <2>2, <3>1, Zenon
  <2> QED BY <2>1, <2>2, Zenon
<1>11. o = [k \in {j \in DOMAIN packet.options : j <= d} |-> packet.options[k]]
  <2>1. o = [k \in D |-> packet.options[k]]
    <3> HIDE DEF D
    <3> QED BY <1>10, Zenon
  <2> QED BY <1>9, <2>1, Zenon
<1> QED BY <1>2, <1>5, <1>7, <1>11, Zenon

(* The end of the decoder: all options have been read, and what is behind  *)
(* the marker is the payload, if nothing of it was cut.                    *)
LEMMA PayloadRead ==
    ASSUME TInv, Behind, at = Start(packet, End), Len(wire) = Size(packet)
    PROVE  (IF at + 1 < Len(wire) THEN Slice(at + 1, Len(wire)) ELSE <<>>) = packet.payload
<1>1. /\ packet.payload \in Seq(Bytes) /\ wire \in Seq(Bytes) /\ at \in Nat
  BY Carried, Zenon
<1>2. PICK s \in Seq(Bytes), n \in Nat, l \in Nat, a \in Nat :
         /\ s = packet.payload /\ n = Len(s) /\ l = Len(wire) /\ a = at + 1
  <2>1. at + 1 \in Nat
    BY <1>1, SMT
  <2> QED BY <1>1, <2>1, BytesOf, Zenon
<1>3. l = a + n
  BY <1>2, Zenon DEF Size
<1>4. CASE n = 0
  <2>1. ~ (a < l)
    BY <1>3, <1>4, SMT
  <2>2. s = <<>>
    BY <1>2, <1>4, EmptySeq, Zenon
  <2> QED BY <1>2, <2>1, <2>2, Zenon
<1>5. CASE n # 0
  <2>1. a < l
    BY <1>3, <1>5, SMT
  <2>2. Piece(wire, a, s)
    <3>1. \A k \in 1 .. n : a + k <= l
      BY <1>3, SMT
    <3>2. \A k \in 1 .. n : wire[a + k] = s[k]
      BY <1>2, <3>1, Zenon DEF Behind
    <3>3. a + n <= l
      BY <1>3, SMT
    <3> QED BY <1>1, <1>2, <3>2, <3>3, Zenon DEF Piece
  <2>3. PICK z \in Nat : z = 0 /\ z <= n /\ n <= n /\ a + z = a
    BY SMT
  <2>4. IsCut(s, s, z, n)
    BY <1>2, <2>3, CutWhole, Zenon DEF IsCut
  <2>5. IsCut(s, wire, a + z, a + n)
    BY <1>2, <2>2, <2>3, <2>4, PieceOf, Zenon
  <2>6. Slice(a, l) = s
    <3>1. Slice(a, l) = Cut(wire, a, l)
      BY Zenon DEF Slice, Cut
    <3> QED BY <1>3, <2>3, <2>5, <3>1, Zenon DEF IsCut
  <2> QED BY <1>2, <2>1, <2>6, Zenon
<1> QED BY <1>4, <1>5, Zenon

LEMMA LayoutDecodePayload == TInv /\ Layout /\ DecodePayload => Layout'
<1> SUFFICES ASSUME TInv, Layout, DecodePayload, Proper(packet')
             PROVE  Received' /\ Decoded'
  <2>1. DecodePayload => phase' = "decoded"
    BY Zenon DEF DecodePayload
  <2>2. phase' = "decoded" => Encoding' /\ Encoded' /\ Decoding'
    BY SMT DEF Encoding, Encoded, Decoding
  <2>3. ASSUME TInv, Layout, DecodePayload, Proper(packet') => Received' /\ Decoded'
        PROVE  Layout'
    BY <2>1, <2>2, <2>3, Zenon DEF Layout
  <2> QED BY <2>3, Zenon
<1> DEFINE payload == IF at + 1 < Len(wire) THEN Slice(at + 1, Len(wire)) ELSE <<>>
<1>1. /\ DOMAIN packet.options \subseteq Numbers /\ IsOptions(packet.options)
      /\ wire \in Seq(Bytes) /\ at \in Nat /\ Readable(got)
  BY Carried, Zenon
<1>2. /\ phase = "decode" /\ ~ AtOption /\ got' = [got EXCEPT !.payload = payload]
      /\ packet' = packet /\ wire' = wire /\ phase' = "decoded"
  BY Zenon DEF DecodePayload
<1>3. /\ Proper(packet) /\ Received /\ Decoding
  BY <1>2, Zenon DEF Layout
<1>4. phase \in {"header", "decode", "decoded"}
  BY <1>2, SMT
<1>5. Received'
  BY <1>2, <1>3, <1>4, Zenon DEF Received, Behind
<1> SUFFICES ASSUME Start(packet, End) <= Len(wire)
             PROVE  /\ got'.options = packet.options
                    /\ Size(packet) <= ReceiveBuffer => got'.payload = packet.payload
  BY <1>2, <1>5, Zenon DEF Decoded
<1>6. /\ at = Start(packet, End) /\ \A k \in DOMAIN packet.options : k <= previous
  BY <1>2, <1>3, NextRead, Zenon
<1>7. payload \in Seq(Bytes)
  <2>1. at + 1 \in Nat /\ Len(wire) \in Nat /\ <<>> \in Seq(Bytes)
    BY <1>1, SMT
  <2>2. Slice(at + 1, Len(wire)) \in Seq(Bytes)
    BY <1>1, <2>1, CutFacts, Zenon DEF Slice, Cut
  <2> QED BY <2>1, <2>2, Zenon
<1>8. ASSUME Size(packet) <= ReceiveBuffer PROVE payload = packet.payload
  <2>1. Len(wire) = Size(packet) /\ Behind
    BY <1>3, <1>4, <1>8, Zenon DEF Received
  <2> QED BY <1>6, <2>1, PayloadRead, Zenon
<1> HIDE DEF payload
<1>9. got'.options = got.options /\ got'.payload = payload
  BY <1>1, <1>2, <1>7, ReadablePayload, Zenon
<1>10. got.options = packet.options
  <2>1. got.options = [k \in {j \in DOMAIN packet.options : j <= previous}
                         |-> packet.options[k]]
    BY <1>2, <1>3, Zenon DEF Decoding
  <2>2. {j \in DOMAIN packet.options : j <= previous} = DOMAIN packet.options
    BY <1>6, Zenon
  <2>3. packet.options = [k \in DOMAIN packet.options |-> packet.options[k]]
    BY <1>1, Zenon DEF IsOptions
  <2> QED BY <2>1, <2>2, <2>3, Zenon
<1> QED BY <1>8, <1>9, <1>10, Zenon

LEMMA LayoutStep == TInv /\ Layout /\ [Next]_vars => Layout'
<1> SUFFICES ASSUME TInv, Layout, [Next]_vars PROVE Layout'
  OBVIOUS
<1>1. CASE UNCHANGED vars
  BY <1>1, Zenon DEF Layout, Encoding, Encoded, Received, Decoding, Decoded, Behind, vars
<1>2. CASE Answer
  <2>1. phase' = "new"
    BY <1>2, Zenon DEF Answer
  <2> QED BY <2>1, SMT DEF Layout, Encoding, Encoded, Received, Decoding, Decoded
<1>3. CASE Next
  BY <1>2, <1>3, LayoutEncodeHeader, LayoutEncodeNext, LayoutEncodePayload, LayoutReceive,
     LayoutDecodeHeader, LayoutDecodeNext, LayoutDecodePayload, Zenon DEF Next
<1> QED BY <1>1, <1>3, Zenon

-----------------------------------------------------------------------------
(* Where the packet comes from *)

LEMMA MessageShape ==
    TInv => /\ Sendable(Message) /\ Bounded(Message, transfer[2])
            /\ Message.type = CON /\ Message.mid = MessageId(index)
            /\ IsMethod(Message.code) \/ Message.code = CONTENT
<1> SUFFICES ASSUME TInv PROVE /\ Sendable(Message) /\ Bounded(Message, transfer[2])
                               /\ Message.type = CON /\ Message.mid = MessageId(index)
                               /\ IsMethod(Message.code) \/ Message.code = CONTENT
  OBVIOUS
<1>1. Legal(transfer, index)
  BY TypedParts, Zenon
<1>2. PICK t, i : t = transfer /\ i = index /\ Legal(t, i)
  BY <1>1, Zenon
<1>3. PICK p : p = MessageAt(t[1], t[2], t[3], i)
  BY Zenon
<1>4. Message = p
  BY <1>2, <1>3, Zenon DEF Message
<1> QED BY <1>2, <1>3, <1>4, MessageFacts, Zenon

(* The ACK depends on these parts of a message only.                       *)
LEMMA SameAck ==
    ASSUME NEW p, NEW q, p.code = q.code, p.mid = q.mid, p.token = q.token,
           p.options = q.options
    PROVE  AckOf(p) = AckOf(q)
<1>1. OptionCode(p) = OptionCode(q)
  BY Zenon DEF OptionCode
<1>2. Repeated(p) = Repeated(q)
  BY <1>1, Zenon DEF Repeated
<1> QED BY <1>2, Zenon DEF AckOf

LEMMA PacketBounded == TInv /\ Origin => Bounded(packet, transfer[2])
<1> SUFFICES ASSUME TInv, Origin PROVE Bounded(packet, transfer[2])
  OBVIOUS
<1>1. CASE packet = Message
  BY <1>1, MessageShape, Zenon
<1>2. CASE packet.payload = <<>> /\ DOMAIN packet.options \in {{}, {Block1}, {Block2}}
  BY <1>2, TypedParts, SmallBound, Zenon
<1> QED BY <1>1, <1>2, Zenon DEF Origin

(* With names that fit, all options of the packet are received.            *)
LEMMA OptionsArrive ==
    ASSUME TInv, Origin, Layout, phase = "decoded", NameFits
    PROVE  got.options = packet.options
<1>1. /\ DOMAIN packet.options \subseteq Numbers /\ IsOptions(packet.options)
      /\ packet.payload \in Seq(Bytes)
  BY Carried, Zenon
<1>2. Bounded(packet, transfer[2])
  BY PacketBounded, Zenon
<1>3. PICK r : r = ReceiveBuffer /\ r \in Nat
  BY SMT DEF ReceiveBuffer
<1>4. Start(packet, End) <= ReceiveBuffer /\ Proper(packet)
  BY <1>2, Zenon DEF Bounded, NameFits
<1>5. Received /\ Decoded
  BY <1>4, Zenon DEF Layout
<1>6. Len(wire) = IF Size(packet) <= ReceiveBuffer THEN Size(packet) ELSE ReceiveBuffer
  <2>1. phase \in {"header", "decode", "decoded"}
    BY SMT
  <2> QED BY <1>5, <2>1, Zenon DEF Received
<1>7. Start(packet, End) <= Len(wire)
  <2>1. PICK b \in Nat, n \in Nat, z \in Nat :
           b = Start(packet, End) /\ n = Len(packet.payload) /\ z = b + 1 + n
    <3>1. End \in Nat
      BY SMT DEF End
    <3>2. PICK b \in Nat, n \in Nat : b = Start(packet, End) /\ n = Len(packet.payload)
      BY <1>1, <3>1, BytesOf, StartFacts, Zenon
    <3>3. b + 1 + n \in Nat
      BY SMT
    <3> QED BY <3>2, <3>3, Zenon
  <2>2. Size(packet) = z
    BY <2>1, Zenon DEF Size
  <2>3. Len(wire) = (IF z <= r THEN z ELSE r) /\ b <= r
    BY <1>3, <1>4, <1>6, <2>1, <2>2, Zenon
  <2>4. b <= (IF z <= r THEN z ELSE r)
    BY <1>3, <2>1, <2>3, SMT
  <2> QED BY <2>1, <2>3, <2>4, Zenon
<1> QED BY <1>5, <1>7, Zenon DEF Decoded

LEMMA OriginInit == Init => Origin
  BY Zenon DEF Init, Origin, Message

LEMMA OriginStep == TInv /\ Origin /\ Layout /\ [Next]_vars => Origin'
<1> SUFFICES ASSUME TInv, Origin, Layout, [Next]_vars PROVE Origin'
  OBVIOUS
<1>1. CASE Answer
  <2>1. /\ phase = "decoded" /\ got.type = CON /\ packet' = AckOf(got)
        /\ transfer' = transfer /\ index' = index
    BY <1>1, Zenon DEF Answer
  <2>2. /\ got.type = packet.type /\ got.token = Token /\ got.code = packet.code
        /\ got.mid = packet.mid
    <3>1. phase \in {"decode", "decoded"}
      BY <2>1, SMT
    <3> QED BY <3>1, HeadedParts, Zenon
  <2>3. packet = Message
    <3>1. CON # ACK
      BY SMT DEF CON, ACK
    <3> QED BY <2>1, <2>2, <3>1, Zenon DEF Origin
  <2>4. /\ packet'.type = ACK /\ packet'.payload = <<>>
        /\ DOMAIN packet'.options \in {{}, {Block1}, {Block2}}
    BY <2>1, <2>2, TypedParts, AckShape, Zenon
  <2>5. ASSUME NameFits PROVE AckOf(got) = AckOf(Message)
    <3>1. got.options = packet.options
      BY <2>1, <2>5, OptionsArrive, Zenon
    <3>2. packet.token = Token
      BY TypedParts, TokenFacts, Zenon
    <3>3. AckOf(got) = AckOf(packet)
      BY <2>2, <3>1, <3>2, SameAck, Zenon
    <3> QED BY <2>3, <3>3, Zenon
  <2>6. Message' = Message /\ (NameFits' => NameFits)
    BY <2>1, Zenon DEF Message, NameFits
  <2> QED BY <2>1, <2>4, <2>5, <2>6, Zenon DEF Origin
<1>2. CASE ~ Answer
  <2>1. packet' = packet /\ transfer' = transfer /\ index' = index
    BY <1>2, Zenon DEF Next, vars, EncodeHeader, EncodeNext, EncodePayload, Receive,
       DecodeHeader, DecodeNext, DecodePayload
  <2> QED BY <2>1, Zenon DEF Origin, Message, NameFits
<1> QED BY <1>1, <1>2, Zenon

LEMMA IInvInit == Init => IInv
  BY TInvInit, OriginInit, LayoutInit, Zenon DEF IInv

LEMMA IInvStep == IInv /\ [Next]_vars => IInv'
  BY TInvStep, OriginStep, LayoutStep, Zenon DEF IInv

-----------------------------------------------------------------------------
(* The properties *)

LEMMA Invariance == Spec => []IInv
BY IInvInit, IInvStep, PTL DEF Spec

LEMMA TypeFromIInv == IInv => TypeOK
<1> SUFFICES ASSUME IInv PROVE TypeOK
  OBVIOUS
<1>1. TInv
  BY Zenon DEF IInv
<1>2. /\ phase \in {"new", "options", "wire", "header", "decode", "decoded"}
      /\ Sendable(packet) /\ Readable(got) /\ todo \subseteq DOMAIN packet.options
      /\ wire \in Seq(Bytes) /\ previous \in Nat /\ at \in Nat
  BY <1>1, TypedParts, Zenon
<1>3. packet.mid \in 0 .. MidLimit - 1
  BY <1>2, TokenFacts, Zenon
<1>4. got.mid \in 0 .. MidLimit - 1
  <2>1. got \in [version : Nat, type : Nat, token : Seq(Bytes), code : Bytes,
                 mid : 0 .. MidLimit - 1, options : {got.options}, payload : Seq(Bytes)]
    BY <1>2, Zenon DEF Readable
  <2> QED BY <2>1, SMT
<1>5. \A i \in DOMAIN wire : wire[i] \in Bytes
  <2>1. DOMAIN wire = 1 .. Len(wire)
    BY <1>2, SMT
  <2> QED BY <1>2, <2>1, BytesOf, Zenon
<1> QED BY <1>2, <1>3, <1>4, <1>5, Zenon DEF TypeOK

(* Message ids keep their 16 bits and every byte of a datagram is one,     *)
(* before encoding and after decoding whatever arrived                     *)
(* (coap_packet.py:263-397).                                               *)
THEOREM TypeCorrect == Spec => []TypeOK
BY Invariance, TypeFromIInv, PTL

LEMMA RoundTripFromIInv == IInv => RoundTrip
<1> SUFFICES ASSUME IInv, phase = "decoded", Fits PROVE got = packet
  BY Zenon DEF RoundTrip
<1>1. TInv /\ Origin /\ Layout
  BY Zenon DEF IInv
<1>2. /\ DOMAIN packet.options \subseteq Numbers /\ IsOptions(packet.options)
      /\ packet.payload \in Seq(Bytes) /\ Readable(got) /\ Sendable(packet)
  BY <1>1, Carried, TypedParts, Zenon
<1>3. Size(packet) <= ReceiveBuffer /\ Proper(packet)
  BY <1>1, PacketBounded, Zenon DEF Bounded, Fits
<1>4. Received /\ Decoded
  BY <1>1, <1>3, Zenon DEF Layout
<1>5. phase \in {"header", "decode", "decoded"} /\ phase \in {"decode", "decoded"}
  BY SMT
<1>6. Len(wire) = Size(packet)
  BY <1>3, <1>4, <1>5, Zenon DEF Received
<1>7. Start(packet, End) <= Len(wire)
  <2>1. End \in Nat
    BY SMT DEF End
  <2>2. PICK b \in Nat, n \in Nat : b = Start(packet, End) /\ n = Len(packet.payload)
    BY <1>2, <2>1, BytesOf, StartFacts, Zenon
  <2>3. b <= b + 1 + n
    BY SMT
  <2>4. Len(wire) = b + 1 + n
    BY <1>6, <2>2, Zenon DEF Size
  <2> QED BY <2>2, <2>3, <2>4, Zenon
<1>8. got.options = packet.options /\ got.payload = packet.payload
  BY <1>3, <1>4, <1>7, Zenon DEF Decoded
<1>9. /\ got.version = 1 /\ got.type = packet.type /\ got.token = Token
      /\ got.code = packet.code /\ got.mid = packet.mid
  BY <1>1, <1>5, HeadedParts, Zenon
<1>10. packet.version = 1 /\ packet.token = Token
  BY <1>2, TokenFacts, Zenon
<1>11. PICK g, q : g = got /\ q = packet
  BY Zenon
<1>12. /\ g = [version |-> g.version, type |-> g.type, token |-> g.token, code |-> g.code,
               mid |-> g.mid, options |-> g.options, payload |-> g.payload]
       /\ q = [version |-> q.version, type |-> q.type, token |-> q.token, code |-> q.code,
               mid |-> q.mid, options |-> q.options, payload |-> q.payload]
  <2>1. g \in [version : Nat, type : Nat, token : Seq(Bytes), code : Bytes,
               mid : 0 .. MidLimit - 1, options : {g.options}, payload : Seq(Bytes)]
    BY <1>2, <1>11, Zenon DEF Readable
  <2>2. q \in [version : {1}, type : {CON, ACK}, token : {Token}, code : Bytes,
               mid : 0 .. MidLimit - 1, options : {q.options}, payload : Seq(Bytes)]
    BY <1>2, <1>11, Zenon DEF Sendable
  <2> QED BY <2>1, <2>2, SMT
<1>13. /\ g.version = q.version /\ g.type = q.type /\ g.token = q.token /\ g.code = q.code
       /\ g.mid = q.mid /\ g.options = q.options /\ g.payload = q.payload
  BY <1>8, <1>9, <1>10, <1>11, Zenon
<1> QED BY <1>11, <1>12, <1>13, Zenon

(* A message that fits into the receive buffer is decoded as it was        *)
(* encoded: header, every option with its number and value, and payload    *)
(* (coap_packet.py:263-397).                                               *)
THEOREM RoundTripSafe == Spec => []RoundTrip
BY Invariance, RoundTripFromIInv, PTL

LEMMA SameBlock ==
    ASSUME NEW p, NEW q, p.options = q.options
    PROVE  BlockId(p) = BlockId(q)
<1>1. OptionCode(p) = OptionCode(q)
  BY Zenon DEF OptionCode
<1> QED BY <1>1, Zenon DEF BlockId

(* The key of what was decoded is that of the packet.                      *)
LEMMA KeyArrives ==
    ASSUME IInv, phase = "decoded", NameFits
    PROVE  WorkId(got) = WorkId(packet) /\ got.type = packet.type
<1>1. TInv /\ Origin /\ Layout
  BY Zenon DEF IInv
<1>2. phase \in {"decode", "decoded"}
  BY SMT
<1>3. got.type = packet.type /\ got.token = Token /\ got.mid = packet.mid
  BY <1>1, <1>2, HeadedParts, Zenon
<1>4. packet.token = Token
  BY <1>1, TypedParts, TokenFacts, Zenon
<1>5. BlockId(got) = BlockId(packet)
  BY <1>1, OptionsArrive, SameBlock, Zenon
<1> QED BY <1>3, <1>4, <1>5, Zenon DEF WorkId

LEMMA MatchFromIInv == IInv => AckMatches
<1> SUFFICES ASSUME IInv, phase = "decoded", got.type = ACK, NameFits
             PROVE  WorkId(got) = Key(index)
  BY Zenon DEF AckMatches
<1>1. TInv /\ Origin
  BY Zenon DEF IInv
<1>2. WorkId(got) = WorkId(packet) /\ packet.type = ACK
  BY KeyArrives, Zenon
<1>3. PICK m : m = Message
  BY Zenon
<1>4. Sendable(m) /\ m.type = CON /\ (IsMethod(m.code) \/ m.code = CONTENT)
  BY <1>1, <1>3, MessageShape, Zenon
<1>5. packet = AckOf(m)
  <2>1. CON # ACK
    BY SMT DEF CON, ACK
  <2> QED BY <1>1, <1>2, <1>3, <1>4, <2>1, Zenon DEF Origin
<1>6. Readable(m) /\ m.token = Token
  <2>1. Token \in Seq(Bytes) /\ 1 \in Nat /\ CON \in Nat /\ ACK \in Nat
    <3>1. 0 \in Bytes
      BY ByteFacts, SMT
    <3> QED BY <3>1, SMT DEF Token, CON, ACK
  <2>2. m \in [version : {1}, type : {CON, ACK}, token : {Token}, code : Bytes,
               mid : 0 .. MidLimit - 1, options : {m.options}, payload : Seq(Bytes)]
        /\ IsOptions(m.options)
    BY <1>4, Zenon DEF Sendable
  <2>3. m \in [version : Nat, type : Nat, token : Seq(Bytes), code : Bytes,
               mid : 0 .. MidLimit - 1, options : {m.options}, payload : Seq(Bytes)]
    BY <2>1, <2>2, SMT
  <2>4. m.token = Token
    BY <1>4, TokenFacts, Zenon
  <2> QED BY <2>2, <2>3, <2>4, Zenon DEF Readable
<1>7. /\ Sendable(packet) /\ packet.mid = m.mid /\ BlockId(packet) = BlockId(m)
  BY <1>4, <1>5, <1>6, AckShape, Zenon
<1>8. packet.token = m.token
  BY <1>6, <1>7, TokenFacts, Zenon
<1>9. WorkId(packet) = WorkId(m)
  BY <1>7, <1>8, Zenon DEF WorkId
<1> QED BY <1>2, <1>3, <1>9, Zenon DEF Key, Message

(* The ACK that comes back names the transaction of the message it         *)
(* answers, in transfers of up to 2 ^ 20 messages (coap_packet.py:69-119   *)
(* and coap_worker_pool.py:133-139).                                       *)
THEOREM AckFinds == Spec => []AckMatches
BY Invariance, MatchFromIInv, PTL

LEMMA DistinctFromIInv == IInv => KeysDistinct
<1> SUFFICES ASSUME IInv, phase = "decoded", got.type = CON, NameFits,
                    NEW i \in Positions \cup {0}, i # index, i <= transfer[3]
             PROVE  WorkId(got) # Key(i)
  BY Zenon DEF KeysDistinct
<1>1. TInv /\ Origin
  BY Zenon DEF IInv
<1>2. WorkId(got) = WorkId(packet) /\ packet.type = CON
  BY KeyArrives, Zenon
<1>3. packet = Message
  <2>1. CON # ACK
    BY SMT DEF CON, ACK
  <2> QED BY <1>1, <1>2, <2>1, Zenon DEF Origin
<1>4. Legal(transfer, index)
  BY <1>1, TypedParts, Zenon
<1>5. Legal(transfer, i)
  BY <1>4, Zenon DEF Legal
<1>6. PICK t, j : t = transfer /\ j = index
  BY Zenon
<1>7. WorkId(MessageAt(t[1], t[2], t[3], i)) # WorkId(MessageAt(t[1], t[2], t[3], j))
  BY <1>4, <1>5, <1>6, KeyFacts, Zenon
<1> QED BY <1>2, <1>3, <1>6, <1>7, Zenon DEF Key, Message

(* No other message of the transfer, nor its request, has the key of a     *)
(* message, although the message ids wrap after 2 ^ 16                     *)
(* (coap_packet.py:114-119, drive_spliter.py:68-95).                       *)
THEOREM KeysApart == Spec => []KeysDistinct
BY Invariance, DistinctFromIInv, PTL

=============================================================================
