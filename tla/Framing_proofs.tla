--------------------------- MODULE Framing_proofs ---------------------------
(***************************************************************************)
(* Theorems about Framing, for any commands, any number of frames and any  *)
(* way TCP cuts and joins them.                                            *)
(***************************************************************************)
EXTENDS Framing, SequenceTheorems, TLAPS

Byte == 0 .. 255

-----------------------------------------------------------------------------
(* The length read is the length written. *)

Is32Bits(v) == v \in Nat /\ ((v \div 256) \div 256) \div 256 < 256

(* Dividing by 256 leaves a byte. *)
LEMMA Divided ==
  ASSUME NEW v \in Nat
  PROVE  /\ v \div 256 \in Nat /\ v % 256 \in Byte
         /\ v = (v % 256) + 256 * (v \div 256)
  BY DEF Byte

(* The four bytes of an integer of 32 bits give it back. *)
LEMMA BytesOfInteger ==
  ASSUME NEW v, Is32Bits(v)
  PROVE  /\ \E a, b, c, d \in Byte : Bytes(v) = <<a, b, c, d>>
         /\ LittleEndian(Bytes(v)) = v
<1> DEFINE v2 == v \div 256
           v3 == v2 \div 256
           v4 == v3 \div 256
<1>1. /\ v \in Nat /\ v2 \in Nat /\ v3 \in Nat /\ v4 \in Nat
      /\ v % 256 \in Byte /\ v2 % 256 \in Byte /\ v3 % 256 \in Byte
      /\ v = (v % 256) + 256 * v2 /\ v2 = (v2 % 256) + 256 * v3
      /\ v3 = (v3 % 256) + 256 * v4
  BY Divided DEF Is32Bits
<1>2. v4 % 256 = v4 /\ v4 \in Byte  BY <1>1 DEF Is32Bits, Byte
<1>3. Bytes(v) = <<v % 256, v2 % 256, v3 % 256, v4 % 256>>  BY DEF Bytes
<1> HIDE DEF v2, v3, v4
<1> QED BY <1>1, <1>2, <1>3 DEF LittleEndian

(* Four bytes are an integer of 32 bits and are its bytes. *)
LEMMA IntegerOfBytes ==
  ASSUME NEW a \in Byte, NEW b \in Byte, NEW c \in Byte, NEW d \in Byte
  PROVE  /\ Is32Bits(LittleEndian(<<a, b, c, d>>))
         /\ Bytes(LittleEndian(<<a, b, c, d>>)) = <<a, b, c, d>>
<1> DEFINE r3 == c + 256 * d
           r2 == b + 256 * r3
           r1 == a + 256 * r2
<1>1. LittleEndian(<<a, b, c, d>>) = r1  BY DEF LittleEndian
<1>2. r3 = c + 256 * d /\ r2 = b + 256 * r3 /\ r1 = a + 256 * r2
  OBVIOUS
<1>3. d \in Nat /\ d < 256 /\ d % 256 = d  BY DEF Byte
<1> HIDE DEF r1, r2, r3
<1>4. r3 \in Nat /\ r3 % 256 = c /\ r3 \div 256 = d  BY <1>2, <1>3 DEF Byte
<1>5. r2 \in Nat /\ r2 % 256 = b /\ r2 \div 256 = r3  BY <1>2, <1>4 DEF Byte
<1>6. r1 \in Nat /\ r1 % 256 = a /\ r1 \div 256 = r2  BY <1>2, <1>5 DEF Byte
<1> QED BY <1>1, <1>3, <1>4, <1>5, <1>6 DEF Is32Bits, Bytes

(* Turning the bytes over twice leaves them as they were. *)
LEMMA SwappedTwice ==
  ASSUME NEW a, NEW b, NEW c, NEW d
  PROVE  Swapped(<<a, b, c, d>>) = <<d, c, b, a>>
  BY DEF Swapped

(* The length the parser reads from a frame is the length its writer put   *)
(* there, whichever end wrote it: QDataStream against ntohl, or htonl      *)
(* against QDataStream.                                                    *)
LEMMA LengthKept ==
  ASSUME NEW v, Is32Bits(v), AtServer \in BOOLEAN
  PROVE  /\ WriteLength(v) \in Seq(Byte) /\ Len(WriteLength(v)) = 4
         /\ ReadLength(WriteLength(v)) = v
<1>1. PICK a \in Byte, b \in Byte, c \in Byte, d \in Byte :
        Bytes(v) = <<a, b, c, d>>
  BY BytesOfInteger
<1>2. LittleEndian(<<a, b, c, d>>) = v  BY <1>1, BytesOfInteger
<1>3. Swapped(Bytes(v)) = <<d, c, b, a>> /\ Swapped(<<d, c, b, a>>) = <<a, b, c, d>>
  BY <1>1, SwappedTwice
<1> DEFINE w == LittleEndian(<<d, c, b, a>>)
<1>4. htonl(v) = w  BY <1>3 DEF htonl
<1>5. Bytes(w) = <<d, c, b, a>>  BY IntegerOfBytes
<1>6. ntohl(w) = v  BY <1>2, <1>3, <1>5 DEF ntohl, htonl
<1> HIDE DEF w
<1>7. WriteLength(v) = <<d, c, b, a>>
  BY <1>3, <1>4, <1>5 DEF WriteLength, InsertNetworkUInt32
<1>8. ReadLength(<<d, c, b, a>>) = v
  BY <1>2, <1>3, <1>6 DEF ReadLength, Get4BytesHead, w
<1> QED BY <1>7, <1>8
-----------------------------------------------------------------------------
(* Type correctness. *)

(* Every body has a length that fits its header, and is not empty. *)
LEMMA BodyLength ==
  ASSUME NEW body \in Bodies
  PROVE  /\ body \in Seq(Byte) /\ Len(body) \in Nat \ {0}
         /\ Is32Bits(Len(body))
  BY FramingAssumption, EmptySeq DEF IsInt, Is32Bits, Byte

(* A piece of a stream. *)
LEMMA Piece ==
  ASSUME NEW S, NEW s \in Seq(S), NEW a \in Nat, NEW n \in Nat, a + n <= Len(s)
  PROVE  /\ SubSeq(s, a + 1, a + n) \in Seq(S)
         /\ Len(SubSeq(s, a + 1, a + n)) = n
         /\ \A i \in 1 .. n : SubSeq(s, a + 1, a + n)[i] = s[a + i]
<1>1. a + 1 \in Int /\ a + n \in Int /\ Len(s) \in Nat
  BY LenProperties
<1>2. \A i \in a + 1 .. a + n : i \in 1 .. Len(s) /\ s[i] \in S
  BY <1>1, ElementOfSeq
<1>3. /\ SubSeq(s, a + 1, a + n) \in Seq(S)
      /\ Len(SubSeq(s, a + 1, a + n)) =
           IF a + 1 <= a + n THEN a + n - (a + 1) + 1 ELSE 0
      /\ \A i \in 1 .. a + n - (a + 1) + 1 :
           SubSeq(s, a + 1, a + n)[i] = s[a + 1 + i - 1]
  BY <1>1, <1>2, SubSeqProperties
<1> QED BY <1>1, <1>3

(* Four bytes of the stream are read as a natural number. *)
LEMMA LengthRead ==
  ASSUME TypeOK, LengthReady
  PROVE  /\ ReadLength(SubSeq(stream, taken + 1, taken + 4)) \in Nat
         /\ taken + 4 <= arrived
<1> DEFINE s == SubSeq(stream, taken + 1, taken + 4)
<1>1. taken + 4 <= arrived /\ arrived <= Len(stream) /\ taken \in Nat
      /\ arrived \in Nat /\ stream \in Seq(Byte)
  BY DEF LengthReady, TypeOK, Byte
<1>2. s[1] \in Byte /\ s[2] \in Byte /\ s[3] \in Byte /\ s[4] \in Byte
  BY <1>1, SubSeqProperties
<1>3. Get4BytesHead(s) = LittleEndian(<<s[1], s[2], s[3], s[4]>>)
      /\ Swapped(s) = <<s[4], s[3], s[2], s[1]>>
  BY DEF Get4BytesHead, LittleEndian, Swapped
<1> HIDE DEF s
<1>4. PICK w : w = Get4BytesHead(s)  OBVIOUS
<1>5. Bytes(w) = <<s[1], s[2], s[3], s[4]>>
  BY <1>2, <1>3, <1>4, IntegerOfBytes
<1>6. ntohl(w) = LittleEndian(<<s[4], s[3], s[2], s[1]>>)
  BY <1>5, SwappedTwice DEF ntohl, htonl
<1>7. LittleEndian(<<s[4], s[3], s[2], s[1]>>) \in Nat
  BY <1>2, IntegerOfBytes DEF Is32Bits
<1> QED BY <1>1, <1>3, <1>4, <1>6, <1>7 DEF ReadLength, s

(* What a step of the parser takes and hands on. *)
LEMMA Parsed ==
  ASSUME TypeOK, ParseCommand
  PROVE  \E block \in Nat, from \in taken .. arrived :
           /\ IF LengthReady
              THEN /\ block = ReadLength(SubSeq(stream, taken + 1, taken + 4))
                   /\ from = taken + 4
              ELSE block = blockSize /\ from = taken
           /\ \/ /\ arrived - from < block
                 /\ blockSize' = block /\ taken' = from /\ delivered' = delivered
                 /\ parser' = "idle"
              \/ /\ from + block <= arrived
                 /\ blockSize' = 0 /\ taken' = from + block /\ parser' = "loop"
                 /\ delivered' = IF block = 0 THEN delivered
                                 ELSE Append(delivered,
                                             SubSeq(stream, from + 1, from + block))
           /\ UNCHANGED <<written, ends, stream, arrived, connections>>
<1> DEFINE block == IF LengthReady THEN ReadLength(SubSeq(stream, taken + 1, taken + 4))
                                   ELSE blockSize
           from == IF LengthReady THEN taken + 4 ELSE taken
<1>1. block \in Nat /\ from \in taken .. arrived
  BY LengthRead DEF TypeOK
<1>2. /\ arrived \in Nat /\ from \in Nat
      /\ Complete(from, block) <=> from + block <= arrived
      /\ ~Complete(from, block) <=> arrived - from < block
  BY <1>1 DEF Complete, TypeOK
<1>3. /\ \/ /\ ~Complete(from, block)
            /\ blockSize' = block /\ taken' = from /\ parser' = "idle"
            /\ delivered' = delivered
         \/ /\ Complete(from, block)
            /\ blockSize' = 0 /\ taken' = from + block /\ parser' = "loop"
            /\ delivered' = IF block = 0 THEN delivered
                            ELSE Append(delivered,
                                        SubSeq(stream, from + 1, from + block))
      /\ UNCHANGED <<written, ends, stream, arrived, connections>>
  BY DEF ParseCommand
<1>4. IF LengthReady
      THEN /\ block = ReadLength(SubSeq(stream, taken + 1, taken + 4))
           /\ from = taken + 4
      ELSE block = blockSize /\ from = taken
  OBVIOUS
<1> HIDE DEF block, from
<1> QED BY <1>1, <1>2, <1>3, <1>4

(* Every step keeps the shape. *)
LEMMA TypeStep == TypeOK /\ [Next]_vars => TypeOK'
<1> SUFFICES ASSUME TypeOK, [Next]_vars PROVE TypeOK'
  OBVIOUS
<1>1. CASE UNCHANGED vars  BY <1>1 DEF TypeOK, vars
<1>2. ASSUME NEW body \in Bodies, Write(body) PROVE TypeOK'
  <2>1. /\ WriteLength(Len(body)) \in Seq(Byte) /\ body \in Seq(Byte)
        /\ stream \in Seq(Byte)
    BY BodyLength, LengthKept, FramingAssumption DEF TypeOK, Byte
  <2>2. /\ stream' \in Seq(Byte) /\ Len(stream') \in Nat
        /\ Len(stream) <= Len(stream')
    <3>1. /\ stream \o WriteLength(Len(body)) \in Seq(Byte)
          /\ Len(stream \o WriteLength(Len(body)))
               = Len(stream) + Len(WriteLength(Len(body)))
      BY <2>1, ConcatProperties
    <3>2. /\ stream' \in Seq(Byte)
          /\ Len(stream') = Len(stream \o WriteLength(Len(body))) + Len(body)
      BY <1>2, <2>1, <3>1, ConcatProperties DEF Write
    <3> QED BY <2>1, <3>1, <3>2, LenProperties
  <2>3. written' \in Seq(Bodies) /\ ends' \in Seq(Nat)
    BY <1>2, <2>2 DEF Write, TypeOK
  <2> QED BY <1>2, <2>1, <2>2, <2>3, LenProperties DEF Write, TypeOK, Byte
<1>3. CASE Arrive
  BY <1>3, LenProperties DEF Arrive, TypeOK
<1>4. CASE ParseCommand
  <2>1. PICK block \in Nat, from \in taken .. arrived :
          /\ \/ /\ blockSize' = block /\ taken' = from /\ delivered' = delivered
                /\ parser' = "idle"
             \/ /\ from + block <= arrived
                /\ blockSize' = 0 /\ taken' = from + block /\ parser' = "loop"
                /\ delivered' = IF block = 0 THEN delivered
                                ELSE Append(delivered,
                                            SubSeq(stream, from + 1, from + block))
          /\ UNCHANGED <<written, ends, stream, arrived, connections>>
    BY <1>4, Parsed
  <2>2. from \in Nat /\ arrived \in Nat /\ taken \in Nat /\ arrived <= Len(stream)
    BY <2>1, LenProperties DEF TypeOK
  <2>3. taken' \in 0 .. arrived' /\ blockSize' \in Nat
    BY <2>1, <2>2
  <2>4. delivered' \in Seq(Seq(0 .. 255))
    <3>1. stream \in Seq(0 .. 255) /\ delivered \in Seq(Seq(0 .. 255))
      BY DEF TypeOK
    <3>2. ASSUME from + block <= arrived
          PROVE  SubSeq(stream, from + 1, from + block) \in Seq(0 .. 255)
      <4>1. from + block <= Len(stream) /\ from \in Nat /\ block \in Nat
        BY <2>1, <2>2, <3>1, <3>2, LenProperties
      <4> QED BY <3>1, <4>1, Piece
    <3>3. from + block <= arrived =>
            Append(delivered, SubSeq(stream, from + 1, from + block))
              \in Seq(Seq(0 .. 255))
      BY <3>1, <3>2, AppendProperties
    <3> QED BY <2>1, <3>1, <3>3
  <2> QED BY <2>1, <2>3, <2>4 DEF TypeOK
<1>5. CASE Loop  BY <1>5 DEF Loop, TypeOK
<1>6. CASE Reconnect
  BY <1>6, EmptySeq DEF Reconnect, TypeOK
<1> QED BY <1>1, <1>2, <1>3, <1>4, <1>5, <1>6 DEF Next

(* Every state of a connection has the declared shape: the parser never    *)
(* takes more from its buffer than has arrived, also when it reads a       *)
(* length that no frame has.                                               *)
THEOREM FramingTypeCorrect == Spec => []TypeOK
<1>1. Init => TypeOK
  BY EmptySeq DEF Init, TypeOK
<1> QED BY <1>1, TypeStep, PTL DEF Spec
-----------------------------------------------------------------------------
(* The stream is laid out in frames, and the parser is at the start of one *)
(* or between a length and its body.                                       *)

Frame(k) ==
  /\ ends[k] = EndOf(k - 1) + 4 + Len(written[k])
  /\ SubSeq(stream, EndOf(k - 1) + 1, EndOf(k - 1) + 4)
       = WriteLength(Len(written[k]))
  /\ SubSeq(stream, (EndOf(k - 1) + 4) + 1, (EndOf(k - 1) + 4) + Len(written[k]))
       = written[k]

Layout ==
  /\ Len(ends) = Len(written)
  /\ Len(stream) = EndOf(Len(written))
  /\ \A k \in 0 .. Len(written) : EndOf(k) \in 0 .. Len(stream)
  /\ \A k \in 1 .. Len(written) : Frame(k)

InOrder == \A k \in 1 .. Len(delivered) : delivered[k] = written[k]

(* A reader that starts every connection anew: the server's, whose User is *)
(* made with the connection, or a client that does not connect again.      *)
Fresh == AtServer \/ MaxConnections <= 1

(* What follows a stream changes none of its pieces. *)
LEMMA PieceKept ==
  ASSUME NEW S, NEW s \in Seq(S), NEW t \in Seq(S), NEW a \in Nat, NEW n \in Nat,
         a + n <= Len(s)
  PROVE  SubSeq(s \o t, a + 1, a + n) = SubSeq(s, a + 1, a + n)
<1>1. CASE n = 0
  <2>1. a + 1 \in Int /\ a + n \in Int /\ a + n < a + 1  BY <1>1
  <2> QED BY <2>1, SubSeqEmpty
<1>2. CASE n # 0
  <2>1. a + 1 \in 1 .. Len(s) /\ a + n \in 1 .. Len(s)
    BY <1>2, LenProperties
  <2> QED BY <2>1, SubSeqOfConcat1
<1> QED BY <1>1, <1>2

(* What follows a stream is the piece behind it. *)
LEMMA PieceAdded ==
  ASSUME NEW S, NEW s \in Seq(S), NEW t \in Seq(S), Len(t) # 0
  PROVE  SubSeq(s \o t, Len(s) + 1, Len(s) + Len(t)) = t
<1>1. Len(s) \in Nat /\ Len(t) \in Nat  BY LenProperties
<1>2. /\ Len(s) + 1 \in Len(s) + 1 .. Len(s) + Len(t)
      /\ Len(s) + Len(t) \in Len(s) + 1 .. Len(s) + Len(t)
  BY <1>1
<1>3. SubSeq(s \o t, Len(s) + 1, Len(s) + Len(t))
        = SubSeq(t, Len(s) + 1 - Len(s), Len(s) + Len(t) - Len(s))
  BY <1>2, SubSeqOfConcat2
<1>4. Len(s) + 1 - Len(s) = 1 /\ Len(s) + Len(t) - Len(s) = Len(t)
  BY <1>1
<1> QED BY <1>3, <1>4, SubSeqFull

(* The frames before it are as they were. *)
LEMMA FrameKept ==
  ASSUME NEW S, NEW s \in Seq(S), NEW h \in Seq(S), NEW b \in Seq(S),
         NEW a \in Nat, NEW n \in Nat, a + n <= Len(s)
  PROVE  SubSeq((s \o h) \o b, a + 1, a + n) = SubSeq(s, a + 1, a + n)
<1>1. s \o h \in Seq(S) /\ Len(s \o h) = Len(s) + Len(h)
  BY ConcatProperties
<1>2. Len(s) \in Nat /\ Len(h) \in Nat  BY LenProperties
<1>3. a + n <= Len(s \o h)  BY <1>1, <1>2
<1>4. SubSeq((s \o h) \o b, a + 1, a + n) = SubSeq(s \o h, a + 1, a + n)
  BY <1>1, <1>3, PieceKept
<1>5. SubSeq(s \o h, a + 1, a + n) = SubSeq(s, a + 1, a + n)
  BY PieceKept
<1> QED BY <1>4, <1>5

(* Writing a frame lays it out behind the others. *)
LEMMA LayoutWrite ==
  ASSUME TypeOK, Layout, NEW body \in Bodies, Write(body)
  PROVE  Layout'
<1> DEFINE head == WriteLength(Len(body))
<1> PICK k1 : k1 = Len(written) + 1  OBVIOUS
<1>1. /\ stream \in Seq(Byte) /\ body \in Seq(Byte) /\ head \in Seq(Byte)
      /\ Len(head) = 4 /\ Len(body) \in Nat \ {0}
      /\ written \in Seq(Bodies) /\ ends \in Seq(Nat)
      /\ Len(stream) \in Nat /\ Len(written) \in Nat
  BY BodyLength, LengthKept, FramingAssumption, LenProperties DEF TypeOK, Byte
<1>2. /\ stream' = stream \o head \o body /\ written' = Append(written, body)
      /\ ends' = Append(ends, Len(stream'))
  BY DEF Write
<1> HIDE DEF head
<1>3. /\ Len(stream') = Len(stream) + 4 + Len(body)
      /\ SubSeq(stream', Len(stream) + 1, Len(stream) + 4) = head
      /\ SubSeq(stream', (Len(stream) + 4) + 1, (Len(stream) + 4) + Len(body)) = body
      /\ \A a \in Nat, n \in Nat : a + n <= Len(stream) =>
           SubSeq(stream', a + 1, a + n) = SubSeq(stream, a + 1, a + n)
  <2>1. Len(body) # 0  BY <1>1
  <2>2. /\ stream \in Seq(Byte) /\ head \in Seq(Byte) /\ body \in Seq(Byte)
        /\ Len(head) = 4 /\ stream' = (stream \o head) \o body
        /\ Len(stream) \in Nat /\ Len(body) \in Nat
    BY <1>1, <1>2
  <2>3. /\ Len((stream \o head) \o body) = Len(stream) + 4 + Len(body)
        /\ SubSeq((stream \o head) \o body, Len(stream) + 1, Len(stream) + 4) = head
        /\ SubSeq((stream \o head) \o body,
                  (Len(stream) + 4) + 1, (Len(stream) + 4) + Len(body)) = body
    <3>1. /\ stream \o head \in Seq(Byte)
          /\ Len(stream \o head) = Len(stream) + 4
      <4>1. /\ stream \o head \in Seq(Byte)
            /\ Len(stream \o head) = Len(stream) + Len(head)
        BY <2>2, ConcatProperties
      <4> QED BY <2>2, <4>1
    <3>2. Len((stream \o head) \o body) = Len(stream \o head) + Len(body)
      BY <2>2, <3>1, ConcatProperties
    <3>3. SubSeq((stream \o head) \o body, Len(stream) + 1, Len(stream) + 4)
            = SubSeq(stream \o head, Len(stream) + 1, Len(stream) + 4)
      <4>1. /\ Len(stream) + 1 \in 1 .. Len(stream \o head)
            /\ Len(stream) + 4 \in 1 .. Len(stream \o head)
        BY <2>2, <3>1
      <4> QED BY <2>2, <3>1, <4>1, SubSeqOfConcat1
    <3>4. SubSeq(stream \o head, Len(stream) + 1, Len(stream) + Len(head)) = head
      BY <2>2, PieceAdded
    <3>5. SubSeq((stream \o head) \o body,
                 Len(stream \o head) + 1, Len(stream \o head) + Len(body)) = body
      BY <2>1, <2>2, <3>1, PieceAdded
    <3> QED BY <2>2, <3>1, <3>2, <3>3, <3>4, <3>5
  <2>4. ASSUME NEW a \in Nat, NEW n \in Nat, a + n <= Len(stream)
        PROVE  SubSeq(stream', a + 1, a + n) = SubSeq(stream, a + 1, a + n)
    BY <2>2, <2>4, FrameKept
  <2> QED BY <2>2, <2>3, <2>4
<1>4. Len(stream') \in Nat  BY <1>1, <1>3
<1>5. /\ Len(written') = k1 /\ Len(ends') = k1 /\ written'[k1] = body
      /\ ends'[k1] = Len(stream')
      /\ \A k \in 1 .. Len(written) : written'[k] = written[k] /\ ends'[k] = ends[k]
  <2>1. /\ Len(written') = Len(written) + 1
        /\ written'[Len(written) + 1] = body
        /\ \A k \in 1 .. Len(written) : written'[k] = written[k]
    BY <1>1, <1>2, AppendProperties
  <2>2. /\ Len(ends') = Len(ends) + 1
        /\ ends'[Len(ends) + 1] = Len(stream')
        /\ \A k \in 1 .. Len(ends) : ends'[k] = ends[k]
    BY <1>1, <1>2, <1>4, AppendProperties
  <2>3. Len(ends) = Len(written)  BY DEF Layout
  <2> QED BY <2>1, <2>2, <2>3
<1>6. ASSUME NEW k \in 0 .. Len(written) PROVE EndOf(k)' = EndOf(k)
  <2>1. CASE k = 0  BY <2>1 DEF EndOf
  <2>2. CASE k # 0
    <3>1. k \in 1 .. Len(written)  BY <1>1, <2>2
    <3> QED BY <1>5, <2>2, <3>1 DEF EndOf
  <2> QED BY <2>1, <2>2
<1>7. EndOf(k1)' = Len(stream')
  <2>1. k1 # 0  BY <1>1
  <2> QED BY <1>5, <2>1 DEF EndOf
<1>8. ASSUME NEW k \in 0 .. Len(written') PROVE EndOf(k)' \in 0 .. Len(stream')
  <2>1. CASE k \in 0 .. Len(written)
    <3>1. EndOf(k) \in 0 .. Len(stream)  BY <2>1 DEF Layout
    <3> QED BY <1>1, <1>3, <1>6, <2>1, <3>1
  <2>2. CASE k \notin 0 .. Len(written)
    <3>1. k = k1  BY <1>1, <1>5, <2>2
    <3> QED BY <1>4, <1>7, <3>1
  <2> QED BY <2>1, <2>2
<1>9. ASSUME NEW k \in 1 .. Len(written) PROVE Frame(k)'
  <2> DEFINE a == EndOf(k - 1)
             n == Len(written[k])
  <2>1. /\ k - 1 \in 0 .. Len(written) /\ k \in 0 .. Len(written) /\ k # 0
    BY <1>1
  <2>2. Frame(k) /\ a \in Nat /\ EndOf(k) <= Len(stream) /\ EndOf(k) = ends[k]
    <3>1. a \in 0 .. Len(stream) /\ EndOf(k) \in 0 .. Len(stream)
      BY <2>1 DEF Layout
    <3> QED BY <1>1, <2>1, <3>1 DEF Layout, EndOf
  <2>3. n \in Nat
    <3>1. written[k] \in Bodies  BY <1>1, ElementOfSeq
    <3> QED BY <3>1, BodyLength
  <2>4. EndOf(k - 1)' = a /\ ends'[k] = ends[k] /\ written'[k] = written[k]
    BY <1>5, <1>6, <2>1
  <2>5. /\ ends[k] = a + 4 + n
        /\ SubSeq(stream, a + 1, a + 4) = WriteLength(n)
        /\ SubSeq(stream, (a + 4) + 1, (a + 4) + n) = written[k]
    BY <2>2 DEF Frame
  <2> HIDE DEF a, n
  <2>6. a + 4 \in Nat /\ 4 \in Nat /\ a + 4 <= Len(stream)
        /\ (a + 4) + n <= Len(stream)
    BY <1>1, <2>2, <2>3, <2>5
  <2>7. SubSeq(stream', a + 1, a + 4) = WriteLength(n)
    BY <1>3, <2>2, <2>5, <2>6
  <2>8. SubSeq(stream', (a + 4) + 1, (a + 4) + n) = written[k]
    BY <1>3, <2>3, <2>5, <2>6
  <2> QED BY <2>4, <2>5, <2>7, <2>8 DEF Frame, WriteLength, n
<1>10. Frame(k1)'
  <2>1. k1 - 1 = Len(written) /\ Len(written) \in 0 .. Len(written)  BY <1>1
  <2>2. EndOf(k1 - 1)' = Len(stream)  BY <1>6, <2>1 DEF Layout
  <2> QED BY <1>3, <1>5, <2>2 DEF Frame, head, WriteLength
<1>11. ASSUME NEW k \in 1 .. Len(written') PROVE Frame(k)'
  <2>1. k \in 1 .. Len(written) \/ k = k1  BY <1>1, <1>5
  <2> QED BY <1>9, <1>10, <2>1
<1> QED BY <1>5, <1>7, <1>8, <1>11 DEF Layout

(* The parser is either in front of a frame it cannot read the length of   *)
(* yet, or between the length and the body of the next frame: the bytes    *)
(* it takes for a length are one.                                          *)
LEMMA LengthFound ==
  ASSUME TypeOK, Layout, InFrame, NEW block \in Nat, NEW from \in taken .. arrived,
         IF LengthReady
         THEN /\ block = ReadLength(SubSeq(stream, taken + 1, taken + 4))
              /\ from = taken + 4
         ELSE block = blockSize /\ from = taken
  PROVE  \/ block = 0 /\ blockSize = 0 /\ from = taken
         \/ /\ Len(delivered) < Len(written)
            /\ from = EndOf(Len(delivered)) + 4
            /\ block = Len(written[Len(delivered) + 1])
<1> PICK k1 : k1 = Len(delivered) + 1  OBVIOUS
<1>1. /\ Len(delivered) \in Nat /\ Len(written) \in Nat /\ Len(stream) \in Nat
      /\ written \in Seq(Bodies) /\ stream \in Seq(Byte)
      /\ arrived <= Len(stream) /\ arrived \in Nat /\ taken \in Nat
      /\ Len(delivered) <= Len(written) /\ k1 - 1 = Len(delivered)
  BY LenProperties DEF TypeOK, InFrame, Byte
<1>2. CASE LengthReady
  <2>1. blockSize = 0 /\ taken = EndOf(Len(delivered))
    BY <1>2 DEF LengthReady, InFrame
  <2>2. taken + 4 <= arrived  BY <1>2, LengthRead
  <2>3. Len(delivered) < Len(written)
    <3>1. Len(delivered) # Len(written)
      BY <1>1, <2>1, <2>2 DEF Layout
    <3> QED BY <1>1, <3>1
  <2>4. k1 \in 1 .. Len(written)  BY <1>1, <2>3
  <2>5. SubSeq(stream, taken + 1, taken + 4) = WriteLength(Len(written[k1]))
    BY <1>1, <2>1, <2>4 DEF Layout, Frame
  <2>6. Is32Bits(Len(written[k1]))
    <3>1. written[k1] \in Bodies  BY <1>1, <2>4, ElementOfSeq
    <3> QED BY <3>1, BodyLength
  <2>7. block = Len(written[k1])
    <3>1. ReadLength(WriteLength(Len(written[k1]))) = Len(written[k1])
      BY <2>6, LengthKept, FramingAssumption
    <3> QED BY <1>2, <2>5, <3>1
  <2> QED BY <1>2, <2>1, <2>3, <2>7
<1>3. CASE ~LengthReady
  <2>1. block = blockSize /\ from = taken  BY <1>3
  <2>2. CASE blockSize = 0  BY <2>1, <2>2
  <2>3. CASE blockSize # 0  BY <2>1, <2>3 DEF InFrame
  <2> QED BY <2>2, <2>3
<1> QED BY <1>2, <1>3

(* A step of the parser hands on the next body that was written, or none,  *)
(* and stops in front of a frame or behind a length.                       *)
LEMMA ParseStep ==
  ASSUME TypeOK, Layout, InFrame, InOrder, ParseCommand
  PROVE  /\ InFrame' /\ InOrder'
         /\ Link!Deliver \/ UNCHANGED <<written, delivered>>
<1> PICK k1 : k1 = Len(delivered) + 1  OBVIOUS
<1>1. PICK block \in Nat, from \in taken .. arrived :
         /\ IF LengthReady
            THEN /\ block = ReadLength(SubSeq(stream, taken + 1, taken + 4))
                 /\ from = taken + 4
            ELSE block = blockSize /\ from = taken
         /\ \/ /\ arrived - from < block
               /\ blockSize' = block /\ taken' = from /\ delivered' = delivered
            \/ /\ from + block <= arrived
               /\ blockSize' = 0 /\ taken' = from + block
               /\ delivered' = IF block = 0 THEN delivered
                               ELSE Append(delivered,
                                           SubSeq(stream, from + 1, from + block))
         /\ UNCHANGED <<written, ends, stream, arrived, connections>>
  BY Parsed
<1>2. /\ Len(delivered) \in Nat /\ Len(written) \in Nat
      /\ delivered \in Seq(Seq(0 .. 255)) /\ written \in Seq(Bodies)
      /\ arrived \in Nat /\ taken \in Nat /\ from \in Nat /\ from <= arrived
      /\ Len(delivered) <= Len(written) /\ k1 - 1 = Len(delivered) /\ k1 \in Nat
  BY <1>1, LenProperties DEF TypeOK, InFrame
<1>3. \/ block = 0 /\ blockSize = 0 /\ from = taken
      \/ /\ Len(delivered) < Len(written)
         /\ from = EndOf(Len(delivered)) + 4
         /\ block = Len(written[k1])
  BY <1>1, LengthFound
<1>4. ASSUME NEW k PROVE EndOf(k)' = EndOf(k)  BY <1>1 DEF EndOf
<1>5. CASE block = 0 /\ blockSize = 0 /\ from = taken
  <2>1. blockSize' = 0 /\ taken' = taken /\ delivered' = delivered /\ written' = written
    BY <1>1, <1>2, <1>5
  <2>2. taken = EndOf(Len(delivered))  BY <1>5 DEF InFrame
  <2>3. InFrame'  BY <1>2, <1>4, <2>1, <2>2 DEF InFrame
  <2>4. InOrder'  BY <2>1 DEF InOrder
  <2> QED BY <2>1, <2>3, <2>4
<1>6. CASE /\ Len(delivered) < Len(written)
           /\ from = EndOf(Len(delivered)) + 4
           /\ block = Len(written[k1])
  <2>1. k1 \in 1 .. Len(written) /\ k1 # 0  BY <1>2, <1>6
  <2>2. block # 0
    <3>1. written[k1] \in Bodies  BY <1>2, <2>1, ElementOfSeq
    <3> QED BY <1>6, <3>1, BodyLength
  <2>3. /\ ends[k1] = from + block
        /\ SubSeq(stream, from + 1, from + block) = written[k1]
    BY <1>2, <1>6, <2>1 DEF Layout, Frame
  <2>4. CASE /\ blockSize' = block /\ taken' = from /\ delivered' = delivered
    <3>1. written' = written  BY <1>1
    <3>2. InFrame'  BY <1>2, <1>4, <1>6, <2>2, <2>4, <3>1 DEF InFrame
    <3>3. InOrder'  BY <2>4, <3>1 DEF InOrder
    <3> QED BY <2>4, <3>1, <3>2, <3>3
  <2>5. CASE /\ blockSize' = 0 /\ taken' = from + block
             /\ delivered' = Append(delivered, SubSeq(stream, from + 1, from + block))
    <3>1. written' = written /\ delivered' = Append(delivered, written[k1])
      BY <1>1, <2>3, <2>5
    <3>2. /\ Len(delivered') = k1 /\ delivered'[k1] = written[k1]
          /\ \A k \in 1 .. Len(delivered) : delivered'[k] = delivered[k]
      <4>1. written[k1] \in Seq(0 .. 255)
        <5>1. written[k1] \in Bodies  BY <1>2, <2>1, ElementOfSeq
        <5> QED BY <5>1, FramingAssumption
      <4>2. /\ Len(delivered') = Len(delivered) + 1
            /\ delivered'[Len(delivered) + 1] = written[k1]
            /\ \A k \in 1 .. Len(delivered) : delivered'[k] = delivered[k]
        BY <1>2, <3>1, <4>1, AppendProperties
      <4> QED BY <4>2
    <3>3. InFrame'
      <4>1. EndOf(k1)' = from + block  BY <1>4, <2>1, <2>3 DEF EndOf
      <4> QED BY <1>2, <2>1, <2>5, <3>1, <3>2, <4>1 DEF InFrame
    <3>4. InOrder'
      <4>1. ASSUME NEW k \in 1 .. Len(delivered') PROVE delivered'[k] = written'[k]
        <5>1. k \in 1 .. Len(delivered) \/ k = k1  BY <1>2, <3>2
        <5> QED BY <3>1, <3>2, <5>1 DEF InOrder
      <4> QED BY <4>1 DEF InOrder
    <3>5. Link!Deliver  BY <1>6, <3>1 DEF Link!Deliver
    <3> QED BY <3>3, <3>4, <3>5
  <2> QED BY <1>1, <2>2, <2>4, <2>5
<1> QED BY <1>3, <1>5, <1>6

(* The inductive invariant. *)
Inv == TypeOK /\ Layout /\ InFrame /\ InOrder

(* A connection starts with an empty stream and the parser in front of it. *)
LEMMA InvInit == Init => Inv
<1> SUFFICES ASSUME Init PROVE Inv  OBVIOUS
<1>1. TypeOK  BY EmptySeq DEF Init, TypeOK
<1>2. /\ Len(written) = 0 /\ Len(ends) = 0 /\ Len(stream) = 0
      /\ Len(delivered) = 0 /\ taken = 0 /\ blockSize = 0 /\ EndOf(0) = 0
  BY EmptySeq DEF Init, EndOf
<1> QED BY <1>1, <1>2 DEF Inv, Layout, InFrame, InOrder

(* Writing behind the stream moves nothing the parser has taken. *)
LEMMA WriteStep ==
  ASSUME TypeOK, Layout, InFrame, InOrder, NEW body \in Bodies, Write(body)
  PROVE  InFrame' /\ InOrder'
<1> PICK n : n = Len(delivered)  OBVIOUS
<1>1. /\ Len(written) \in Nat /\ n \in Nat /\ n <= Len(written)
      /\ written \in Seq(Bodies) /\ ends \in Seq(Nat) /\ Len(ends) = Len(written)
      /\ Len(stream) \in Nat
  BY LenProperties DEF TypeOK, InFrame, Layout
<1>2. Len(stream') \in Nat
  <2>1. TypeOK'  BY TypeStep DEF Next
  <2> QED BY <2>1, LenProperties DEF TypeOK
<1>3. /\ Len(written') = Len(written) + 1
      /\ \A k \in 1 .. Len(written) : written'[k] = written[k]
  BY <1>1, AppendProperties DEF Write
<1>4. \A k \in 1 .. Len(ends) : ends'[k] = ends[k]
  BY <1>1, <1>2, AppendProperties DEF Write
<1>5. taken' = taken /\ blockSize' = blockSize /\ delivered' = delivered
  BY DEF Write
<1>6. EndOf(n)' = EndOf(n)
  <2>1. CASE n = 0  BY <2>1 DEF EndOf
  <2>2. CASE n # 0
    <3>1. n \in 1 .. Len(ends)  BY <1>1, <2>2
    <3> QED BY <1>4, <2>2, <3>1 DEF EndOf
  <2> QED BY <2>1, <2>2
<1>7. n < Len(written) => written'[n + 1] = written[n + 1]
  BY <1>1, <1>3
<1>8. InFrame'
  BY <1>1, <1>3, <1>5, <1>6, <1>7 DEF InFrame
<1>9. InOrder'
  <2>1. ASSUME NEW k \in 1 .. Len(delivered) PROVE delivered[k] = written'[k]
    <3>1. k \in 1 .. Len(written)  BY <1>1
    <3> QED BY <1>3, <3>1 DEF InOrder
  <2> QED BY <1>5, <2>1 DEF InOrder
<1> QED BY <1>8, <1>9

(* Every step keeps the invariant, as long as no parser begins a new       *)
(* connection with the length of the old one.                              *)
LEMMA InvStep ==
  ASSUME Fresh, Inv, [Next]_vars
  PROVE  Inv' /\ [Link!Next]_<<written, delivered>>
<1> USE DEF Inv
<1>1. TypeOK'  BY TypeStep
<1>2. ASSUME UNCHANGED <<written, ends, stream, taken, blockSize, delivered>>
      PROVE  Inv' /\ UNCHANGED <<written, delivered>>
  <2>1. ASSUME NEW k PROVE EndOf(k)' = EndOf(k) /\ Frame(k)' = Frame(k)
    <3>1. EndOf(k)' = EndOf(k) /\ EndOf(k - 1)' = EndOf(k - 1)
      BY <1>2 DEF EndOf
    <3> QED BY <1>2, <3>1 DEF Frame, WriteLength
  <2>2. Layout'  BY <1>2, <2>1 DEF Layout
  <2>3. InFrame' /\ InOrder'  BY <1>2, <2>1 DEF InFrame, InOrder
  <2> QED BY <1>1, <1>2, <2>2, <2>3
<1>3. CASE UNCHANGED vars  BY <1>2, <1>3 DEF vars
<1>4. ASSUME NEW body \in Bodies, Write(body)
      PROVE  Inv' /\ Link!Next
  <2>1. Link!Send(body)  BY <1>4 DEF Write, Link!Send
  <2>2. Layout'  BY <1>4, LayoutWrite
  <2>3. InFrame' /\ InOrder'  BY <1>4, WriteStep
  <2> QED BY <1>1, <2>1, <2>2, <2>3 DEF Link!Next
<1>5. CASE Arrive  BY <1>2, <1>5 DEF Arrive
<1>6. CASE ParseCommand
  <2>1. /\ InFrame' /\ InOrder'
        /\ Link!Deliver \/ UNCHANGED <<written, delivered>>
    BY <1>6, ParseStep
  <2>2. Layout'
    <3>1. UNCHANGED <<written, ends, stream>>  BY <1>6 DEF ParseCommand
    <3>2. ASSUME NEW k PROVE EndOf(k)' = EndOf(k) /\ Frame(k)' = Frame(k)
      <4>1. EndOf(k)' = EndOf(k) /\ EndOf(k - 1)' = EndOf(k - 1)
        BY <3>1 DEF EndOf
      <4> QED BY <3>1, <4>1 DEF Frame, WriteLength
    <3> QED BY <3>1, <3>2 DEF Layout
  <2> QED BY <1>1, <2>1, <2>2 DEF Link!Next
<1>7. CASE Loop  BY <1>2, <1>7 DEF Loop
<1>8. CASE Reconnect
  <2>1. AtServer
    <3>1. connections \in Nat \ {0} /\ connections < MaxConnections /\ MaxConnections \in Nat
      BY <1>8, FramingAssumption DEF TypeOK, Reconnect
    <3> QED BY <3>1 DEF Fresh
  <2>2. /\ written' = <<>> /\ ends' = <<>> /\ stream' = <<>> /\ taken' = 0
        /\ delivered' = <<>> /\ blockSize' = 0
    BY <1>8, <2>1 DEF Reconnect
  <2>3. /\ Len(written') = 0 /\ Len(ends') = 0 /\ Len(stream') = 0
        /\ Len(delivered') = 0 /\ EndOf(0)' = 0
    BY <2>2, EmptySeq DEF EndOf
  <2>4. Layout' /\ InFrame' /\ InOrder'
    BY <2>2, <2>3 DEF Layout, InFrame, InOrder
  <2>5. Link!Renew  BY <2>2 DEF Link!Renew
  <2> QED BY <1>1, <2>4, <2>5 DEF Link!Next
<1> QED BY <1>3, <1>4, <1>5, <1>6, <1>7, <1>8 DEF Next

(* ParseCommand takes whole frames off the stream, wherever TCP cuts and   *)
(* joins them, and what it takes for the length of the next command is its *)
(* length.                                                                 *)
THEOREM InFrameHolds ==
  ASSUME Fresh
  PROVE  Spec => []InFrame
<1>1. Inv => InFrame  BY DEF Inv
<1>2. Inv /\ [Next]_vars => Inv'  BY InvStep
<1> QED BY <1>1, <1>2, InvInit, PTL DEF Spec

(* The frames implement the link: what ParseCommand hands to the handlers  *)
(* is what was written, whole, in order and none left out or made up.      *)
THEOREM LinkSafety ==
  ASSUME Fresh
  PROVE  Spec => Link!Spec
<1>1. Init => Link!Init  BY DEF Init, Link!Init
<1>2. Inv /\ [Next]_vars => Inv'  BY InvStep
<1>3. Inv /\ [Next]_vars => [Link!Next]_(Link!link)
  BY InvStep DEF Link!link
<1> QED BY <1>1, <1>2, <1>3, InvInit, PTL DEF Spec, Link!Spec
=============================================================================
