------------------------------- MODULE Framing -------------------------------
(***************************************************************************)
(* How commands become frames on a TCP connection and commands again:      *)
(* NetCommandHandler::WriteData to LokiSocket::ParseCommand on the way to  *)
(* a client, LokiSocket::SendData to User::ParseCommand on the way to the  *)
(* server.  A frame is a length of four bytes, most significant first, and *)
(* a body.  TCP delivers the bytes in order and in pieces of any size.     *)
(*                                                                         *)
(* Both ends parse while there is enough in their buffer.  On the server   *)
(* that happens at once when bytes arrive; a client's parser hands each    *)
(* command to handlers that may open a dialog, and while the dialog's own  *)
(* event loop runs more bytes arrive without a readyRead of their own.     *)
(***************************************************************************)
EXTENDS Naturals, Sequences

CONSTANTS
  AtServer,        \* which end reads: the server's User or a LokiSocket
  Bodies,          \* the packed commands that may be sent
  MaxFrames,       \* bound: commands written on one connection
  MaxConnections   \* bound: connections one after the other

(* A length is kept in an int of 32 bits. *)
IsInt(v) == ((v \div 256) \div 256) \div 256 < 128

ASSUME FramingAssumption ==
  /\ AtServer \in BOOLEAN
  /\ \A body \in Bodies : /\ body \in Seq(0 .. 255)
                          /\ body # <<>>      \* its type and its content
                          /\ IsInt(Len(body))
  /\ MaxFrames \in Nat
  /\ MaxConnections \in Nat

VARIABLES
  written,     \* history: the bodies written on this connection
  ends,        \* history: where in the stream the frame of each ends
  stream,      \* the bytes written on this connection
  arrived,     \* how many of them have arrived at the reader's buffer
  taken,       \* how many of those the parser has taken out of the buffer
  blockSize,   \* _blockSize: the length read ahead of its body, or 0
  parser,      \* "idle", "parse" a frame or test whether to "loop"
  delivered,   \* the bodies handed on
  connections  \* connections so far

vars == <<written, ends, stream, arrived, taken, blockSize, parser, delivered,
          connections>>

-----------------------------------------------------------------------------
(* The length.  QDataStream writes and reads it most significant byte      *)
(* first; the server turns it over with htonl and ntohl and stores the     *)
(* bytes of the result least significant first.                            *)

Bytes(v) ==  \* of an integer of 32 bits, least significant first
  LET v2 == v \div 256  v3 == v2 \div 256  v4 == v3 \div 256
  IN <<v % 256, v2 % 256, v3 % 256, v4 % 256>>
LittleEndian(b) == b[1] + 256 * (b[2] + 256 * (b[3] + 256 * b[4]))
Swapped(b) == <<b[4], b[3], b[2], b[1]>>

htonl(v) == LittleEndian(Swapped(Bytes(v)))
ntohl(v) == htonl(v)

InsertNetworkUInt32(v) == Bytes(htonl(v))
Get4BytesHead(b) == LittleEndian(b)

WriteLength(v) ==
  IF AtServer THEN Swapped(Bytes(v)) ELSE InsertNetworkUInt32(v)
ReadLength(b) ==
  IF AtServer THEN ntohl(Get4BytesHead(b)) ELSE LittleEndian(Swapped(b))

-----------------------------------------------------------------------------
TypeOK ==
  /\ written \in Seq(Bodies)
  /\ ends \in Seq(Nat)
  /\ stream \in Seq(0 .. 255)
  /\ arrived \in 0 .. Len(stream)
  /\ taken \in 0 .. arrived
  /\ blockSize \in Nat
  /\ parser \in {"idle", "parse", "loop"}
  /\ delivered \in Seq(Seq(0 .. 255))
  /\ connections \in Nat \ {0}

Init ==
  /\ written = <<>> /\ ends = <<>> /\ stream = <<>>
  /\ arrived = 0 /\ taken = 0 /\ blockSize = 0 /\ parser = "idle"
  /\ delivered = <<>>
  /\ connections = 1

Write(body) ==
  /\ Len(written) < MaxFrames
  /\ written' = Append(written, body)
  /\ stream' = stream \o WriteLength(Len(body)) \o body
  /\ ends' = Append(ends, Len(stream'))
  /\ UNCHANGED <<arrived, taken, blockSize, parser, delivered, connections>>

(* Bytes arrive: a call of OnData, or readyRead, which is not emitted      *)
(* again while its slot is still running.                                  *)
Arrive ==
  /\ AtServer => parser = "idle"
  /\ \E n \in arrived + 1 .. Len(stream) : arrived' = n
  /\ parser' = IF parser = "idle" THEN "parse" ELSE parser
  /\ UNCHANGED <<written, ends, stream, taken, blockSize, delivered, connections>>

(* ParseCommand up to the command it hands on; an empty body holds none.   *)
LengthReadyAgain == IF AtServer THEN arrived - taken >= 4 ELSE arrived - taken > 4
LengthReady ==
  blockSize = 0 /\ IF AtServer THEN arrived - taken >= 4 ELSE arrived - taken > 4
CompleteWithLength(from, block) == arrived - from + 4 >= block
Complete(from, block) == arrived - from >= block
ParseCommand ==
  /\ parser = "parse"
  /\ LET block == IF LengthReady THEN ReadLength(SubSeq(stream, taken + 1, taken + 4))
                                 ELSE blockSize
         from == IF LengthReady THEN taken + 4 ELSE taken
     IN \/ /\ ~Complete(from, block)
           /\ blockSize' = block /\ taken' = from /\ parser' = "idle"
           /\ UNCHANGED delivered
        \/ /\ Complete(from, block)
           /\ blockSize' = 0 /\ taken' = from + block /\ parser' = "loop"
           /\ delivered' = IF block = 0 THEN delivered
                           ELSE Append(delivered, SubSeq(stream, from + 1, from + block))
  /\ UNCHANGED <<written, ends, stream, arrived, connections>>

(* ParseCommand's result, and the loop around it. *)
LoopOnce ==
  /\ parser = "loop"
  /\ parser' = "idle"
  /\ UNCHANGED <<written, ends, stream, arrived, taken, blockSize, delivered,
                 connections>>
Loop ==
  /\ parser = "loop"
  /\ parser' = IF arrived - taken > 4 /\ blockSize = 0 THEN "parse" ELSE "idle"
  /\ UNCHANGED <<written, ends, stream, arrived, taken, blockSize, delivered,
                 connections>>

(* The connection is lost, with what has not arrived, and another one is   *)
(* made: the server has a new User for it, the client its old LokiSocket.  *)
Reconnect ==
  /\ parser = "idle"
  /\ connections < MaxConnections
  /\ connections' = connections + 1
  /\ written' = <<>> /\ ends' = <<>> /\ stream' = <<>>
  /\ arrived' = 0 /\ taken' = 0 /\ delivered' = <<>>
  /\ blockSize' = IF AtServer THEN 0 ELSE blockSize
  /\ UNCHANGED parser

Next ==
  \/ \E body \in Bodies : Write(body)
  \/ Arrive \/ ParseCommand \/ Loop \/ Reconnect

(* Bytes arrive in the end, and loops run; nobody has to write. *)
Fairness == WF_vars(Arrive) /\ WF_vars(ParseCommand) /\ WF_vars(Loop)

Spec == Init /\ [][Next]_vars
FairSpec == Spec /\ Fairness

-----------------------------------------------------------------------------
(* Properties.                                                             *)

(* What ParseCommand has taken is a number of whole frames, or with        *)
(* _blockSize set also the length of the next one, and that is its length. *)
EndOf(k) == IF k = 0 THEN 0 ELSE ends[k]
InFrame ==
  /\ Len(delivered) <= Len(written)
  /\ IF blockSize = 0
     THEN taken = EndOf(Len(delivered))
     ELSE /\ taken = EndOf(Len(delivered)) + 4
          /\ Len(delivered) < Len(written)
          /\ blockSize = Len(written[Len(delivered) + 1])

(* The two ends see a link: whole commands in order, none kept back in the *)
(* buffer for good however TCP cuts and joins the frames.                  *)
Link == INSTANCE FifoLink WITH sent <- written, got <- delivered
ImplementsLink == Link!FairSpec

(* The client offers to connect again after an error: what is delivered on *)
(* the new connection is what was written on it.                           *)
RetryDelivers ==
  \A i \in DOMAIN delivered : i \in DOMAIN written /\ delivered[i] = written[i]
=============================================================================
