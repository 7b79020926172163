------------------------------ MODULE Framing ------------------------------
(***************************************************************************)
(* The binary wire format: internal/protocol/framing.go, and the loop of   *)
(* internal/tunnel/server_conn.go that cuts the byte stream into packets.  *)
(* One direction of a connection: a sender encodes messages and writes     *)
(* whole frames, TCP hands the bytes over in pieces of any size, and the   *)
(* reader keeps what is not yet a whole frame for the next read.           *)
(*                                                                         *)
(* A byte is a number below Base, which is 256 in the code; two of them    *)
(* make the frame size, a connection id or a key of the like.              *)
(***************************************************************************)
EXTENDS Naturals, Sequences

CONSTANTS
  Base,         \* 256
  ReadBufSize,  \* readBufSize: the most one Read returns
  Messages,     \* what the sender may send
  Last,         \* REJECT and RECONNECT: handlePacket makes readLoop return
  Wedges,       \* what a broken peer may send: bytes that are no frame
  MaxSent       \* bound on the messages sent

Byte == 0..(Base - 1)
Uint16 == 0..(Base * Base - 1)

\* Command bytes, commands.go:5-22.  Base is above the last of them.
CmdCreateRequest == 1
CmdCreateResponse == 2
CmdDestroy == 3
CmdData == 4
CmdReject == 5
CmdReconnect == 6
CmdKeepalive == 7
CmdRenewRequest == 8
CmdRenewResponse == 9

Slash == 0      \* the byte '/', which no host name contains

VARIABLES
  wire,      \* bytes written and not yet read
  buf,       \* bytes read that are not yet a whole frame
  sent,      \* every message encoded
  received,  \* every message decoded and handled
  open       \* readLoop is running

vars == <<wire, buf, sent, received, open>>

-----------------------------------------------------------------------------
(* Frames.                                                                 *)

\* binary.BigEndian.PutUint16 of uint16(n), and Uint16.
PutUint16(n) == <<(n \div Base) % Base, n % Base>>
GetUint16(b) == b[1] * Base + b[2]

After(b, n) == SubSeq(b, n + 1, Len(b))

EncodePacket(cmd, payload) ==
  PutUint16(2 + 1 + Len(payload)) \o <<cmd>> \o payload

\* Seeded fault: a frame is whole only when something follows it.
CompleteLate(b) == Len(b) >= 2 /\ GetUint16(b) >= 3 /\ Len(b) > GetUint16(b)

\* The loop's condition: b starts with a whole frame.
Complete(b) == /\ Len(b) >= 2
               /\ GetUint16(b) >= 3
               /\ Len(b) >= GetUint16(b)

\* Seeded fault: the payload begins at the command byte.
FirstPacketEarly(b) == [cmd |-> b[3], payload |-> SubSeq(b, 3, GetUint16(b))]

FirstPacket(b) == [cmd |-> b[3], payload |-> SubSeq(b, 4, GetUint16(b))]

\* DecodePackets: the packets at the front of b, and the bytes that remain.
DecodePackets(b) ==
  LET from[i \in 0..Len(b)] ==
        LET rest == After(b, i)
        IN  IF Complete(rest)
              THEN LET tail == from[i + GetUint16(rest)]
                   IN  [tail EXCEPT !.packets = <<FirstPacket(rest)>> \o @]
              ELSE [packets |-> <<>>, remaining |-> rest]
  IN  from[0]

-----------------------------------------------------------------------------
(* Messages and their payloads.                                            *)

CreateRequest(c, h, p) == [cmd |-> CmdCreateRequest, conn |-> c, host |-> h, port |-> p]
CreateResponse(c, s, r) == [cmd |-> CmdCreateResponse, conn |-> c, status |-> s, reason |-> r]
Destroy(c) == [cmd |-> CmdDestroy, conn |-> c]
Data(c, d) == [cmd |-> CmdData, conn |-> c, data |-> d]
RenewRequest(i) == [cmd |-> CmdRenewRequest, identifier |-> i]
RenewResponse(s, b) == [cmd |-> CmdRenewResponse, status |-> s, body |-> b]
Signal(cmd) == [cmd |-> cmd]
Raw(bytes) == [cmd |-> 0, bytes |-> bytes]

\* The frame of a CREATE_REQUEST is the server's to build.
EncodeCreateRequest(m) == PutUint16(m.conn) \o m.host \o <<Slash>> \o m.port
EncodeCreateResponse(m) == PutUint16(m.conn) \o <<m.status>> \o m.reason
EncodeDestroy(m) == PutUint16(m.conn)
EncodeData(m) == PutUint16(m.conn) \o m.data
EncodeRenewRequest(m) == m.identifier
EncodeRenewResponse(m) == <<m.status>> \o m.body

Payload(m) == CASE m.cmd = CmdCreateRequest  -> EncodeCreateRequest(m)
                [] m.cmd = CmdCreateResponse -> EncodeCreateResponse(m)
                [] m.cmd = CmdDestroy        -> EncodeDestroy(m)
                [] m.cmd = CmdData           -> EncodeData(m)
                [] m.cmd = CmdRenewRequest   -> EncodeRenewRequest(m)
                [] m.cmd = CmdRenewResponse  -> EncodeRenewResponse(m)
                [] OTHER                     -> <<>>

Malformed == [cmd |-> 0]

\* Host and port are what is before and after the first slash.
ParseCreateRequest(p) ==
  LET slashes == {i \in 3..Len(p) : p[i] = Slash}
      first == CHOOSE i \in slashes : \A j \in slashes : i <= j
  IN  IF slashes = {} THEN Malformed
      ELSE CreateRequest(GetUint16(p), SubSeq(p, 3, first - 1), After(p, first))

ParseCreateResponse(p) ==
  IF Len(p) < 3 THEN Malformed ELSE CreateResponse(GetUint16(p), p[3], After(p, 3))

ParseDestroy(p) == IF Len(p) < 2 THEN Malformed ELSE Destroy(GetUint16(p))

ParseData(p) == IF Len(p) < 2 THEN Malformed ELSE Data(GetUint16(p), After(p, 2))

ParseRenewRequest(p) == RenewRequest(p)

ParseRenewResponse(p) ==
  IF Len(p) < 1 THEN Malformed ELSE RenewResponse(p[1], After(p, 1))

Parse(pkt) == CASE pkt.cmd = CmdCreateRequest  -> ParseCreateRequest(pkt.payload)
                [] pkt.cmd = CmdCreateResponse -> ParseCreateResponse(pkt.payload)
                [] pkt.cmd = CmdDestroy        -> ParseDestroy(pkt.payload)
                [] pkt.cmd = CmdData           -> ParseData(pkt.payload)
                [] pkt.cmd = CmdRenewRequest   -> ParseRenewRequest(pkt.payload)
                [] pkt.cmd = CmdRenewResponse  -> ParseRenewResponse(pkt.payload)
                [] OTHER                       -> Signal(pkt.cmd)

Encode(m) == IF m \in Wedges THEN m.bytes ELSE EncodePacket(m.cmd, Payload(m))

\* What can be said in a frame.
Bytes == Seq(Byte)
Sayable ==
  [cmd : {CmdCreateRequest}, conn : Uint16, host : Seq(Byte \ {Slash}), port : Bytes]
    \cup [cmd : {CmdCreateResponse}, conn : Uint16, status : Byte, reason : Bytes]
    \cup [cmd : {CmdDestroy}, conn : Uint16]
    \cup [cmd : {CmdData}, conn : Uint16, data : Bytes]
    \cup [cmd : {CmdRenewRequest}, identifier : Bytes]
    \cup [cmd : {CmdRenewResponse}, status : Byte, body : Bytes]
    \cup [cmd : {CmdReject, CmdReconnect, CmdKeepalive}]

\* Every message's frame size fits its two bytes: the agent sends at most one
\* read buffer of data in a frame, and error texts are short.  A wedge is a size
\* below the three bytes every frame has, and perhaps more.
ASSUME FramingAssumption ==
  /\ Base \in Nat /\ Base > CmdRenewResponse
  /\ ReadBufSize \in Nat \ {0}
  /\ Messages \subseteq Sayable /\ Last \subseteq Messages
  /\ Wedges \subseteq [cmd : {0}, bytes : Bytes]
  /\ \A w \in Wedges : Len(w.bytes) >= 2 /\ GetUint16(w.bytes) < 3
  /\ MaxSent \in Nat
  /\ \A m \in Messages : Len(Encode(m)) \in Uint16

-----------------------------------------------------------------------------
Init == /\ wire = <<>> /\ buf = <<>>
        /\ sent = <<>> /\ received = <<>>
        /\ open = TRUE

\* The sender's writeLoop writes one whole frame.
Send(m) == /\ Len(sent) < MaxSent
           /\ wire' = wire \o Encode(m)
           /\ sent' = Append(sent, m)
           /\ UNCHANGED <<buf, received, open>>

\* Seeded fault: the whole batch is handled.
HandledAll(ms) == ms

\* The messages of a batch that are handled: none after one that makes
\* handlePacket return an error.
Handled(ms) ==
  LET ends == {i \in DOMAIN ms : ms[i] \in Last}
  IN  IF ends = {} THEN ms
      ELSE SubSeq(ms, 1, CHOOSE i \in ends : \A j \in ends : i <= j)

\* One turn of readLoop: n more bytes have arrived.
Read(n) ==
  /\ open
  /\ n <= Len(wire)
  /\ wire' = After(wire, n)
  /\ LET got == DecodePackets(buf \o SubSeq(wire, 1, n))
         ms == [i \in DOMAIN got.packets |-> Parse(got.packets[i])]
     IN  /\ buf' = got.remaining
         /\ received' = received \o Handled(ms)
         /\ open' = (\A i \in DOMAIN ms : ms[i] \notin Last)
  /\ UNCHANGED sent

\* The connection breaks; what had not been read is lost with it.
Lose == /\ open
        /\ open' = FALSE
        /\ wire' = <<>>
        /\ UNCHANGED <<buf, sent, received>>

Next == \/ \E m \in Messages \cup Wedges : Send(m)
        \/ \E n \in 1..ReadBufSize : Read(n)
        \/ Lose

Spec == Init /\ [][Next]_vars

-----------------------------------------------------------------------------
(* Properties.                                                             *)

\* Buffers hold bytes, and every message the reader made of them is one that
\* an end may send.
TypeOK == /\ wire \in Seq(Byte)
          /\ buf \in Seq(Byte)
          /\ sent \in Seq(Messages \cup Wedges) /\ Len(sent) <= MaxSent
          /\ received \in Seq(Messages)
          /\ open \in BOOLEAN

Channel == INSTANCE PacketChannel

\* However the byte stream is cut into reads, the reader handles the messages
\* that were sent, whole, once and in order, and none behind one that ends the
\* connection (framing.go:33-48, server_conn.go:90-106).
KeepsMessages == Channel!Spec

\* The messages before the first size that is no frame's.
Clear(ms) == LET w == {i \in DOMAIN ms : ms[i] \in Wedges}
             IN  IF w = {} THEN ms
                 ELSE SubSeq(ms, 1, (CHOOSE i \in w : \A j \in w : i <= j) - 1)

\* A whole frame is never left in the buffer: once everything written has been
\* read, everything sent has been handled.  Only behind a declared size of 0, 1
\* or 2, which DecodePackets takes for an incomplete frame (framing.go:38), is
\* all that follows kept, and never handled.
NothingStuck ==
  open /\ wire = <<>> =>
      /\ received = Clear(sent)
      /\ buf = <<>> <=> Clear(sent) = sent
=============================================================================
