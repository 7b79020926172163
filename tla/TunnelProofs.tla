---------------------------- MODULE TunnelProofs ----------------------------
(***************************************************************************)
(* Theorems about Tunnel, for every set of sessions, every assignment of   *)
(* ids to sessions (reused ids included), every queue capacity and every   *)
(* bound.                                                                  *)
(***************************************************************************)
EXTENDS Tunnel, TLAPS

\* The frames on their way to the server: queued, or in the writer's hands.
Pipe == {queue[k] : k \in 1..Len(queue)} \cup {wpkt}

Active(c) == srv[c] \notin {"idle", "ended"}

\* The goroutine of c never started, or is past its report to the server.
Quiet(c) == pc[c] \in {"none", "removing", "finished"}

-----------------------------------------------------------------------------
(* The parts of the inductive invariant *)

\* An entry of dests is a session of that id.
DestsById == \A i \in Ids : dests[i] # NoConn => IdOf[dests[i]] = i

\* A socket is open only while its goroutine has it in hand.
SockInv == \A c \in Conns :
    sock[c] = "open" =>
        pc[c] \in {"answering", "registering", "reading", "forwarding"}

\* The server uses an id for one session at a time.
OneActive == \A b, c \in Conns :
    Active(b) /\ Active(c) /\ IdOf[b] = IdOf[c] => b = c

\* Nothing of a session exists before the server asks for it.
IdleInv == \A c \in Conns : srv[c] = "idle" =>
    /\ pc[c] = "none"
    /\ \A f \in Pipe : f.conn # c
    /\ \A k \in 1..Len(inbox) : inbox[k].conn # c
    /\ main = "denying" => hand.conn # c

\* Until a CREATE is acted upon, its session is requested and unanswered.
Unanswered(c) ==
    /\ srv[c] = "requested" /\ pc[c] = "none"
    /\ \A f \in Pipe : f.conn # c
CreateInv ==
    /\ \A k \in 1..Len(inbox) : inbox[k].cmd = "CREATE" =>
          /\ Unanswered(inbox[k].conn)
          /\ main = "denying" => hand.conn # inbox[k].conn
    /\ main = "denying" => Unanswered(hand.conn)

\* Nothing is sent under an id while a CREATE for that id is on its way.
CreateIsLast == \A j, k \in 1..Len(inbox) :
    /\ j < k
    /\ inbox[j].cmd = "CREATE" /\ inbox[k].cmd \in {"CREATE", "DATA", "DESTROY"}
    => IdOf[inbox[j].conn] # IdOf[inbox[k].conn]

\* FAIL and DESTROY are the last that is heard of a session.
LastFrame == \A f \in Pipe : f.cmd \in {"FAIL", "DESTROY"} => Quiet(f.conn)
EndedInv == \A c \in Conns : srv[c] = "ended" => Quiet(c)

\* While DATA is on its way, every other session of its id is quiet.
DataInv == \A k \in 1..Len(inbox) : \A c \in Conns :
    /\ inbox[k].cmd = "DATA" /\ c # inbox[k].conn
    /\ IdOf[c] = IdOf[inbox[k].conn]
    => Quiet(c)
SendInv == main = "sending" /\ target # hand.conn => Quiet(target)

IInv ==
    /\ TypeOK /\ DestsById /\ SockInv /\ OneActive /\ IdleInv /\ CreateInv
    /\ CreateIsLast /\ LastFrame /\ EndedInv /\ DataInv /\ SendInv
    /\ NoCrossTalk

-----------------------------------------------------------------------------
(* Type correctness: one step per action, one per group of variables *)

LEMMA InitTypeOK == Init => TypeOK
<1> SUFFICES ASSUME Init PROVE TypeOK
  OBVIOUS
<1>1. MainType /\ DestsType
  BY DEF Init, MainType, DestsType
<1>2. PipeType
  <2>1. Frame("RENEW", NoConn, 0) \in ToServer
    BY DEF Frame, ToServer
  <2>2. queue \in Seq(ToServer) /\ Len(queue) <= 1
    BY <2>1 DEF Init
  <2> QED
    BY <2>2, TunnelAssumption DEF Init, PipeType
<1>3. ConnType /\ GotType /\ ServerType
  BY DEF Init, ConnType, GotType, ServerType
<1> QED
  BY <1>1, <1>2, <1>3 DEF TypeOK

LEMMA FrameToServer ==
  ASSUME NEW c \in Conns, NEW cmd \in {"OK", "FAIL", "DATA", "DESTROY"}, NEW n \in Nat
  PROVE  Frame(cmd, c, n) \in ToServer
  BY DEF Frame, ToServer

LEMMA FrameFromServer ==
  ASSUME NEW c \in Conns, NEW cmd \in {"CREATE", "DATA", "DESTROY"}, NEW n \in Nat
  PROVE  Frame(cmd, c, n) \in FromServer
  BY DEF Frame, FromServer

LEMMA EnqueueType ==
  ASSUME PipeType, NEW f \in ToServer, Enqueue(f), UNCHANGED <<writer, wpkt, ticks>>,
         keeper' \in {"waiting", "sending", "stopped"}
  PROVE  PipeType'
<1>1. queue \in Seq(ToServer) /\ Len(queue) < QueueCap /\ queue' = Append(queue, f)
  BY DEF PipeType, Enqueue
<1>2. queue' \in Seq(ToServer) /\ Len(queue') = Len(queue) + 1
  BY <1>1
<1>3. Len(queue') <= QueueCap
  BY <1>1, <1>2, TunnelAssumption
<1> QED
  BY <1>2, <1>3 DEF PipeType

\* A goroutine that sends a frame, or sends nothing because done is closed.
LEMMA SelectType ==
  ASSUME PipeType, NEW f \in ToServer, Enqueue(f) \/ UNCHANGED queue,
         UNCHANGED <<writer, wpkt, keeper, ticks>>
  PROVE  PipeType'
<1>1. CASE Enqueue(f)
  BY <1>1, EnqueueType DEF PipeType
<1>2. CASE UNCHANGED queue
  BY <1>2 DEF PipeType
<1> QED
  BY <1>1, <1>2

LEMMA ServerTypeOK == TypeOK /\ Server => TypeOK'
<1> SUFFICES ASSUME TypeOK, Server PROVE TypeOK'
  OBVIOUS
<1>0. ServerType
  BY DEF TypeOK
<1>1. ASSUME NEW c \in Conns, SrvCreate(c) PROVE TypeOK'
  <2>1. ServerType'
    BY <1>0, FrameFromServer, <1>1 DEF SrvCreate, Sends, ServerType
  <2>2. UNCHANGED <<main, hand, target, dests, queue, writer, wpkt, keeper, ticks, pc, sock, up, dst, got>>
    BY <1>1 DEF SrvCreate, Sends, serverVars, mainVars, writerVars, keeperVars, destVars
  <2> QED
    BY <2>1, <2>2 DEF TypeOK, MainType, DestsType, PipeType, ConnType, GotType
<1>2. ASSUME NEW c \in Conns, SrvData(c) PROVE TypeOK'
  <2>1. ServerType'
    BY <1>0, FrameFromServer, <1>2 DEF SrvData, Sends, ServerType
  <2>2. UNCHANGED <<main, hand, target, dests, queue, writer, wpkt, keeper, ticks, pc, sock, up, dst, got>>
    BY <1>2 DEF SrvData, Sends, serverVars, mainVars, writerVars, keeperVars, destVars
  <2> QED
    BY <2>1, <2>2 DEF TypeOK, MainType, DestsType, PipeType, ConnType, GotType
<1>3. ASSUME NEW c \in Conns, SrvDestroy(c) PROVE TypeOK'
  <2>1. ServerType'
    BY <1>0, FrameFromServer, <1>3 DEF SrvDestroy, Sends, ServerType
  <2>2. UNCHANGED <<main, hand, target, dests, queue, writer, wpkt, keeper, ticks, pc, sock, up, dst, got>>
    BY <1>3 DEF SrvDestroy, Sends, serverVars, mainVars, writerVars, keeperVars, destVars
  <2> QED
    BY <2>1, <2>2 DEF TypeOK, MainType, DestsType, PipeType, ConnType, GotType
<1>4. ASSUME NEW cmd \in {"NOISE", "STOP"}, SrvControl(cmd) PROVE TypeOK'
  <2>1. ServerType'
    BY <1>0, <1>4 DEF SrvControl, Sends, Frame, FromServer, ServerType
  <2>2. UNCHANGED <<main, hand, target, dests, queue, writer, wpkt, keeper, ticks, pc, sock, up, dst, got>>
    BY <1>4 DEF SrvControl, Sends, serverVars, mainVars, writerVars, keeperVars, destVars
  <2> QED
    BY <2>1, <2>2 DEF TypeOK, MainType, DestsType, PipeType, ConnType, GotType
<1>5. CASE LinkDown
  <2>1. PICK k \in 0..Len(inbox) : inbox' = SubSeq(inbox, 1, k)
    BY <1>5 DEF LinkDown
  <2>2. inbox' \in Seq(FromServer)
    BY <1>0, <2>1 DEF ServerType
  <2>3. ServerType'
    BY <1>0, <2>2, <1>5 DEF LinkDown, ServerType, serverVars
  <2>4. UNCHANGED <<main, hand, target, dests, queue, writer, wpkt, keeper,
                    ticks, pc, sock, up, dst, got>>
    BY <1>5 DEF LinkDown, mainVars, writerVars, keeperVars, destVars
  <2> QED
    BY <2>3, <2>4 DEF TypeOK, MainType, DestsType, PipeType, ConnType, GotType
<1> QED
  BY <1>1, <1>2, <1>3, <1>4, <1>5 DEF Server

LEMMA RunTypeOK == TypeOK /\ Run => TypeOK'
<1> SUFFICES ASSUME TypeOK, Run PROVE TypeOK'
  OBVIOUS
<1>0. MainType /\ DestsType /\ PipeType /\ ConnType /\ GotType /\ ServerType
  BY DEF TypeOK
<1>a. ASSUME inbox # <<>>
      PROVE  /\ Head(inbox) \in FromServer /\ Tail(inbox) \in Seq(FromServer)
             /\ Head(inbox).cmd \in {"CREATE", "DATA", "DESTROY"} =>
                    Head(inbox).conn \in Conns /\ Head(inbox).n \in Nat
  <2>1. Head(inbox) \in FromServer /\ Tail(inbox) \in Seq(FromServer)
    BY <1>0, <1>a DEF ServerType
  <2> QED
    BY <2>1 DEF FromServer
<1>b. NoFrame.conn = NoConn
  BY DEF NoFrame, Frame
<1>1. CASE HandleCreate
  <2>1. MainType'
    BY <1>0, <1>a, <1>1 DEF HandleCreate, Takes, MainType
  <2>2. ConnType'
    BY <1>0, <1>a, <1>1 DEF HandleCreate, Takes, ConnType
  <2>3. ServerType'
    BY <1>0, <1>a, <1>1 DEF HandleCreate, Takes, serverVars, ServerType
  <2>4. UNCHANGED <<dests, queue, writer, wpkt, keeper, ticks, got>>
    BY <1>1 DEF HandleCreate, Takes, serverVars, mainVars, writerVars, keeperVars, destVars
  <2> QED
    BY <2>1, <2>2, <2>3, <2>4 DEF TypeOK, DestsType, PipeType, GotType
<1>2. CASE HandleDestroy
  <2>1. MainType'
    BY <1>0, <1>a, TunnelAssumption, <1>2 DEF HandleDestroy, Takes, DestsType, MainType
  <2>2. ServerType'
    BY <1>0, <1>a, <1>2 DEF HandleDestroy, Takes, serverVars, ServerType
  <2>3. UNCHANGED <<dests, queue, writer, wpkt, keeper, ticks, pc, sock, up, dst, got>>
    BY <1>2 DEF HandleDestroy, Takes, serverVars, mainVars, writerVars, keeperVars, destVars
  <2> QED
    BY <2>1, <2>2, <2>3 DEF TypeOK, DestsType, PipeType, ConnType, GotType
<1>3. CASE HandleData
  <2>1. MainType'
    BY <1>0, <1>a, TunnelAssumption, <1>3 DEF HandleData, Takes, DestsType, MainType
  <2>2. ServerType'
    BY <1>0, <1>a, <1>3 DEF HandleData, Takes, serverVars, ServerType
  <2>3. UNCHANGED <<dests, queue, writer, wpkt, keeper, ticks, pc, sock, up, dst, got>>
    BY <1>3 DEF HandleData, Takes, serverVars, mainVars, writerVars, keeperVars, destVars
  <2> QED
    BY <2>1, <2>2, <2>3 DEF TypeOK, DestsType, PipeType, ConnType, GotType
<1>4. CASE HandleNoise
  <2>1. ServerType'
    BY <1>0, <1>a, <1>4 DEF HandleNoise, Takes, serverVars, ServerType
  <2>2. UNCHANGED <<main, hand, target, dests, queue, writer, wpkt, keeper, ticks, pc, sock, up, dst, got>>
    BY <1>4 DEF HandleNoise, Takes, serverVars, mainVars, writerVars, keeperVars, destVars
  <2> QED
    BY <2>1, <2>2 DEF TypeOK, MainType, DestsType, PipeType, ConnType, GotType
<1>5. CASE HandleStop
  <2>1. MainType'
    BY <1>0, <1>5 DEF HandleStop, Takes, MainType
  <2>2. ServerType'
    BY <1>0, <1>a, <1>5 DEF HandleStop, Takes, serverVars, ServerType
  <2>3. UNCHANGED <<dests, queue, writer, wpkt, keeper, ticks, pc, sock, up, dst, got>>
    BY <1>5 DEF HandleStop, Takes, serverVars, mainVars, writerVars, keeperVars, destVars
  <2> QED
    BY <2>1, <2>2, <2>3 DEF TypeOK, DestsType, PipeType, ConnType, GotType
<1>6. CASE Deny
  <2>1. MainType'
    BY <1>0, <1>6 DEF Deny, MainType
  <2>2. PipeType'
    <3>1. Frame("FAIL", hand.conn, 0) \in ToServer
      BY <1>0, <1>6, FrameToServer DEF Deny, MainType
    <3> QED
      BY <1>0, <1>6, <3>1, SelectType DEF Deny, writerVars, keeperVars
  <2>3. UNCHANGED <<dests, pc, sock, up, dst, got, inbox, link, srv, sent, rcv>>
    BY <1>6 DEF Deny, serverVars, mainVars, writerVars, keeperVars, destVars
  <2> QED
    BY <2>1, <2>2, <2>3 DEF TypeOK, DestsType, ConnType, GotType, ServerType
<1>7. CASE DoClose
  <2>1. MainType'
    BY <1>0, <1>7 DEF DoClose, MainType
  <2>2. ConnType'
    BY <1>0, <1>7 DEF DoClose, MainType, ConnType
  <2>3. UNCHANGED <<dests, queue, writer, wpkt, keeper, ticks, got, inbox, link, srv, sent, rcv>>
    BY <1>7 DEF DoClose, serverVars, mainVars, writerVars, keeperVars, destVars
  <2> QED
    BY <2>1, <2>2, <2>3 DEF TypeOK, DestsType, PipeType, GotType, ServerType
<1>8. CASE Deliver
  <2>1. MainType'
    BY <1>0, <1>8 DEF Deliver, MainType
  <2>2. GotType'
    <3>1. target \in Conns /\ <<hand.conn, hand.n>> \in Conns \X Nat
      BY <1>0, <1>8 DEF Deliver, MainType
    <3>2. Append(got[target], <<hand.conn, hand.n>>) \in Seq(Conns \X Nat)
      BY <1>0, <3>1 DEF GotType
    <3> QED
      BY <1>0, <1>8, <3>1, <3>2 DEF Deliver, GotType
  <2>3. UNCHANGED <<dests, queue, writer, wpkt, keeper, ticks, pc, sock, up, dst, inbox, link, srv, sent, rcv>>
    BY <1>8 DEF Deliver, serverVars, mainVars, writerVars, keeperVars, destVars
  <2> QED
    BY <2>1, <2>2, <2>3 DEF TypeOK, DestsType, PipeType, ConnType, ServerType
<1>9. CASE ReadError
  <2>1. MainType'
    BY <1>0, <1>9 DEF ReadError, MainType
  <2>2. UNCHANGED <<dests, queue, writer, wpkt, keeper, ticks, pc, sock, up, dst, got, inbox, link, srv, sent, rcv>>
    BY <1>9 DEF ReadError, serverVars, mainVars, writerVars, keeperVars, destVars
  <2> QED
    BY <2>1, <2>2 DEF TypeOK, DestsType, PipeType, ConnType, GotType, ServerType
<1>10. CASE CloseDests
  <2>1. MainType'
    BY <1>0, <1>10 DEF CloseDests, MainType
  <2>2. DestsType'
    BY <1>0, <1>10 DEF CloseDests, DestsType
  <2>3. ConnType'
    BY <1>0, <1>10 DEF CloseDests, ConnType
  <2>4. UNCHANGED <<queue, writer, wpkt, keeper, ticks, got, inbox, link, srv, sent, rcv>>
    BY <1>10 DEF CloseDests, serverVars, mainVars, writerVars, keeperVars, destVars
  <2> QED
    BY <2>1, <2>2, <2>3, <2>4 DEF TypeOK, PipeType, GotType, ServerType
<1>11. CASE HangUp
  <2>1. MainType'
    BY <1>0, <1>11 DEF HangUp, MainType
  <2>2. UNCHANGED <<dests, queue, writer, wpkt, keeper, ticks, pc, sock, up, dst, got, inbox, link, srv, sent, rcv>>
    BY <1>11 DEF HangUp, serverVars, mainVars, writerVars, keeperVars, destVars
  <2> QED
    BY <2>1, <2>2 DEF TypeOK, DestsType, PipeType, ConnType, GotType, ServerType
<1> QED
  BY <1>1, <1>2, <1>3, <1>4, <1>5, <1>6, <1>7, <1>8, <1>9, <1>10, <1>11
  DEF Run, HandlePacket

LEMMA GoroutineTypeOK ==
  ASSUME TypeOK, NEW c \in Conns, Goroutine(c) \/ Destination(c)
  PROVE  TypeOK'
<1>0. DestsType /\ PipeType /\ ConnType
  BY DEF TypeOK
<1>1. CASE Dial(c)
  <2>1. ConnType'
    BY <1>0, <1>1 DEF Dial, ConnType
  <2>2. UNCHANGED <<main, hand, target, dests, queue, writer, wpkt, keeper, ticks, got, inbox, link, srv, sent, rcv>>
    BY <1>1 DEF Dial, OthersUnchanged, serverVars, mainVars, writerVars, keeperVars
  <2> QED
    BY <2>1, <2>2 DEF TypeOK, MainType, DestsType, PipeType, GotType, ServerType
<1>2. CASE Refuse(c)
  <2>1. PipeType'
    <3>1. Frame("FAIL", c, 0) \in ToServer
      BY <1>0, FrameToServer
    <3> QED
      BY <1>0, <1>2, <3>1, SelectType
      DEF Refuse, OthersUnchanged, writerVars, keeperVars
  <2>2. ConnType'
    BY <1>0, <1>2 DEF Refuse, ConnType
  <2>3. UNCHANGED <<main, hand, target, dests, got, inbox, link, srv, sent, rcv>>
    BY <1>2 DEF Refuse, OthersUnchanged, serverVars, mainVars, writerVars, keeperVars
  <2> QED
    BY <2>1, <2>2, <2>3 DEF TypeOK, MainType, DestsType, GotType, ServerType
<1>3. CASE Answer(c)
  <2>1. PipeType'
    <3>1. Frame("OK", c, 0) \in ToServer
      BY <1>0, FrameToServer
    <3> QED
      BY <1>0, <1>3, <3>1, SelectType
      DEF Answer, OthersUnchanged, writerVars, keeperVars
  <2>2. ConnType'
    BY <1>0, <1>3 DEF Answer, ConnType
  <2>3. UNCHANGED <<main, hand, target, dests, got, inbox, link, srv, sent, rcv>>
    BY <1>3 DEF Answer, OthersUnchanged, serverVars, mainVars, writerVars, keeperVars
  <2> QED
    BY <2>1, <2>2, <2>3 DEF TypeOK, MainType, DestsType, GotType, ServerType
<1>4. CASE Register(c)
  <2>1. DestsType'
    BY <1>0, TunnelAssumption, <1>4 DEF Register, DestsType
  <2>2. ConnType'
    BY <1>0, <1>4 DEF Register, ConnType
  <2>3. UNCHANGED <<main, hand, target, queue, writer, wpkt, keeper, ticks, got, inbox, link, srv, sent, rcv>>
    BY <1>4 DEF Register, OthersUnchanged, serverVars, mainVars, writerVars, keeperVars
  <2> QED
    BY <2>1, <2>2, <2>3 DEF TypeOK, MainType, PipeType, GotType, ServerType
<1>5. CASE ReadChunk(c)
  <2>1. ConnType'
    BY <1>0, <1>5 DEF ReadChunk, ConnType
  <2>2. UNCHANGED <<main, hand, target, dests, queue, writer, wpkt, keeper, ticks, got, inbox, link, srv, sent, rcv>>
    BY <1>5 DEF ReadChunk, OthersUnchanged, serverVars, mainVars, writerVars, keeperVars
  <2> QED
    BY <2>1, <2>2 DEF TypeOK, MainType, DestsType, PipeType, GotType, ServerType
<1>6. CASE Forward(c)
  <2>1. PipeType'
    <3>1. Frame("DATA", c, up[c]) \in ToServer
      BY <1>0, FrameToServer DEF ConnType
    <3> QED
      BY <1>0, <1>6, <3>1, SelectType
      DEF Forward, OthersUnchanged, writerVars, keeperVars
  <2>2. ConnType'
    BY <1>0, <1>6 DEF Forward, ConnType
  <2>3. UNCHANGED <<main, hand, target, dests, got, inbox, link, srv, sent, rcv>>
    BY <1>6 DEF Forward, OthersUnchanged, serverVars, mainVars, writerVars, keeperVars
  <2> QED
    BY <2>1, <2>2, <2>3 DEF TypeOK, MainType, DestsType, GotType, ServerType
<1>7. CASE ReadFails(c)
  <2>1. ConnType'
    BY <1>0, <1>7 DEF ReadFails, ConnType
  <2>2. UNCHANGED <<main, hand, target, dests, queue, writer, wpkt, keeper, ticks, got, inbox, link, srv, sent, rcv>>
    BY <1>7 DEF ReadFails, OthersUnchanged, serverVars, mainVars, writerVars, keeperVars
  <2> QED
    BY <2>1, <2>2 DEF TypeOK, MainType, DestsType, PipeType, GotType, ServerType
<1>8. CASE Report(c)
  <2>1. PipeType'
    <3>1. Frame("DESTROY", c, 0) \in ToServer
      BY <1>0, FrameToServer
    <3> QED
      BY <1>0, <1>8, <3>1, SelectType
      DEF Report, OthersUnchanged, writerVars, keeperVars
  <2>2. ConnType'
    BY <1>0, <1>8 DEF Report, ConnType
  <2>3. UNCHANGED <<main, hand, target, dests, got, inbox, link, srv, sent, rcv>>
    BY <1>8 DEF Report, OthersUnchanged, serverVars, mainVars, writerVars, keeperVars
  <2> QED
    BY <2>1, <2>2, <2>3 DEF TypeOK, MainType, DestsType, GotType, ServerType
<1>9. CASE Remove(c)
  <2>1. DestsType'
    BY <1>0, <1>9 DEF Remove, DestsType
  <2>2. ConnType'
    BY <1>0, <1>9 DEF Remove, ConnType
  <2>3. UNCHANGED <<main, hand, target, queue, writer, wpkt, keeper, ticks, got, inbox, link, srv, sent, rcv>>
    BY <1>9 DEF Remove, OthersUnchanged, serverVars, mainVars, writerVars, keeperVars
  <2> QED
    BY <2>1, <2>2, <2>3 DEF TypeOK, MainType, PipeType, GotType, ServerType
<1>10. CASE DestCloses(c)
  <2>1. ConnType'
    BY <1>0, <1>10 DEF DestCloses, ConnType
  <2>2. UNCHANGED <<main, hand, target, dests, queue, writer, wpkt, keeper, ticks, got, inbox, link, srv, sent, rcv>>
    BY <1>10 DEF DestCloses, OthersUnchanged, serverVars, mainVars, writerVars, keeperVars
  <2> QED
    BY <2>1, <2>2 DEF TypeOK, MainType, DestsType, PipeType, GotType, ServerType
<1> QED
  BY <1>1, <1>2, <1>3, <1>4, <1>5, <1>6, <1>7, <1>8, <1>9, <1>10
  DEF Goroutine, Destination

LEMMA LoopTypeOK == TypeOK /\ (WriteLoop \/ KeepaliveLoop) => TypeOK'
<1> SUFFICES ASSUME TypeOK, WriteLoop \/ KeepaliveLoop PROVE TypeOK'
  OBVIOUS
<1>0. PipeType /\ ServerType
  BY DEF TypeOK
<1>1. CASE WriterTake
  <2>1. PipeType'
    <3>1. /\ queue \in Seq(ToServer) /\ queue # <<>>
          /\ wpkt' = Head(queue) /\ queue' = Tail(queue)
      BY <1>0, <1>1 DEF WriterTake, PipeType
    <3>2. /\ Head(queue) \in ToServer /\ Tail(queue) \in Seq(ToServer)
          /\ Len(Tail(queue)) = Len(queue) - 1 /\ Len(queue) \in Nat
      BY <3>1
    <3> QED
      BY <1>0, <1>1, <3>1, <3>2, TunnelAssumption DEF WriterTake, keeperVars, PipeType
  <2>2. UNCHANGED <<main, hand, target, dests, pc, sock, up, dst, got, inbox, link, srv, sent, rcv>>
    BY <1>1 DEF WriterTake, serverVars, mainVars, writerVars, keeperVars, destVars
  <2> QED
    BY <2>1, <2>2 DEF TypeOK, MainType, DestsType, ConnType, GotType, ServerType
<1>2. CASE WriterSend
  <2>1. PipeType'
    BY <1>0, <1>2 DEF WriterSend, keeperVars, PipeType
  <2>2. ServerType'
    BY <1>0, <1>2 DEF WriterSend, Receives, Awaited, PipeType, ToServer, ServerType
  <2>3. UNCHANGED <<main, hand, target, dests, pc, sock, up, dst, got>>
    BY <1>2 DEF WriterSend, serverVars, mainVars, writerVars, keeperVars, destVars
  <2> QED
    BY <2>1, <2>2, <2>3 DEF TypeOK, MainType, DestsType, ConnType, GotType
<1>3. CASE WriterFail
  <2>1. PipeType'
    BY <1>0, <1>3 DEF WriterFail, keeperVars, PipeType
  <2>2. UNCHANGED <<main, hand, target, dests, pc, sock, up, dst, got, inbox, link, srv, sent, rcv>>
    BY <1>3 DEF WriterFail, serverVars, mainVars, writerVars, keeperVars, destVars
  <2> QED
    BY <2>1, <2>2 DEF TypeOK, MainType, DestsType, ConnType, GotType, ServerType
<1>4. CASE WriterStop
  <2>1. PipeType'
    BY <1>0, <1>4 DEF WriterStop, keeperVars, PipeType
  <2>2. UNCHANGED <<main, hand, target, dests, pc, sock, up, dst, got, inbox, link, srv, sent, rcv>>
    BY <1>4 DEF WriterStop, serverVars, mainVars, writerVars, keeperVars, destVars
  <2> QED
    BY <2>1, <2>2 DEF TypeOK, MainType, DestsType, ConnType, GotType, ServerType
<1>5. CASE KeeperTick
  <2>1. PipeType'
    BY <1>0, <1>5 DEF KeeperTick, writerVars, PipeType
  <2>2. UNCHANGED <<main, hand, target, dests, pc, sock, up, dst, got, inbox, link, srv, sent, rcv>>
    BY <1>5 DEF KeeperTick, serverVars, mainVars, writerVars, keeperVars, destVars
  <2> QED
    BY <2>1, <2>2 DEF TypeOK, MainType, DestsType, ConnType, GotType, ServerType
<1>6. CASE KeeperSend
  <2>1. PipeType'
    <3>1. Frame("KEEPALIVE", NoConn, 0) \in ToServer
      BY DEF Frame, ToServer
    <3> QED
      BY <1>0, <1>6, <3>1, EnqueueType DEF KeeperSend, writerVars
  <2>2. UNCHANGED <<main, hand, target, dests, pc, sock, up, dst, got, inbox, link, srv, sent, rcv>>
    BY <1>6 DEF KeeperSend, serverVars, mainVars, writerVars, keeperVars, destVars
  <2> QED
    BY <2>1, <2>2 DEF TypeOK, MainType, DestsType, ConnType, GotType, ServerType
<1>7. CASE KeeperStop
  <2>1. PipeType'
    BY <1>0, <1>7 DEF KeeperStop, writerVars, PipeType
  <2>2. UNCHANGED <<main, hand, target, dests, pc, sock, up, dst, got, inbox, link, srv, sent, rcv>>
    BY <1>7 DEF KeeperStop, serverVars, mainVars, writerVars, keeperVars, destVars
  <2> QED
    BY <2>1, <2>2 DEF TypeOK, MainType, DestsType, ConnType, GotType, ServerType
<1> QED
  BY <1>1, <1>2, <1>3, <1>4, <1>5, <1>6, <1>7 DEF WriteLoop, KeepaliveLoop

LEMMA NextTypeOK == TypeOK /\ [Next]_vars => TypeOK'
<1> SUFFICES ASSUME TypeOK, [Next]_vars PROVE TypeOK'
  OBVIOUS
<1>1. CASE UNCHANGED vars
  BY <1>1 DEF TypeOK, MainType, DestsType, PipeType, ConnType, GotType, ServerType,
     vars, serverVars, mainVars, writerVars, keeperVars, destVars
<1>2. CASE Next
  BY <1>2, ServerTypeOK, RunTypeOK, GoroutineTypeOK, LoopTypeOK DEF Next
<1> QED
  BY <1>1, <1>2

\* Every reachable state is well typed; serverSend stays within its capacity.
THEOREM TypeCorrect == Spec => []TypeOK
  BY InitTypeOK, NextTypeOK, PTL DEF Spec

-----------------------------------------------------------------------------
(* What an action does to the frames on their way *)

LEMMA PipeEnqueue ==
  ASSUME TypeOK, NEW f \in ToServer, Enqueue(f), wpkt' = wpkt
  PROVE  Pipe' = Pipe \cup {f}
<1>1. queue \in Seq(ToServer) /\ queue' = Append(queue, f)
  BY DEF TypeOK, PipeType, Enqueue
<1>2. /\ Len(queue') = Len(queue) + 1 /\ Len(queue) \in Nat
      /\ \A k \in 1..Len(queue) : queue'[k] = queue[k]
      /\ queue'[Len(queue) + 1] = f
  BY <1>1
<1> QED
  BY <1>2 DEF Pipe

LEMMA PipeSame ==
  ASSUME UNCHANGED <<queue, wpkt>> PROVE Pipe' = Pipe
  BY DEF Pipe

LEMMA PipeTake ==
  ASSUME TypeOK, WriterTake PROVE Pipe' \subseteq Pipe
<1>1. /\ queue \in Seq(ToServer) /\ queue # <<>>
      /\ wpkt' = Head(queue) /\ queue' = Tail(queue)
  BY DEF TypeOK, PipeType, WriterTake
<1>2. /\ Len(queue') = Len(queue) - 1 /\ Len(queue) \in Nat \ {0}
      /\ wpkt' = queue[1]
      /\ \A k \in 1..Len(queue') : queue'[k] = queue[k + 1]
  BY <1>1
<1> QED
  BY <1>2 DEF Pipe

LEMMA PipeDrop ==
  ASSUME UNCHANGED queue, wpkt' = NoFrame PROVE Pipe' \subseteq Pipe \cup {NoFrame}
  BY DEF Pipe

LEMMA PipeFrames ==
  ASSUME TypeOK
  PROVE  \A f \in Pipe : f.cmd \in {"FAIL", "DESTROY"} => f.conn \in Conns
<1>1. \A f \in Pipe : f \in ToServer \cup {NoFrame}
  BY DEF Pipe, TypeOK, PipeType
<1> QED
  BY <1>1 DEF ToServer, NoFrame, Frame

LEMMA InboxFrames ==
  ASSUME TypeOK
  PROVE  \A k \in 1..Len(inbox) :
            inbox[k].cmd \in {"CREATE", "DATA", "DESTROY"} => inbox[k].conn \in Conns
<1>1. \A k \in 1..Len(inbox) : inbox[k] \in FromServer
  BY DEF TypeOK, ServerType
<1> QED
  BY <1>1 DEF FromServer

LEMMA InboxTail ==
  ASSUME TypeOK, NEW cmd, Takes(cmd)
  PROVE  /\ Len(inbox') \in Nat /\ Len(inbox) = Len(inbox') + 1
         /\ \A k \in 1..Len(inbox') : inbox'[k] = inbox[k + 1]
         /\ Head(inbox) = inbox[1] /\ inbox[1] \in FromServer /\ inbox[1].cmd = cmd
         /\ \A k \in 1..Len(inbox) : inbox[k] \in FromServer
  BY DEF TypeOK, ServerType, Takes

LEMMA InboxAppend ==
  ASSUME TypeOK, NEW f, Sends(f)
  PROVE  /\ Len(inbox) \in Nat /\ Len(inbox') = Len(inbox) + 1
         /\ \A k \in 1..Len(inbox) : inbox'[k] = inbox[k] /\ inbox[k] \in FromServer
         /\ inbox'[Len(inbox) + 1] = f
  BY DEF TypeOK, ServerType, Sends

-----------------------------------------------------------------------------
(* The invariant: goroutines of sessions *)

\* All a step of the goroutine of c has to respect.
LEMMA GoroutineKeeps ==
  ASSUME IInv, NEW c \in Conns, pc[c] # "none",
         \A b \in Conns : b # c => pc'[b] = pc[b],
         Quiet(c) => Quiet(c)',
         \A f \in Pipe' : f \in Pipe \/ /\ f.conn = c
                                        /\ f.cmd \in {"FAIL", "DESTROY"} => Quiet(c)',
         UNCHANGED <<main, hand, target, inbox, srv, got>>,
         TypeOK', DestsById', SockInv'
  PROVE  IInv'
<1>1. OneActive' /\ CreateIsLast' /\ NoCrossTalk'
  BY DEF IInv, OneActive, Active, CreateIsLast, NoCrossTalk
<1>2. \A b \in Conns : Quiet(b) => Quiet(b)'
  BY DEF Quiet
<1>3. IdleInv'
  BY DEF IInv, IdleInv
<1>4. CreateInv'
  <2>1. \A b \in Conns : Unanswered(b) => Unanswered(b)'
    BY DEF Unanswered
  <2>2. \A k \in 1..Len(inbox) : inbox[k].cmd = "CREATE" => inbox[k].conn \in Conns
    BY InboxFrames DEF IInv
  <2>3. main = "denying" => hand.conn \in Conns
    BY DEF IInv, TypeOK, MainType
  <2> QED
    BY <2>1, <2>2, <2>3 DEF IInv, CreateInv
<1>5. LastFrame'
  BY <1>2, PipeFrames DEF IInv, LastFrame
<1>6. EndedInv' /\ DataInv'
  BY <1>2 DEF IInv, EndedInv, DataInv
<1>7. SendInv'
  BY <1>2 DEF IInv, SendInv, TypeOK, MainType
<1> QED
  BY <1>1, <1>3, <1>4, <1>5, <1>6, <1>7 DEF IInv

LEMMA GoroutineIInv ==
  ASSUME IInv, NEW c \in Conns, Goroutine(c) \/ Destination(c)
  PROVE  IInv'
<1> USE DEF OthersUnchanged, mainVars, writerVars, serverVars
<1>0. TypeOK /\ TypeOK' /\ DestsById /\ SockInv
  BY GoroutineTypeOK DEF IInv
<1>t. DOMAIN pc = Conns /\ DOMAIN sock = Conns /\ DOMAIN dests = Ids
  BY <1>0 DEF TypeOK, ConnType, DestsType
<1>1. CASE Dial(c)
  <2>1. Pipe' = Pipe
    BY <1>1, PipeSame DEF Dial
  <2>2. DestsById' /\ SockInv'
    BY <1>0, <1>t, <1>1 DEF Dial, DestsById, SockInv
  <2> QED
    BY <1>0, <1>t, <1>1, <2>1, <2>2, GoroutineKeeps DEF Dial, Quiet
<1>2. CASE Refuse(c)
  <2>1. Frame("FAIL", c, 0) \in ToServer
    BY <1>0, FrameToServer DEF TypeOK, ConnType
  <2>2. Pipe' = Pipe \/ Pipe' = Pipe \cup {Frame("FAIL", c, 0)}
    BY <1>0, <1>2, <2>1, PipeSame, PipeEnqueue DEF Refuse
  <2>3. DestsById' /\ SockInv'
    BY <1>0, <1>t, <1>2 DEF Refuse, DestsById, SockInv
  <2>4. /\ pc[c] # "none"
        /\ \A b \in Conns : b # c => pc'[b] = pc[b]
        /\ Quiet(c) => Quiet(c)'
        /\ Quiet(c)'
    BY <1>t, <1>2 DEF Refuse, Quiet
  <2>5. Frame("FAIL", c, 0).conn = c /\ Frame("FAIL", c, 0).cmd = "FAIL"
    BY DEF Frame
  <2>6. UNCHANGED <<main, hand, target, inbox, srv, got>>
    BY <1>2 DEF Refuse
  <2> QED
    BY <1>0, <2>2, <2>3, <2>4, <2>5, <2>6, GoroutineKeeps
<1>3. CASE Answer(c)
  <2>1. Frame("OK", c, 0) \in ToServer
    BY <1>0, FrameToServer DEF TypeOK, ConnType
  <2>2. Pipe' = Pipe \/ Pipe' = Pipe \cup {Frame("OK", c, 0)}
    BY <1>0, <1>3, <2>1, PipeSame, PipeEnqueue DEF Answer
  <2>3. DestsById' /\ SockInv'
    BY <1>0, <1>t, <1>3 DEF Answer, DestsById, SockInv
  <2>4. /\ pc[c] # "none"
        /\ \A b \in Conns : b # c => pc'[b] = pc[b]
        /\ Quiet(c) => Quiet(c)'
    BY <1>t, <1>3 DEF Answer, Quiet
  <2>5. Frame("OK", c, 0).conn = c /\ Frame("OK", c, 0).cmd = "OK"
    BY DEF Frame
  <2>6. UNCHANGED <<main, hand, target, inbox, srv, got>>
    BY <1>3 DEF Answer
  <2> QED
    BY <1>0, <2>2, <2>3, <2>4, <2>5, <2>6, GoroutineKeeps
<1>4. CASE Register(c)
  <2>1. Pipe' = Pipe
    BY <1>4, PipeSame DEF Register
  <2>2. DestsById' /\ SockInv'
    BY <1>0, <1>t, <1>4, TunnelAssumption DEF Register, DestsById, SockInv
  <2> QED
    BY <1>0, <1>t, <1>4, <2>1, <2>2, GoroutineKeeps DEF Register, Quiet
<1>5. CASE ReadChunk(c)
  <2>1. Pipe' = Pipe
    BY <1>5, PipeSame DEF ReadChunk
  <2>2. DestsById' /\ SockInv'
    BY <1>0, <1>t, <1>5, TunnelAssumption DEF ReadChunk, DestsById, SockInv
  <2> QED
    BY <1>0, <1>t, <1>5, <2>1, <2>2, GoroutineKeeps DEF ReadChunk, Quiet
<1>6. CASE Forward(c)
  <2>1. Frame("DATA", c, up[c]) \in ToServer
    BY <1>0, FrameToServer DEF TypeOK, ConnType
  <2>2. Pipe' = Pipe \/ Pipe' = Pipe \cup {Frame("DATA", c, up[c])}
    BY <1>0, <1>6, <2>1, PipeSame, PipeEnqueue DEF Forward
  <2>3. DestsById' /\ SockInv'
    BY <1>0, <1>t, <1>6 DEF Forward, DestsById, SockInv
  <2>4. /\ pc[c] # "none"
        /\ \A b \in Conns : b # c => pc'[b] = pc[b]
        /\ Quiet(c) => Quiet(c)'
    BY <1>t, <1>6 DEF Forward, Quiet
  <2>5. Frame("DATA", c, up[c]).conn = c /\ Frame("DATA", c, up[c]).cmd = "DATA"
    BY DEF Frame
  <2>6. UNCHANGED <<main, hand, target, inbox, srv, got>>
    BY <1>6 DEF Forward
  <2> QED
    BY <1>0, <2>2, <2>3, <2>4, <2>5, <2>6, GoroutineKeeps
<1>7. CASE ReadFails(c)
  <2>1. Pipe' = Pipe
    BY <1>7, PipeSame DEF ReadFails
  <2>2. DestsById' /\ SockInv'
    BY <1>0, <1>t, <1>7, TunnelAssumption DEF ReadFails, DestsById, SockInv
  <2> QED
    BY <1>0, <1>t, <1>7, <2>1, <2>2, GoroutineKeeps DEF ReadFails, Quiet
<1>8. CASE Report(c)
  <2>1. Frame("DESTROY", c, 0) \in ToServer
    BY <1>0, FrameToServer DEF TypeOK, ConnType
  <2>2. Pipe' = Pipe \/ Pipe' = Pipe \cup {Frame("DESTROY", c, 0)}
    BY <1>0, <1>8, <2>1, PipeSame, PipeEnqueue DEF Report
  <2>3. DestsById' /\ SockInv'
    BY <1>0, <1>t, <1>8 DEF Report, DestsById, SockInv
  <2>4. /\ pc[c] # "none"
        /\ \A b \in Conns : b # c => pc'[b] = pc[b]
        /\ Quiet(c) => Quiet(c)'
        /\ Quiet(c)'
    BY <1>t, <1>8 DEF Report, Quiet
  <2>5. Frame("DESTROY", c, 0).conn = c /\ Frame("DESTROY", c, 0).cmd = "DESTROY"
    BY DEF Frame
  <2>6. UNCHANGED <<main, hand, target, inbox, srv, got>>
    BY <1>8 DEF Report
  <2> QED
    BY <1>0, <2>2, <2>3, <2>4, <2>5, <2>6, GoroutineKeeps
<1>9. CASE Remove(c)
  <2>1. Pipe' = Pipe
    BY <1>9, PipeSame DEF Remove
  <2>2. DestsById' /\ SockInv'
    BY <1>0, <1>t, <1>9, TunnelAssumption DEF Remove, DestsById, SockInv
  <2> QED
    BY <1>0, <1>t, <1>9, <2>1, <2>2, GoroutineKeeps DEF Remove, Quiet
<1>10. CASE DestCloses(c)
  <2>1. Pipe' = Pipe
    BY <1>10, PipeSame DEF DestCloses
  <2>2. DestsById' /\ SockInv'
    BY <1>0, <1>10 DEF DestCloses, DestsById, SockInv
  <2> QED
    BY <1>0, <1>10, <2>1, <2>2, GoroutineKeeps DEF DestCloses, Quiet, SockInv
<1> QED
  BY <1>1, <1>2, <1>3, <1>4, <1>5, <1>6, <1>7, <1>8, <1>9, <1>10
  DEF Goroutine, Destination

-----------------------------------------------------------------------------
(* The invariant: writer and keeper *)

\* Frames that concern no session may come, frames of sessions may go.
LEMMA PipeKeeps ==
  ASSUME IInv, TypeOK',
         \A f \in Pipe' : \/ f \in Pipe
                          \/ f.conn = NoConn /\ f.cmd \notin {"FAIL", "DESTROY"},
         UNCHANGED <<main, hand, target, dests, pc, sock, got, inbox, srv>>
  PROVE  IInv'
<1>1. /\ DestsById' /\ SockInv' /\ OneActive' /\ CreateIsLast' /\ EndedInv'
      /\ DataInv' /\ SendInv' /\ NoCrossTalk'
  BY DEF IInv, DestsById, SockInv, OneActive, Active, CreateIsLast, EndedInv,
     DataInv, SendInv, NoCrossTalk, Quiet
<1>2. IdleInv'
  BY TunnelAssumption DEF IInv, IdleInv
<1>3. LastFrame'
  BY DEF IInv, LastFrame, Quiet
<1>4. CreateInv'
  <2>1. \A c \in Conns : Unanswered(c) => Unanswered(c)'
    BY TunnelAssumption DEF Unanswered
  <2>2. main = "denying" => hand.conn \in Conns
    BY DEF IInv, TypeOK, MainType
  <2> QED
    BY <2>1, <2>2, InboxFrames DEF IInv, CreateInv
<1> QED
  BY <1>1, <1>2, <1>3, <1>4 DEF IInv

LEMMA WriterSendIInv == IInv /\ WriterSend => IInv'
<1> SUFFICES ASSUME IInv, WriterSend PROVE IInv'
  OBVIOUS
<1>0. TypeOK' /\ TypeOK
  BY LoopTypeOK DEF IInv, WriteLoop
<1>1. \A f \in Pipe' : f \in Pipe \/ f = NoFrame
  BY PipeDrop DEF WriterSend
<1>2. wpkt \in Pipe /\ wpkt \in ToServer
  BY <1>0 DEF Pipe, TypeOK, PipeType, WriterSend
<1>3. UNCHANGED <<main, hand, target, dests, pc, sock, got, inbox>>
  BY DEF WriterSend, mainVars, destVars
<1>4. /\ \A c \in Conns : srv'[c] # srv[c] =>
            /\ c = wpkt.conn /\ srv[c] \notin {"idle", "ended"} /\ srv'[c] # "idle"
            /\ srv'[c] = "ended" => wpkt.cmd \in {"FAIL", "DESTROY"}
  BY <1>0, <1>2 DEF WriterSend, Receives, Awaited, ToServer, TypeOK, ServerType
<1>n. NoFrame.conn = NoConn /\ NoFrame.cmd = "NONE"
  BY DEF NoFrame, Frame
<1>5. /\ DestsById' /\ SockInv' /\ CreateIsLast' /\ DataInv' /\ SendInv'
      /\ NoCrossTalk'
  BY <1>3 DEF IInv, DestsById, SockInv, CreateIsLast, DataInv, SendInv,
     NoCrossTalk, Quiet
<1>6. OneActive'
  BY <1>4 DEF IInv, OneActive, Active
<1>7. IdleInv'
  BY <1>1, <1>3, <1>4, <1>n, TunnelAssumption DEF IInv, IdleInv
<1>8. LastFrame'
  BY <1>1, <1>3, <1>n DEF IInv, LastFrame, Quiet
<1>9. EndedInv'
  BY <1>2, <1>3, <1>4 DEF IInv, EndedInv, LastFrame, Quiet
<1>10. CreateInv'
  <2>1. \A c \in Conns : Unanswered(c) => Unanswered(c)'
    BY <1>1, <1>2, <1>3, <1>4, <1>n, TunnelAssumption DEF Unanswered
  <2>2. main = "denying" => hand.conn \in Conns
    BY <1>0 DEF TypeOK, MainType
  <2> QED
    BY <1>0, <1>3, <2>1, <2>2, InboxFrames DEF IInv, CreateInv
<1> QED
  BY <1>0, <1>5, <1>6, <1>7, <1>8, <1>9, <1>10 DEF IInv

LEMMA LoopIInv == IInv /\ (WriteLoop \/ KeepaliveLoop) => IInv'
<1> SUFFICES ASSUME IInv, WriteLoop \/ KeepaliveLoop PROVE IInv'
  OBVIOUS
<1>0. TypeOK /\ TypeOK'
  BY LoopTypeOK DEF IInv
<1>1. CASE WriterTake
  <2>1. Pipe' \subseteq Pipe
    BY <1>0, <1>1, PipeTake
  <2>3. UNCHANGED <<main, hand, target, dests, pc, sock, got, inbox, srv>>
    BY <1>1 DEF WriterTake, mainVars, destVars, serverVars
  <2> QED
    BY <1>0, <2>1, <2>3, PipeKeeps
<1>2. CASE WriterFail
  <2>1. Pipe' \subseteq Pipe \cup {NoFrame}
    BY <1>2, PipeDrop DEF WriterFail
  <2>2. NoFrame.conn = NoConn /\ NoFrame.cmd \notin {"FAIL", "DESTROY"}
    BY DEF NoFrame, Frame
  <2>3. UNCHANGED <<main, hand, target, dests, pc, sock, got, inbox, srv>>
    BY <1>2 DEF WriterFail, mainVars, destVars, serverVars
  <2> QED
    BY <1>0, <2>1, <2>2, <2>3, PipeKeeps
<1>3. CASE KeeperSend
  <2>1. /\ Frame("KEEPALIVE", NoConn, 0) \in ToServer
        /\ Frame("KEEPALIVE", NoConn, 0).conn = NoConn
        /\ Frame("KEEPALIVE", NoConn, 0).cmd \notin {"FAIL", "DESTROY"}
    BY DEF Frame, ToServer
  <2>2. Pipe' = Pipe \cup {Frame("KEEPALIVE", NoConn, 0)}
    BY <1>0, <1>3, <2>1, PipeEnqueue DEF KeeperSend, writerVars
  <2>3. UNCHANGED <<main, hand, target, dests, pc, sock, got, inbox, srv>>
    BY <1>3 DEF KeeperSend, mainVars, destVars, serverVars
  <2> QED
    BY <1>0, <2>1, <2>2, <2>3, PipeKeeps
<1>4. CASE WriterStop
  <2>1. Pipe' = Pipe
    BY <1>4, PipeSame DEF WriterStop, writerVars
  <2>3. UNCHANGED <<main, hand, target, dests, pc, sock, got, inbox, srv>>
    BY <1>4 DEF WriterStop, mainVars, destVars, serverVars
  <2> QED
    BY <1>0, <2>1, <2>3, PipeKeeps
<1>5. CASE KeeperTick
  <2>1. Pipe' = Pipe
    BY <1>5, PipeSame DEF KeeperTick, writerVars
  <2>3. UNCHANGED <<main, hand, target, dests, pc, sock, got, inbox, srv>>
    BY <1>5 DEF KeeperTick, mainVars, destVars, serverVars
  <2> QED
    BY <1>0, <2>1, <2>3, PipeKeeps
<1>6. CASE KeeperStop
  <2>1. Pipe' = Pipe
    BY <1>6, PipeSame DEF KeeperStop, writerVars
  <2>3. UNCHANGED <<main, hand, target, dests, pc, sock, got, inbox, srv>>
    BY <1>6 DEF KeeperStop, mainVars, destVars, serverVars
  <2> QED
    BY <1>0, <2>1, <2>3, PipeKeeps
<1> QED
  BY <1>1, <1>2, <1>3, <1>4, <1>5, <1>6, WriterSendIInv DEF WriteLoop, KeepaliveLoop

-----------------------------------------------------------------------------
(* The invariant: server and network *)

\* Sending a frame of session c: CREATE makes c active, the others find it so.
LEMMA SendsKeeps ==
  ASSUME IInv, TypeOK', NEW f \in FromServer, Sends(f),
         f.cmd \in {"CREATE", "DATA", "DESTROY"},
         \A b \in Conns : b # f.conn => srv'[b] = srv[b],
         srv'[f.conn] \notin {"idle", "ended"},
         f.cmd = "CREATE" => /\ srv[f.conn] = "idle" /\ srv'[f.conn] = "requested"
                             /\ \A b \in Conns : IdOf[b] = IdOf[f.conn] => ~Active(b),
         f.cmd # "CREATE" => srv[f.conn] \notin {"idle", "ended", "requested"}
  PROVE  IInv'
<1> DEFINE c == f.conn
<1>0. /\ c \in Conns /\ TypeOK
      /\ UNCHANGED <<main, hand, target, dests, pc, sock, got>> /\ Pipe' = Pipe
  BY PipeSame DEF IInv, FromServer, Sends, mainVars, writerVars, destVars
<1>1. /\ Len(inbox) \in Nat /\ Len(inbox') = Len(inbox) + 1
      /\ \A k \in 1..Len(inbox) : inbox'[k] = inbox[k]
      /\ inbox'[Len(inbox) + 1] = f
  BY <1>0, InboxAppend
<1>2. DestsById' /\ SockInv' /\ LastFrame' /\ SendInv' /\ NoCrossTalk'
  BY <1>0 DEF IInv, DestsById, SockInv, LastFrame, SendInv, NoCrossTalk, Quiet
<1>3. OneActive' /\ EndedInv'
  BY <1>0 DEF IInv, OneActive, EndedInv, Active, Quiet
<1>4. IdleInv'
  BY <1>0, <1>1 DEF IInv, IdleInv
<1>5. CreateIsLast'
  <2>1. ASSUME NEW j \in 1..Len(inbox), inbox[j].cmd = "CREATE"
        PROVE  IdOf[inbox[j].conn] # IdOf[c]
    <3>1. inbox[j].conn \in Conns /\ srv[inbox[j].conn] = "requested"
      BY <1>0, <2>1, InboxFrames DEF IInv, CreateInv, Unanswered
    <3> QED
      BY <1>0, <3>1 DEF IInv, OneActive, Active
  <2> QED
    BY <1>1, <2>1, SMTT(30) DEF IInv, CreateIsLast
<1>6. CreateInv'
  <2>1. \A b \in Conns : Unanswered(b) => Unanswered(b)'
    BY <1>0 DEF Unanswered
  <2>2. f.cmd = "CREATE" => Unanswered(c)' /\ (main = "denying" => hand.conn # c)
    BY <1>0 DEF IInv, IdleInv, Unanswered
  <2>3. main = "denying" => hand.conn \in Conns
    BY <1>0 DEF TypeOK, MainType
  <2> QED
    BY <1>0, <1>1, <2>1, <2>2, <2>3, InboxFrames DEF IInv, CreateInv
<1>7. DataInv'
  <2>1. ASSUME f.cmd = "DATA", NEW b \in Conns, b # c, IdOf[b] = IdOf[c]
        PROVE  Quiet(b)
    BY <1>0, <2>1 DEF IInv, OneActive, Active, IdleInv, EndedInv, Quiet
  <2> QED
    BY <1>0, <1>1, <2>1 DEF IInv, DataInv, Quiet
<1> QED
  BY <1>2, <1>3, <1>4, <1>5, <1>6, <1>7 DEF IInv

\* Dropping frames at either end leaves the others in order.
LEMMA ShiftKeepsOrder ==
  ASSUME CreateIsLast, NEW d \in Nat, Len(inbox) \in Nat, Len(inbox') \in Nat,
         \A k \in 1..Len(inbox') :
            \/ inbox'[k].cmd \in {"NOISE", "STOP"}
            \/ k + d \in 1..Len(inbox) /\ inbox'[k] = inbox[k + d]
  PROVE  CreateIsLast'
<1>1. SUFFICES ASSUME NEW j \in 1..Len(inbox'), NEW k \in 1..Len(inbox'), j < k,
                      inbox'[j].cmd = "CREATE",
                      inbox'[k].cmd \in {"CREATE", "DATA", "DESTROY"}
               PROVE  IdOf[inbox'[j].conn] # IdOf[inbox'[k].conn]
  BY DEF CreateIsLast
<1>2. /\ j + d \in 1..Len(inbox) /\ inbox'[j] = inbox[j + d]
      /\ k + d \in 1..Len(inbox) /\ inbox'[k] = inbox[k + d]
  BY <1>1
<1>3. j + d < k + d
  BY <1>1
<1> QED
  BY <1>1, <1>2, <1>3 DEF CreateIsLast

\* The main loop takes one frame off the inbox.
LEMMA TailKeepsOrder ==
  ASSUME CreateIsLast, Len(inbox) \in Nat, Len(inbox') \in Nat,
         \A k \in 1..Len(inbox') : /\ k + 1 \in 1..Len(inbox)
                                   /\ inbox'[k] = inbox[k + 1]
  PROVE  CreateIsLast'
<1>1. SUFFICES ASSUME NEW j \in 1..Len(inbox'), NEW k \in 1..Len(inbox'), j < k,
                      inbox'[j].cmd = "CREATE",
                      inbox'[k].cmd \in {"CREATE", "DATA", "DESTROY"}
               PROVE  IdOf[inbox'[j].conn] # IdOf[inbox'[k].conn]
  BY DEF CreateIsLast
<1>2. j + 1 < k + 1
  BY <1>1
<1> QED
  BY <1>1, <1>2 DEF CreateIsLast

\* Frames leave the inbox at its head or are cut off its tail, and nothing
\* else that matters changes, or a frame without a session is added.
LEMMA InboxKeeps ==
  ASSUME IInv, TypeOK', NEW d \in Nat, Len(inbox) \in Nat, Len(inbox') \in Nat,
         \A k \in 1..Len(inbox') :
            \/ inbox'[k].cmd \in {"NOISE", "STOP"} /\ inbox'[k].conn = NoConn
            \/ k + d \in 1..Len(inbox) /\ inbox'[k] = inbox[k + d],
         main' \in {"denying", "sending"} => main' = main /\ target' = target,
         UNCHANGED <<hand, dests, pc, sock, got, srv>>,
         Pipe' = Pipe
  PROVE  IInv'
<1>1. /\ DestsById' /\ SockInv' /\ OneActive' /\ LastFrame' /\ EndedInv'
      /\ SendInv' /\ NoCrossTalk'
  BY DEF IInv, DestsById, SockInv, OneActive, Active, LastFrame, EndedInv,
     SendInv, NoCrossTalk, Quiet
<1>2. IdleInv'
  BY TunnelAssumption DEF IInv, IdleInv
<1>3. CreateInv'
  <2>1. \A c : Unanswered(c) = Unanswered(c)'
    BY DEF Unanswered
  <2> QED
    BY <2>1 DEF IInv, CreateInv
<1>4. CreateIsLast'
  <2>1. CreateIsLast
    BY DEF IInv
  <2> QED
    BY <2>1, ShiftKeepsOrder
<1>5. DataInv'
  BY DEF IInv, DataInv, Quiet
<1> QED
  BY <1>1, <1>2, <1>3, <1>4, <1>5 DEF IInv

LEMMA ServerIInv == IInv /\ Server => IInv'
<1> SUFFICES ASSUME IInv, Server PROVE IInv'
  OBVIOUS
<1>0. TypeOK /\ TypeOK'
  BY ServerTypeOK DEF IInv
<1>s. DOMAIN srv = Conns
  BY <1>0 DEF TypeOK, ServerType
<1>1. ASSUME NEW c \in Conns, SrvCreate(c) PROVE IInv'
  <2>1. /\ Frame("CREATE", c, 0) \in FromServer
        /\ Frame("CREATE", c, 0).cmd = "CREATE" /\ Frame("CREATE", c, 0).conn = c
    BY FrameFromServer DEF Frame
  <2> QED
    BY <1>0, <1>1, <1>s, <2>1, SendsKeeps DEF SrvCreate, Active
<1>2. ASSUME NEW c \in Conns, SrvData(c) PROVE IInv'
  <2>1. /\ Frame("DATA", c, sent[c] + 1) \in FromServer
        /\ Frame("DATA", c, sent[c] + 1).cmd = "DATA"
        /\ Frame("DATA", c, sent[c] + 1).conn = c
    BY <1>0, FrameFromServer DEF Frame, TypeOK, ServerType
  <2> QED
    BY <1>0, <1>2, <1>s, <2>1, SendsKeeps DEF SrvData
<1>3. ASSUME NEW c \in Conns, SrvDestroy(c) PROVE IInv'
  <2>1. /\ Frame("DESTROY", c, 0) \in FromServer
        /\ Frame("DESTROY", c, 0).cmd = "DESTROY" /\ Frame("DESTROY", c, 0).conn = c
    BY FrameFromServer DEF Frame
  <2> QED
    BY <1>0, <1>3, <1>s, <2>1, SendsKeeps DEF SrvDestroy
<1>4. ASSUME NEW cmd \in {"NOISE", "STOP"}, SrvControl(cmd) PROVE IInv'
  <2>1. /\ Len(inbox) \in Nat /\ Len(inbox') = Len(inbox) + 1
        /\ \A k \in 1..Len(inbox) : inbox'[k] = inbox[k]
        /\ inbox'[Len(inbox) + 1] = Frame(cmd, NoConn, 0)
    BY <1>0, <1>4, InboxAppend DEF SrvControl
  <2>2. Frame(cmd, NoConn, 0).cmd = cmd /\ Frame(cmd, NoConn, 0).conn = NoConn
    BY DEF Frame
  <2>3. /\ UNCHANGED <<main, hand, target, dests, pc, sock, got, srv>>
        /\ Pipe' = Pipe
    BY <1>4, PipeSame DEF SrvControl, Sends, mainVars, writerVars, destVars
  <2>4. \A k \in 1..Len(inbox') :
            \/ inbox'[k].cmd \in {"NOISE", "STOP"} /\ inbox'[k].conn = NoConn
            \/ k + 0 \in 1..Len(inbox) /\ inbox'[k] = inbox[k + 0]
    BY <2>1, <2>2
  <2> QED
    BY <1>0, <2>1, <2>3, <2>4, InboxKeeps
<1>5. CASE LinkDown
  <2>1. PICK n \in 0..Len(inbox) : inbox' = SubSeq(inbox, 1, n)
    BY <1>5 DEF LinkDown
  <2>2. inbox \in Seq(FromServer)
    BY <1>0 DEF TypeOK, ServerType
  <2>3. /\ Len(inbox) \in Nat /\ Len(inbox') \in Nat
        /\ \A k \in 1..Len(inbox') : k + 0 \in 1..Len(inbox) /\ inbox'[k] = inbox[k + 0]
    BY <2>1, <2>2
  <2>4. /\ UNCHANGED <<main, hand, target, dests, pc, sock, got, srv>>
        /\ Pipe' = Pipe
    BY <1>5, PipeSame DEF LinkDown, mainVars, writerVars, destVars, serverVars
  <2> QED
    BY <1>0, <2>3, <2>4, InboxKeeps
<1> QED
  BY <1>1, <1>2, <1>3, <1>4, <1>5 DEF Server

-----------------------------------------------------------------------------
(* The invariant: Run *)

LEMMA HandleCreateIInv == IInv /\ HandleCreate => IInv'
<1> SUFFICES ASSUME IInv, HandleCreate PROVE IInv'
  OBVIOUS
<1>0. /\ TypeOK /\ TypeOK'
      /\ UNCHANGED <<target, dests, sock, got, srv>> /\ Pipe' = Pipe
      /\ main = "reading"
  BY RunTypeOK, PipeSame
  DEF IInv, Run, HandlePacket, HandleCreate, Takes, writerVars, serverVars
<1>1. /\ Len(inbox') \in Nat /\ Len(inbox) = Len(inbox') + 1
      /\ \A k \in 1..Len(inbox') : inbox'[k] = inbox[k + 1]
      /\ Head(inbox) = inbox[1] /\ inbox[1].cmd = "CREATE"
  BY <1>0, InboxTail DEF HandleCreate
<1>c. PICK c \in Conns : c = inbox[1].conn
  BY <1>0, <1>1, InboxFrames
<1>2. Unanswered(c)
  BY <1>1, <1>c DEF IInv, CreateInv
<1>3. \/ main' = "denying" /\ hand' = inbox[1] /\ pc' = pc
      \/ main' = "reading" /\ hand' = hand /\ pc' = [pc EXCEPT ![c] = "dialing"]
  BY <1>0, <1>1, <1>c DEF HandleCreate
<1>4. /\ \A b \in Conns : b # c => pc'[b] = pc[b]
      /\ pc[c] = "none"
  <2>1. DOMAIN pc = Conns
    BY <1>0 DEF TypeOK, ConnType
  <2> QED
    BY <1>2, <1>3, <2>1 DEF Unanswered
<1>5. ASSUME NEW k \in 1..Len(inbox'), inbox'[k].cmd \in {"CREATE", "DATA", "DESTROY"}
      PROVE  /\ inbox'[k].conn \in Conns /\ inbox'[k].conn # c
             /\ IdOf[inbox'[k].conn] # IdOf[c]
  <2>1. 1 \in 1..Len(inbox) /\ k + 1 \in 1..Len(inbox) /\ 1 < k + 1
    BY <1>1
  <2> QED
    BY <1>0, <1>1, <1>c, <1>5, <2>1, InboxFrames DEF IInv, CreateIsLast
<1>6. DestsById' /\ OneActive' /\ NoCrossTalk' /\ SendInv'
  BY <1>0, <1>3 DEF IInv, DestsById, OneActive, Active, NoCrossTalk, SendInv
<1>7. SockInv'
  BY <1>0, <1>2, <1>4 DEF IInv, SockInv
<1>8. IdleInv'
  <2>1. ASSUME NEW b \in Conns, srv[b] = "idle"
        PROVE  b # c /\ pc'[b] = "none"
    BY <1>2, <1>4, <2>1 DEF IInv, IdleInv, Unanswered
  <2> QED
    BY <1>0, <1>1, <1>3, <2>1 DEF IInv, IdleInv
<1>9. CreateInv'
  <2>1. \A b \in Conns : b # c /\ Unanswered(b) => Unanswered(b)'
    BY <1>0, <1>4 DEF Unanswered
  <2>2. main' = "denying" => hand'.conn = c /\ Unanswered(c)'
    BY <1>0, <1>2, <1>3, <1>c DEF Unanswered
  <2> QED
    BY <1>0, <1>1, <1>3, <1>5, <2>1, <2>2 DEF IInv, CreateInv
<1>10. CreateIsLast'
  <2>1. /\ Len(inbox) \in Nat /\ Len(inbox') \in Nat
        /\ \A k \in 1..Len(inbox') : /\ k + 1 \in 1..Len(inbox)
                                      /\ inbox'[k] = inbox[k + 1]
    BY <1>1
  <2>2. CreateIsLast
    BY DEF IInv
  <2> QED
    BY <2>1, <2>2, TailKeepsOrder
<1>11. \A b \in Conns : b # c /\ Quiet(b) => Quiet(b)'
  BY <1>4 DEF Quiet
<1>12. LastFrame'
  BY <1>0, <1>2, <1>11, PipeFrames DEF IInv, LastFrame, Unanswered
<1>13. EndedInv'
  BY <1>0, <1>2, <1>11 DEF IInv, EndedInv, Unanswered
<1>14. DataInv'
  BY <1>1, <1>5, <1>11 DEF IInv, DataInv
<1> QED
  BY <1>0, <1>6, <1>7, <1>8, <1>9, <1>10, <1>12, <1>13, <1>14 DEF IInv

LEMMA DenyIInv == IInv /\ Deny => IInv'
<1> SUFFICES ASSUME IInv, Deny PROVE IInv'
  OBVIOUS
<1> DEFINE c == hand.conn
           f == Frame("FAIL", c, 0)
<1>0. /\ TypeOK /\ TypeOK' /\ c \in Conns
      /\ UNCHANGED <<target, dests, pc, sock, got, inbox, srv>>
      /\ main = "denying" /\ main' = "reading"
  BY RunTypeOK
  DEF IInv, Run, HandlePacket, Deny, destVars, serverVars, TypeOK, MainType
<1>1. f \in ToServer /\ f.conn = c /\ f.cmd = "FAIL"
  BY <1>0, FrameToServer DEF Frame
<1>2. Pipe' = Pipe \cup {f}
  BY <1>0, <1>1, PipeEnqueue DEF Deny, writerVars
<1>3. Unanswered(c)
  BY <1>0 DEF IInv, CreateInv
<1>4. /\ DestsById' /\ SockInv' /\ OneActive' /\ CreateIsLast' /\ EndedInv'
      /\ DataInv' /\ NoCrossTalk' /\ SendInv'
  BY <1>0 DEF IInv, DestsById, SockInv, OneActive, Active, CreateIsLast,
     EndedInv, DataInv, NoCrossTalk, SendInv, Quiet
<1>5. IdleInv'
  BY <1>0, <1>1, <1>2, <1>3 DEF IInv, IdleInv, Unanswered
<1>6. CreateInv'
  BY <1>0, <1>1, <1>2 DEF IInv, CreateInv, Unanswered
<1>7. LastFrame'
  BY <1>0, <1>1, <1>2, <1>3 DEF IInv, LastFrame, Unanswered, Quiet
<1> QED
  BY <1>0, <1>4, <1>5, <1>6, <1>7 DEF IInv

\* A frame that leaves the inbox for a lookup, for nothing, or for the end.
LEMMA TakesIInv ==
  ASSUME IInv, HandleDestroy \/ HandleNoise \/ HandleStop \/ ReadError PROVE IInv'
<1>0. TypeOK /\ TypeOK'
  BY RunTypeOK DEF IInv, Run, HandlePacket
<1>1. CASE ReadError
  <2>1. /\ UNCHANGED <<hand, dests, pc, sock, got, srv, inbox>> /\ Pipe' = Pipe
        /\ main' = "cleanup" /\ main = "reading" /\ Len(inbox) \in Nat
    BY <1>0, <1>1, PipeSame
    DEF ReadError, writerVars, destVars, serverVars, TypeOK, ServerType
  <2> QED
    BY <1>0, <2>1, InboxKeeps
<1>2. CASE HandleDestroy \/ HandleNoise \/ HandleStop
  <2>1. \E cmd : Takes(cmd)
    BY <1>2 DEF HandleDestroy, HandleNoise, HandleStop
  <2>2. /\ Len(inbox') \in Nat /\ Len(inbox) = Len(inbox') + 1
        /\ \A k \in 1..Len(inbox') : inbox'[k] = inbox[k + 1]
    BY <1>0, <2>1, InboxTail
  <2>3. /\ UNCHANGED <<hand, dests, pc, sock, got, srv>> /\ Pipe' = Pipe
        /\ main' \in {"reading", "destroying", "cleanup"}
    BY <1>2, PipeSame
    DEF HandleDestroy, HandleNoise, HandleStop, Takes, writerVars, destVars,
        serverVars, mainVars
  <2>4. /\ Len(inbox) \in Nat
        /\ \A k \in 1..Len(inbox') : k + 1 \in 1..Len(inbox) /\ inbox'[k] = inbox[k + 1]
    BY <2>2
  <2> QED
    BY <1>0, <2>2, <2>3, <2>4, InboxKeeps
<1> QED
  BY <1>1, <1>2

LEMMA HandleDataIInv == IInv /\ HandleData => IInv'
<1> SUFFICES ASSUME IInv, HandleData PROVE IInv'
  OBVIOUS
<1>0. /\ TypeOK /\ TypeOK' /\ Pipe' = Pipe
      /\ UNCHANGED <<dests, pc, sock, got, srv>> /\ main = "reading"
  BY RunTypeOK, PipeSame
  DEF IInv, Run, HandlePacket, HandleData, Takes, writerVars, serverVars, destVars
<1>1. /\ Len(inbox') \in Nat /\ Len(inbox) = Len(inbox') + 1
      /\ \A k \in 1..Len(inbox') : inbox'[k] = inbox[k + 1]
      /\ Head(inbox) = inbox[1] /\ inbox[1].cmd = "DATA"
  BY <1>0, InboxTail DEF HandleData
<1>2. /\ target' = dests[IdOf[inbox[1].conn]]
      /\ \/ target' = NoConn /\ main' = main /\ hand' = hand
         \/ target' # NoConn /\ main' = "sending" /\ hand' = inbox[1]
  BY <1>1 DEF HandleData
<1>3. /\ DestsById' /\ SockInv' /\ OneActive' /\ LastFrame' /\ EndedInv'
      /\ NoCrossTalk'
  BY <1>0 DEF IInv, DestsById, SockInv, OneActive, Active, LastFrame, EndedInv,
     NoCrossTalk, Quiet
<1>4. IdleInv'
  BY <1>0, <1>1, <1>2 DEF IInv, IdleInv
<1>5. CreateInv'
  <2>1. \A b : Unanswered(b) = Unanswered(b)'
    BY <1>0 DEF Unanswered
  <2> QED
    BY <1>0, <1>1, <1>2, <2>1 DEF IInv, CreateInv
<1>6. CreateIsLast' /\ DataInv'
  <2>1. \A k \in 1..Len(inbox') : k + 1 \in 1..Len(inbox)
    BY <1>1
  <2>2. CreateIsLast'
    <3>1. /\ Len(inbox) \in Nat /\ Len(inbox') \in Nat
          /\ \A k \in 1..Len(inbox') : /\ k + 1 \in 1..Len(inbox)
                                        /\ inbox'[k] = inbox[k + 1]
      BY <1>1
    <3>2. CreateIsLast
      BY DEF IInv
    <3> QED
      BY <3>1, <3>2, TailKeepsOrder
  <2>3. DataInv'
    BY <1>0, <1>1, <2>1 DEF IInv, DataInv, Quiet
  <2> QED
    BY <2>2, <2>3
<1>7. SendInv'
  <2>1. SUFFICES ASSUME target' # NoConn, hand' = inbox[1], target' # inbox[1].conn
                 PROVE  Quiet(target')
    BY <1>0, <1>2 DEF SendInv, Quiet
  <2>2. inbox[1].conn \in Conns /\ 1 \in 1..Len(inbox)
    BY <1>0, <1>1, InboxFrames
  <2>3. target' \in Conns /\ IdOf[target'] = IdOf[inbox[1].conn]
    BY <1>0, <1>2, <2>1, <2>2, TunnelAssumption DEF IInv, DestsById, TypeOK, DestsType
  <2> QED
    BY <1>1, <2>1, <2>2, <2>3 DEF IInv, DataInv
<1> QED
  BY <1>0, <1>3, <1>4, <1>5, <1>6, <1>7 DEF IInv

\* Steps of Run that leave the inbox and the queue alone: sockets may be
\* closed, entries of dests may go.
LEMMA CloseKeeps ==
  ASSUME IInv, TypeOK', NoCrossTalk',
         UNCHANGED <<pc, inbox, srv>>, Pipe' = Pipe,
         main' \notin {"denying", "sending"},
         \A c \in Conns : sock'[c] = "open" => sock[c] = "open",
         \A i \in Ids : dests'[i] \in {dests[i], NoConn}
  PROVE  IInv'
<1>1. /\ DestsById' /\ SockInv' /\ OneActive' /\ IdleInv' /\ CreateIsLast'
      /\ LastFrame' /\ EndedInv' /\ DataInv' /\ SendInv'
  BY DEF IInv, DestsById, SockInv, OneActive, Active, IdleInv, CreateIsLast,
     LastFrame, EndedInv, DataInv, SendInv, Quiet
<1>2. CreateInv'
  BY DEF IInv, CreateInv, Unanswered
<1> QED
  BY <1>1, <1>2 DEF IInv

LEMMA CloseIInv ==
  ASSUME IInv, DoClose \/ Deliver \/ CloseDests \/ HangUp PROVE IInv'
<1>0. TypeOK /\ TypeOK' /\ NoCrossTalk
  BY RunTypeOK DEF IInv, Run, HandlePacket
<1>1. /\ UNCHANGED <<pc, inbox, srv>> /\ Pipe' = Pipe
      /\ main' \notin {"denying", "sending"}
  BY PipeSame
  DEF DoClose, Deliver, CloseDests, HangUp, writerVars, destVars, serverVars
<1>2. CASE DoClose
  <2>1. /\ \A c \in Conns : sock'[c] = "open" => sock[c] = "open"
        /\ NoCrossTalk' /\ dests' = dests
    BY <1>0, <1>2 DEF DoClose, NoCrossTalk, TypeOK, ConnType
  <2> QED
    BY <1>0, <1>1, <2>1, CloseKeeps
<1>3. CASE Deliver
  <2>1. /\ target \in Conns /\ got \in [Conns -> Seq(Conns \X Nat)]
        /\ UNCHANGED <<sock, dests>>
    BY <1>0, <1>3 DEF Deliver, TypeOK, MainType, GotType, destVars
  <2>2. ASSUME sock[target] = "open",
               got' = [got EXCEPT ![target] = Append(@, <<hand.conn, hand.n>>)]
        PROVE  NoCrossTalk'
    <3>1. target = hand.conn
      BY <1>3, <2>1, <2>2 DEF Deliver, IInv, SendInv, SockInv, Quiet
    <3>2. /\ Len(got'[target]) = Len(got[target]) + 1 /\ Len(got[target]) \in Nat
          /\ \A k \in 1..Len(got[target]) : got'[target][k] = got[target][k]
          /\ got'[target][Len(got[target]) + 1][1] = target
      BY <2>1, <2>2, <3>1
    <3>3. \A c \in Conns : c # target => got'[c] = got[c]
      BY <2>1, <2>2
    <3> QED
      BY <1>0, <3>2, <3>3 DEF NoCrossTalk
  <2>3. NoCrossTalk'
    BY <1>0, <1>3, <2>2 DEF Deliver, NoCrossTalk
  <2> QED
    BY <1>0, <1>1, <2>1, <2>3, CloseKeeps
<1>4. CASE CloseDests
  <2>1. /\ \A c \in Conns : sock'[c] = "open" => sock[c] = "open"
        /\ NoCrossTalk' /\ \A i \in Ids : dests'[i] = NoConn
    BY <1>0, <1>4 DEF CloseDests, NoCrossTalk
  <2> QED
    BY <1>0, <1>1, <2>1, CloseKeeps
<1>5. CASE HangUp
  <2>1. UNCHANGED <<sock, dests>> /\ NoCrossTalk'
    BY <1>0, <1>5 DEF HangUp, NoCrossTalk, destVars
  <2> QED
    BY <1>0, <1>1, <2>1, CloseKeeps
<1> QED
  BY <1>2, <1>3, <1>4, <1>5

-----------------------------------------------------------------------------
(* The theorems *)

LEMMA InitIInv == Init => IInv
<1> SUFFICES ASSUME Init PROVE IInv
  OBVIOUS
<1>1. TypeOK
  BY InitTypeOK
<1>2. Pipe \subseteq {Frame("RENEW", NoConn, 0), NoFrame}
  BY DEF Init, Pipe
<1>3. \A f \in Pipe : f.conn = NoConn /\ f.cmd \notin {"FAIL", "DESTROY"}
  BY <1>2 DEF Frame, NoFrame
<1>4. DestsById /\ SockInv /\ OneActive /\ CreateIsLast /\ EndedInv /\ DataInv
  BY DEF Init, DestsById, SockInv, OneActive, Active, CreateIsLast, EndedInv, DataInv
<1>5. IdleInv /\ CreateInv /\ LastFrame /\ SendInv /\ NoCrossTalk
  BY <1>3, TunnelAssumption
  DEF Init, IdleInv, CreateInv, LastFrame, SendInv, NoCrossTalk
<1> QED
  BY <1>1, <1>4, <1>5 DEF IInv

LEMMA NextIInv == IInv /\ [Next]_vars => IInv'
<1> SUFFICES ASSUME IInv, [Next]_vars PROVE IInv'
  OBVIOUS
<1>1. CASE UNCHANGED vars
  <2>1. TypeOK' /\ Pipe' = Pipe
    BY <1>1, NextTypeOK, PipeSame DEF IInv, vars, writerVars
  <2>2. UNCHANGED <<main, hand, target, dests, pc, sock, got, inbox, srv>>
    BY <1>1 DEF vars, mainVars, destVars, serverVars
  <2> QED
    BY <2>1, <2>2, PipeKeeps
<1>2. CASE Run
  BY <1>2, HandleCreateIInv, DenyIInv, TakesIInv, HandleDataIInv, CloseIInv
  DEF Run, HandlePacket
<1>3. CASE Next
  BY <1>2, <1>3, ServerIInv, LoopIInv, GoroutineIInv DEF Next
<1> QED
  BY <1>1, <1>3

THEOREM Invariant == Spec => []IInv
  BY InitIInv, NextIInv, PTL DEF Spec

\* A destination is only ever given bytes the server meant for it, however
\* ids are reused, frames interleave and connections fail.
THEOREM NoCrossTalkHolds == Spec => []NoCrossTalk
<1>1. IInv => NoCrossTalk
  BY DEF IInv
<1> QED
  BY <1>1, Invariant, PTL

\* A goroutine that has ended has left no socket open.
THEOREM NoSocketLeakHolds == Spec => []NoSocketLeak
<1>1. IInv => NoSocketLeak
  BY DEF IInv, SockInv, NoSocketLeak
<1> QED
  BY <1>1, Invariant, PTL
=============================================================================
