------------------------------- MODULE Tunnel -------------------------------
(***************************************************************************)
(* One connection of the agent to the DeployHQ server: the goroutines of   *)
(* internal/tunnel/server_conn.go and internal/tunnel/dest_conn.go.        *)
(*                                                                         *)
(*   main      ServerConn.Run: the read loop, then the shutdown sequence   *)
(*   writer    ServerConn.writeLoop, the only writer of the TLS connection *)
(*   keeper    ServerConn.keepaliveLoop                                    *)
(*   c         ServerConn.dialAndRegister, one goroutine per accepted      *)
(*             CREATE_REQUEST, which ends as destConn.readLoop             *)
(*                                                                         *)
(* They share the bounded channel serverSend ("queue"), the map dests and  *)
(* the channel done.  The server and the destinations are external: the    *)
(* server follows the protocol the tests of internal/tunnel exercise, a    *)
(* destination may answer, stall or close at any moment.                   *)
(*                                                                         *)
(* A session c is one CREATE_REQUEST with what follows it.  The wire only  *)
(* carries the 16-bit connection id IdOf[c]; the session in a frame is a   *)
(* ghost the agent never looks at, and several sessions may have one id.   *)
(* Payloads are chunks numbered from 1 in each direction of a session.     *)
(***************************************************************************)
EXTENDS Integers, Sequences

CONSTANTS
    Conns,           \* sessions the server may ask for
    Ids,             \* 16-bit connection ids on the wire
    IdOf,            \* the id the server gives to each session
    Denied,          \* sessions whose host the access list refuses
    NoConn,          \* absence of a session
    QueueCap,        \* capacity of serverSend (256 in the code)
    RenewalEnabled,  \* renewalEnabled() of this connection
    Window,          \* bound: frames in flight from the server
    MaxDown,         \* bound: chunks the server sends in a session
    MaxUp,           \* bound: chunks a destination sends in a session
    MaxTicks         \* bound: keepalive ticks

ASSUME TunnelAssumption ==
    /\ NoConn \notin Conns
    /\ IdOf \in [Conns -> Ids]
    /\ Denied \subseteq Conns
    /\ QueueCap \in Nat \ {0} /\ Window \in Nat \ {0}
    /\ RenewalEnabled \in BOOLEAN
    /\ MaxDown \in Nat /\ MaxUp \in Nat /\ MaxTicks \in Nat

VARIABLES
    main,    \* where Run is
    hand,    \* the frame handlePacket is working on
    target,  \* the *destConn handlePacket looked up
    dests,   \* sc.dests: the session registered under each id
    queue,   \* sc.serverSend
    writer,  \* where writeLoop is
    wpkt,    \* the packet writeLoop is writing
    keeper,  \* where keepaliveLoop is
    ticks,   \* keepalive ticks so far
    pc,      \* where the goroutine of each session is
    sock,    \* the agent's socket to each destination
    up,      \* chunks read from each destination
    got,     \* what each destination was given: <<session, chunk>>
    dst,     \* external: the destination's end: up, half-closed or gone
    inbox,   \* frames on their way from the server, in order
    link,    \* the TLS connection
    srv,     \* external: the server's view of each session
    sent,    \* external: chunks the server sent in each session
    rcv      \* external: chunks the server received in each session

mainVars   == <<main, hand, target>>
writerVars == <<writer, wpkt>>
keeperVars == <<keeper, ticks>>
destVars   == <<pc, sock, up, dst>>
serverVars == <<srv, sent, rcv>>
vars == <<mainVars, dests, queue, writerVars, keeperVars, destVars, got,
          inbox, link, serverVars>>

-----------------------------------------------------------------------------
(* Frames *)

Frame(cmd, c, n) == [cmd |-> cmd, conn |-> c, n |-> n]
NoFrame == Frame("NONE", NoConn, 0)

\* NOISE stands for the frames that leave the agent's state alone (KEEPALIVE,
\* unknown or malformed commands, a RENEW_RESPONSE that installs nothing) and
\* STOP for those that end the read loop (REJECT, RECONNECT, a RENEW_RESPONSE
\* that installed a certificate).
FromServer == [cmd : {"CREATE", "DATA", "DESTROY"}, conn : Conns, n : Nat]
                \cup [cmd : {"NOISE", "STOP"}, conn : {NoConn}, n : {0}]
ToServer == [cmd : {"OK", "FAIL", "DATA", "DESTROY"}, conn : Conns, n : Nat]
              \cup [cmd : {"KEEPALIVE", "RENEW"}, conn : {NoConn}, n : {0}]

\* The channel done is closed by the first statement after the read loop.
Done == main \in {"cleanup", "hangup", "returned"}

\* Fault: an unbounded queue.
BadEnqueue(f) == queue' = Append(queue, f)

\* A send on serverSend: possible only while the buffered channel has room.
Enqueue(f) == Len(queue) < QueueCap /\ queue' = Append(queue, f)

Init ==
    /\ main = "reading" /\ hand = NoFrame /\ target = NoConn
    /\ dests = [i \in Ids |-> NoConn]
    /\ queue = IF RenewalEnabled THEN <<Frame("RENEW", NoConn, 0)>> ELSE <<>>
    /\ writer = "idle" /\ wpkt = NoFrame
    /\ keeper = "waiting" /\ ticks = 0
    /\ pc = [c \in Conns |-> "none"]
    /\ sock = [c \in Conns |-> "none"]
    /\ up = [c \in Conns |-> 0]
    /\ got = [c \in Conns |-> <<>>]
    /\ dst = [c \in Conns |-> "up"]
    /\ inbox = <<>> /\ link = "up"
    /\ srv = [c \in Conns |-> "idle"]
    /\ sent = [c \in Conns |-> 0]
    /\ rcv = [c \in Conns |-> 0]

-----------------------------------------------------------------------------
(* The server (external).  It uses an id for one session at a time and     *)
(* sends DATA and DESTROY only after a successful CREATE_RESPONSE.  What   *)
(* it sends after the read loop has returned is never read and left out.   *)

Sends(f) ==
    /\ link = "up" /\ ~Done
    /\ Len(inbox) < Window /\ \A k \in 1..Len(inbox) : inbox[k].cmd # "STOP"
    /\ inbox' = Append(inbox, f)
    /\ UNCHANGED <<mainVars, dests, queue, writerVars, keeperVars, destVars,
                   got, link, rcv>>

SrvCreate(c) ==
    /\ srv[c] = "idle"
    /\ \A b \in Conns : IdOf[b] = IdOf[c] => srv[b] \in {"idle", "ended"}
    /\ srv' = [srv EXCEPT ![c] = "requested"]
    /\ Sends(Frame("CREATE", c, 0))
    /\ UNCHANGED sent

SrvData(c) ==
    /\ srv[c] = "open" /\ sent[c] < MaxDown
    /\ sent' = [sent EXCEPT ![c] = @ + 1]
    /\ Sends(Frame("DATA", c, sent[c] + 1))
    /\ UNCHANGED srv

SrvDestroy(c) ==
    /\ srv[c] = "open"
    /\ srv' = [srv EXCEPT ![c] = "closing"]
    /\ Sends(Frame("DESTROY", c, 0))
    /\ UNCHANGED sent

SrvControl(cmd) ==
    /\ \A k \in 1..Len(inbox) : inbox[k].cmd # cmd
    /\ Sends(Frame(cmd, NoConn, 0))
    /\ UNCHANGED <<srv, sent>>

\* The connection is lost: the agent still reads a prefix of what was sent.
LinkDown ==
    /\ link = "up" /\ link' = "down"
    /\ \E k \in 0..Len(inbox) : inbox' = SubSeq(inbox, 1, k)
    /\ UNCHANGED <<mainVars, dests, queue, writerVars, keeperVars, destVars,
                   got, serverVars>>

\* The frames the server waits for, in its view of a session.
Awaited(f) ==
    \/ f.cmd \in {"OK", "FAIL"} /\ srv[f.conn] = "requested"
    \/ f.cmd \in {"DATA", "DESTROY"} /\ srv[f.conn] \in {"open", "closing"}

\* What the server makes of a frame the writer puts on the wire.
Receives(f) ==
    \/ /\ Awaited(f) /\ f.cmd = "DATA"
       /\ rcv' = [rcv EXCEPT ![f.conn] = f.n]
       /\ UNCHANGED srv
    \/ /\ Awaited(f) /\ f.cmd # "DATA"
       /\ srv' = [srv EXCEPT ![f.conn] = IF f.cmd = "OK" THEN "open" ELSE "ended"]
       /\ UNCHANGED rcv
    \/ ~Awaited(f) /\ UNCHANGED <<srv, rcv>>

Server ==
    \/ \E c \in Conns : SrvCreate(c) \/ SrvData(c) \/ SrvDestroy(c)
    \/ \E cmd \in {"NOISE", "STOP"} : SrvControl(cmd)
    \/ LinkDown

-----------------------------------------------------------------------------
(* Run: the read loop and handlePacket *)

\* The read loop hands the next decoded frame to handlePacket.
Takes(cmd) ==
    /\ main = "reading" /\ inbox # <<>> /\ Head(inbox).cmd = cmd
    /\ inbox' = Tail(inbox)
    /\ UNCHANGED <<queue, writerVars, keeperVars, got, link, serverVars>>

\* Fault: the access list is not asked.
BadHandleCreate ==
    /\ Takes("CREATE")
    /\ pc' = [pc EXCEPT ![Head(inbox).conn] = "dialing"]
    /\ UNCHANGED <<main, hand, target, dests, sock, up, dst>>

HandleCreate ==
    /\ Takes("CREATE")
    /\ LET c == Head(inbox).conn
       IN  \/ /\ c \in Denied
              /\ main' = "denying" /\ hand' = Head(inbox)
              /\ UNCHANGED pc
           \/ /\ c \notin Denied
              /\ pc' = [pc EXCEPT ![c] = "dialing"]
              /\ UNCHANGED <<main, hand>>
    /\ UNCHANGED <<target, dests, sock, up, dst>>

\* Fault: a refused request is dropped when the queue is full.
BadDeny ==
    /\ main = "denying" /\ Len(queue) = QueueCap
    /\ main' = "reading" /\ hand' = NoFrame
    /\ UNCHANGED <<target, dests, queue, writerVars, keeperVars, destVars,
                   got, inbox, link, serverVars>>

\* The refusal is sent without watching done: it waits for room in the queue.
Deny ==
    /\ main = "denying"
    /\ Enqueue(Frame("FAIL", hand.conn, 0))
    /\ main' = "reading" /\ hand' = NoFrame
    /\ UNCHANGED <<target, dests, writerVars, keeperVars, destVars, got,
                   inbox, link, serverVars>>

HandleDestroy ==
    /\ Takes("DESTROY")
    /\ target' = dests[IdOf[Head(inbox).conn]]
    /\ main' = IF target' = NoConn THEN "reading" ELSE "destroying"
    /\ UNCHANGED <<hand, dests, destVars>>

\* Faults: the entry is deleted with the Close, the entry is deleted without
\* it, the DESTROY is confirmed before the goroutine does.
DoCloseDeletes ==
    /\ main = "destroying"
    /\ sock' = [sock EXCEPT ![target] = "closed"]
    /\ dests' = [dests EXCEPT ![IdOf[target]] = NoConn]
    /\ main' = "reading" /\ target' = NoConn
    /\ UNCHANGED <<hand, queue, writerVars, keeperVars, pc, up, dst, got,
                   inbox, link, serverVars>>
DoCloseForgets ==
    /\ main = "destroying"
    /\ dests' = [dests EXCEPT ![IdOf[target]] = NoConn]
    /\ main' = "reading" /\ target' = NoConn
    /\ UNCHANGED <<hand, queue, writerVars, keeperVars, destVars, got, inbox,
                   link, serverVars>>
DoCloseConfirms ==
    /\ main = "destroying"
    /\ sock' = [sock EXCEPT ![target] = "closed"]
    /\ Enqueue(Frame("DESTROY", target, 0))
    /\ main' = "reading" /\ target' = NoConn
    /\ UNCHANGED <<hand, dests, writerVars, keeperVars, pc, up, dst, got,
                   inbox, link, serverVars>>

\* The mutex is released between the lookup and the Close.
DoClose ==
    /\ main = "destroying"
    /\ sock' = [sock EXCEPT ![target] = "closed"]
    /\ main' = "reading" /\ target' = NoConn
    /\ UNCHANGED <<hand, dests, queue, writerVars, keeperVars, pc, up, dst,
                   got, inbox, link, serverVars>>

HandleData ==
    /\ Takes("DATA")
    /\ target' = dests[IdOf[Head(inbox).conn]]
    /\ \/ target' = NoConn /\ UNCHANGED <<main, hand>>
       \/ target' # NoConn /\ main' = "sending" /\ hand' = Head(inbox)
    /\ UNCHANGED <<dests, destVars>>

\* Fault: a write that would block gives its bytes up.
BadDeliver ==
    /\ main = "sending"
    /\ \/ got' = [got EXCEPT ![target] = Append(@, <<hand.conn, hand.n>>)]
       \/ UNCHANGED got
    /\ main' = "reading" /\ hand' = NoFrame /\ target' = NoConn
    /\ UNCHANGED <<dests, queue, writerVars, keeperVars, destVars, inbox,
                   link, serverVars>>

\* destConn.send, in the read loop's own goroutine and with no deadline: the
\* write returns when the destination takes the bytes or the socket fails.
Deliver ==
    /\ main = "sending"
    /\ \/ /\ sock[target] = "open" /\ dst[target] # "gone"
          /\ got' = [got EXCEPT ![target] = Append(@, <<hand.conn, hand.n>>)]
       \/ /\ sock[target] = "closed" \/ dst[target] = "gone"
          /\ UNCHANGED got
    /\ main' = "reading" /\ hand' = NoFrame /\ target' = NoConn
    /\ UNCHANGED <<dests, queue, writerVars, keeperVars, destVars, inbox,
                   link, serverVars>>

HandleNoise ==
    /\ Takes("NOISE")
    /\ UNCHANGED <<mainVars, dests, destVars>>

HandleStop ==
    /\ Takes("STOP")
    /\ main' = "cleanup"
    /\ UNCHANGED <<hand, target, dests, destVars>>

ReadError ==
    /\ main = "reading" /\ link = "down" /\ inbox = <<>>
    /\ main' = "cleanup"
    /\ UNCHANGED <<hand, target, dests, queue, writerVars, keeperVars,
                   destVars, got, inbox, link, serverVars>>

(* Run: the shutdown sequence *)

\* Close every registered destination and reset the map, under the mutex.
CloseDests ==
    /\ main = "cleanup" /\ main' = "hangup"
    /\ sock' = [c \in Conns |-> IF dests[IdOf[c]] = c THEN "closed" ELSE sock[c]]
    /\ dests' = [i \in Ids |-> NoConn]
    /\ UNCHANGED <<hand, target, queue, writerVars, keeperVars, pc, up, dst,
                   got, inbox, link, serverVars>>

\* Fault: Run waits for its goroutines before it closes the connection.
BadHangUp ==
    /\ main = "hangup" /\ main' = "returned"
    /\ \A c \in Conns : pc[c] \in {"none", "finished"}
    /\ UNCHANGED <<hand, target, dests, queue, writerVars, keeperVars,
                   destVars, got, inbox, link, serverVars>>

HangUp ==
    /\ main = "hangup" /\ main' = "returned"
    /\ UNCHANGED <<hand, target, dests, queue, writerVars, keeperVars,
                   destVars, got, inbox, link, serverVars>>

HandlePacket ==
    \/ HandleCreate \/ HandleDestroy \/ HandleData \/ HandleNoise
    \/ HandleStop \/ Deny \/ DoClose

Run == HandlePacket \/ Deliver \/ ReadError \/ CloseDests \/ HangUp

-----------------------------------------------------------------------------
(* dialAndRegister and destConn.readLoop, the goroutine of session c *)

\* What a destination goroutine leaves alone.
OthersUnchanged ==
    UNCHANGED <<mainVars, writerVars, keeperVars, got, inbox, link, serverVars>>

\* The dial succeeds or fails, within 30 seconds, whether or not the
\* connection to the server is still there.
Dial(c) ==
    /\ pc[c] = "dialing"
    /\ \/ /\ pc' = [pc EXCEPT ![c] = "refusing"]
          /\ UNCHANGED sock
       \/ /\ pc' = [pc EXCEPT ![c] = "answering"]
          /\ sock' = [sock EXCEPT ![c] = "open"]
    /\ UNCHANGED <<dests, queue, up, dst>> /\ OthersUnchanged

\* select between the send of a CREATE_RESPONSE and done: when both are
\* possible the runtime may pick either.
Refuse(c) ==
    /\ pc[c] = "refusing"
    /\ \/ Enqueue(Frame("FAIL", c, 0))
       \/ Done /\ UNCHANGED queue
    /\ pc' = [pc EXCEPT ![c] = "finished"]
    /\ UNCHANGED <<dests, sock, up, dst>> /\ OthersUnchanged

\* Fault: the socket is not closed when done wins.
BadAnswer(c) ==
    /\ pc[c] = "answering"
    /\ \/ /\ Enqueue(Frame("OK", c, 0))
          /\ pc' = [pc EXCEPT ![c] = "registering"]
       \/ /\ Done /\ UNCHANGED queue
          /\ pc' = [pc EXCEPT ![c] = "finished"]
    /\ UNCHANGED <<dests, sock, up, dst>> /\ OthersUnchanged

Answer(c) ==
    /\ pc[c] = "answering"
    /\ \/ /\ Enqueue(Frame("OK", c, 0))
          /\ pc' = [pc EXCEPT ![c] = "registering"]
          /\ UNCHANGED sock
       \/ /\ Done /\ UNCHANGED queue
          /\ sock' = [sock EXCEPT ![c] = "closed"]
          /\ pc' = [pc EXCEPT ![c] = "finished"]
    /\ UNCHANGED <<dests, up, dst>> /\ OthersUnchanged

\* The map gets the connection only after the server may have been told of it.
Register(c) ==
    /\ pc[c] = "registering"
    /\ dests' = [dests EXCEPT ![IdOf[c]] = c]
    /\ pc' = [pc EXCEPT ![c] = "reading"]
    /\ UNCHANGED <<queue, sock, up, dst>> /\ OthersUnchanged

ReadChunk(c) ==
    /\ pc[c] = "reading" /\ sock[c] = "open" /\ dst[c] = "up" /\ up[c] < MaxUp
    /\ up' = [up EXCEPT ![c] = @ + 1]
    /\ pc' = [pc EXCEPT ![c] = "forwarding"]
    /\ UNCHANGED <<dests, queue, sock, dst>> /\ OthersUnchanged

\* Faults: the chunk is dropped when the queue is full; done is not watched.
ForwardDrops(c) ==
    /\ pc[c] = "forwarding"
    /\ \/ Enqueue(Frame("DATA", c, up[c]))
       \/ Len(queue) = QueueCap /\ UNCHANGED queue
    /\ pc' = [pc EXCEPT ![c] = "reading"]
    /\ UNCHANGED <<dests, sock, up, dst>> /\ OthersUnchanged
ForwardBlocks(c) ==
    /\ pc[c] = "forwarding"
    /\ Enqueue(Frame("DATA", c, up[c]))
    /\ pc' = [pc EXCEPT ![c] = "reading"]
    /\ UNCHANGED <<dests, sock, up, dst>> /\ OthersUnchanged

\* The deferred function of readLoop begins by closing the socket.
Forward(c) ==
    /\ pc[c] = "forwarding"
    /\ \/ /\ Enqueue(Frame("DATA", c, up[c]))
          /\ pc' = [pc EXCEPT ![c] = "reading"]
          /\ UNCHANGED sock
       \/ /\ Done /\ UNCHANGED queue
          /\ sock' = [sock EXCEPT ![c] = "closed"]
          /\ pc' = [pc EXCEPT ![c] = "reporting"]
    /\ UNCHANGED <<dests, up, dst>> /\ OthersUnchanged

\* Fault: the socket is left open while the DESTROY is sent.
BadReadFails(c) ==
    /\ pc[c] = "reading"
    /\ sock[c] = "closed" \/ dst[c] # "up"
    /\ pc' = [pc EXCEPT ![c] = "reporting"]
    /\ UNCHANGED <<dests, queue, sock, up, dst>> /\ OthersUnchanged

ReadFails(c) ==
    /\ pc[c] = "reading"
    /\ sock[c] = "closed" \/ dst[c] # "up"
    /\ sock' = [sock EXCEPT ![c] = "closed"]
    /\ pc' = [pc EXCEPT ![c] = "reporting"]
    /\ UNCHANGED <<dests, queue, up, dst>> /\ OthersUnchanged

\* Fault: the DESTROY is dropped when the queue is full.
BadReport(c) ==
    /\ pc[c] = "reporting"
    /\ \/ Enqueue(Frame("DESTROY", c, 0))
       \/ Len(queue) = QueueCap /\ UNCHANGED queue
    /\ pc' = [pc EXCEPT ![c] = "removing"]
    /\ UNCHANGED <<dests, sock, up, dst>> /\ OthersUnchanged

Report(c) ==
    /\ pc[c] = "reporting"
    /\ \/ Enqueue(Frame("DESTROY", c, 0))
       \/ Done /\ UNCHANGED queue
    /\ pc' = [pc EXCEPT ![c] = "removing"]
    /\ UNCHANGED <<dests, sock, up, dst>> /\ OthersUnchanged

\* removeDest deletes by id, whichever connection is registered under it.
Remove(c) ==
    /\ pc[c] = "removing"
    /\ dests' = [dests EXCEPT ![IdOf[c]] = NoConn]
    /\ pc' = [pc EXCEPT ![c] = "finished"]
    /\ UNCHANGED <<queue, sock, up, dst>> /\ OthersUnchanged

Goroutine(c) ==
    \/ Dial(c) \/ Refuse(c) \/ Answer(c) \/ Register(c)
    \/ Forward(c) \/ ReadFails(c) \/ Report(c) \/ Remove(c)

\* External: the destination shuts its sending side down ("half": it may
\* still take bytes) or is gone altogether.
DestCloses(c) ==
    /\ sock[c] = "open"
    /\ \/ dst[c] = "up"    /\ dst' = [dst EXCEPT ![c] = "half"]
       \/ dst[c] # "gone"  /\ dst' = [dst EXCEPT ![c] = "gone"]
    /\ UNCHANGED <<dests, queue, pc, sock, up>> /\ OthersUnchanged

Destination(c) == ReadChunk(c) \/ DestCloses(c)

-----------------------------------------------------------------------------
(* writeLoop and keepaliveLoop *)

WriterTake ==
    /\ writer = "idle" /\ queue # <<>>
    /\ writer' = "writing" /\ wpkt' = Head(queue) /\ queue' = Tail(queue)
    /\ UNCHANGED <<mainVars, dests, keeperVars, destVars, got, inbox, link,
                   serverVars>>

WriterSend ==
    /\ writer = "writing" /\ link = "up" /\ main # "returned"
    /\ writer' = "idle" /\ wpkt' = NoFrame
    /\ Receives(wpkt)
    /\ UNCHANGED <<mainVars, dests, queue, keeperVars, destVars, got, inbox,
                   link, sent>>

\* On a lost connection a write fails, or the kernel takes bytes that no one
\* will read.  A failed write ends the goroutine and leaves done open.
WriterFail ==
    /\ writer = "writing" /\ (link = "down" \/ main = "returned")
    /\ writer' \in {"idle", "stopped"} /\ wpkt' = NoFrame
    /\ UNCHANGED <<mainVars, dests, queue, keeperVars, destVars, got, inbox,
                   link, serverVars>>

WriterStop ==
    /\ writer = "idle" /\ Done
    /\ writer' = "stopped"
    /\ UNCHANGED <<mainVars, dests, queue, wpkt, keeperVars, destVars, got,
                   inbox, link, serverVars>>

WriteLoop == WriterTake \/ WriterSend \/ WriterFail \/ WriterStop

KeeperTick ==
    /\ keeper = "waiting" /\ ticks < MaxTicks
    /\ keeper' = "sending" /\ ticks' = ticks + 1
    /\ UNCHANGED <<mainVars, dests, queue, writerVars, destVars, got, inbox,
                   link, serverVars>>

KeeperSend ==
    /\ keeper = "sending"
    /\ Enqueue(Frame("KEEPALIVE", NoConn, 0))
    /\ keeper' = "waiting"
    /\ UNCHANGED <<mainVars, dests, writerVars, ticks, destVars, got, inbox,
                   link, serverVars>>

KeeperStop ==
    /\ keeper \in {"waiting", "sending"} /\ Done
    /\ keeper' = "stopped"
    /\ UNCHANGED <<mainVars, dests, queue, writerVars, ticks, destVars, got,
                   inbox, link, serverVars>>

KeepaliveLoop == KeeperTick \/ KeeperSend \/ KeeperStop

-----------------------------------------------------------------------------
Next ==
    \/ Server \/ Run \/ WriteLoop \/ KeepaliveLoop
    \/ \E c \in Conns : Goroutine(c) \/ Destination(c)

Spec == Init /\ [][Next]_vars

(***************************************************************************)
(* Fairness.  The Go scheduler runs every goroutine that can run, a dial   *)
(* ends within its timeout, and a server on a live connection keeps        *)
(* reading, so the writer's write returns.  Nothing is assumed of what     *)
(* others do: the server need not send, a destination need not read, write *)
(* or close (Deliver, ReadChunk and DestCloses are unfair), a tick need    *)
(* not come and the connection need not fail.  A write to a socket that    *)
(* was closed, or whose peer is gone, does return.                         *)
(***************************************************************************)
WriteReturns == Deliver /\ (sock[target] = "closed" \/ dst[target] = "gone")

Fairness ==
    /\ WF_vars(HandlePacket) /\ WF_vars(WriteReturns)
    /\ WF_vars(ReadError) /\ WF_vars(CloseDests) /\ WF_vars(HangUp)
    /\ WF_vars(WriteLoop) /\ WF_vars(KeeperSend \/ KeeperStop)
    /\ \A c \in Conns : WF_vars(Goroutine(c))

FairSpec == Spec /\ Fairness
-----------------------------------------------------------------------------
(* Safety *)

MainType ==
    /\ main \in {"reading", "denying", "sending", "destroying", "cleanup",
                 "hangup", "returned"}
    /\ hand \in FromServer \cup {NoFrame}
    /\ target \in Conns \cup {NoConn}
    /\ main \in {"denying", "sending"} => hand.conn \in Conns /\ hand.n \in Nat
    /\ main \in {"sending", "destroying"} => target \in Conns
DestsType == dests \in [Ids -> Conns \cup {NoConn}]
PipeType ==
    /\ queue \in Seq(ToServer) /\ Len(queue) <= QueueCap
    /\ writer \in {"idle", "writing", "stopped"}
    /\ wpkt \in ToServer \cup {NoFrame}
    /\ writer = "writing" => wpkt \in ToServer
    /\ keeper \in {"waiting", "sending", "stopped"} /\ ticks \in Nat
ConnType ==
    /\ pc \in [Conns -> {"none", "dialing", "refusing", "answering",
                         "registering", "reading", "forwarding", "reporting",
                         "removing", "finished"}]
    /\ sock \in [Conns -> {"none", "open", "closed"}]
    /\ up \in [Conns -> Nat]
    /\ dst \in [Conns -> {"up", "half", "gone"}]
GotType == got \in [Conns -> Seq(Conns \X Nat)]
ServerType ==
    /\ inbox \in Seq(FromServer) /\ link \in {"up", "down"}
    /\ srv \in [Conns -> {"idle", "requested", "open", "closing", "ended"}]
    /\ sent \in [Conns -> Nat] /\ rcv \in [Conns -> Nat]

\* Every variable has its type; in particular serverSend never holds more
\* than its capacity (server_conn.go:52).
TypeOK ==
    MainType /\ DestsType /\ PipeType /\ ConnType /\ GotType /\ ServerType

\* A destination is only ever given bytes the server meant for it, also when
\* the server uses the id of a closed connection again: the old socket is
\* closed before DESTROY frees the id (dest_conn.go:47-55), whatever entry
\* dests still holds.
NoCrossTalk ==
    \A c \in Conns : \A k \in 1..Len(got[c]) : got[c][k][1] = c

\* What the server can make sense of next: DATA in order, DESTROY last.
Expected(f) ==
    \/ f.cmd \in {"KEEPALIVE", "RENEW"}
    \/ /\ Awaited(f)
       /\ f.cmd = "DATA" => f.n = rcv[f.conn] + 1
       /\ f.cmd = "DESTROY" => rcv[f.conn] = up[f.conn] \/ Done

\* On a live connection each frame on the wire is one the server waits for:
\* one CREATE_RESPONSE, then every byte of the destination in order, then one
\* DESTROY, with none of an old connection after its id was given away.
WireProtocol ==
    writer = "writing" /\ link = "up" /\ main # "returned" => Expected(wpkt)

\* No destination goroutine ends with its socket open, however its selects
\* between a send and done are resolved (dest_conn.go:35-40, 47-55).
NoSocketLeak ==
    \A c \in Conns : pc[c] = "finished" => sock[c] # "open"

\* While the read loop runs, every destination being read is the one dests
\* gives for its id, so that the server can reach it and the shutdown can close
\* it: it may be out of the map only if the goroutine of an ended session with
\* the same id is past removeDest, which deletes by id (server_conn.go:204).
Registered ==
    ~Done => \A c \in Conns :
        pc[c] \in {"reading", "forwarding"} =>
            \/ dests[IdOf[c]] = c
            \/ \E d \in Conns \ {c} :
                   IdOf[d] = IdOf[c] /\ srv[d] = "ended" /\ pc[d] = "finished"

(* Refinement *)

\* Beyond this the agent owes the server nothing.
Over == link = "down" \/ Done

Service == INSTANCE ProxyService WITH stage <- srv, given <- got, over <- Over

\* For the server and the destinations the goroutines, the queue and the map
\* add up to one service per session (ProxyService): accepted or refused, never
\* accepted when the access list refuses it (server_conn.go:131), bytes carried
\* in order both ways, ended once, after the last byte, and no id given away
\* before that.
ServesSessions == Service!Spec

(* Liveness, under FairSpec *)

\* From some point on the read loop waits for one destination to take bytes.
StuckInWrite == <>[](main = "sending")

\* Every CREATE_REQUEST is answered, refused ones too, unless the connection
\* ends or the read loop is stuck on a destination that takes no bytes.
RequestAnswered ==
    \A c \in Conns :
        srv[c] = "requested" ~> srv[c] # "requested" \/ Over \/ StuckInWrite

\* A destination that closes is reported to the server by a DESTROY, even
\* while the read loop is blocked (integration_test.go:504).
CloseIsReported ==
    \A c \in Conns :
        srv[c] = "open" /\ dst[c] # "up" ~> srv[c] = "ended" \/ Over

\* A DESTROY for a registered connection ends it and is confirmed by the
\* agent's own DESTROY.  One that comes before the connection is registered is
\* dropped (server_conn.go:144-155): of it nothing is claimed.
DestroyHonoured ==
    \A c \in Conns :
        /\ srv[c] = "closing" /\ dests[IdOf[c]] = c
        /\ \E k \in 1..Len(inbox) : inbox[k] = Frame("DESTROY", c, 0)
        ~> srv[c] = "ended" \/ Over \/ StuckInWrite

\* RunAgent "keeps reconnecting on transient failures" (agent.go:43): for that,
\* Run must return once the connection is lost.  The only ways it does not: the
\* read loop is in a write to a destination that takes no bytes, or in the
\* unguarded send of a refusal (server_conn.go:132).
LinkLossEndsRunOrStuck ==
    link = "down" ~> main = "returned" \/ StuckInWrite \/ <>[](main = "denying")

\* "Signal all goroutines (destConn readLoops, keepalive) to stop"
\* (server_conn.go:70): after Run returns, each of them ends, but those that
\* register after the shutdown emptied the map (server_conn.go:78, :198).
ShutdownDrainsOrLate ==
    main = "returned" ~>
        /\ writer = "stopped" /\ keeper = "stopped"
        /\ \A c \in Conns : \/ pc[c] \in {"none", "finished"}
                            \/ dests[IdOf[c]] = c

\* The first byte a destination gets is the first byte the server sent it
\* (TestFullDataFlow, integration_test.go:291: data sent after a successful
\* CREATE_RESPONSE reaches the destination).
StreamStartsAtFirstByte ==
    \A c \in Conns : got[c] # <<>> => got[c][1][2] = 1
=============================================================================
