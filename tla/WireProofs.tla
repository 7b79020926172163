----------------------------- MODULE WireProofs -----------------------------
(***************************************************************************)
(* What the server gets to see of Tunnel, for every value of its           *)
(* constants: the frames of each session come in an order the server can   *)
(* make sense of (WireProtocol), and a destination that is being read can  *)
(* be reached (Registered).                                                *)
(***************************************************************************)
EXTENDS TunnelProofs

\* The connection still carries what the writer writes.
Live == link = "up" /\ main # "returned"

\* The frames on their way in order: the writer's own, then the queue.
Slots == 0..Len(queue)
Slot(k) == IF k = 0 THEN wpkt ELSE queue[k]

IsData(f, c) == f.cmd = "DATA" /\ f.conn = c

\* Where the goroutine of a session has not answered the CREATE_REQUEST, where
\* it has accepted it and may have more to send, and where it reads no more.
Answering == {"dialing", "refusing", "answering"}
Serving == {"registering", "reading", "forwarding", "reporting"}
Ending == {"reporting", "removing", "finished"}

-----------------------------------------------------------------------------
(* The parts of the inductive invariant *)

\* The writer holds a frame only while it writes it.
WriterInv == writer # "writing" => wpkt = NoFrame

\* Until it answers, a goroutine's session is requested and nothing is sent.
PendingInv == \A c \in Conns : pc[c] \in Answering =>
    srv[c] = "requested" /\ \A f \in Pipe : f.conn # c

\* A CREATE_RESPONSE is awaited, and the first frame of its session.
AnswerInv == \A k \in Slots : Slot(k).cmd \in {"OK", "FAIL"} =>
    /\ srv[Slot(k).conn] = "requested"
    /\ \A j \in Slots : j < k => Slot(j).conn # Slot(k).conn

\* By the time slot k is written, the server has been told that c is open.
Accepted(c, k) == \/ srv[c] \in {"open", "closing"}
                  \/ \E j \in Slots : j < k /\ Slot(j) = Frame("OK", c, 0)
AcceptInv ==
    /\ \A k \in Slots : Slot(k).cmd \in {"DATA", "DESTROY"} => Accepted(Slot(k).conn, k)
    /\ \A c \in Conns : pc[c] \in Serving => Accepted(c, Len(queue) + 1)

\* Nothing of a session follows its FAIL or DESTROY.
LastInv == \A j, k \in Slots :
    j < k /\ Slot(j).cmd \in {"FAIL", "DESTROY"} => Slot(k).conn # Slot(j).conn

\* Chunks of c that were sent, or given up when done was closed.
Enqueued(c) == IF pc[c] = "forwarding" THEN up[c] - 1 ELSE up[c]

\* The DATA frames of c carry the chunks after the last received, one by one.
ChunkInv == \A k \in Slots : \A c \in Conns : IsData(Slot(k), c) =>
    /\ rcv[c] < Slot(k).n /\ Slot(k).n <= Enqueued(c)
    /\ \/ Slot(k).n = rcv[c] + 1
       \/ \E j \in Slots : j < k /\ IsData(Slot(j), c) /\ Slot(j).n + 1 = Slot(k).n
    /\ \A j \in Slots : j < k /\ IsData(Slot(j), c) => Slot(j).n < Slot(k).n

\* No chunk is missing, unless done was closed and made a goroutine give up.
WholeInv == \A c \in Conns : ~Done \/ pc[c] \notin Ending =>
    \/ Enqueued(c) = rcv[c]
    \/ \E k \in Slots : IsData(Slot(k), c) /\ Slot(k).n = Enqueued(c)

OrderInv == AnswerInv /\ AcceptInv /\ LastInv /\ ChunkInv /\ WholeInv

Wired == WriterInv /\ PendingInv /\ (Live => OrderInv)
WireInv == IInv /\ Wired

-----------------------------------------------------------------------------
(* What an action does to the slots *)

LEMMA SlotTypes ==
  ASSUME TypeOK
  PROVE  /\ Len(queue) \in Nat
         /\ \A k \in Slots : /\ Slot(k) \in Pipe
                             /\ Slot(k) \in ToServer \cup {NoFrame}
         /\ \A f \in ToServer \cup {NoFrame} :
               f.cmd \in {"OK", "FAIL", "DATA", "DESTROY"} => f.conn \in Conns /\ f.n \in Nat
<1>1. /\ queue \in Seq(ToServer) /\ wpkt \in ToServer \cup {NoFrame}
      /\ Len(queue) \in Nat /\ \A k \in 1..Len(queue) : queue[k] \in ToServer
  BY DEF TypeOK, PipeType
<1>2. \A f \in ToServer \cup {NoFrame} :
         f.cmd \in {"OK", "FAIL", "DATA", "DESTROY"} => f.conn \in Conns /\ f.n \in Nat
  BY DEF ToServer, NoFrame, Frame
<1>3. ASSUME NEW k \in Slots
      PROVE  Slot(k) \in Pipe /\ Slot(k) \in ToServer \cup {NoFrame}
  <2>1. k = 0 \/ k \in 1..Len(queue)
    BY <1>1 DEF Slots
  <2> QED
    BY <1>1, <2>1 DEF Slot, Pipe
<1> QED
  BY <1>1, <1>2, <1>3

LEMMA SlotsSame ==
  ASSUME UNCHANGED <<queue, wpkt>>
  PROVE  Slots' = Slots /\ (\A k : Slot(k)' = Slot(k)) /\ Pipe' = Pipe
  BY DEF Slots, Slot, Pipe

LEMMA SlotsEnqueue ==
  ASSUME TypeOK, NEW f \in ToServer, Enqueue(f), wpkt' = wpkt
  PROVE  /\ Len(queue') = Len(queue) + 1
         /\ Slots' = Slots \cup {Len(queue) + 1}
         /\ \A k \in Slots : Slot(k)' = Slot(k)
         /\ \A k : k = Len(queue) + 1 => Slot(k)' = f
         /\ \A k \in Slots : k < Len(queue) + 1
         /\ Slots \subseteq Nat
<1>1. queue \in Seq(ToServer) /\ queue' = Append(queue, f) /\ Len(queue) \in Nat
  BY DEF TypeOK, PipeType, Enqueue
<1>2. /\ Len(queue') = Len(queue) + 1
      /\ \A k \in 1..Len(queue) : queue'[k] = queue[k]
      /\ queue'[Len(queue) + 1] = f
  BY <1>1
<1>3. Slots = 0..Len(queue) /\ Slots' = 0..(Len(queue) + 1)
  BY <1>2 DEF Slots
<1>4. \A k \in Slots : k \in Nat /\ (k = 0 \/ k \in 1..Len(queue)) /\ k < Len(queue) + 1
  BY <1>1, <1>3
<1>5. Slots' = Slots \cup {Len(queue) + 1}
  BY <1>1, <1>3
<1>6. \A k \in Slots : Slot(k)' = Slot(k)
  BY <1>2, <1>4 DEF Slot
<1>7. \A k : k = Len(queue) + 1 => Slot(k)' = f
  BY <1>1, <1>2 DEF Slot
<1> QED
  BY <1>2, <1>4, <1>5, <1>6, <1>7

LEMMA SlotsTake ==
  ASSUME TypeOK, WriterInv, WriterTake
  PROVE  /\ Len(queue) \in Nat \ {0} /\ Len(queue') = Len(queue) - 1
         /\ Slots = Slots' \cup {Len(queue)} /\ Slots' \subseteq Nat
         /\ \A k \in Slots' : k + 1 \in Slots /\ Slot(k)' = Slot(k + 1)
         /\ Slot(0) = NoFrame
<1>1. /\ queue \in Seq(ToServer) /\ queue # <<>> /\ wpkt = NoFrame
      /\ wpkt' = Head(queue) /\ queue' = Tail(queue)
  BY DEF TypeOK, PipeType, WriterInv, WriterTake
<1>2. /\ Len(queue') = Len(queue) - 1 /\ Len(queue) \in Nat \ {0}
      /\ wpkt' = queue[1]
      /\ \A k \in 1..Len(queue') : queue'[k] = queue[k + 1]
  BY <1>1
<1>3. Slots = 0..Len(queue) /\ Slots' = 0..(Len(queue) - 1)
  BY <1>2 DEF Slots
<1>4. Slots = Slots' \cup {Len(queue)} /\ Slots' \subseteq Nat
  BY <1>2, <1>3
<1>5. ASSUME NEW k \in Slots'
      PROVE  k + 1 \in Slots /\ Slot(k)' = Slot(k + 1)
  <2>1. k \in Nat /\ k + 1 \in 1..Len(queue) /\ (k = 0 \/ k \in 1..Len(queue'))
    BY <1>2, <1>3
  <2> QED
    BY <1>2, <1>3, <2>1 DEF Slot
<1>6. Slot(0) = NoFrame
  BY <1>1 DEF Slot
<1> QED
  BY <1>2, <1>4, <1>5, <1>6

LEMMA SlotsSend ==
  ASSUME TypeOK, WriterSend
  PROVE  /\ Slots' = Slots /\ Slots \subseteq Nat /\ 0 \in Slots
         /\ Slot(0) = wpkt /\ Slot(0)' = NoFrame
         /\ \A k \in Slots \ {0} : Slot(k)' = Slot(k)
         /\ NoFrame.conn = NoConn /\ NoFrame.cmd = "NONE"
  BY DEF TypeOK, PipeType, WriterSend, Slots, Slot, NoFrame, Frame

-----------------------------------------------------------------------------
(* Keeping the order *)

\* Sessions move on, goroutines too, and no frame comes or goes.
LEMMA OrderStays ==
  ASSUME TypeOK, TypeOK', OrderInv, UNCHANGED <<queue, wpkt, rcv>>,
         \A c \in Conns : srv[c] = "requested" => srv'[c] = "requested",
         \A c \in Conns : srv[c] \in {"open", "closing"} => srv'[c] \in {"open", "closing"},
         \A c \in Conns : pc'[c] \in Serving => pc[c] \in Serving,
         \A c \in Conns : Enqueued(c) <= Enqueued(c)',
         \A c \in Conns : ~Done' \/ pc'[c] \notin Ending =>
            /\ ~Done \/ pc[c] \notin Ending
            /\ Enqueued(c)' = Enqueued(c)
  PROVE  OrderInv'
<1>1. Slots' = Slots /\ \A k : Slot(k)' = Slot(k)
  BY SlotsSame
<1>2. \A k \in Slots : Slot(k).cmd \in {"OK", "FAIL", "DATA", "DESTROY"} =>
                         Slot(k).conn \in Conns /\ Slot(k).n \in Nat
  BY SlotTypes
<1>3. \A c \in Conns : Enqueued(c) \in Int /\ Enqueued(c)' \in Int /\ rcv[c] \in Nat
  BY DEF Enqueued, TypeOK, ConnType, ServerType
<1>4. AnswerInv'
  BY <1>1, <1>2 DEF OrderInv, AnswerInv
<1>5. AcceptInv'
  <2>1. \A c \in Conns : \A k : Accepted(c, k) => Accepted(c, k)'
    BY <1>1 DEF Accepted
  <2>2. Len(queue') = Len(queue)
    OBVIOUS
  <2>3. \A k \in Slots : Slot(k).cmd \in {"DATA", "DESTROY"} => Accepted(Slot(k).conn, k)'
    BY <1>1, <1>2, <2>1 DEF OrderInv, AcceptInv
  <2>4. \A c \in Conns : pc'[c] \in Serving => Accepted(c, Len(queue) + 1)'
    BY <2>1, <2>2 DEF OrderInv, AcceptInv
  <2> QED
    BY <1>1, <2>2, <2>3, <2>4 DEF AcceptInv
<1>6. LastInv'
  BY <1>1 DEF OrderInv, LastInv
<1>7. ChunkInv'
  <2>1. SUFFICES ASSUME NEW k \in Slots, NEW c \in Conns, IsData(Slot(k), c)
                 PROVE  Slot(k).n <= Enqueued(c)'
    BY <1>1 DEF OrderInv, ChunkInv, IsData
  <2>2. Slot(k).n \in Nat /\ Slot(k).n <= Enqueued(c)
    BY <1>2, <2>1 DEF OrderInv, ChunkInv, IsData
  <2> QED
    BY <1>3, <2>2
<1>8. WholeInv'
  BY <1>1 DEF OrderInv, WholeInv, IsData
<1> QED
  BY <1>4, <1>5, <1>6, <1>7, <1>8 DEF OrderInv

\* One frame more, at the end of the queue: it has to fit what is there.
LEMMA OrderAppends ==
  ASSUME TypeOK, TypeOK', OrderInv, NEW f \in ToServer, Enqueue(f),
         UNCHANGED <<wpkt, srv, rcv>>, Done' = Done,
         \A k \in Slots : f.cmd \in {"OK", "FAIL"} => Slot(k).conn # f.conn,
         f.cmd \in {"OK", "FAIL"} => srv[f.conn] = "requested",
         f.cmd \in {"DATA", "DESTROY"} => Accepted(f.conn, Len(queue) + 1),
         \A c \in Conns : pc'[c] \in Serving =>
                              pc[c] \in Serving \/ f = Frame("OK", c, 0),
         \A k \in Slots : Slot(k).cmd \in {"FAIL", "DESTROY"} => Slot(k).conn # f.conn,
         \A c \in Conns : IF IsData(f, c)
            THEN /\ f.n = Enqueued(c) + 1 /\ Enqueued(c)' = f.n
                 /\ pc[c] = "forwarding"
            ELSE Enqueued(c)' = Enqueued(c),
         \A c \in Conns : pc'[c] \notin Ending => pc[c] \notin Ending
  PROVE  OrderInv'
<1> DEFINE m == Len(queue) + 1
<1>1. /\ Len(queue') = m /\ Slots' = Slots \cup {m} /\ Slots \subseteq Nat
      /\ \A k \in Slots : Slot(k)' = Slot(k) /\ k < m
      /\ \A k : k = m => Slot(k)' = f
  BY SlotsEnqueue
<1>2. /\ m \in Nat
      /\ \A k \in Slots : Slot(k).cmd \in {"OK", "FAIL", "DATA", "DESTROY"} =>
                         Slot(k).conn \in Conns /\ Slot(k).n \in Nat
      /\ f.cmd \in {"OK", "FAIL", "DATA", "DESTROY"} => f.conn \in Conns /\ f.n \in Nat
  BY SlotTypes
<1>3. \A c \in Conns : Enqueued(c) \in Int /\ Enqueued(c)' \in Int /\ rcv[c] \in Nat
  BY DEF Enqueued, TypeOK, ConnType, ServerType
<1>n. ~(m < m) /\ \A k \in Slots : ~(m < k)
  BY <1>1, <1>2
<1> HIDE DEF m
<1>4. AnswerInv'
  BY <1>1, <1>2, <1>n DEF OrderInv, AnswerInv
<1>5. AcceptInv'
  <2>1. \A c \in Conns : \A k : Accepted(c, k) => Accepted(c, k)'
    BY <1>1 DEF Accepted
  <2>2. ASSUME NEW k \in Slots', Slot(k)'.cmd \in {"DATA", "DESTROY"},
               NEW c, c = Slot(k)'.conn
        PROVE  Accepted(c, k)'
    <3>1. Accepted(c, k)
      BY <1>1, <2>2 DEF OrderInv, AcceptInv, m
    <3> QED
      BY <1>1, <1>2, <2>1, <2>2, <3>1
  <2>3. ASSUME NEW c \in Conns, pc'[c] \in Serving
        PROVE  Accepted(c, Len(queue) + 1)'
    <3>1. CASE pc[c] \in Serving
      <4>1. Accepted(c, m)
        BY <3>1 DEF OrderInv, AcceptInv, m
      <4> QED
        BY <1>1, <1>2, <4>1 DEF Accepted
    <3>2. CASE f = Frame("OK", c, 0)
      <4>1. m \in Slots' /\ m < Len(queue') + 1
        BY <1>1, <1>2
      <4> QED
        BY <1>1, <3>2, <4>1 DEF Accepted, Frame
    <3> QED
      BY <2>3, <3>1, <3>2
  <2> QED
    BY <2>2, <2>3 DEF AcceptInv, Accepted
<1>6. LastInv'
  BY <1>1, <1>n DEF OrderInv, LastInv
<1>7. ChunkInv'
  <2>1. SUFFICES ASSUME NEW k \in Slots', NEW c \in Conns, IsData(Slot(k)', c)
                 PROVE  /\ rcv[c] < Slot(k)'.n /\ Slot(k)'.n <= Enqueued(c)'
                        /\ \/ Slot(k)'.n = rcv[c] + 1
                           \/ \E j \in Slots' : /\ j < k /\ IsData(Slot(j)', c)
                                                /\ Slot(j)'.n + 1 = Slot(k)'.n
                        /\ \A j \in Slots' : j < k /\ IsData(Slot(j)', c) =>
                                             Slot(j)'.n < Slot(k)'.n
    BY DEF ChunkInv, IsData
  <2>2. CASE k \in Slots
    <3>1. Slot(k)' = Slot(k) /\ IsData(Slot(k), c) /\ Slot(k).n \in Nat
      BY <1>1, <1>2, <2>1, <2>2 DEF IsData
    <3>2. /\ rcv[c] < Slot(k).n /\ Slot(k).n <= Enqueued(c)
          /\ \/ Slot(k).n = rcv[c] + 1
             \/ \E j \in Slots : j < k /\ IsData(Slot(j), c) /\ Slot(j).n + 1 = Slot(k).n
          /\ \A j \in Slots : j < k /\ IsData(Slot(j), c) => Slot(j).n < Slot(k).n
      BY <2>2, <3>1 DEF OrderInv, ChunkInv
    <3>3. Slot(k).n <= Enqueued(c)'
      BY <1>3, <3>1, <3>2
    <3> QED
      BY <1>1, <1>n, <2>2, <3>1, <3>2, <3>3 DEF IsData
  <2>3. CASE k = m
    <3>1. Slot(k)' = f /\ IsData(f, c) /\ f.n \in Nat
      BY <1>1, <1>2, <2>1, <2>3 DEF IsData
    <3>2. f.n = Enqueued(c) + 1 /\ Enqueued(c)' = f.n /\ pc[c] = "forwarding"
      BY <3>1
    <3>3. \A j \in Slots : IsData(Slot(j), c) =>
             Slot(j).n \in Nat /\ rcv[c] < Slot(j).n /\ Slot(j).n <= Enqueued(c)
      BY <1>2 DEF OrderInv, ChunkInv, IsData
    <3>4. \/ Enqueued(c) = rcv[c]
          \/ \E j \in Slots : IsData(Slot(j), c) /\ Slot(j).n = Enqueued(c)
      BY <3>2 DEF OrderInv, WholeInv, Ending
    <3>5. rcv[c] < f.n /\ f.n <= Enqueued(c)'
      BY <1>3, <3>1, <3>2, <3>3, <3>4
    <3>6. \/ f.n = rcv[c] + 1
          \/ \E j \in Slots : j < k /\ IsData(Slot(j)', c) /\ Slot(j)'.n + 1 = f.n
      BY <1>1, <2>3, <3>2, <3>4
    <3>7. ASSUME NEW j \in Slots, IsData(Slot(j), c)
          PROVE  Slot(j).n < f.n
      BY <1>3, <3>1, <3>2, <3>3, <3>7
    <3> QED
      BY <1>1, <1>n, <2>3, <3>1, <3>5, <3>6, <3>7
  <2> QED
    BY <1>1, <2>2, <2>3
<1>8. WholeInv'
  <2>1. SUFFICES ASSUME NEW c \in Conns, ~Done' \/ pc'[c] \notin Ending
                 PROVE  \/ Enqueued(c)' = rcv[c]
                        \/ \E k \in Slots' : IsData(Slot(k)', c) /\ Slot(k)'.n = Enqueued(c)'
    BY DEF WholeInv, IsData
  <2>3. CASE IsData(f, c)
    BY <1>1, <2>3
  <2>4. CASE ~IsData(f, c)
    <3>1. Enqueued(c)' = Enqueued(c)
      BY <2>1, <2>4
    <3>2. \/ Enqueued(c) = rcv[c]
          \/ \E k \in Slots : IsData(Slot(k), c) /\ Slot(k).n = Enqueued(c)
      BY <2>1 DEF OrderInv, WholeInv
    <3> QED
      BY <1>1, <3>1, <3>2
  <2> QED
    BY <2>3, <2>4
<1> QED
  BY <1>4, <1>5, <1>6, <1>7, <1>8 DEF OrderInv

\* The writer takes the next frame: every frame moves up by one slot.
LEMMA OrderTakes ==
  ASSUME TypeOK, OrderInv, WriterInv, WriterTake
  PROVE  OrderInv'
<1>1. /\ Len(queue) \in Nat \ {0} /\ Len(queue') = Len(queue) - 1
      /\ Slots = Slots' \cup {Len(queue)} /\ Slots' \subseteq Nat /\ Slots \subseteq Nat
      /\ \A k \in Slots' : k + 1 \in Slots /\ Slot(k)' = Slot(k + 1)
      /\ Slot(0) = NoFrame /\ NoFrame.cmd = "NONE"
  BY SlotsTake DEF NoFrame, Frame
<1>2. \A j \in Slots : j # 0 => \E i \in Slots' : j = i + 1
  <2>1. SUFFICES ASSUME NEW j \in Slots, j # 0
                 PROVE  j - 1 \in Slots' /\ j = (j - 1) + 1
    OBVIOUS
  <2>2. j \in 0..Len(queue) /\ Slots' = 0..(Len(queue) - 1)
    BY <1>1 DEF Slots
  <2> QED
    BY <1>1, <2>1, <2>2
<1>3. UNCHANGED <<pc, up, srv, rcv, main>>
  BY DEF WriterTake, mainVars, destVars, serverVars
<1>4. \A c : Enqueued(c)' = Enqueued(c)
  BY <1>3 DEF Enqueued
<1>5. AnswerInv'
  <2>1. SUFFICES ASSUME NEW k \in Slots', Slot(k + 1).cmd \in {"OK", "FAIL"}
                 PROVE  /\ srv[Slot(k + 1).conn] = "requested"
                        /\ \A j \in Slots' : j < k => Slot(j + 1).conn # Slot(k + 1).conn
    BY <1>1, <1>3 DEF AnswerInv
  <2> QED
    BY <1>1, <2>1 DEF OrderInv, AnswerInv
<1>6. AcceptInv'
  <2>1. ASSUME NEW c, NEW k \in Nat, Accepted(c, k + 1)
        PROVE  Accepted(c, k)'
    <3>1. CASE srv[c] \in {"open", "closing"}
      BY <1>3, <3>1 DEF Accepted
    <3>2. CASE \E j \in Slots : j < k + 1 /\ Slot(j) = Frame("OK", c, 0)
      <4>1. PICK j \in Slots : j < k + 1 /\ Slot(j) = Frame("OK", c, 0)
        BY <3>2
      <4>2. j # 0
        BY <1>1, <4>1 DEF Frame
      <4>3. PICK i \in Slots' : j = i + 1
        BY <1>2, <4>2
      <4>4. i < k /\ Slot(i)' = Frame("OK", c, 0)
        BY <1>1, <4>1, <4>3
      <4> QED
        BY <4>4 DEF Accepted, Frame
    <3> QED
      BY <2>1, <3>1, <3>2 DEF Accepted
  <2>2. ASSUME NEW k \in Slots', Slot(k)'.cmd \in {"DATA", "DESTROY"},
               NEW c, c = Slot(k)'.conn
        PROVE  Accepted(c, k)'
    <3>1. Accepted(c, k + 1)
      BY <1>1, <2>2 DEF OrderInv, AcceptInv
    <3> QED
      BY <1>1, <2>1, <3>1
  <2>3. ASSUME NEW c \in Conns, pc'[c] \in Serving
        PROVE  Accepted(c, Len(queue) + 1)'
    <3>1. Accepted(c, Len(queue) + 1)
      BY <1>3, <2>3 DEF OrderInv, AcceptInv
    <3>2. PICK m \in Nat : m = Len(queue)
      BY <1>1
    <3>3. Accepted(c, m)'
      BY <2>1, <3>1, <3>2
    <3> QED
      BY <1>1, <3>2, <3>3 DEF Accepted
  <2> QED
    BY <1>1, <2>2, <2>3 DEF AcceptInv, Accepted
<1>7. LastInv'
  <2>1. SUFFICES ASSUME NEW j \in Slots', NEW k \in Slots', j < k,
                        Slot(j + 1).cmd \in {"FAIL", "DESTROY"}
                 PROVE  Slot(k + 1).conn # Slot(j + 1).conn
    BY <1>1 DEF LastInv
  <2> QED
    BY <1>1, <2>1 DEF OrderInv, LastInv
<1>8. ChunkInv'
  <2>1. SUFFICES ASSUME NEW k \in Slots', NEW c \in Conns, IsData(Slot(k)', c)
                 PROVE  /\ rcv[c] < Slot(k)'.n /\ Slot(k)'.n <= Enqueued(c)
                        /\ \/ Slot(k)'.n = rcv[c] + 1
                           \/ \E j \in Slots' : /\ j < k /\ IsData(Slot(j)', c)
                                                /\ Slot(j)'.n + 1 = Slot(k)'.n
                        /\ \A j \in Slots' : j < k /\ IsData(Slot(j)', c) =>
                                             Slot(j)'.n < Slot(k)'.n
    BY <1>3, <1>4 DEF ChunkInv, IsData
  <2>d. IsData(Slot(k + 1), c)
    BY <1>1, <2>1
  <2>2. /\ rcv[c] < Slot(k + 1).n /\ Slot(k + 1).n <= Enqueued(c)
        /\ \/ Slot(k + 1).n = rcv[c] + 1
           \/ \E j \in Slots : /\ j < k + 1 /\ IsData(Slot(j), c)
                               /\ Slot(j).n + 1 = Slot(k + 1).n
        /\ \A j \in Slots : j < k + 1 /\ IsData(Slot(j), c) => Slot(j).n < Slot(k + 1).n
    BY <1>1, <2>d DEF OrderInv, ChunkInv
  <2>3. ASSUME NEW j \in Slots, j < k + 1, IsData(Slot(j), c)
        PROVE  \E i \in Slots' : i < k /\ j = i + 1
    <3>1. j # 0
      BY <1>1, <2>3 DEF IsData
    <3> QED
      BY <1>1, <1>2, <2>3, <3>1
  <2>4. ASSUME NEW j \in Slots', j < k, IsData(Slot(j + 1), c)
        PROVE  Slot(j + 1).n < Slot(k + 1).n
    <3>1. j + 1 < k + 1 /\ j + 1 \in Slots
      BY <1>1, <2>4
    <3> QED
      BY <2>2, <2>4, <3>1
  <2> QED
    BY <1>1, <2>2, <2>3, <2>4
<1>9. WholeInv'
  <2>1. SUFFICES ASSUME NEW c \in Conns, ~Done \/ pc[c] \notin Ending
                 PROVE  \/ Enqueued(c) = rcv[c]
                        \/ \E k \in Slots' : /\ IsData(Slot(k + 1), c)
                                             /\ Slot(k + 1).n = Enqueued(c)
    BY <1>1, <1>3, <1>4 DEF WholeInv, IsData, Done
  <2>2. \A k \in Slots : IsData(Slot(k), c) => k # 0
    BY <1>1 DEF IsData
  <2> QED
    BY <1>2, <2>1, <2>2 DEF OrderInv, WholeInv
<1> QED
  BY <1>5, <1>6, <1>7, <1>8, <1>9 DEF OrderInv

\* The server receives the frame in the writer's hands, which it waits for.
LEMMA HeadExpected ==
  ASSUME IInv, OrderInv, writer = "writing"
  PROVE  Expected(wpkt)
<1>0. TypeOK /\ 0 \in Slots /\ Slot(0) = wpkt /\ wpkt \in Pipe /\ wpkt \in ToServer
  BY DEF IInv, TypeOK, PipeType, Slots, Slot, Pipe
<1>n. \A j \in Slots : ~(j < 0) /\ (j = 0 \/ 0 < j)
  BY <1>0 DEF TypeOK, PipeType, Slots
<1>1. CASE wpkt.cmd \in {"KEEPALIVE", "RENEW"}
  BY <1>1 DEF Expected
<1>2. CASE wpkt.cmd \in {"OK", "FAIL"}
  BY <1>0, <1>2 DEF OrderInv, AnswerInv, Expected, Awaited
<1>3. CASE wpkt.cmd = "DATA"
  <2>1. wpkt.conn \in Conns /\ IsData(wpkt, wpkt.conn)
    BY <1>0, <1>3 DEF ToServer, IsData
  <2>2. srv[wpkt.conn] \in {"open", "closing"}
    BY <1>0, <1>n, <1>3 DEF OrderInv, AcceptInv, Accepted
  <2>3. wpkt.n = rcv[wpkt.conn] + 1
    BY <1>0, <1>n, <2>1 DEF OrderInv, ChunkInv
  <2> QED
    BY <1>3, <2>2, <2>3 DEF Expected, Awaited
<1>4. CASE wpkt.cmd = "DESTROY"
  <2>1. srv[wpkt.conn] \in {"open", "closing"}
    BY <1>0, <1>n, <1>4 DEF OrderInv, AcceptInv, Accepted
  <2>2. rcv[wpkt.conn] = up[wpkt.conn] \/ Done
    <3>1. wpkt.conn \in Conns /\ Quiet(wpkt.conn)
      BY <1>0, <1>4 DEF IInv, LastFrame, ToServer
    <3>2. \A k \in Slots : ~IsData(Slot(k), wpkt.conn)
      BY <1>0, <1>n, <1>4 DEF OrderInv, LastInv, IsData
    <3>3. Enqueued(wpkt.conn) = up[wpkt.conn]
      BY <3>1 DEF Enqueued, Quiet
    <3> QED
      BY <3>1, <3>2, <3>3 DEF OrderInv, WholeInv
  <2> QED
    BY <1>4, <2>1, <2>2 DEF Expected, Awaited
<1> QED
  BY <1>0, <1>1, <1>2, <1>3, <1>4 DEF ToServer

\* What the server makes of the frame it receives.
LEMMA ReceivesHead ==
  ASSUME IInv, OrderInv, WriterSend
  PROVE  /\ wpkt \in ToServer
         /\ wpkt.cmd \in {"KEEPALIVE", "RENEW"} => UNCHANGED <<srv, rcv>>
         /\ wpkt.cmd \in {"OK", "FAIL", "DESTROY"} =>
              /\ wpkt.conn \in Conns /\ rcv' = rcv
              /\ srv' = [srv EXCEPT ![wpkt.conn] = IF wpkt.cmd = "OK" THEN "open" ELSE "ended"]
         /\ wpkt.cmd = "DATA" =>
              /\ wpkt.conn \in Conns /\ srv' = srv
              /\ rcv' = [rcv EXCEPT ![wpkt.conn] = wpkt.n]
<1>1. wpkt \in ToServer /\ writer = "writing" /\ Receives(wpkt)
  BY DEF IInv, TypeOK, PipeType, WriterSend
<1>2. Expected(wpkt)
  BY <1>1, HeadExpected
<1>3. wpkt.cmd \in {"KEEPALIVE", "RENEW"} \/ (wpkt.conn \in Conns /\ Awaited(wpkt))
  BY <1>1, <1>2 DEF Expected, ToServer
<1>4. wpkt.cmd \in {"KEEPALIVE", "RENEW"} => ~Awaited(wpkt)
  BY DEF Awaited
<1>5. CASE wpkt.cmd \in {"KEEPALIVE", "RENEW"}
  BY <1>1, <1>4, <1>5 DEF Receives
<1>6. CASE wpkt.cmd \in {"OK", "FAIL", "DESTROY"}
  BY <1>1, <1>3, <1>6 DEF Receives
<1>7. CASE wpkt.cmd = "DATA"
  BY <1>1, <1>3, <1>7 DEF Receives
<1> QED
  BY <1>1, <1>5, <1>6, <1>7 DEF ToServer

LEMMA OrderSends ==
  ASSUME IInv, TypeOK', OrderInv, WriterSend
  PROVE  OrderInv'
<1> DEFINE f == wpkt
<1>0. TypeOK
  BY DEF IInv
<1>1. /\ Slots' = Slots /\ Slots \subseteq Nat /\ 0 \in Slots /\ Slot(0) = f
      /\ \A k \in Slots \ {0} : Slot(k)' = Slot(k) /\ 0 < k
      /\ Slot(0)' = NoFrame /\ NoFrame.conn = NoConn /\ NoFrame.cmd = "NONE"
      /\ NoConn \notin Conns
  BY <1>0, SlotsSend, TunnelAssumption
<1>2. \A k \in Slots : Slot(k).cmd \in {"OK", "FAIL", "DATA", "DESTROY"} =>
                        Slot(k).conn \in Conns /\ Slot(k).n \in Nat
  BY <1>0, SlotTypes
<1>3. UNCHANGED <<queue, pc, up, main>>
  BY DEF WriterSend, mainVars, destVars
<1>4. \A c : Enqueued(c)' = Enqueued(c) /\ Done' = Done
  BY <1>3 DEF Enqueued, Done
<1>5. \A c \in Conns : Enqueued(c) \in Int /\ rcv[c] \in Nat
  BY <1>0 DEF Enqueued, TypeOK, ConnType, ServerType
<1>6. \A c \in Conns :
        /\ srv'[c] # srv[c] => /\ c = f.conn /\ f.cmd \in {"OK", "FAIL", "DESTROY"}
                               /\ srv'[c] = IF f.cmd = "OK" THEN "open" ELSE "ended"
        /\ c = f.conn /\ f.cmd = "OK" => srv'[c] = "open"
        /\ rcv'[c] = IF IsData(f, c) THEN f.n ELSE rcv[c]
  BY <1>0, ReceivesHead DEF TypeOK, ServerType, IsData, ToServer
<1> HIDE DEF f
<1>7. AnswerInv'
  <2>1. SUFFICES ASSUME NEW k \in Slots \ {0}, Slot(k).cmd \in {"OK", "FAIL"}
                 PROVE  /\ srv'[Slot(k).conn] = "requested"
                        /\ \A j \in Slots : j < k => Slot(j)'.conn # Slot(k).conn
    BY <1>1 DEF AnswerInv
  <2>2. Slot(k).conn \in Conns /\ Slot(k).conn # f.conn
    BY <1>1, <1>2, <2>1 DEF OrderInv, AnswerInv
  <2> QED
    BY <1>1, <1>6, <2>1, <2>2 DEF OrderInv, AnswerInv
<1>8. AcceptInv'
  <2>1. ASSUME NEW c \in Conns, NEW k, Accepted(c, k),
               c = f.conn => f.cmd \notin {"FAIL", "DESTROY"}
        PROVE  Accepted(c, k)'
    <3>1. CASE srv[c] \in {"open", "closing"}
      BY <1>6, <2>1, <3>1 DEF Accepted
    <3>2. CASE \E j \in Slots : j < k /\ Slot(j) = Frame("OK", c, 0)
      <4>1. PICK j \in Slots : j < k /\ Slot(j) = Frame("OK", c, 0)
        BY <3>2
      <4>2. CASE j = 0
        BY <1>1, <1>6, <4>1, <4>2 DEF Accepted, Frame
      <4>3. CASE j # 0
        BY <1>1, <4>1, <4>3 DEF Accepted, Frame
      <4> QED
        BY <4>2, <4>3
    <3> QED
      BY <2>1, <3>1, <3>2 DEF Accepted
  <2>2. ASSUME NEW k \in Slots', Slot(k)'.cmd \in {"DATA", "DESTROY"},
               NEW c, c = Slot(k)'.conn
        PROVE  Accepted(c, k)'
    <3>1. k # 0 /\ k \in Slots /\ Slot(k)' = Slot(k)
      BY <1>1, <2>2
    <3>2. Accepted(c, k) /\ c \in Conns
      BY <1>2, <2>2, <3>1 DEF OrderInv, AcceptInv
    <3>3. c = f.conn => f.cmd \notin {"FAIL", "DESTROY"}
      BY <1>1, <2>2, <3>1 DEF OrderInv, LastInv
    <3> QED
      BY <2>1, <3>2, <3>3
  <2>3. ASSUME NEW c \in Conns, pc[c] \in Serving
        PROVE  Accepted(c, Len(queue) + 1)'
    <3>1. Accepted(c, Len(queue) + 1)
      BY <2>3 DEF OrderInv, AcceptInv
    <3>2. c = f.conn => f.cmd \notin {"FAIL", "DESTROY"}
      <4>1. f \in Pipe
        BY DEF Pipe, f
      <4> QED
        BY <2>3, <4>1 DEF IInv, LastFrame, Quiet, Serving
    <3>3. PICK m : m = Len(queue) + 1
      OBVIOUS
    <3>4. Accepted(c, m)'
      BY <2>1, <3>1, <3>2, <3>3
    <3> QED
      BY <1>3, <3>3, <3>4 DEF Accepted
  <2> QED
    BY <1>1, <1>3, <2>2, <2>3 DEF AcceptInv, Accepted
<1>9. LastInv'
  <2>1. SUFFICES ASSUME NEW j \in Slots, NEW k \in Slots, j < k, j # 0, k # 0,
                        Slot(j).cmd \in {"FAIL", "DESTROY"}
                 PROVE  Slot(k).conn # Slot(j).conn
    BY <1>1 DEF LastInv
  <2> QED
    BY <2>1 DEF OrderInv, LastInv
<1>10. ChunkInv'
  <2>1. SUFFICES ASSUME NEW k \in Slots', NEW c \in Conns, IsData(Slot(k)', c)
                 PROVE  /\ rcv'[c] < Slot(k)'.n /\ Slot(k)'.n <= Enqueued(c)
                        /\ \/ Slot(k)'.n = rcv'[c] + 1
                           \/ \E j \in Slots' : /\ j < k /\ IsData(Slot(j)', c)
                                                /\ Slot(j)'.n + 1 = Slot(k)'.n
                        /\ \A j \in Slots' : j < k /\ IsData(Slot(j)', c) =>
                                             Slot(j)'.n < Slot(k)'.n
    BY <1>4 DEF ChunkInv, IsData
  <2>2. k # 0 /\ k \in Slots /\ Slot(k)' = Slot(k) /\ IsData(Slot(k), c) /\ 0 < k
    BY <1>1, <2>1 DEF IsData
  <2>3. /\ rcv[c] < Slot(k).n /\ Slot(k).n <= Enqueued(c)
        /\ \/ Slot(k).n = rcv[c] + 1
           \/ \E j \in Slots : j < k /\ IsData(Slot(j), c) /\ Slot(j).n + 1 = Slot(k).n
        /\ \A j \in Slots : j < k /\ IsData(Slot(j), c) => Slot(j).n < Slot(k).n
    BY <2>2 DEF OrderInv, ChunkInv
  <2>4. \A j \in Slots : j < k /\ IsData(Slot(j)', c) => Slot(j)'.n < Slot(k).n
    BY <1>1, <2>3 DEF IsData
  <2>5. CASE IsData(f, c)
    <3>1. rcv'[c] = f.n /\ rcv[c] < f.n /\ f.n < Slot(k).n
      BY <1>1, <1>6, <2>2, <2>3, <2>5 DEF OrderInv, ChunkInv
    <3>2. f.n \in Nat /\ Slot(k).n \in Nat
      BY <1>1, <1>2, <2>2, <2>5 DEF IsData
    <3>3. PICK j \in Slots : j < k /\ IsData(Slot(j), c) /\ Slot(j).n + 1 = Slot(k).n
      BY <1>5, <2>3, <3>1, <3>2
    <3>4. Slot(k).n = rcv'[c] + 1 \/ (IsData(Slot(j)', c) /\ Slot(j)' = Slot(j))
      BY <1>1, <3>1, <3>3
    <3> QED
      BY <1>1, <2>2, <2>3, <2>4, <3>1, <3>3, <3>4
  <2>6. CASE ~IsData(f, c)
    <3>1. rcv'[c] = rcv[c] /\ \A j \in Slots : IsData(Slot(j), c) => Slot(j)' = Slot(j)
      BY <1>1, <1>6, <2>6
    <3> QED
      BY <1>1, <2>2, <2>3, <2>4, <3>1
  <2> QED
    BY <2>5, <2>6
<1>11. WholeInv'
  <2>1. SUFFICES ASSUME NEW c \in Conns, ~Done \/ pc[c] \notin Ending
                 PROVE  \/ Enqueued(c) = rcv'[c]
                        \/ \E k \in Slots : IsData(Slot(k)', c) /\ Slot(k)'.n = Enqueued(c)
    BY <1>1, <1>3, <1>4 DEF WholeInv, IsData
  <2>2. \/ Enqueued(c) = rcv[c]
        \/ \E k \in Slots : IsData(Slot(k), c) /\ Slot(k).n = Enqueued(c)
    BY <2>1 DEF OrderInv, WholeInv
  <2>3. CASE IsData(f, c)
    <3>1. rcv'[c] = f.n /\ rcv[c] < f.n /\ f.n <= Enqueued(c) /\ f.n \in Nat
      BY <1>1, <1>2, <1>6, <2>3 DEF OrderInv, ChunkInv, IsData
    <3>2. PICK k \in Slots : IsData(Slot(k), c) /\ Slot(k).n = Enqueued(c)
      BY <1>5, <2>2, <3>1
    <3>3. CASE k = 0
      BY <1>1, <3>1, <3>2, <3>3
    <3>4. CASE k # 0
      <4>1. Slot(k)' = Slot(k)
        BY <1>1, <3>4
      <4> QED
        BY <3>2, <4>1
    <3> QED
      BY <3>3, <3>4
  <2>4. CASE ~IsData(f, c)
    BY <1>1, <1>6, <2>2, <2>4
  <2> QED
    BY <2>3, <2>4
<1> QED
  BY <1>7, <1>8, <1>9, <1>10, <1>11 DEF OrderInv

-----------------------------------------------------------------------------
(* The invariant *)

LEMMA PendingKeeps ==
  ASSUME PendingInv,
         \A c \in Conns : srv[c] = "requested" /\ (\A f \in Pipe : f.conn # c) =>
                             srv'[c] = "requested",
         \A c \in Conns : pc'[c] \in Answering => pc[c] \in Answering \/ Unanswered(c),
         \A f \in Pipe' : \/ f \in Pipe
                          \/ \A c \in Conns : f.conn = c => pc'[c] \notin Answering
  PROVE  PendingInv'
<1>1. SUFFICES ASSUME NEW c \in Conns, pc'[c] \in Answering
               PROVE  srv'[c] = "requested" /\ \A f \in Pipe' : f.conn # c
  BY DEF PendingInv
<1>2. srv[c] = "requested" /\ \A f \in Pipe : f.conn # c
  BY <1>1 DEF PendingInv, Unanswered
<1> QED
  BY <1>1, <1>2

\* A step that leaves the frames on their way alone.
LEMMA WiredStays ==
  ASSUME WireInv, TypeOK', UNCHANGED <<queue, wpkt, writer, rcv>>,
         Live' => Live, Done => Done',
         \A c \in Conns : \/ srv'[c] = srv[c]
                          \/ srv[c] = "idle" /\ srv'[c] = "requested"
                          \/ srv[c] = "open" /\ srv'[c] = "closing",
         \A c \in Conns : /\ pc'[c] \in Answering => pc[c] \in Answering \/ Unanswered(c)
                          /\ pc'[c] \in Serving => pc[c] \in Serving
                          /\ pc'[c] \notin Ending => pc[c] \notin Ending
                          /\ Enqueued(c) <= Enqueued(c)'
                          /\ ~Done \/ pc'[c] \notin Ending => Enqueued(c)' = Enqueued(c)
  PROVE  Wired'
<1>1. Pipe' = Pipe
  BY SlotsSame
<1>2. WriterInv'
  BY DEF WireInv, Wired, WriterInv
<1>3. PendingInv'
  BY <1>1, PendingKeeps DEF WireInv, Wired
<1>4. ASSUME Live' PROVE OrderInv'
  BY <1>4, OrderStays DEF WireInv, Wired, IInv
<1> QED
  BY <1>2, <1>3, <1>4 DEF Wired

LEMMA ServerWired ==
  ASSUME WireInv, Server
  PROVE  Wired'
<1>0. TypeOK /\ TypeOK'
  BY ServerTypeOK DEF WireInv, IInv
<1>1. UNCHANGED <<queue, wpkt, writer, rcv, main, pc, up>>
  BY DEF Server, SrvCreate, SrvData, SrvDestroy, SrvControl, LinkDown, Sends,
     mainVars, writerVars, destVars, serverVars
<1>2. Live' => Live
  BY <1>1 DEF Live, Server, SrvCreate, SrvData, SrvDestroy, SrvControl, LinkDown, Sends
<1>3. \A c \in Conns : \/ srv'[c] = srv[c]
                       \/ srv[c] = "idle" /\ srv'[c] = "requested"
                       \/ srv[c] = "open" /\ srv'[c] = "closing"
  BY <1>0 DEF Server, SrvCreate, SrvData, SrvDestroy, SrvControl, LinkDown, serverVars,
     TypeOK, ServerType
<1>4. \A c \in Conns : Enqueued(c)' = Enqueued(c) /\ Enqueued(c) \in Int
  BY <1>0, <1>1 DEF Enqueued, TypeOK, ConnType
<1> QED
  BY <1>0, <1>1, <1>2, <1>3, <1>4, WiredStays DEF Done

\* The read loop sends nothing but its refusals.
LEMMA RunWired ==
  ASSUME WireInv, Run, ~Deny
  PROVE  Wired'
<1>0. TypeOK /\ TypeOK'
  BY RunTypeOK DEF WireInv, IInv
<1>1. UNCHANGED <<queue, wpkt, writer, rcv, srv, up, link>>
  BY DEF Run, HandlePacket, HandleCreate, HandleDestroy, HandleData, HandleNoise, HandleStop,
     DoClose, Deliver, ReadError, CloseDests, HangUp, Takes, writerVars, destVars, serverVars
<1>2. (Done => Done') /\ (Live' => Live)
  BY <1>1
  DEF Run, HandlePacket, HandleCreate, HandleDestroy, HandleData, HandleNoise, HandleStop,
     DoClose, Deliver, ReadError, CloseDests, HangUp, Takes, mainVars, Done, Live
<1>3. \A c \in Conns : pc'[c] = pc[c] \/ (pc'[c] = "dialing" /\ Unanswered(c))
  <2>1. CASE HandleCreate
    <3>1. /\ inbox[1].cmd = "CREATE" /\ 1 \in 1..Len(inbox)
          /\ pc' = pc \/ pc' = [pc EXCEPT ![inbox[1].conn] = "dialing"]
      BY <1>0, <2>1 DEF HandleCreate, Takes, TypeOK, ServerType
    <3>2. Unanswered(inbox[1].conn)
      BY <3>1 DEF WireInv, IInv, CreateInv
    <3> QED
      BY <1>0, <3>1, <3>2 DEF TypeOK, ConnType
  <2>2. CASE ~HandleCreate
    BY <2>2
    DEF Run, HandlePacket, HandleDestroy, HandleData, HandleNoise, HandleStop, DoClose,
       Deliver, ReadError, CloseDests, HangUp, destVars
  <2> QED
    BY <2>1, <2>2
<1>4. \A c \in Conns : Enqueued(c)' = Enqueued(c) /\ Enqueued(c) \in Int
  BY <1>0, <1>1, <1>3 DEF Enqueued, TypeOK, ConnType, Unanswered
<1>5. \A c \in Conns : /\ pc'[c] \in Answering => pc[c] \in Answering \/ Unanswered(c)
                       /\ pc'[c] \in Serving => pc[c] \in Serving
                       /\ pc'[c] \notin Ending => pc[c] \notin Ending
                       /\ Enqueued(c) <= Enqueued(c)'
  BY <1>3, <1>4 DEF Answering, Serving, Ending, Unanswered
<1> QED
  BY <1>0, <1>1, <1>2, <1>4, <1>5, WiredStays

\* A step that puts a frame in the queue.
LEMMA WiredAppends ==
  ASSUME WireInv, TypeOK', NEW f \in ToServer, Enqueue(f),
         UNCHANGED <<wpkt, writer, srv, rcv>>, Done' = Done, Live' => Live,
         f.cmd \in {"OK", "FAIL"} => /\ srv[f.conn] = "requested"
                                    /\ \A g \in Pipe : g.conn # f.conn,
         f.cmd \in {"DATA", "DESTROY"} => pc[f.conn] \in Serving,
         f.conn \in Conns => ~Quiet(f.conn) \/ \A g \in Pipe : g.conn # f.conn,
         \A c \in Conns : /\ pc'[c] \in Answering => pc[c] \in Answering /\ f.conn # c
                          /\ pc'[c] \in Serving => pc[c] \in Serving \/ f = Frame("OK", c, 0)
                          /\ pc'[c] \notin Ending => pc[c] \notin Ending
                          /\ IF IsData(f, c)
                             THEN /\ f.n = Enqueued(c) + 1 /\ Enqueued(c)' = f.n
                                  /\ pc[c] = "forwarding"
                             ELSE Enqueued(c)' = Enqueued(c)
  PROVE  Wired'
<1>0. TypeOK
  BY DEF WireInv, IInv
<1>1. Pipe' = Pipe \cup {f}
  BY <1>0, PipeEnqueue
<1>2. WriterInv'
  BY DEF WireInv, Wired, WriterInv
<1>3. PendingInv'
  BY <1>1, PendingKeeps DEF WireInv, Wired
<1>4. ASSUME Live' PROVE OrderInv'
  <2>1. OrderInv
    BY <1>4 DEF Live, WireInv, Wired
  <2>2. /\ \A k \in Slots : Slot(k) \in Pipe
        /\ f.cmd \in {"OK", "FAIL", "DATA", "DESTROY"} => f.conn \in Conns
    BY <1>0, SlotTypes
  <2>3. f.cmd \in {"DATA", "DESTROY"} => Accepted(f.conn, Len(queue) + 1)
    BY <2>1, <2>2 DEF OrderInv, AcceptInv
  <2>4. ASSUME NEW k \in Slots, Slot(k).cmd \in {"FAIL", "DESTROY"}
        PROVE  Slot(k).conn # f.conn
    <3>1. Slot(k).conn \in Conns /\ Quiet(Slot(k).conn)
      BY <1>0, <2>2, <2>4, PipeFrames DEF WireInv, IInv, LastFrame
    <3> QED
      BY <2>2, <3>1
  <2> QED
    BY <1>0, <2>1, <2>2, <2>3, <2>4, OrderAppends
<1> QED
  BY <1>2, <1>3, <1>4 DEF Wired

LEMMA DenyWired ==
  ASSUME WireInv, Deny
  PROVE  Wired'
<1> DEFINE f == Frame("FAIL", hand.conn, 0)
<1>0. /\ TypeOK /\ TypeOK' /\ hand.conn \in Conns
      /\ UNCHANGED <<wpkt, writer, srv, rcv, link, pc, up>>
      /\ main = "denying" /\ main' = "reading" /\ Enqueue(f)
  BY RunTypeOK
  DEF WireInv, IInv, Run, HandlePacket, Deny, writerVars, destVars, serverVars, TypeOK, MainType
<1>1. f \in ToServer /\ f.conn = hand.conn /\ f.cmd = "FAIL"
  BY <1>0, FrameToServer DEF Frame
<1>2. Unanswered(f.conn)
  BY <1>0, <1>1 DEF WireInv, IInv, CreateInv
<1>3. srv[f.conn] = "requested" /\ pc[f.conn] = "none" /\ \A g \in Pipe : g.conn # f.conn
  BY <1>2 DEF Unanswered
<1>4. f \notin {Frame("OK", c, 0) : c \in Conns} /\ \A c : ~IsData(f, c)
  BY <1>1 DEF Frame, IsData
<1>5. \A c : Enqueued(c)' = Enqueued(c)
  BY <1>0 DEF Enqueued
<1>7. Done' = Done /\ (Live' => Live)
  BY <1>0 DEF Done, Live
<1> HIDE DEF f
<1>6. \A c \in Conns : pc'[c] \in Answering => f.conn # c
  BY <1>0, <1>3 DEF Answering
<1> QED
  BY <1>0, <1>1, <1>3, <1>4, <1>5, <1>6, <1>7, WiredAppends

\* The goroutine of c sends a frame.
LEMMA GoroutineSends ==
  ASSUME WireInv, TypeOK', NEW c \in Conns, NEW f \in ToServer, f.conn = c, Enqueue(f),
         OthersUnchanged, up' = up, NEW to, pc' = [pc EXCEPT ![c] = to],
         \/ f.cmd = "FAIL" /\ pc[c] = "refusing" /\ to = "finished"
         \/ f = Frame("OK", c, 0) /\ pc[c] = "answering" /\ to = "registering"
         \/ f.cmd = "DATA" /\ f.n = up[c] /\ pc[c] = "forwarding" /\ to = "reading"
         \/ f.cmd = "DESTROY" /\ pc[c] = "reporting" /\ to = "removing"
  PROVE  Wired'
<1>0. /\ DOMAIN pc = Conns /\ up[c] \in Nat
      /\ pc'[c] = to /\ \A b \in Conns : b # c => pc'[b] = pc[b]
  BY DEF WireInv, IInv, TypeOK, ConnType
<1>1. UNCHANGED <<wpkt, writer, srv, rcv>> /\ Done' = Done /\ (Live' => Live)
  BY DEF OthersUnchanged, mainVars, writerVars, serverVars, Done, Live
<1>2. f.cmd = "OK" <=> f = Frame("OK", c, 0)
  BY DEF Frame
<1>3. ~Quiet(c) /\ to \notin Answering
  BY DEF Quiet, Answering
<1>4. f.cmd \in {"OK", "FAIL"} => srv[c] = "requested" /\ \A g \in Pipe : g.conn # c
  BY <1>2 DEF WireInv, Wired, PendingInv, Answering
<1>5. f.cmd \in {"DATA", "DESTROY"} => pc[c] \in Serving
  BY <1>2 DEF Serving
<1>6. \A b \in Conns : b # c => ~IsData(f, b) /\ Enqueued(b)' = Enqueued(b)
  BY <1>0 DEF IsData, Enqueued
<1>7. IF IsData(f, c) THEN /\ f.n = Enqueued(c) + 1 /\ Enqueued(c)' = f.n
                           /\ pc[c] = "forwarding"
                      ELSE Enqueued(c)' = Enqueued(c)
  BY <1>0, <1>2 DEF IsData, Enqueued
<1>8. /\ to \in Serving => pc[c] \in Serving \/ f = Frame("OK", c, 0)
      /\ to \notin Ending => pc[c] \notin Ending
  BY DEF Serving, Ending
<1> QED
  BY <1>0, <1>1, <1>3, <1>4, <1>5, <1>6, <1>7, <1>8, WiredAppends

\* The goroutine of c, or its destination, goes on without sending.
LEMMA GoroutineMoves ==
  ASSUME WireInv, TypeOK', NEW c \in Conns, OthersUnchanged, queue' = queue,
         \A b \in Conns : b # c => pc'[b] = pc[b] /\ up'[b] = up[b],
         \/ pc'[c] = pc[c] /\ up'[c] = up[c]
         \/ pc[c] = "dialing" /\ pc'[c] \in {"refusing", "answering"} /\ up'[c] = up[c]
         \/ pc[c] = "registering" /\ pc'[c] = "reading" /\ up'[c] = up[c]
         \/ pc[c] = "reading" /\ pc'[c] = "forwarding" /\ up'[c] = up[c] + 1
         \/ pc[c] = "reading" /\ pc'[c] = "reporting" /\ up'[c] = up[c]
         \/ pc[c] = "removing" /\ pc'[c] = "finished" /\ up'[c] = up[c]
         \/ Done /\ pc[c] = "forwarding" /\ pc'[c] = "reporting" /\ up'[c] = up[c]
         \/ Done /\ pc[c] \in {"refusing", "answering", "reporting"}
               /\ pc'[c] \in {"finished", "removing"} /\ up'[c] = up[c]
  PROVE  Wired'
<1>1. UNCHANGED <<queue, wpkt, writer, srv, rcv>> /\ Done' = Done /\ (Live' => Live)
  BY DEF OthersUnchanged, mainVars, writerVars, serverVars, Done, Live
<1>2. \A b \in Conns : up[b] \in Nat /\ Enqueued(b) \in Int
  BY DEF WireInv, IInv, TypeOK, ConnType, Enqueued
<1>3. \A b \in Conns : b # c => Enqueued(b)' = Enqueued(b)
  BY DEF Enqueued
<1>4. /\ Enqueued(c) <= Enqueued(c)'
      /\ ~Done \/ pc'[c] \notin Ending => Enqueued(c)' = Enqueued(c)
  BY <1>2 DEF Enqueued, Ending
<1>5. /\ pc'[c] \in Answering => pc[c] \in Answering
      /\ pc'[c] \in Serving => pc[c] \in Serving
      /\ pc'[c] \notin Ending => pc[c] \notin Ending
  BY DEF Answering, Serving, Ending
<1> QED
  BY <1>1, <1>2, <1>3, <1>4, <1>5, WiredStays

LEMMA GoroutineWired ==
  ASSUME WireInv, NEW c \in Conns, Goroutine(c) \/ Destination(c)
  PROVE  Wired'
<1>0. TypeOK /\ TypeOK' /\ OthersUnchanged
  BY GoroutineTypeOK
  DEF WireInv, IInv, Goroutine, Destination, Dial, Refuse, Answer, Register, ReadChunk,
      Forward, ReadFails, Report, Remove, DestCloses
<1>t. DOMAIN pc = Conns /\ DOMAIN up = Conns /\ up[c] \in Nat
  BY <1>0 DEF TypeOK, ConnType
<1>1. CASE Refuse(c) /\ Enqueue(Frame("FAIL", c, 0))
  <2>1. up' = up /\ pc[c] = "refusing" /\ pc' = [pc EXCEPT ![c] = "finished"]
    BY <1>1 DEF Refuse
  <2> QED
    <3> DEFINE f == Frame("FAIL", c, 0)
    <3>1. f \in ToServer /\ f.conn = c /\ f.cmd = "FAIL" /\ Enqueue(f)
      BY <1>0, <1>1, FrameToServer DEF Frame
    <3> HIDE DEF f
    <3> QED
      BY <1>0, <2>1, <3>1, GoroutineSends
<1>2. CASE Answer(c) /\ Enqueue(Frame("OK", c, 0)) /\ pc' = [pc EXCEPT ![c] = "registering"]
  BY <1>0, <1>2, FrameToServer, GoroutineSends DEF Answer, Frame
<1>3. CASE Forward(c) /\ Enqueue(Frame("DATA", c, up[c])) /\ pc' = [pc EXCEPT ![c] = "reading"]
  BY <1>0, <1>t, <1>3, FrameToServer, GoroutineSends DEF Forward, Frame
<1>4. CASE Report(c) /\ Enqueue(Frame("DESTROY", c, 0))
  <2>1. up' = up /\ pc[c] = "reporting" /\ pc' = [pc EXCEPT ![c] = "removing"]
    BY <1>4 DEF Report
  <2> QED
    <3> DEFINE f == Frame("DESTROY", c, 0)
    <3>1. f \in ToServer /\ f.conn = c /\ f.cmd = "DESTROY" /\ Enqueue(f)
      BY <1>0, <1>4, FrameToServer DEF Frame
    <3> HIDE DEF f
    <3> QED
      BY <1>0, <2>1, <3>1, GoroutineSends
<1>5. CASE Dial(c) \/ Register(c) \/ ReadFails(c) \/ Remove(c) \/ DestCloses(c) \/ ReadChunk(c)
  <2>1. CASE Dial(c)
    BY <1>0, <1>t, <2>1, GoroutineMoves DEF Dial
  <2>2. CASE Register(c)
    BY <1>0, <1>t, <2>2, GoroutineMoves DEF Register
  <2>3. CASE ReadFails(c)
    BY <1>0, <1>t, <2>3, GoroutineMoves DEF ReadFails
  <2>4. CASE Remove(c)
    BY <1>0, <1>t, <2>4, GoroutineMoves DEF Remove
  <2>5. CASE DestCloses(c)
    BY <1>0, <1>t, <2>5, GoroutineMoves DEF DestCloses
  <2>6. CASE ReadChunk(c)
    BY <1>0, <1>t, <2>6, GoroutineMoves DEF ReadChunk
  <2> QED
    BY <1>5, <2>1, <2>2, <2>3, <2>4, <2>5, <2>6
<1>6. CASE (Refuse(c) \/ Report(c)) /\ Done /\ queue' = queue
  BY <1>0, <1>t, <1>6, GoroutineMoves DEF Refuse, Report
<1>7. CASE Answer(c) /\ Done /\ queue' = queue /\ pc' = [pc EXCEPT ![c] = "finished"]
  BY <1>0, <1>t, <1>7, GoroutineMoves DEF Answer
<1>8. CASE Forward(c) /\ Done /\ queue' = queue /\ pc' = [pc EXCEPT ![c] = "reporting"]
  BY <1>0, <1>t, <1>8, GoroutineMoves DEF Forward
<1> QED
  BY <1>1, <1>2, <1>3, <1>4, <1>5, <1>6, <1>7, <1>8
  DEF Goroutine, Destination, Refuse, Answer, Forward, Report

LEMMA LoopWired ==
  ASSUME WireInv, WriteLoop \/ KeepaliveLoop
  PROVE  Wired'
<1>0. TypeOK /\ TypeOK' /\ WriterInv /\ PendingInv
  BY LoopTypeOK DEF WireInv, Wired, IInv
<1>1. UNCHANGED <<main, pc, up, link>> /\ (\A c : Enqueued(c)' = Enqueued(c))
  BY DEF WriteLoop, KeepaliveLoop, WriterTake, WriterSend, WriterFail, WriterStop, KeeperTick,
     KeeperSend, KeeperStop, mainVars, destVars, Enqueued
<1>2. Done' = Done /\ Live' = Live
  BY <1>1 DEF Done, Live
<1>3. CASE WriterTake
  <2>1. WriterInv' /\ Pipe' \subseteq Pipe /\ srv' = srv
    BY <1>0, <1>3, PipeTake DEF WriterTake, WriterInv, serverVars
  <2>2. PendingInv'
    BY <1>0, <1>1, <2>1, PendingKeeps
  <2> QED
    BY <1>0, <1>2, <1>3, <2>1, <2>2, OrderTakes DEF WireInv, Wired
<1>4. CASE WriterSend
  <2>1. WriterInv' /\ Pipe' \subseteq Pipe \cup {NoFrame} /\ NoFrame.conn \notin Conns
    BY <1>4, PipeDrop, TunnelAssumption DEF WriterSend, WriterInv, NoFrame, Frame
  <2>2. Live /\ Live'
    BY <1>2, <1>4 DEF WriterSend, Live
  <2>3. OrderInv
    BY <2>2 DEF WireInv, Wired
  <2>4. \A c \in Conns : (\A f \in Pipe : f.conn # c) => srv'[c] = srv[c]
    <3>1. wpkt \in Pipe
      BY DEF Pipe
    <3> QED
      BY <1>0, <1>4, <2>3, <3>1, ReceivesHead DEF WireInv, TypeOK, ServerType, ToServer
  <2>5. PendingInv'
    BY <1>0, <1>1, <2>1, <2>4, PendingKeeps
  <2> QED
    BY <1>0, <1>4, <2>1, <2>3, <2>5, OrderSends DEF WireInv, Wired
<1>5. CASE WriterFail
  <2>1. WriterInv' /\ Pipe' \subseteq Pipe \cup {NoFrame} /\ NoFrame.conn \notin Conns
        /\ srv' = srv /\ ~Live
    BY <1>5, PipeDrop, TunnelAssumption
    DEF WriterFail, WriterInv, NoFrame, Frame, Live, serverVars
  <2>2. PendingInv'
    BY <1>0, <1>1, <2>1, PendingKeeps
  <2> QED
    BY <1>2, <2>1, <2>2 DEF Wired
<1>6. CASE KeeperSend
  <2> DEFINE f == Frame("KEEPALIVE", NoConn, 0)
  <2>1. f \in ToServer /\ f.cmd = "KEEPALIVE" /\ f.conn = NoConn /\ NoConn \notin Conns
    BY TunnelAssumption DEF Frame, ToServer
  <2>2. Enqueue(f) /\ UNCHANGED <<wpkt, writer, srv, rcv>>
    BY <1>6 DEF KeeperSend, writerVars, serverVars
  <2> HIDE DEF f
  <2> QED
    BY <1>0, <1>1, <1>2, <2>1, <2>2, WiredAppends DEF IsData
<1>7. CASE WriterStop \/ KeeperTick \/ KeeperStop
  <2>1. UNCHANGED <<queue, wpkt, srv, rcv>> /\ WriterInv'
    BY <1>0, <1>7 DEF WriterStop, KeeperTick, KeeperStop, WriterInv, writerVars, serverVars
  <2>2. Pipe' = Pipe
    BY <2>1, SlotsSame
  <2>3. PendingInv'
    BY <1>0, <1>1, <2>1, <2>2, PendingKeeps
  <2>4. \A c \in Conns : Enqueued(c) \in Int
    BY <1>0 DEF Enqueued, TypeOK, ConnType
  <2>5. ASSUME Live' PROVE OrderInv'
    BY <1>0, <1>1, <1>2, <2>1, <2>4, <2>5, OrderStays DEF WireInv, Wired
  <2> QED
    BY <2>1, <2>3, <2>5 DEF Wired
<1> QED
  BY <1>3, <1>4, <1>5, <1>6, <1>7 DEF WriteLoop, KeepaliveLoop

LEMMA InitWire == Init => WireInv
<1> SUFFICES ASSUME Init PROVE WireInv
  OBVIOUS
<1>1. IInv /\ TypeOK
  BY InitIInv DEF IInv
<1>2. \A k \in Slots : Slot(k).conn = NoConn /\ Slot(k).cmd \in {"RENEW", "NONE"}
  <2>1. \A f \in Pipe : f.conn = NoConn /\ f.cmd \in {"RENEW", "NONE"}
    BY DEF Init, Pipe, Frame, NoFrame
  <2> QED
    BY <1>1, <2>1, SlotTypes
<1>3. WriterInv /\ PendingInv
  BY DEF Init, WriterInv, PendingInv, Answering
<1>4. AnswerInv /\ AcceptInv /\ LastInv /\ ChunkInv
  BY <1>2 DEF Init, AnswerInv, AcceptInv, LastInv, ChunkInv, IsData, Serving
<1>5. WholeInv
  BY DEF Init, WholeInv, Enqueued
<1> QED
  BY <1>1, <1>3, <1>4, <1>5 DEF WireInv, Wired, OrderInv

LEMMA NextWire == WireInv /\ [Next]_vars => WireInv'
<1> SUFFICES ASSUME WireInv, [Next]_vars PROVE WireInv'
  OBVIOUS
<1>1. IInv /\ IInv'
  BY NextIInv DEF WireInv
<1>2. CASE UNCHANGED vars
  <2>1. UNCHANGED <<queue, writer, wpkt, link, main, pc, up, srv, rcv>>
    BY <1>2 DEF vars, mainVars, writerVars, destVars, serverVars
  <2>2. \A c \in Conns : Enqueued(c)' = Enqueued(c) /\ Enqueued(c) \in Int
    BY <1>1, <2>1 DEF Enqueued, IInv, TypeOK, ConnType
  <2> QED
    BY <1>1, <2>1, <2>2, WiredStays DEF WireInv, IInv, Live, Done
<1>3. CASE Run
  BY <1>1, <1>3, RunWired, DenyWired DEF WireInv
<1>4. CASE Next
  BY <1>1, <1>3, <1>4, ServerWired, LoopWired, GoroutineWired DEF Next, WireInv
<1> QED
  BY <1>2, <1>4

\* The inductive invariant behind WireProtocol.
THEOREM WireInvariant == Spec => []WireInv
  BY InitWire, NextWire, PTL DEF Spec

\* On a live connection the server gets of each session one CREATE_RESPONSE,
\* every byte of the destination in order, and one DESTROY after the last, with
\* nothing of a session after its id was given away, whichever goroutines compete
\* for serverSend (server_conn.go:52, dest_conn.go:28-55).
THEOREM WireProtocolHolds == Spec => []WireProtocol
<1>1. WireInv => WireProtocol
  BY HeadExpected DEF WireInv, Wired, Live, WireProtocol
<1> QED
  BY <1>1, WireInvariant, PTL

-----------------------------------------------------------------------------
(* Registered *)

\* What is over stays over.
LEMMA EndedStays ==
  ASSUME IInv, Next
  PROVE  /\ Done => Done'
         /\ \A d \in Conns : srv[d] = "ended" => srv'[d] = "ended"
         /\ \A d \in Conns : pc[d] = "finished" => pc'[d] = "finished"
<1>0. TypeOK
  BY DEF IInv
<1>1. CASE Server
  BY <1>0, <1>1
  DEF Server, SrvCreate, SrvData, SrvDestroy, SrvControl, LinkDown, Sends, mainVars, destVars,
     serverVars, Done, TypeOK, ServerType
<1>2. CASE Run
  <2>1. srv' = srv /\ (Done => Done')
    BY <1>2
    DEF Run, HandlePacket, HandleCreate, HandleDestroy, HandleData, HandleNoise, HandleStop,
       Deny, DoClose, Deliver, ReadError, CloseDests, HangUp, Takes, mainVars, serverVars, Done
  <2>2. CASE HandleCreate
    <3>1. /\ inbox[1].cmd = "CREATE" /\ 1 \in 1..Len(inbox)
          /\ pc' = pc \/ pc' = [pc EXCEPT ![inbox[1].conn] = "dialing"]
      BY <1>0, <2>2 DEF HandleCreate, Takes, TypeOK, ServerType
    <3>2. pc[inbox[1].conn] = "none"
      BY <3>1 DEF IInv, CreateInv, Unanswered
    <3> QED
      BY <1>0, <2>1, <3>1, <3>2 DEF TypeOK, ConnType
  <2>3. CASE ~HandleCreate
    <3>1. pc' = pc
      BY <1>2, <2>3
      DEF Run, HandlePacket, HandleDestroy, HandleData, HandleNoise, HandleStop,
         Deny, DoClose, Deliver, ReadError, CloseDests, HangUp, destVars
    <3> QED
      BY <2>1, <3>1
  <2> QED
    BY <2>2, <2>3
<1>3. CASE WriteLoop \/ KeepaliveLoop
  <2>1. pc' = pc /\ main' = main
    BY <1>3 DEF WriteLoop, KeepaliveLoop, WriterTake, WriterSend, WriterFail, WriterStop,
       KeeperTick, KeeperSend, KeeperStop, mainVars, destVars
  <2>2. \A d \in Conns : srv[d] = "ended" => srv'[d] = "ended"
    <3>1. \/ srv' = srv
          \/ Awaited(wpkt) /\ srv' = [srv EXCEPT ![wpkt.conn] = srv'[wpkt.conn]]
      BY <1>0, <1>3 DEF TypeOK, ServerType, WriteLoop, KeepaliveLoop, WriterTake, WriterSend, Receives, WriterFail,
         WriterStop, KeeperTick, KeeperSend, KeeperStop, serverVars
    <3> QED
      BY <1>0, <3>1 DEF Awaited, TypeOK, ServerType
  <2> QED
    BY <2>1, <2>2 DEF Done
<1>4. ASSUME NEW c \in Conns, Goroutine(c) \/ Destination(c)
      PROVE  /\ Done => Done'
             /\ \A d \in Conns : srv[d] = "ended" => srv'[d] = "ended"
             /\ \A d \in Conns : pc[d] = "finished" => pc'[d] = "finished"
  <2>1. OthersUnchanged /\ (pc' = pc \/ pc[c] # "finished")
    BY <1>4 DEF Goroutine, Destination, Dial, Refuse, Answer, Register, ReadChunk, Forward,
       ReadFails, Report, Remove, DestCloses
  <2>2. \A d \in Conns : d # c => pc'[d] = pc[d]
    BY <1>0, <1>4 DEF Goroutine, Destination, Dial, Refuse, Answer, Register, ReadChunk,
       Forward, ReadFails, Report, Remove, DestCloses, TypeOK, ConnType
  <2> QED
    BY <2>1, <2>2 DEF OthersUnchanged, mainVars, serverVars, Done
<1> QED
  BY <1>1, <1>2, <1>3, <1>4 DEF Next

\* A session whose goroutine has work left is one the server counts as active.
LEMMA BusyActive ==
  ASSUME IInv, NEW c \in Conns, ~Quiet(c)
  PROVE  Active(c)
  BY DEF IInv, IdleInv, EndedInv, Active, Quiet

\* What a step may do to the map and to who is reading.
LEMMA MapMoves ==
  ASSUME IInv, Next, ~Done'
  PROVE  \/ \E b \in Conns : Register(b) \/ Remove(b)
         \/ /\ dests' = dests
            /\ \A c \in Conns : pc'[c] \in {"reading", "forwarding"} =>
                                 pc[c] \in {"reading", "forwarding"}
<1>0. TypeOK /\ DOMAIN pc = Conns
  BY DEF IInv, TypeOK, ConnType
<1>1. CASE Server \/ WriteLoop \/ KeepaliveLoop
  BY <1>1 DEF Server, SrvCreate, SrvData, SrvDestroy, SrvControl, LinkDown, Sends, WriteLoop,
     KeepaliveLoop, WriterTake, WriterSend, WriterFail, WriterStop, KeeperTick, KeeperSend,
     KeeperStop, destVars
<1>2. CASE Run
  <2>1. dests' = dests
    BY <1>2 DEF Run, HandlePacket, HandleCreate, HandleDestroy, HandleData, HandleNoise,
       HandleStop, Deny, DoClose, Deliver, ReadError, CloseDests, HangUp, Takes, Done
  <2>2. pc' = pc \/ \E c : pc' = [pc EXCEPT ![c] = "dialing"]
    BY <1>2 DEF Run, HandlePacket, HandleCreate, HandleDestroy, HandleData, HandleNoise,
       HandleStop, Deny, DoClose, Deliver, ReadError, CloseDests, HangUp, destVars
  <2> QED
    BY <1>0, <2>1, <2>2
<1>3. ASSUME NEW b \in Conns, Goroutine(b) \/ Destination(b), ~Register(b), ~Remove(b)
      PROVE  /\ dests' = dests
             /\ \A c \in Conns : pc'[c] \in {"reading", "forwarding"} =>
                                  pc[c] \in {"reading", "forwarding"}
  <2>1. dests' = dests
    BY <1>3 DEF Goroutine, Destination, Dial, Refuse, Answer, ReadChunk, Forward, ReadFails,
       Report, DestCloses
  <2>2. \/ pc' = pc
        \/ pc[b] \in {"reading", "forwarding"} /\ \E s : pc' = [pc EXCEPT ![b] = s]
        \/ \E s : s \notin {"reading", "forwarding"} /\ pc' = [pc EXCEPT ![b] = s]
    BY <1>3 DEF Goroutine, Destination, Dial, Refuse, Answer, ReadChunk, Forward, ReadFails,
       Report, DestCloses
  <2> QED
    BY <1>0, <2>1, <2>2
<1> QED
  BY <1>1, <1>2, <1>3 DEF Next

\* Another session of the same id can only have taken the entry of c away when
\* it had ended.
LEMMA RegisteredStep ==
  ASSUME IInv, Registered, Next
  PROVE  Registered'
<1>0. DOMAIN pc = Conns /\ DOMAIN dests = Ids /\ IdOf \in [Conns -> Ids]
  BY TunnelAssumption DEF IInv, TypeOK, ConnType, DestsType
<1>1. SUFFICES ASSUME ~Done', NEW c \in Conns, pc'[c] \in {"reading", "forwarding"}
               PROVE  \/ dests'[IdOf[c]] = c
                      \/ \E d \in Conns \ {c} :
                            /\ IdOf[d] = IdOf[c] /\ srv'[d] = "ended" /\ pc'[d] = "finished"
  BY DEF Registered
<1>2. pc[c] \in {"reading", "forwarding"} =>
        \/ dests[IdOf[c]] = c
        \/ \E d \in Conns \ {c} :
              IdOf[d] = IdOf[c] /\ srv'[d] = "ended" /\ pc'[d] = "finished"
  BY <1>1, EndedStays DEF Registered
<1>3. ASSUME NEW b \in Conns, Register(b)
      PROVE  dests'[IdOf[c]] = c \/ (dests'[IdOf[c]] = dests[IdOf[c]]
                                       /\ pc[c] \in {"reading", "forwarding"})
  <2>1. /\ dests' = [dests EXCEPT ![IdOf[b]] = b] /\ pc' = [pc EXCEPT ![b] = "reading"]
        /\ ~Quiet(b) /\ pc[b] = "registering"
    BY <1>3 DEF Register, Quiet
  <2>2. CASE b = c
    BY <1>0, <2>1, <2>2
  <2>3. CASE b # c
    <3>1. pc[c] \in {"reading", "forwarding"} /\ ~Quiet(c)
      BY <1>0, <1>1, <2>1, <2>3 DEF Quiet
    <3>2. IdOf[b] # IdOf[c]
      BY <2>1, <2>3, <3>1, BusyActive DEF IInv, OneActive
    <3> QED
      BY <1>0, <2>1, <3>1, <3>2
  <2> QED
    BY <2>2, <2>3
<1>4. ASSUME NEW b \in Conns, Remove(b)
      PROVE  \/ dests'[IdOf[c]] = dests[IdOf[c]] /\ pc[c] \in {"reading", "forwarding"}
             \/ /\ b # c /\ IdOf[b] = IdOf[c] /\ srv'[b] = "ended" /\ pc'[b] = "finished"
  <2>1. /\ dests' = [dests EXCEPT ![IdOf[b]] = NoConn] /\ pc' = [pc EXCEPT ![b] = "finished"]
        /\ srv' = srv /\ pc[b] = "removing"
    BY <1>4 DEF Remove, OthersUnchanged, serverVars
  <2>2. b # c /\ pc[c] \in {"reading", "forwarding"} /\ ~Quiet(c)
    BY <1>0, <1>1, <2>1 DEF Quiet
  <2>3. CASE IdOf[b] = IdOf[c]
    <3>1. ~Active(b)
      BY <2>2, <2>3, BusyActive DEF IInv, OneActive
    <3>2. srv[b] = "ended"
      BY <2>1, <3>1 DEF Active, IInv, IdleInv
    <3> QED
      BY <1>0, <2>1, <2>2, <2>3, <3>2
  <2>4. CASE IdOf[b] # IdOf[c]
    BY <1>0, <2>1, <2>2, <2>4
  <2> QED
    BY <2>3, <2>4
<1> QED
  BY <1>1, <1>2, <1>3, <1>4, MapMoves

\* While the read loop runs, a destination that is being read can be reached and
\* closed through the map, unless the end of an earlier session of its id has
\* taken its entry away (removeDest, server_conn.go:204).
THEOREM RegisteredHolds == Spec => []Registered
<1>1. Init => Registered
  BY DEF Init, Registered
<1>2. IInv /\ Registered /\ [Next]_vars => Registered'
  <2>1. UNCHANGED vars /\ Registered => Registered'
    BY DEF vars, mainVars, destVars, serverVars, Registered, Done
  <2> QED
    BY <2>1, RegisteredStep
<1> QED
  BY <1>1, <1>2, Invariant, PTL DEF Spec
=============================================================================
