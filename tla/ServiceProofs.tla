---------------------------- MODULE ServiceProofs ----------------------------
(***************************************************************************)
(* Tunnel implements ProxyService, for every value of its constants: every *)
(* step of the goroutines is a step of one of the services, or none.       *)
(***************************************************************************)
EXTENDS WireProofs

\* The frames on their way to the agent in order: the one in handlePacket's
\* hands, then the inbox.
Ins == 0..Len(inbox)
In(k) == IF k = 0 THEN hand ELSE inbox[k]

\* The goroutine of c has not registered it.
Early(c) == pc[c] \in {"none", "dialing", "refusing", "answering", "registering"}

-----------------------------------------------------------------------------
(* The parts of the inductive invariant *)

\* handlePacket keeps a frame only while it waits for the queue or a socket.
HandInv == /\ main \notin {"denying", "sending"} => hand = NoFrame
           /\ main = "denying" => hand.cmd = "CREATE"
           /\ main = "sending" => hand.cmd = "DATA"

\* Only what has been registered is looked up, and given bytes.
LateInv == /\ \A i \in Ids : dests[i] # NoConn => ~Early(dests[i])
           /\ main = "sending" => ~Early(target)
           /\ \A c \in Conns : got[c] # <<>> => ~Early(c)

\* A session the access list refuses is never dialed and never accepted.
DeniedInv == /\ \A c \in Conns : pc[c] # "none" => c \notin Denied
             /\ \A f \in Pipe : f.cmd = "OK" => f.conn \notin Denied

\* The DATA frames of c carry consecutive chunks, the last of them the last sent.
StreamInv == \A k \in Ins : \A c \in Conns : IsData(In(k), c) =>
    /\ srv[c] \in {"open", "closing", "ended"}
    /\ 1 <= In(k).n /\ In(k).n <= sent[c]
    /\ \A j \in Ins : j < k /\ IsData(In(j), c) =>
          /\ In(j).n < In(k).n
          /\ \/ In(k).n = In(j).n + 1
             \/ \E i \in Ins : i < k /\ IsData(In(i), c) /\ In(i).n + 1 = In(k).n
    /\ link = "up" => \E i \in Ins : IsData(In(i), c) /\ In(i).n = sent[c]

\* A destination that was given bytes and may be given more: none is skipped.
Receiving(c) == /\ got[c] # <<>> /\ sock[c] = "open" /\ dst[c] # "gone"
                /\ dests[IdOf[c]] = c \/ (main = "sending" /\ target = c)
Latest(c) == got[c][Len(got[c])][2]
GivenInv == \A c \in Conns : Receiving(c) =>
    /\ \A k \in Ins : IsData(In(k), c) =>
          /\ Latest(c) < In(k).n
          /\ \/ In(k).n = Latest(c) + 1
             \/ \E j \in Ins : j < k /\ IsData(In(j), c) /\ In(j).n + 1 = In(k).n
    /\ link = "up" => \/ sent[c] = Latest(c)
                      \/ \E k \in Ins : IsData(In(k), c) /\ In(k).n = sent[c]

\* A destination that was given bytes, and is still in the map, gets the frame
\* in hand if it is its own.
SendsTo == main = "sending" /\ got[hand.conn] # <<>> /\ dests[IdOf[hand.conn]] = hand.conn
             => target = hand.conn

Streams == HandInv /\ LateInv /\ DeniedInv /\ StreamInv /\ GivenInv /\ SendsTo

-----------------------------------------------------------------------------
(* What an action does to the frames on their way to the agent *)

\* Every frame moves up by d places; the DATA frame in place z, if there is one,
\* is gone, and was the first.
Shifts(d, z) ==
    /\ \A k \in Ins' : In(k)'.cmd = "DATA" =>
          k + d \in Ins /\ In(k)' = In(k + d) /\ k + d # z
    /\ \A k \in Ins' : \A j \in Ins : j < k + d /\ In(j).cmd = "DATA" /\ j # z =>
          \E i \in Ins' : i + d = j /\ In(i)' = In(j)
    /\ link' = "up" => \A j \in Ins : In(j).cmd = "DATA" /\ j # z =>
          \E i \in Ins' : i + d = j /\ In(i)' = In(j)
    /\ \A j \in Ins : In(j).cmd = "DATA" => z <= j

LEMMA InTypes ==
  ASSUME TypeOK
  PROVE  /\ Len(inbox) \in Nat /\ Ins \subseteq Nat
         /\ \A k \in Ins : k = 0 \/ k \in 1..Len(inbox)
         /\ \A k \in Ins : In(k).cmd = "DATA" => In(k).conn \in Conns /\ In(k).n \in Nat
<1>1. /\ inbox \in Seq(FromServer) /\ Len(inbox) \in Nat /\ hand \in FromServer \cup {NoFrame}
      /\ \A k \in 1..Len(inbox) : inbox[k] \in FromServer
  BY DEF TypeOK, ServerType, MainType
<1>2. \A f \in FromServer \cup {NoFrame} : f.cmd = "DATA" => f.conn \in Conns /\ f.n \in Nat
  BY DEF FromServer, NoFrame, Frame
<1>3. Ins \subseteq Nat /\ \A k \in Ins : k = 0 \/ k \in 1..Len(inbox)
  BY <1>1 DEF Ins
<1>4. \A k \in Ins : In(k) \in FromServer \cup {NoFrame}
  BY <1>1, <1>3 DEF In
<1> QED
  BY <1>1, <1>2, <1>3, <1>4

LEMMA ShiftsNone ==
  ASSUME TypeOK, UNCHANGED <<inbox, hand>>
  PROVE  Shifts(0, -1)
<1>1. Ins' = Ins /\ \A k : In(k)' = In(k)
  BY DEF Ins, In
<1>2. \A k \in Ins : k + 0 = k /\ -1 <= k /\ k # -1
  BY InTypes
<1> QED
  BY <1>1, <1>2 DEF Shifts

LEMMA ShiftsCut ==
  ASSUME TypeOK, LinkDown
  PROVE  Shifts(0, -1)
<1>1. PICK m \in 0..Len(inbox) : inbox' = SubSeq(inbox, 1, m)
  BY DEF LinkDown
<1>2. /\ hand' = hand /\ link' # "up" /\ Len(inbox') = m /\ m \in Nat /\ m <= Len(inbox)
      /\ \A k \in 1..m : inbox'[k] = inbox[k]
  BY <1>1 DEF LinkDown, TypeOK, ServerType, mainVars
<1>3. Ins' = 0..m /\ Ins = 0..Len(inbox) /\ Len(inbox) \in Nat
  BY <1>2, InTypes DEF Ins
<1>4. \A k \in Ins' : k \in Ins /\ k \in Nat /\ (k = 0 \/ k \in 1..m) /\ k + 0 = k
  BY <1>2, <1>3
<1>5. \A k \in Ins' : In(k)' = In(k)
  BY <1>2, <1>4 DEF In
<1>6. \A j \in Ins : j + 0 = j /\ j # -1 /\ -1 <= j
  BY <1>3
<1>7. \A k \in Ins' : \A j \in Ins : j < k => j \in Ins'
  BY <1>2, <1>3
<1> QED
  BY <1>2, <1>4, <1>5, <1>6, <1>7 DEF Shifts

LEMMA ShiftsDone ==
  ASSUME TypeOK, inbox' = inbox, hand' = NoFrame
  PROVE  Shifts(0, 0)
<1>1. Ins' = Ins /\ \A k \in Ins : k # 0 => In(k)' = In(k)
  BY DEF Ins, In
<1>2. In(0)' = NoFrame /\ NoFrame.cmd = "NONE"
  BY DEF In, NoFrame, Frame
<1>3. \A k \in Ins : k + 0 = k /\ 0 <= k
  BY InTypes
<1> QED
  BY <1>1, <1>2, <1>3 DEF Shifts

\* handlePacket takes a frame, and keeps it or not.
LEMMA ShiftsTakes ==
  ASSUME TypeOK, NEW cmd, Takes(cmd), hand = NoFrame
  PROVE  /\ hand' = Head(inbox) => Shifts(1, -1)
         /\ hand' = NoFrame => Shifts(1, 1)
<1>1. /\ Len(inbox') \in Nat /\ Len(inbox) = Len(inbox') + 1 /\ Head(inbox) = inbox[1]
      /\ \A k \in 1..Len(inbox') : inbox'[k] = inbox[k + 1]
      /\ NoFrame.cmd = "NONE"
  BY InboxTail DEF NoFrame, Frame
<1>2. Ins' = 0..Len(inbox') /\ Ins = 0..(Len(inbox') + 1)
  BY <1>1 DEF Ins
<1>3. /\ \A k \in Ins' : k \in Nat /\ k + 1 \in Ins /\ (k = 0 \/ k \in 1..Len(inbox'))
      /\ \A k \in Ins' : k # 0 => k + 1 # 1
      /\ \A k \in Ins' : k + 1 # -1 /\ k + 1 # 0
      /\ \A j \in Ins : /\ -1 <= j /\ j # -1
                        /\ j # 0 => 1 <= j /\ \E i \in Ins' : i + 1 = j
                        /\ j # 0 /\ j # 1 => \E i \in Ins' : i + 1 = j /\ i # 0
  <2>1. ASSUME NEW j \in Ins, j # 0
        PROVE  1 <= j /\ j - 1 \in Ins' /\ (j - 1) + 1 = j /\ (j # 1 => j - 1 # 0)
    BY <1>1, <1>2, <2>1
  <2>2. \A j \in Ins : -1 <= j /\ j # -1
    BY <1>1, <1>2
  <2>3. \A k \in Ins' : /\ k \in Nat /\ k + 1 \in Ins /\ (k = 0 \/ k \in 1..Len(inbox'))
                        /\ k # 0 => k + 1 # 1
                        /\ k + 1 # -1 /\ k + 1 # 0
    BY <1>1, <1>2
  <2> QED
    BY <2>1, <2>2, <2>3
<1>4. In(0) = NoFrame /\ \A k \in Ins' : k # 0 => In(k)' = In(k + 1)
  BY <1>1, <1>3 DEF In
<1>5. ASSUME hand' = Head(inbox) PROVE Shifts(1, -1)
  <2>1. \A k \in Ins' : In(k)' = In(k + 1)
    BY <1>1, <1>3, <1>4, <1>5 DEF In
  <2> QED
    BY <1>1, <1>3, <1>4, <2>1 DEF Shifts
<1>6. ASSUME hand' = NoFrame PROVE Shifts(1, 1)
  <2>1. In(0)' = NoFrame
    BY <1>6 DEF In
  <2> QED
    BY <1>1, <1>3, <1>4, <2>1 DEF Shifts
<1> QED
  BY <1>5, <1>6

-----------------------------------------------------------------------------
(* Keeping the stream *)

LEMMA StreamKept ==
  ASSUME TypeOK, StreamInv, NEW d \in {0, 1}, NEW z \in Int, Shifts(d, z), sent' = sent,
         link' = "up" => link = "up",
         \A c \in Conns : srv[c] \in {"open", "closing", "ended"} =>
                             srv'[c] \in {"open", "closing", "ended"}
  PROVE  StreamInv'
<1>1. SUFFICES ASSUME NEW k \in Ins', NEW c \in Conns, IsData(In(k)', c)
               PROVE  /\ srv'[c] \in {"open", "closing", "ended"}
                      /\ 1 <= In(k)'.n /\ In(k)'.n <= sent'[c]
                      /\ \A j \in Ins' : j < k /\ IsData(In(j)', c) =>
                            /\ In(j)'.n < In(k)'.n
                            /\ \/ In(k)'.n = In(j)'.n + 1
                               \/ \E i \in Ins' : /\ i < k /\ IsData(In(i)', c)
                                                  /\ In(i)'.n + 1 = In(k)'.n
                      /\ link' = "up" => \E i \in Ins' : IsData(In(i)', c) /\ In(i)'.n = sent'[c]
  BY DEF StreamInv, IsData
<1>2. /\ k + d \in Ins /\ In(k)' = In(k + d) /\ k + d # z /\ IsData(In(k + d), c)
      /\ k \in Nat /\ Ins \subseteq Nat
  <2>1. k + d \in Ins /\ In(k)' = In(k + d) /\ k + d # z
    BY <1>1 DEF Shifts, IsData
  <2>2. k \in Nat
    BY <1>1, InTypes DEF Ins
  <2> QED
    BY <1>1, <2>1, <2>2, InTypes
<1>3. /\ srv[c] \in {"open", "closing", "ended"}
      /\ 1 <= In(k + d).n /\ In(k + d).n <= sent[c]
      /\ \A j \in Ins : j < k + d /\ IsData(In(j), c) =>
            /\ In(j).n < In(k + d).n
            /\ \/ In(k + d).n = In(j).n + 1
               \/ \E i \in Ins : i < k + d /\ IsData(In(i), c) /\ In(i).n + 1 = In(k + d).n
      /\ link = "up" => \E i \in Ins : IsData(In(i), c) /\ In(i).n = sent[c]
  BY <1>2 DEF StreamInv
<1>4. \A i \in Ins : IsData(In(i), c) => In(i).n \in Nat /\ z <= i
  BY InTypes DEF Shifts, IsData
<1>5. \A i \in Ins' : i \in Nat
  BY InTypes DEF Ins
\* A frame before that of place k that was not the first is still there.
<1>6. ASSUME NEW j \in Ins, IsData(In(j), c), j < k + d, j # z
      PROVE  \E i \in Ins' : i + d = j /\ i < k /\ In(i)' = In(j)
  <2>1. PICK i \in Ins' : i + d = j /\ In(i)' = In(j)
    BY <1>6 DEF Shifts, IsData
  <2>2. i < k
    BY <1>2, <1>5, <1>6, <2>1
  <2> QED
    BY <2>1, <2>2
<1>7. ASSUME NEW j \in Ins', j < k, IsData(In(j)', c)
      PROVE  /\ In(j)'.n < In(k)'.n
             /\ \/ In(k)'.n = In(j)'.n + 1
                \/ \E i \in Ins' : i < k /\ IsData(In(i)', c) /\ In(i)'.n + 1 = In(k)'.n
  <2>1. /\ j + d \in Ins /\ In(j)' = In(j + d) /\ j + d # z /\ IsData(In(j + d), c)
        /\ j + d < k + d
    BY <1>2, <1>5, <1>7 DEF Shifts, IsData
  <2>2. In(j + d).n < In(k + d).n
    BY <1>3, <2>1
  <2>3. CASE In(k + d).n = In(j + d).n + 1
    BY <1>2, <2>1, <2>2, <2>3
  <2>4. CASE \E i \in Ins : i < k + d /\ IsData(In(i), c) /\ In(i).n + 1 = In(k + d).n
    <3>1. PICK i \in Ins : i < k + d /\ IsData(In(i), c) /\ In(i).n + 1 = In(k + d).n
      BY <2>4
    <3>2. CASE i # z
      BY <1>2, <1>6, <2>1, <2>2, <3>1, <3>2
    <3>3. CASE i = z
      <4>1. i < j + d
        <5>1. z <= j + d /\ j + d # z
          BY <1>4, <2>1
        <5>2. j + d \in Nat /\ i \in Nat
          BY <1>2, <2>1
        <5> QED
          BY <3>3, <5>1, <5>2
      <4>2. In(i).n < In(j + d).n
        BY <2>1, <3>1, <4>1 DEF StreamInv
      <4> QED
        <5>1. In(i).n \in Nat /\ In(j + d).n \in Nat /\ In(k + d).n \in Nat
          BY <1>2, <1>4, <2>1, <3>1
        <5> QED
          BY <2>2, <3>1, <4>2, <5>1
    <3> QED
      BY <3>2, <3>3
  <2> QED
    BY <1>3, <2>1, <2>3, <2>4
<1>8. ASSUME link' = "up"
      PROVE  \E i \in Ins' : IsData(In(i)', c) /\ In(i)'.n = sent'[c]
  <2>1. PICK i \in Ins : IsData(In(i), c) /\ In(i).n = sent[c]
    BY <1>3, <1>8
  <2>2. i # z
    <3>1. SUFFICES ASSUME i = z PROVE FALSE
      OBVIOUS
    <3>2. i < k + d
      BY <1>2, <1>4, <2>1, <3>1
    <3> QED
      BY <1>2, <1>3, <1>4, <2>1, <3>2
  <2>3. PICK m \in Ins' : m + d = i /\ In(m)' = In(i)
    BY <1>8, <2>1, <2>2 DEF Shifts, IsData
  <2> QED
    BY <2>1, <2>3
<1> QED
  BY <1>2, <1>3, <1>7, <1>8

LEMMA GivenKept ==
  ASSUME TypeOK, GivenInv, NEW d \in {0, 1}, NEW z \in Int, Shifts(d, z), sent' = sent,
         link' = "up" => link = "up",
         NEW c \in Conns, Receiving(c), Latest(c)' = Latest(c),
         z \in Ins => ~IsData(In(z), c)
  PROVE  /\ \A k \in Ins' : IsData(In(k)', c) =>
               /\ Latest(c)' < In(k)'.n
               /\ \/ In(k)'.n = Latest(c)' + 1
                  \/ \E j \in Ins' : j < k /\ IsData(In(j)', c) /\ In(j)'.n + 1 = In(k)'.n
         /\ link' = "up" => \/ sent'[c] = Latest(c)'
                            \/ \E k \in Ins' : IsData(In(k)', c) /\ In(k)'.n = sent'[c]
<1>1. ASSUME NEW k \in Ins', IsData(In(k)', c)
      PROVE  /\ Latest(c) < In(k)'.n
             /\ \/ In(k)'.n = Latest(c) + 1
                \/ \E j \in Ins' : j < k /\ IsData(In(j)', c) /\ In(j)'.n + 1 = In(k)'.n
  <2>1. k + d \in Ins /\ In(k)' = In(k + d) /\ IsData(In(k + d), c)
    BY <1>1 DEF Shifts, IsData
  <2>2. /\ Latest(c) < In(k + d).n
        /\ \/ In(k + d).n = Latest(c) + 1
           \/ \E j \in Ins : j < k + d /\ IsData(In(j), c) /\ In(j).n + 1 = In(k + d).n
    BY <2>1 DEF GivenInv
  <2>3. CASE \E j \in Ins : j < k + d /\ IsData(In(j), c) /\ In(j).n + 1 = In(k + d).n
    <3>1. PICK j \in Ins : j < k + d /\ IsData(In(j), c) /\ In(j).n + 1 = In(k + d).n
      BY <2>3
    <3>2. PICK i \in Ins' : i + d = j /\ In(i)' = In(j)
      BY <1>1, <3>1 DEF Shifts, IsData
    <3>3. i < k
      <4>1. i \in Nat /\ k \in Nat
        BY <1>1, InTypes DEF Ins
      <4> QED
        BY <3>1, <3>2, <4>1
    <3> QED
      BY <2>1, <2>2, <3>1, <3>2, <3>3
  <2> QED
    BY <2>1, <2>2, <2>3
<1>2. ASSUME link' = "up"
      PROVE  \/ sent[c] = Latest(c)
             \/ \E k \in Ins' : IsData(In(k)', c) /\ In(k)'.n = sent[c]
  <2>1. CASE \E k \in Ins : IsData(In(k), c) /\ In(k).n = sent[c]
    <3>1. PICK k \in Ins : IsData(In(k), c) /\ In(k).n = sent[c]
      BY <2>1
    <3>2. PICK m \in Ins' : m + d = k /\ In(m)' = In(k)
      BY <1>2, <3>1 DEF Shifts, IsData
    <3> QED
      BY <3>1, <3>2
  <2> QED
    BY <1>2, <2>1 DEF GivenInv
<1> QED
  BY <1>1, <1>2

LEMMA LatestType ==
  ASSUME TypeOK, NEW c \in Conns, got[c] # <<>>
  PROVE  Latest(c) \in Nat
<1>1. got[c] \in Seq(Conns \X Nat)
  BY DEF TypeOK, GotType
<1>2. Len(got[c]) \in 1..Len(got[c])
  BY <1>1
<1>3. got[c][Len(got[c])] \in Conns \X Nat
  BY <1>1, <1>2
<1> QED
  BY <1>3 DEF Latest

\* The server sends: a chunk is the one after the last it sent.
LEMMA StreamAppends ==
  ASSUME TypeOK, StreamInv, GivenInv, NEW f \in FromServer, Sends(f),
         f.cmd = "DATA" => /\ srv[f.conn] = "open" /\ f.n = sent[f.conn] + 1
                           /\ sent' = [sent EXCEPT ![f.conn] = f.n],
         f.cmd # "DATA" => sent' = sent,
         \A c \in Conns : srv[c] \in {"open", "closing", "ended"} =>
                             srv'[c] \in {"open", "closing", "ended"}
  PROVE  StreamInv' /\ GivenInv'
<1> DEFINE m == Len(inbox) + 1
<1>1. /\ Len(inbox) \in Nat /\ Len(inbox') = m /\ inbox'[m] = f
      /\ \A k \in 1..Len(inbox) : inbox'[k] = inbox[k]
      /\ link = "up" /\ link' = "up"
      /\ UNCHANGED <<hand, main, target, dests, got, sock, dst>>
  BY InboxAppend DEF Sends, mainVars, destVars
<1>2. /\ Ins' = Ins \cup {m} /\ Ins \subseteq Nat /\ m \in Nat
      /\ \A k \in Ins : k < m /\ ~(m < k) /\ (k = 0 \/ k \in 1..Len(inbox))
      /\ ~(m < m) /\ m # 0
  <2>1. Ins = 0..Len(inbox) /\ Ins' = 0..(Len(inbox) + 1)
    BY <1>1 DEF Ins
  <2> QED
    BY <1>1, <2>1
<1>3. (\A k \in Ins : In(k)' = In(k)) /\ \A k : k = m => In(k)' = f
  BY <1>1, <1>2 DEF In
<1>4. \A c \in Conns : sent[c] \in Nat /\ sent'[c] = IF IsData(f, c) THEN sent[c] + 1 ELSE sent[c]
  BY DEF IsData, TypeOK, ServerType
<1>5. \A k \in Ins : \A c \in Conns : IsData(In(k), c) => In(k).n \in Nat
  BY InTypes DEF IsData
<1>6. \A c \in Conns : IsData(f, c) => srv[c] = "open" /\ f.n = sent[c] + 1
  BY DEF IsData
<1> HIDE DEF m
<1>7. StreamInv'
  <2>1. SUFFICES ASSUME NEW k \in Ins', NEW c \in Conns, IsData(In(k)', c)
                 PROVE  /\ srv'[c] \in {"open", "closing", "ended"}
                        /\ 1 <= In(k)'.n /\ In(k)'.n <= sent'[c]
                        /\ \A j \in Ins' : j < k /\ IsData(In(j)', c) =>
                              /\ In(j)'.n < In(k)'.n
                              /\ \/ In(k)'.n = In(j)'.n + 1
                                 \/ \E i \in Ins' : /\ i < k /\ IsData(In(i)', c)
                                                    /\ In(i)'.n + 1 = In(k)'.n
                        /\ \E i \in Ins' : IsData(In(i)', c) /\ In(i)'.n = sent'[c]
    BY DEF StreamInv, IsData
  <2>2. CASE k \in Ins
    <3>1. In(k)' = In(k) /\ IsData(In(k), c) /\ In(k).n \in Nat
      BY <1>3, <1>5, <2>1, <2>2
    <3>2. /\ srv[c] \in {"open", "closing", "ended"}
          /\ 1 <= In(k).n /\ In(k).n <= sent[c]
          /\ \A j \in Ins : j < k /\ IsData(In(j), c) =>
                /\ In(j).n < In(k).n
                /\ \/ In(k).n = In(j).n + 1
                   \/ \E i \in Ins : i < k /\ IsData(In(i), c) /\ In(i).n + 1 = In(k).n
          /\ \E i \in Ins : IsData(In(i), c) /\ In(i).n = sent[c]
      BY <1>1, <2>2, <3>1 DEF StreamInv
    <3>3. In(k).n <= sent'[c]
      BY <1>4, <3>1, <3>2
    <3>4. \E i \in Ins' : IsData(In(i)', c) /\ In(i)'.n = sent'[c]
      BY <1>2, <1>3, <1>4, <1>6, <3>2
    <3>5. ASSUME NEW j \in Ins', j < k, IsData(In(j)', c)
          PROVE  /\ In(j)'.n < In(k)'.n
                 /\ \/ In(k)'.n = In(j)'.n + 1
                    \/ \E i \in Ins' : i < k /\ IsData(In(i)', c) /\ In(i)'.n + 1 = In(k)'.n
      <4>1. j \in Ins /\ In(j)' = In(j) /\ IsData(In(j), c)
        BY <1>2, <1>3, <2>2, <3>5
      <4>2. /\ In(j).n < In(k).n
            /\ \/ In(k).n = In(j).n + 1
               \/ \E i \in Ins : i < k /\ IsData(In(i), c) /\ In(i).n + 1 = In(k).n
        BY <3>2, <3>5, <4>1
      <4>3. ASSUME NEW i \in Ins, i < k, IsData(In(i), c), In(i).n + 1 = In(k).n
            PROVE  i \in Ins' /\ IsData(In(i)', c) /\ In(i)'.n + 1 = In(k)'.n
        <5>1. i \in Ins' /\ In(i)' = In(i)
          BY <1>2, <1>3
        <5> QED
          BY <3>1, <4>3, <5>1
      <4> QED
        BY <3>1, <4>1, <4>2, <4>3
    <3> QED
      BY <3>1, <3>2, <3>3, <3>4, <3>5
  <2>3. CASE k = m
    <3>1. /\ In(k)' = f /\ IsData(f, c) /\ f.n = sent[c] + 1 /\ sent'[c] = f.n
          /\ srv[c] = "open" /\ sent[c] \in Nat
      BY <1>3, <1>4, <1>6, <2>1, <2>3
    <3>2. ASSUME NEW j \in Ins', j < k, IsData(In(j)', c)
          PROVE  /\ In(j)'.n < f.n
                 /\ \E i \in Ins' : i < k /\ IsData(In(i)', c) /\ In(i)'.n + 1 = f.n
      <4>1. j \in Ins /\ In(j)' = In(j) /\ IsData(In(j), c) /\ In(j).n \in Nat
        BY <1>2, <1>3, <1>5, <2>3, <3>2
      <4>2. In(j).n <= sent[c] /\ \E i \in Ins : IsData(In(i), c) /\ In(i).n = sent[c]
        BY <1>1, <4>1 DEF StreamInv
      <4>3. In(j).n < f.n
        BY <3>1, <4>1, <4>2
      <4>4. \E i \in Ins' : i < k /\ IsData(In(i)', c) /\ In(i)'.n + 1 = f.n
        BY <1>2, <1>3, <2>3, <3>1, <4>2
      <4> QED
        BY <4>1, <4>3, <4>4
    <3>3. 1 <= f.n /\ f.n <= sent'[c]
      BY <3>1
    <3> QED
      BY <1>3, <2>1, <3>1, <3>2, <3>3
  <2> QED
    BY <1>2, <2>2, <2>3
<1>8. GivenInv'
  <2>1. SUFFICES ASSUME NEW c \in Conns, Receiving(c)
                 PROVE  /\ \A k \in Ins' : IsData(In(k)', c) =>
                              /\ Latest(c) < In(k)'.n
                              /\ \/ In(k)'.n = Latest(c) + 1
                                 \/ \E j \in Ins' : /\ j < k /\ IsData(In(j)', c)
                                                    /\ In(j)'.n + 1 = In(k)'.n
                        /\ \/ sent'[c] = Latest(c)
                           \/ \E k \in Ins' : IsData(In(k)', c) /\ In(k)'.n = sent'[c]
    <3>1. \A c \in Conns : Receiving(c)' = Receiving(c) /\ Latest(c)' = Latest(c)
      BY <1>1 DEF Receiving, Latest
    <3> QED
      BY <3>1 DEF GivenInv, IsData
  <2>2. /\ \A k \in Ins : IsData(In(k), c) =>
              /\ Latest(c) < In(k).n
              /\ \/ In(k).n = Latest(c) + 1
                 \/ \E j \in Ins : j < k /\ IsData(In(j), c) /\ In(j).n + 1 = In(k).n
        /\ \/ sent[c] = Latest(c)
           \/ \E k \in Ins : IsData(In(k), c) /\ In(k).n = sent[c]
    BY <1>1, <2>1 DEF GivenInv
  <2>3. \/ sent'[c] = Latest(c)
        \/ \E k \in Ins' : IsData(In(k)', c) /\ In(k)'.n = sent'[c]
    BY <1>2, <1>3, <1>4, <1>6, <2>2
  <2>4. ASSUME NEW k \in Ins, IsData(In(k)', c)
        PROVE  /\ Latest(c) < In(k)'.n
               /\ \/ In(k)'.n = Latest(c) + 1
                  \/ \E j \in Ins' : j < k /\ IsData(In(j)', c) /\ In(j)'.n + 1 = In(k)'.n
    BY <1>2, <1>3, <2>2, <2>4
  <2>5. ASSUME IsData(f, c)
        PROVE  /\ Latest(c) < f.n
               /\ \/ f.n = Latest(c) + 1
                  \/ \E j \in Ins' : j < m /\ IsData(In(j)', c) /\ In(j)'.n + 1 = f.n
    <3>1. f.n = sent[c] + 1 /\ sent[c] \in Nat
      BY <1>4, <1>6, <2>5
    <3>2. CASE sent[c] = Latest(c)
      BY <3>1, <3>2
    <3>3. CASE \E k \in Ins : IsData(In(k), c) /\ In(k).n = sent[c]
      <4>1. PICK k \in Ins : IsData(In(k), c) /\ In(k).n = sent[c]
        BY <3>3
      <4>2. Latest(c) < sent[c]
        BY <2>2, <4>1
      <4>3. \E j \in Ins' : j < m /\ IsData(In(j)', c) /\ In(j)'.n + 1 = f.n
        BY <1>2, <1>3, <3>1, <4>1
      <4>4. Latest(c) \in Int => Latest(c) < f.n
        BY <3>1, <4>2
      <4> QED
        BY <2>1, <4>2, <4>3, <4>4, LatestType DEF Receiving
    <3> QED
      BY <2>2, <3>2, <3>3
  <2> QED
    BY <1>2, <1>3, <2>3, <2>4, <2>5
<1> QED
  BY <1>7, <1>8

-----------------------------------------------------------------------------
(* Who is registered, who is refused *)

LEMMA PcMoves ==
  ASSUME IInv, Next
  PROVE  \A d \in Conns : /\ ~Early(d) => ~Early(d)'
                          /\ pc'[d] # "none" => pc[d] # "none" \/ d \notin Denied
<1>0. TypeOK /\ DOMAIN pc = Conns
  BY DEF IInv, TypeOK, ConnType
<1>1. CASE Server \/ WriteLoop \/ KeepaliveLoop
  <2>1. pc' = pc
    BY <1>1 DEF Server, SrvCreate, SrvData, SrvDestroy, SrvControl, LinkDown, Sends, WriteLoop,
       KeepaliveLoop, WriterTake, WriterSend, WriterFail, WriterStop, KeeperTick, KeeperSend,
       KeeperStop, destVars
  <2> QED
    BY <2>1 DEF Early
<1>2. CASE Run
  <2>1. CASE HandleCreate
    <3>1. /\ inbox[1].cmd = "CREATE" /\ 1 \in 1..Len(inbox)
          /\ \/ pc' = pc
             \/ inbox[1].conn \notin Denied /\ pc' = [pc EXCEPT ![inbox[1].conn] = "dialing"]
      BY <1>0, <2>1 DEF HandleCreate, Takes, TypeOK, ServerType
    <3>2. pc[inbox[1].conn] = "none"
      BY <3>1 DEF IInv, CreateInv, Unanswered
    <3> QED
      BY <1>0, <3>1, <3>2 DEF Early
  <2>2. CASE ~HandleCreate
    <3>1. pc' = pc
      BY <1>2, <2>2
      DEF Run, HandlePacket, HandleDestroy, HandleData, HandleNoise, HandleStop,
         Deny, DoClose, Deliver, ReadError, CloseDests, HangUp, destVars
    <3> QED
      BY <3>1 DEF Early
  <2> QED
    BY <2>1, <2>2
<1>3. ASSUME NEW c \in Conns, Goroutine(c) \/ Destination(c)
      PROVE  \A d \in Conns : /\ ~Early(d) => ~Early(d)'
                              /\ pc'[d] # "none" => pc[d] # "none" \/ d \notin Denied
  <2>1. \/ pc' = pc
        \/ /\ pc[c] # "none"
           /\ \E s : /\ pc' = [pc EXCEPT ![c] = s]
                     /\ ~Early(c) => s \in {"reading", "forwarding", "reporting", "removing",
                                            "finished"}
    BY <1>3 DEF Goroutine, Destination, Dial, Refuse, Answer, Register, ReadChunk, Forward,
       ReadFails, Report, Remove, DestCloses, Early
  <2> QED
    BY <1>0, <2>1 DEF Early
<1> QED
  BY <1>1, <1>2, <1>3 DEF Next

LEMMA NextLate ==
  ASSUME IInv, LateInv, Next
  PROVE  LateInv'
<1>0. /\ TypeOK /\ DOMAIN dests = Ids /\ IdOf \in [Conns -> Ids] /\ NoConn \notin Conns
      /\ \A i \in Ids : dests[i] \in Conns \cup {NoConn}
      /\ main = "sending" => target \in Conns
  BY TunnelAssumption DEF IInv, TypeOK, DestsType, MainType
<1>1. \A d \in Conns : ~Early(d) => ~Early(d)'
  BY PcMoves
<1>2. CASE Server \/ WriteLoop \/ KeepaliveLoop
  <2>1. UNCHANGED <<main, target, dests, got>>
    BY <1>2 DEF Server, SrvCreate, SrvData, SrvDestroy, SrvControl, LinkDown, Sends, WriteLoop,
       KeepaliveLoop, WriterTake, WriterSend, WriterFail, WriterStop, KeeperTick, KeeperSend,
       KeeperStop, mainVars
  <2> QED
    BY <1>0, <1>1, <2>1 DEF LateInv
<1>3. CASE Run
  <2>1. CASE HandleData
    <3>1. inbox[1].conn \in Conns /\ target' = dests[IdOf[inbox[1].conn]]
      <4>1. /\ inbox[1].cmd = "DATA" /\ 1 \in 1..Len(inbox)
            /\ target' = dests[IdOf[inbox[1].conn]]
        BY <1>0, <2>1 DEF HandleData, Takes, TypeOK, ServerType
      <4> QED
        BY <1>0, <4>1, InboxFrames
    <3>2. UNCHANGED <<dests, got>> /\ (main' = "sending" => target' # NoConn)
      BY <2>1 DEF HandleData, Takes
    <3> QED
      BY <1>0, <1>1, <3>1, <3>2 DEF LateInv
  <2>2. CASE Deliver
    <3>1. UNCHANGED dests /\ main' = "reading" /\ main = "sending"
      BY <2>2 DEF Deliver
    <3>2. \A c \in Conns : c # target => got'[c] = got[c]
      BY <1>0, <2>2 DEF Deliver, TypeOK, GotType
    <3> QED
      BY <1>0, <1>1, <3>1, <3>2 DEF LateInv
  <2>3. CASE CloseDests
    <3>1. (\A i \in Ids : dests'[i] = NoConn) /\ got' = got /\ main' = "hangup"
      BY <2>3 DEF CloseDests
    <3> QED
      BY <1>1, <3>1 DEF LateInv
  <2>4. CASE ~HandleData /\ ~Deliver /\ ~CloseDests
    <3>1. UNCHANGED <<dests, got>> /\ main' # "sending"
      BY <1>3, <2>4
      DEF Run, HandlePacket, HandleCreate, HandleDestroy, HandleNoise, HandleStop, Deny, DoClose,
         ReadError, HangUp, Takes, mainVars
    <3> QED
      BY <1>0, <1>1, <3>1 DEF LateInv
  <2> QED
    BY <2>1, <2>2, <2>3, <2>4
<1>4. ASSUME NEW c \in Conns, Goroutine(c) \/ Destination(c)
      PROVE  LateInv'
  <2>1. UNCHANGED <<main, target, got>>
    BY <1>4 DEF Goroutine, Destination, Dial, Refuse, Answer, Register, ReadChunk, Forward,
       ReadFails, Report, Remove, DestCloses, OthersUnchanged, mainVars
  <2>2. \/ \A i \in Ids : dests'[i] \in {dests[i], NoConn}
        \/ dests' = [dests EXCEPT ![IdOf[c]] = c] /\ pc' = [pc EXCEPT ![c] = "reading"]
    <3>1. \/ dests' = dests \/ dests' = [dests EXCEPT ![IdOf[c]] = NoConn]
          \/ dests' = [dests EXCEPT ![IdOf[c]] = c] /\ pc' = [pc EXCEPT ![c] = "reading"]
      BY <1>4 DEF Goroutine, Destination, Dial, Refuse, Answer, Register, ReadChunk, Forward,
         ReadFails, Report, Remove, DestCloses
    <3> QED
      BY <1>0, <3>1
  <2>3. CASE \A i \in Ids : dests'[i] \in {dests[i], NoConn}
    BY <1>0, <1>1, <2>1, <2>3 DEF LateInv
  <2>4. CASE dests' = [dests EXCEPT ![IdOf[c]] = c] /\ pc' = [pc EXCEPT ![c] = "reading"]
    <3>1. ~Early(c)'
      BY <1>0, <2>4 DEF Early, TypeOK, ConnType
    <3>2. \A i \in Ids : dests'[i] = dests[i] \/ dests'[i] = c
      BY <1>0, <2>4
    <3>3. ASSUME NEW i \in Ids, NEW e, e = dests'[i], e # NoConn
          PROVE  ~Early(e)'
      BY <1>0, <1>1, <3>1, <3>2, <3>3 DEF LateInv
    <3> QED
      BY <1>0, <1>1, <2>1, <3>3 DEF LateInv, Early
  <2> QED
    BY <2>2, <2>3, <2>4
<1> QED
  BY <1>2, <1>3, <1>4 DEF Next

LEMMA NextDenied ==
  ASSUME IInv, DeniedInv, Next
  PROVE  DeniedInv'
<1>0. TypeOK
  BY DEF IInv
<1>1. \A d \in Conns : pc'[d] # "none" => d \notin Denied
  BY PcMoves DEF DeniedInv
<1>2. \A f \in Pipe' : f.cmd = "OK" => f \in Pipe \/ f.conn \notin Denied
  <2>1. CASE Server
    <3>1. UNCHANGED <<queue, wpkt>>
      BY <2>1 DEF Server, SrvCreate, SrvData, SrvDestroy, SrvControl, LinkDown, Sends, writerVars
    <3> QED
      BY <3>1, PipeSame
  <2>2. CASE Run
    <3>1. CASE Deny
      <4>1. /\ Frame("FAIL", hand.conn, 0) \in ToServer
            /\ Frame("FAIL", hand.conn, 0).cmd = "FAIL"
        BY <1>0, <3>1, FrameToServer DEF Deny, TypeOK, MainType, Frame
      <4>2. Pipe' = Pipe \cup {Frame("FAIL", hand.conn, 0)}
        BY <1>0, <3>1, <4>1, PipeEnqueue DEF Deny, writerVars
      <4> QED
        BY <4>1, <4>2
    <3>2. CASE ~Deny
      <4>1. UNCHANGED <<queue, wpkt>>
        BY <2>2, <3>2
        DEF Run, HandlePacket, HandleCreate, HandleDestroy, HandleData, HandleNoise, HandleStop,
           DoClose, Deliver, ReadError, CloseDests, HangUp, Takes, writerVars
      <4> QED
        BY <4>1, PipeSame
    <3> QED
      BY <3>1, <3>2
  <2>3. CASE WriteLoop \/ KeepaliveLoop
    <3>1. NoFrame.cmd = "NONE" /\ Frame("KEEPALIVE", NoConn, 0).cmd = "KEEPALIVE"
          /\ Frame("KEEPALIVE", NoConn, 0) \in ToServer
      BY DEF NoFrame, Frame, ToServer
    <3>2. CASE WriterTake
      BY <1>0, <3>2, PipeTake
    <3>3. CASE WriterSend \/ WriterFail
      <4>1. UNCHANGED queue /\ wpkt' = NoFrame
        BY <3>3 DEF WriterSend, WriterFail
      <4> QED
        BY <3>1, <4>1, PipeDrop
    <3>4. CASE KeeperSend
      <4>1. Pipe' = Pipe \cup {Frame("KEEPALIVE", NoConn, 0)}
        BY <1>0, <3>1, <3>4, PipeEnqueue DEF KeeperSend, writerVars
      <4> QED
        BY <3>1, <4>1
    <3>5. CASE WriterStop \/ KeeperTick \/ KeeperStop
      <4>1. UNCHANGED <<queue, wpkt>>
        BY <3>5 DEF WriterStop, KeeperTick, KeeperStop, writerVars
      <4> QED
        BY <4>1, PipeSame
    <3> QED
      BY <2>3, <3>2, <3>3, <3>4, <3>5 DEF WriteLoop, KeepaliveLoop
  <2>4. ASSUME NEW c \in Conns, Goroutine(c) \/ Destination(c)
        PROVE  \A f \in Pipe' : f.cmd = "OK" => f \in Pipe \/ f.conn \notin Denied
    <3>1. /\ wpkt' = wpkt
          /\ \/ queue' = queue
             \/ \E cmd \in {"FAIL", "DATA", "DESTROY"}, n \in Nat : Enqueue(Frame(cmd, c, n))
             \/ Enqueue(Frame("OK", c, 0)) /\ pc[c] # "none"
      <4>1. up[c] \in Nat /\ 0 \in Nat
        BY <1>0 DEF TypeOK, ConnType
      <4> QED
        BY <2>4, <4>1 DEF Goroutine, Destination, Dial, Refuse, Answer, Register, ReadChunk,
           Forward, ReadFails, Report, Remove, DestCloses, OthersUnchanged, writerVars
    <3>2. CASE queue' = queue
      BY <3>1, <3>2, PipeSame
    <3>3. ASSUME NEW cmd \in {"FAIL", "DATA", "DESTROY"}, NEW n \in Nat,
                 Enqueue(Frame(cmd, c, n))
          PROVE  \A f \in Pipe' : f.cmd = "OK" => f \in Pipe
      <4>1. Frame(cmd, c, n) \in ToServer /\ Frame(cmd, c, n).cmd = cmd
        BY FrameToServer DEF Frame
      <4>2. Pipe' = Pipe \cup {Frame(cmd, c, n)}
        BY <1>0, <3>1, <3>3, <4>1, PipeEnqueue
      <4> QED
        BY <4>1, <4>2
    <3>4. CASE Enqueue(Frame("OK", c, 0)) /\ pc[c] # "none"
      <4>1. Frame("OK", c, 0) \in ToServer /\ Frame("OK", c, 0).conn = c
        BY FrameToServer DEF Frame
      <4>2. Pipe' = Pipe \cup {Frame("OK", c, 0)}
        BY <1>0, <3>1, <3>4, <4>1, PipeEnqueue
      <4> QED
        BY <3>4, <4>1, <4>2 DEF DeniedInv
    <3> QED
      BY <3>1, <3>2, <3>3, <3>4
  <2> QED
    BY <2>1, <2>2, <2>3, <2>4 DEF Next
<1> QED
  BY <1>1, <1>2 DEF DeniedInv

-----------------------------------------------------------------------------
(* The streams, action by action *)

\* Frames move up or one is gone, and no one is given any.
LEMMA StreamsMove ==
  ASSUME TypeOK, StreamInv, GivenInv, NEW d \in {0, 1}, NEW z \in Int, Shifts(d, z),
         sent' = sent, link' = "up" => link = "up",
         \A c \in Conns : srv[c] \in {"open", "closing", "ended"} =>
                             srv'[c] \in {"open", "closing", "ended"},
         \A c \in Conns : Receiving(c)' =>
            Receiving(c) /\ Latest(c)' = Latest(c) /\ (z \in Ins => ~IsData(In(z), c))
  PROVE  StreamInv' /\ GivenInv'
<1>1. StreamInv'
  BY StreamKept
<1>2. ASSUME NEW c \in Conns, Receiving(c)'
      PROVE  /\ \A k \in Ins' : IsData(In(k)', c) =>
                   /\ Latest(c)' < In(k)'.n
                   /\ \/ In(k)'.n = Latest(c)' + 1
                      \/ \E j \in Ins' : j < k /\ IsData(In(j)', c) /\ In(j)'.n + 1 = In(k)'.n
             /\ link' = "up" => \/ sent'[c] = Latest(c)'
                                \/ \E k \in Ins' : IsData(In(k)', c) /\ In(k)'.n = sent'[c]
  BY <1>2, GivenKept
<1>3. GivenInv'
  BY <1>2 DEF GivenInv, IsData
<1> QED
  BY <1>1, <1>3

LEMMA ServerStreams ==
  ASSUME IInv, Streams, Server
  PROVE  HandInv' /\ StreamInv' /\ GivenInv' /\ SendsTo'
<1>0. /\ TypeOK /\ StreamInv /\ GivenInv /\ DOMAIN srv = Conns
      /\ \A c \in Conns : sent[c] \in Nat
  BY DEF IInv, Streams, TypeOK, ServerType
<1>1. UNCHANGED <<main, hand, target, dests, got, sock, dst>>
  BY DEF Server, SrvCreate, SrvData, SrvDestroy, SrvControl, LinkDown, Sends, mainVars, destVars
<1>2. HandInv' /\ SendsTo'
  BY <1>1 DEF Streams, HandInv, SendsTo
<1>3. ASSUME NEW c \in Conns, SrvCreate(c)
      PROVE  StreamInv' /\ GivenInv'
  <2> DEFINE f == Frame("CREATE", c, 0)
  <2>1. f \in FromServer /\ f.cmd = "CREATE" /\ Sends(f) /\ sent' = sent
    BY <1>3, FrameFromServer DEF SrvCreate, Frame
  <2>2. \A b \in Conns : srv[b] \in {"open", "closing", "ended"} =>
                            srv'[b] \in {"open", "closing", "ended"}
    BY <1>0, <1>3 DEF SrvCreate
  <2> HIDE DEF f
  <2> QED
    BY <1>0, <2>1, <2>2, StreamAppends
<1>4. ASSUME NEW c \in Conns, SrvDestroy(c)
      PROVE  StreamInv' /\ GivenInv'
  <2> DEFINE f == Frame("DESTROY", c, 0)
  <2>1. f \in FromServer /\ f.cmd = "DESTROY" /\ Sends(f) /\ sent' = sent
    BY <1>4, FrameFromServer DEF SrvDestroy, Frame
  <2>2. \A b \in Conns : srv[b] \in {"open", "closing", "ended"} =>
                            srv'[b] \in {"open", "closing", "ended"}
    BY <1>0, <1>4 DEF SrvDestroy
  <2> HIDE DEF f
  <2> QED
    BY <1>0, <2>1, <2>2, StreamAppends
<1>5. ASSUME NEW c \in Conns, SrvData(c)
      PROVE  StreamInv' /\ GivenInv'
  <2> DEFINE f == Frame("DATA", c, sent[c] + 1)
  <2>1. /\ f \in FromServer /\ f.cmd = "DATA" /\ f.conn = c /\ f.n = sent[c] + 1
        /\ Sends(f) /\ srv[c] = "open" /\ srv' = srv
        /\ sent' = [sent EXCEPT ![c] = sent[c] + 1]
    BY <1>0, <1>5, FrameFromServer DEF SrvData, Frame
  <2> HIDE DEF f
  <2> QED
    BY <1>0, <2>1, StreamAppends
<1>6. ASSUME NEW cmd \in {"NOISE", "STOP"}, SrvControl(cmd)
      PROVE  StreamInv' /\ GivenInv'
  <2> DEFINE f == Frame(cmd, NoConn, 0)
  <2>1. /\ f \in FromServer /\ f.cmd # "DATA" /\ Sends(f) /\ sent' = sent /\ srv' = srv
    BY <1>6 DEF SrvControl, Frame, FromServer
  <2> HIDE DEF f
  <2> QED
    BY <1>0, <2>1, StreamAppends
<1>7. CASE LinkDown
  <2>1. link' # "up" /\ sent' = sent /\ srv' = srv /\ Shifts(0, -1)
    BY <1>0, <1>7, ShiftsCut DEF LinkDown, serverVars
  <2>2. \A c \in Conns : Receiving(c)' => Receiving(c) /\ Latest(c)' = Latest(c)
    BY <1>1 DEF Receiving, Latest
  <2>3. -1 \notin Ins
    BY <1>0, InTypes
  <2> QED
    BY <1>0, <1>2, <2>1, <2>2, <2>3, StreamsMove
<1> QED
  BY <1>2, <1>3, <1>4, <1>5, <1>6, <1>7 DEF Server

LEMMA LoopStreams ==
  ASSUME IInv, Streams, WriteLoop \/ KeepaliveLoop
  PROVE  HandInv' /\ StreamInv' /\ GivenInv' /\ SendsTo'
<1>0. TypeOK /\ StreamInv /\ GivenInv
  BY DEF IInv, Streams
<1>1. UNCHANGED <<main, hand, target, dests, got, sock, dst, inbox, link, sent>>
  BY DEF WriteLoop, KeepaliveLoop, WriterTake, WriterSend, WriterFail, WriterStop, KeeperTick,
     KeeperSend, KeeperStop, mainVars, destVars, serverVars
<1>2. HandInv' /\ SendsTo'
  BY <1>1 DEF Streams, HandInv, SendsTo
<1>3. \A c \in Conns : srv[c] \in {"open", "closing", "ended"} =>
                          srv'[c] \in {"open", "closing", "ended"}
  <2>1. \/ srv' = srv
        \/ \E s \in {"open", "ended"} : srv' = [srv EXCEPT ![wpkt.conn] = s]
    BY DEF WriteLoop, KeepaliveLoop, WriterTake, WriterSend, Receives, WriterFail, WriterStop,
       KeeperTick, KeeperSend, KeeperStop, serverVars
  <2> QED
    BY <1>0, <2>1 DEF TypeOK, ServerType
<1>4. \A c \in Conns : Receiving(c)' = Receiving(c) /\ Latest(c)' = Latest(c)
  BY <1>1 DEF Receiving, Latest
<1>5. Shifts(0, -1) /\ -1 \notin Ins
  BY <1>0, <1>1, ShiftsNone, InTypes
<1> QED
  BY <1>0, <1>1, <1>2, <1>3, <1>4, <1>5, StreamsMove

LEMMA GoroutineStreams ==
  ASSUME IInv, Streams, NEW c \in Conns, Goroutine(c) \/ Destination(c)
  PROVE  HandInv' /\ StreamInv' /\ GivenInv' /\ SendsTo'
<1>0. /\ TypeOK /\ StreamInv /\ GivenInv /\ LateInv /\ NoConn \notin Conns
      /\ DOMAIN dests = Ids /\ DOMAIN sock = Conns /\ DOMAIN dst = Conns
      /\ IdOf \in [Conns -> Ids] /\ (main = "sending" => hand.conn \in Conns)
  BY TunnelAssumption DEF IInv, Streams, TypeOK, DestsType, ConnType, MainType
<1>1. UNCHANGED <<main, hand, target, got, inbox, link, sent, srv>>
  BY DEF Goroutine, Destination, Dial, Refuse, Answer, Register, ReadChunk, Forward,
     ReadFails, Report, Remove, DestCloses, OthersUnchanged, mainVars, serverVars
\* Only a goroutine whose destination was given nothing makes it ready.
<1>2. \A b \in Conns : got[b] # <<>> =>
         /\ dests'[IdOf[b]] = b => dests[IdOf[b]] = b
         /\ sock'[b] = "open" => sock[b] = "open"
         /\ dst'[b] # "gone" => dst[b] # "gone"
  <2>1. got[c] # <<>> => ~Early(c)
    BY <1>0 DEF LateInv
  <2>2. /\ \/ dests' = dests \/ dests' = [dests EXCEPT ![IdOf[c]] = NoConn]
           \/ dests' = [dests EXCEPT ![IdOf[c]] = c] /\ Early(c)
        /\ \/ sock' = sock \/ sock' = [sock EXCEPT ![c] = "closed"]
           \/ sock' = [sock EXCEPT ![c] = "open"] /\ Early(c)
        /\ \/ dst' = dst \/ dst' = [dst EXCEPT ![c] = "gone"]
           \/ dst' = [dst EXCEPT ![c] = "half"] /\ dst[c] = "up"
    <3>1. Dial(c) \/ Register(c) => Early(c)
      BY DEF Dial, Register, Early
    <3>2. CASE Dial(c) \/ Register(c)
      BY <3>1, <3>2 DEF Dial, Register
    <3>3. CASE Refuse(c) \/ Answer(c) \/ Forward(c) \/ ReadFails(c) \/ Report(c) \/ Remove(c)
      BY <3>3 DEF Refuse, Answer, Forward, ReadFails, Report, Remove
    <3>4. CASE ReadChunk(c) \/ DestCloses(c)
      BY <3>4 DEF ReadChunk, DestCloses
    <3> QED
      BY <3>2, <3>3, <3>4 DEF Goroutine, Destination
  <2>3. ASSUME NEW b \in Conns, got[b] # <<>>
        PROVE  dests'[IdOf[b]] = b => dests[IdOf[b]] = b
    BY <1>0, <2>1, <2>2, <2>3
  <2>4. ASSUME NEW b \in Conns, got[b] # <<>>
        PROVE  /\ sock'[b] = "open" => sock[b] = "open"
               /\ dst'[b] # "gone" => dst[b] # "gone"
    BY <1>0, <2>1, <2>2, <2>4
  <2> QED
    BY <2>3, <2>4
<1>3. HandInv' /\ SendsTo'
  BY <1>0, <1>1, <1>2 DEF Streams, HandInv, SendsTo
<1>4. \A b \in Conns : Receiving(b)' => Receiving(b) /\ Latest(b)' = Latest(b)
  BY <1>1, <1>2 DEF Receiving, Latest
<1>5. Shifts(0, -1) /\ -1 \notin Ins
  BY <1>0, <1>1, ShiftsNone, InTypes
<1> QED
  BY <1>0, <1>1, <1>3, <1>4, <1>5, StreamsMove

\* Steps of Run that do not touch what a destination is given.
LEMMA QuietRunStreams ==
  ASSUME IInv, Streams, Run, ~HandleData, ~Deliver
  PROVE  HandInv' /\ StreamInv' /\ GivenInv' /\ SendsTo'
<1>0. /\ TypeOK /\ StreamInv /\ GivenInv /\ HandInv /\ NoConn \notin Conns
      /\ DOMAIN sock = Conns /\ IdOf \in [Conns -> Ids]
  BY TunnelAssumption DEF IInv, Streams, TypeOK, ConnType
<1> USE DEF HandlePacket, HandleCreate, HandleDestroy, HandleNoise, HandleStop, Deny, DoClose,
        ReadError, CloseDests, HangUp, Takes, mainVars, destVars, serverVars
<1>1. /\ UNCHANGED <<got, dst, link, srv, sent>> /\ main # "sending" /\ main' # "sending"
      /\ \A c \in Conns : /\ sock'[c] = "open" => sock[c] = "open"
                          /\ dests'[IdOf[c]] = c => dests[IdOf[c]] = c
  <2>1. CASE HandleCreate \/ HandleDestroy \/ HandleNoise \/ HandleStop
    BY <2>1
  <2>2. CASE Deny \/ ReadError \/ HangUp
    BY <2>2
  <2>3. CASE DoClose \/ CloseDests
    BY <1>0, <2>3
  <2> QED
    BY <2>1, <2>2, <2>3 DEF Run
<1>2. \A c \in Conns : Receiving(c)' => Receiving(c) /\ Latest(c)' = Latest(c)
  BY <1>1 DEF Receiving, Latest
<1>3. SendsTo'
  BY <1>1 DEF SendsTo
\* The frame that is gone, if there is one, is none of DATA.
<1>4. /\ HandInv'
      /\ \/ Shifts(1, -1) \/ Shifts(0, -1)
         \/ Shifts(1, 1) /\ In(1).cmd # "DATA"
         \/ Shifts(0, 0) /\ In(0).cmd # "DATA"
  <2>1. CASE HandleCreate \/ HandleDestroy \/ HandleNoise \/ HandleStop
    <3>1. PICK cmd \in {"CREATE", "DESTROY", "NOISE", "STOP"} : Takes(cmd) /\ Head(inbox).cmd = cmd
      BY <2>1
    <3>2. hand = NoFrame
      BY <1>0, <3>1 DEF HandInv
    <3>3. /\ hand' = NoFrame \/ hand' = Head(inbox)
          /\ main' = "denying" => hand'.cmd = "CREATE"
          /\ main' \notin {"denying", "sending"} => hand' = NoFrame
      BY <1>1, <2>1, <3>2
    <3>4. HandInv'
      BY <1>1, <3>3 DEF HandInv
    <3>5. In(1) = Head(inbox) /\ -1 \notin Ins
      BY <1>0, <3>1, InboxTail, InTypes DEF In
    <3>6. \/ Shifts(1, -1) \/ Shifts(1, 1)
      BY <1>0, <3>1, <3>2, <3>3, ShiftsTakes
    <3> QED
      BY <3>1, <3>4, <3>5, <3>6
  <2>2. CASE Deny
    <3>1. inbox' = inbox /\ hand' = NoFrame /\ main = "denying" /\ main' = "reading"
      BY <2>2
    <3>2. Shifts(0, 0) /\ HandInv' /\ In(0).cmd # "DATA"
      BY <1>0, <3>1, ShiftsDone DEF HandInv, In
    <3> QED
      BY <3>2
  <2>3. CASE DoClose \/ ReadError \/ CloseDests \/ HangUp
    <3>1. UNCHANGED <<inbox, hand>> /\ main # "denying" /\ main' # "denying"
      BY <2>3
    <3>2. Shifts(0, -1) /\ HandInv' /\ -1 \notin Ins
      BY <1>0, <1>1, <3>1, ShiftsNone, InTypes DEF HandInv
    <3> QED
      BY <3>2
  <2> QED
    BY <2>1, <2>2, <2>3 DEF Run
<1>5. ASSUME NEW d \in {0, 1}, NEW z \in Int, Shifts(d, z), z \in Ins => In(z).cmd # "DATA"
      PROVE  StreamInv' /\ GivenInv'
  <2>1. \A c \in Conns : z \in Ins => ~IsData(In(z), c)
    BY <1>5 DEF IsData
  <2> QED
    BY <1>0, <1>1, <1>2, <1>5, <2>1, StreamsMove
<1> QED
  <2>1. -1 \notin Ins
    BY <1>0, InTypes
  <2>2. StreamInv' /\ GivenInv'
    BY <1>4, <1>5, <2>1
  <2> QED
    BY <1>3, <1>4, <2>2

LEMMA HandleDataStreams ==
  ASSUME IInv, Streams, HandleData
  PROVE  HandInv' /\ StreamInv' /\ GivenInv' /\ SendsTo'
<1>0. /\ TypeOK /\ StreamInv /\ GivenInv /\ HandInv /\ NoConn \notin Conns
      /\ IdOf \in [Conns -> Ids] /\ DestsById
  BY TunnelAssumption DEF IInv, Streams, TypeOK
<1> DEFINE f == inbox[1]
<1>1. /\ Head(inbox) = f /\ f.cmd = "DATA" /\ f.conn \in Conns /\ 1 \in 1..Len(inbox)
      /\ Takes("DATA") /\ main = "reading" /\ hand = NoFrame
      /\ target' = dests[IdOf[f.conn]]
      /\ \/ target' = NoConn /\ main' = "reading" /\ hand' = NoFrame
         \/ target' # NoConn /\ main' = "sending" /\ hand' = f
      /\ UNCHANGED <<dests, sock, dst, got, link, srv, sent>>
  <2>1. /\ Head(inbox) = f /\ f.cmd = "DATA" /\ Takes("DATA") /\ 1 \in 1..Len(inbox)
        /\ main = "reading"
    <3>1. inbox \in Seq(FromServer) /\ inbox # <<>> /\ Head(inbox).cmd = "DATA"
          /\ Takes("DATA") /\ main = "reading"
      BY <1>0 DEF TypeOK, ServerType, HandleData, Takes
    <3> QED
      BY <3>1
  <2>2. f.conn \in Conns /\ hand = NoFrame
    BY <1>0, <2>1, InboxFrames DEF HandInv
  <2> QED
    BY <2>1, <2>2 DEF HandleData, Takes, destVars, serverVars
<1> HIDE DEF f
<1>2. HandInv' /\ SendsTo'
  BY <1>1 DEF HandInv, SendsTo
<1>3. \A c \in Conns : Receiving(c)' =>
         Receiving(c) /\ Latest(c)' = Latest(c) /\ (target' = NoConn => c # f.conn)
  <2>1. \A c \in Conns : target' = c => dests[IdOf[c]] = c
    BY <1>0, <1>1 DEF DestsById
  <2> QED
    BY <1>0, <1>1, <2>1 DEF Receiving, Latest
<1>4. CASE target' = NoConn
  <2>1. Shifts(1, 1)
    BY <1>0, <1>1, <1>4, ShiftsTakes
  <2>2. In(1) = f
    BY DEF In, f
  <2>3. \A c \in Conns : Receiving(c)' => (1 \in Ins => ~IsData(In(1), c))
    BY <1>3, <1>4, <2>2 DEF IsData
  <2> QED
    BY <1>0, <1>1, <1>2, <1>3, <2>1, <2>3, StreamsMove
<1>5. CASE target' # NoConn
  <2>1. Shifts(1, -1) /\ -1 \notin Ins
    BY <1>0, <1>1, <1>5, ShiftsTakes, InTypes
  <2> QED
    BY <1>0, <1>1, <1>2, <1>3, <2>1, StreamsMove
<1> QED
  BY <1>4, <1>5

\* The write succeeds only for the session of the frame itself.
LEMMA DeliverOwn ==
  ASSUME IInv, Deliver, got' # got
  PROVE  /\ target = hand.conn /\ target \in Conns /\ hand.n \in Nat
         /\ got' = [got EXCEPT ![target] = Append(got[target], <<target, hand.n>>)]
         /\ sock[target] = "open" /\ dst[target] # "gone"
<1>1. /\ sock[target] = "open" /\ dst[target] # "gone" /\ main = "sending"
      /\ got' = [got EXCEPT ![target] = Append(got[target], <<hand.conn, hand.n>>)]
  BY DEF Deliver
<1>2. target \in Conns /\ hand.n \in Nat
  BY <1>1 DEF IInv, TypeOK, MainType
<1>3. target = hand.conn
  BY <1>1, <1>2 DEF IInv, SendInv, SockInv, Quiet
<1> QED
  BY <1>1, <1>2, <1>3

LEMMA DeliverStreams ==
  ASSUME IInv, Streams, Deliver
  PROVE  HandInv' /\ StreamInv' /\ GivenInv' /\ SendsTo'
<1>0. /\ TypeOK /\ StreamInv /\ GivenInv /\ HandInv /\ SendsTo /\ NoConn \notin Conns
      /\ target \in Conns /\ hand.conn \in Conns /\ hand.n \in Nat /\ main = "sending"
      /\ got \in [Conns -> Seq(Conns \X Nat)]
  BY TunnelAssumption DEF IInv, Streams, TypeOK, MainType, GotType, Deliver
<1>1. /\ main' = "reading" /\ hand' = NoFrame
      /\ UNCHANGED <<dests, sock, dst, inbox, link, srv, sent>>
  BY DEF Deliver, destVars, serverVars
<1>2. HandInv' /\ SendsTo' /\ Shifts(0, 0) /\ In(0) = hand
  BY <1>0, <1>1, ShiftsDone DEF HandInv, SendsTo, In
<1>3. CASE got' = got
  <2>1. sock[target] = "closed" \/ dst[target] = "gone"
    <3>1. SUFFICES ASSUME got' = [got EXCEPT ![target] = Append(@, <<hand.conn, hand.n>>)]
                   PROVE  FALSE
      BY <1>3 DEF Deliver
    <3>2. /\ got[target] \in Seq(Conns \X Nat) /\ got'[target] = got[target]
          /\ got'[target] = Append(got[target], <<hand.conn, hand.n>>)
      BY <1>0, <1>3, <3>1
    <3>3. Len(got'[target]) = Len(got[target]) + 1
      BY <3>2
    <3> QED
      BY <3>2, <3>3
  <2>2. \A c \in Conns : Receiving(c)' =>
           Receiving(c) /\ Latest(c)' = Latest(c) /\ (0 \in Ins => ~IsData(In(0), c))
    BY <1>0, <1>1, <1>2, <1>3, <2>1 DEF Receiving, Latest, SendsTo, IsData
  <2> QED
    BY <1>0, <1>1, <1>2, <2>2, StreamsMove
<1>4. CASE got' # got
  <2>1. /\ target = hand.conn /\ hand.cmd = "DATA" /\ IsData(In(0), target)
        /\ got' = [got EXCEPT ![target] = Append(got[target], <<target, hand.n>>)]
    BY <1>0, <1>2, <1>4, DeliverOwn DEF HandInv, IsData
  <2>2. got'[target] # <<>> /\ \A c : c = target => Latest(c)' = hand.n
    <3>1. got'[target] = Append(got[target], <<target, hand.n>>)
      BY <1>0, <2>1
    <3>2. /\ Len(got'[target]) = Len(got[target]) + 1
          /\ got'[target][Len(got[target]) + 1] = <<target, hand.n>>
      BY <1>0, <3>1
    <3>3. Len(got[target]) + 1 > 0 /\ <<target, hand.n>>[2] = hand.n
      BY <1>0
    <3>4. got'[target] # <<>>
      BY <1>0, <3>2, <3>3
    <3> QED
      BY <3>2, <3>3, <3>4 DEF Latest
  <2>3. StreamInv'
    BY <1>0, <1>1, <1>2, StreamKept
  <2>4. 0 \in Ins /\ \A k \in Ins' : k \in Nat /\ (IsData(In(k)', target) => k \in Ins /\ 0 < k
                                                       /\ In(k)' = In(k))
    <3>1. \A k \in Ins' : k \in Nat /\ k + 0 = k
      BY <1>0, <1>1, InTypes DEF Ins
    <3>2. 0 \in Ins
      BY <1>0, InTypes DEF Ins
    <3>3. \A k \in Ins' : IsData(In(k)', target) => k \in Ins /\ k # 0 /\ In(k)' = In(k)
      BY <1>2, <3>1 DEF Shifts, IsData
    <3> QED
      BY <3>1, <3>2, <3>3
  <2>5. \A k \in Ins : IsData(In(k), target) /\ k # 0 => k \in Ins' /\ In(k)' = In(k)
    BY <1>1 DEF Ins, In
  <2>6. ASSUME NEW k \in Ins', IsData(In(k)', target)
        PROVE  /\ hand.n < In(k)'.n
               /\ \/ In(k)'.n = hand.n + 1
                  \/ \E j \in Ins' : j < k /\ IsData(In(j)', target) /\ In(j)'.n + 1 = In(k)'.n
    <3>1. k \in Ins /\ 0 < k /\ In(k)' = In(k) /\ IsData(In(k), target)
      BY <2>4, <2>6
    <3>2. /\ hand.n < In(k).n
          /\ \/ In(k).n = hand.n + 1
             \/ \E i \in Ins : i < k /\ IsData(In(i), target) /\ In(i).n + 1 = In(k).n
      BY <1>0, <1>2, <2>1, <2>4, <3>1 DEF StreamInv
    <3> QED
      BY <1>2, <2>5, <3>1, <3>2
  <2>7. ASSUME link' = "up"
        PROVE  \/ sent[target] = hand.n
               \/ \E k \in Ins' : IsData(In(k)', target) /\ In(k)'.n = sent[target]
    <3>1. PICK i \in Ins : IsData(In(i), target) /\ In(i).n = sent[target]
      BY <1>0, <1>1, <2>1, <2>4, <2>7 DEF StreamInv
    <3>2. CASE i = 0
      BY <1>2, <3>1, <3>2
    <3>3. CASE i # 0
      BY <2>5, <3>1, <3>3
    <3> QED
      BY <3>2, <3>3
  <2>8. ASSUME NEW c \in Conns, Receiving(c)', c # target
        PROVE  /\ \A k \in Ins' : IsData(In(k)', c) =>
                     /\ Latest(c)' < In(k)'.n
                     /\ \/ In(k)'.n = Latest(c)' + 1
                        \/ \E j \in Ins' : j < k /\ IsData(In(j)', c) /\ In(j)'.n + 1 = In(k)'.n
               /\ link' = "up" => \/ sent'[c] = Latest(c)'
                                  \/ \E k \in Ins' : IsData(In(k)', c) /\ In(k)'.n = sent'[c]
    <3>1. got'[c] = got[c]
      BY <1>0, <2>1, <2>8
    <3>2. Receiving(c) /\ Latest(c)' = Latest(c) /\ (0 \in Ins => ~IsData(In(0), c))
      BY <1>0, <1>1, <1>2, <2>1, <2>8, <3>1 DEF Receiving, Latest, IsData
    <3> QED
      BY <1>0, <1>1, <1>2, <2>8, <3>2, GivenKept
  <2>9. ASSUME NEW c \in Conns, Receiving(c)'
        PROVE  /\ \A k \in Ins' : IsData(In(k)', c) =>
                     /\ Latest(c)' < In(k)'.n
                     /\ \/ In(k)'.n = Latest(c)' + 1
                        \/ \E j \in Ins' : j < k /\ IsData(In(j)', c) /\ In(j)'.n + 1 = In(k)'.n
               /\ link' = "up" => \/ sent'[c] = Latest(c)'
                                  \/ \E k \in Ins' : IsData(In(k)', c) /\ In(k)'.n = sent'[c]
    <3>1. CASE c = target
      <4>1. Latest(c)' = hand.n /\ sent'[c] = sent[target]
        BY <1>1, <2>2, <3>1
      <4> QED
        BY <2>6, <2>7, <3>1, <4>1
    <3> QED
      BY <2>8, <2>9, <3>1
  <2>10. GivenInv'
    BY <2>9 DEF GivenInv, IsData
  <2> QED
    BY <1>2, <2>3, <2>10
<1> QED
  BY <1>3, <1>4

LEMMA InitStreams == Init => Streams
<1> SUFFICES ASSUME Init PROVE Streams
  OBVIOUS
<1>1. Ins = {0} /\ In(0) = NoFrame /\ NoFrame.cmd = "NONE"
  BY DEF Init, Ins, In, NoFrame, Frame
<1>2. \A f \in Pipe : f.cmd # "OK"
  BY DEF Init, Pipe, NoFrame, Frame
<1>3. StreamInv /\ GivenInv
  BY <1>1 DEF Init, StreamInv, GivenInv, Receiving, IsData
<1>4. HandInv /\ LateInv /\ DeniedInv /\ SendsTo
  BY <1>2 DEF Init, HandInv, LateInv, DeniedInv, SendsTo
<1> QED
  BY <1>3, <1>4 DEF Streams

LEMMA NextStreams == IInv /\ Streams /\ [Next]_vars => Streams'
<1> SUFFICES ASSUME IInv, Streams, [Next]_vars PROVE Streams'
  OBVIOUS
<1>1. CASE Next
  <2>1. HandInv' /\ StreamInv' /\ GivenInv' /\ SendsTo'
    BY <1>1, ServerStreams, QuietRunStreams, HandleDataStreams, DeliverStreams, LoopStreams,
       GoroutineStreams DEF Next
  <2> QED
    BY <1>1, <2>1, NextLate, NextDenied DEF Streams
<1>2. CASE UNCHANGED vars
  <2>1. /\ UNCHANGED <<main, hand, target, dests, queue, wpkt, pc, sock, dst, got>>
        /\ UNCHANGED <<inbox, link, srv, sent>>
    BY <1>2 DEF vars, mainVars, writerVars, destVars, serverVars
  <2>2. TypeOK /\ StreamInv /\ GivenInv /\ Pipe' = Pipe /\ Shifts(0, -1) /\ -1 \notin Ins
    BY <2>1, PipeSame, ShiftsNone, InTypes DEF IInv, Streams
  <2>3. \A c \in Conns : Receiving(c)' => Receiving(c) /\ Latest(c)' = Latest(c)
    BY <2>1 DEF Receiving, Latest
  <2>4. StreamInv' /\ GivenInv'
    BY <2>1, <2>2, <2>3, StreamsMove
  <2>5. HandInv' /\ LateInv' /\ DeniedInv' /\ SendsTo'
    BY <2>1, <2>2 DEF Streams, HandInv, LateInv, DeniedInv, SendsTo, Early
  <2> QED
    BY <2>4, <2>5 DEF Streams
<1> QED
  BY <1>1, <1>2

\* The inductive invariant behind the refinement: what is on its way to each
\* destination continues what it was given (server_conn.go:157-171, dest_conn.go).
THEOREM StreamsInvariant == Spec => [](WireInv /\ Streams)
<1>1. Init => WireInv /\ Streams
  BY InitWire, InitStreams
<1>2. (WireInv /\ Streams) /\ [Next]_vars => (WireInv /\ Streams)'
  BY NextWire, NextStreams DEF WireInv
<1> QED
  BY <1>1, <1>2, PTL DEF Spec

-----------------------------------------------------------------------------
(* Each step is a step of the abstract service, or none *)

Serves == [Service!Next]_Service!vars

LEMMA Stutters ==
  ASSUME UNCHANGED <<srv, sent, got, up, rcv>>, Over' = Over
  PROVE  Serves
  BY DEF Serves, Service!vars

LEMMA InitServes == Init => Service!Init
  BY DEF Init, Service!Init, Over, Done

LEMMA ServerServes ==
  ASSUME TypeOK, Server
  PROVE  Serves
<1>1. UNCHANGED <<got, up, rcv, main>>
  BY DEF Server, SrvCreate, SrvData, SrvDestroy, SrvControl, LinkDown, Sends, mainVars,
     destVars, serverVars
<1>2. CASE ~LinkDown
  <2>1. ~Over /\ Over' = Over
    BY <1>1, <1>2 DEF Server, SrvCreate, SrvData, SrvDestroy, SrvControl, Sends, Over, Done
  <2>2. ASSUME NEW c \in Conns, SrvCreate(c) PROVE Service!Request(c)
    BY <1>1, <2>1, <2>2 DEF SrvCreate, Service!Request, Service!Moves
  <2>3. ASSUME NEW c \in Conns, SrvData(c) PROVE Service!Send(c)
    BY <1>1, <2>1, <2>3 DEF SrvData, Service!Send
  <2>4. ASSUME NEW c \in Conns, SrvDestroy(c) PROVE Service!Close(c)
    BY <1>1, <2>1, <2>4 DEF SrvDestroy, Service!Close, Service!Moves
  <2>5. ASSUME NEW cmd \in {"NOISE", "STOP"}, SrvControl(cmd) PROVE Serves
    BY <1>1, <2>1, <2>5, Stutters DEF SrvControl
  <2> QED
    BY <1>2, <2>2, <2>3, <2>4, <2>5 DEF Server, Serves, Service!Next
<1>3. CASE LinkDown
  <2>1. UNCHANGED <<srv, sent>> /\ Over'
    BY <1>3 DEF LinkDown, serverVars, Over
  <2>2. CASE Over
    <3>1. Over' = Over
      BY <2>1, <2>2
    <3> QED
      BY <1>1, <2>1, <3>1, Stutters
  <2>3. CASE ~Over
    <3>1. Service!Cut
      BY <1>1, <2>1, <2>3 DEF Service!Cut
    <3> QED
      BY <3>1 DEF Serves, Service!Next
  <2> QED
    BY <2>2, <2>3
<1> QED
  BY <1>2, <1>3

\* What Deliver gives a destination is the chunk after the last it was given.
LEMMA DeliverGives ==
  ASSUME IInv, Streams, Deliver, got' # got
  PROVE  Service!Give(target)
<1> DEFINE c == target
<1>1. /\ c = hand.conn /\ c \in Conns /\ hand.n \in Nat
      /\ got' = [got EXCEPT ![c] = Append(got[c], <<c, hand.n>>)]
      /\ sock[c] = "open" /\ dst[c] # "gone" /\ main = "sending"
      /\ link' = link /\ main' = "reading" /\ UNCHANGED <<srv, sent, up, rcv>>
  BY DeliverOwn DEF Deliver, destVars, serverVars
<1>2. TypeOK /\ 0 \in Ins /\ IsData(In(0), c) /\ In(0) = hand /\ \A j \in Ins : ~(j < 0)
  <2>1. TypeOK /\ 0 \in Ins /\ In(0) = hand /\ \A j \in Ins : ~(j < 0)
    BY InTypes DEF IInv, Ins, In
  <2>2. IsData(hand, c)
    BY <1>1 DEF Streams, HandInv, IsData
  <2> QED
    BY <2>1, <2>2
<1>3. /\ srv[c] \in {"open", "closing"} /\ hand.n \in 1..sent[c]
  <2>1. srv[c] \in {"open", "closing", "ended"} /\ 1 <= hand.n /\ hand.n <= sent[c]
    BY <1>1, <1>2 DEF Streams, StreamInv
  <2>2. ~Quiet(c)
    BY <1>1 DEF IInv, SockInv, Quiet
  <2>3. srv[c] # "ended"
    BY <1>1, <2>2 DEF IInv, EndedInv
  <2>4. sent[c] \in Nat
    BY <1>1, <1>2 DEF TypeOK, ServerType
  <2> QED
    BY <1>1, <2>1, <2>3, <2>4
<1>4. got[c] # <<>> => hand.n = got[c][Len(got[c])][2] + 1
  <2>1. SUFFICES ASSUME got[c] # <<>> PROVE hand.n = Latest(c) + 1
    BY DEF Latest
  <2>2. Receiving(c)
    BY <1>1, <2>1 DEF Receiving
  <2> QED
    BY <1>1, <1>2, <2>2 DEF Streams, GivenInv
<1>5. Over' = Over
  BY <1>1 DEF Over, Done
<1> QED
  BY <1>1, <1>3, <1>4, <1>5 DEF Service!Give, Service!Open

LEMMA RunServes ==
  ASSUME IInv, Streams, Run
  PROVE  Serves
<1>1. UNCHANGED <<srv, sent, up, rcv, link>>
  BY DEF Run, HandlePacket, HandleCreate, HandleDestroy, HandleData, HandleNoise, HandleStop,
     Deny, DoClose, Deliver, ReadError, CloseDests, HangUp, Takes, destVars, serverVars
<1>2. CASE got' = got
  <2>1. Over => Over'
    BY <1>1
    DEF Run, HandlePacket, HandleCreate, HandleDestroy, HandleData, HandleNoise, HandleStop,
       Deny, DoClose, Deliver, ReadError, CloseDests, HangUp, Takes, mainVars, Over, Done
  <2>2. CASE Over' = Over
    BY <1>1, <1>2, <2>2, Stutters
  <2>3. CASE ~Over /\ Over'
    <3>1. Service!Cut
      BY <1>1, <1>2, <2>3 DEF Service!Cut
    <3> QED
      BY <3>1 DEF Serves, Service!Next
  <2> QED
    <3>1. Over \in BOOLEAN /\ Over' \in BOOLEAN
      BY DEF Over
    <3> QED
      BY <2>1, <2>2, <2>3, <3>1
<1>3. CASE got' # got
  <2>1. Deliver
    BY <1>3
    DEF Run, HandlePacket, HandleCreate, HandleDestroy, HandleData, HandleNoise, HandleStop,
       Deny, DoClose, ReadError, CloseDests, HangUp, Takes
  <2>2. target \in Conns /\ Service!Give(target)
    BY <1>3, <2>1, DeliverOwn, DeliverGives
  <2> QED
    BY <2>2 DEF Serves, Service!Next
<1> QED
  BY <1>2, <1>3

LEMMA GoroutineServes ==
  ASSUME IInv, NEW c \in Conns, Goroutine(c) \/ Destination(c)
  PROVE  Serves
<1>1. UNCHANGED <<srv, sent, rcv, link, main, got>> /\ Over' = Over
  BY DEF Goroutine, Destination, Dial, Refuse, Answer, Register, ReadChunk, Forward, ReadFails,
     Report, Remove, DestCloses, OthersUnchanged, mainVars, serverVars, Over, Done
<1>2. CASE ReadChunk(c)
  <2>1. ~Quiet(c)
    BY <1>2 DEF ReadChunk, Quiet
  <2>2. srv[c] \in {"requested", "open", "closing"}
    BY <2>1, BusyActive DEF Active, IInv, TypeOK, ServerType
  <2>3. Service!Read(c)
    BY <1>1, <1>2, <2>2 DEF ReadChunk, Service!Read, Service!Open
  <2> QED
    BY <2>3 DEF Serves, Service!Next
<1>3. CASE ~ReadChunk(c)
  <2>1. up' = up
    BY <1>3 DEF Goroutine, Destination, Dial, Refuse, Answer, Register, Forward, ReadFails,
       Report, Remove, DestCloses
  <2> QED
    BY <1>1, <2>1, Stutters
<1> QED
  BY <1>2, <1>3

LEMMA SendServes ==
  ASSUME WireInv, DeniedInv, WriterSend
  PROVE  Serves
<1> DEFINE c == wpkt.conn
<1>0. TypeOK /\ IInv /\ OrderInv /\ writer = "writing"
  BY DEF WriterSend, WireInv, IInv, Wired, Live
<1>1. UNCHANGED <<sent, got, up, link, main>> /\ Over' = Over /\ (Done => Over)
  BY DEF WriterSend, mainVars, destVars, Over, Done
<1>2. wpkt \in ToServer /\ wpkt \in Pipe /\ Expected(wpkt)
  BY <1>0, ReceivesHead, HeadExpected DEF Pipe
<1>3. CASE wpkt.cmd \in {"KEEPALIVE", "RENEW"}
  BY <1>0, <1>1, <1>3, ReceivesHead, Stutters
<1>4. CASE wpkt.cmd = "OK"
  <2>1. c \in Conns /\ srv[c] = "requested" /\ srv' = [srv EXCEPT ![c] = "open"] /\ rcv' = rcv
    BY <1>0, <1>2, <1>4, ReceivesHead DEF Expected, Awaited
  <2>2. c \notin Denied
    BY <1>2, <1>4 DEF DeniedInv
  <2>3. Service!Accept(c)
    BY <1>1, <2>1, <2>2 DEF Service!Accept, Service!Moves
  <2> QED
    BY <2>1, <2>3 DEF Serves, Service!Next
<1>5. CASE wpkt.cmd = "FAIL"
  <2>1. c \in Conns /\ srv[c] = "requested" /\ srv' = [srv EXCEPT ![c] = "ended"] /\ rcv' = rcv
    BY <1>0, <1>2, <1>5, ReceivesHead DEF Expected, Awaited
  <2>2. Service!Refuse(c)
    BY <1>1, <2>1 DEF Service!Refuse, Service!Moves
  <2> QED
    BY <2>1, <2>2 DEF Serves, Service!Next
<1>6. CASE wpkt.cmd = "DESTROY"
  <2>1. /\ c \in Conns /\ srv[c] \in {"open", "closing"} /\ (rcv[c] = up[c] \/ Over)
        /\ srv' = [srv EXCEPT ![c] = "ended"] /\ rcv' = rcv
    BY <1>0, <1>1, <1>2, <1>6, ReceivesHead DEF Expected, Awaited
  <2>2. Service!End(c)
    BY <1>1, <2>1 DEF Service!End, Service!Open, Service!Moves
  <2> QED
    BY <2>1, <2>2 DEF Serves, Service!Next
<1>7. CASE wpkt.cmd = "DATA"
  <2>1. /\ c \in Conns /\ srv[c] \in {"open", "closing"} /\ srv' = srv
        /\ wpkt.n = rcv[c] + 1 /\ rcv' = [rcv EXCEPT ![c] = wpkt.n]
    BY <1>0, <1>2, <1>7, ReceivesHead DEF Expected, Awaited
  <2>2. 0 \in Slots /\ Slot(0) = wpkt /\ IsData(wpkt, c)
    BY <1>0, <1>7 DEF Slots, Slot, IsData, TypeOK, PipeType
  <2>3. rcv[c] < wpkt.n /\ wpkt.n <= Enqueued(c)
    BY <1>0, <2>1, <2>2 DEF OrderInv, ChunkInv
  <2>4. up[c] \in Nat /\ rcv[c] \in Nat
    BY <1>0, <2>1 DEF TypeOK, ConnType, ServerType
  <2>5. rcv[c] < up[c]
    BY <2>1, <2>3, <2>4 DEF Enqueued
  <2>6. Service!Carry(c)
    BY <1>1, <2>1, <2>5 DEF Service!Carry, Service!Open
  <2> QED
    BY <2>1, <2>6 DEF Serves, Service!Next
<1> QED
  BY <1>2, <1>3, <1>4, <1>5, <1>6, <1>7 DEF ToServer

LEMMA NextServes == WireInv /\ Streams /\ [Next]_vars => Serves
<1> SUFFICES ASSUME WireInv, Streams, [Next]_vars PROVE Serves
  OBVIOUS
<1>0. IInv /\ TypeOK /\ DeniedInv
  BY DEF WireInv, IInv, Streams
<1>1. CASE UNCHANGED vars
  <2>1. UNCHANGED <<srv, sent, got, up, rcv, link, main>> /\ Over' = Over
    BY <1>1 DEF vars, mainVars, destVars, serverVars, Over, Done
  <2> QED
    BY <2>1, Stutters
<1>2. CASE (WriteLoop \/ KeepaliveLoop) /\ ~WriterSend
  <2>1. UNCHANGED <<srv, sent, got, up, rcv, link, main>> /\ Over' = Over
    BY <1>2 DEF WriteLoop, KeepaliveLoop, WriterTake, WriterFail, WriterStop, KeeperTick,
       KeeperSend, KeeperStop, mainVars, destVars, serverVars, Over, Done
  <2> QED
    BY <2>1, Stutters
<1>3. CASE WriterSend
  BY <1>0, <1>3, SendServes
<1>4. CASE Next
  BY <1>0, <1>2, <1>3, <1>4, ServerServes, RunServes, GoroutineServes DEF Next
<1> QED
  BY <1>1, <1>4

\* Tunnel implements ProxyService: the goroutines, the queue and the map of one
\* connection add up to one service per session (ServerConn.Run, writeLoop,
\* dialAndRegister, readLoop): accepted or refused, never accepted against the
\* access list, chunks carried in order both ways, ended once and after the last.
THEOREM ServesSessionsHolds == Spec => ServesSessions
<1>1. Init => Service!Init
  BY InitServes
<1>2. WireInv /\ Streams /\ [Next]_vars => [Service!Next]_Service!vars
  BY NextServes DEF Serves
<1> QED
  BY <1>1, <1>2, StreamsInvariant, PTL DEF Spec, ServesSessions, Service!Spec
=============================================================================
