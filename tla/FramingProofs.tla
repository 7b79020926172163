---------------------------- MODULE FramingProofs ----------------------------
(***************************************************************************)
(* Framing implements PacketChannel, for every base, every set of messages *)
(* and every way of cutting the byte stream into reads.  Of the codec: a   *)
(* message encoded, framed, unframed and parsed is the message again.  Of  *)
(* the loop that cuts the stream, a recursive function: an induction on    *)
(* the bytes left to read, with the places where the frames begin.         *)
(***************************************************************************)
EXTENDS Framing, WellFoundedInduction, TLAPS

-----------------------------------------------------------------------------
(* Induction over the natural numbers, for sets *)

\* A set of natural numbers has a least element.
LEMMA Smallest ==
  ASSUME NEW T, T \subseteq Nat, T # {}
  PROVE  \E m \in T : \A k \in T : m <= k
<1>1. PICK x \in T : \A y \in T : <<y, x>> \notin OpToRel(<, Nat)
  BY NatLessThanWellFounded, WFMin
<1>2. ASSUME NEW y \in T, y < x PROVE FALSE
  <2>1. <<y, x>> \in {ss \in Nat \X Nat : ss[1] < ss[2]}
    BY <1>2
  <2> QED
    BY <1>1, <2>1 DEF OpToRel
<1> QED
  BY <1>2

\* A set with 0 that is closed under successor holds every natural number.
LEMMA SetInduction ==
  ASSUME NEW S, 0 \in S, \A n \in Nat : n \in S => n + 1 \in S
  PROVE  \A n \in Nat : n \in S
<1>1. SUFFICES ASSUME Nat \ S # {} PROVE FALSE
  OBVIOUS
<1>2. PICK m \in Nat \ S : \A k \in Nat \ S : m <= k
  BY <1>1, Smallest
<1>3. m # 0 /\ m - 1 \in Nat
  BY <1>2
<1>4. m - 1 \in S
  BY <1>2, <1>3
<1> QED
  BY <1>2, <1>3, <1>4

-----------------------------------------------------------------------------
(* Two bytes and a number *)

LEMMA BaseIs ==
  Base \in Nat /\ Base > 9
BY FramingAssumption DEF CmdRenewResponse

LEMMA Division ==
  ASSUME NEW n \in Nat, NEW d \in Nat, d > 0
  PROVE  n \div d \in Nat /\ n % d \in 0..(d - 1) /\ n = d * (n \div d) + (n % d)
OBVIOUS

LEMMA SmallRemainder ==
  ASSUME NEW n \in Nat, NEW d \in Nat, n < d
  PROVE  n % d = n
OBVIOUS

LEMMA SmallQuotient ==
  ASSUME NEW q \in Nat, NEW d \in Nat, NEW n \in Nat, d > 0, q * d <= n, n < d * d
  PROVE  q < d
<1>1. SUFFICES ASSUME q >= d PROVE FALSE
  OBVIOUS
<1>2. q * d >= d * d
  BY <1>1
<1> QED
  BY <1>2

\* GetUint16 undoes PutUint16.
LEMMA RoundTrip ==
  ASSUME NEW n \in Uint16
  PROVE  /\ PutUint16(n) \in Seq(Byte) /\ Len(PutUint16(n)) = 2
         /\ PutUint16(n)[1] * Base + PutUint16(n)[2] = n
<1>1. n \in Nat /\ n < Base * Base /\ Base \in Nat /\ Base > 0
  BY BaseIs DEF Uint16
<1>2. /\ n \div Base \in Nat /\ n % Base \in 0..(Base - 1)
      /\ n = Base * (n \div Base) + (n % Base)
  BY <1>1, Division
<1>3. n \div Base < Base
  BY <1>1, <1>2, SmallQuotient
<1>4. (n \div Base) % Base = n \div Base
  BY <1>1, <1>2, <1>3, SmallRemainder
<1>5. PutUint16(n) = <<n \div Base, n % Base>>
  BY <1>4 DEF PutUint16
<1>6. (n \div Base) * Base + (n % Base) = n
  BY <1>1, <1>2
<1>7. n \div Base \in Byte /\ n % Base \in Byte
  BY <1>1, <1>2, <1>3 DEF Byte
<1> QED
  BY <1>5, <1>6, <1>7

LEMMA TwoBytes ==
  ASSUME NEW b \in Bytes, Len(b) >= 2
  PROVE  GetUint16(b) \in Nat
<1>1. b[1] \in Nat /\ b[2] \in Nat
  BY BaseIs DEF Bytes, Byte
<1> QED
  BY <1>1, BaseIs DEF GetUint16

-----------------------------------------------------------------------------
(* Sequences of bytes *)

LEMMA AfterIs ==
  ASSUME NEW S, NEW b \in Seq(S), NEW n \in 0..Len(b)
  PROVE  /\ After(b, n) \in Seq(S) /\ Len(After(b, n)) = Len(b) - n
         /\ \A j \in 1..(Len(b) - n) : After(b, n)[j] = b[n + j]
BY DEF After

LEMMA SameSeq ==
  ASSUME NEW S, NEW a \in Seq(S), NEW b \in Seq(S), Len(a) = Len(b),
         \A j \in 1..Len(a) : a[j] = b[j]
  PROVE  a = b
OBVIOUS

LEMMA ConcatIs ==
  ASSUME NEW S, NEW a \in Seq(S), NEW b \in Seq(S)
  PROVE  /\ a \o b \in Seq(S) /\ Len(a \o b) = Len(a) + Len(b)
         /\ Len(a) \in Nat /\ Len(b) \in Nat
         /\ \A i \in 1..Len(a) : (a \o b)[i] = a[i]
         /\ \A i \in 1..Len(b) : (a \o b)[Len(a) + i] = b[i]
OBVIOUS

LEMMA OneIs ==
  ASSUME NEW S, NEW s \in S
  PROVE  <<s>> \in Seq(S) /\ Len(<<s>>) = 1 /\ <<s>>[1] = s
OBVIOUS

LEMMA AfterConcat ==
  ASSUME NEW S, NEW a \in Seq(S), NEW b \in Seq(S)
  PROVE  After(a \o b, Len(a)) = b
<1> DEFINE d == a \o b
           n == Len(a)
<1>1. /\ d \in Seq(S) /\ Len(d) = n + Len(b) /\ n \in Nat /\ Len(b) \in Nat
      /\ \A j \in 1..Len(b) : d[n + j] = b[j]
  OBVIOUS
<1> HIDE DEF d, n
<1>2. n \in 0..Len(d) /\ Len(d) - n = Len(b)
  BY <1>1
<1>3. /\ After(d, n) \in Seq(S) /\ Len(After(d, n)) = Len(d) - n
      /\ \A j \in 1..(Len(d) - n) : After(d, n)[j] = d[n + j]
  BY <1>1, <1>2, AfterIs
<1> DEFINE c == After(d, n)
<1> HIDE DEF c
<1>4. c \in Seq(S) /\ Len(c) = Len(b) /\ \A j \in 1..Len(c) : c[j] = b[j]
  BY <1>1, <1>2, <1>3 DEF c
<1>5. c = b
  BY <1>4, SameSeq
<1> QED
  BY <1>5 DEF c, d, n

\* Cut in two and put together.
LEMMA CutInTwo ==
  ASSUME NEW S, NEW b \in Seq(S), NEW n \in 0..Len(b)
  PROVE  SubSeq(b, 1, n) \in Seq(S) /\ SubSeq(b, 1, n) \o After(b, n) = b
<1>1. /\ SubSeq(b, 1, n) \in Seq(S) /\ Len(SubSeq(b, 1, n)) = n
      /\ \A j \in 1..n : SubSeq(b, 1, n)[j] = b[j]
  OBVIOUS
<1>2. /\ After(b, n) \in Seq(S) /\ Len(After(b, n)) = Len(b) - n
      /\ \A j \in 1..(Len(b) - n) : After(b, n)[j] = b[n + j]
  BY AfterIs
<1> DEFINE c == SubSeq(b, 1, n) \o After(b, n)
<1>3. /\ c \in Seq(S) /\ Len(c) = Len(b)
      /\ \A j \in 1..Len(b) : c[j] = b[j]
  <2>1. c \in Seq(S) /\ Len(c) = Len(b)
    BY <1>1, <1>2
  <2>2. ASSUME NEW j \in 1..Len(b) PROVE c[j] = b[j]
    <3>1. CASE j <= n
      <4>1. c[j] = SubSeq(b, 1, n)[j]
        BY <1>1, <1>2, <3>1
      <4> QED
        BY <1>1, <3>1, <4>1
    <3>2. CASE j > n
      <4>1. PICK k \in 1..(Len(b) - n) : j = n + k
        BY <3>2
      <4> QED
        BY <1>1, <1>2, <4>1
    <3>3. j <= n \/ j > n
      OBVIOUS
    <3> HIDE DEF c
    <3> QED
      BY <3>1, <3>2, <3>3
  <2> QED
    BY <2>1, <2>2
<1> HIDE DEF c
<1>4. c = b
  BY <1>3, SameSeq
<1> QED
  BY <1>1, <1>4 DEF c

-----------------------------------------------------------------------------
(* The codec *)

LEMMA Commands ==
  /\ CmdCreateRequest = 1 /\ CmdCreateResponse = 2 /\ CmdDestroy = 3 /\ CmdData = 4
  /\ CmdReject = 5 /\ CmdReconnect = 6 /\ CmdKeepalive = 7 /\ CmdRenewRequest = 8
  /\ CmdRenewResponse = 9
BY DEF CmdCreateRequest, CmdCreateResponse, CmdDestroy, CmdData, CmdReject, CmdReconnect,
       CmdKeepalive, CmdRenewRequest, CmdRenewResponse

\* A connection id, a byte or nothing, and a tail: the tail is what is after it.
LEMMA IdAndTail ==
  ASSUME NEW n \in Uint16, NEW t \in Bytes
  PROVE  LET p == PutUint16(n) \o t
         IN  p \in Bytes /\ Len(p) >= 2 /\ GetUint16(p) = n /\ After(p, 2) = t
<1> DEFINE u == PutUint16(n)
<1>1. u \in Seq(Byte) /\ Len(u) = 2 /\ u[1] * Base + u[2] = n
  BY RoundTrip
<1> HIDE DEF u
<1>2. t \in Seq(Byte)
  BY DEF Bytes
<1> DEFINE p == u \o t
<1>3. /\ p \in Seq(Byte) /\ Len(p) = Len(u) + Len(t) /\ Len(t) \in Nat
      /\ \A i \in 1..Len(u) : p[i] = u[i]
  BY <1>1, <1>2, ConcatIs, ZenonT(40)
<1>4. After(p, Len(u)) = t
  BY <1>1, <1>2, AfterConcat
<1> HIDE DEF p
<1>5. p[1] = u[1] /\ p[2] = u[2] /\ Len(p) >= 2
  BY <1>1, <1>3
<1>6. GetUint16(p) = n
  BY <1>1, <1>5 DEF GetUint16
<1>7. p \in Bytes /\ After(p, 2) = t
  BY <1>1, <1>3, <1>4 DEF Bytes
<1> QED
  BY <1>5, <1>6, <1>7 DEF u, p

LEMMA IdByteAndTail ==
  ASSUME NEW n \in Uint16, NEW s \in Byte, NEW t \in Bytes
  PROVE  LET p == PutUint16(n) \o <<s>> \o t
         IN  p \in Bytes /\ Len(p) = 3 + Len(t) /\ GetUint16(p) = n /\ p[3] = s /\ After(p, 3) = t
<1> DEFINE u == PutUint16(n)
           v == u \o <<s>>
<1>1. u \in Seq(Byte) /\ Len(u) = 2 /\ u[1] * Base + u[2] = n
  BY RoundTrip
<1> HIDE DEF u
<1>2. t \in Seq(Byte)
  BY DEF Bytes
<1>3. /\ v \in Seq(Byte) /\ Len(v) = 3
      /\ \A i \in 1..2 : v[i] = u[i]
      /\ \A i \in 1..1 : v[2 + i] = s
  BY <1>1, OneIs, ConcatIs, SMTT(30)
<1> HIDE DEF v
<1> DEFINE p == v \o t
<1>4. /\ p \in Seq(Byte) /\ Len(p) = 3 + Len(t) /\ Len(t) \in Nat
      /\ \A i \in 1..3 : p[i] = v[i]
  <2>0. v \in Seq(Byte) /\ t \in Seq(Byte)
    BY <1>2, <1>3
  <2>1. /\ p \in Seq(Byte) /\ Len(p) = Len(v) + Len(t) /\ Len(t) \in Nat
        /\ \A i \in 1..Len(v) : p[i] = v[i]
    BY <2>0, ConcatIs
  <2> HIDE DEF p
  <2> QED
    BY <1>3, <2>1
<1>5. After(p, Len(v)) = t
  BY <1>2, <1>3, AfterConcat
<1> HIDE DEF p
<1>6. p[1] = u[1] /\ p[2] = u[2] /\ p[3] = s
  BY <1>3, <1>4
<1>7. GetUint16(p) = n
  BY <1>1, <1>6 DEF GetUint16
<1>8. p \in Bytes /\ After(p, 3) = t
  BY <1>3, <1>4, <1>5 DEF Bytes
<1> QED
  BY <1>4, <1>6, <1>7, <1>8 DEF u, v, p

\* The first slash behind the id is the one between host and port.
LEMMA HostAndPort ==
  ASSUME NEW n \in Uint16, NEW h \in Seq(Byte \ {Slash}), NEW q \in Bytes
  PROVE  LET p == PutUint16(n) \o h \o <<Slash>> \o q
         IN  p \in Bytes /\ ParseCreateRequest(p) = CreateRequest(n, h, q)
<1> DEFINE u == PutUint16(n)
           a == u \o h
           b == a \o <<Slash>>
           p == b \o q
           k == Len(h)
           slashes == {i \in 3..Len(p) : p[i] = Slash}
           first == CHOOSE i \in slashes : \A j \in slashes : i <= j
<1>1. u \in Seq(Byte) /\ Len(u) = 2 /\ u[1] * Base + u[2] = n
  BY RoundTrip
<1> HIDE DEF u
<1>2. q \in Seq(Byte) /\ h \in Seq(Byte) /\ k \in Nat /\ Len(q) \in Nat /\ Slash \in Byte
  <2>1. \A i \in 1..Len(h) : h[i] \in Byte
    OBVIOUS
  <2>2. h \in Seq(Byte)
    BY <2>1
  <2> QED
    BY <2>2, BaseIs DEF Bytes, Slash, Byte
<1>3. /\ a \in Seq(Byte) /\ Len(a) = 2 + k /\ a[1] = u[1] /\ a[2] = u[2]
      /\ \A i \in 1..k : a[2 + i] = h[i]
  <2>0. u \in Seq(Byte) /\ h \in Seq(Byte)
    BY <1>1, <1>2
  <2>1. /\ a \in Seq(Byte) /\ Len(a) = Len(u) + k
        /\ \A i \in 1..Len(u) : a[i] = u[i]
        /\ \A i \in 1..k : a[Len(u) + i] = h[i]
    BY <2>0, ConcatIs
  <2> HIDE DEF a
  <2> QED
    BY <1>1, <1>2, <2>1
<1> HIDE DEF a
<1>4. /\ b \in Seq(Byte) /\ Len(b) = 3 + k /\ b[1] = a[1] /\ b[2] = a[2]
      /\ \A i \in 1..k : b[2 + i] = a[2 + i]
      /\ b[3 + k] = Slash
  <2>1. /\ b \in Seq(Byte) /\ Len(b) = Len(a) + 1
        /\ \A i \in 1..Len(a) : b[i] = a[i]
        /\ \A i \in 1..1 : b[Len(a) + i] = Slash
    BY <1>2, <1>3, OneIs, ConcatIs
  <2> HIDE DEF b
  <2>2. \A i \in 1..(2 + k) : b[i] = a[i]
    BY <1>3, <2>1
  <2>3. b[3 + k] = Slash
    <3>1. b[Len(a) + 1] = Slash
      BY <2>1
    <3> QED
      BY <1>2, <1>3, <3>1
  <2> QED
    BY <1>2, <1>3, <2>1, <2>2, <2>3
<1> HIDE DEF b
<1>5. /\ p \in Seq(Byte) /\ Len(p) = 3 + k + Len(q)
      /\ \A i \in 1..(3 + k) : p[i] = b[i]
  <2>0. b \in Seq(Byte) /\ q \in Seq(Byte)
    BY <1>2, <1>4
  <2>1. /\ p \in Seq(Byte) /\ Len(p) = Len(b) + Len(q)
        /\ \A i \in 1..Len(b) : p[i] = b[i]
    BY <2>0, ConcatIs
  <2> HIDE DEF p
  <2> QED
    BY <1>2, <1>4, <2>1
<1>6. After(p, Len(b)) = q
  BY <1>2, <1>4, AfterConcat
<1> HIDE DEF p
<1>7. GetUint16(p) = n
  BY <1>1, <1>2, <1>3, <1>4, <1>5 DEF GetUint16
<1>8. ASSUME NEW i \in 1..k PROVE p[2 + i] = h[i] /\ h[i] # Slash
  <2>1. 2 + i \in 1..(3 + k) /\ h[i] \in Byte \ {Slash}
    BY <1>2
  <2> QED
    BY <1>3, <1>4, <1>5, <2>1
<1>9. 3 + k \in slashes /\ \A i \in slashes : 3 + k <= i
  <2>1. 3 + k \in 3..Len(p) /\ p[3 + k] = Slash
    BY <1>2, <1>4, <1>5
  <2>2. ASSUME NEW i \in 3..Len(p), p[i] = Slash, i < 3 + k PROVE FALSE
    <3>1. PICK j \in 1..k : i = 2 + j
      BY <1>2, <2>2
    <3> QED
      BY <1>8, <2>2, <3>1
  <2> QED
    BY <1>2, <2>1, <2>2
<1>10. first = 3 + k
  <2>1. first \in slashes /\ \A j \in slashes : first <= j
    BY <1>9
  <2> HIDE DEF first
  <2>2. first <= 3 + k /\ 3 + k <= first /\ first \in Int
    BY <1>9, <2>1
  <2> QED
    BY <1>2, <2>2
<1>11. SubSeq(p, 3, first - 1) = h
  <2> DEFINE c == SubSeq(p, 3, 2 + k)
  <2>1. /\ c \in Seq(Byte) /\ Len(c) = k
        /\ \A i \in 1..k : c[i] = p[2 + i]
    BY <1>2, <1>5
  <2> HIDE DEF c
  <2>2. c = h
    BY <1>2, <1>8, <2>1, SameSeq
  <2> HIDE DEF first
  <2>3. first - 1 = 2 + k
    BY <1>2, <1>10
  <2> QED
    BY <2>2, <2>3 DEF c
<1>12. slashes # {}
  BY <1>9
<1>13. After(p, first) = q
  BY <1>4, <1>6, <1>10
<1>14. ParseCreateRequest(p) = CreateRequest(GetUint16(p), SubSeq(p, 3, first - 1), After(p, first))
  BY <1>12 DEF ParseCreateRequest
<1> QED
  BY <1>5, <1>7, <1>11, <1>13, <1>14 DEF p, b, a, u, Bytes

\* The parser of a payload undoes its encoder.
LEMMA PayloadParses ==
  ASSUME NEW m \in Sayable
  PROVE  /\ m.cmd \in 1..9 /\ Payload(m) \in Bytes
         /\ Parse([cmd |-> m.cmd, payload |-> Payload(m)]) = m
<1> DEFINE pkt == [cmd |-> m.cmd, payload |-> Payload(m)]
<1> USE Commands
<1>0. pkt.cmd = m.cmd /\ pkt.payload = Payload(m)
  OBVIOUS
<1> HIDE DEF pkt
<1>1. CASE m \in [cmd : {CmdCreateRequest}, conn : Uint16, host : Seq(Byte \ {Slash}), port : Bytes]
  <2>1. /\ m.cmd = 1 /\ m.conn \in Uint16 /\ m.host \in Seq(Byte \ {Slash}) /\ m.port \in Bytes
        /\ m = [cmd |-> 1, conn |-> m.conn, host |-> m.host, port |-> m.port]
    BY <1>1
  <2>2. Payload(m) = PutUint16(m.conn) \o m.host \o <<Slash>> \o m.port
    BY <2>1, SMTT(30) DEF Payload, EncodeCreateRequest
  <2>3. /\ Payload(m) \in Bytes
        /\ ParseCreateRequest(Payload(m)) = CreateRequest(m.conn, m.host, m.port)
    BY <2>1, <2>2, HostAndPort
  <2>4. Parse(pkt) = ParseCreateRequest(Payload(m))
    BY <1>0, <2>1 DEF Parse
  <2>5. CreateRequest(m.conn, m.host, m.port) = m
    BY <2>1 DEF CreateRequest
  <2> QED
    BY <2>1, <2>3, <2>4, <2>5 DEF pkt
<1>2. CASE m \in [cmd : {CmdCreateResponse}, conn : Uint16, status : Byte, reason : Bytes]
  <2>1. /\ m.cmd = 2 /\ m.conn \in Uint16 /\ m.status \in Byte /\ m.reason \in Bytes
        /\ m = [cmd |-> 2, conn |-> m.conn, status |-> m.status, reason |-> m.reason]
    BY <1>2
  <2>2. Payload(m) = PutUint16(m.conn) \o <<m.status>> \o m.reason
    BY <2>1 DEF Payload, EncodeCreateResponse
  <2> DEFINE p == Payload(m)
  <2>3. /\ p \in Bytes /\ Len(p) = 3 + Len(m.reason) /\ GetUint16(p) = m.conn
        /\ p[3] = m.status /\ After(p, 3) = m.reason
    BY <2>1, <2>2, IdByteAndTail
  <2>4. Parse(pkt) = ParseCreateResponse(p)
    BY <1>0, <2>1 DEF Parse
  <2> HIDE DEF p
  <2>5. Len(m.reason) \in Nat
    BY <2>1 DEF Bytes
  <2>6. ~(Len(p) < 3)
    BY <2>3, <2>5
  <2>7. ParseCreateResponse(p) = CreateResponse(m.conn, m.status, m.reason)
    BY <2>3, <2>6 DEF ParseCreateResponse
  <2>8. CreateResponse(m.conn, m.status, m.reason) = m
    BY <2>1 DEF CreateResponse
  <2> QED
    BY <2>1, <2>3, <2>4, <2>7, <2>8 DEF p, pkt
<1>3. CASE m \in [cmd : {CmdDestroy}, conn : Uint16]
  <2>1. m.cmd = 3 /\ m.conn \in Uint16 /\ m = [cmd |-> 3, conn |-> m.conn]
    BY <1>3
  <2>2. Payload(m) = PutUint16(m.conn)
    BY <2>1 DEF Payload, EncodeDestroy
  <2>3. Parse(pkt) = ParseDestroy(Payload(m))
    BY <1>0, <2>1 DEF Parse
  <2>4. /\ PutUint16(m.conn) \in Bytes /\ ~(Len(PutUint16(m.conn)) < 2)
        /\ GetUint16(PutUint16(m.conn)) = m.conn
    BY <2>1, RoundTrip DEF Bytes, GetUint16
  <2>5. ParseDestroy(PutUint16(m.conn)) = Destroy(m.conn)
    BY <2>4 DEF ParseDestroy
  <2>6. Destroy(m.conn) = m
    BY <2>1 DEF Destroy
  <2> QED
    BY <2>1, <2>2, <2>3, <2>4, <2>5, <2>6 DEF pkt
<1>4. CASE m \in [cmd : {CmdData}, conn : Uint16, data : Bytes]
  <2>1. /\ m.cmd = 4 /\ m.conn \in Uint16 /\ m.data \in Bytes
        /\ m = [cmd |-> 4, conn |-> m.conn, data |-> m.data]
    BY <1>4
  <2>2. Payload(m) = PutUint16(m.conn) \o m.data
    BY <2>1 DEF Payload, EncodeData
  <2> DEFINE p == Payload(m)
  <2>3. p \in Bytes /\ Len(p) >= 2 /\ GetUint16(p) = m.conn /\ After(p, 2) = m.data
    BY <2>1, <2>2, IdAndTail
  <2>4. Parse(pkt) = ParseData(p)
    BY <1>0, <2>1 DEF Parse
  <2> HIDE DEF p
  <2>5. Len(p) \in Nat
    BY <2>3 DEF Bytes
  <2>6. ParseData(p) = Data(m.conn, m.data)
    BY <2>3, <2>5 DEF ParseData
  <2>7. Data(m.conn, m.data) = m
    BY <2>1 DEF Data
  <2> QED
    BY <2>1, <2>3, <2>4, <2>6, <2>7 DEF p, pkt
<1>5. CASE m \in [cmd : {CmdRenewRequest}, identifier : Bytes]
  <2>1. m.cmd = 8 /\ m.identifier \in Bytes /\ m = [cmd |-> 8, identifier |-> m.identifier]
    BY <1>5
  <2>2. Payload(m) = m.identifier
    BY <2>1 DEF Payload, EncodeRenewRequest
  <2>3. Parse(pkt) = ParseRenewRequest(m.identifier)
    BY <1>0, <2>1, <2>2 DEF Parse
  <2>4. ParseRenewRequest(m.identifier) = m
    BY <2>1 DEF ParseRenewRequest, RenewRequest
  <2> QED
    BY <2>1, <2>2, <2>3, <2>4 DEF pkt
<1>6. CASE m \in [cmd : {CmdRenewResponse}, status : Byte, body : Bytes]
  <2>1. /\ m.cmd = 9 /\ m.status \in Byte /\ m.body \in Bytes
        /\ m = [cmd |-> 9, status |-> m.status, body |-> m.body]
    BY <1>6
  <2>2. Payload(m) = <<m.status>> \o m.body
    BY <2>1 DEF Payload, EncodeRenewResponse
  <2> DEFINE a == <<m.status>>
             b == m.body
             p == a \o b
  <2>3. a \in Seq(Byte) /\ Len(a) = 1 /\ a[1] = m.status
    BY <2>1, OneIs
  <2>4. b \in Seq(Byte)
    BY <2>1 DEF Bytes
  <2> HIDE DEF a, b
  <2>5. /\ p \in Seq(Byte) /\ Len(p) = Len(a) + Len(b) /\ Len(b) \in Nat
        /\ \A i \in 1..Len(a) : p[i] = a[i]
    BY <2>3, <2>4, ConcatIs
  <2>6. After(p, Len(a)) = b
    BY <2>3, <2>4, AfterConcat
  <2> HIDE DEF p
  <2>7. p \in Bytes /\ ~(Len(p) < 1) /\ p[1] = m.status /\ After(p, 1) = m.body
    BY <2>3, <2>5, <2>6 DEF b, Bytes
  <2>8. Payload(m) = p
    BY <2>2 DEF p, a, b
  <2>9. Parse(pkt) = ParseRenewResponse(p)
    BY <1>0, <2>1, <2>8 DEF Parse
  <2>10. ParseRenewResponse(p) = RenewResponse(m.status, m.body)
    BY <2>7 DEF ParseRenewResponse
  <2>11. RenewResponse(m.status, m.body) = m
    BY <2>1 DEF RenewResponse
  <2> QED
    BY <2>1, <2>7, <2>8, <2>9, <2>10, <2>11 DEF pkt
<1>7. CASE m \in [cmd : {CmdReject, CmdReconnect, CmdKeepalive}]
  <2>1. m.cmd \in {5, 6, 7} /\ m = [cmd |-> m.cmd]
    BY <1>7
  <2>2. Payload(m) = <<>>
    BY <2>1 DEF Payload
  <2>3. Parse(pkt) = Signal(m.cmd)
    BY <1>0, <2>1 DEF Parse
  <2>4. Signal(m.cmd) = m
    BY <2>1 DEF Signal
  <2>5. <<>> \in Bytes
    BY DEF Bytes
  <2> QED
    BY <2>1, <2>2, <2>3, <2>4, <2>5 DEF pkt
<1> QED
  BY <1>1, <1>2, <1>3, <1>4, <1>5, <1>6, <1>7 DEF Sayable

\* A frame says how long it is, and its packet is the message's.
LEMMA FrameIs ==
  ASSUME NEW m \in Messages
  PROVE  /\ m \notin Wedges
         /\ Encode(m) \in Bytes /\ Len(Encode(m)) >= 3
         /\ GetUint16(Encode(m)) = Len(Encode(m))
         /\ FirstPacket(Encode(m)) = [cmd |-> m.cmd, payload |-> Payload(m)]
<1> DEFINE l == Payload(m)
           e == Encode(m)
<1>1. m.cmd \in 1..9 /\ l \in Bytes
  BY PayloadParses, FramingAssumption
<1>2. m \notin Wedges
  BY <1>1, FramingAssumption
<1> HIDE DEF l
<1>3. Len(e) \in Uint16
  BY FramingAssumption
<1>4. e = PutUint16(2 + 1 + Len(l)) \o <<m.cmd>> \o l
  BY <1>2 DEF Encode, EncodePacket, l
<1>5. m.cmd \in Byte /\ Len(l) \in Nat
  BY <1>1, BaseIs DEF Byte, Bytes
<1> HIDE DEF e
<1>6. 2 + 1 + Len(l) \in Uint16
  <2> DEFINE u == PutUint16(2 + 1 + Len(l))
             v == u \o <<m.cmd>>
  <2>1. u \in Seq(Byte) /\ Len(u) = 2
    <3>1. \A n \in Nat : PutUint16(n) \in Seq(Byte) /\ Len(PutUint16(n)) = 2
      <4>1. SUFFICES ASSUME NEW n \in Nat PROVE PutUint16(n) \in Seq(Byte) /\ Len(PutUint16(n)) = 2
        OBVIOUS
      <4>2. n \div Base \in Nat /\ n % Base \in Byte
        BY BaseIs, Division DEF Byte
      <4>3. (n \div Base) % Base \in Byte
        BY <4>2, BaseIs, Division DEF Byte
      <4> QED
        BY <4>2, <4>3 DEF PutUint16
    <3>2. 2 + 1 + Len(l) \in Nat
      BY <1>5
    <3> QED
      BY <3>1, <3>2
  <2> HIDE DEF u
  <2>2. v \in Seq(Byte) /\ Len(v) = 3
    <3>1. <<m.cmd>> \in Seq(Byte) /\ Len(<<m.cmd>>) = 1
      BY <1>5, OneIs
    <3>2. v \in Seq(Byte) /\ Len(v) = Len(u) + Len(<<m.cmd>>)
      BY <2>1, <3>1, ConcatIs
    <3> HIDE DEF v
    <3> QED
      BY <2>1, <3>1, <3>2
  <2> HIDE DEF v
  <2>3. l \in Seq(Byte)
    BY <1>1 DEF Bytes
  <2>4. Len(v \o l) = Len(v) + Len(l)
    BY <2>2, <2>3, ConcatIs
  <2>5. e = v \o l
    BY <1>4 DEF v, u
  <2> QED
    BY <1>3, <1>5, <2>2, <2>4, <2>5
<1>7. /\ e \in Bytes /\ Len(e) = 3 + Len(l) /\ GetUint16(e) = 2 + 1 + Len(l)
      /\ e[3] = m.cmd /\ After(e, 3) = l
  BY <1>1, <1>4, <1>5, <1>6, IdByteAndTail
<1>8. SubSeq(e, 4, Len(e)) = l
  BY <1>7 DEF After
<1>9. GetUint16(e) = Len(e) /\ Len(e) >= 3
  BY <1>5, <1>7
<1>10. FirstPacket(e) = [cmd |-> m.cmd, payload |-> l]
  BY <1>7, <1>8, <1>9 DEF FirstPacket
<1> QED
  BY <1>2, <1>7, <1>9, <1>10 DEF e, l

-----------------------------------------------------------------------------
(* Where the frames begin in a stream of bytes *)

Sendable == Messages \cup Wedges

\* b is the frames of ms one after the other: frame k + 1 begins behind off[k].
Cut(b, ms, off) ==
  /\ off \in [0..Len(ms) -> Nat] /\ off[0] = 0 /\ off[Len(ms)] = Len(b)
  /\ \A k, l \in 0..Len(ms) : k <= l => off[k] <= off[l]
  /\ \A k \in 0..(Len(ms) - 1) :
       /\ off[k + 1] = off[k] + Len(Encode(ms[k + 1]))
       /\ \A j \in 1..Len(Encode(ms[k + 1])) : b[off[k] + j] = Encode(ms[k + 1])[j]

Carries(b, ms) == \E off : Cut(b, ms, off)

LEMMA EncodeIs ==
  ASSUME NEW m \in Sendable
  PROVE  /\ Encode(m) \in Bytes /\ Len(Encode(m)) \in Nat /\ Len(Encode(m)) >= 2
         /\ m \in Wedges => GetUint16(Encode(m)) < 3
<1>1. CASE m \in Messages
  <2>1. m \notin Wedges /\ Encode(m) \in Bytes /\ Len(Encode(m)) >= 3
    BY <1>1, FrameIs
  <2>2. Len(Encode(m)) \in Nat
    BY <2>1 DEF Bytes
  <2> QED
    BY <2>1, <2>2
<1>2. CASE m \in Wedges
  <2>1. Encode(m) = m.bytes /\ m.bytes \in Bytes /\ Len(m.bytes) >= 2 /\ GetUint16(m.bytes) < 3
    BY <1>2, FramingAssumption DEF Encode
  <2>2. Len(m.bytes) \in Nat
    BY <2>1 DEF Bytes
  <2> QED
    BY <2>1, <2>2
<1> QED
  BY <1>1, <1>2 DEF Sendable

LEMMA NothingCarries == Carries(<<>>, <<>>)
<1> DEFINE off == [k \in 0..0 |-> 0]
<1>1. Cut(<<>>, <<>>, off)
  BY DEF Cut
<1> QED
  BY <1>1 DEF Carries

\* One more frame is written behind the others.
LEMMA CarriesMore ==
  ASSUME NEW b \in Bytes, NEW ms \in Seq(Sendable), NEW m \in Sendable, Carries(b, ms)
  PROVE  Carries(b \o Encode(m), Append(ms, m))
<1>1. PICK off : Cut(b, ms, off)
  BY DEF Carries
<1> DEFINE e == Encode(m)
           c == b \o e
           more == Append(ms, m)
           L == Len(ms)
           at == [k \in 0..(L + 1) |-> IF k <= L THEN off[k] ELSE Len(b) + Len(e)]
<1>2. e \in Seq(Byte) /\ Len(e) \in Nat /\ b \in Seq(Byte) /\ Len(b) \in Nat /\ L \in Nat
  BY EncodeIs DEF Bytes
<1> HIDE DEF e
<1>3. /\ Len(c) = Len(b) + Len(e)
      /\ \A j \in 1..Len(b) : c[j] = b[j]
      /\ \A j \in 1..Len(e) : c[Len(b) + j] = e[j]
  BY <1>2, ConcatIs
<1> HIDE DEF c
<1>4. /\ Len(more) = L + 1 /\ more[L + 1] = m
      /\ \A k \in 1..L : more[k] = ms[k] /\ ms[k] \in Sendable
  OBVIOUS
<1> HIDE DEF more, L
<1>5. /\ off \in [0..L -> Nat] /\ off[0] = 0 /\ off[L] = Len(b)
      /\ \A k, l \in 0..L : k <= l => off[k] <= off[l]
      /\ \A k \in 0..(L - 1) :
           /\ off[k + 1] = off[k] + Len(Encode(ms[k + 1]))
           /\ \A j \in 1..Len(Encode(ms[k + 1])) : b[off[k] + j] = Encode(ms[k + 1])[j]
  BY <1>1 DEF Cut, L
<1>6. /\ at \in [0..(L + 1) -> Nat] /\ at[L + 1] = Len(b) + Len(e)
      /\ \A k \in 0..L : at[k] = off[k] /\ off[k] \in Nat /\ off[k] <= Len(b)
  BY <1>2, <1>5
<1> HIDE DEF at
<1>7. \A k, l \in 0..(L + 1) : k <= l => at[k] <= at[l]
  <2>1. SUFFICES ASSUME NEW k \in 0..(L + 1), NEW l \in 0..(L + 1), k <= l
                 PROVE  at[k] <= at[l]
    OBVIOUS
  <2>2. CASE l <= L
    BY <1>2, <1>5, <1>6, <2>1, <2>2
  <2>3. CASE l = L + 1 /\ k <= L
    BY <1>2, <1>6, <2>3, SMTT(30)
  <2>4. CASE l = L + 1 /\ k = L + 1
    BY <1>2, <1>6, <2>4
  <2> QED
    BY <1>2, <2>1, <2>2, <2>3, <2>4
<1>8. ASSUME NEW k \in 0..L
      PROVE  /\ at[k + 1] = at[k] + Len(Encode(more[k + 1]))
             /\ \A j \in 1..Len(Encode(more[k + 1])) : c[at[k] + j] = Encode(more[k + 1])[j]
  <2>1. CASE k = L
    <3>1. Encode(more[k + 1]) = e
      BY <1>4, <2>1 DEF e
    <3>2. at[k] = Len(b) /\ at[k + 1] = Len(b) + Len(e)
      BY <1>2, <1>5, <1>6, <2>1
    <3> QED
      BY <1>3, <3>1, <3>2
  <2>2. CASE k # L
    <3>1. k \in 0..(L - 1) /\ k + 1 \in 1..L /\ k + 1 \in 0..L
      BY <1>2, <2>2
    <3> DEFINE f == Encode(ms[k + 1])
    <3>2. more[k + 1] = ms[k + 1] /\ Len(f) \in Nat
      BY <1>4, <3>1, EncodeIs
    <3>3. /\ off[k + 1] = off[k] + Len(f)
          /\ \A j \in 1..Len(f) : b[off[k] + j] = f[j]
      BY <1>5, <3>1
    <3> HIDE DEF f
    <3>4. ASSUME NEW j \in 1..Len(f) PROVE c[at[k] + j] = f[j]
      <4>1. off[k] + j \in 1..Len(b)
        <5>1. off[k] \in Nat /\ off[k + 1] <= Len(b) /\ off[k + 1] \in Nat
          BY <1>6, <3>1
        <5> QED
          BY <1>2, <3>2, <3>3, <5>1
      <4> QED
        BY <1>3, <1>6, <3>3, <4>1
    <3>5. at[k + 1] = at[k] + Len(f)
      BY <1>6, <3>1, <3>3
    <3> QED
      BY <3>2, <3>4, <3>5 DEF f
  <2> QED
    BY <2>1, <2>2
<1>9. at[0] = 0
  BY <1>2, <1>5, <1>6
<1>10. Cut(c, more, at)
  <2>1. /\ at \in [0..Len(more) -> Nat] /\ at[0] = 0 /\ at[Len(more)] = Len(c)
        /\ \A k, l \in 0..Len(more) : k <= l => at[k] <= at[l]
    BY <1>3, <1>4, <1>6, <1>7, <1>9
  <2>2. Len(more) - 1 = L
    BY <1>2, <1>4
  <2> QED
    BY <1>8, <2>1, <2>2 DEF Cut
<1> QED
  BY <1>10 DEF Carries, c, e, more

\* The frames behind the first n.
LEMMA CarriesRest ==
  ASSUME NEW b \in Bytes, NEW ms \in Seq(Sendable), NEW off, Cut(b, ms, off), NEW n \in 0..Len(ms)
  PROVE  off[n] \in 0..Len(b) /\ Carries(After(b, off[n]), After(ms, n))
<1> DEFINE L == Len(ms)
           o == off[n]
           c == After(b, o)
           rest == After(ms, n)
           at == [k \in 0..(L - n) |-> off[n + k] - o]
<1>1. /\ L \in Nat /\ b \in Seq(Byte) /\ Len(b) \in Nat /\ n \in Nat /\ n <= L
  BY DEF Bytes
<1>2. /\ Len(rest) = L - n
      /\ \A j \in 1..(L - n) : rest[j] = ms[n + j]
  BY AfterIs
<1> HIDE DEF rest
<1>3. /\ off \in [0..L -> Nat] /\ off[0] = 0 /\ off[L] = Len(b)
      /\ \A k, l \in 0..L : k <= l => off[k] <= off[l]
      /\ \A k \in 0..(L - 1) :
           /\ off[k + 1] = off[k] + Len(Encode(ms[k + 1]))
           /\ \A j \in 1..Len(Encode(ms[k + 1])) : b[off[k] + j] = Encode(ms[k + 1])[j]
  BY DEF Cut
<1>4. o \in 0..Len(b)
  BY <1>1, <1>3
<1>5. /\ Len(c) = Len(b) - o
      /\ \A j \in 1..(Len(b) - o) : c[j] = b[o + j]
  BY <1>1, <1>4, AfterIs
<1> HIDE DEF c
<1>6. ASSUME NEW k \in 0..(L - n)
      PROVE  /\ at[k] = off[n + k] - o /\ at[k] \in Nat /\ n + k \in 0..L
             /\ off[n + k] \in Nat /\ off[n + k] <= Len(b)
  <2>1. n + k \in 0..L /\ n <= n + k /\ n + k <= L /\ n \in 0..L /\ L \in 0..L
    BY <1>1
  <2>2. /\ off[n + k] \in Nat /\ off[n] \in Nat
        /\ off[n] <= off[n + k] /\ off[n + k] <= off[L]
    BY <1>3, <2>1
  <2>3. at[k] = off[n + k] - off[n]
    OBVIOUS
  <2> HIDE DEF at
  <2>4. at[k] \in Nat
    BY <2>2, <2>3
  <2> QED
    BY <1>3, <2>1, <2>2, <2>3, <2>4
<1>7. /\ at \in [0..(L - n) -> Nat] /\ at[0] = 0 /\ at[L - n] = Len(b) - o
  <2>1. at \in [0..(L - n) -> Nat]
    BY <1>6
  <2>2. 0 \in 0..(L - n) /\ L - n \in 0..(L - n) /\ n + 0 = n /\ n + (L - n) = L
    BY <1>1
  <2> QED
    BY <1>3, <1>4, <1>6, <2>1, <2>2
<1> HIDE DEF at, o
<1>8. \A k, l \in 0..(L - n) : k <= l => at[k] <= at[l]
  BY <1>1, <1>3, <1>4, <1>6
<1>9. ASSUME NEW k \in 0..(L - n - 1)
      PROVE  /\ at[k + 1] = at[k] + Len(Encode(rest[k + 1]))
             /\ \A j \in 1..Len(Encode(rest[k + 1])) : c[at[k] + j] = Encode(rest[k + 1])[j]
  <2>1. /\ k \in 0..(L - n) /\ k + 1 \in 0..(L - n) /\ k + 1 \in 1..(L - n)
        /\ n + k \in 0..(L - 1) /\ n + (k + 1) = (n + k) + 1 /\ (n + k) + 1 \in 1..L
    BY <1>1
  <2> DEFINE f == Encode(ms[(n + k) + 1])
  <2>2. rest[k + 1] = ms[(n + k) + 1] /\ Len(f) \in Nat
    <3>1. rest[k + 1] = ms[(n + k) + 1]
      BY <1>2, <2>1
    <3>2. ms[(n + k) + 1] \in Sendable
      BY <2>1
    <3> QED
      BY <3>1, <3>2, EncodeIs
  <2>3. /\ off[(n + k) + 1] = off[n + k] + Len(f)
        /\ \A j \in 1..Len(f) : b[off[n + k] + j] = f[j]
    BY <1>3, <2>1
  <2> HIDE DEF f
  <2>4. /\ at[k] = off[n + k] - o /\ at[k] \in Nat /\ off[n + k] \in Nat
        /\ at[k + 1] = off[(n + k) + 1] - o /\ off[(n + k) + 1] <= Len(b)
        /\ at[k + 1] \in Nat /\ off[(n + k) + 1] \in Nat
    BY <1>6, <2>1
  <2>5. at[k + 1] = at[k] + Len(f)
    BY <1>4, <2>2, <2>3, <2>4
  <2>6. ASSUME NEW j \in 1..Len(f) PROVE c[at[k] + j] = f[j]
    <3>1. at[k] + j \in 1..(Len(b) - o)
      <4> DEFINE p == at[k]
                 q == at[k + 1]
                 z == off[(n + k) + 1]
                 lb == Len(b)
                 lf == Len(f)
      <4>1. p \in Nat /\ q \in Nat /\ z \in Nat /\ q = z - o /\ z <= lb /\ q = p + lf
        BY <2>4, <2>5
      <4>2. o \in Nat /\ lb \in Nat /\ lf \in Nat /\ j \in 1..lf
        BY <1>1, <1>4, <2>2
      <4> HIDE DEF p, q, z, lb, lf
      <4>3. p + j \in 1..(lb - o)
        BY <4>1, <4>2
      <4> QED
        BY <4>3 DEF p, lb
    <3>2. o + (at[k] + j) = off[n + k] + j
      BY <1>4, <2>4, SMTT(30)
    <3>3. c[at[k] + j] = b[o + (at[k] + j)]
      BY <1>5, <3>1
    <3> QED
      BY <2>3, <3>2, <3>3
  <2> QED
    BY <2>2, <2>5, <2>6 DEF f
<1>10. Cut(c, rest, at)
  BY <1>2, <1>5, <1>7, <1>8, <1>9 DEF Cut
<1> QED
  BY <1>4, <1>10 DEF Carries, c, rest, o

-----------------------------------------------------------------------------
(* The walk of DecodePackets *)

Body(b, f, i) ==
  LET rest == After(b, i)
  IN  IF Complete(rest)
        THEN LET tail == f[i + GetUint16(rest)]
             IN  [tail EXCEPT !.packets = <<FirstPacket(rest)>> \o @]
        ELSE [packets |-> <<>>, remaining |-> rest]

Walk(b) == CHOOSE f : f = [i \in 0..Len(b) |-> Body(b, f, i)]

LEMMA DecodeWalks ==
  ASSUME NEW b PROVE DecodePackets(b) = Walk(b)[0]
BY DEF DecodePackets, Walk, Body

\* A whole frame at i ends behind i, and within the buffer.
LEMMA FrameWithin ==
  ASSUME NEW b \in Bytes, NEW i \in 0..Len(b), Complete(After(b, i))
  PROVE  /\ GetUint16(After(b, i)) \in Nat /\ GetUint16(After(b, i)) >= 3
         /\ i + GetUint16(After(b, i)) \in (i + 1)..Len(b)
<1> DEFINE rest == After(b, i)
<1>1. rest \in Bytes /\ Len(rest) = Len(b) - i /\ Len(b) \in Nat
  BY AfterIs DEF Bytes
<1> HIDE DEF rest
<1>2. Len(rest) >= 2 /\ GetUint16(rest) >= 3 /\ Len(rest) >= GetUint16(rest)
  BY DEF Complete, rest
<1>3. GetUint16(rest) \in Nat
  BY <1>1, <1>2, TwoBytes
<1>4. i + GetUint16(rest) \in (i + 1)..Len(b)
  BY <1>1, <1>2, <1>3
<1> QED
  BY <1>2, <1>3, <1>4 DEF rest

LEMMA BodyAhead ==
  ASSUME NEW b \in Bytes, NEW f, NEW g, NEW i \in 0..Len(b),
         \A k \in (i + 1)..Len(b) : f[k] = g[k]
  PROVE  Body(b, f, i) = Body(b, g, i)
BY FrameWithin DEF Body

\* There is such a walk: it is built from the end of the buffer.
LEMMA WalkExists ==
  ASSUME NEW b \in Bytes
  PROVE  Walk(b) = [i \in 0..Len(b) |-> Body(b, Walk(b), i)]
<1> DEFINE All == 0..Len(b)
           From(n) == (Len(b) + 1 - n)..Len(b)
           Right(f, n) == f = [i \in All |-> f[i]] /\ \A i \in From(n) : f[i] = Body(b, f, i)
           S == {n \in Nat : n <= Len(b) + 1 => \E f : Right(f, n)}
<1>0. Len(b) \in Nat
  BY DEF Bytes
<1>1. 0 \in S
  <2>1. From(0) = {}
    BY <1>0
  <2> DEFINE empty == [i \in All |-> {}]
  <2>2. Right(empty, 0)
    BY <2>1
  <2> QED
    BY <2>2
<1>2. ASSUME NEW n \in Nat, n \in S PROVE n + 1 \in S
  <2>1. SUFFICES ASSUME n + 1 <= Len(b) + 1 PROVE \E f : Right(f, n + 1)
    OBVIOUS
  <2>2. PICK f : Right(f, n)
    BY <1>0, <1>2, <2>1
  <2> DEFINE k == Len(b) - n
             g == [i \in All |-> IF i = k THEN Body(b, f, k) ELSE f[i]]
  <2>3. k \in All /\ k \in Nat /\ From(n) = (k + 1)..Len(b) /\ From(n + 1) = k..Len(b)
    BY <1>0, <2>1
  <2>4. ASSUME NEW i \in From(n + 1) PROVE g[i] = Body(b, g, i)
    <3>1. i \in All /\ i \in Nat /\ i >= k
      BY <1>0, <2>3
    <3>2. \A m \in (i + 1)..Len(b) : f[m] = g[m]
      BY <1>0, <2>3, <3>1
    <3>3. Body(b, f, i) = Body(b, g, i)
      BY <3>1, <3>2, BodyAhead
    <3>4. g[i] = Body(b, f, i)
      <4>1. CASE i = k
        BY <3>1, <4>1
      <4>2. CASE i # k
        <5>1. i \in From(n)
          BY <1>0, <2>3, <3>1, <4>2
        <5> QED
          BY <2>2, <3>1, <4>2, <5>1
      <4> QED
        BY <4>1, <4>2
    <3> QED
      BY <3>3, <3>4
  <2>5. g = [i \in All |-> g[i]]
    OBVIOUS
  <2>6. Right(g, n + 1)
    BY <2>4, <2>5
  <2> QED
    BY <2>6
<1>3. Len(b) + 1 \in S
  <2> HIDE DEF S
  <2> QED
    BY <1>0, <1>1, <1>2, SetInduction
<1>4. PICK f : Right(f, Len(b) + 1)
  BY <1>0, <1>3
<1>5. From(Len(b) + 1) = All
  BY <1>0
<1>6. f = [i \in All |-> Body(b, f, i)]
  BY <1>4, <1>5
<1> QED
  BY <1>6 DEF Walk

LEMMA WalkStep ==
  ASSUME NEW b \in Bytes, NEW i \in 0..Len(b)
  PROVE  Walk(b)[i] = Body(b, Walk(b), i)
<1>1. \A f : f = [k \in 0..Len(b) |-> Body(b, Walk(b), k)] => f[i] = Body(b, Walk(b), i)
  OBVIOUS
<1> QED
  BY <1>1, WalkExists

\* A buffer that begins with the first bytes of a frame: if it looks whole, it
\* is the frame of a message, and its packet the message's.
LEMMA WholeFrame ==
  ASSUME NEW m \in Sendable, NEW rest \in Bytes,
         \A j \in 1..Len(Encode(m)) : j <= Len(rest) => rest[j] = Encode(m)[j]
  PROVE  /\ Complete(rest) =>
              /\ m \in Messages \ Wedges /\ GetUint16(rest) = Len(Encode(m))
              /\ FirstPacket(rest) \in [cmd : Byte, payload : Bytes]
              /\ Parse(FirstPacket(rest)) = m
         /\ m \in Messages /\ Len(rest) >= Len(Encode(m)) => Complete(rest)
<1> DEFINE e == Encode(m)
<1>1. /\ e \in Seq(Byte) /\ Len(e) \in Nat /\ Len(e) >= 2 /\ (m \in Wedges => GetUint16(e) < 3)
      /\ rest \in Seq(Byte) /\ Len(rest) \in Nat
  BY EncodeIs DEF Bytes
<1> HIDE DEF e
<1>2. Len(rest) >= 2 => GetUint16(rest) = GetUint16(e)
  <2>1. SUFFICES ASSUME Len(rest) >= 2 PROVE rest[1] = e[1] /\ rest[2] = e[2]
    BY DEF GetUint16
  <2> QED
    BY <1>1, <2>1 DEF e
<1>3. ASSUME m \in Messages
      PROVE  /\ m \notin Wedges /\ GetUint16(e) = Len(e) /\ Len(e) >= 3
             /\ FirstPacket(e) = [cmd |-> m.cmd, payload |-> Payload(m)]
  BY <1>3, FrameIs DEF e
<1>4. ASSUME Complete(rest)
      PROVE  /\ m \in Messages \ Wedges /\ GetUint16(rest) = Len(e)
             /\ FirstPacket(rest) \in [cmd : Byte, payload : Bytes]
             /\ Parse(FirstPacket(rest)) = m
  <2>1. Len(rest) >= 2 /\ GetUint16(rest) >= 3 /\ Len(rest) >= GetUint16(rest)
    BY <1>4 DEF Complete
  <2>2. m \notin Wedges
    <3>1. GetUint16(e) \in Nat
      BY <1>1, TwoBytes DEF Bytes
    <3> QED
      BY <1>1, <1>2, <2>1, <3>1
  <2>3. m \in Messages
    BY <2>2 DEF Sendable
  <2>4. GetUint16(rest) = Len(e) /\ Len(rest) >= Len(e) /\ Len(e) >= 3
    BY <1>2, <1>3, <2>1, <2>3
  <2>5. \A j \in 1..Len(e) : rest[j] = e[j]
    BY <1>1, <2>4 DEF e
  <2>6. SubSeq(rest, 4, Len(e)) = SubSeq(e, 4, Len(e))
    <3> DEFINE a == SubSeq(rest, 4, Len(e))
               b == SubSeq(e, 4, Len(e))
    <3>1. /\ a \in Seq(Byte) /\ Len(a) = Len(e) - 3
          /\ \A j \in 1..(Len(e) - 3) : a[j] = rest[3 + j]
      BY <1>1, <2>4
    <3>2. /\ b \in Seq(Byte) /\ Len(b) = Len(e) - 3
          /\ \A j \in 1..(Len(e) - 3) : b[j] = e[3 + j]
      BY <1>1, <2>4
    <3> HIDE DEF a, b
    <3>3. \A j \in 1..(Len(e) - 3) : 3 + j \in 1..Len(e)
      BY <1>1, <2>4
    <3>4. \A j \in 1..Len(a) : a[j] = b[j]
      BY <2>5, <3>1, <3>2, <3>3
    <3>5. a = b
      BY <3>1, <3>2, <3>4, SameSeq
    <3> QED
      BY <3>5 DEF a, b
  <2>7. rest[3] = e[3]
    BY <1>1, <2>4, <2>5
  <2>8. FirstPacket(rest) = FirstPacket(e)
    BY <1>3, <2>3, <2>4, <2>6, <2>7 DEF FirstPacket
  <2>9. /\ m \in Sayable /\ m.cmd \in 1..9 /\ Payload(m) \in Bytes
        /\ Parse([cmd |-> m.cmd, payload |-> Payload(m)]) = m
    BY <2>3, PayloadParses, FramingAssumption
  <2>10. m.cmd \in Byte
    BY <2>9, BaseIs DEF Byte
  <2> QED
    BY <1>3, <2>2, <2>3, <2>4, <2>8, <2>9, <2>10
<1>5. ASSUME m \in Messages, Len(rest) >= Len(e) PROVE Complete(rest)
  BY <1>1, <1>2, <1>3, <1>5 DEF Complete
<1> QED
  BY <1>4, <1>5 DEF e

Packet == [cmd : Byte, payload : Bytes]

\* From the frame behind the first k messages on, the walk returns the messages
\* k + 1 to e, and leaves what is no whole frame.
Reads(x, ms, off, k, e) ==
  LET got == Walk(x)[off[k]]
  IN  /\ e \in k..Len(ms) /\ off[e] \in 0..Len(x)
      /\ got \in [packets : Seq(Packet), remaining : Bytes]
      /\ Len(got.packets) = e - k
      /\ \A j \in 1..(e - k) : ms[k + j] \in Messages \ Wedges /\ Parse(got.packets[j]) = ms[k + j]
      /\ got.remaining = After(x, off[e]) /\ ~Complete(got.remaining)

Good(x, ms, off, i) ==
  \A k \in 0..Len(ms) : off[k] = i => \E e \in Nat : Reads(x, ms, off, k, e)

LEMMA WalkReadsOne ==
  ASSUME NEW x \in Bytes, NEW w \in Bytes, NEW ms \in Seq(Sendable), NEW off,
         Cut(x \o w, ms, off), NEW i \in 0..Len(x),
         \A n \in (i + 1)..Len(x) : Good(x, ms, off, n)
  PROVE  Good(x, ms, off, i)
<1> DEFINE rest == After(x, i)
           y == x \o w
           L == Len(ms)
<1>1. SUFFICES ASSUME NEW k \in 0..Len(ms), off[k] = i
               PROVE  \E e \in Nat : Reads(x, ms, off, k, e)
  BY DEF Good
<1>2. /\ x \in Seq(Byte) /\ w \in Seq(Byte) /\ Len(x) \in Nat /\ Len(w) \in Nat
      /\ L \in Nat /\ k \in Nat /\ k <= L /\ i \in Nat
  BY DEF Bytes
<1>3. /\ rest \in Seq(Byte) /\ Len(rest) = Len(x) - i
      /\ \A j \in 1..(Len(x) - i) : rest[j] = x[i + j]
  BY <1>2, AfterIs
<1>4. Walk(x)[i] = Body(x, Walk(x), i)
  BY WalkStep
<1>5. CASE ~Complete(rest)
  <2> DEFINE got == Walk(x)[off[k]]
  <2>1. got = [packets |-> <<>>, remaining |-> rest]
    BY <1>1, <1>4, <1>5 DEF Body
  <2> HIDE DEF got
  <2>2. got.packets = <<>> /\ got.remaining = rest
    BY <2>1
  <2>3. got \in [packets : Seq(Packet), remaining : Bytes]
    BY <1>3, <2>1 DEF Bytes
  <2>4. k \in k..L /\ off[k] \in 0..Len(x) /\ k - k = 0
    BY <1>1, <1>2
  <2>5. Reads(x, ms, off, k, k)
    BY <1>1, <1>5, <2>2, <2>3, <2>4 DEF Reads, got
  <2> QED
    BY <1>2, <2>5
<1>6. CASE Complete(rest)
  <2>1. /\ y \in Seq(Byte) /\ Len(y) = Len(x) + Len(w)
        /\ \A j \in 1..Len(x) : y[j] = x[j]
    BY <1>2, ConcatIs
  <2>2. /\ off[L] = Len(y)
        /\ \A n \in 0..(L - 1) :
             /\ off[n + 1] = off[n] + Len(Encode(ms[n + 1]))
             /\ \A j \in 1..Len(Encode(ms[n + 1])) : y[off[n] + j] = Encode(ms[n + 1])[j]
    BY DEF Cut
  <2> HIDE DEF y
  <2>3. /\ GetUint16(rest) \in Nat /\ GetUint16(rest) >= 3
        /\ i + GetUint16(rest) \in (i + 1)..Len(x)
    BY <1>6, FrameWithin
  <2> HIDE DEF rest
  <2>4. k \in 0..(L - 1) /\ k + 1 \in 1..L
    <3>1. k # L
      BY <1>1, <1>2, <2>1, <2>2, <2>3
    <3> QED
      BY <1>2, <3>1
  <2> DEFINE m == ms[k + 1]
             f == Encode(m)
             p == FirstPacket(rest)
             next == i + GetUint16(rest)
             tail == Walk(x)[next]
             got == Walk(x)[off[k]]
  <2>5. m \in Sendable /\ Len(f) \in Nat
    BY <2>4, EncodeIs
  <2>6. off[k + 1] = i + Len(f) /\ \A j \in 1..Len(f) : y[i + j] = f[j]
    BY <1>1, <2>2, <2>4
  <2> HIDE DEF m, f
  <2>7. ASSUME NEW j \in 1..Len(f), j <= Len(rest) PROVE rest[j] = f[j]
    <3>1. j \in 1..(Len(x) - i) /\ i + j \in 1..Len(x)
      BY <1>2, <1>3, <2>5, <2>7
    <3> QED
      BY <1>3, <2>1, <2>6, <3>1
  <2>8. /\ m \in Messages \ Wedges /\ GetUint16(rest) = Len(f)
        /\ p \in Packet /\ Parse(p) = m
    BY <1>3, <1>6, <2>5, <2>7, WholeFrame DEF f, Packet, Bytes
  <2> HIDE DEF p
  <2>9. off[k + 1] = next /\ next \in (i + 1)..Len(x) /\ k + 1 \in 0..L
    BY <1>2, <2>3, <2>4, <2>6, <2>8
  <2>10. PICK e \in Nat : Reads(x, ms, off, k + 1, e)
    BY <2>9 DEF Good
  <2>11. got = [tail EXCEPT !.packets = <<p>> \o @]
    BY <1>1, <1>4, <1>6 DEF Body, rest, p
  <2> HIDE DEF got
  <2>12. /\ e \in (k + 1)..L /\ off[e] \in 0..Len(x)
         /\ tail \in [packets : Seq(Packet), remaining : Bytes]
         /\ Len(tail.packets) = e - (k + 1)
         /\ \A j \in 1..(e - (k + 1)) :
              ms[(k + 1) + j] \in Messages \ Wedges /\ Parse(tail.packets[j]) = ms[(k + 1) + j]
         /\ tail.remaining = After(x, off[e]) /\ ~Complete(tail.remaining)
    BY <2>9, <2>10 DEF Reads
  <2> HIDE DEF tail
  <2> DEFINE a == <<p>>
             b == tail.packets
             c == a \o b
  <2>13. got.packets = c /\ got.remaining = tail.remaining /\ got = [packets |-> c, remaining |-> tail.remaining]
    BY <2>11, <2>12
  <2>14. a \in Seq(Packet) /\ Len(a) = 1 /\ a[1] = p
    BY <2>8, OneIs
  <2>15. b \in Seq(Packet) /\ Len(b) = e - (k + 1)
    BY <2>12
  <2> HIDE DEF a
  <2>16. /\ c \in Seq(Packet) /\ Len(c) = Len(a) + Len(b)
         /\ \A j \in 1..Len(a) : c[j] = a[j]
         /\ \A j \in 1..Len(b) : c[Len(a) + j] = b[j]
    <3>1. a \in Seq(Packet) /\ b \in Seq(Packet)
      BY <2>14, <2>15
    <3> HIDE DEF b
    <3> QED
      BY <3>1, ConcatIs
  <2> HIDE DEF c
  <2>17. e \in Nat /\ e >= k + 1 /\ Len(c) = e - k /\ c[1] = p
    BY <1>2, <2>12, <2>14, <2>15, <2>16
  <2>18. ASSUME NEW j \in 1..(e - k)
         PROVE  ms[k + j] \in Messages \ Wedges /\ Parse(c[j]) = ms[k + j]
    <3>1. CASE j = 1
      BY <2>8, <2>17, <3>1 DEF m
    <3>2. CASE j # 1
      <4>1. PICK n \in 1..(e - (k + 1)) : j = 1 + n /\ k + j = (k + 1) + n
        <5>1. j - 1 \in 1..(e - (k + 1)) /\ j = 1 + (j - 1) /\ k + j = (k + 1) + (j - 1)
          BY <1>2, <2>17, <3>2
        <5> QED
          BY <5>1
      <4>2. c[j] = b[n]
        BY <2>14, <2>15, <2>16, <4>1
      <4> QED
        BY <2>12, <4>1, <4>2
    <3> QED
      BY <3>1, <3>2
  <2>19. Reads(x, ms, off, k, e)
    <3>1. e \in k..L
      BY <1>2, <2>12
    <3>2. got \in [packets : Seq(Packet), remaining : Bytes]
      BY <2>12, <2>13, <2>16
    <3> QED
      BY <2>12, <2>13, <2>17, <2>18, <3>1, <3>2 DEF Reads, got
  <2> QED
    BY <2>19
<1> QED
  BY <1>5, <1>6

\* DecodePackets returns the messages whose frames are whole, once and in order.
LEMMA WalkReads ==
  ASSUME NEW x \in Bytes, NEW w \in Bytes, NEW ms \in Seq(Sendable), NEW off,
         Cut(x \o w, ms, off)
  PROVE  \E e \in Nat : Reads(x, ms, off, 0, e)
<1> DEFINE S == {n \in Nat : n <= Len(x) => \A i \in (Len(x) - n)..Len(x) : Good(x, ms, off, i)}
<1>0. Len(x) \in Nat /\ Len(ms) \in Nat /\ off[0] = 0
  BY DEF Bytes, Cut
<1>1. 0 \in S
  <2>1. Good(x, ms, off, Len(x))
    <3>1. \A n \in (Len(x) + 1)..Len(x) : Good(x, ms, off, n)
      BY <1>0
    <3>2. Len(x) \in 0..Len(x)
      BY <1>0
    <3> QED
      BY <3>1, <3>2, WalkReadsOne
  <2> QED
    BY <1>0, <2>1
<1>2. ASSUME NEW n \in Nat, n \in S PROVE n + 1 \in S
  <2>1. SUFFICES ASSUME n + 1 <= Len(x)
                 PROVE  \A i \in (Len(x) - (n + 1))..Len(x) : Good(x, ms, off, i)
    OBVIOUS
  <2> DEFINE h == Len(x) - (n + 1)
  <2>2. h \in 0..Len(x) /\ (h + 1)..Len(x) = (Len(x) - n)..Len(x)
    BY <1>0, <2>1
  <2>3. \A i \in (h + 1)..Len(x) : Good(x, ms, off, i)
    BY <1>0, <1>2, <2>1, <2>2
  <2> HIDE DEF h
  <2>4. Good(x, ms, off, h)
    BY <2>2, <2>3, WalkReadsOne
  <2>5. \A i \in h..Len(x) : i = h \/ i \in (h + 1)..Len(x)
    BY <1>0, <2>2
  <2> QED
    BY <2>3, <2>4, <2>5 DEF h
<1>3. Len(x) \in S
  <2> HIDE DEF S
  <2> QED
    BY <1>0, <1>1, <1>2, SetInduction
<1>4. Good(x, ms, off, 0)
  BY <1>0, <1>3
<1> QED
  BY <1>0, <1>4 DEF Good

-----------------------------------------------------------------------------
(* More about sequences *)

LEMMA ConcatThree ==
  ASSUME NEW S, NEW a \in Seq(S), NEW b \in Seq(S), NEW c \in Seq(S)
  PROVE  (a \o b) \o c = a \o (b \o c)
<1> DEFINE x == a \o b
           y == b \o c
           p == x \o c
           q == a \o y
<1>1. /\ x \in Seq(S) /\ Len(x) = Len(a) + Len(b) /\ Len(a) \in Nat /\ Len(b) \in Nat
      /\ \A i \in 1..Len(a) : x[i] = a[i]
      /\ \A i \in 1..Len(b) : x[Len(a) + i] = b[i]
  BY ConcatIs
<1>2. /\ y \in Seq(S) /\ Len(y) = Len(b) + Len(c) /\ Len(c) \in Nat
      /\ \A i \in 1..Len(b) : y[i] = b[i]
      /\ \A i \in 1..Len(c) : y[Len(b) + i] = c[i]
  BY ConcatIs
<1> HIDE DEF x, y
<1>3. x \in Seq(S) /\ y \in Seq(S)
  BY <1>1, <1>2
<1>4. /\ p \in Seq(S) /\ Len(p) = Len(x) + Len(c)
      /\ \A i \in 1..Len(x) : p[i] = x[i]
      /\ \A i \in 1..Len(c) : p[Len(x) + i] = c[i]
  BY <1>3, ConcatIs
<1>5. /\ q \in Seq(S) /\ Len(q) = Len(a) + Len(y)
      /\ \A i \in 1..Len(a) : q[i] = a[i]
      /\ \A i \in 1..Len(y) : q[Len(a) + i] = y[i]
  BY <1>3, ConcatIs
<1> HIDE DEF p, q
<1>6. Len(p) = Len(a) + Len(b) + Len(c) /\ Len(q) = Len(p)
  BY <1>1, <1>2, <1>4, <1>5
<1>7. ASSUME NEW i \in 1..Len(p) PROVE p[i] = q[i]
  <2>1. CASE i <= Len(a)
    <3>1. i \in 1..Len(a) /\ i \in 1..Len(x)
      BY <1>1, <2>1
    <3> QED
      BY <1>1, <1>4, <1>5, <3>1
  <2>2. CASE i > Len(a) /\ i <= Len(a) + Len(b)
    <3>1. PICK j \in 1..Len(b) : i = Len(a) + j
      <4>1. i \in Nat
        BY <1>1, <1>2, <1>6
      <4>2. i - Len(a) \in 1..Len(b) /\ i = Len(a) + (i - Len(a))
        BY <1>1, <2>2, <4>1
      <4> QED
        BY <4>2
    <3>2. i \in 1..Len(x) /\ j \in 1..Len(y)
      BY <1>1, <1>2, <2>2, <3>1
    <3> QED
      BY <1>1, <1>2, <1>4, <1>5, <3>1, <3>2
  <2>3. CASE i > Len(a) + Len(b)
    <3>1. PICK j \in 1..Len(c) : i = Len(a) + Len(b) + j
      <4>1. i \in Nat /\ i <= Len(a) + Len(b) + Len(c)
        BY <1>1, <1>2, <1>6
      <4>2. i - (Len(a) + Len(b)) \in 1..Len(c) /\ i = Len(a) + Len(b) + (i - (Len(a) + Len(b)))
        BY <1>1, <1>2, <2>3, <4>1
      <4> QED
        BY <4>2
    <3>2. p[i] = c[j]
      <4>1. i = Len(x) + j
        BY <1>1, <3>1
      <4> QED
        BY <1>4, <4>1
    <3>3. q[i] = y[Len(b) + j]
      <4>1. Len(b) + j \in 1..Len(y) /\ i = Len(a) + (Len(b) + j)
        BY <1>1, <1>2, <3>1
      <4> QED
        BY <1>5, <4>1
    <3> QED
      BY <1>2, <3>2, <3>3
  <2>4. i \in Nat
    BY <1>6
  <2> QED
    BY <1>1, <2>1, <2>2, <2>3, <2>4
<1>8. p = q
  BY <1>4, <1>5, <1>6, <1>7, SameSeq
<1> QED
  BY <1>8 DEF p, q, x, y

LEMMA AfterFirst ==
  ASSUME NEW S, NEW a \in Seq(S), NEW b \in Seq(S), NEW n \in 0..Len(a)
  PROVE  After(a \o b, n) = After(a, n) \o b
<1> DEFINE h == SubSeq(a, 1, n)
           t == After(a, n)
           u == t \o b
<1>1. h \in Seq(S) /\ h \o t = a
  BY CutInTwo
<1>2. t \in Seq(S)
  BY AfterIs
<1>3. Len(h) = n
  OBVIOUS
<1> HIDE DEF h, t
<1>4. (h \o t) \o b = h \o u
  <2>1. h \in Seq(S)
    BY <1>1
  <2> QED
    BY <1>2, <2>1, ConcatThree, SMTT(30)
<1>5. u \in Seq(S)
  BY <1>2, ConcatIs
<1> HIDE DEF u
<1>6. After(h \o u, Len(h)) = u
  BY <1>1, <1>5, AfterConcat
<1> QED
  BY <1>1, <1>3, <1>4, <1>6 DEF t, u

LEMMA AfterAfter ==
  ASSUME NEW S, NEW a \in Seq(S), NEW n \in 0..Len(a), NEW k \in 0..(Len(a) - n)
  PROVE  After(After(a, n), k) = After(a, n + k)
<1> DEFINE b == After(a, n)
           c == After(b, k)
           d == After(a, n + k)
<1>0. Len(a) \in Nat /\ n \in Nat /\ k \in Nat /\ n + k \in 0..Len(a)
  OBVIOUS
<1>1. /\ b \in Seq(S) /\ Len(b) = Len(a) - n
      /\ \A j \in 1..(Len(a) - n) : b[j] = a[n + j]
  BY AfterIs
<1>2. /\ d \in Seq(S) /\ Len(d) = Len(a) - (n + k)
      /\ \A j \in 1..(Len(a) - (n + k)) : d[j] = a[(n + k) + j]
  BY <1>0, AfterIs
<1> HIDE DEF b, d
<1>3. /\ c \in Seq(S) /\ Len(c) = Len(b) - k
      /\ \A j \in 1..(Len(b) - k) : c[j] = b[k + j]
  <2>1. b \in Seq(S) /\ k \in 0..Len(b)
    BY <1>0, <1>1
  <2> QED
    BY <2>1, AfterIs
<1> HIDE DEF c
<1>4. Len(c) = Len(d)
  BY <1>0, <1>1, <1>2, <1>3
<1>5. ASSUME NEW j \in 1..Len(c) PROVE c[j] = d[j]
  <2>1. /\ k + j \in 1..(Len(a) - n) /\ n + (k + j) = (n + k) + j
        /\ j \in 1..(Len(b) - k) /\ j \in 1..(Len(a) - (n + k))
    BY <1>0, <1>1, <1>3
  <2>2. c[j] = b[k + j] /\ b[k + j] = a[n + (k + j)]
    BY <1>1, <1>3, <2>1
  <2> QED
    BY <1>2, <2>1, <2>2
<1>6. c = d
  BY <1>2, <1>3, <1>4, <1>5, SameSeq
<1> QED
  BY <1>6 DEF c, d, b

LEMMA AfterAppend ==
  ASSUME NEW S, NEW a \in Seq(S), NEW m \in S, NEW n \in 0..Len(a)
  PROVE  After(Append(a, m), n) = Append(After(a, n), m)
<1>1. Append(a, m) = a \o <<m>> /\ <<m>> \in Seq(S)
  <2>1. Append(a, m) \in Seq(S) /\ a \o <<m>> \in Seq(S)
    OBVIOUS
  <2> QED
    OBVIOUS
<1>2. After(a \o <<m>>, n) = After(a, n) \o <<m>>
  BY <1>1, AfterFirst
<1>3. After(a, n) \in Seq(S)
  BY AfterIs
<1> DEFINE b == After(a, n)
<1> HIDE DEF b
<1>4. b \in Seq(S)
  BY <1>3 DEF b
<1>5. Append(b, m) = b \o <<m>>
  BY <1>1, <1>4
<1> QED
  BY <1>1, <1>2, <1>5 DEF b

-----------------------------------------------------------------------------
(* The invariant *)

\* What was received is the beginning of what was sent.
Prefix ==
  /\ Len(received) <= Len(sent)
  /\ \A k \in 1..Len(received) : received[k] = sent[k]

Pending == After(sent, Len(received))

\* While the reader runs it has met neither a wedge nor a message that ends it,
\* holds no whole frame, and what is under way is the frames still to come.
Flowing ==
  open => /\ \A k \in 1..Len(received) : sent[k] \notin Wedges \cup Last
          /\ ~Complete(buf)
          /\ Carries(buf \o wire, Pending)

FramingInv == TypeOK /\ Prefix /\ Flowing

LEMMA FramingInit == Init => FramingInv
<1>1. SUFFICES ASSUME Init PROVE FramingInv
  OBVIOUS
<1>2. wire = <<>> /\ buf = <<>> /\ sent = <<>> /\ received = <<>> /\ open = TRUE
  BY <1>1 DEF Init
<1>3. TypeOK
  BY <1>2, FramingAssumption DEF TypeOK
<1>4. Prefix
  BY <1>2 DEF Prefix
<1>5. buf \o wire = <<>> /\ Pending = <<>>
  BY <1>2 DEF Pending, After
<1>6. Flowing
  BY <1>2, <1>5, NothingCarries DEF Flowing, Complete
<1> QED
  BY <1>3, <1>4, <1>6 DEF FramingInv

LEMMA SendStep ==
  ASSUME FramingInv, NEW m \in Sendable, Send(m) PROVE FramingInv'
<1> DEFINE e == Encode(m)
           r == Len(received)
<1>1. /\ wire \in Seq(Byte) /\ buf \in Seq(Byte) /\ open \in BOOLEAN
      /\ sent \in Seq(Sendable) /\ Len(sent) \in Nat /\ received \in Seq(Messages) /\ r \in Nat
  BY DEF FramingInv, TypeOK, Sendable
<1>2. /\ Len(sent) < MaxSent /\ wire' = wire \o e /\ sent' = Append(sent, m)
      /\ UNCHANGED <<buf, received, open>>
  BY DEF Send
<1>3. e \in Seq(Byte)
  BY EncodeIs DEF Bytes
<1> HIDE DEF e
<1>4. Prefix /\ r \in 0..Len(sent)
  BY <1>1 DEF FramingInv, Prefix
<1>5. /\ sent' \in Seq(Sendable) /\ Len(sent') = Len(sent) + 1
      /\ \A k \in 1..Len(sent) : sent'[k] = sent[k]
  BY <1>1, <1>2
<1>6. wire' \in Seq(Byte)
  BY <1>1, <1>2, <1>3, ConcatIs
<1>7. TypeOK'
  BY <1>1, <1>2, <1>5, <1>6, FramingAssumption DEF TypeOK, Sendable
<1>8. Prefix'
  BY <1>1, <1>2, <1>4, <1>5 DEF Prefix
<1>9. Flowing'
  <2>1. SUFFICES ASSUME open
                 PROVE  /\ \A k \in 1..r : sent'[k] \notin Wedges \cup Last
                        /\ ~Complete(buf)
                        /\ Carries(buf \o wire', Pending')
    BY <1>2 DEF Flowing
  <2>2. /\ \A k \in 1..r : sent[k] \notin Wedges \cup Last
        /\ ~Complete(buf) /\ Carries(buf \o wire, Pending)
    BY <2>1 DEF FramingInv, Flowing
  <2>3. Pending \in Seq(Sendable)
    BY <1>1, <1>4, AfterIs DEF Pending
  <2>4. buf \o wire \in Bytes
    BY <1>1, ConcatIs DEF Bytes
  <2>5. Carries((buf \o wire) \o e, Append(Pending, m))
    BY <2>2, <2>3, <2>4, CarriesMore DEF e
  <2>6. (buf \o wire) \o e = buf \o wire'
    <3>1. wire \in Seq(Byte) /\ buf \in Seq(Byte)
      BY <1>1
    <3>2. (buf \o wire) \o e = buf \o (wire \o e)
      BY <1>3, <3>1, ConcatThree, SMTT(30)
    <3> QED
      BY <1>2, <3>2
  <2>7. Pending' = Append(Pending, m)
    <3>1. After(Append(sent, m), r) = Append(After(sent, r), m)
      BY <1>1, <1>4, AfterAppend
    <3> QED
      BY <1>2, <3>1 DEF Pending
  <2>8. \A k \in 1..r : sent'[k] = sent[k]
    BY <1>1, <1>4, <1>5
  <2> QED
    BY <2>2, <2>5, <2>6, <2>7, <2>8
<1> QED
  BY <1>7, <1>8, <1>9 DEF FramingInv

\* Of a batch all is handled, up to the first message that ends the connection.
LEMMA HandledIs ==
  ASSUME NEW ms \in Seq(Messages)
  PROVE  \E h \in 0..Len(ms) :
           /\ Handled(ms) \in Seq(Messages) /\ Len(Handled(ms)) = h
           /\ \A i \in 1..h : Handled(ms)[i] = ms[i]
           /\ \A i \in 1..(h - 1) : ms[i] \notin Last
           /\ IF \A i \in DOMAIN ms : ms[i] \notin Last
              THEN h = Len(ms) ELSE h \in 1..Len(ms) /\ ms[h] \in Last
<1> DEFINE ends == {i \in DOMAIN ms : ms[i] \in Last}
           first == CHOOSE i \in ends : \A j \in ends : i <= j
<1>0. Len(ms) \in Nat /\ DOMAIN ms = 1..Len(ms)
  OBVIOUS
<1>1. CASE ends = {}
  <2>1. Handled(ms) = ms
    BY <1>1 DEF Handled
  <2>2. \A i \in 1..Len(ms) : ms[i] \notin Last
    BY <1>0, <1>1
  <2>3. Len(ms) \in 0..Len(ms) /\ \A i \in 1..(Len(ms) - 1) : i \in 1..Len(ms)
    BY <1>0
  <2> QED
    BY <1>0, <2>1, <2>2, <2>3
<1>2. CASE ends # {}
  <2>1. ends \subseteq Nat
    BY <1>0
  <2>2. first \in ends /\ \A j \in ends : first <= j
    BY <1>2, <2>1, Smallest
  <2>3. Handled(ms) = SubSeq(ms, 1, first)
    BY <1>2 DEF Handled
  <2> HIDE DEF first
  <2>4. first \in 1..Len(ms) /\ ms[first] \in Last
    BY <1>0, <2>2
  <2>5. ASSUME NEW i \in 1..(first - 1), ms[i] \in Last PROVE FALSE
    <3>1. i \in ends
      BY <1>0, <2>4, <2>5
    <3>2. first <= i
      BY <2>2, <3>1
    <3> QED
      BY <1>0, <2>4, <3>2
  <2>6. /\ Handled(ms) \in Seq(Messages) /\ Len(Handled(ms)) = first
        /\ \A i \in 1..first : Handled(ms)[i] = ms[i]
    BY <1>0, <2>3, <2>4
  <2>7. first \in 0..Len(ms)
    BY <1>0, <2>4
  <2>8. ~ \A i \in DOMAIN ms : ms[i] \notin Last
    BY <1>0, <2>4
  <2> HIDE DEF ends
  <2> QED
    BY <2>4, <2>5, <2>6, <2>7, <2>8
<1> QED
  BY <1>1, <1>2

\* One read handles the next messages whose frames have arrived.
LEMMA ReadHandles ==
  ASSUME FramingInv, NEW n \in 1..ReadBufSize, Read(n)
  PROVE  \E h \in 0..(Len(sent) - Len(received)) :
           LET r == Len(received)
           IN  /\ received' \in Seq(Messages) /\ Len(received') = r + h
               /\ \A k \in 1..(r + h) : received'[k] = sent[k] /\ sent[k] \notin Wedges
               /\ \A k \in 1..(r + h - 1) : sent[k] \notin Last
               /\ open' = (\A k \in 1..(r + h) : sent[k] \notin Last)
               /\ buf' \in Seq(Byte) /\ wire' \in Seq(Byte) /\ sent' = sent
               /\ open' => /\ ~Complete(buf')
                           /\ Carries(buf' \o wire', After(sent, r + h))
<1> DEFINE r == Len(received)
           t == SubSeq(wire, 1, n)
           x == buf \o t
           w == After(wire, n)
           got == DecodePackets(x)
           ms == [i \in DOMAIN got.packets |-> Parse(got.packets[i])]
<1>1. /\ wire \in Seq(Byte) /\ buf \in Seq(Byte) /\ Len(wire) \in Nat
      /\ sent \in Seq(Sendable) /\ Len(sent) \in Nat /\ received \in Seq(Messages) /\ r \in Nat
  BY DEF FramingInv, TypeOK, Sendable
<1>2. /\ open /\ n <= Len(wire) /\ wire' = w /\ sent' = sent
      /\ buf' = got.remaining /\ received' = received \o Handled(ms)
      /\ open' = (\A i \in DOMAIN ms : ms[i] \notin Last)
  BY DEF Read
<1>3. /\ r \in 0..Len(sent) /\ \A k \in 1..r : received[k] = sent[k]
      /\ \A k \in 1..r : sent[k] \notin Wedges \cup Last
      /\ Carries(buf \o wire, Pending)
  BY <1>1, <1>2 DEF FramingInv, Prefix, Flowing
<1>4. /\ Pending \in Seq(Sendable) /\ Len(Pending) = Len(sent) - r
      /\ \A j \in 1..(Len(sent) - r) : Pending[j] = sent[r + j]
  BY <1>1, <1>3, AfterIs DEF Pending
<1>5. n \in 0..Len(wire)
  BY <1>1, <1>2, FramingAssumption
<1>6. t \in Seq(Byte) /\ t \o w = wire
  BY <1>1, <1>5, CutInTwo
<1>7. w \in Seq(Byte)
  BY <1>1, <1>5, AfterIs
<1> HIDE DEF t, w
<1>8. x \in Seq(Byte)
  BY <1>1, <1>6, ConcatIs
<1>9. x \o w = buf \o wire
  <2>1. buf \in Seq(Byte) /\ t \in Seq(Byte)
    BY <1>1, <1>6
  <2>2. (buf \o t) \o w = buf \o (t \o w)
    BY <1>7, <2>1, ConcatThree, SMTT(30)
  <2> QED
    BY <1>6, <2>2
<1> HIDE DEF x
<1>10. PICK off : Cut(x \o w, Pending, off)
  BY <1>3, <1>9 DEF Carries
<1>11. PICK e \in Nat : Reads(x, Pending, off, 0, e)
  BY <1>4, <1>7, <1>8, <1>10, WalkReads DEF Bytes
<1>12. got = Walk(x)[off[0]]
  BY <1>10, DecodeWalks DEF Cut
<1> HIDE DEF got
<1>13. /\ e \in 0..(Len(sent) - r) /\ off[e] \in 0..Len(x)
       /\ got.packets \in Seq(Packet) /\ got.remaining \in Seq(Byte)
       /\ Len(got.packets) = e
       /\ \A j \in 1..e : Pending[j] \in Messages \ Wedges /\ Parse(got.packets[j]) = Pending[j]
       /\ got.remaining = After(x, off[e]) /\ ~Complete(got.remaining)
  <2>1. e - 0 = e /\ \A j \in 1..e : 0 + j = j
    OBVIOUS
  <2> QED
    BY <1>4, <1>11, <1>12, <2>1 DEF Reads, Bytes
<1>14. /\ ms \in Seq(Messages) /\ Len(ms) = e /\ DOMAIN ms = 1..e
       /\ \A j \in 1..e : ms[j] = sent[r + j] /\ sent[r + j] \notin Wedges
  <2>1. DOMAIN got.packets = 1..e
    BY <1>13
  <2>2. ASSUME NEW j \in 1..e
        PROVE  /\ Parse(got.packets[j]) = sent[r + j]
               /\ sent[r + j] \in Messages \ Wedges
    <3>1. j \in 1..(Len(sent) - r)
      BY <1>1, <1>3, <1>13
    <3> QED
      BY <1>4, <1>13, <3>1
  <2>3. ms = [j \in 1..e |-> sent[r + j]]
    BY <2>1, <2>2
  <2> HIDE DEF ms
  <2>4. ms \in Seq(Messages)
    <3>1. \A j \in 1..e : sent[r + j] \in Messages
      BY <2>2
    <3> QED
      BY <2>3, <3>1
  <2>5. DOMAIN ms = 1..e /\ Len(ms) = e
    BY <2>3
  <2>6. \A j \in 1..e : ms[j] = sent[r + j] /\ sent[r + j] \notin Wedges
    BY <2>2, <2>3
  <2> QED
    BY <2>4, <2>5, <2>6
<1> HIDE DEF ms
<1>15. PICK h \in 0..e :
         /\ Handled(ms) \in Seq(Messages) /\ Len(Handled(ms)) = h
         /\ \A i \in 1..h : Handled(ms)[i] = ms[i]
         /\ \A i \in 1..(h - 1) : ms[i] \notin Last
         /\ IF \A i \in DOMAIN ms : ms[i] \notin Last
            THEN h = e ELSE h \in 1..e /\ ms[h] \in Last
  BY <1>14, HandledIs
<1>16. h \in 0..(Len(sent) - r) /\ h \in Nat
  BY <1>1, <1>13, <1>15
<1>17. /\ received' \in Seq(Messages) /\ Len(received') = r + h
       /\ \A k \in 1..r : received'[k] = received[k]
       /\ \A k \in 1..h : received'[r + k] = Handled(ms)[k]
  <2> DEFINE g == Handled(ms)
  <2>1. received \in Seq(Messages) /\ g \in Seq(Messages)
    BY <1>1, <1>15
  <2>2. Len(g) = h /\ received' = received \o g
    BY <1>2, <1>15
  <2> HIDE DEF g
  <2>3. /\ received \o g \in Seq(Messages) /\ Len(received \o g) = Len(received) + Len(g)
        /\ \A i \in 1..Len(received) : (received \o g)[i] = received[i]
        /\ \A i \in 1..Len(g) : (received \o g)[Len(received) + i] = g[i]
    BY <2>1, ConcatIs
  <2> QED
    BY <2>2, <2>3 DEF g
<1>18. \A k \in 1..(r + h) : k \in 1..r \/ \E j \in 1..h : k = r + j
  <2>1. SUFFICES ASSUME NEW k \in 1..(r + h), k \notin 1..r
                 PROVE  \E j \in 1..h : k = r + j
    OBVIOUS
  <2>2. k - r \in 1..h /\ k = r + (k - r)
    BY <1>1, <1>16, <2>1
  <2> QED
    BY <2>2
<1>19. \A j \in 1..h : j \in 1..e
  BY <1>15
<1>20. ASSUME NEW k \in 1..(r + h) PROVE received'[k] = sent[k] /\ sent[k] \notin Wedges
  <2>1. CASE k \in 1..r
    BY <1>3, <1>17, <2>1
  <2>2. CASE \E j \in 1..h : k = r + j
    <3>1. PICK j \in 1..h : k = r + j
      BY <2>2
    <3>2. received'[r + j] = ms[j] /\ j \in 1..e
      BY <1>15, <1>17, <1>19
    <3> QED
      BY <1>14, <3>1, <3>2
  <2> QED
    BY <1>18, <2>1, <2>2
<1>21. ASSUME NEW k \in 1..(r + h - 1) PROVE sent[k] \notin Last
  <2>1. CASE k \in 1..r
    BY <1>3, <2>1
  <2>2. CASE k \notin 1..r
    <3>1. k - r \in 1..(h - 1) /\ k = r + (k - r) /\ k - r \in 1..h
      BY <1>1, <1>16, <2>2
    <3>2. PICK j \in 1..(h - 1) : k = r + j /\ j \in 1..h
      BY <3>1
    <3> QED
      BY <1>14, <1>15, <1>19, <3>2
  <2> QED
    BY <2>1, <2>2
<1>22. open' = (\A k \in 1..(r + h) : sent[k] \notin Last)
  <2>1. ASSUME \A i \in DOMAIN ms : ms[i] \notin Last, NEW k \in 1..(r + h)
        PROVE  sent[k] \notin Last
    <3>1. CASE k \in 1..r
      BY <1>3, <3>1
    <3>2. CASE \E j \in 1..h : k = r + j
      BY <1>14, <1>19, <2>1, <3>2
    <3> QED
      BY <1>18, <3>1, <3>2
  <2>2. ASSUME ~ \A i \in DOMAIN ms : ms[i] \notin Last
        PROVE  \E k \in 1..(r + h) : sent[k] \in Last
    <3>1. h \in 1..e /\ ms[h] \in Last
      BY <1>15, <2>2
    <3>2. r + h \in 1..(r + h)
      BY <1>1, <3>1
    <3>3. sent[r + h] \in Last
      BY <1>14, <3>1
    <3> QED
      BY <3>2, <3>3
  <2> QED
    BY <1>2, <2>1, <2>2
<1>23. ASSUME open' PROVE ~Complete(buf') /\ Carries(buf' \o wire', After(sent, r + h))
  <2>1. h = e
    BY <1>2, <1>15, <1>23
  <2>2. Carries(After(x \o w, off[e]), After(Pending, e))
    <3>1. x \o w \in Bytes /\ e \in 0..Len(Pending)
      BY <1>4, <1>7, <1>8, <1>13, ConcatIs DEF Bytes
    <3> QED
      BY <1>4, <1>10, <3>1, CarriesRest
  <2>3. After(x \o w, off[e]) = After(x, off[e]) \o w
    BY <1>7, <1>8, <1>13, AfterFirst
  <2>4. After(Pending, e) = After(sent, r + e)
    BY <1>1, <1>3, <1>13, AfterAfter DEF Pending
  <2> QED
    BY <1>2, <1>13, <2>1, <2>2, <2>3, <2>4
<1>24. buf' \in Seq(Byte) /\ wire' \in Seq(Byte) /\ sent' = sent
  BY <1>2, <1>7, <1>13
<1> QED
  BY <1>16, <1>17, <1>20, <1>21, <1>22, <1>23, <1>24

LEMMA ReadStep ==
  ASSUME FramingInv, NEW n \in 1..ReadBufSize, Read(n) PROVE FramingInv'
<1> DEFINE r == Len(received)
<1>1. PICK h \in 0..(Len(sent) - r) :
        /\ received' \in Seq(Messages) /\ Len(received') = r + h
        /\ \A k \in 1..(r + h) : received'[k] = sent[k] /\ sent[k] \notin Wedges
        /\ open' = (\A k \in 1..(r + h) : sent[k] \notin Last)
        /\ buf' \in Seq(Byte) /\ wire' \in Seq(Byte) /\ sent' = sent
        /\ open' => /\ ~Complete(buf')
                    /\ Carries(buf' \o wire', After(sent, r + h))
  BY ReadHandles
<1>2. sent \in Seq(Messages \cup Wedges) /\ Len(sent) <= MaxSent /\ Len(sent) \in Nat /\ r \in Nat
  BY DEF FramingInv, TypeOK
<1>3. TypeOK'
  BY <1>1, <1>2 DEF TypeOK
<1>4. Prefix'
  BY <1>1, <1>2 DEF Prefix
<1>5. Flowing'
  <2>1. SUFFICES ASSUME open'
                 PROVE  /\ \A k \in 1..(r + h) : sent[k] \notin Wedges \cup Last
                        /\ ~Complete(buf')
                        /\ Carries(buf' \o wire', After(sent, r + h))
    BY <1>1 DEF Flowing, Pending
  <2> QED
    BY <1>1, <2>1
<1> QED
  BY <1>3, <1>4, <1>5 DEF FramingInv

\* Every reachable state satisfies the invariant.
THEOREM FramingInvariant == Spec => []FramingInv
<1>1. FramingInv /\ [Next]_vars => FramingInv'
  <2>1. SUFFICES ASSUME FramingInv, [Next]_vars PROVE FramingInv'
    OBVIOUS
  <2>2. CASE \E m \in Messages \cup Wedges : Send(m)
    BY <2>1, <2>2, SendStep DEF Sendable
  <2>3. CASE \E n \in 1..ReadBufSize : Read(n)
    BY <2>1, <2>3, ReadStep
  <2>4. CASE Lose
    <3>1. wire' = <<>> /\ open' = FALSE /\ UNCHANGED <<buf, sent, received>>
      BY <2>4 DEF Lose
    <3>2. <<>> \in Seq(Byte)
      OBVIOUS
    <3> QED
      BY <2>1, <3>1, <3>2 DEF FramingInv, TypeOK, Prefix, Flowing
  <2>5. CASE UNCHANGED vars
    BY <2>1, <2>5 DEF vars, FramingInv, TypeOK, Prefix, Flowing, Pending
  <2> QED
    BY <2>1, <2>2, <2>3, <2>4, <2>5 DEF Next
<1> QED
  BY <1>1, FramingInit, PTL DEF Spec

-----------------------------------------------------------------------------
(* Theorems *)

\* Buffers hold bytes, and what the reader makes of them is what an end may send.
THEOREM FramingTypeCorrect == Spec => []TypeOK
<1>1. FramingInv => TypeOK
  BY DEF FramingInv
<1> QED
  BY <1>1, FramingInvariant, PTL

LEMMA Messaging ==
  ASSUME NEW s \in Seq(Messages) PROVE s \in Seq(Sendable)
BY DEF Sendable

\* A whole frame is never left in the buffer; only a size that no frame has
\* keeps what follows it.
THEOREM NothingStuckHolds == Spec => []NothingStuck
<1>1. FramingInv => NothingStuck
  <2> DEFINE r == Len(received)
             wedged == {i \in DOMAIN sent : sent[i] \in Wedges}
             first == CHOOSE i \in wedged : \A j \in wedged : i <= j
  <2>1. SUFFICES ASSUME FramingInv, open, wire = <<>>
                 PROVE  received = Clear(sent) /\ (buf = <<>> <=> Clear(sent) = sent)
    BY DEF NothingStuck
  <2>2. /\ buf \in Seq(Byte) /\ Len(buf) \in Nat /\ sent \in Seq(Sendable) /\ Len(sent) \in Nat
        /\ received \in Seq(Messages) /\ r \in Nat /\ DOMAIN sent = 1..Len(sent)
    BY <2>1 DEF FramingInv, TypeOK, Sendable
  <2>3. /\ r <= Len(sent) /\ \A k \in 1..r : received[k] = sent[k]
        /\ \A k \in 1..r : sent[k] \notin Wedges
        /\ ~Complete(buf) /\ Carries(buf \o wire, Pending)
    BY <2>1 DEF FramingInv, Prefix, Flowing
  <2>4. buf \o wire = buf
    BY <2>1, <2>2
  <2>5. PICK off : Cut(buf, Pending, off)
    BY <2>3, <2>4 DEF Carries
  <2>6. /\ Len(Pending) = Len(sent) - r
        /\ \A j \in 1..(Len(sent) - r) : Pending[j] = sent[r + j]
    <3>1. r \in 0..Len(sent)
      BY <2>2, <2>3
    <3> QED
      BY <2>2, <3>1, AfterIs DEF Pending
  <2>7. received \in Seq(Sendable)
    BY <2>2, Messaging
  <2>8. CASE r = Len(sent)
    <3>1. Len(Pending) = 0
      BY <2>2, <2>6, <2>8
    <3>2. Len(buf) = 0
      BY <2>5, <3>1 DEF Cut
    <3>3. buf = <<>>
      BY <2>2, <3>2
    <3>4. Clear(sent) = sent
      BY <2>2, <2>3, <2>8 DEF Clear
    <3>5. received = sent
      BY <2>2, <2>3, <2>7, <2>8, SameSeq
    <3> QED
      BY <3>3, <3>4, <3>5
  <2>9. CASE r # Len(sent)
    <3> DEFINE m == sent[r + 1]
               e == Encode(m)
    <3>1. /\ r + 1 \in 1..Len(sent) /\ 1 \in 1..(Len(sent) - r) /\ 0 \in 0..(Len(Pending) - 1)
          /\ 1 \in 0..Len(Pending) /\ Len(Pending) \in 0..Len(Pending) /\ 1 <= Len(Pending)
      BY <2>2, <2>3, <2>6, <2>9
    <3>2. m \in Sendable /\ Pending[1] = m /\ Len(e) \in Nat /\ Len(e) >= 2
      BY <2>2, <2>6, <3>1, EncodeIs
    <3>3. /\ off[0] = 0 /\ off[Len(Pending)] = Len(buf) /\ off[1] <= off[Len(Pending)]
          /\ off[0 + 1] = off[0] + Len(Encode(Pending[0 + 1]))
          /\ \A j \in 1..Len(Encode(Pending[0 + 1])) : buf[off[0] + j] = Encode(Pending[0 + 1])[j]
      BY <2>5, <3>1 DEF Cut
    <3>4. off[1] = Len(e) /\ \A j \in 1..Len(e) : buf[j] = e[j]
      BY <3>2, <3>3
    <3>5. Len(buf) >= Len(e)
      BY <3>3, <3>4
    <3>6. m \in Wedges
      <4>1. m \in Messages => Complete(buf)
        BY <2>2, <3>2, <3>4, <3>5, WholeFrame DEF Bytes
      <4> QED
        BY <2>3, <3>2, <4>1 DEF Sendable
    <3> HIDE DEF m, e
    <3>7. r + 1 \in wedged /\ \A i \in wedged : r + 1 <= i
      <4>1. ASSUME NEW i \in 1..Len(sent), sent[i] \in Wedges, i < r + 1 PROVE FALSE
        BY <2>2, <2>3, <4>1
      <4> QED
        BY <2>2, <3>1, <3>6, <4>1 DEF m
    <3>8. first = r + 1
      <4>1. first \in wedged /\ \A j \in wedged : first <= j
        BY <3>7
      <4> HIDE DEF first
      <4>2. first <= r + 1 /\ r + 1 <= first /\ first \in Int
        BY <2>2, <3>7, <4>1
      <4> QED
        BY <2>2, <4>2
    <3>9. Clear(sent) = SubSeq(sent, 1, first - 1)
      BY <3>7 DEF Clear
    <3> HIDE DEF first, wedged
    <3>10. first - 1 = r
      BY <2>2, <3>8
    <3> DEFINE c == SubSeq(sent, 1, r)
    <3>11. c \in Seq(Sendable) /\ Len(c) = r /\ \A k \in 1..r : c[k] = sent[k]
      BY <2>2, <2>3
    <3> HIDE DEF c
    <3>12. received = c
      BY <2>2, <2>3, <2>7, <3>11, SameSeq
    <3>13. c # sent
      BY <2>9, <3>11
    <3>14. buf # <<>>
      BY <2>2, <3>2, <3>5
    <3> QED
      BY <3>9, <3>10, <3>12, <3>13, <3>14 DEF c
  <2> QED
    BY <2>8, <2>9
<1> QED
  BY <1>1, FramingInvariant, PTL

\* Framing implements PacketChannel: what Send, Read and Lose do is what the
\* channel's Send, Deliver and Lose may do.
THEOREM KeepsMessagesHolds == Spec => KeepsMessages
<1>1. Init => Channel!Init
  BY DEF Init, Channel!Init
<1>2. FramingInv /\ [Next]_vars => [Channel!Next]_(Channel!channelVars)
  <2>1. SUFFICES ASSUME FramingInv, [Next]_vars PROVE Channel!Next \/ UNCHANGED <<sent, received, open>>
    BY DEF Channel!channelVars
  <2>2. CASE \E m \in Messages \cup Wedges : Send(m)
    BY <2>2 DEF Send, Channel!Next, Channel!Send
  <2>3. CASE \E n \in 1..ReadBufSize : Read(n)
    <3> DEFINE r == Len(received)
    <3>1. PICK n \in 1..ReadBufSize : Read(n)
      BY <2>3
    <3>2. PICK h \in 0..(Len(sent) - r) :
            /\ received' \in Seq(Messages) /\ Len(received') = r + h
            /\ \A k \in 1..(r + h) : received'[k] = sent[k] /\ sent[k] \notin Wedges
            /\ \A k \in 1..(r + h - 1) : sent[k] \notin Last
            /\ open' = (\A k \in 1..(r + h) : sent[k] \notin Last)
            /\ sent' = sent
      BY <2>1, <3>1, ReadHandles
    <3>3. sent \in Seq(Sendable) /\ Len(sent) \in Nat /\ r \in Nat /\ r + h \in 0..Len(sent)
      BY <2>1, <3>2 DEF FramingInv, TypeOK, Sendable
    <3>4. received' = SubSeq(sent, 1, r + h)
      <4> DEFINE c == SubSeq(sent, 1, r + h)
      <4>1. c \in Seq(Sendable) /\ Len(c) = r + h /\ \A k \in 1..(r + h) : c[k] = sent[k]
        BY <3>3
      <4> HIDE DEF c
      <4>2. received' \in Seq(Sendable)
        BY <3>2, Messaging
      <4>3. received' = c
        BY <3>2, <4>1, <4>2, SameSeq
      <4> QED
        BY <4>3 DEF c
    <3>5. open
      BY <3>1 DEF Read
    <3>6. Channel!Deliver(h)
      BY <3>2, <3>4, <3>5 DEF Channel!Deliver
    <3> QED
      BY <3>6 DEF Channel!Next
  <2>4. CASE Lose
    BY <2>4 DEF Lose, Channel!Next, Channel!Lose
  <2>5. CASE UNCHANGED vars
    BY <2>5 DEF vars
  <2> QED
    BY <2>1, <2>2, <2>3, <2>4, <2>5 DEF Next
<1> QED
  BY <1>1, <1>2, FramingInvariant, PTL DEF Spec, KeepsMessages, Channel!Spec
=============================================================================
