---------------------------- MODULE StartupProofs ----------------------------
(***************************************************************************)
(* Proofs about Startup, and about the parsers of Trust, for every bundle, *)
(* every access list and every set of identities.  The walk of NewCertPool *)
(* through a bundle is a recursive function; what it returns is proved by  *)
(* induction on the length of what is left to read.                        *)
(***************************************************************************)
EXTENDS Startup, FiniteSetTheorems, WellFoundedInduction, TLAPS

-----------------------------------------------------------------------------
(* Induction over the natural numbers, for sets *)

\* A set of natural numbers has a least element.
LEMMA Smallest ==
  ASSUME NEW T, T \subseteq Nat, T # {}
  PROVE  \E m \in T : \A k \in T : m <= k
<1>1. PICK x \in T : \A y \in T : <<y, x>> \notin OpToRel(<, Nat)
  BY NatLessThanWellFounded, WFMin
<1>2. ASSUME NEW y \in T, y < x PROVE FALSE
  <2>1. <<y, x>> \in {ss \in Nat \X Nat : ss[1] < ss[2]}
    BY <1>2
  <2> QED
    BY <1>1, <2>1 DEF OpToRel
<1> QED
  BY <1>2

\* A set with 0 that is closed under successor holds every natural number.
LEMMA SetInduction ==
  ASSUME NEW S, 0 \in S, \A n \in Nat : n \in S => n + 1 \in S
  PROVE  \A n \in Nat : n \in S
<1>1. SUFFICES ASSUME Nat \ S # {} PROVE FALSE
  OBVIOUS
<1>2. PICK m \in Nat \ S : \A k \in Nat \ S : m <= k
  BY <1>1, Smallest
<1>3. m # 0 /\ m - 1 \in Nat
  BY <1>2
<1>4. m - 1 \in S
  BY <1>2, <1>3
<1> QED
  BY <1>2, <1>3, <1>4

-----------------------------------------------------------------------------
(* The walk of NewCertPool *)

Bundles == Seq(Piece)

\* One step of the walk, and the walk from every piece.
Body(b, f, i) ==
  LET j == Decode(b, i)
  IN  IF i > Len(b) THEN {}
      ELSE IF b[i].kind = "junk" \/ j = 0 \/ b[j].kind # "cert" THEN {0}
      ELSE {j} \cup f[j + 1]

Walk(b) == CHOOSE f : f = [i \in 1..Len(b) + 1 |-> Body(b, f, i)]

LEMMA AddedWalk ==
  ASSUME NEW b PROVE Added(b) = Walk(b)[1]
BY DEF Added, Walk, Body

\* pem.Decode finds nothing, or the first readable block from i on.
LEMMA DecodeFinds ==
  ASSUME NEW b \in Bundles, NEW i \in Nat \ {0}
  PROVE  LET j == Decode(b, i)
             readable == {"cert", "broken", "other"}
         IN  \/ /\ j = 0
                /\ \A k \in i..Len(b) : b[k].kind \notin readable
             \/ /\ j \in i..Len(b) /\ b[j].kind \in readable
                /\ \A k \in i..(j - 1) : b[k].kind \notin readable
<1> DEFINE readable == {"cert", "broken", "other"}
           found == {j \in Declared(b, readable) : j >= i}
<1>1. found = {k \in i..Len(b) : b[k].kind \in readable}
  BY DEF Declared, Bundles
<1>2. CASE found = {}
  <2>1. Decode(b, i) = 0
    BY <1>2 DEF Decode
  <2> QED
    BY <1>1, <1>2, <2>1
<1>3. CASE found # {}
  <2>1. found \subseteq Nat
    BY <1>1
  <2>2. \E j \in found : \A k \in found : j <= k
    BY <1>3, <2>1, Smallest
  <2>3. Decode(b, i) = CHOOSE j \in found : \A k \in found : j <= k
    BY <1>3 DEF Decode
  <2>4. Decode(b, i) \in found /\ \A k \in found : Decode(b, i) <= k
    BY <2>2, <2>3
  <2> HIDE DEF found
  <2>5. ASSUME NEW k \in i..(Decode(b, i) - 1), b[k].kind \in readable PROVE FALSE
    <3>1. Decode(b, i) \in Nat /\ Decode(b, i) <= Len(b) /\ Len(b) \in Nat
      BY <1>1, <2>4 DEF Bundles
    <3>2. k \in found
      BY <1>1, <2>5, <3>1
    <3> QED
      BY <2>4, <2>5, <3>1, <3>2
  <2> QED
    BY <1>1, <2>4, <2>5
<1> QED
  BY <1>2, <1>3

\* A step looks only ahead.
LEMMA BodyAhead ==
  ASSUME NEW b \in Bundles, NEW f, NEW g, NEW i \in 1..Len(b) + 1,
         \A k \in (i + 1)..(Len(b) + 1) : f[k] = g[k]
  PROVE  Body(b, f, i) = Body(b, g, i)
<1>1. Len(b) \in Nat /\ i \in Nat \ {0}
  BY DEF Bundles
<1>2. Decode(b, i) = 0 \/ Decode(b, i) \in i..Len(b)
  BY <1>1, DecodeFinds
<1>3. Decode(b, i) # 0 => Decode(b, i) + 1 \in (i + 1)..(Len(b) + 1)
  BY <1>1, <1>2
<1> QED
  BY <1>3 DEF Body

\* There is such a walk: it is built from the end of the bundle.
LEMMA WalkExists ==
  ASSUME NEW b \in Bundles
  PROVE  Walk(b) = [i \in 1..Len(b) + 1 |-> Body(b, Walk(b), i)]
<1> DEFINE All == 1..Len(b) + 1
           From(n) == (Len(b) + 2 - n)..(Len(b) + 1)
           Right(f, n) == f = [i \in All |-> f[i]] /\ \A i \in From(n) : f[i] = Body(b, f, i)
           S == {n \in Nat : n <= Len(b) + 1 => \E f : Right(f, n)}
<1>0. Len(b) \in Nat
  BY DEF Bundles
<1>1. 0 \in S
  <2>1. From(0) = {}
    BY <1>0
  <2> DEFINE empty == [i \in All |-> {}]
  <2>2. Right(empty, 0)
    BY <2>1
  <2> QED
    BY <2>2
<1>2. ASSUME NEW n \in Nat, n \in S PROVE n + 1 \in S
  <2>1. SUFFICES ASSUME n + 1 <= Len(b) + 1 PROVE \E f : Right(f, n + 1)
    OBVIOUS
  <2>2. PICK f : Right(f, n)
    BY <1>0, <1>2, <2>1
  <2> DEFINE k == Len(b) + 1 - n
             g == [i \in All |-> IF i = k THEN Body(b, f, k) ELSE f[i]]
  <2>3. k \in All /\ k \in Nat /\ From(n) = (k + 1)..(Len(b) + 1) /\ From(n + 1) = k..(Len(b) + 1)
    BY <1>0, <2>1
  <2>4. ASSUME NEW i \in From(n + 1) PROVE g[i] = Body(b, g, i)
    <3>1. i \in All /\ i \in Nat /\ i >= k
      BY <1>0, <2>3
    <3>2. \A m \in (i + 1)..(Len(b) + 1) : f[m] = g[m]
      BY <1>0, <2>3, <3>1
    <3>3. Body(b, f, i) = Body(b, g, i)
      BY <3>1, <3>2, BodyAhead
    <3>4. g[i] = Body(b, f, i)
      <4>1. CASE i = k
        BY <3>1, <4>1
      <4>2. CASE i # k
        <5>1. i \in From(n)
          BY <1>0, <2>3, <3>1, <4>2
        <5> QED
          BY <2>2, <3>1, <4>2, <5>1
      <4> QED
        BY <4>1, <4>2
    <3> QED
      BY <3>3, <3>4
  <2>5. g = [i \in All |-> g[i]]
    OBVIOUS
  <2>6. Right(g, n + 1)
    BY <2>4, <2>5
  <2> QED
    BY <2>6
<1>3. Len(b) + 1 \in S
  <2> HIDE DEF S
  <2> QED
    BY <1>0, <1>1, <1>2, SetInduction
<1>4. PICK f : Right(f, Len(b) + 1)
  BY <1>0, <1>3
<1>5. From(Len(b) + 1) = All
  BY <1>0
<1>6. f = [i \in All |-> Body(b, f, i)]
  BY <1>4, <1>5
<1> QED
  BY <1>6 DEF Walk

LEMMA WalkStep ==
  ASSUME NEW b \in Bundles, NEW i \in 1..Len(b) + 1
  PROVE  Walk(b)[i] = Body(b, Walk(b), i)
<1>1. \A f : f = [k \in 1..Len(b) + 1 |-> Body(b, Walk(b), k)] => f[i] = Body(b, Walk(b), i)
  OBVIOUS
<1> QED
  BY <1>1, WalkExists

\* From piece i the walk returns the certificates and has met no other block,
\* unless it stops; and without a bare BEGIN line it has met nothing else.
Met(b, i) ==
  0 \notin Walk(b)[i] =>
    /\ Walk(b)[i] = {j \in i..Len(b) : b[j].kind = "cert"}
    /\ \A j \in i..Len(b) : b[j].kind \notin {"broken", "other"}
    /\ \/ \E j \in i..Len(b) : b[j].kind = "open"
       \/ \A j \in i..Len(b) : b[j].kind = "cert"

\* It does not stop on certificates alone.
Whole(b, i) ==
  (\A j \in i..Len(b) : b[j].kind = "cert") => Walk(b)[i] = i..Len(b)

LEMMA WalkMeets ==
  ASSUME NEW b \in Bundles
  PROVE  Met(b, 1) /\ Whole(b, 1)
<1> DEFINE S == {n \in Nat : n <= Len(b) =>
                   \A i \in (Len(b) + 1 - n)..(Len(b) + 1) : Met(b, i) /\ Whole(b, i)}
<1>0. Len(b) \in Nat
  BY DEF Bundles
<1>1. ASSUME NEW i \in Nat, i = Len(b) + 1 PROVE Met(b, i) /\ Whole(b, i)
  <2>1. i \in 1..Len(b) + 1 /\ i > Len(b) /\ i..Len(b) = {}
    BY <1>0, <1>1
  <2>2. Walk(b)[i] = {}
    BY <2>1, WalkStep DEF Body
  <2> QED
    BY <2>1, <2>2 DEF Met, Whole
<1>2. 0 \in S
  BY <1>0, <1>1
<1>3. ASSUME NEW n \in Nat, n \in S PROVE n + 1 \in S
  <2>1. SUFFICES ASSUME n + 1 <= Len(b)
                 PROVE  \A i \in (Len(b) - n)..(Len(b) + 1) : Met(b, i) /\ Whole(b, i)
    BY <1>0
  <2> DEFINE i == Len(b) - n
             j == Decode(b, i)
  <2>2. i \in 1..Len(b) /\ i \in Nat \ {0}
    BY <1>0, <2>1
  <2>3. \A k \in (i + 1)..(Len(b) + 1) : Met(b, k) /\ Whole(b, k)
    BY <1>0, <1>3, <2>1
  <2>4. Walk(b)[i] = IF b[i].kind = "junk" \/ j = 0 \/ b[j].kind # "cert" THEN {0}
                     ELSE {j} \cup Walk(b)[j + 1]
    <3>1. i \in 1..Len(b) + 1 /\ ~(i > Len(b))
      BY <1>0, <2>2
    <3> HIDE DEF i
    <3>2. Walk(b)[i] = Body(b, Walk(b), i)
      BY <3>1, WalkStep
    <3> QED
      BY <3>1, <3>2 DEF Body
  <2> HIDE DEF j
  <2>5. \/ /\ j = 0
           /\ \A k \in i..Len(b) : b[k].kind \notin {"cert", "broken", "other"}
        \/ /\ j \in i..Len(b) /\ b[j].kind \in {"cert", "broken", "other"}
           /\ \A k \in i..(j - 1) : b[k].kind \notin {"cert", "broken", "other"}
    BY <2>2, DecodeFinds DEF j
  <2> HIDE DEF i
  <2>6. j # 0 => j \in i..Len(b) /\ j + 1 \in (i + 1)..(Len(b) + 1)
    BY <1>0, <2>2, <2>5
  <2>7. Met(b, i)
    <3>1. SUFFICES ASSUME 0 \notin Walk(b)[i]
                   PROVE  /\ Walk(b)[i] = {k \in i..Len(b) : b[k].kind = "cert"}
                          /\ \A k \in i..Len(b) : b[k].kind \notin {"broken", "other"}
                          /\ \/ \E k \in i..Len(b) : b[k].kind = "open"
                             \/ \A k \in i..Len(b) : b[k].kind = "cert"
      BY DEF Met
    <3>2. /\ b[i].kind # "junk" /\ j # 0 /\ b[j].kind = "cert"
          /\ Walk(b)[i] = {j} \cup Walk(b)[j + 1] /\ 0 \notin Walk(b)[j + 1]
      BY <2>4, <3>1
    <3>3. /\ Walk(b)[j + 1] = {k \in (j + 1)..Len(b) : b[k].kind = "cert"}
          /\ \A k \in (j + 1)..Len(b) : b[k].kind \notin {"broken", "other"}
          /\ \/ \E k \in (j + 1)..Len(b) : b[k].kind = "open"
             \/ \A k \in (j + 1)..Len(b) : b[k].kind = "cert"
      BY <2>3, <2>6, <3>2 DEF Met
    <3>4. \A k \in i..Len(b) : k \in i..(j - 1) \/ k = j \/ k \in (j + 1)..Len(b)
      BY <1>0, <2>2, <2>6, <3>2
    <3>5. \A k \in i..(j - 1) : b[k].kind \notin {"cert", "broken", "other"}
      BY <2>5, <3>2
    <3>6. (j + 1)..Len(b) \subseteq i..Len(b)
      BY <1>0, <2>2, <2>6, <3>2
    <3>7. Walk(b)[i] = {k \in i..Len(b) : b[k].kind = "cert"}
      BY <2>6, <3>2, <3>3, <3>4, <3>5, <3>6
    <3>8. \A k \in i..Len(b) : b[k].kind \notin {"broken", "other"}
      BY <3>2, <3>3, <3>4, <3>5
    <3>9. \/ \E k \in i..Len(b) : b[k].kind = "open"
          \/ \A k \in i..Len(b) : b[k].kind = "cert"
      <4>1. CASE i = j
        BY <1>0, <2>2, <3>2, <3>3, <3>4, <3>6, <4>1
      <4>2. CASE i # j
        <5>1. i \in i..(j - 1) /\ i \in i..Len(b)
          BY <1>0, <2>2, <2>6, <3>2, <4>2
        <5>2. b[i] \in Piece
          BY <2>2 DEF Bundles
        <5>3. b[i].kind = "open"
          BY <3>2, <3>5, <5>1, <5>2 DEF Piece
        <5> QED
          BY <5>1, <5>3
      <4> QED
        BY <4>1, <4>2
    <3> QED
      BY <3>7, <3>8, <3>9
  <2>8. Whole(b, i)
    <3>1. SUFFICES ASSUME \A k \in i..Len(b) : b[k].kind = "cert"
                   PROVE  Walk(b)[i] = i..Len(b)
      BY DEF Whole
    <3>2. i \in i..Len(b) /\ b[i].kind = "cert"
      BY <1>0, <2>2, <3>1
    <3>3. j = i
      BY <1>0, <2>2, <2>5, <3>2
    <3>4. Walk(b)[i + 1] = (i + 1)..Len(b)
      BY <1>0, <2>2, <2>3, <3>1 DEF Whole
    <3>5. Walk(b)[i] = {i} \cup Walk(b)[i + 1]
      BY <2>2, <2>4, <3>2, <3>3
    <3> QED
      BY <1>0, <2>2, <3>4, <3>5
  <2> QED
    BY <1>0, <2>2, <2>3, <2>7, <2>8 DEF i
<1>4. Len(b) \in S
  <2> HIDE DEF S
  <2> QED
    BY <1>0, <1>2, <1>3, SetInduction
<1> QED
  BY <1>0, <1>4

-----------------------------------------------------------------------------
(* Both parsers *)

\* NewCertPool accepts the bundles of certificates, and no others.
LEMMA PoolIsWhole ==
  ASSUME NEW b \in Bundles, b # <<>>
  PROVE  IF \E i \in DOMAIN b : b[i].kind # "cert"
         THEN NewCertPool(b) = Refused
         ELSE NewCertPool(b) = {b[i].ca : i \in DOMAIN b} /\ ParseBundle(b) = NewCertPool(b)
<1> DEFINE blocks == Declared(b, {"cert", "broken", "other", "open"})
<1>0. Len(b) \in Nat /\ DOMAIN b = 1..Len(b) /\ 1 \in DOMAIN b /\ 0 \notin 1..Len(b)
  BY DEF Bundles
<1>1. Added(b) = Walk(b)[1]
  BY AddedWalk
<1>2. CASE \E i \in DOMAIN b : b[i].kind # "cert"
  <2>1. SUFFICES ASSUME NewCertPool(b) # Refused PROVE FALSE
    BY <1>2
  <2>2. 0 \notin Added(b) /\ Cardinality(Added(b)) = Cardinality(blocks)
    BY <2>1 DEF NewCertPool
  <2>3. /\ Added(b) = {j \in 1..Len(b) : b[j].kind = "cert"}
        /\ \E j \in 1..Len(b) : b[j].kind = "open"
    BY <1>0, <1>1, <1>2, <2>2, WalkMeets DEF Met
  <2>4. IsFiniteSet(blocks) /\ Added(b) \in SUBSET blocks
    <3>1. IsFiniteSet(1..Len(b)) /\ blocks \subseteq 1..Len(b)
      BY <1>0, FS_Interval DEF Declared
    <3>2. Added(b) \subseteq blocks
      BY <1>0, <2>3 DEF Declared
    <3> QED
      BY <3>1, <3>2, FS_Subset
  <2>5. Added(b) = blocks
    BY <2>2, <2>4, FS_Subset
  <2> QED
    BY <1>0, <2>3, <2>5 DEF Declared
<1>3. CASE \A i \in DOMAIN b : b[i].kind = "cert"
  <2>1. Added(b) = 1..Len(b)
    BY <1>0, <1>1, <1>3, WalkMeets DEF Whole
  <2>2. blocks = 1..Len(b) /\ Declared(b, {"cert"}) = 1..Len(b) /\ Declared(b, {"broken"}) = {}
    BY <1>0, <1>3 DEF Declared
  <2>3. NewCertPool(b) = {b[j].ca : j \in 1..Len(b)}
    BY <1>0, <2>1, <2>2 DEF NewCertPool
  <2>4. ParseBundle(b) = {b[j].ca : j \in 1..Len(b)}
    BY <1>0, <2>2 DEF ParseBundle
  <2> QED
    BY <1>0, <1>3, <2>3, <2>4
<1> QED
  BY <1>2, <1>3

LEMMA BundleOf ==
  ASSUME NEW o \in Overrides, CACert(o) # Refused
  PROVE  /\ CACert(o) \in Bundles /\ CACert(o) # <<>> /\ o \notin {NotThere, <<>>}
         /\ CACert(o) = IF o = NoOverride THEN Embedded ELSE o
<1>1. o = NoOverride \/ o = NotThere \/ o \in Seq(Piece)
  BY StartupAssumption
<1>2. NoOverride # NotThere /\ NoOverride \notin Seq(Piece) /\ <<>> \in Seq(Piece)
  BY TrustAssumption
<1>3. CASE o = NoOverride
  BY <1>2, <1>3, TrustAssumption DEF CACert, Bundles
<1>4. CASE o # NoOverride
  <2>1. o \notin {NotThere, <<>>}
    BY <1>4 DEF CACert
  <2>2. CACert(o) = o
    BY <1>4, <2>1 DEF CACert
  <2> QED
    BY <1>1, <1>4, <2>1, <2>2 DEF Bundles
<1> QED
  BY <1>3, <1>4

LEMMA PoolOf ==
  ASSUME NEW o \in Overrides, CACert(o) # Refused, NewCertPool(CACert(o)) # Refused
  PROVE  /\ NewCertPool(CACert(o)) = {CACert(o)[i].ca : i \in DOMAIN CACert(o)}
         /\ NewCertPool(CACert(o)) \subseteq CAs
         /\ ParseBundle(CACert(o)) # Refused
<1> DEFINE b == CACert(o)
<1>1. b \in Bundles /\ b # <<>>
  BY BundleOf
<1> HIDE DEF b
<1>2. /\ \A i \in DOMAIN b : b[i].kind = "cert"
      /\ NewCertPool(b) = {b[i].ca : i \in DOMAIN b} /\ ParseBundle(b) = NewCertPool(b)
  BY <1>1, PoolIsWhole DEF b
<1>3. \A i \in DOMAIN b : b[i].ca \in CAs
  <2>1. \A i \in DOMAIN b : b[i] \in Piece
    BY <1>1 DEF Bundles
  <2> QED
    BY <1>2, <2>1 DEF Piece
<1> QED
  BY <1>2, <1>3 DEF b

-----------------------------------------------------------------------------
(* The invariant *)

Steps == {"idle", "ended", "done", "certificate", "key", "keyWrite", "asking", "access"}

SetupType ==
  setup \in [step : Steps, ident : Idents \cup {Missing}, hosts : Seq(Line), tried : Nat]

\* What a run of setup has written when it stands at a step.
Written ==
  /\ setup.step \in Steps \ {"idle", "ended"} => setup.ident \in Idents
  /\ setup.step \in {"key", "keyWrite"} => crt = setup.ident
  /\ setup.step \in {"asking", "access", "done"} => crt = setup.ident /\ key = setup.ident
  /\ setup.step \in {"certificate", "key", "keyWrite", "asking"} => setup.tried = 0
  /\ setup.step \in {"access", "done"} => access \in Seq(Line)

\* Unless a write failed, agent.access holds the lines tried so far, and all of
\* them when setup is done.
Listed ==
  ~lost =>
    /\ setup.step = "access" => /\ setup.tried <= Len(Wanted) /\ Len(access) = setup.tried
                                /\ \A k \in 1..setup.tried : access[k] = Wanted[k]
    /\ setup.step = "done" => access = Wanted

\* The running agent keeps the pool of the bundle it was told to use.
Trusting ==
  agent.up => /\ agent.asked \in Overrides /\ CACert(agent.asked) # Refused
              /\ agent.pool = NewCertPool(CACert(agent.asked)) /\ agent.pool # Refused

StartupInv == TypeOK /\ SetupType /\ Written /\ Listed /\ Trusting

LEMMA WantedLines ==
  ASSUME SetupType
  PROVE  Wanted \in Seq(Line) /\ Len(Wanted) \in Nat
<1>1. setup.hosts \in Seq(Line)
  BY DEF SetupType
<1>2. [kind |-> "blank", covers |-> {}] \in Line /\ [kind |-> "entry", covers |-> {Local}] \in Line
  BY StartupAssumption DEF Line
<1>3. <<[kind |-> "blank", covers |-> {}], [kind |-> "entry", covers |-> {Local}]>> \in Seq(Line)
  BY <1>2
<1> QED
  BY <1>1, <1>3 DEF Wanted

LEMMA StartupInit == Init => StartupInv
<1>1. SUFFICES ASSUME Init PROVE StartupInv
  OBVIOUS
<1>2. TypeOK
  BY <1>1 DEF Init, TypeOK, NoAgent
<1>3. SetupType /\ Written /\ Listed /\ Trusting
  BY <1>1 DEF Init, SetupType, Steps, Written, Listed, Trusting, NoAgent
<1> QED
  BY <1>2, <1>3 DEF StartupInv

\* Only "run" starts an agent.
LEMMA TrustingStep ==
  ASSUME Trusting, TypeOK, Next PROVE Trusting'
<1>1. CASE UNCHANGED agent
  BY <1>1 DEF Trusting
<1>2. CASE Run
  BY <1>2 DEF Run, RunStarts, Trusting, TypeOK
<1>3. CASE RunEnds
  BY <1>3 DEF RunEnds, NoAgent, Trusting
<1>4. Setup \/ Operator => UNCHANGED agent
  BY DEF Setup, SetupBegins, WriteCertificate, OpenKey, WriteKey, OpenAccess, WriteLine,
         SetupEnds, SetupFails, Operator, EditAccess, RemovePair, EditBundle
<1> QED
  BY <1>1, <1>2, <1>3, <1>4 DEF Next

LEMMA OpenedAccess ==
  ASSUME SetupType, Written, OpenAccess
  PROVE  /\ setup' = [step |-> "access", ident |-> setup.ident, hosts |-> setup'.hosts, tried |-> 0]
         /\ setup.ident \in Idents /\ setup'.hosts \in Inputs
         /\ crt = setup.ident /\ key = setup.ident
         /\ access' = <<>>
         /\ UNCHANGED <<override, verify, pairVars, lost, agent>>
<1>2. PICK hosts \in Inputs : setup' = [setup EXCEPT !.step = "access", !.hosts = hosts]
  BY DEF OpenAccess
<1>3. setup.step = "asking"
  BY DEF OpenAccess, At
<1>4. setup.ident \in Idents /\ crt = setup.ident /\ key = setup.ident /\ setup.tried = 0
  BY <1>3 DEF Written, Steps
<1>5. setup' = [step |-> "access", ident |-> setup.ident, hosts |-> hosts, tried |-> 0]
  BY <1>2, <1>4 DEF SetupType
<1> QED
  BY <1>4, <1>5 DEF OpenAccess

LEMMA StepGoes ==
  ASSUME SetupType, NEW step \in Steps, Goto(step)
  PROVE  /\ SetupType' /\ setup'.step = step /\ setup'.ident = setup.ident
         /\ setup'.hosts = setup.hosts /\ setup'.tried = setup.tried /\ Wanted' = Wanted
<1>1. setup' = [setup EXCEPT !.step = step]
  BY DEF Goto
<1>2. /\ setup'.step = step /\ setup'.ident = setup.ident
      /\ setup'.hosts = setup.hosts /\ setup'.tried = setup.tried
  BY <1>1 DEF SetupType
<1>3. SetupType'
  BY <1>1 DEF SetupType
<1> QED
  BY <1>2, <1>3 DEF Wanted

\* Everything but what Trusting says of the agent.
StateType ==
  /\ override \in Overrides /\ verify \in BOOLEAN
  /\ {crt, key} \subseteq Idents \cup {Missing, Torn}
  /\ access \in Seq(Line) \cup {Missing, Unreadable} /\ lost \in BOOLEAN
  /\ setup.hosts \in Inputs \cup {<<>>}

FileInv == StateType /\ SetupType /\ Written /\ Listed

LEMMA FilesAndAgent == FileInv /\ Trusting <=> StartupInv
<1>1. Trusting => (agent.up => agent.pool # Refused /\ agent.pool \subseteq CAs)
  BY PoolOf DEF Trusting
<1> QED
  BY <1>1 DEF FileInv, StateType, SetupType, Steps, StartupInv, TypeOK

LEMMA WriteLineStep ==
  ASSUME FileInv, WriteLine PROVE FileInv'
<1> USE DEF FileInv
<1> DEFINE n == setup.tried
<1>1. /\ setup.step = "access" /\ n \in Nat /\ n < Len(Wanted) /\ access \in Seq(Line)
      /\ Wanted \in Seq(Line) /\ Len(Wanted) \in Nat
  BY WantedLines DEF WriteLine, At, SetupType, Written
<1>2. setup' = [setup EXCEPT !.tried = n + 1] /\ UNCHANGED <<override, verify, crt, key, agent>>
  BY DEF WriteLine, pairVars
<1>3. /\ setup'.step = "access" /\ setup'.tried = n + 1
      /\ setup'.ident = setup.ident /\ setup'.hosts = setup.hosts
  BY <1>1, <1>2 DEF SetupType
<1>4. SetupType' /\ Wanted' = Wanted
  <2>1. setup' = [step |-> "access", ident |-> setup.ident, hosts |-> setup.hosts, tried |-> n + 1]
    BY <1>1, <1>2 DEF SetupType
  <2>2. n + 1 \in Nat
    BY <1>1
  <2> QED
    BY <1>3, <2>1, <2>2 DEF SetupType, Steps, Wanted
<1>5. \/ access' = Append(access, Wanted[n + 1]) /\ lost' = lost
      \/ lost' = TRUE /\ \E cut \in Cuts : access' = access \o cut
  BY DEF WriteLine
<1>6. access' \in Seq(Line)
  <2>1. Wanted[n + 1] \in Line
    BY <1>1
  <2>2. Cuts \subseteq Seq(Line)
    <3>1. [kind |-> "bad", covers |-> {}] \in Line /\ [kind |-> "entry", covers |-> Hosts] \in Line
      BY DEF Line
    <3> QED
      BY <3>1 DEF Cuts
  <2>3. Append(access, Wanted[n + 1]) \in Seq(Line)
    BY <1>1, <2>1
  <2>4. \A cut \in Cuts : access \o cut \in Seq(Line)
    BY <1>1, <2>2
  <2> QED
    BY <1>5, <2>3, <2>4
<1>7. StateType'
  BY <1>2, <1>3, <1>5, <1>6 DEF StateType
<1>8. Written'
  BY <1>1, <1>2, <1>3, <1>6 DEF Written, Steps
<1>9. Listed'
  <2>1. SUFFICES ASSUME ~lost'
                 PROVE  /\ n + 1 <= Len(Wanted) /\ Len(access') = n + 1
                        /\ \A k \in 1..n + 1 : access'[k] = Wanted[k]
    BY <1>3, <1>4 DEF Listed
  <2>2. ~lost /\ access' = Append(access, Wanted[n + 1])
    BY <1>5, <2>1
  <2>3. Len(access) = n /\ \A k \in 1..n : access[k] = Wanted[k]
    BY <1>1, <2>2 DEF Listed
  <2> QED
    BY <1>1, <2>2, <2>3
<1> QED
  BY <1>4, <1>7, <1>8, <1>9

LEMMA SetupEndsStep ==
  ASSUME FileInv, SetupEnds PROVE FileInv'
<1> USE DEF FileInv
<1>1. /\ setup.step = "access" /\ setup.tried = Len(Wanted) /\ access \in Seq(Line)
      /\ Wanted \in Seq(Line) /\ Len(Wanted) \in Nat
  BY WantedLines DEF SetupEnds, At, Written
<1>2. UNCHANGED <<override, verify, crt, key, access, lost, agent>> /\ Goto("done")
  BY DEF SetupEnds, pairVars, accessVars
<1>3. /\ SetupType' /\ setup'.step = "done" /\ setup'.ident = setup.ident
      /\ setup'.hosts = setup.hosts /\ Wanted' = Wanted
  BY <1>2, StepGoes DEF Steps
<1>4. ~lost => access = Wanted
  <2>1. ~lost => Len(access) = Len(Wanted) /\ \A k \in 1..Len(Wanted) : access[k] = Wanted[k]
    BY <1>1 DEF Listed
  <2> QED
    BY <1>1, <2>1
<1>5. StateType' /\ Written' /\ Listed'
  BY <1>1, <1>2, <1>3, <1>4 DEF StateType, Written, Listed, Steps
<1> QED
  BY <1>3, <1>5

LEMMA FileStep ==
  ASSUME FileInv, [Next]_vars PROVE FileInv'
<1> USE DEF FileInv
<1>1. CASE SetupBegins
  <2>1. /\ UNCHANGED <<override, verify, key, access, agent>> /\ crt' = Torn /\ lost' = FALSE
    BY <1>1 DEF SetupBegins
  <2>2. PICK i \in Idents :
          setup' = [step |-> "certificate", ident |-> i, hosts |-> <<>>, tried |-> 0]
    BY <1>1 DEF SetupBegins
  <2>3. /\ setup'.step = "certificate" /\ setup'.ident \in Idents
        /\ setup'.hosts = <<>> /\ setup'.tried = 0
    BY <2>2
  <2>4. SetupType'
    <3>1. <<>> \in Seq(Line)
      OBVIOUS
    <3> QED
      BY <2>2, <3>1 DEF SetupType, Steps
  <2>5. StateType'
    BY <2>1, <2>3 DEF StateType
  <2>6. Written' /\ Listed'
    BY <2>1, <2>3 DEF Written, Listed, Steps
  <2> QED
    BY <2>4, <2>5, <2>6
<1>2. CASE WriteCertificate
  <2>1. /\ setup.step = "certificate" /\ crt' = setup.ident /\ Goto("key")
        /\ UNCHANGED <<override, verify, key, access, lost, agent>>
    BY <1>2 DEF WriteCertificate, At, accessVars
  <2>2. /\ SetupType' /\ setup'.step = "key" /\ setup'.ident = setup.ident
        /\ setup'.hosts = setup.hosts /\ setup'.tried = setup.tried
    BY <2>1, StepGoes DEF Steps
  <2> QED
    BY <2>1, <2>2 DEF StateType, Written, Listed, Steps
<1>3. CASE OpenKey
  <2>1. /\ setup.step = "key" /\ key' = Torn /\ Goto("keyWrite")
        /\ UNCHANGED <<override, verify, crt, access, lost, agent>>
    BY <1>3 DEF OpenKey, At, accessVars
  <2>2. /\ SetupType' /\ setup'.step = "keyWrite" /\ setup'.ident = setup.ident
        /\ setup'.hosts = setup.hosts /\ setup'.tried = setup.tried
    BY <2>1, StepGoes DEF Steps
  <2> QED
    BY <2>1, <2>2 DEF StateType, Written, Listed, Steps
<1>4. CASE WriteKey
  <2>1. /\ setup.step = "keyWrite" /\ key' = setup.ident /\ Goto("asking")
        /\ UNCHANGED <<override, verify, crt, access, lost, agent>>
    BY <1>4 DEF WriteKey, At, accessVars
  <2>2. /\ SetupType' /\ setup'.step = "asking" /\ setup'.ident = setup.ident
        /\ setup'.hosts = setup.hosts /\ setup'.tried = setup.tried
    BY <2>1, StepGoes DEF Steps
  <2> QED
    BY <2>1, <2>2 DEF StateType, Written, Listed, Steps
<1>5. CASE OpenAccess
  <2>1. /\ setup' = [step |-> "access", ident |-> setup.ident, hosts |-> setup'.hosts, tried |-> 0]
        /\ setup.ident \in Idents /\ setup'.hosts \in Inputs
        /\ crt = setup.ident /\ key = setup.ident /\ access' = <<>>
        /\ UNCHANGED <<override, verify, crt, key, lost, agent>>
    BY <1>5, OpenedAccess DEF pairVars
  <2>2. /\ setup'.step = "access" /\ setup'.ident = setup.ident /\ setup'.tried = 0
        /\ setup'.hosts \in Seq(Line)
    BY <2>1, StartupAssumption
  <2>3. SetupType'
    BY <2>1, <2>2 DEF SetupType, Steps
  <2>4. StateType' /\ Written'
    BY <2>1, <2>2 DEF StateType, Written, Steps
  <2>5. Len(Wanted') \in Nat
    <3>1. Wanted' \in Seq(Line)
      <4>1. /\ [kind |-> "blank", covers |-> {}] \in Line
            /\ [kind |-> "entry", covers |-> {Local}] \in Line
        BY StartupAssumption DEF Line
      <4>2. <<[kind |-> "blank", covers |-> {}], [kind |-> "entry", covers |-> {Local}]>> \in Seq(Line)
        BY <4>1
      <4> QED
        BY <2>2, <4>2 DEF Wanted
    <3> QED
      BY <3>1
  <2>6. Listed'
    BY <2>1, <2>2, <2>5 DEF Listed
  <2> QED
    BY <2>3, <2>4, <2>6
<1>6. CASE WriteLine
  BY <1>6, WriteLineStep
<1>7. CASE SetupEnds
  BY <1>7, SetupEndsStep
<1>8. CASE SetupFails
  <2>1. Goto("ended") /\ UNCHANGED <<override, verify, crt, key, access, lost, agent>>
    BY <1>8 DEF SetupFails, pairVars, accessVars
  <2>2. /\ SetupType' /\ setup'.step = "ended" /\ setup'.ident = setup.ident
        /\ setup'.hosts = setup.hosts /\ setup'.tried = setup.tried
    BY <2>1, StepGoes DEF Steps
  <2> QED
    BY <2>1, <2>2 DEF StateType, Written, Listed, Steps
<1>9. CASE UNCHANGED <<override, verify, crt, key, access, lost, setup>>
  BY <1>9 DEF StateType, SetupType, Written, Listed, Wanted
<1>10. CASE Operator
  <2>1. Goto("idle")
    BY <1>10 DEF Operator, EditAccess, RemovePair, EditBundle, Rests
  <2>2. /\ SetupType' /\ setup'.step = "idle" /\ setup'.ident = setup.ident
        /\ setup'.hosts = setup.hosts /\ setup'.tried = setup.tried
    BY <2>1, StepGoes DEF Steps
  <2>3. Written' /\ Listed'
    BY <2>2 DEF Written, Listed, Steps
  <2>4. setup'.hosts \in Inputs \cup {<<>>}
    BY <2>2 DEF StateType
  <2>5. CASE EditAccess
    <3>1. access' \in Seq(Line) \cup {Missing, Unreadable} /\ lost' = FALSE
      BY <2>5, StartupAssumption DEF EditAccess
    <3>2. UNCHANGED <<override, verify, crt, key>>
      BY <2>5 DEF EditAccess, pairVars
    <3>3. StateType'
      BY <2>4, <3>1, <3>2 DEF StateType
    <3> QED
      BY <2>2, <2>3, <3>3
  <2>6. CASE RemovePair
    <3>1. UNCHANGED <<override, verify, access, lost>>
      BY <2>6 DEF RemovePair, accessVars
    <3>2. {crt', key'} \subseteq {crt, key, Missing}
      BY <2>6 DEF RemovePair
    <3>3. StateType'
      BY <2>4, <3>1, <3>2 DEF StateType
    <3> QED
      BY <2>2, <2>3, <3>3
  <2>7. CASE EditBundle
    <3>1. override' \in Overrides /\ verify' \in BOOLEAN /\ UNCHANGED <<crt, key, access, lost>>
      BY <2>7 DEF EditBundle, pairVars, accessVars
    <3>2. StateType'
      BY <2>4, <3>1 DEF StateType
    <3> QED
      BY <2>2, <2>3, <3>2
  <2> QED
    BY <1>10, <2>5, <2>6, <2>7 DEF Operator
<1>11. CASE Run \/ RunEnds
  BY <1>9, <1>11 DEF Run, RunEnds, pairVars, accessVars
<1>12. CASE UNCHANGED vars
  BY <1>9, <1>12 DEF vars, pairVars, accessVars
<1> QED
  BY <1>1, <1>2, <1>3, <1>4, <1>5, <1>6, <1>7, <1>8, <1>10, <1>11, <1>12 DEF Next, Setup

-----------------------------------------------------------------------------
(* Theorems *)

\* Every reachable state satisfies the invariant.
THEOREM StartupInvariant == Spec => []StartupInv
<1>1. StartupInv /\ [Next]_vars => StartupInv'
  <2>1. SUFFICES ASSUME StartupInv, [Next]_vars PROVE StartupInv'
    OBVIOUS
  <2>2. FileInv /\ Trusting /\ TypeOK
    BY <2>1, FilesAndAgent DEF StartupInv
  <2>3. FileInv'
    BY <2>1, <2>2, FileStep
  <2>4. Trusting'
    <3>1. CASE Next
      BY <2>2, <3>1, TrustingStep
    <3>2. CASE UNCHANGED vars
      BY <2>2, <3>2 DEF vars, Trusting
    <3> QED
      BY <2>1, <3>1, <3>2
  <2>5. Trusting' => (agent'.up => agent'.pool # Refused /\ agent'.pool \subseteq CAs)
    BY PoolOf DEF Trusting
  <2> QED
    BY <2>3, <2>4, <2>5 DEF FileInv, StateType, SetupType, Steps, StartupInv, TypeOK
<1> QED
  BY <1>1, StartupInit, PTL DEF Spec

\* The variables have their types; a running agent has a pool of CAs.
THEOREM StartupTypeCorrect == Spec => []TypeOK
<1>1. StartupInv => TypeOK
  BY DEF StartupInv
<1> QED
  BY <1>1, StartupInvariant, PTL

\* A bundle is taken as a whole or not at all, however it is damaged, and "check"
\* shows the CAs the agent trusts.
THEOREM StrictBundleHolds == Spec => []StrictBundle
<1>1. StartupInv => StrictBundle
  <2>1. SUFFICES ASSUME override \in Overrides PROVE StrictBundle
    BY DEF StartupInv, TypeOK
  <2> DEFINE b == CACert(override)
  <2>2. b # Refused => b \in Bundles /\ b # <<>>
    BY <2>1, BundleOf
  <2> HIDE DEF b
  <2>3. b # Refused =>
          IF \E i \in DOMAIN b : b[i].kind # "cert"
          THEN NewCertPool(b) = Refused
          ELSE NewCertPool(b) = {b[i].ca : i \in DOMAIN b} /\ ParseBundle(b) = NewCertPool(b)
    BY <2>2, PoolIsWhole
  <2> QED
    BY <2>3 DEF b, StrictBundle
<1> QED
  BY <1>1, StartupInvariant, PTL

\* An agent judges renewals by the CAs of the bundle it was told to use when it was
\* started, all of them and no others; and servers too, unless it was started
\* with DEPLOY_AGENT_NOVERIFY.
THEOREM TrustsWhatWasAskedHolds == Spec => []TrustsWhatWasAsked
<1>1. StartupInv => TrustsWhatWasAsked
  <2> DEFINE asked == agent.asked
             bundle == CASE asked = NoOverride -> Embedded
                         [] asked = NotThere   -> <<>>
                         [] OTHER              -> asked
             CAsOf == {bundle[i].ca : i \in DOMAIN bundle}
  <2>1. SUFFICES ASSUME StartupInv, agent.up
                 PROVE  /\ agent.pool = CAsOf
                        /\ \A leaf \in Leaves : Believes(agent, leaf) =>
                              ~agent.verify \/ leaf.issuer \in CAsOf
    BY DEF TrustsWhatWasAsked
  <2>2. /\ asked \in Overrides /\ CACert(asked) # Refused
        /\ agent.pool = NewCertPool(CACert(asked)) /\ NewCertPool(CACert(asked)) # Refused
    BY <2>1 DEF StartupInv, Trusting
  <2>3. bundle = CACert(asked)
    <3>1. asked # NotThere /\ CACert(asked) = IF asked = NoOverride THEN Embedded ELSE asked
      BY <2>2, BundleOf
    <3> QED
      BY <3>1
  <2> HIDE DEF bundle
  <2>4. agent.pool = CAsOf
    BY <2>2, <2>3, PoolOf
  <2>5. ASSUME NEW leaf \in Leaves, Believes(agent, leaf), agent.verify
        PROVE  leaf.issuer \in CAsOf
    BY <2>4, <2>5 DEF Believes, VerifyConnection
  <2> QED
    BY <2>4, <2>5
<1> QED
  BY <1>1, StartupInvariant, PTL

LEMMA AccessIsAFile ==
  Missing \notin Seq(Line) /\ Unreadable \notin Seq(Line)
BY AccessAssumption

\* What "check" says is what "run" does, with the exceptions the property names,
\* and an agent starts from what a successful setup leaves.
THEOREM CheckAgreesWithRunHolds == Spec => []CheckAgreesWithRun
<1>1. StartupInv => CheckAgreesWithRun
  <2>1. SUFFICES ASSUME StartupInv PROVE CheckAgreesWithRun
    OBVIOUS
  <2> DEFINE pool == NewCertPool(CACert(override))
  <2>2. override \in Overrides
    BY <2>1 DEF StartupInv, TypeOK
  <2>3. Missing \notin Idents
    BY StartupAssumption
  <2>4. CheckPasses => \/ RunStarts
                       \/ access \in {Missing, Unreadable}
                       \/ ~verify /\ pool = Refused
    BY <2>3 DEF CheckPasses, RunStarts, Configured, Loads
  <2>5. RunStarts => CheckPasses
    BY <2>2, <2>3, PoolOf DEF CheckPasses, RunStarts, PairLoads
  <2>6. ASSUME At("done"), CACert(override) # Refused PROVE RunStarts \/ pool = Refused
    <3>1. setup.ident \in Idents /\ crt = setup.ident /\ key = setup.ident /\ access \in Seq(Line)
      BY <2>1, <2>6 DEF StartupInv, Written, Steps, At
    <3> QED
      BY <2>3, <2>6, <3>1, AccessIsAFile DEF RunStarts, Configured, PairLoads, Loads
  <2> QED
    BY <2>4, <2>5, <2>6 DEF CheckAgreesWithRun
<1> QED
  BY <1>1, StartupInvariant, PTL

\* A list that is the beginning of another covers no more than the other.
LEMMA PartOfAList ==
  ASSUME NEW part \in Seq(Line), NEW all \in Seq(Line), Len(part) <= Len(all),
         \A k \in 1..Len(part) : part[k] = all[k]
  PROVE  Parse(part) \subseteq Parse(all)
<1>1. Range(part) \subseteq Range(all)
  BY DEF Range
<1> QED
  BY <1>1 DEF Parse

\* While setup writes agent.access the file allows only what was typed, and all
\* of it in the end, unless a write failed.
THEOREM ListAsTypedHolds == Spec => []ListAsTyped
<1>1. StartupInv => ListAsTyped
  <2>1. SUFFICES ASSUME StartupInv, ~lost
                 PROVE  /\ At("access") \/ At("done") =>
                             \A h \in Hosts : Allows(Loaded(access), h) => Allows(Parse(Wanted), h)
                        /\ At("done") => Loaded(access) = Parse(Wanted)
    BY DEF ListAsTyped
  <2>2. SetupType /\ Written /\ Listed
    BY <2>1 DEF StartupInv
  <2>3. Wanted \in Seq(Line) /\ Len(Wanted) \in Nat
    BY <2>2, WantedLines
  <2>4. At("access") \/ At("done") => access \in Seq(Line) /\ Loaded(access) = Parse(access)
    BY <2>2, AccessIsAFile DEF Written, At, Loaded
  <2>5. At("done") => access = Wanted
    BY <2>1, <2>2 DEF Listed, At
  <2>6. At("access") => Parse(access) \subseteq Parse(Wanted)
    <3>1. SUFFICES ASSUME At("access") PROVE Parse(access) \subseteq Parse(Wanted)
      OBVIOUS
    <3>2. /\ setup.tried <= Len(Wanted) /\ Len(access) = setup.tried
          /\ \A k \in 1..setup.tried : access[k] = Wanted[k]
      BY <2>1, <2>2, <3>1 DEF Listed, At
    <3>3. access \in Seq(Line)
      BY <2>4, <3>1
    <3> QED
      BY <2>3, <3>2, <3>3, PartOfAList
  <2> QED
    BY <2>4, <2>5, <2>6 DEF Allows
<1> QED
  BY <1>1, StartupInvariant, PTL
=============================================================================
