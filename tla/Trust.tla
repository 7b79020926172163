------------------------------- MODULE Trust --------------------------------
(***************************************************************************)
(* Whom the agent trusts: the CA bundle, compiled in or given by           *)
(* DEPLOY_AGENT_CA_FILE (internal/config/ca.go), its two parsers           *)
(* (internal/config/tls.go and internal/caroot/caroot.go), and the         *)
(* verification of the server's certificate.                               *)
(*                                                                         *)
(* A bundle is a sequence of pieces: a certificate; a CERTIFICATE block    *)
(* whose content is not one ("broken"); a block of another type; a BEGIN   *)
(* line with no readable block behind it ("open"); text that is no block   *)
(* ("junk").                                                               *)
(***************************************************************************)
EXTENDS Naturals, Sequences, FiniteSets

CONSTANTS
  CAs,         \* certificate authorities
  NoCA,
  Embedded,    \* the bundle compiled into the binary
  NoOverride,  \* DEPLOY_AGENT_CA_FILE is not set
  NotThere,    \* it names a file that cannot be read
  Refused,     \* the result of a parser that returns an error
  Server       \* the host name the agent connects to

Piece == [kind : {"cert"}, ca : CAs]
           \cup [kind : {"broken", "other", "open", "junk"}, ca : {NoCA}]

ASSUME TrustAssumption ==
  /\ Embedded \in Seq(Piece) /\ Embedded # <<>>
  /\ NoCA \notin CAs
  /\ {NoOverride, NotThere, Refused} \cap Seq(Piece) = {} /\ NoOverride # NotThere
  /\ \A pool \in SUBSET CAs : Refused # pool

\* Fault: an override that cannot be used is passed over.
CACertFallsBack(override) ==
  IF override \in {NoOverride, NotThere, <<>>} THEN Embedded ELSE override

\* What the operator's variable names, or the embedded bundle: never that one
\* because the file is unreadable or empty.
CACert(override) ==
  CASE override = NoOverride          -> Embedded
    [] override \in {NotThere, <<>>}  -> Refused
    [] OTHER                          -> override

Declared(b, kinds) == {i \in DOMAIN b : b[i].kind \in kinds}

\* pem.Decode, from piece i on: the first block that decodes, whatever is ahead
\* of it; 0 for none.
Decode(b, i) ==
  LET found == {j \in Declared(b, {"cert", "broken", "other"}) : j >= i}
  IN  IF found = {} THEN 0 ELSE CHOOSE j \in found : \A k \in found : j <= k

\* The blocks NewCertPool adds, and 0 if it stops: it refuses what is not a BEGIN
\* line where it looks for one, and any block that is not a certificate.
Added(b) ==
  LET from[i \in 1..Len(b) + 1] ==
        LET j == Decode(b, i)
        IN  IF i > Len(b) THEN {}
            ELSE IF b[i].kind = "junk" \/ j = 0 \/ b[j].kind # "cert" THEN {0}
            ELSE {j} \cup from[j + 1]
  IN  from[1]

\* Fault: the BEGIN lines are not counted.
PoolUncounted(b) ==
  IF 0 \in Added(b) \/ Added(b) = {} THEN Refused ELSE {b[j].ca : j \in Added(b)}

\* config.NewCertPool: every BEGIN line of the file must have been read.
NewCertPool(b) ==
  IF \/ 0 \in Added(b) \/ Added(b) = {}
     \/ Cardinality(Added(b)) # Cardinality(Declared(b, {"cert", "broken", "other", "open"}))
  THEN Refused
  ELSE {b[j].ca : j \in Added(b)}

\* caroot.ParseBundle, for "check": blocks that are not certificates, and all
\* that pem.Decode skips, do not matter.
ParseBundle(b) ==
  IF Declared(b, {"broken"}) # {} \/ Declared(b, {"cert"}) = {} THEN Refused
  ELSE {b[i].ca : i \in Declared(b, {"cert"})}

\* VerifyConnection: the chain ends in the pool, and the name is among the
\* leaf's alternative names or, when it has none, its common name.
VerifyConnection(pool, leaf) ==
  /\ leaf.issuer \in pool
  /\ \/ leaf.sans # {} /\ Server \in leaf.sans
     \/ leaf.sans = {} /\ leaf.cn = Server
=============================================================================
