------------------------------ MODULE CertFile ------------------------------
(***************************************************************************)
(* What package certrenew promises about ~/.deploy/agent.crt               *)
(* (internal/certrenew/certrenew.go:9-15): the file is replaced in one     *)
(* step, and only by a certificate that passed every check against the one *)
(* it replaces.  "cert" is what a reader of the file sees, "durable" what  *)
(* it would see after a power failure.                                     *)
(***************************************************************************)
EXTENDS Certificates

VARIABLES cert, durable

fileVars == <<cert, durable>>

Init == cert = FirstCert /\ durable = FirstCert

Replace(c) == /\ Renews(c, cert, FirstCert.key)
              /\ c # cert
              /\ cert' = c
              /\ UNCHANGED durable

\* The file system makes what it holds durable, in its own time.
WriteBack == durable' = cert /\ UNCHANGED cert

PowerFailure == cert' = durable /\ UNCHANGED durable

Next == \/ \E c \in Offers : Replace(c)
        \/ WriteBack
        \/ PowerFailure

Spec == Init /\ [][Next]_fileVars
=============================================================================
