---------------------------- MODULE Certificates ----------------------------
(***************************************************************************)
(* Certificates as far as internal/certrenew/certrenew.go tells them       *)
(* apart: who they name, the key they pair with, who issued them and       *)
(* whether their extended key usage admits client authentication.          *)
(***************************************************************************)
CONSTANTS
  Idents,      \* a subject with a serial number, and the key issued for it
  Issuers,     \* certificate authorities
  Trusted,     \* those of the agent's CA bundle
  FirstCert,   \* the certificate installed when the history begins
  Offers       \* the certificates servers may send in a RENEW_RESPONSE

Certs == [ident : Idents, key : Idents, issuer : Issuers, client : BOOLEAN]

ASSUME CertificateAssumption == /\ Trusted \subseteq Issuers
                                /\ FirstCert \in Certs
                                /\ Offers \subseteq Certs

\* Certificate c pairs with private key k, keeps the identity of old, and is
\* one the agent's own CAs vouch for as a client.
Renews(c, old, k) == /\ c.key = k
                     /\ c.ident = old.ident
                     /\ c.issuer \in Trusted
                     /\ c.client
=============================================================================
