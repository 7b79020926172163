---------------------------- MODULE MCCertRenew ----------------------------
(***************************************************************************)
(* Instances of CertRenew.  The agent is identity 1, renewed from CA 1 to  *)
(* CA 2 during a rotation; identity 2 is another agent, or what the next   *)
(* "setup" obtains; CA 3 is not trusted.                                   *)
(***************************************************************************)
EXTENDS CertRenew, TLC

Cert(i, k, ca, usable) == [ident |-> i, key |-> k, issuer |-> ca, client |-> usable]

MCIdents == {1, 2}
MCIssuers == {1, 2, 3}
MCTrusted == {1, 2}
MCFirstCert == Cert(1, 1, 1, TRUE)
Renewed == Cert(1, 1, 2, TRUE)

\* The renewal, the certificate already installed, and one candidate for each
\* check that must refuse it.
MCOffers == {Renewed, MCFirstCert, Cert(1, 2, 2, TRUE), Cert(2, 1, 2, TRUE),
             Cert(1, 1, 3, TRUE), Cert(1, 1, 2, FALSE)}

\* A server in the middle of the rotation offers the renewal only.
MCOneOffer == {Renewed}

\* The renewal, and the same identity with another key: the one that the next
\* "setup" installs.
MCTwoKeys == {Renewed, Cert(1, 2, 2, TRUE)}

MCNone == {}
MCNext == {2}

MCSymmetry == Permutations(Inodes) \cup Permutations(Agents)
=============================================================================
