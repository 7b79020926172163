----------------------------- MODULE MCStartup ------------------------------
(***************************************************************************)
(* Instances of Startup.  The embedded bundle holds CAs 1 and 2, as in a   *)
(* rotation.                                                               *)
(***************************************************************************)
EXTENDS Startup, TLC

Cert(ca) == [kind |-> "cert", ca |-> ca]
Is(kind) == [kind |-> kind, ca |-> NoCA]
Entry(S) == [kind |-> "entry", covers |-> S]
Bad == [kind |-> "bad", covers |-> {}]

MCEmbedded == <<Cert(1), Cert(2)>>

\* Whole; empty; and each kind of damage ahead of, behind and between whole
\* certificates.
MCOverrides ==
  {NoOverride, NotThere, <<>>, <<Cert(3)>>, <<Cert(1), Cert(3)>>,
   <<Is("open"), Cert(3)>>, <<Cert(3), Is("open")>>,
   <<Cert(1), Is("open"), Cert(3)>>, <<Cert(1), Is("open"), Is("junk")>>,
   <<Is("junk"), Cert(1)>>, <<Cert(1), Is("junk")>>, <<Cert(1), Is("junk"), Cert(3)>>,
   <<Is("broken"), Cert(1)>>, <<Cert(1), Is("broken")>>,
   <<Is("other")>>, <<Is("other"), Cert(1)>>, <<Cert(1), Is("other")>>}

\* The API's identities are alike.
MCSymmetry == Permutations(Idents)

\* A host name is typed and accepted like an address.
MCInputs == {<<>>, <<Entry({2}), Bad>>}
MCEdits == {Missing, Unreadable, <<Entry({3})>>, <<Bad, Entry({1, 2, 3}), Entry({3})>>}
=============================================================================
