------------------------------ MODULE Startup -------------------------------
(***************************************************************************)
(* How an agent comes to run: "setup" writes ~/.deploy                     *)
(* (internal/setup/wizard.go), "check" judges it and "run" starts from it  *)
(* (cmdCheck, cmdRun and ensureConfigured of cmd/network-agent/main.go).   *)
(* The operator may edit or remove every file in between, and a run of     *)
(* setup may end in any of its steps: an error, an interrupt, or no more   *)
(* input (ask exits then).                                                 *)
(***************************************************************************)
EXTENDS AccessList, Trust

CONSTANTS
  Idents,      \* the identities the API issues
  Torn,        \* what a truncated or partly written file holds
  Local,       \* the host the agent runs on
  Inputs,      \* what is typed when setup asks for addresses
  Edits,       \* what the operator makes of agent.access
  Overrides    \* what DEPLOY_AGENT_CA_FILE may name

ASSUME StartupAssumption ==
  /\ Inputs \subseteq Seq(Line) /\ Local \in Hosts
  /\ Edits \subseteq Seq(Line) \cup {Missing, Unreadable}
  /\ Overrides \subseteq Seq(Piece) \cup {NoOverride, NotThere}
  /\ {Missing, Torn} \cap Idents = {}

VARIABLES
  override,  \* what DEPLOY_AGENT_CA_FILE names
  verify,    \* DEPLOY_AGENT_NOVERIFY is not set
  crt,       \* agent.crt: the identity it certifies
  key,       \* agent.key: the identity it belongs to
  access,    \* agent.access
  setup,     \* the run of setup: its step, its new identity, what was typed,
             \* how many lines of agent.access it has tried to write
  lost,      \* history: setup failed to write a line of agent.access
  agent      \* the running agent: its CA pool, whether it verifies the server, and
             \* the override it began with

pairVars == <<crt, key>>
accessVars == <<access, lost>>
vars == <<override, verify, pairVars, accessVars, setup, agent>>

NoAgent == [up |-> FALSE, pool |-> {}, verify |-> FALSE, asked |-> NoOverride]

PairLoads == crt \in Idents /\ crt = key

Init == /\ override \in Overrides /\ verify \in BOOLEAN
        /\ crt = Missing /\ key = Missing /\ access = Missing
        /\ setup = [step |-> "idle", ident |-> Missing, hosts |-> <<>>,
                    tried |-> 0]
        /\ lost = FALSE /\ agent = NoAgent

-----------------------------------------------------------------------------
(* setup *)

At(step) == setup.step = step
Goto(step) == setup' = [setup EXCEPT !.step = step]
Resting == setup.step \in {"idle", "ended", "done"}

\* The lines generateAccessList writes.
Wanted == <<[kind |-> "blank", covers |-> {}],
            [kind |-> "entry", covers |-> {Local}]>> \o setup.hosts

\* The operator agrees to replace what is there, the API issues a certificate,
\* and os.WriteFile truncates agent.crt.  Until then nothing changes.
SetupBegins == /\ Resting
               /\ \E i \in Idents :
                    setup' = [step |-> "certificate", ident |-> i, hosts |-> <<>>, tried |-> 0]
               /\ crt' = Torn
               /\ lost' = FALSE
               /\ UNCHANGED <<override, verify, key, access, agent>>

WriteCertificate == /\ At("certificate")
                    /\ crt' = setup.ident
                    /\ Goto("key")
                    /\ UNCHANGED <<override, verify, key, accessVars, agent>>

OpenKey == /\ At("key")
           /\ key' = Torn
           /\ Goto("keyWrite")
           /\ UNCHANGED <<override, verify, crt, accessVars, agent>>

WriteKey == /\ At("keyWrite")
            /\ key' = setup.ident
            /\ Goto("asking")
            /\ UNCHANGED <<override, verify, crt, accessVars, agent>>

\* Fault: the access list is opened for appending.
OpenAccessAppends ==
  /\ At("asking")
  /\ \E hosts \in Inputs :
       setup' = [setup EXCEPT !.step = "access", !.hosts = hosts]
  /\ access' = IF access \in {Missing, Unreadable} THEN <<>> ELSE access
  /\ UNCHANGED <<override, verify, pairVars, lost, agent>>

\* Whatever is typed is taken, and the file is truncated.
OpenAccess == /\ At("asking")
              /\ \E hosts \in Inputs :
                   setup' = [setup EXCEPT !.step = "access", !.hosts = hosts]
              /\ access' = <<>>
              /\ UNCHANGED <<override, verify, pairVars, lost, agent>>

\* One Fprint a line, whose error no one looks at: a disk that is full cuts the
\* line short, and what is left of an address may cover any others.
Cuts == {<<>>, <<[kind |-> "bad", covers |-> {}]>>, <<[kind |-> "entry", covers |-> Hosts]>>}

WriteLine ==
  /\ At("access") /\ setup.tried < Len(Wanted)
  /\ setup' = [setup EXCEPT !.tried = @ + 1]
  /\ \/ /\ access' = Append(access, Wanted[setup.tried + 1])
        /\ UNCHANGED lost
     \/ /\ \E cut \in Cuts : access' = access \o cut
        /\ lost' = TRUE
  /\ UNCHANGED <<override, verify, pairVars, agent>>

\* The claim code is shown last.
SetupEnds == /\ At("access") /\ setup.tried = Len(Wanted)
             /\ Goto("done")
             /\ UNCHANGED <<override, verify, pairVars, accessVars, agent>>

\* fatalf, the end of the input, an interrupt: the files stay as they are.
SetupFails == /\ ~Resting
              /\ Goto("ended")
              /\ UNCHANGED <<override, verify, pairVars, accessVars, agent>>

Setup == \/ SetupBegins \/ WriteCertificate \/ OpenKey \/ WriteKey \/ OpenAccess
         \/ WriteLine \/ SetupEnds \/ SetupFails

-----------------------------------------------------------------------------
(* check and run *)

\* Fault: check reports a TLS configuration that fails and passes.
CheckForgets == /\ crt \in Idents /\ key # Missing
                /\ CACert(override) # Refused
                /\ ParseBundle(CACert(override)) # Refused

\* cmdCheck, with a certificate in its time and a server that answers: all
\* checks pass.
CheckPasses == /\ crt \in Idents /\ key # Missing
               /\ CACert(override) # Refused
               /\ ParseBundle(CACert(override)) # Refused
               /\ PairLoads
               /\ verify => NewCertPool(CACert(override)) # Refused

\* ensureConfigured.
Configured == crt # Missing /\ access # Missing

\* Fault: the bundle is parsed only to verify the server with it.
RunStartsUnparsed == /\ Configured
                     /\ CACert(override) # Refused
                     /\ PairLoads
                     /\ verify => NewCertPool(CACert(override)) # Refused
                     /\ Loads(access)

\* cmdRun gets as far as RunAgent's first connection.  The pool is parsed for
\* renewal also when the server is not verified.
RunStarts == /\ Configured
             /\ CACert(override) # Refused
             /\ PairLoads
             /\ NewCertPool(CACert(override)) # Refused
             /\ Loads(access)

Run == /\ ~agent.up /\ RunStarts
       /\ agent' = [up |-> TRUE, pool |-> NewCertPool(CACert(override)),
                    verify |-> verify, asked |-> override]
       /\ UNCHANGED <<override, verify, pairVars, accessVars, setup>>

\* The handshake of agent a with a server that shows leaf: without verification
\* the configuration has no VerifyConnection.
Believes(a, leaf) == a.verify => VerifyConnection(a.pool, leaf)

RunEnds == /\ agent.up
           /\ agent' = NoAgent
           /\ UNCHANGED <<override, verify, pairVars, accessVars, setup>>

-----------------------------------------------------------------------------
(* The operator, between runs of setup *)

Rests == Resting /\ Goto("idle")

EditAccess == /\ Rests
              /\ access' \in Edits /\ lost' = FALSE
              /\ UNCHANGED <<override, verify, pairVars, agent>>

RemovePair == /\ Rests
              /\ \/ crt' = Missing /\ UNCHANGED key
                 \/ key' = Missing /\ UNCHANGED crt
              /\ UNCHANGED <<override, verify, accessVars, agent>>

\* The bundle, and the environment of the commands that are given from now on.
EditBundle == /\ Rests
              /\ override' \in Overrides /\ verify' \in BOOLEAN
              /\ UNCHANGED <<pairVars, accessVars, agent>>

Operator == EditAccess \/ RemovePair \/ EditBundle

Next == Setup \/ Run \/ RunEnds \/ Operator

Spec == Init /\ [][Next]_vars

-----------------------------------------------------------------------------
(* Properties. *)

TypeOK == /\ override \in Overrides /\ verify \in BOOLEAN
          /\ {crt, key} \subseteq Idents \cup {Missing, Torn}
          /\ access \in Seq(Line) \cup {Missing, Unreadable} /\ lost \in BOOLEAN
          /\ setup.step \in {"idle", "ended", "done", "certificate", "key",
                             "keyWrite", "asking", "access"}
          /\ setup.ident \in Idents \cup {Missing} /\ setup.hosts \in Inputs \cup {<<>>}
          /\ agent.up => agent.pool # Refused /\ agent.pool \subseteq CAs

\* A bundle is taken as a whole or not at all: one that pem.Decode would read in
\* part (junk, a BEGIN line without its END, another block, a certificate that
\* does not parse) is refused, so a rotation never runs on half of the CAs
\* (tls.go:21-24, :30-34).
\* The CAs check shows are then those the agent trusts.
StrictBundle ==
  LET b == CACert(override)
  IN  b # Refused =>
        IF \E i \in DOMAIN b : b[i].kind # "cert"
        THEN NewCertPool(b) = Refused
        ELSE NewCertPool(b) = {b[i].ca : i \in DOMAIN b} /\ ParseBundle(b) = NewCertPool(b)

\* An agent takes a certificate for a renewal only if a CA of the bundle it was
\* told to use when it was started vouches for it, and any CA of that bundle
\* does, whatever became of the file, and never because of the embedded bundle
\* behind an override (ca.go:19-21, main.go:166-169).  It believes a server under
\* the same condition, unless it was started with DEPLOY_AGENT_NOVERIFY: then it
\* believes any server (tls.go:107-110), but renewals go on being judged.
Leaves == [issuer : CAs, sans : SUBSET {Server}, cn : {Server, NoCA}]
TrustsWhatWasAsked ==
  agent.up =>
    LET bundle == CASE agent.asked = NoOverride -> Embedded
                    [] agent.asked = NotThere   -> <<>>
                    [] OTHER                    -> agent.asked
        CAsOf  == {bundle[i].ca : i \in DOMAIN bundle}
    IN  /\ agent.pool = CAsOf
        /\ \A leaf \in Leaves : Believes(agent, leaf) =>
              ~agent.verify \/ leaf.issuer \in CAsOf

\* What check says is what run does (main.go:225), but that check does not try
\* the access file, and does not parse the bundle as run does when the server is
\* not verified; an agent that would start passes.  And what a setup leaves that
\* reports success does start, if the bundle is one.
CheckAgreesWithRun ==
  /\ CheckPasses => \/ RunStarts
                    \/ access \in {Missing, Unreadable}
                    \/ ~verify /\ NewCertPool(CACert(override)) = Refused
  /\ RunStarts => CheckPasses
  /\ At("done") /\ CACert(override) # Refused =>
       RunStarts \/ NewCertPool(CACert(override)) = Refused

\* While setup writes agent.access, the file allows no host that neither
\* localhost nor what was typed covers: an agent that reconnects meanwhile reads
\* a part of the new list, never old and new lines together (wizard.go:137); and
\* when setup is done it allows them all.  Unless a write failed, which setup
\* does not notice (wizard.go:143-154).
ListAsTyped ==
  ~lost => /\ At("access") \/ At("done") =>
                \A h \in Hosts : Allows(Loaded(access), h) => Allows(Parse(Wanted), h)
           /\ At("done") => Loaded(access) = Parse(Wanted)
=============================================================================
