----------------------------- MODULE CertRenew -----------------------------
(***************************************************************************)
(* In-band renewal of the client certificate, down to the calls on the     *)
(* file system: internal/certrenew/certrenew.go, internal/tunnel/renew.go, *)
(* the key pair loads of internal/config/tls.go, and the two files that    *)
(* "setup" writes (internal/setup/wizard.go).                              *)
(*                                                                         *)
(* Names refer to inodes, so that two processes that open agent.crt.tmp    *)
(* share it, a name can move while another process still holds the inode,  *)
(* and a power failure leaves whatever had been written back.              *)
(***************************************************************************)
EXTENDS Naturals, FiniteSets, Certificates

CONSTANTS
  Agents,          \* agent processes that share one ~/.deploy
  Inodes,
  NoInode,
  NoCert,          \* no certificate is held
  Torn,            \* what a truncated or partly written file holds
  RenameAttempts,  \* renameAttempts, certrenew.go:47
  SetupIdents,     \* the identities that runs of "setup" obtain
  PowerFails       \* whether the power may fail; when it may not, what has been
                   \* written back makes no difference and is left alone

ASSUME RenewAssumption == /\ RenameAttempts \in Nat \ {0}
                          /\ SetupIdents \subseteq Idents
                          /\ PowerFails \in BOOLEAN
                          /\ NoInode \notin Inodes
                          /\ {NoCert, Torn} \cap Certs = {}
                          /\ NoCert # Torn
                          /\ Torn \notin Idents

VARIABLES
  dir,        \* agent.crt and agent.crt.tmp, as processes see the directory
  diskDir,    \* the same, as far as it has been written back
  data,       \* content of each inode, as processes see it
  diskData,   \* the same, as far as it has been written back
  key,        \* content of agent.key: the identity its key belongs to
  diskKey,
  pc,         \* where each agent process is
  fd,         \* the inode writeAtomic has open
  offer,      \* the candidate of the RENEW_RESPONSE being handled
  current,    \* req.Current: what LoadCurrent read
  presented,  \* the certificate of the agent's connection
  tries,      \* failed renames so far
  setup       \* the run of "setup" in progress: its step, its new identity,
              \* the inode it has open; and the identities left for later runs

dirVars == <<dir, diskDir>>
dataVars == <<data, diskData>>
keyVars == <<key, diskKey>>
agentVars == <<pc, fd, offer, current, presented, tries>>
vars == <<dirVars, dataVars, keyVars, agentVars, setup>>

Names == {"crt", "tmp"}

\* An agent is down, dials, is online, or is in a step of
\* installRenewedCertificate.
Steps == {"down", "dialing", "online", "loading", "validating", "opening",
          "writing", "syncing", "renaming", "removing"}

-----------------------------------------------------------------------------
(* The files.                                                              *)

\* What a reader of agent.crt gets.
Crt == data[dir["crt"]]

\* tls.LoadX509KeyPair(paths.Certificate, paths.Key) succeeds.
PairLoads == Crt \in Certs /\ Crt.key = key

Free(i) == /\ \A n \in Names : i # dir[n] /\ i # diskDir[n]
           /\ \A a \in Agents : i # fd[a]
           /\ i # setup.fd

Init ==
  /\ \E i \in Inodes :
       /\ dir = [n \in Names |-> IF n = "crt" THEN i ELSE NoInode]
       /\ data = [j \in Inodes |-> IF j = i THEN FirstCert ELSE Torn]
  /\ diskDir = dir
  /\ diskData = data
  /\ key = FirstCert.key
  /\ diskKey = key
  /\ pc = [a \in Agents |-> "down"]
  /\ fd = [a \in Agents |-> NoInode]
  /\ offer = [a \in Agents |-> NoCert]
  /\ current = [a \in Agents |-> NoCert]
  /\ presented = [a \in Agents |-> NoCert]
  /\ tries = [a \in Agents |-> 0]
  /\ setup = [step |-> "idle", ident |-> FirstCert.ident, fd |-> NoInode,
              left |-> SetupIdents]

-----------------------------------------------------------------------------
(* The life of an agent process, as far as the key pair is concerned.      *)

\* NewTLSConfig loads the pair once: a pair that does not load ends the
\* process at once.
Start(a) == /\ pc[a] = "down"
            /\ PairLoads
            /\ pc' = [pc EXCEPT ![a] = "dialing"]
            /\ UNCHANGED <<dirVars, dataVars, keyVars, fd, offer, current,
                           presented, tries, setup>>

\* GetClientCertificate reads the pair again in every handshake; when it does
\* not load the handshake fails and the agent keeps dialing.
Dial(a) == /\ pc[a] = "dialing"
           /\ PairLoads
           /\ pc' = [pc EXCEPT ![a] = "online"]
           /\ presented' = [presented EXCEPT ![a] = Crt]
           /\ UNCHANGED <<dirVars, dataVars, keyVars, fd, offer, current,
                          tries, setup>>

\* The connection ends for a reason of its own and the agent dials again.
Disconnect(a) == /\ pc[a] = "online"
                 /\ pc' = [pc EXCEPT ![a] = "dialing"]
                 /\ presented' = [presented EXCEPT ![a] = NoCert]
                 /\ UNCHANGED <<dirVars, dataVars, keyVars, fd, offer, current,
                                tries, setup>>

\* The process is killed, or stopped, wherever it is.
Kill(a) == /\ pc[a] # "down"
           /\ pc' = [pc EXCEPT ![a] = "down"]
           /\ fd' = [fd EXCEPT ![a] = NoInode]
           /\ offer' = [offer EXCEPT ![a] = NoCert]
           /\ current' = [current EXCEPT ![a] = NoCert]
           /\ presented' = [presented EXCEPT ![a] = NoCert]
           /\ tries' = [tries EXCEPT ![a] = 0]
           /\ UNCHANGED <<dirVars, dataVars, keyVars, setup>>

-----------------------------------------------------------------------------
(* One RENEW_RESPONSE.                                                     *)

\* The handler is done without a new certificate: the connection goes on.
GiveUp(a) == /\ pc' = [pc EXCEPT ![a] = "online"]
             /\ offer' = [offer EXCEPT ![a] = NoCert]
             /\ current' = [current EXCEPT ![a] = NoCert]

\* A RENEWED answer; Torn stands for a body that is not a PEM certificate.
\* Every other answer changes nothing.
Receive(a) == /\ pc[a] = "online"
              /\ \E c \in Offers \cup {Torn} : offer' = [offer EXCEPT ![a] = c]
              /\ pc' = [pc EXCEPT ![a] = "loading"]
              /\ UNCHANGED <<dirVars, dataVars, keyVars, fd, current, presented,
                             tries, setup>>

LoadCurrent(a) == /\ pc[a] = "loading"
                  /\ \/ /\ Crt \notin Certs
                        /\ GiveUp(a)
                     \/ /\ Crt \in Certs
                        /\ current' = [current EXCEPT ![a] = Crt]
                        /\ pc' = [pc EXCEPT ![a] = "validating"]
                        /\ UNCHANGED offer
                  /\ UNCHANGED <<dirVars, dataVars, keyVars, fd, presented,
                                 tries, setup>>

\* Seeded faults: the key is not compared; the certificate already installed is
\* not recognised.
AcceptableAnyKey(c, old, k) == c \in Certs /\ Renews(c, old, c.key) /\ c # old

AcceptableAgain(c, old, k) == c \in Certs /\ Renews(c, old, k)

\* The candidate passes every check against the key on disk and the current
\* certificate, and differs from the latter (else ErrUnchanged).
Acceptable(c, old, k) == /\ c \in Certs
                         /\ Renews(c, old, k)
                         /\ c # old

Validate(a) == /\ pc[a] = "validating"
               /\ \/ /\ Acceptable(offer[a], current[a], key)
                     /\ pc' = [pc EXCEPT ![a] = "opening"]
                     /\ UNCHANGED <<offer, current>>
                  \/ /\ ~Acceptable(offer[a], current[a], key)
                     /\ GiveUp(a)
               /\ UNCHANGED <<dirVars, dataVars, keyVars, fd, presented, tries,
                              setup>>

\* writeAtomic opens agent.crt.tmp, creating or truncating it.
Open(a) ==
  /\ pc[a] = "opening"
  /\ \/ /\ \/ dir["tmp"] # NoInode /\ fd' = [fd EXCEPT ![a] = dir["tmp"]]
           \/ /\ dir["tmp"] = NoInode
              /\ \E i \in Inodes : Free(i) /\ fd' = [fd EXCEPT ![a] = i]
        /\ dir' = [dir EXCEPT !["tmp"] = fd'[a]]
        /\ data' = [data EXCEPT ![fd'[a]] = Torn]
        /\ pc' = [pc EXCEPT ![a] = "writing"]
        /\ UNCHANGED <<offer, current>>
     \/ /\ GiveUp(a)
        /\ UNCHANGED <<dir, data, fd>>
  /\ UNCHANGED <<diskDir, diskData, keyVars, presented, tries, setup>>

Write(a) ==
  /\ pc[a] = "writing"
  /\ \/ /\ data' = [data EXCEPT ![fd[a]] = offer[a]]
        /\ pc' = [pc EXCEPT ![a] = "syncing"]
        /\ UNCHANGED fd
     \/ /\ data' = [data EXCEPT ![fd[a]] = Torn]
        /\ pc' = [pc EXCEPT ![a] = "removing"]
        /\ fd' = [fd EXCEPT ![a] = NoInode]
  /\ UNCHANGED <<dirVars, diskData, keyVars, offer, current, presented, tries,
                 setup>>

\* Seeded fault: the file is renamed without having been synced.
SyncSkipped(a) ==
  /\ pc[a] = "syncing"
  /\ pc' = [pc EXCEPT ![a] = "renaming"]
  /\ fd' = [fd EXCEPT ![a] = NoInode]
  /\ UNCHANGED <<dirVars, dataVars, keyVars, offer, current, presented, tries,
                 setup>>

\* f.Sync() and f.Close(); the failure of either removes the temporary file.
Sync(a) ==
  /\ pc[a] = "syncing"
  /\ \/ /\ diskData' = [diskData EXCEPT ![fd[a]] = data[fd[a]]]
        /\ pc' = [pc EXCEPT ![a] = "renaming"]
     \/ /\ UNCHANGED diskData
        /\ pc' = [pc EXCEPT ![a] = "removing"]
  /\ fd' = [fd EXCEPT ![a] = NoInode]
  /\ UNCHANGED <<dirVars, data, keyVars, offer, current, presented, tries,
                 setup>>

\* Seeded fault: the connection goes on after the certificate was replaced.
RenameStaysOnline(a) ==
  /\ pc[a] = "renaming"
  /\ dir["tmp"] # NoInode
  /\ dir' = [crt |-> dir["tmp"], tmp |-> NoInode]
  /\ GiveUp(a)
  /\ tries' = [tries EXCEPT ![a] = 0]
  /\ UNCHANGED <<diskDir, dataVars, keyVars, fd, presented, setup>>

\* The rename succeeds: ErrCertificateRenewed ends the connection and
\* RunAgent dials again at once.
Rename(a) ==
  /\ pc[a] = "renaming"
  /\ dir["tmp"] # NoInode
  /\ dir' = [crt |-> dir["tmp"], tmp |-> NoInode]
  /\ pc' = [pc EXCEPT ![a] = "dialing"]
  /\ offer' = [offer EXCEPT ![a] = NoCert]
  /\ current' = [current EXCEPT ![a] = NoCert]
  /\ presented' = [presented EXCEPT ![a] = NoCert]
  /\ tries' = [tries EXCEPT ![a] = 0]
  /\ UNCHANGED <<diskDir, dataVars, keyVars, fd, setup>>

\* Seeded fault: one attempt too many.
RenameFailsOnceMore(a) ==
  /\ pc[a] = "renaming"
  /\ \/ /\ tries[a] + 1 <= RenameAttempts
        /\ tries' = [tries EXCEPT ![a] = @ + 1]
        /\ UNCHANGED pc
     \/ /\ tries[a] + 1 > RenameAttempts
        /\ tries' = [tries EXCEPT ![a] = 0]
        /\ pc' = [pc EXCEPT ![a] = "removing"]
  /\ UNCHANGED <<dirVars, dataVars, keyVars, fd, offer, current, presented,
                 setup>>

\* It fails: the temporary file is gone, or the system refuses (a sharing
\* violation on Windows).
RenameFails(a) ==
  /\ pc[a] = "renaming"
  /\ \/ /\ tries[a] + 1 < RenameAttempts
        /\ tries' = [tries EXCEPT ![a] = @ + 1]
        /\ UNCHANGED pc
     \/ /\ tries[a] + 1 >= RenameAttempts
        /\ tries' = [tries EXCEPT ![a] = 0]
        /\ pc' = [pc EXCEPT ![a] = "removing"]
  /\ UNCHANGED <<dirVars, dataVars, keyVars, fd, offer, current, presented,
                 setup>>

\* os.Remove of the temporary file, whosever it is by now.
Remove(a) == /\ pc[a] = "removing"
             /\ dir' = [dir EXCEPT !["tmp"] = NoInode]
             /\ GiveUp(a)
             /\ UNCHANGED <<diskDir, dataVars, keyVars, fd, presented, tries,
                            setup>>

-----------------------------------------------------------------------------
(* "network-agent setup" rewrites both files in place.                     *)

SetupCert == [ident |-> setup.ident, key |-> setup.ident,
              issuer |-> FirstCert.issuer, client |-> TRUE]

\* os.WriteFile truncates what the name refers to, then writes to it whatever
\* the name refers to by then.
SetupOpenCert ==
  /\ setup.step \in {"idle", "aborted"}
  /\ \E i \in setup.left :
       setup' = [step |-> "crt", ident |-> i, fd |-> dir["crt"],
                 left |-> setup.left \ {i}]
  /\ data' = [data EXCEPT ![dir["crt"]] = Torn]
  /\ UNCHANGED <<dirVars, diskData, keyVars, agentVars>>

SetupWriteCert == /\ setup.step = "crt"
                  /\ setup' = [setup EXCEPT !.step = "keyopen", !.fd = NoInode]
                  /\ data' = [data EXCEPT ![setup.fd] = SetupCert]
                  /\ UNCHANGED <<dirVars, diskData, keyVars, agentVars>>

SetupOpenKey == /\ setup.step = "keyopen"
                /\ setup' = [setup EXCEPT !.step = "key"]
                /\ key' = Torn
                /\ UNCHANGED <<dirVars, dataVars, diskKey, agentVars>>

SetupWriteKey == /\ setup.step = "key"
                 /\ setup' = [setup EXCEPT !.step = "idle"]
                 /\ key' = setup.ident
                 /\ UNCHANGED <<dirVars, dataVars, diskKey, agentVars>>

\* Seeded fault: a key that could not be written does not stop setup.
SetupGoesOn == /\ setup.step = "key"
               /\ setup' = [setup EXCEPT !.step = "idle"]
               /\ UNCHANGED <<dirVars, dataVars, keyVars, agentVars>>

\* fatalf, or the operator's interrupt, leaves the files as they are.
SetupFails == /\ setup.step \notin {"idle", "aborted"}
              /\ setup' = [setup EXCEPT !.step = "aborted", !.fd = NoInode]
              /\ UNCHANGED <<dirVars, dataVars, keyVars, agentVars>>

-----------------------------------------------------------------------------
(* The file system.                                                        *)

WriteBackDir == /\ PowerFails
                /\ diskDir' = dir
                /\ UNCHANGED <<dir, dataVars, keyVars, agentVars, setup>>

WriteBackData(i) == /\ PowerFails
                    /\ diskData' = [diskData EXCEPT ![i] = data[i]]
                    /\ UNCHANGED <<dirVars, data, keyVars, agentVars, setup>>

WriteBackKey == /\ PowerFails
                /\ diskKey' = key
                /\ UNCHANGED <<dirVars, dataVars, key, agentVars, setup>>

\* Every process dies and the files are what had been written back.
PowerFailure == /\ PowerFails
                /\ dir' = diskDir
                /\ data' = diskData
                /\ key' = diskKey
                /\ pc' = [a \in Agents |-> "down"]
                /\ fd' = [a \in Agents |-> NoInode]
                /\ offer' = [a \in Agents |-> NoCert]
                /\ current' = [a \in Agents |-> NoCert]
                /\ presented' = [a \in Agents |-> NoCert]
                /\ tries' = [a \in Agents |-> 0]
                /\ setup' = [setup EXCEPT !.step = "aborted", !.fd = NoInode]
                /\ UNCHANGED <<diskDir, diskData, diskKey>>

-----------------------------------------------------------------------------
Agent(a) == \/ Start(a) \/ Dial(a) \/ Disconnect(a) \/ Kill(a)
            \/ Receive(a) \/ LoadCurrent(a) \/ Validate(a)
            \/ Open(a) \/ Write(a) \/ Sync(a)
            \/ Rename(a) \/ RenameFails(a) \/ Remove(a)

Setup == \/ SetupOpenCert \/ SetupWriteCert \/ SetupOpenKey \/ SetupWriteKey
         \/ SetupFails

Storage == \/ WriteBackDir \/ WriteBackKey \/ PowerFailure
           \/ \E i \in Inodes : WriteBackData(i)

Next == \/ \E a \in Agents : Agent(a)
        \/ Setup
        \/ Storage

Spec == Init /\ [][Next]_vars

-----------------------------------------------------------------------------
(* Properties.                                                             *)

Contents == Certs \cup {Torn}

FilesTyped ==
  /\ dir \in [Names -> Inodes \cup {NoInode}] /\ dir["crt"] # NoInode
  /\ diskDir \in [Names -> Inodes \cup {NoInode}] /\ diskDir["crt"] # NoInode
  /\ data \in [Inodes -> Contents] /\ diskData \in [Inodes -> Contents]
  /\ key \in Idents \cup {Torn} /\ diskKey \in Idents \cup {Torn}

AgentsTyped ==
  /\ pc \in [Agents -> Steps]
  /\ fd \in [Agents -> Inodes \cup {NoInode}]
  /\ offer \in [Agents -> Offers \cup {NoCert, Torn}]
  /\ current \in [Agents -> Certs \cup {NoCert}]
  /\ presented \in [Agents -> Certs \cup {NoCert}]
  /\ tries \in [Agents -> 0..(RenameAttempts - 1)]
  /\ \A a \in Agents :
       /\ pc[a] \in {"opening", "writing", "syncing"} => offer[a] \in Offers
       /\ pc[a] \in {"writing", "syncing"} => fd[a] # NoInode

SetupTyped ==
  /\ setup \in [step : {"idle", "crt", "keyopen", "key", "aborted"},
                ident : Idents, fd : Inodes \cup {NoInode},
                left : SUBSET SetupIdents]
  /\ setup.step = "crt" => setup.fd # NoInode

\* Every variable has the type the code gives it: directory entries are
\* inodes, file contents are certificates or torn, and an agent that is
\* installing a certificate holds a candidate and, while it writes, a file.
TypeOK == FilesTyped /\ AgentsTyped /\ SetupTyped

\* Whatever renewal was under way when the process was killed or the power
\* failed, the certificate and key on disk load as a pair, so the agent can be
\* started again (certrenew.go:11-13).
Startable == PairLoads

\* A connection always presents the certificate that is on disk: an offer is
\* compared with the file (renew.go:101), so a renewed certificate ends the
\* connection that presented the old one (renew.go:112-118), and one that could
\* not be installed leaves both alone.  (Another agent of the same ~/.deploy, or
\* a setup, replaces the file under a connection.)
PresentsInstalled ==
  \A a \in Agents : presented[a] = NoCert \/ presented[a] = Crt

File == INSTANCE CertFile WITH cert <- Crt, durable <- diskData[diskDir["crt"]]

\* agent.crt is replaced in one step, by a certificate that passed every check
\* against the certificate it replaces, and a power failure leaves the whole
\* old one or the whole new one (certrenew.go:14-15).
AtomicReplacement == File!Spec

\* A server that keeps offering one certificate has it installed once, not over
\* and over in a connect-renew-reconnect loop (certrenew.go:33-35): each renewal
\* changes what agent.crt holds, through all the steps, failures and crashes
\* since the file was compared with the offer.
NoRenewLoop == [][\A a \in Agents : Rename(a) => Crt' # Crt]_vars

\* However many agent processes interleave their writes to the one temporary
\* file, what agent.crt holds is torn or passed the checks: until setup is run
\* again, no process ever installs bytes that none of them verified.
NothingUnverified == \/ Crt = Torn
                     \/ Crt = FirstCert
                     \/ Crt \in Offers /\ Renews(Crt, FirstCert, FirstCert.key)
                     \/ setup.left # SetupIdents

\* When the last setup ran to its end, certificate and key on disk load as a
\* pair, but for two races of the renewal: it replaces the certificate that
\* setup was writing by one for the identity before it (certrenew.go:122-124
\* forbids that), or several agents tear the file between them.  Without a
\* renewal under way, setup and the agents do not disturb each other.
PairAtRest == setup.step = "idle" =>
                \/ PairLoads
                \/ Crt \in Offers /\ Crt.ident # setup.ident
                \/ Crt = Torn /\ \E a, b \in Agents : a # b

\* certrenew.go:14-15: "A reader must see either the whole old certificate or
\* the whole new one, never a truncated file."
WholeCertificate == Crt # Torn
=============================================================================
