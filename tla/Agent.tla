------------------------------- MODULE Agent -------------------------------
(***************************************************************************)
(* The life of the agent process: what cmdRun asks for before it calls     *)
(* RunAgent (main.go), RunAgent (internal/tunnel/agent.go) and Connect     *)
(* (internal/tunnel/server_conn.go).  A connection, once it is up, is one  *)
(* state here; module Tunnel is what happens inside it, with Denied        *)
(* standing for the hosts that "list" does not allow.  The CA bundle is    *)
(* one that cmdRun takes: module Startup is about the others.              *)
(*                                                                         *)
(* An agent that was installed as a service is started again whenever it   *)
(* ends (internal/install: Restart=always, KeepAlive).                     *)
(***************************************************************************)
EXTENDS AccessList

CONSTANTS
  MaxRetries,  \* maxSSLRetries, agent.go:18
  Files        \* what agent.access may be: its lines, Missing or Unreadable

ASSUME AgentAssumption == /\ MaxRetries \in Nat \ {0}
                          /\ Files \subseteq Seq(Line) \cup {Missing, Unreadable}

VARIABLES
  pc,        \* starting, loading the access list, dialing, running, sleeping,
             \* exited
  retries,   \* sslRetries
  why,       \* the error that ended the process
  server,    \* down; or up, and showing a bad certificate, refusing the
             \* agent's certificate, or good
  pair,      \* agent.crt and agent.key are there and load
  file,      \* what agent.access is now
  list,      \* the access list of this connection
  held,      \* history: what the file was since the loop last came round
  service,   \* the agent runs under systemd or launchd
  tls13,     \* TLS 1.3 is negotiated: Connect returns before the server has
             \* judged the agent's certificate
  streak     \* failed calls of Connect since the last that succeeded

agentVars == <<pc, retries, why, streak>>
accessVars == <<file, list, held>>
envVars == <<server, tls13, service, pair>>
vars == <<agentVars, accessVars, envVars>>

Servers == {"down", "bad", "refusing", "good"}

-----------------------------------------------------------------------------
Init == /\ pc = "starting" /\ retries = 0 /\ why = "none"
        /\ file \in Files /\ list = {} /\ held = {file}
        /\ server \in Servers /\ tls13 \in BOOLEAN /\ service \in BOOLEAN
        /\ pair \in BOOLEAN /\ streak = 0

Return(error) == pc' = "exited" /\ why' = error

LoopsWith(step) == /\ pc' = step /\ UNCHANGED why

\* cmdRun up to RunAgent: ensureConfigured wants agent.crt and agent.access to
\* exist, NewTLSConfig that the pair loads.
Begin == /\ pc = "starting"
         /\ \/ pair /\ file # Missing /\ LoopsWith("loading")
            \/ ~(pair /\ file # Missing) /\ Return("notConfigured")
         /\ held' = {file}
         /\ UNCHANGED <<retries, streak, file, list, envVars>>

\* The loop comes round: agent.access will be read again.
ComesRound == /\ LoopsWith("loading")
              /\ held' = {file}
              /\ UNCHANGED <<file, list>>

\* Seeded faults: the counter is declared inside the loop; a list that was read
\* once is kept.
LoadAccessAfresh == /\ pc = "loading"
                    /\ \/ /\ Loads(file) /\ LoopsWith("dialing")
                          /\ list' = Loaded(file)
                       \/ ~Loads(file) /\ Return("noAccess") /\ UNCHANGED list
                    /\ retries' = 0
                    /\ UNCHANGED <<streak, file, held, envVars>>

LoadAccessOnce == /\ pc = "loading" /\ LoopsWith("dialing")
                  /\ list' = IF list = {} /\ Loads(file) THEN Loaded(file) ELSE list
                  /\ UNCHANGED <<retries, streak, file, held, envVars>>

\* acl.LoadFile, before every connection.
LoadAccess == /\ pc = "loading"
              /\ \/ /\ Loads(file) /\ LoopsWith("dialing")
                    /\ list' = Loaded(file)
                 \/ ~Loads(file) /\ Return("noAccess") /\ UNCHANGED list
              /\ UNCHANGED <<retries, streak, file, held, envVars>>

\* The handshake ends without an error, whatever comes of it later.  The pair is
\* read again for each (GetClientCertificate).
Shakes == pair /\ (server = "good" \/ (server = "refusing" /\ tls13))

\* Seeded fault: the counter is not reset.
ConnectKeepsCount == /\ pc = "dialing" /\ Shakes
                     /\ LoopsWith("running")
                     /\ streak' = 0
                     /\ UNCHANGED <<retries, accessVars, envVars>>

ConnectSucceeds == /\ pc = "dialing" /\ Shakes
                   /\ LoopsWith("running")
                   /\ retries' = 0 /\ streak' = 0
                   /\ UNCHANGED <<accessVars, envVars>>

\* Seeded fault: one failure too many.
ConnectFailsLate ==
  /\ pc = "dialing" /\ ~Shakes
  /\ retries' = retries + 1
  /\ \/ retries' > MaxRetries /\ Return("tooManyFailures")
     \/ retries' <= MaxRetries /\ LoopsWith("sleeping")
  /\ UNCHANGED <<streak, accessVars, envVars>>

ConnectFails ==
  /\ pc = "dialing" /\ ~Shakes
  /\ retries' = retries + 1
  /\ \/ retries' >= MaxRetries /\ Return("tooManyFailures")
     \/ retries' < MaxRetries /\ LoopsWith("sleeping")
  /\ streak' = IF streak < MaxRetries THEN streak + 1 ELSE streak
  /\ UNCHANGED <<accessVars, envVars>>

\* sc.Run returns ErrRejected.
Rejected == /\ pc = "running" /\ server = "good"
            /\ Return("rejected")
            /\ UNCHANGED <<retries, streak, accessVars, envVars>>

\* Seeded fault: a clean disconnection ends the agent.
ReconnectReturns == /\ pc = "running"
                    /\ Return("none")
                    /\ UNCHANGED <<retries, streak, accessVars, envVars>>

\* sc.Run returns ErrCertificateRenewed, nil (RECONNECT) or io.EOF.
Reconnect == /\ pc = "running"
             /\ ComesRound
             /\ UNCHANGED <<retries, streak, envVars>>

\* Any other error; a certificate that is refused late comes as an alert in
\* place of the first frame.
ConnectionLost == /\ pc = "running"
                  /\ LoopsWith("sleeping")
                  /\ UNCHANGED <<retries, streak, accessVars, envVars>>

\* sleepRandom returns.
Wake == /\ pc = "sleeping"
        /\ ComesRound
        /\ UNCHANGED <<retries, streak, envVars>>

\* Seeded fault: the service is not started again after a failure.
RestartUnlessFailed ==
  /\ pc = "exited" /\ service /\ why = "none"
  /\ pc' = "starting" /\ retries' = 0 /\ streak' = 0
  /\ list' = {} /\ held' = {file}
  /\ UNCHANGED <<why, file, envVars>>

\* The service manager starts the process again, whatever ended it.
Restart == /\ pc = "exited" /\ service
           /\ pc' = "starting" /\ why' = "none" /\ retries' = 0 /\ streak' = 0
           /\ list' = {} /\ held' = {file}
           /\ UNCHANGED <<file, envVars>>

ServerChanges == /\ server' \in Servers
                 /\ UNCHANGED <<agentVars, accessVars, tls13, service, pair>>

\* The operator, or another run of setup, replaces or removes the file.
FileChanges == /\ file' \in Files
               /\ held' = held \cup {file'}
               /\ UNCHANGED <<agentVars, list, envVars>>

\* The operator or setup removes, tears or restores agent.crt or agent.key.
PairChanges == /\ pair' = ~pair
               /\ UNCHANGED <<agentVars, accessVars, server, tls13, service>>

Loop == Begin \/ LoadAccess \/ ConnectSucceeds \/ ConnectFails \/ Wake

Next == \/ Loop \/ Rejected \/ Reconnect \/ ConnectionLost \/ Restart
        \/ ServerChanges \/ FileChanges \/ PairChanges

Spec == Init /\ [][Next]_vars

\* The process keeps running its loop, and a server that refuses the agent's
\* certificate does not keep the connection open.  The service manager does its
\* part.
Fairness == /\ WF_vars(Loop)
            /\ WF_vars(server = "refusing" /\ (Reconnect \/ ConnectionLost))
            /\ WF_vars(Restart)

FairSpec == Spec /\ Fairness

-----------------------------------------------------------------------------
(* Properties.                                                             *)

TypeOK == /\ pc \in {"starting", "loading", "dialing", "running", "sleeping", "exited"}
          /\ retries \in 0..MaxRetries
          /\ why \in {"none", "notConfigured", "noAccess", "tooManyFailures", "rejected"}
          /\ server \in Servers
          /\ file \in Files /\ list \in Lists /\ held \subseteq Files
          /\ tls13 \in BOOLEAN /\ service \in BOOLEAN /\ pair \in BOOLEAN
          /\ streak \in 0..MaxRetries

\* The agent gives up for failed connections when MaxRetries calls of Connect in
\* a row have failed, neither before nor after: a connection that worked, or one
\* that ended to present a renewed certificate, starts the count afresh
\* (agent.go:58-88).
ExitIsEarned == why = "tooManyFailures" <=> streak = MaxRetries

\* What a running agent needs to connect, and what one needs that is started:
\* LoadFile takes a missing file for an empty list, ensureConfigured does not.
Healthy == server = "good" /\ pair /\ Loads(file)
Startable == Healthy /\ file # Missing

\* A server that is back for good is reached again, whatever failed before,
\* unless the process has ended with an error and nobody starts it again, or the
\* service finds no access file whenever it is started: it never just ends.
ComesBack == <>[]Healthy => \/ []<>(pc = "running")
                            \/ ~service /\ <>[](pc = "exited" /\ why # "none")
                            \/ service /\ []<>(why = "notConfigured" /\ file = Missing)

\* A connection never lets through what only an older agent.access allowed: its
\* list is one the file held after the loop last came round, not one kept from
\* an earlier connection (agent.go:52).  While the connection lasts an edit has
\* no effect on it.
ListIsFresh == pc \in {"dialing", "running"} =>
                 \E f \in held : Loads(f) /\ list = Loaded(f)

\* An agent installed as a service is back whenever the server, the key pair and
\* the access file are, whatever ended the process: four failed connections, a
\* rejection, a file that was missing or could not be read (install.go:81, :138).
\* A missing access file is not enough, though a running agent does with it: the
\* process that is started asks for the file (main.go:219).
ServiceComesBack == service /\ <>[]Startable => []<>(pc = "running")

\* agent.go:43-45: RunAgent "blocks until an unrecoverable error occurs (e.g.
\* ... a TLS authentication error that persists after maxSSLRetries)": a server
\* that goes on refusing the agent's certificate ends the agent.
RefusalEndsAgent == <>[](server = "refusing") => <>(pc = "exited")

\* It does when the refusal is part of the handshake, whatever else went wrong
\* before.
RefusalEndsUnlessTLS13 ==
  <>[](server = "refusing" /\ ~tls13) => <>(pc = "exited")
=============================================================================
