# A verification of network-agent

DeployHQ's `network-agent` sits behind a customer's firewall, keeps one mutually
authenticated TLS connection to a server, and opens TCP connections on the
server's behalf to destinations an access list allows. This directory holds
TLA+ models of it, the TLC configurations that check them on small instances,
and proofs for every instance that TLAPS checks. References such as
`agent.go:60` are to files of the repository.

    tlc -workers 2 -config TunnelOne.cfg MCTunnel.tla      # any run
    tlapm TunnelProofs.tla                                 # any proof

## Inventory

| component | code | state | operations | module |
|---|---|---|---|---|
| Tunnel connection | `internal/tunnel/server_conn.go`, `dest_conn.go` | queue of frames, map of destinations, `done`, a socket and a goroutine per destination | dial, forward both ways, close, keepalive, shut down | `Tunnel`, `ProxyService` |
| Certificate renewal | `internal/certrenew`, `internal/tunnel/renew.go` | `agent.crt`, `agent.crt.tmp`, `agent.key` | ask, validate, replace the file atomically | `CertRenew`, `CertFile` |
| Agent loop | `internal/tunnel/agent.go` | `sslRetries`, the access list of the connection | load access list, connect, run, back off, give up | `Agent` |
| Wire protocol | `internal/protocol` | the bytes not yet a whole frame | encode, decode, parse | `Framing`, `PacketChannel` |
| Access list | `internal/acl` | `agent.access` | parse, load, allow, list | `AccessList` |
| Daemon, commands | `internal/daemon` (Unix and Windows), `cmd/network-agent/main.go` | the PID file, the process table | start, stop, restart, run, signals | `Daemon` |
| Service installation | `internal/install` | a launchd or systemd unit | install and start it; the system starts it again | in `Daemon`, `Agent` |
| Self-update | `internal/update` | the executable, a temporary file | ask, download, extract, rename | `Update`, `Host` |
| TLS configuration, CA bundle | `internal/config/tls.go`, `ca.go`, `internal/caroot` | none (reads the bundle once, the key pair per handshake) | build pool, list CAs, verify server, load pair | `Trust`; pair loads in `CertRenew` |
| Setup wizard | `internal/setup/wizard.go` | certificate, key, access file | obtain and write them in place | `Startup`, `CertRenew` |
| Diagnostics | `main.go` | none | `check` judges, others print | verdict of `check` in `Startup` |
| Paths, test CA | `internal/config/paths.go`, `internal/testca` | none | environment lookups; test support | not modelled |

How they interact. `cmdRun` builds the TLS configuration and calls `RunAgent`,
which calls `Connect` and `ServerConn.Run` in turn (calls). Inside a
connection goroutines share a channel, a mutex-protected map and the channel
`done` (messages, shared state). `readLoop` decodes frames and calls
`handlePacket`, which hands a RENEW_RESPONSE to the renewal; its
`ErrCertificateRenewed` travels up to `RunAgent`, which dials again, and the
next handshake reads the new certificate from disk (files). The commands know
the running agent by the PID file and a signal only (files, signals); `update`
replaces the file they are all started from, and the service manager starts
agents of its own.

What is hard: the goroutines of a connection and their shutdown, reuse of
connection ids, a full queue; a kill or power failure between the system calls
of the renewal, two processes in one directory, `setup` under a running agent;
retry counts across different failures; frames cut anywhere; commands racing
each other and a process that is starting or ending; an update under a running
agent; a setup that ends half way. `PROJECT.json` lists each
hazard with its line and the properties meant for it.

## Plan

Written, in this order, the most important behaviour first: `Tunnel` and its
proofs; `Certificates`, `CertFile`, `CertRenew` and the refinement; `Agent`;
`PacketChannel` and `Framing`; `Daemon`; then `ProxyService`, which `Tunnel`
implements; `AccessList`, with `Agent` on top of it; `Framing` with a peer that
breaks the protocol; `Update` and `Host`, which composes it with `Daemon`;
`Trust` and `Startup`.

Then the proofs, each beside what it is about: `TunnelProofs`, `WireProofs`,
`ServiceProofs`; `CertRenewProofs`; `AgentProofs`; `FramingProofs`; `HostProofs`;
`StartupProofs`. Every safety invariant and every refinement that a run checks is
proved; what is left to TLC is liveness (see *What is proved and what is only
checked*).

## Tunnel: one connection to the server

`Tunnel.tla` models `internal/tunnel/server_conn.go` and `dest_conn.go`: every
goroutine of one connection, the channel `serverSend`, the map `dests`, the
channel `done` and the shutdown sequence.

| code | model |
|---|---|
| `ServerConn.Run`, `readLoop`, `handlePacket` | `main`, `hand`, `target`; actions `Handle*`, `Deny`, `DoClose`, `Deliver`, `ReadError`, `CloseDests`, `HangUp` |
| `serverSend` (256 packets) | `queue`, `QueueCap`; a send is `Enqueue`, enabled only while there is room |
| `done` | `Done`, true once `main` has left the read loop |
| `dests` | `dests`, from ids to sessions; written without any check that the entry is still the writer's own, as in the code |
| `dialAndRegister`, `dialDest`, `destConn.readLoop` | `pc[c]`, `sock[c]`, `up[c]`; actions `Dial`, `Refuse`, `Answer`, `Register`, `ReadChunk`, `Forward`, `ReadFails`, `Report`, `Remove` |
| `writeLoop` | `writer`, `wpkt`; `WriterTake`, `WriterSend`, `WriterFail`, `WriterStop` |
| `keepaliveLoop` | `keeper`, `ticks`; `KeeperTick`, `KeeperSend`, `KeeperStop` |
| the server, the network, the destinations (external) | `srv`, `sent`, `rcv`, `inbox`, `link`, `dst` |

Steps are as fine as the code lets other goroutines in: a lookup under the
mutex and the use of what it returned are two steps, a `select` between a send
and `done` is a choice between two branches when both are possible, a plain
send (the refusal in `handlePacket`) has only the first branch. The close of a
socket at the head of the deferred function of `destConn.readLoop` is part of
the step that leaves the loop.

A *session* is one CREATE_REQUEST and what follows from it. The wire and the
agent only know its 16-bit id `IdOf[c]`; the session in a frame is a ghost that
no guard of the agent reads, so the model can say which connection a byte was
meant for while the code decides by id. Bytes are chunks numbered from 1, in
each direction. The server is polite: it has one session per id at a time,
sends DATA and DESTROY only after a successful CREATE_RESPONSE, and keeps the
id until it has the agent's DESTROY. Every problem the runs find therefore
needs no misbehaving server.

### Properties and runs

* `tunnel_one`: one session in depth (3 chunks down, 2 up, 2 frames in
  flight, queue of 2, renewal request, one keepalive, lost connection).
  `ServesSessions`: see *Refinement*. `NoSocketLeak`: no goroutine ends with its
  socket open.
* `tunnel_reuse`: two sessions, one id. `NoCrossTalk`: a destination is only
  ever given bytes of its own session. `WireProtocol`: each frame the writer
  puts on a live connection is one the server waits for, also after the id of a
  closed connection was given away: one CREATE_RESPONSE, every byte in order,
  one DESTROY and only after all bytes unless the connection is shutting down.
  `Registered`: while the read loop runs, each destination being read is the one
  `dests` gives for its id, or an ended session of the same id is past its
  removal, which may have taken it out. This exception is real: `removeDest`
  deletes by id after the DESTROY was queued (`server_conn.go:204-209`), and
  once the server has that DESTROY it may use the id again, so the delete can
  take out the entry of the new connection, whose DATA and DESTROY are then
  dropped and which the shutdown does not close.
* `tunnel_live` (with `FairSpec`): two sessions with ids of their own, one
  refused. Every request is answered, a close of a destination is reported, a
  DESTROY of a registered connection is honoured (one that comes earlier is
  dropped, like the DATA of `tunnel_first_byte`, and nothing is claimed of it),
  a lost connection ends `Run` and a shutdown drains all goroutines, each with
  the exact exception the code has: the read loop stuck in a write to a
  destination that takes no bytes, the read loop stuck in the send of a refusal
  (`serverSend <-` at `server_conn.go:132` does not watch `done`, and
  `writeLoop` may have ended on a write error), a destination registered after
  the shutdown emptied the map. Drop one of the exceptions and TLC shows the
  behaviour.
* `tunnel_first_byte`: see *Findings*.

### Refinement: ProxyService

`ProxyService.tla` is what one connection promises the server, session by
session, with no goroutine, queue, map or socket: a session is requested, then
accepted or refused, never accepted when the access list denies its host; while
it is open each side is given the other's chunks, its own, once and in order; it
ends only when the server has everything that was read from the destination,
unless the connection is over; and only then is its id free. `ServesSessions`
says that `Tunnel` implements it, with `stage <- srv`, `given <- got` and
`over <- Over` (the connection is down, or the read loop has ended). It is
checked in the three runs that pass: one deep session, one id for two
sessions, one session of two refused. The abstract `Give` lets the first chunks
be missing, because the code drops them (finding `tunnel_first_byte`), but no
hole later; the exceptions of the code are thus in one place.

**Bounds.** `Window` bounds the frames in flight from the server, `MaxDown`,
`MaxUp` and `MaxTicks` the chunks and keepalives. Two sessions suffice for
every interference through the map (owner and other) and through the queue
(who fills it and who waits); three chunks suffice for a hole in the middle of
a stream; a queue of one or two makes "full" the common case, where the code's
256 would hide it.

**Fairness.** Goroutines that can run do run (the Go scheduler), a dial ends
within its 30 seconds, and a server on a live connection keeps reading, so the
writer's write returns. Nothing is assumed of the server's sending, of
destinations, of ticks or of failures. A `select` with two ready branches may
always pick the same one.

### Proofs

Three modules, each on top of the one before, prove for every set of sessions,
every assignment of ids to sessions (reused ids included), every capacity and
every bound, from the single assumption `TunnelAssumption`:

* `TunnelProofs`: `TypeCorrect`, `Spec => []TypeOK`, with the capacity of the
  queue; `NoCrossTalkHolds`; `NoSocketLeakHolds`;
* `WireProofs`: `WireProtocolHolds` and `RegisteredHolds`;
* `ServiceProofs`: `ServesSessionsHolds`, the refinement `Spec => ServesSessions`.

`NoCrossTalk` and `NoSocketLeak` follow from the inductive invariant `IInv` (theorem `Invariant`).
`NoCrossTalk` is not inductive: when DATA for session `h` is handled, the map
may hold *another* session of the same id, and one must know that its socket is
closed. The argument has four parts. (1) The server has one active session per
id (`OneActive`), and nothing is sent under an id while a CREATE for it is on
its way (`CreateIsLast`). (2) A session whose CREATE is unread has no goroutine
and no frame in the queue (`CreateInv`, `IdleInv`). (3) FAIL and DESTROY are
queued only once the goroutine is past its socket (`LastFrame`), so a session
the server considers ended is *quiet*: never started, or past its report with
the socket closed (`EndedInv`, `SockInv`). (4) Hence while DATA is on its way,
and while it is being written, every other session of its id is quiet
(`DataInv`, `SendInv`), and a write to it fails instead of delivering. `IInv`
was checked with TLC on the instances above before it was proved. The proof
groups the actions by what they can disturb: `GoroutineKeeps`, `PipeKeeps`,
`SendsKeeps`, `InboxKeeps` and `CloseKeeps` say once what a kind of step has to
respect.

`WireProtocol` speaks of the frame the writer holds, and needs to know of all
that wait behind it. `WireInv` numbers them, the writer's as 0 and then the
queue (`Slots`): a CREATE_RESPONSE is the first of its session and is awaited
(`AnswerInv`), a DATA or DESTROY has one ahead of it or the server already had it
(`AcceptInv`), nothing of a session follows its FAIL or DESTROY (`LastInv`), the
DATA frames of a session carry consecutive chunks from what the server has
(`ChunkInv`), and none is missing at the end unless `done` made a goroutine give
it up (`WholeInv`). All of it is claimed while the connection is live (`Live`):
once the link is down or `Run` has returned, the writer's frame may be lost.
`Registered` is inductive over `IInv`: the only step that takes another session's
entry out is `Remove`, and the session it belongs to has ended.

The refinement needs the same of the other direction (`Streams`): the frames on
their way to the agent are the one in `handlePacket`'s hands and then the inbox;
the DATA frames of a session carry consecutive chunks up to the last one sent
(`StreamInv`), and for a destination that was given bytes the first of them
continues those (`GivenInv`), which is false for one that was given none: its
first chunks may have been dropped. What is looked up in the map, or being
written to, has been registered (`LateInv`), so a chunk that is given belongs to a
session the server considers accepted. Each action is then one step of
`ProxyService` for one session (`WriterSend` its `Accept`, `Refuse`, `Carry` or
`End`, `Deliver` its `Give`, and so on) or changes none of `stage`, `given`,
`over` and the chunks.

## Certificate renewal: CertRenew and CertFile

`CertRenew.tla` models `certrenew.go` and `installRenewedCertificate` system
call by system call, together with the file system underneath.

| code | model |
|---|---|
| `agent.crt`, `agent.crt.tmp` | `dir`, from names to inodes; `data`, content of inodes. Two processes that open the same name share the inode, and `rename` moves a name |
| what a power failure leaves | `diskDir`, `diskData`, `diskKey`: written back by the system at any time (`WriteBack*`), or by `f.Sync` |
| `agent.key` | `key`: the identity its key belongs to |
| `LoadCurrent`, `Validate` | `LoadCurrent`, `Validate` with `Acceptable` and `Renews` |
| `writeAtomic`, `renameWithRetry` | `Open`, `Write`, `Sync`, `Rename`, `RenameFails`, `Remove`; each can fail where the code has an error path |
| `NewTLSConfig`, `GetClientCertificate` | `Start`, `Dial`: both load the pair from disk |
| `setup` (`wizard.go:109-114`) | `SetupOpenCert`, `SetupWriteCert`, `SetupOpenKey`, `SetupWriteKey`, `SetupFails`: `os.WriteFile` truncates, then writes |
| kill, power failure (external) | `Kill`, `PowerFailure` |

A certificate is a record of what `Validate` tells apart: identity (subject and
serial), key, issuer, and whether it may authenticate clients. `Torn` stands for
any content that is not a whole certificate. Left out: expiry, agents started
without CA roots (renewal disabled), and the loss of `fsync`ed data.

`CertFile.tla` is the abstract specification: what a reader sees (`cert`) and
what it would see after a power failure (`durable`). Its steps are one-step
replacement by a certificate that passed every check, write-back, and failure.

* `renew_one` (every kind of offer, power failures): `Startable`, the key pair
  on disk loads in every state, so an agent that was killed can be started;
  `AtomicReplacement`, which is `CertFile`'s specification under the mapping
  `cert <- Crt, durable <- diskData[diskDir["crt"]]`.
  `NoRenewLoop`: every renewal changes what the file holds, so a server that
  keeps offering one certificate has it installed once. A server that
  *alternates* certificates can keep the agent renewing; nothing in the code
  prevents that, and the property does not claim it. `PresentsInstalled`: a
  connected agent that is not renewing presents what `agent.crt` holds. The code
  relies on it: it compares an offer with the file, and leaves the connection up
  when they agree (`renew.go:101-118`).
* `renew_shared`: two agents in one directory, and `setup` under them.
  `NothingUnverified`: until setup is run, what is installed is torn or was
  verified by one of them. `PairAtRest`: the pair loads once setup has ended,
  except after two races: a renewal validated before `setup` renames the old
  identity's certificate over the new one (which `certrenew.go:122-124` says
  must not happen), or several agents tear the file.
* `renew_torn`: see *Findings*.

With two agents `PresentsInstalled` does not hold: after another process has
replaced the file, an agent stays on its certificate until it next connects.

**Bounds.** Four inodes: the installed file, the temporary one, one that only
the disk still names, one held open. Two rename attempts of the five (once more,
and the last), one with two agents, whose steps already interleave in every way.
Two identities, three CAs one of which is untrusted: one offer per check of
`Validate`. One later run of `setup`. Without power failures what has been
written back is not followed.

### Proofs

`CertRenewProofs.tla`, for every set of agents, inodes, identities, offers and
every number of attempts:

* `RenewTypeCorrect`: `Spec => []TypeOK`, with any number of agents and setup.
* `RenewInvariant`, `AlwaysStartable`, `NoRenewLoopHolds`, `RenewIsAtomic`: for
  one agent and no setup (`OneAgent`, `NoSetup`; both are necessary, as
  `renew_torn` and the exceptions of `PairAtRest` show), `[]IInv`,
  `[]Startable`, `NoRenewLoop` and the refinement `Spec => AtomicReplacement`.
* `NothingUnverifiedHolds`: `Spec => []NothingUnverified`, with no further
  assumption: any number of agents, with setup and power failures. Its
  invariant says that every inode, in memory and on disk, is torn or verified,
  and so is what an agent has validated or is about to write.

* `PresentsInstalledHolds`: `Spec => []PresentsInstalled`, for one agent and no
  setup again: with two it is false.
* `PairAtRestHolds`: `Spec => []PairAtRest`, for any number of agents and runs of
  setup, with power failures. It assumes `PairedOffers`: a certificate the server
  offers to an identity that setup obtained is for the key setup obtained with it
  (the server makes both, `wizard.go:88-96`). The renewal compares an offer with
  the key it finds on disk, which setup may be about to replace.

`Startable` is not inductive. `IInv` adds that the temporary file is an inode of
its own, also in the directory as last written back (`Apart`); that what
`agent.crt` names has been written back in full (`Stored`); and what the agent's
inode holds in each step of the installation (`Installing`): once past `Sync` it
is the validated candidate, in memory and on disk. So a power failure finds the
old inode or the new one, both whole. `RenewStep` proves for each action that it
keeps `IInv` and is a step of `CertFile` or a stutter, together, because the
refinement needs the invariant of the state it leaves.

For `PairAtRest`, `RestInv` follows a run of setup from write to write
(`SetupLeaves`): whatever the agents do in between, `agent.crt` holds what setup
wrote or what a renewal may leave, an offer or, with several agents, a torn file.
Those two are the races the property excepts.

## Agent loop and access list: Agent, AccessList

`AccessList.tla` is `internal/acl`: `Parse`, `LoadFile` (`Loads`, `Loaded`),
`Allows` and `Entries` over files that are sequences of lines; an entry is the
set of addresses it covers, an address being the network of itself. A missing
file is an empty list, which allows nothing (`accesslist.go:79`): `check` prints
"empty (only localhost allowed)" for it (`main.go:269`), which is not what
happens, and it prints the same for a file it cannot read.

`Agent.tla` models what `cmdRun` asks for before the loop (`Begin`: `agent.crt`
and `agent.access` exist, the pair loads) and `RunAgent` with `Connect`: one
action per `return` and `continue` of the loop. `pair` says whether `agent.crt`
and `agent.key` load; it changes at any time, and every handshake needs it.
`server` is what the other side does at the moment (down, bad certificate,
refusing the agent's certificate, good) and changes at any time; `file` is
`agent.access`, which is edited at any time, and `list` what this connection has
of it; `streak` and `held` are ghosts: failed calls of `Connect` in a row, and
what the file was since the loop last came round. `tls13` says which protocol is
negotiated: with TLS 1.3 a client's `tls.Dial` succeeds before the server has
seen its certificate. With `service` the agent was installed, and the service
manager starts it again whenever it ends (`Restart=always`, `KeepAlive`:
`install.go:138`, `:81`), from `cmdRun` on.

* `agent` (`FairSpec`): `ExitIsEarned`, the agent gives up after exactly
  `MaxRetries` failures in a row; `ListIsFresh`, a connection never lets through
  what only an older file allowed; `ComesBack`, once the server, the pair and
  the access list are good for good the agent is connected again and again, or
  has ended with an error and nobody starts it again, or its service finds the
  access file missing; `ServiceComesBack`, as a service it is connected again
  whatever had ended it, if the access file exists; `RefusalEndsUnlessTLS13`, a
  server that goes on refusing its certificate in the handshake ends it.
* `agent_refused`: see *Findings*.

The model also shows: every error of `Connect` counts, so that four failed TCP
dials, about a minute of outage, end the agent, although `agent.go:60` speaks of
TLS-level failures; an access file that cannot be read for a moment ends it too;
a missing one does not, but keeps a service from ever coming back
(`main.go:219`); without a service only the operator starts it again; and under
a service a REJECT, which `RunAgent` treats as final, is followed by another
connection.

**Bounds.** `MaxRetries` is the code's 4; the files are a missing one, an
unreadable one and two lists that differ. **Fairness.** The loop keeps running
(it is the main goroutine; sleeps end), a server that refuses the certificate
does not keep the connection open, and the service manager does start a service
that has ended. Nothing is assumed of the server or of the operator; what must
hold in the end is a premise of each property. Time is not modelled: how long a
sleep lasts, and that EOF reconnects without one, is not measured.

### Proofs

`AgentProofs.tla`, for every limit, every set of hosts and every set of files,
from `AgentAssumption` and `AccessAssumption`: `AgentTypeCorrect`,
`ExitIsEarnedHolds`, `ListIsFreshHolds`. `CountInv` and `WhyInv` tie the counter
of the code and the ghost `streak` together with where the loop stands and the
error it returned, and `ExitIsEarned` follows. `ListIsFresh` needs that the file
as it is now is among what it was (`HeldInv`), since that is what the next load
reads.

## Wire protocol: Framing and PacketChannel

`Framing.tla` has the encoders, the parsers and `DecodePackets` as operators and
functions over sequences of bytes, and the read loop's buffer as a state machine:
`Send` writes a whole frame, `Read(n)` is one turn of `readLoop` with `n` more
bytes. A decoded batch is handled up to the first packet that ends the
connection (`Handled`). `Wedges` are what a broken peer may send: a size of 0, 1
or 2, which `DecodePackets` takes for a frame that is not complete
(`framing.go:38`), so that the reader is deaf from there on while the connection
stays up and its buffer grows. `PacketChannel.tla` is what the code above relies on: a
FIFO channel of messages.

* `framing`: `KeepsMessages` (`PacketChannel`'s specification under the identity
  mapping); `NothingStuck`: when all bytes have been read, every message ahead of
  the first impossible size has been handled, and the buffer is empty if there is
  none.

**Bounds.** Bytes are below `Base` = 10 instead of 256, the least that holds the
nine command bytes; messages are chosen so that sizes and ids need both bytes and
payloads look like sizes and slashes. Three messages, cut in every way, with a
read buffer of 12 bytes: shorter than two frames and longer than most.
`FramingAssumption` says frames fit their size field; the code does not check it,
its own payloads are at most 32770 bytes, so that `uint16` does not wrap. A payload
that does not parse (`Malformed`: the handler ignores it) is in the parsers of the
module but not sent here: what is received is compared with what was sent.

### Proofs

`FramingProofs.tla`, for every `Base` above the largest command byte (256
included), every set of messages that fit their size field, every `Wedges`, every
read buffer and every bound, from `FramingAssumption`: `FramingTypeCorrect`,
`NothingStuckHolds`, and the refinement `KeepsMessagesHolds`.

The codec first: `RoundTrip` says that two bytes give back the number put into
them, `PayloadParses` that each parser undoes its encoder, `FrameIs` what the
encoder's frame looks like; a host name without a slash is what makes
CREATE_REQUEST unambiguous. `Carries(b, ms)` says that bytes `b` are the frames of
messages `ms`, by the places where they begin. `DecodePackets` is a recursive
function that walks through a buffer; that its walk exists and reads the messages
whose frames are whole (`WalkExists`, `WalkReads`) is proved by induction on the
bytes left. The invariant: what was received is the beginning of what was sent
(`Prefix`), and while the reader runs, `buf \o wire` carries the rest and no whole
frame is left in `buf` (`Flowing`). A read moves bytes from `wire` to `buf`, which
leaves `buf \o wire` alone, and the walk takes whole frames off its front.

Induction is proved, not assumed. The induction theorems of the library take a
predicate as a parameter, which the provers here cannot instantiate;
`SetInduction` says the same of a *set* of numbers, and follows from the theorem
that a well-founded relation has minimal elements (`WFMin`). The same lemma
serves `StartupProofs`.

## One machine: Daemon, Update, Host

`Daemon.tla` models `start`, `stop`, `restart` and `run` against one PID file and
a process table that hands ids out again (`OtherBegins`). Each read of the file,
each probe and each write is a step; `os.WriteFile` is two, truncate and write,
for the parent (`ParentTruncates`, `ParentWrites`) and for the agent
(`TruncatePID`, `WritePID`). The goroutine that waits for SIGTERM runs beside
`main` (`HandlerRemoves`, `HandlerExits`). `IsRunning` is `kill(pid, 0)`: it finds
any process; on Windows (`windows`) it may fail to open one that is not the
agent's, and `kill` is `TerminateProcess`, which no handler sees. `install` starts
a service (`unit`), whose manager starts an agent whenever its own has ended.

`Update.tla` is `internal/update` step by step: ask for the latest release,
compare it for equality with the version of the binary that asks, download into
a temporary file next to the executable, chmod, rename, and the deferred removal.
Each step can fail where the code has an error path, and be interrupted between
any two. A binary is the release it was built from, or `Torn`. Nothing is synced,
so `safe` is what has been written back.

`Host.tla` puts both on one machine: a process runs the binary it was started
from (`ver`), every start and every command needs an executable, and a power
failure ends every process and may take the PID file or an executable that was
not written back.

* `host` (`HostFairSpec`): commands one after the other, each given when the last
  has taken effect, and `run` only when nothing runs (`Patient`); agents crash
  and fail, PIDs are recycled, the power fails, releases are published and
  withdrawn. `OneAgent`: never two agents that serve. `StopWorks`: the file names
  the one that runs. `ExecutableRuns`: whatever step an update ends in, the
  executable is a whole binary that runs, but for two lost writes: a power failure
  before it is written back, and an error that only `Close` reports
  (`update.go:124`). `RestartPicksUp`: when `restart` has started an agent, no
  agent serves with an older binary. `StopEnds`: an agent that has caught the
  signal ends; only the goroutine that handles it is assumed to be scheduled.

`OneAgent`, `StopWorks` and `RestartPicksUp` are claimed only without a service.
With one they fail: `restart` stops the agent of the service and starts one of
its own, and the manager starts another; the two then share one PID file and one
`~/.deploy` (see `renew_torn`).

With `Patient = FALSE` TLC finds the races of quick commands, and neither
`OneAgent` nor `StopWorks` holds: `start` reads the file while an agent truncates
it to write the PID its parent had already written (`main.go:188` calls that a
no-op) and starts a second agent; the handler of an agent that is ending removes
the file of its successor. Even for a patient operator `restart` can end without
starting anything, when the agent goes away between `cmdRestart`'s look at the
file and `Stop`'s, which exits the program; and after a crash or a power failure
the file may name an unrelated process, which `stop` then ends and because of
which `start` refuses to start. An update installs whatever the latest release is
called, an older one too.

**Bounds.** Two PIDs: an agent and its successor, or an agent and an unrelated
process; two agents at once are possible, so `OneAgent` says something. With a
third PID the combined state space does not fit the time of a run. One command at
a time and one update at a time: for a patient operator there are never two. Two
releases: one installed, one to install.

**Left out.** Failures of writes to the PID file, a command other than `update`
interrupted half way, SIGINT (same handler), `status` (reads only), a second
`install` (on macOS it unloads the service first), the HTTP requests of `update`,
which have no timeout. On Windows the rename of a running executable fails.

### Proofs

`HostProofs.tla`, for any number of process ids, of commands at a time
(`Tools`) and of releases, from `DaemonAssumption` and `HostAssumption`:
`HostTypeCorrect`; `ExecutableRunsHolds`, for impatient operators and services
too; and with `Patient`, the assumption under which `host` checks them,
`OneAgentHolds`, `StopWorksHolds` and the action property `RestartPicksUpHolds`.

None of the last three is inductive: a command reads the PID file, looks at the
process, and acts later on what it has read. `PatientInv` says for every step of
a command what the last thing it read still tells it. Until it acts, no agent is
starting or stopping, so at most one fails (`CalmInv`), and the agent that runs
is the one whose PID was read (`ReadInv`); what `restart` noted down is what
`stop` signals, so that it waits for the right process (`OldInv`); after the
signal that process is the only one left (`StoppedInv`); when an agent is spawned
nothing serves (`SpawnInv`), and then nothing but that agent (`StartedInv`). An
agent that is on its way out with no handler running is `Gone`: it does not touch
the file again. `VerInv` adds for `RestartPicksUp` that no update is under way
while a command is (`BusyInv`), so the executable is what was started.

For `ExecutableRuns` the invariant follows the temporary file: it is whole and
executable before it is renamed, unless `Close` failed.

The attempt also found a flaw of the model: two arms of a CASE in `Runs` overlapped,
for a process id that is free and stays free; TLC takes the first, and nothing says
it must. The definition now gives one value.

## From setup to a running agent: Trust, Startup

`Trust.tla` has `CACert`, the two parsers of a CA bundle, and `VerifyConnection`.
A bundle is a sequence of pieces: a certificate, a CERTIFICATE block that does not
parse, another block, a BEGIN line with nothing readable behind it, junk. The
strict `NewCertPool` is what the agent trusts, the lenient `ParseBundle` what
`check` shows. Left out: intermediate certificates and validity periods.

`Startup.tla` is how an agent comes to run: `setup` as a sequence of steps, each
of which may be its last; the operator, who edits or removes files between runs
of setup and sets `DEPLOY_AGENT_CA_FILE` and `DEPLOY_AGENT_NOVERIFY`; `check`
(`CheckPasses`) and `run` (`RunStarts`) over the same files.

* `startup`: `StrictBundle`: `NewCertPool` takes all of a bundle or refuses it, and
  what it takes is what `check` lists.
  `TrustsWhatWasAsked`: the pool that judges renewals holds the CAs of the bundle
  the agent was told to use when it started, all of them and never those of the
  embedded one behind an override; and it believes only servers whose CA is among
  them, unless it was started with `DEPLOY_AGENT_NOVERIFY`, with which it believes
  any (`tls.go:107-110`). `CheckAgreesWithRun`: if `check` passes then `run` starts, and the
  other way round, and what a successful setup leaves starts; `check` passes
  wrongly in two cases, which the property names: the access file is missing or
  cannot be read, or `DEPLOY_AGENT_NOVERIFY` is set and the bundle is one only the
  lenient parser takes. `ListAsTyped`: while setup writes `agent.access`, a running
  agent that reads it gets a part of the new list, never more than was typed, and
  at the end all of it, unless a write failed, which setup does not notice
  (`wizard.go:143-154` drops every error of `Fprint`).

**Bounds.** Three CAs: two embedded, one of an override. Two identities: the one
installed and the next, alike (symmetry). Three addresses: localhost, one typed,
one neither. The overrides have each kind of damage ahead of, behind and between
certificates.

**Left out.** The service unit sets no environment, so a `check` in a shell and
the agent of a service may see different overrides; `check` with a certificate
that has expired or with a server that does not answer; the prompts (`ask` makes a
new buffered scanner for every line, so that piped input after the first line is
lost) and the request to the API.

### Proofs

`StartupProofs.tla`, for every embedded bundle that is not empty, every override,
access list, input and set of identities, from the named assumptions of `Trust`,
`AccessList` and `Startup`: `StartupTypeCorrect`, `StrictBundleHolds`,
`TrustsWhatWasAskedHolds`, `CheckAgreesWithRunHolds`, `ListAsTypedHolds`.

`StrictBundle` is about a loop, which `Added` writes as a recursive function from
a place in the bundle to what is added from there on. `WalkMeets` proves, by
induction on the pieces left, that the walk either stops at a refusal or adds every
certificate block from there on and met nothing else; then the count of BEGIN
lines decides (`PoolIsWhole`): it agrees only if every declared block is one of
those added, and `ParseBundle` lists the same. The rest rests on `StartupInv`:
what each step of setup has written (`Written`), which lines (`Listed`), and that
a running agent holds the pool of the bundle it was started with (`Trusting`). A
part of the lines that were typed allows a part of what they allow, since an entry
allows on its own.

## Findings

Each is a run that TLC finds violated by what the code does, against what a
comment, a test or the README says. `PROJECT.json` quotes the text.

| run | what happens |
|---|---|
| `tunnel_first_byte` | the CREATE_RESPONSE is queued before the connection is in the map: DATA that answers it quickly is dropped |
| `renew_torn` | two agents share `agent.crt.tmp`; one installs a truncated certificate |
| `agent_refused` | with TLS 1.3 a refused certificate never ends the agent |

Other weak spots are written into the properties as their exact exceptions, or
told in the sections above: `Registered`, `LinkLossEndsRunOrStuck`,
`ShutdownDrainsOrLate`, `PairAtRest`, `NothingStuck`, `ExecutableRuns`,
`CheckAgreesWithRun`, `ListAsTyped`, the outage that ends the agent, the service
beside the commands, impatient commands.

## What is proved and what is only checked

Proved for every value of the constants: the type invariant of each module, every
safety invariant, the action properties `NoRenewLoop` and `RestartPicksUp`, and
the refinements `ServesSessions`, `AtomicReplacement` and `KeepsMessages`.

| assumption | theorems | why |
|---|---|---|
| those named in the modules' `ASSUME` | all | relations between constants; TLC evaluates them in the runs |
| `OneAgent`, `NoSetup` | `RenewInvariant`, `AlwaysStartable`, `NoRenewLoopHolds`, `RenewIsAtomic`, `PresentsInstalledHolds` | the code has no lock on `~/.deploy`; the properties fail without |
| `PairedOffers` | `PairAtRestHolds` | the server made the key of each identity (`wizard.go:88-96`) |
| `Patient` | `OneAgentHolds`, `StopWorksHolds`, `RestartPicksUpHolds` | the commands have no lock either; the properties fail without |

Checked by TLC on the instances above and not proved: liveness
(`RequestAnswered`, `CloseIsReported`, `DestroyHonoured`,
`LinkLossEndsRunOrStuck`, `ShutdownDrainsOrLate`, `ComesBack`,
`ServiceComesBack`, `RefusalEndsUnlessTLS13`, `StopEnds`), because TLAPS here
proves neither ENABLED nor reasoning from fairness; and the three findings, which
are counterexamples.

Every checked property has at least one seeded fault (a
definition whose comment says *fault*) that makes its run fail; they are not part of `Next`.

## Not modelled

`internal/testca` is test support; `internal/config/paths.go` looks up paths and
environment variables; `status`, `accesslist` and `version` print; `install.sh`
downloads a release. None keeps state that another part relies on. Time (the rate
of reconnections, the length of sleeps, certificates that expire) is nowhere
measured.
