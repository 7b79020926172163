-------------------------------- MODULE Host --------------------------------
(***************************************************************************)
(* One machine: the agent processes and commands of Daemon, the executable *)
(* they are all started from, and the update that replaces it (Update).    *)
(* "update" replaces the file under the agent that runs; what makes the    *)
(* agent pick it up is a restart (README.md, "Upgrading").  The power may  *)
(* fail: every process is gone and agent.pid may still name one of them.   *)
(***************************************************************************)
EXTENDS Daemon

CONSTANTS
  Releases,   \* the versions that are released
  Torn,       \* the content of a file that is not a whole binary
  NoFile

ASSUME HostAssumption == Torn \notin Releases /\ NoFile \notin Releases \cup {Torn}

VARIABLES
  exe, safe, latest, tmp, upd, mishap,   \* those of Update
  ver                                    \* the version each agent process runs

Upd == INSTANCE Update

daemonVars == <<file, proc, sig, tool, unit>>
updateVars == <<exe, safe, latest, tmp, upd, mishap>>
hostVars == <<vars, updateVars, ver>>

HostInit == Init /\ Upd!Init /\ ver = [p \in Pids |-> NoFile]

-----------------------------------------------------------------------------
\* A process runs the binary it was started from until it ends.
Runs == ver' = [p \in Pids |->
                  IF proc'[p] \in {"free", "other"} THEN NoFile
                  ELSE IF proc[p] \in {"free", "other"} THEN exe.bin ELSE ver[p]]

\* exec needs an executable; so does every command.
Starts == \E p \in Pids : proc[p] = "free" /\ proc'[p] = "booting"
Types == \E t \in Tools : tool[t] = Idle /\ tool'[t] # Idle

\* A patient operator gives one command at a time, an update too.
DaemonStep ==
  /\ Next /\ Runs
  /\ Starts \/ Types => Upd!Executable(exe)
  /\ Patient /\ Types => upd = Upd!Idle
  /\ UNCHANGED updateVars

UpdateStep ==
  /\ Upd!Command
  /\ Patient /\ upd = Upd!Idle => Settled
  /\ UNCHANGED <<daemonVars, ver>>

WorldStep == Upd!World /\ UNCHANGED <<daemonVars, ver>>

\* The service, if there is one, starts its agent when the machine is back.
PowerFailure ==
  /\ Upd!PowerFailure
  /\ proc' = [p \in Pids |-> "free"] /\ sig' = [p \in Pids |-> "none"]
  /\ tool' = [t \in Tools |-> Idle]
  /\ ver' = [p \in Pids |-> NoFile]
  /\ unit' = IF unit = "none" THEN "none" ELSE "due"
  /\ file' \in {file, NoPid}

HostNext == DaemonStep \/ UpdateStep \/ WorldStep \/ PowerFailure

HostSpec == HostInit /\ [][HostNext]_hostVars

\* As in Daemon: the goroutine that waits for the signal is scheduled.
HostFairness ==
  \A p \in Pids :
    /\ WF_hostVars(HandlerRemoves(p) /\ Runs /\ UNCHANGED updateVars)
    /\ WF_hostVars(HandlerExits(p) /\ Runs /\ UNCHANGED updateVars)

HostFairSpec == HostSpec /\ HostFairness

-----------------------------------------------------------------------------
(* Properties. *)

HostTypeOK == /\ TypeOK
              /\ {exe.bin, safe.bin, tmp.bin} \subseteq Releases \cup {Torn, NoFile}
              /\ latest \in Releases /\ mishap \in BOOLEAN
              /\ ver \in [Pids -> Releases \cup {NoFile}]

\* Whatever step an update fails or is interrupted in, the executable is a whole
\* binary of one release that may be run (update.go:90-91, "atomically
\* replaces execPath"), unless a write was lost: the power failed before the
\* new one was written back, as nothing is synced (update.go:120-132), or only
\* Close reported an error, and no one looks (update.go:124).
ExecutableRuns == mishap \/ Upd!Executable(exe)

\* README.md:79-80, "restart is what makes the running agent pick it up": when
\* a restart has started an agent, no agent serves with an older binary, also
\* after agents crashed, PIDs were handed out again or the power failed.  True
\* without a service.
Restarted(t) == At(t, "write") /\ tool[t].cmd = "restart" /\ tool'[t] = Idle
RestartPicksUp ==
  [][\A t \in Tools : Restarted(t) /\ unit = "none" =>
       \A p \in Serving : ver[p] = exe.bin]_hostVars
=============================================================================
