------------------------------- MODULE Daemon -------------------------------
(***************************************************************************)
(* The background agent and the commands that start, stop and restart it,  *)
(* which know each other through one PID file: package internal/daemon,    *)
(* on Unix and on Windows, and cmdStart, cmdRestart and cmdRun of          *)
(* cmd/network-agent/main.go.  An agent may also be installed as a service *)
(* (internal/install), which systemd or launchd then runs and runs again.  *)
(***************************************************************************)
EXTENDS Naturals, FiniteSets

CONSTANTS
  Pids,      \* process ids the system hands out, and hands out again
  NoPid,     \* what ReadPID makes of a missing, empty or corrupt file
  Tools,     \* invocations of network-agent that may be in progress at once
  Commands,  \* which of the five commands below are used
  Patient    \* commands are given only when the last one has taken effect, and
             \* no second agent is run by hand

ASSUME DaemonAssumption == /\ Pids \cap {NoPid, "none", "due"} = {}
                           /\ Commands \subseteq {"start", "stop", "restart", "run", "install"}
                           /\ Patient \in BOOLEAN

VARIABLES
  file,   \* the PID file
  proc,   \* what each process id is in use for, and how far that agent is
  sig,    \* how far the agent's handler of SIGTERM is
  tool,   \* the command each tool is running
  unit,   \* the service: none; due to start its agent; the agent it runs
  windows \* which build this is

agentVars == <<file, proc, sig>>
serviceVars == <<unit, windows>>
vars == <<agentVars, tool, serviceVars>>

\* An agent boots, has called signal.Notify, has truncated the PID file, runs,
\* or is about to exit; "other" is a process that has nothing to do with it.
Stages == {"free", "booting", "notified", "writing", "running", "leaving", "other"}

Steps == {"idle", "restartRead", "restartProbe", "stopRead", "stopProbe",
          "stopKill", "stopRemove", "wait", "startRead", "startProbe", "spawn",
          "truncate", "write", "install"}

Idle == [step |-> "idle", cmd |-> "none", pid |-> NoPid, old |-> NoPid]

Init == /\ file = NoPid
        /\ proc = [p \in Pids |-> "free"]
        /\ sig = [p \in Pids |-> "none"]
        /\ tool = [t \in Tools |-> Idle]
        /\ unit = "none" /\ windows \in BOOLEAN

\* IsRunning finds a process, whatever it is; on Windows it may be unable to
\* open one that is not the agent's.
Found(p) == p # NoPid /\ proc[p] # "free"
NotFound(p) == ~Found(p) \/ (Found(p) /\ windows /\ proc[p] = "other")

-----------------------------------------------------------------------------
(* The agent process, "network-agent run".                                 *)

Exits(p) == /\ proc' = [proc EXCEPT ![p] = "free"]
            /\ sig' = [sig EXCEPT ![p] = "none"]
            /\ unit' = IF unit = p THEN "due" ELSE unit
            /\ UNCHANGED windows

Boot(p) == /\ proc[p] = "booting"
           /\ proc' = [proc EXCEPT ![p] = "notified"]
           /\ UNCHANGED <<file, sig, tool, serviceVars>>

\* No configuration, no certificate, a bad CA bundle: os.Exit(1).
BootFails(p) == proc[p] = "booting" /\ Exits(p) /\ UNCHANGED <<file, tool>>

\* WritePID: os.WriteFile truncates the file, then writes it.
TruncatePID(p) == /\ proc[p] = "notified"
                  /\ file' = NoPid
                  /\ proc' = [proc EXCEPT ![p] = "writing"]
                  /\ UNCHANGED <<sig, tool, serviceVars>>

\* Fault: the agent leaves the PID file to its parent.
WriteSkipped(p) == /\ proc[p] = "writing"
                   /\ proc' = [proc EXCEPT ![p] = "running"]
                   /\ UNCHANGED <<file, sig, tool, serviceVars>>

WritePID(p) == /\ proc[p] = "writing"
               /\ file' = p
               /\ proc' = [proc EXCEPT ![p] = "running"]
               /\ UNCHANGED <<sig, tool, serviceVars>>

\* RunAgent returns an error: RemovePID, then exit.
RunFails(p) == /\ proc[p] = "running"
               /\ file' = NoPid
               /\ proc' = [proc EXCEPT ![p] = "leaving"]
               /\ UNCHANGED <<sig, tool, serviceVars>>

Leave(p) == proc[p] = "leaving" /\ Exits(p) /\ UNCHANGED <<file, tool>>

\* The goroutine that waits for a signal, while main goes on.
HandlerRemoves(p) == /\ sig[p] = "caught"
                     /\ file' = NoPid
                     /\ sig' = [sig EXCEPT ![p] = "removed"]
                     /\ UNCHANGED <<proc, tool, serviceVars>>

\* Fault: the handler removes the PID file and forgets to exit.
HandlerReturns(p) == /\ sig[p] = "removed"
                     /\ sig' = [sig EXCEPT ![p] = "none"]
                     /\ UNCHANGED <<file, proc, tool, serviceVars>>

HandlerExits(p) == sig[p] = "removed" /\ Exits(p) /\ UNCHANGED <<file, tool>>

\* A panic, the OOM killer, kill -9: nothing is removed.
Crash(p) == /\ proc[p] \notin {"free", "other"}
            /\ Exits(p)
            /\ UNCHANGED <<file, tool>>

\* The id of a process that ended is handed out again.
OtherBegins(p) == /\ proc[p] = "free"
                  /\ proc' = [proc EXCEPT ![p] = "other"]
                  /\ UNCHANGED <<file, sig, tool, serviceVars>>

OtherEnds(p) == proc[p] = "other" /\ Exits(p) /\ UNCHANGED <<file, tool>>

-----------------------------------------------------------------------------
(* The commands.                                                           *)

At(t, step) == tool[t].step = step
Goto(t, step) == tool' = [tool EXCEPT ![t].step = step]
Done(t) == tool' = [tool EXCEPT ![t] = Idle]

\* Agents that serve, or are about to.
Serving == {p \in Pids : /\ proc[p] \in {"booting", "notified", "writing", "running"}
                         /\ sig[p] = "none"}

Settled == /\ unit # "due"
           /\ \A p \in Pids : proc[p] \in {"free", "running", "other"} /\ sig[p] = "none"
           /\ \A t \in Tools : At(t, "idle")

FirstStep(cmd) == CASE cmd = "start"   -> "startRead"
                    [] cmd = "stop"    -> "stopRead"
                    [] cmd = "restart" -> "restartRead"
                    [] cmd = "run"     -> "spawn"
                    [] cmd = "install" -> "install"

Begin(t) == /\ At(t, "idle")
            /\ Patient => Settled
            /\ \E cmd \in Commands :
                 /\ Patient /\ cmd = "run" => Serving = {}
                 /\ tool' = [tool EXCEPT ![t] = [Idle EXCEPT !.step = FirstStep(cmd),
                                                             !.cmd = cmd]]
            /\ UNCHANGED <<agentVars, serviceVars>>

\* cmdRestart: an agent that runs is stopped first.
RestartRead(t) == /\ At(t, "restartRead")
                  /\ tool' = [tool EXCEPT ![t].step = "restartProbe", ![t].old = file]
                  /\ UNCHANGED <<agentVars, serviceVars>>

RestartProbe(t) == /\ At(t, "restartProbe")
                   /\ \/ Found(tool[t].old) /\ Goto(t, "stopRead")
                      \/ NotFound(tool[t].old) /\ Goto(t, "startRead")
                   /\ UNCHANGED <<agentVars, serviceVars>>

\* Stop reads the file itself, and ends the command when nothing runs.
StopRead(t) == /\ At(t, "stopRead")
               /\ tool' = [tool EXCEPT ![t].step = "stopProbe", ![t].pid = file]
               /\ UNCHANGED <<agentVars, serviceVars>>

\* Fault: stop signals whatever it read, without asking whether it runs.
StopProbeSkipped(t) == At(t, "stopProbe") /\ Goto(t, "stopKill") /\ UNCHANGED <<agentVars, serviceVars>>

StopProbe(t) == /\ At(t, "stopProbe")
                /\ \/ Found(tool[t].pid) /\ Goto(t, "stopKill")
                   \/ NotFound(tool[t].pid) /\ Done(t)
                /\ UNCHANGED <<agentVars, serviceVars>>

\* SIGTERM ends a process that does not handle it, and TerminateProcess any.
\* Stop fails when there is no such process, or it belongs to another user.
StopKill(t) ==
  /\ At(t, "stopKill")
  /\ LET p == tool[t].pid
     IN  \/ /\ proc[p] \in {"free", "other"}
            /\ Done(t)
            /\ UNCHANGED <<proc, sig, serviceVars>>
         \/ /\ proc[p] \in {"booting", "other"} \/ (windows /\ proc[p] # "free")
            /\ Exits(p)
            /\ Goto(t, "stopRemove")
         \/ /\ proc[p] \notin {"free", "booting", "other"} /\ ~windows
            /\ sig' = [sig EXCEPT ![p] = IF @ = "none" THEN "caught" ELSE @]
            /\ Goto(t, "stopRemove")
            /\ UNCHANGED <<proc, serviceVars>>
  /\ UNCHANGED file

StopRemove(t) == /\ At(t, "stopRemove")
                 /\ file' = NoPid
                 /\ \/ tool[t].cmd = "restart" /\ Goto(t, "wait")
                    \/ tool[t].cmd = "stop" /\ Done(t)
                 /\ UNCHANGED <<proc, sig, serviceVars>>

\* Fault: restart does not wait for the old agent to be gone.
WaitSkipped(t) == At(t, "wait") /\ Goto(t, "startRead") /\ UNCHANGED <<agentVars, serviceVars>>

\* WaitForStop: the process is gone, or ten seconds have passed.
Wait(t) == /\ At(t, "wait")
           /\ \/ NotFound(tool[t].old) /\ Goto(t, "startRead")
              \/ Found(tool[t].old) /\ Done(t)
           /\ UNCHANGED <<agentVars, serviceVars>>

StartRead(t) == /\ At(t, "startRead")
                /\ tool' = [tool EXCEPT ![t].step = "startProbe", ![t].pid = file]
                /\ UNCHANGED <<agentVars, serviceVars>>

\* cmdStart ends here when an agent runs, nothing is configured, or the log file
\* or the child cannot be had.
StartProbe(t) == /\ At(t, "startProbe")
                 /\ \/ Done(t)
                    \/ NotFound(tool[t].pid) /\ Goto(t, "spawn")
                 /\ UNCHANGED <<agentVars, serviceVars>>

\* The child is on its own from here; a foreground "run" has no parent.
Spawn(t) ==
  /\ At(t, "spawn")
  /\ \E p \in Pids :
       /\ proc[p] = "free"
       /\ proc' = [proc EXCEPT ![p] = "booting"]
       /\ \/ tool[t].cmd = "run" /\ Done(t)
          \/ /\ tool[t].cmd # "run"
             /\ tool' = [tool EXCEPT ![t].step = "truncate", ![t].pid = p]
  /\ UNCHANGED <<file, sig, serviceVars>>

\* The parent writes the child's PID.
ParentTruncates(t) == /\ At(t, "truncate")
                      /\ file' = NoPid
                      /\ Goto(t, "write")
                      /\ UNCHANGED <<proc, sig, serviceVars>>

ParentWrites(t) == /\ At(t, "write")
                   /\ file' = tool[t].pid
                   /\ Done(t)
                   /\ UNCHANGED <<proc, sig, serviceVars>>

\* install writes the service definition and has the service manager start it;
\* what is installed already stays as it is.  There is no service on Windows.
Install(t) == /\ At(t, "install")
              /\ \/ unit = "none" /\ ~windows /\ unit' = "due"
                 \/ UNCHANGED unit
              /\ Done(t)
              /\ UNCHANGED <<agentVars, windows>>

-----------------------------------------------------------------------------
\* External: the service manager runs "network-agent run" whenever its agent
\* has ended (Restart=always, KeepAlive).
UnitStarts == /\ unit = "due"
              /\ \E p \in Pids : /\ proc[p] = "free"
                                 /\ proc' = [proc EXCEPT ![p] = "booting"]
                                 /\ unit' = p
              /\ UNCHANGED <<file, sig, tool, windows>>

Process(p) == \/ Boot(p) \/ BootFails(p) \/ TruncatePID(p) \/ WritePID(p)
              \/ RunFails(p) \/ Leave(p) \/ HandlerRemoves(p) \/ HandlerExits(p)
              \/ Crash(p) \/ OtherBegins(p) \/ OtherEnds(p)

Command(t) == \/ Begin(t) \/ RestartRead(t) \/ RestartProbe(t)
              \/ StopRead(t) \/ StopProbe(t) \/ StopKill(t) \/ StopRemove(t)
              \/ Wait(t) \/ StartRead(t) \/ StartProbe(t) \/ Spawn(t)
              \/ ParentTruncates(t) \/ ParentWrites(t) \/ Install(t)

Next == (\E p \in Pids : Process(p)) \/ (\E t \in Tools : Command(t)) \/ UnitStarts

Spec == Init /\ [][Next]_vars

\* The goroutine that waits for the signal is scheduled.
Fairness == \A p \in Pids : WF_vars(HandlerRemoves(p)) /\ WF_vars(HandlerExits(p))

FairSpec == Spec /\ Fairness

-----------------------------------------------------------------------------
(* Properties.                                                             *)

\* Every process and every command is in one of its steps, and a command that
\* signals a process has read a PID.
TypeOK == /\ file \in Pids \cup {NoPid}
          /\ proc \in [Pids -> Stages]
          /\ sig \in [Pids -> {"none", "caught", "removed"}]
          /\ tool \in [Tools -> [step : Steps,
                                 cmd : Commands \cup {"none"},
                                 pid : Pids \cup {NoPid}, old : Pids \cup {NoPid}]]
          /\ \A t \in Tools : At(t, "stopKill") => tool[t].pid # NoPid
          /\ unit \in {"none", "due"} \cup Pids /\ windows \in BOOLEAN
          /\ unit \in Pids => proc[unit] \notin {"free", "other"}

\* start and restart never leave two agents serving at a time, whenever agents
\* fail, crash or are stopped and whatever has become of their PIDs
\* (main.go:119-145).  True of a patient operator, and without a service: its
\* manager starts another agent when restart has stopped the one it runs.
OneAgent == unit = "none" => Cardinality(Serving) <= 1

\* main.go:187: "Write PID so that 'stop' works after 'run' is backgrounded by
\* 'start'": between commands, the PID file names the agent that is running.
\* True of a patient operator and without a service.
StopWorks == unit = "none" /\ (\A t \in Tools : At(t, "idle")) =>
               \A p \in Pids : proc[p] = "running" /\ sig[p] = "none" => file = p

\* daemon.go:64-66, "Deploy agent stopped": an agent that has caught the signal
\* ends, in whatever step the signal found it, also while it is failing by
\* itself.
StopEnds == \A p \in Pids : sig[p] = "caught" ~> proc[p] = "free"

=============================================================================
