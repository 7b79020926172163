----------------------------- MODULE HostProofs -----------------------------
(***************************************************************************)
(* Proofs about modules Daemon and Host: the types; what an update leaves  *)
(* of the executable; and, for a patient operator without a service, that  *)
(* at most one agent serves, that stop finds it and that restart picks an  *)
(* update up.  The commands learn who runs from the PID file alone, so the *)
(* daemon's part of the invariant follows a command from step to step and  *)
(* says what the last thing it read still tells it.                        *)
(***************************************************************************)
EXTENDS Host, FiniteSetTheorems, TLAPS

-----------------------------------------------------------------------------
(* The daemon: the inductive invariant.                                    *)

\* Only an agent that has asked for the signal can have caught it.
SigInv == \A p \in Pids : sig[p] # "none" => proc[p] \notin {"free", "booting", "other"}

IdleInv == \A t \in Tools : At(t, "idle") => tool[t] = Idle

\* The process serves no more, and does not touch the PID file again.
Gone(p) == proc[p] \in {"free", "other", "leaving"} /\ sig[p] = "none"

\* No agent is starting, and none has been told to stop.
Calm == \A p \in Pids : proc[p] \in {"free", "running", "other", "leaving"} /\ sig[p] = "none"

\* One command at a time.
OneTool == \A t, u \in Tools : At(t, "idle") \/ At(u, "idle") \/ t = u

\* When an agent serves, no other will disturb it.
AloneInv == \A q \in Serving : \A p \in Pids \ {q} : Gone(p)

\* The PID file names the agent that runs, but for the parent's truncation.
FileInv == \A p \in Pids : proc[p] = "running" /\ sig[p] = "none" =>
             file = p \/ \E t \in Tools : At(t, "write")

\* Until a command acts on what it read, nothing starts and nothing stops; at
\* most an agent fails.
CalmInv == \A t \in Tools :
  tool[t].step \in {"restartRead", "restartProbe", "stopRead", "stopProbe",
                    "stopKill", "startRead", "startProbe"} => Calm

\* The agent that runs is the one whose PID was read.
ReadInv == \A t \in Tools :
  tool[t].step \in {"stopProbe", "stopKill", "startProbe"} =>
    \A p \in Pids : proc[p] = "running" => p = tool[t].pid

\* What stop signals is what restart will wait for.
OldInv == \A t \in Tools : tool[t].cmd = "restart" =>
  /\ tool[t].step \in {"restartProbe", "stopRead"} => file \in {tool[t].old, NoPid}
  /\ tool[t].step \in {"stopProbe", "stopKill"} => tool[t].pid \in {tool[t].old, NoPid}

\* After the signal, the process that was signalled is the only one left.
StoppedInv == \A t \in Tools :
  tool[t].step \in {"stopRemove", "wait"} =>
    /\ At(t, "wait") => tool[t].cmd = "restart"
    /\ \A p \in Pids : \/ Gone(p)
                       \/ sig[p] # "none" /\ (tool[t].cmd = "restart" => p = tool[t].old)

\* Nothing serves when an agent is spawned, and then nothing but that agent.
SpawnInv == \A t \in Tools : At(t, "spawn") => \A p \in Pids : Gone(p)

StartedInv == \A t \in Tools : tool[t].step \in {"truncate", "write"} =>
  /\ tool[t].pid \in Pids /\ sig[tool[t].pid] = "none"
  /\ \A p \in Pids \ {tool[t].pid} : Gone(p)

PatientInv == /\ AloneInv /\ FileInv /\ CalmInv /\ ReadInv
              /\ OldInv /\ StoppedInv /\ SpawnInv /\ StartedInv

DaemonInv == /\ TypeOK /\ SigInv /\ IdleInv
             /\ Patient => OneTool
             /\ Patient /\ unit = "none" => PatientInv

-----------------------------------------------------------------------------
(* Types.                                                                  *)

\* The PIDs are not what stands for no PID, no service or a service that is due.
LEMMA PidsApart == NoPid \notin Pids /\ "none" \notin Pids /\ "due" \notin Pids
BY DaemonAssumption

\* At first nothing runs, and no command does.
LEMMA InitDaemon == Init => DaemonInv
<1> SUFFICES ASSUME Init
             PROVE  DaemonInv
  OBVIOUS
<1>1. TypeOK
  BY PidsApart DEF Init, TypeOK, Idle, Stages, Steps, At
<1>2. SigInv /\ IdleInv /\ OneTool
  BY DEF Init, SigInv, IdleInv, OneTool, Idle, At
<1>3. AloneInv /\ FileInv
  BY DEF Init, AloneInv, FileInv, Serving
<1>4. CalmInv /\ ReadInv /\ OldInv /\ StoppedInv /\ SpawnInv /\ StartedInv
  BY DEF Init, Idle, CalmInv, ReadInv, OldInv, StoppedInv, SpawnInv, StartedInv, At
<1> QED
  BY <1>1, <1>2, <1>3, <1>4 DEF DaemonInv, PatientInv

\* The steps of a process keep the types.
LEMMA ProcessTypeOK ==
  ASSUME DaemonInv, NEW p \in Pids, Process(p)
  PROVE  TypeOK'
<1> USE PidsApart DEF DaemonInv, SigInv, TypeOK, Stages, At, serviceVars
<1>1. CASE Boot(p)
  BY <1>1 DEF Boot
<1>2. CASE BootFails(p)
  BY <1>2 DEF BootFails, Exits
<1>3. CASE TruncatePID(p)
  BY <1>3 DEF TruncatePID
<1>4. CASE WritePID(p)
  BY <1>4 DEF WritePID
<1>5. CASE RunFails(p)
  BY <1>5 DEF RunFails
<1>6. CASE Leave(p)
  BY <1>6 DEF Leave, Exits
<1>7. CASE HandlerRemoves(p)
  BY <1>7 DEF HandlerRemoves
<1>8. CASE HandlerExits(p)
  BY <1>8 DEF HandlerExits, Exits
<1>9. CASE Crash(p)
  BY <1>9 DEF Crash, Exits
<1>10. CASE OtherBegins(p)
  BY <1>10 DEF OtherBegins
<1>11. CASE OtherEnds(p)
  BY <1>11 DEF OtherEnds, Exits
<1> QED
  BY <1>1, <1>2, <1>3, <1>4, <1>5, <1>6, <1>7, <1>8, <1>9, <1>10, <1>11 DEF Process

\* A command that notes down a PID goes on to its next step.
LEMMA ReadStep ==
  ASSUME DaemonInv, NEW t \in Tools, NEW s, NEW p,
         tool' = [tool EXCEPT ![t].step = s, ![t].pid = p]
  PROVE  tool' = [tool EXCEPT ![t] = [tool[t] EXCEPT !.step = s, !.pid = p]]
<1> DEFINE m == [tool EXCEPT ![t].step = s]
<1> USE DEF DaemonInv, TypeOK
<1>1. m = [tool EXCEPT ![t] = [tool[t] EXCEPT !.step = s]]
  OBVIOUS
<1>2. tool' = [m EXCEPT ![t].pid = p]
  OBVIOUS
<1>3. m[t] = [tool[t] EXCEPT !.step = s]
  BY <1>1
<1> QED
  BY <1>1, <1>2, <1>3

LEMMA OldStep ==
  ASSUME DaemonInv, NEW t \in Tools, NEW s, NEW p,
         tool' = [tool EXCEPT ![t].step = s, ![t].old = p]
  PROVE  tool' = [tool EXCEPT ![t] = [tool[t] EXCEPT !.step = s, !.old = p]]
<1> DEFINE m == [tool EXCEPT ![t].step = s]
<1> USE DEF DaemonInv, TypeOK
<1>1. m = [tool EXCEPT ![t] = [tool[t] EXCEPT !.step = s]]
  OBVIOUS
<1>2. tool' = [m EXCEPT ![t].old = p]
  OBVIOUS
<1>3. m[t] = [tool[t] EXCEPT !.step = s]
  BY <1>1
<1> QED
  BY <1>1, <1>2, <1>3

\* The commands that read, step by step.
LEMMA RestartReads ==
  ASSUME DaemonInv, NEW t \in Tools, RestartRead(t)
  PROVE  /\ tool' = [tool EXCEPT ![t] =
                       [tool[t] EXCEPT !.step = "restartProbe", !.old = file]]
         /\ At(t, "restartRead") /\ UNCHANGED <<agentVars, serviceVars>>
BY OldStep DEF RestartRead

LEMMA StopReads ==
  ASSUME DaemonInv, NEW t \in Tools, StopRead(t)
  PROVE  /\ tool' = [tool EXCEPT ![t] =
                       [tool[t] EXCEPT !.step = "stopProbe", !.pid = file]]
         /\ At(t, "stopRead") /\ UNCHANGED <<agentVars, serviceVars>>
BY ReadStep DEF StopRead

LEMMA StartReads ==
  ASSUME DaemonInv, NEW t \in Tools, StartRead(t)
  PROVE  /\ tool' = [tool EXCEPT ![t] =
                       [tool[t] EXCEPT !.step = "startProbe", !.pid = file]]
         /\ At(t, "startRead") /\ UNCHANGED <<agentVars, serviceVars>>
BY ReadStep DEF StartRead

LEMMA FreshCommand ==
  ASSUME NEW s, NEW cmd, NEW r, r = [Idle EXCEPT !.step = s, !.cmd = cmd]
  PROVE  r = [step |-> s, cmd |-> cmd, pid |-> NoPid, old |-> NoPid]
BY DEF Idle

\* A command begins at its first step, with nothing read.
LEMMA Begins ==
  ASSUME DaemonInv, NEW t \in Tools, Begin(t)
  PROVE  /\ \E cmd \in Commands :
              /\ tool' = [tool EXCEPT ![t] = [step |-> FirstStep(cmd), cmd |-> cmd,
                                              pid |-> NoPid, old |-> NoPid]]
              /\ FirstStep(cmd) \in {"startRead", "stopRead", "restartRead",
                                     "spawn", "install"}
              /\ FirstStep(cmd) = "spawn" /\ Patient => Serving = {}
         /\ At(t, "idle") /\ (Patient => Settled) /\ UNCHANGED <<agentVars, serviceVars>>
<1>1. PICK cmd \in Commands :
        /\ Patient /\ cmd = "run" => Serving = {}
        /\ tool' = [tool EXCEPT ![t] = [Idle EXCEPT !.step = FirstStep(cmd), !.cmd = cmd]]
  BY DEF Begin
<1>2. /\ FirstStep(cmd) \in {"startRead", "stopRead", "restartRead", "spawn", "install"}
      /\ FirstStep(cmd) = "spawn" => cmd = "run"
  BY DaemonAssumption DEF FirstStep
<1>3. [Idle EXCEPT !.step = FirstStep(cmd), !.cmd = cmd]
        = [step |-> FirstStep(cmd), cmd |-> cmd, pid |-> NoPid, old |-> NoPid]
  BY FreshCommand
<1> QED
  BY <1>1, <1>2, <1>3 DEF Begin

\* The steps of a command keep the types.
LEMMA CommandTypeOK ==
  ASSUME DaemonInv, NEW t \in Tools, Command(t)
  PROVE  TypeOK'
<1>1. CASE Begin(t)
  <2>1. PICK cmd \in Commands :
          /\ tool' = [tool EXCEPT ![t] = [step |-> FirstStep(cmd), cmd |-> cmd,
                                          pid |-> NoPid, old |-> NoPid]]
          /\ FirstStep(cmd) \in {"startRead", "stopRead", "restartRead", "spawn", "install"}
    BY <1>1, Begins
  <2>2. UNCHANGED <<agentVars, serviceVars>>
    BY <1>1, Begins
  <2> QED
    BY <2>1, <2>2 DEF DaemonInv, TypeOK, Steps, At, agentVars, serviceVars
<1>2. CASE RestartRead(t)
  <2>1. tool' = [tool EXCEPT ![t] = [tool[t] EXCEPT !.step = "restartProbe", !.old = file]]
    BY RestartReads, <1>2
  <2>2. UNCHANGED <<agentVars, serviceVars>>
    BY RestartReads, <1>2
  <2> QED
    BY <2>1, <2>2, ZenonT(40) DEF DaemonInv, TypeOK, Steps, At, agentVars, serviceVars
<1>4. CASE StopRead(t)
  <2>1. tool' = [tool EXCEPT ![t] = [tool[t] EXCEPT !.step = "stopProbe", !.pid = file]]
    BY StopReads, <1>4
  <2>2. UNCHANGED <<agentVars, serviceVars>>
    BY StopReads, <1>4
  <2> QED
    BY <2>1, <2>2, ZenonT(40) DEF DaemonInv, TypeOK, Steps, At, agentVars, serviceVars
<1>9. CASE StartRead(t)
  <2>1. tool' = [tool EXCEPT ![t] = [tool[t] EXCEPT !.step = "startProbe", !.pid = file]]
    BY StartReads, <1>9
  <2>2. UNCHANGED <<agentVars, serviceVars>>
    BY StartReads, <1>9
  <2> QED
    BY <2>1, <2>2, ZenonT(40) DEF DaemonInv, TypeOK, Steps, At, agentVars, serviceVars
<1> USE PidsApart DEF DaemonInv, TypeOK, Steps, At, Goto, Done, Idle,
                      agentVars, serviceVars
<1>3. CASE RestartProbe(t)
  BY <1>3 DEF RestartProbe
<1>5. CASE StopProbe(t)
  BY <1>5 DEF StopProbe, Found
<1>6. CASE StopKill(t)
  BY <1>6 DEF StopKill, Exits, Stages
<1>7. CASE StopRemove(t)
  BY <1>7 DEF StopRemove
<1>8. CASE Wait(t)
  BY <1>8 DEF Wait
<1>10. CASE StartProbe(t)
  BY <1>10 DEF StartProbe
<1>11. CASE Spawn(t)
  BY <1>11 DEF Spawn, Stages
<1>12. CASE ParentTruncates(t)
  BY <1>12 DEF ParentTruncates
<1>13. CASE ParentWrites(t)
  BY <1>13 DEF ParentWrites
<1>14. CASE Install(t)
  BY <1>14 DEF Install
<1> QED
  BY <1>1, <1>2, <1>3, <1>4, <1>5, <1>6, <1>7, <1>8, <1>9, <1>10, <1>11, <1>12, <1>13, <1>14
     DEF Command

\* Every step keeps the types.
LEMMA DaemonTypeOK ==
  ASSUME DaemonInv, [Next]_vars
  PROVE  TypeOK'
<1>1. CASE UnitStarts
  BY <1>1, PidsApart DEF UnitStarts, DaemonInv, TypeOK, Stages, At
<1>2. CASE UNCHANGED vars
  BY <1>2 DEF DaemonInv, TypeOK, vars, agentVars, serviceVars, At
<1> QED
  BY <1>1, <1>2, ProcessTypeOK, CommandTypeOK DEF Next

-----------------------------------------------------------------------------
(* What a step of a process does to the processes and to the PID file.     *)

\* The process is gone, or its id is another program's.
Ends(p) == /\ proc' = [proc EXCEPT ![p] = proc'[p]] /\ proc'[p] \in {"free", "other"}
           /\ sig' = [sig EXCEPT ![p] = "none"]
           /\ file' = file

\* The agent starts up, as far as the truncation of the PID file.
StartsUp(p) == /\ proc[p] \in {"booting", "notified"} /\ proc'[p] \in {"notified", "writing"}
               /\ proc' = [proc EXCEPT ![p] = proc'[p]]
               /\ sig' = sig
               /\ file' \in {file, NoPid}

LEMMA ProcessSteps ==
  ASSUME DaemonInv, NEW p \in Pids, Process(p)
  PROVE  /\ tool' = tool
         /\ unit' = "none" => unit = "none"
         /\ \/ Ends(p) \/ StartsUp(p) \/ WritePID(p) \/ RunFails(p) \/ HandlerRemoves(p)
<1> USE PidsApart DEF DaemonInv, TypeOK, Stages, serviceVars
<1>1. CASE Boot(p) \/ TruncatePID(p)
  BY <1>1 DEF Boot, TruncatePID, StartsUp
<1>2. CASE WritePID(p) \/ RunFails(p) \/ HandlerRemoves(p)
  BY <1>2 DEF WritePID, RunFails, HandlerRemoves
<1>3. CASE BootFails(p) \/ Leave(p) \/ HandlerExits(p) \/ Crash(p) \/ OtherEnds(p)
  BY <1>3 DEF BootFails, Leave, HandlerExits, Crash, OtherEnds, Exits, Ends
<1>4. CASE OtherBegins(p)
  BY <1>4 DEF OtherBegins, Ends, SigInv
<1> QED
  BY <1>1, <1>2, <1>3, <1>4 DEF Process

\* A process that ends disturbs nobody.
LEMMA EndsKeeps ==
  ASSUME DaemonInv, PatientInv, NEW p \in Pids, Ends(p), tool' = tool
  PROVE  PatientInv'
<1> USE DEF DaemonInv, TypeOK, Ends, PatientInv, At
<1>1. AloneInv'
  BY DEF AloneInv, Serving, Gone
<1>2. FileInv'
  BY DEF FileInv
<1>3. CalmInv'
  BY DEF CalmInv, Calm
<1>4. ReadInv'
  BY DEF ReadInv
<1>5. OldInv'
  BY DEF OldInv
<1>6. StoppedInv'
  BY DEF StoppedInv, Gone
<1>7. SpawnInv'
  BY DEF SpawnInv, Gone
<1>8. StartedInv'
  BY DEF StartedInv, Gone
<1> QED
  BY <1>1, <1>2, <1>3, <1>4, <1>5, <1>6, <1>7, <1>8

\* An agent that starts up is the one that will be alone: it may truncate the
\* file, which names nobody who runs.
LEMMA StartsUpKeeps ==
  ASSUME DaemonInv, PatientInv, NEW p \in Pids, StartsUp(p), tool' = tool
  PROVE  PatientInv'
<1> USE PidsApart DEF DaemonInv, TypeOK, SigInv, StartsUp, PatientInv, At, serviceVars
<1>1. AloneInv'
  BY DEF AloneInv, Serving, Gone
<1>2. FileInv'
  BY DEF FileInv, AloneInv, Serving, Gone
<1>3. CalmInv'
  BY DEF CalmInv, Calm
<1>4. ReadInv'
  BY DEF ReadInv, CalmInv, Calm
<1>5. OldInv'
  BY DEF OldInv, CalmInv, Calm
<1>6. StoppedInv'
  BY DEF StoppedInv, Gone
<1>7. SpawnInv'
  BY DEF SpawnInv, Gone
<1>8. StartedInv'
  BY DEF StartedInv, Gone
<1> QED
  BY <1>1, <1>2, <1>3, <1>4, <1>5, <1>6, <1>7, <1>8

\* It writes its own PID when it begins to run.
LEMMA WriteKeeps ==
  ASSUME DaemonInv, PatientInv, NEW p \in Pids, WritePID(p)
  PROVE  PatientInv'
<1> USE PidsApart DEF DaemonInv, TypeOK, SigInv, WritePID, PatientInv, At, serviceVars
<1>1. AloneInv'
  BY DEF AloneInv, Serving, Gone
<1>2. FileInv'
  BY DEF FileInv, AloneInv, Serving, Gone
<1>3. CalmInv'
  BY DEF CalmInv, Calm
<1>4. ReadInv'
  BY DEF ReadInv, CalmInv, Calm
<1>5. OldInv'
  BY DEF OldInv, CalmInv, Calm
<1>6. StoppedInv'
  BY DEF StoppedInv, Gone
<1>7. SpawnInv'
  BY DEF SpawnInv, Gone
<1>8. StartedInv'
  BY DEF StartedInv, Gone
<1> QED
  BY <1>1, <1>2, <1>3, <1>4, <1>5, <1>6, <1>7, <1>8

\* An agent that fails removes the file, which named it.
LEMMA FailsKeeps ==
  ASSUME DaemonInv, PatientInv, NEW p \in Pids, RunFails(p)
  PROVE  PatientInv'
<1> USE PidsApart DEF DaemonInv, TypeOK, SigInv, RunFails, PatientInv, At, serviceVars
<1>1. AloneInv'
  BY DEF AloneInv, Serving, Gone
<1>2. FileInv'
  BY DEF FileInv, AloneInv, Serving, Gone
<1>3. CalmInv'
  BY DEF CalmInv, Calm
<1>4. ReadInv'
  BY DEF ReadInv, CalmInv, Calm
<1>5. OldInv'
  BY DEF OldInv, CalmInv, Calm
<1>6. StoppedInv'
  BY DEF StoppedInv, Gone
<1>7. SpawnInv'
  BY DEF SpawnInv, Gone
<1>8. StartedInv'
  BY DEF StartedInv, Gone
<1> QED
  BY <1>1, <1>2, <1>3, <1>4, <1>5, <1>6, <1>7, <1>8

\* So does the handler, when the agent it belongs to no longer counts.
LEMMA HandlerKeeps ==
  ASSUME DaemonInv, PatientInv, NEW p \in Pids, HandlerRemoves(p)
  PROVE  PatientInv'
<1> USE PidsApart DEF DaemonInv, TypeOK, SigInv, HandlerRemoves, PatientInv, At, serviceVars
<1>1. AloneInv'
  BY DEF AloneInv, Serving, Gone
<1>2. FileInv'
  BY DEF FileInv, AloneInv, Serving, Gone
<1>3. CalmInv'
  BY DEF CalmInv, Calm
<1>4. ReadInv'
  BY DEF ReadInv, CalmInv, Calm
<1>5. OldInv'
  BY DEF OldInv, CalmInv, Calm
<1>6. StoppedInv'
  BY DEF StoppedInv, Gone
<1>7. SpawnInv'
  BY DEF SpawnInv, Gone
<1>8. StartedInv'
  BY DEF StartedInv, Gone
<1> QED
  BY <1>1, <1>2, <1>3, <1>4, <1>5, <1>6, <1>7, <1>8

-----------------------------------------------------------------------------
(* The steps of a command, for a patient operator without a service.       *)


\* restart looks whether the process it read is there.
LEMMA RestartProbeKeeps ==
  ASSUME DaemonInv, OneTool, PatientInv, NEW t \in Tools, RestartProbe(t), unit = "none"
  PROVE  PatientInv'
<1> USE PidsApart DEF DaemonInv, TypeOK, SigInv, OneTool, RestartProbe, Found, NotFound, PatientInv, At,
                      Goto, Done, Idle, agentVars, serviceVars
<1>1. AloneInv'
  BY DEF AloneInv, Serving, Gone
<1>2. FileInv'
  BY DEF FileInv, AloneInv, Serving, Gone
<1>3. CalmInv'
  BY DEF CalmInv, Calm
<1>4. ReadInv'
  BY DEF ReadInv, CalmInv, Calm
<1>5. OldInv'
  BY DEF OldInv, CalmInv, Calm
<1>6. StoppedInv'
  BY DEF StoppedInv, Gone
<1>7. SpawnInv'
  BY DEF SpawnInv, Gone
<1>8. StartedInv'
  BY DEF StartedInv, Gone
<1> QED
  BY <1>1, <1>2, <1>3, <1>4, <1>5, <1>6, <1>7, <1>8

\* So does stop.
LEMMA StopProbeKeeps ==
  ASSUME DaemonInv, OneTool, PatientInv, NEW t \in Tools, StopProbe(t), unit = "none"
  PROVE  PatientInv'
<1> USE PidsApart DEF DaemonInv, TypeOK, SigInv, OneTool, StopProbe, Found, NotFound, PatientInv, At,
                      Goto, Done, Idle, agentVars, serviceVars
<1>1. AloneInv'
  BY DEF AloneInv, Serving, Gone
<1>2. FileInv'
  BY DEF FileInv, AloneInv, Serving, Gone
<1>3. CalmInv'
  BY DEF CalmInv, Calm
<1>4. ReadInv'
  BY DEF ReadInv, CalmInv, Calm
<1>5. OldInv'
  BY DEF OldInv, CalmInv, Calm
<1>6. StoppedInv'
  BY DEF StoppedInv, Gone
<1>7. SpawnInv'
  BY DEF SpawnInv, Gone
<1>8. StartedInv'
  BY DEF StartedInv, Gone
<1> QED
  BY <1>1, <1>2, <1>3, <1>4, <1>5, <1>6, <1>7, <1>8

\* The signal reaches the only agent that runs, or nobody.
LEMMA StopKillKeeps ==
  ASSUME DaemonInv, OneTool, PatientInv, NEW t \in Tools, StopKill(t), unit' = "none"
  PROVE  PatientInv'
<1> USE PidsApart DEF DaemonInv, TypeOK, SigInv, OneTool, StopKill, Exits, PatientInv, At,
                      Goto, Done, Idle, agentVars, serviceVars
<1>1. AloneInv'
  BY DEF AloneInv, Serving, Gone, CalmInv, Calm, ReadInv, OldInv
<1>2. FileInv'
  BY DEF FileInv, AloneInv, Serving, Gone, CalmInv, Calm, ReadInv, OldInv
<1>3. CalmInv'
  BY DEF CalmInv, Calm
<1>4. ReadInv'
  BY DEF ReadInv, CalmInv, Calm
<1>5. OldInv'
  BY DEF OldInv, CalmInv, Calm
<1>6. StoppedInv'
  BY DEF StoppedInv, Gone, CalmInv, Calm, ReadInv, OldInv
<1>7. SpawnInv'
  BY DEF SpawnInv, Gone
<1>8. StartedInv'
  BY DEF StartedInv, Gone
<1> QED
  BY <1>1, <1>2, <1>3, <1>4, <1>5, <1>6, <1>7, <1>8

\* The file is removed when nobody is left who counts.
LEMMA StopRemoveKeeps ==
  ASSUME DaemonInv, OneTool, PatientInv, NEW t \in Tools, StopRemove(t), unit = "none"
  PROVE  PatientInv'
<1> USE PidsApart DEF DaemonInv, TypeOK, SigInv, OneTool, StopRemove, PatientInv, At,
                      Goto, Done, Idle, agentVars, serviceVars
<1>1. AloneInv'
  BY DEF AloneInv, Serving, Gone
<1>2. FileInv'
  BY DEF FileInv, StoppedInv, Gone
<1>3. CalmInv'
  BY DEF CalmInv, Calm
<1>4. ReadInv'
  BY DEF ReadInv, CalmInv, Calm
<1>5. OldInv'
  BY DEF OldInv, CalmInv, Calm
<1>6. StoppedInv'
  BY DEF StoppedInv, Gone
<1>7. SpawnInv'
  BY DEF SpawnInv, Gone
<1>8. StartedInv'
  BY DEF StartedInv, Gone
<1> QED
  BY <1>1, <1>2, <1>3, <1>4, <1>5, <1>6, <1>7, <1>8

\* restart goes on when the process it waited for is gone, and then nothing is
\* left.
LEMMA WaitKeeps ==
  ASSUME DaemonInv, OneTool, PatientInv, NEW t \in Tools, Wait(t), unit = "none"
  PROVE  PatientInv'
<1> USE PidsApart DEF DaemonInv, TypeOK, SigInv, OneTool, Wait, Found, NotFound, PatientInv, At,
                      Goto, Done, Idle, agentVars, serviceVars
<1>1. AloneInv'
  BY DEF AloneInv, Serving, Gone
<1>2. FileInv'
  BY DEF FileInv, AloneInv, Serving, Gone
<1>3. CalmInv'
  BY DEF CalmInv, Calm, StoppedInv, Gone
<1>4. ReadInv'
  BY DEF ReadInv, CalmInv, Calm
<1>5. OldInv'
  BY DEF OldInv, CalmInv, Calm
<1>6. StoppedInv'
  BY DEF StoppedInv, Gone
<1>7. SpawnInv'
  BY DEF SpawnInv, Gone
<1>8. StartedInv'
  BY DEF StartedInv, Gone
<1> QED
  BY <1>1, <1>2, <1>3, <1>4, <1>5, <1>6, <1>7, <1>8

\* start goes on when the agent it read of is gone.
LEMMA StartProbeKeeps ==
  ASSUME DaemonInv, OneTool, PatientInv, NEW t \in Tools, StartProbe(t), unit = "none"
  PROVE  PatientInv'
<1> USE PidsApart DEF DaemonInv, TypeOK, SigInv, OneTool, StartProbe, NotFound, PatientInv, At,
                      Goto, Done, Idle, agentVars, serviceVars
<1>1. AloneInv'
  BY DEF AloneInv, Serving, Gone
<1>2. FileInv'
  BY DEF FileInv, AloneInv, Serving, Gone
<1>3. CalmInv'
  BY DEF CalmInv, Calm
<1>4. ReadInv'
  BY DEF ReadInv, CalmInv, Calm
<1>5. OldInv'
  BY DEF OldInv, CalmInv, Calm
<1>6. StoppedInv'
  BY DEF StoppedInv, Gone
<1>7. SpawnInv'
  <2>1. CASE tool' = [tool EXCEPT ![t] = Idle]
    BY <2>1 DEF SpawnInv, Gone
  <2>2. CASE NotFound(tool[t].pid)
    <3>1. \A p \in Pids : proc[p] = "running" => p = tool[t].pid
      BY DEF ReadInv, StartProbe
    <3>2. Calm
      BY DEF CalmInv, StartProbe
    <3>3. \A p \in Pids : proc[p] # "running"
      BY <2>2, <3>1 DEF NotFound, Found
    <3>4. \A p \in Pids : Gone(p)
      BY <3>2, <3>3 DEF Gone, Calm
    <3> QED
      BY <3>4 DEF SpawnInv, Gone
  <2> QED
    BY <2>1, <2>2
<1>8. StartedInv'
  BY DEF StartedInv, Gone
<1> QED
  BY <1>1, <1>2, <1>3, <1>4, <1>5, <1>6, <1>7, <1>8

\* The child is alone.
LEMMA SpawnKeeps ==
  ASSUME DaemonInv, OneTool, PatientInv, NEW t \in Tools, Spawn(t), unit = "none"
  PROVE  PatientInv'
<1> USE PidsApart DEF DaemonInv, TypeOK, SigInv, OneTool, Spawn, PatientInv, At,
                      Goto, Done, Idle, agentVars, serviceVars
<1>1. AloneInv'
  BY DEF AloneInv, Serving, Gone, SpawnInv
<1>2. FileInv'
  BY DEF FileInv, SpawnInv, Gone
<1>3. CalmInv'
  BY DEF CalmInv, Calm
<1>4. ReadInv'
  BY DEF ReadInv, CalmInv, Calm
<1>5. OldInv'
  BY DEF OldInv, CalmInv, Calm
<1>6. StoppedInv'
  BY DEF StoppedInv, Gone
<1>7. SpawnInv'
  BY DEF SpawnInv, Gone
<1>8. StartedInv'
  BY DEF StartedInv, SpawnInv, Gone
<1> QED
  BY <1>1, <1>2, <1>3, <1>4, <1>5, <1>6, <1>7, <1>8

\* The parent writes the child's PID in two steps.
LEMMA TruncatesKeeps ==
  ASSUME DaemonInv, OneTool, PatientInv, NEW t \in Tools, ParentTruncates(t), unit = "none"
  PROVE  PatientInv'
<1> USE PidsApart DEF DaemonInv, TypeOK, SigInv, OneTool, ParentTruncates, PatientInv, At,
                      Goto, Done, Idle, agentVars, serviceVars
<1>1. AloneInv'
  BY DEF AloneInv, Serving, Gone
<1>2. FileInv'
  BY DEF FileInv, AloneInv, Serving, Gone
<1>3. CalmInv'
  BY DEF CalmInv, Calm
<1>4. ReadInv'
  BY DEF ReadInv, CalmInv, Calm
<1>5. OldInv'
  BY DEF OldInv, CalmInv, Calm
<1>6. StoppedInv'
  BY DEF StoppedInv, Gone
<1>7. SpawnInv'
  BY DEF SpawnInv, Gone
<1>8. StartedInv'
  BY DEF StartedInv, Gone
<1> QED
  BY <1>1, <1>2, <1>3, <1>4, <1>5, <1>6, <1>7, <1>8

\* It is the PID of the only agent.
LEMMA WritesKeeps ==
  ASSUME DaemonInv, OneTool, PatientInv, NEW t \in Tools, ParentWrites(t), unit = "none"
  PROVE  PatientInv'
<1> USE PidsApart DEF DaemonInv, TypeOK, SigInv, OneTool, ParentWrites, PatientInv, At,
                      Goto, Done, Idle, agentVars, serviceVars
<1>1. AloneInv'
  BY DEF AloneInv, Serving, Gone
<1>2. FileInv'
  BY DEF FileInv, StartedInv, Gone
<1>3. CalmInv'
  BY DEF CalmInv, Calm
<1>4. ReadInv'
  BY DEF ReadInv, CalmInv, Calm
<1>5. OldInv'
  BY DEF OldInv, CalmInv, Calm
<1>6. StoppedInv'
  BY DEF StoppedInv, Gone
<1>7. SpawnInv'
  BY DEF SpawnInv, Gone
<1>8. StartedInv'
  BY DEF StartedInv, Gone
<1> QED
  BY <1>1, <1>2, <1>3, <1>4, <1>5, <1>6, <1>7, <1>8

\* install is done when the manager has been told.
LEMMA InstallKeeps ==
  ASSUME DaemonInv, OneTool, PatientInv, NEW t \in Tools, Install(t), unit' = "none"
  PROVE  PatientInv'
<1> USE PidsApart DEF DaemonInv, TypeOK, SigInv, OneTool, Install, PatientInv, At,
                      Goto, Done, Idle, agentVars, serviceVars
<1>1. AloneInv'
  BY DEF AloneInv, Serving, Gone
<1>2. FileInv'
  BY DEF FileInv, AloneInv, Serving, Gone
<1>3. CalmInv'
  BY DEF CalmInv, Calm
<1>4. ReadInv'
  BY DEF ReadInv, CalmInv, Calm
<1>5. OldInv'
  BY DEF OldInv, CalmInv, Calm
<1>6. StoppedInv'
  BY DEF StoppedInv, Gone
<1>7. SpawnInv'
  BY DEF SpawnInv, Gone
<1>8. StartedInv'
  BY DEF StartedInv, Gone
<1> QED
  BY <1>1, <1>2, <1>3, <1>4, <1>5, <1>6, <1>7, <1>8

\* restart reads the file while nothing starts or stops.
LEMMA RestartReadKeeps ==
  ASSUME DaemonInv, OneTool, PatientInv, NEW t \in Tools, unit = "none",
         tool' = [tool EXCEPT ![t] = [tool[t] EXCEPT !.step = "restartProbe", !.old = file]],
         At(t, "restartRead"), UNCHANGED <<agentVars, serviceVars>>
  PROVE  PatientInv'
<1> USE PidsApart DEF DaemonInv, TypeOK, SigInv, OneTool, PatientInv, At,
                      Goto, Done, Idle, agentVars, serviceVars
<1>1. AloneInv'
  BY DEF AloneInv, Serving, Gone
<1>2. FileInv'
  BY DEF FileInv, AloneInv, Serving, Gone
<1>3. CalmInv'
  BY DEF CalmInv, Calm
<1>4. ReadInv'
  BY DEF ReadInv, CalmInv, Calm, FileInv
<1>5. OldInv'
  BY DEF OldInv, CalmInv, Calm
<1>6. StoppedInv'
  BY DEF StoppedInv, Gone
<1>7. SpawnInv'
  BY DEF SpawnInv, Gone
<1>8. StartedInv'
  BY DEF StartedInv, Gone
<1> QED
  BY <1>1, <1>2, <1>3, <1>4, <1>5, <1>6, <1>7, <1>8

\* stop reads it too.
LEMMA StopReadKeeps ==
  ASSUME DaemonInv, OneTool, PatientInv, NEW t \in Tools, unit = "none",
         tool' = [tool EXCEPT ![t] = [tool[t] EXCEPT !.step = "stopProbe", !.pid = file]],
         At(t, "stopRead"), UNCHANGED <<agentVars, serviceVars>>
  PROVE  PatientInv'
<1> USE PidsApart DEF DaemonInv, TypeOK, SigInv, OneTool, PatientInv, At,
                      Goto, Done, Idle, agentVars, serviceVars
<1>1. AloneInv'
  BY DEF AloneInv, Serving, Gone
<1>2. FileInv'
  BY DEF FileInv, AloneInv, Serving, Gone
<1>3. CalmInv'
  BY DEF CalmInv, Calm
<1>4. ReadInv'
  BY DEF ReadInv, CalmInv, Calm, FileInv
<1>5. OldInv'
  BY DEF OldInv, CalmInv, Calm
<1>6. StoppedInv'
  BY DEF StoppedInv, Gone
<1>7. SpawnInv'
  BY DEF SpawnInv, Gone
<1>8. StartedInv'
  BY DEF StartedInv, Gone
<1> QED
  BY <1>1, <1>2, <1>3, <1>4, <1>5, <1>6, <1>7, <1>8

\* start reads the PID of the only agent that may run.
LEMMA StartReadKeeps ==
  ASSUME DaemonInv, OneTool, PatientInv, NEW t \in Tools, unit = "none",
         tool' = [tool EXCEPT ![t] = [tool[t] EXCEPT !.step = "startProbe", !.pid = file]],
         At(t, "startRead"), UNCHANGED <<agentVars, serviceVars>>
  PROVE  PatientInv'
<1> USE PidsApart DEF DaemonInv, TypeOK, SigInv, OneTool, PatientInv, At,
                      Goto, Done, Idle, agentVars, serviceVars
<1>1. AloneInv'
  BY DEF AloneInv, Serving, Gone
<1>2. FileInv'
  BY DEF FileInv, AloneInv, Serving, Gone
<1>3. CalmInv'
  BY DEF CalmInv, Calm
<1>4. ReadInv'
  BY DEF ReadInv, CalmInv, Calm, FileInv
<1>5. OldInv'
  BY DEF OldInv, CalmInv, Calm
<1>6. StoppedInv'
  BY DEF StoppedInv, Gone
<1>7. SpawnInv'
  BY DEF SpawnInv, Gone
<1>8. StartedInv'
  BY DEF StartedInv, Gone
<1> QED
  BY <1>1, <1>2, <1>3, <1>4, <1>5, <1>6, <1>7, <1>8

\* A patient operator gives a command when everything has settled: no agent is
\* on its way up or down, and the PID file names the one that runs.
LEMMA BeginKeeps ==
  ASSUME DaemonInv, Patient, PatientInv, NEW t \in Tools, Begin(t)
  PROVE  PatientInv'
<1>1. PICK cmd \in Commands :
        /\ tool' = [tool EXCEPT ![t] = [step |-> FirstStep(cmd), cmd |-> cmd,
                                        pid |-> NoPid, old |-> NoPid]]
        /\ FirstStep(cmd) \in {"startRead", "stopRead", "restartRead", "spawn", "install"}
        /\ FirstStep(cmd) = "spawn" => Serving = {}
  BY Begins
<1>2. Settled /\ UNCHANGED <<agentVars, serviceVars>>
  BY Begins
<1>3. OldInv'
  <2>1. cmd = "restart" => FirstStep(cmd) = "restartRead"
    BY DEF FirstStep
  <2> QED
    BY <1>1, <1>2, <2>1 DEF OldInv, DaemonInv, TypeOK, Settled, At, agentVars
<1> USE PidsApart DEF DaemonInv, TypeOK, PatientInv, At, Settled, agentVars, serviceVars
<1>4. AloneInv'
  BY <1>2 DEF AloneInv, Serving, Gone
<1>5. FileInv'
  BY <1>2 DEF FileInv
<1>6. CalmInv'
  BY <1>1, <1>2 DEF CalmInv, Calm
<1>7. ReadInv'
  BY <1>1, <1>2 DEF ReadInv
<1>8. StoppedInv'
  BY <1>1, <1>2 DEF StoppedInv
<1>9. SpawnInv'
  <2>1. FirstStep(cmd) = "spawn" => \A p \in Pids : Gone(p)
    BY <1>1, <1>2 DEF Serving, Gone
  <2> QED
    BY <1>1, <1>2, <2>1 DEF SpawnInv, Gone
<1>10. StartedInv'
  BY <1>1, <1>2 DEF StartedInv
<1> QED
  BY <1>3, <1>4, <1>5, <1>6, <1>7, <1>8, <1>9, <1>10

\* Every step of a process keeps what the patient operator relies on.
LEMMA ProcessKeeps ==
  ASSUME DaemonInv, Patient, NEW p \in Pids, Process(p), unit' = "none"
  PROVE  PatientInv'
<1>1. PatientInv /\ tool' = tool
  BY ProcessSteps DEF DaemonInv
<1> QED
  BY <1>1, ProcessSteps, EndsKeeps, StartsUpKeeps, WriteKeeps, FailsKeeps, HandlerKeeps

\* A service that is installed stays installed.
LEMMA NoServiceBefore ==
  ASSUME DaemonInv, NEW t \in Tools, Command(t), unit' = "none"
  PROVE  unit = "none"
<1>1. CASE StopKill(t)
  BY <1>1, PidsApart DEF StopKill, Exits, serviceVars
<1>2. CASE Begin(t) \/ RestartRead(t) \/ StopRead(t) \/ StartRead(t)
  BY <1>2 DEF Begin, RestartRead, StopRead, StartRead, serviceVars
<1>3. CASE RestartProbe(t) \/ StopProbe(t) \/ StopRemove(t) \/ Wait(t) \/ StartProbe(t)
  BY <1>3 DEF RestartProbe, StopProbe, StopRemove, Wait, StartProbe, serviceVars
<1>4. CASE Spawn(t) \/ ParentTruncates(t) \/ ParentWrites(t) \/ Install(t)
  BY <1>4 DEF Spawn, ParentTruncates, ParentWrites, Install, serviceVars
<1> QED
  BY <1>1, <1>2, <1>3, <1>4 DEF Command

\* So does every step of a command.
LEMMA CommandKeeps ==
  ASSUME DaemonInv, Patient, NEW t \in Tools, Command(t), unit' = "none"
  PROVE  PatientInv'
<1>1. unit = "none"
  BY NoServiceBefore
<1>2. PatientInv /\ OneTool
  BY <1>1 DEF DaemonInv
<1>3. CASE Begin(t)
  BY <1>2, <1>3, BeginKeeps
<1>4. CASE RestartRead(t) \/ StopRead(t) \/ StartRead(t)
  BY <1>1, <1>2, <1>4, RestartReads, StopReads, StartReads,
     RestartReadKeeps, StopReadKeeps, StartReadKeeps
<1>5. CASE RestartProbe(t) \/ StopProbe(t) \/ StopKill(t) \/ StopRemove(t) \/ Wait(t)
  BY <1>1, <1>2, <1>5, RestartProbeKeeps, StopProbeKeeps, StopKillKeeps,
     StopRemoveKeeps, WaitKeeps
<1>6. CASE StartProbe(t) \/ Spawn(t) \/ ParentTruncates(t) \/ ParentWrites(t) \/ Install(t)
  BY <1>1, <1>2, <1>6, StartProbeKeeps, SpawnKeeps, TruncatesKeeps, WritesKeeps,
     InstallKeeps
<1> QED
  BY <1>3, <1>4, <1>5, <1>6 DEF Command

\* A process catches a signal only after it has asked for it, and forgets it when
\* it ends.
LEMMA SignalsKept ==
  ASSUME DaemonInv, [Next]_vars
  PROVE  SigInv'
<1> USE DEF DaemonInv, TypeOK, SigInv, agentVars, serviceVars
<1>1. ASSUME NEW p \in Pids, Process(p)
      PROVE  SigInv'
  <2>1. CASE Ends(p)
    BY <2>1 DEF Ends
  <2>2. CASE StartsUp(p)
    BY <2>2 DEF StartsUp
  <2>3. CASE WritePID(p) \/ RunFails(p) \/ HandlerRemoves(p)
    BY <2>3 DEF WritePID, RunFails, HandlerRemoves
  <2> QED
    BY <1>1, <2>1, <2>2, <2>3, ProcessSteps
<1>2. ASSUME NEW t \in Tools, Command(t)
      PROVE  SigInv'
  <2>1. CASE StopKill(t)
    BY <2>1 DEF StopKill, Exits, At
  <2>2. CASE Spawn(t)
    BY <2>2 DEF Spawn
  <2>3. CASE Begin(t) \/ RestartRead(t) \/ StopRead(t) \/ StartRead(t)
    BY <2>3 DEF Begin, RestartRead, StopRead, StartRead
  <2>4. CASE RestartProbe(t) \/ StopProbe(t) \/ StopRemove(t) \/ Wait(t) \/ StartProbe(t)
    BY <2>4 DEF RestartProbe, StopProbe, StopRemove, Wait, StartProbe
  <2>5. CASE ParentTruncates(t) \/ ParentWrites(t) \/ Install(t)
    BY <2>5 DEF ParentTruncates, ParentWrites, Install
  <2> QED
    BY <1>2, <2>1, <2>2, <2>3, <2>4, <2>5 DEF Command
<1>3. CASE UnitStarts
  BY <1>3 DEF UnitStarts
<1>4. CASE UNCHANGED vars
  BY <1>4 DEF vars
<1> QED
  BY <1>1, <1>2, <1>3, <1>4 DEF Next

\* What a step of a command does to the commands: it goes on, or it is done.
LEMMA CommandTurns ==
  ASSUME DaemonInv, NEW t \in Tools, Command(t)
  PROVE  /\ \A u \in Tools \ {t} : tool'[u] = tool[u]
         /\ tool'[t] = Idle \/ tool'[t].step # "idle"
         /\ ~At(t, "idle") \/ (Patient => Settled)
<1>1. CASE Begin(t)
  BY <1>1, Begins DEF DaemonInv, TypeOK
<1>2. CASE RestartRead(t)
  BY <1>2, RestartReads, ZenonT(40) DEF DaemonInv, TypeOK, At
<1>3. CASE StopRead(t)
  BY <1>3, StopReads DEF DaemonInv, TypeOK, At
<1>4. CASE StartRead(t)
  BY <1>4, StartReads DEF DaemonInv, TypeOK, At
<1> USE DEF DaemonInv, TypeOK, At, Goto, Done, Idle, agentVars, serviceVars
<1>5. CASE RestartProbe(t) \/ StopProbe(t) \/ StopKill(t)
  BY <1>5 DEF RestartProbe, StopProbe, StopKill
<1>6. CASE StopRemove(t) \/ Wait(t) \/ StartProbe(t)
  BY <1>6 DEF StopRemove, Wait, StartProbe
<1>7. CASE Spawn(t)
  BY <1>7 DEF Spawn
<1>8. CASE ParentTruncates(t) \/ ParentWrites(t) \/ Install(t)
  BY <1>8 DEF ParentTruncates, ParentWrites, Install
<1> QED
  BY <1>1, <1>2, <1>3, <1>4, <1>5, <1>6, <1>7, <1>8 DEF Command

\* A command that is done has left nothing, and a patient operator gives one at a
\* time.
LEMMA TurnsKept ==
  ASSUME DaemonInv, [Next]_vars
  PROVE  IdleInv' /\ (Patient => OneTool')
<1>1. ASSUME NEW t \in Tools, Command(t)
      PROVE  IdleInv' /\ (Patient => OneTool')
  BY <1>1, CommandTurns DEF DaemonInv, IdleInv, OneTool, At, Settled
<1>2. CASE tool' = tool
  BY <1>2 DEF DaemonInv, IdleInv, OneTool, At
<1> QED
  BY <1>1, <1>2, ProcessSteps DEF Next, UnitStarts, vars

\* So it does in every step.
LEMMA UnitBefore ==
  ASSUME DaemonInv, [Next]_vars, unit' = "none"
  PROVE  unit = "none"
BY PidsApart, ProcessSteps, NoServiceBefore DEF Next, UnitStarts, vars, serviceVars

\* Every step of the daemon keeps the invariant.
LEMMA NextDaemon ==
  ASSUME DaemonInv, [Next]_vars
  PROVE  DaemonInv'
<1>1. Patient /\ unit' = "none" => PatientInv'
  <2> SUFFICES ASSUME Patient, unit' = "none"
               PROVE  PatientInv'
    OBVIOUS
  <2>1. CASE UnitStarts
    BY <2>1, PidsApart DEF UnitStarts
  <2>2. CASE UNCHANGED vars
    BY <2>2 DEF vars, agentVars, serviceVars, DaemonInv, PatientInv, AloneInv, FileInv,
                CalmInv, ReadInv, OldInv, StoppedInv, SpawnInv, StartedInv, At, Calm, Gone,
                Serving
  <2> QED
    BY <2>1, <2>2, ProcessKeeps, CommandKeeps DEF Next
<1> QED
  BY <1>1, DaemonTypeOK, SignalsKept, TurnsKept DEF DaemonInv

\* When the power fails every process is gone and no command is left.
LEMMA NothingLeft ==
  ASSUME DaemonInv,
         proc' = [p \in Pids |-> "free"], sig' = [p \in Pids |-> "none"],
         tool' = [t \in Tools |-> Idle], file' \in {file, NoPid},
         unit' \in {"none", "due"}, windows' = windows
  PROVE  DaemonInv'
<1>1. TypeOK'
  BY PidsApart DEF DaemonInv, TypeOK, Idle, Stages, Steps, At
<1>2. SigInv' /\ IdleInv' /\ OneTool'
  BY DEF SigInv, IdleInv, OneTool, Idle, At
<1>3. AloneInv' /\ FileInv'
  BY DEF AloneInv, FileInv, Serving
<1>4. CalmInv' /\ ReadInv' /\ OldInv' /\ StoppedInv' /\ SpawnInv' /\ StartedInv'
  BY DEF Idle, CalmInv, ReadInv, OldInv, StoppedInv, SpawnInv, StartedInv, At
<1> QED
  BY <1>1, <1>2, <1>3, <1>4 DEF DaemonInv, PatientInv

-----------------------------------------------------------------------------
(* What the invariant says of the properties.                              *)

\* At most one agent serves.
LEMMA AloneIsOne ==
  ASSUME AloneInv
  PROVE  Cardinality(Serving) <= 1
<1>1. CASE Serving = {}
  BY <1>1, FS_EmptySet
<1>2. CASE \E q \in Serving : TRUE
  <2>1. PICK q \in Serving : TRUE
    BY <1>2
  <2>2. Serving = {q}
    BY <2>1 DEF AloneInv, Serving, Gone
  <2> QED
    BY <2>2, FS_Singleton
<1> QED
  BY <1>1, <1>2

\* A patient operator never has two agents, and can always stop the one.
LEMMA DaemonPromises ==
  ASSUME DaemonInv, Patient
  PROVE  OneAgent /\ StopWorks
BY AloneIsOne DEF DaemonInv, PatientInv, FileInv, OneAgent, StopWorks, At

-----------------------------------------------------------------------------
(* How an agent comes to serve.                                            *)

\* What a step of a command does to the processes: it spawns one, it signals one,
\* or nothing.
LEMMA CommandActs ==
  ASSUME DaemonInv, NEW t \in Tools, Command(t)
  PROVE  \/ proc' = proc /\ sig' = sig
         \/ \E p \in Pids : /\ proc[p] = "free"
                            /\ proc' = [proc EXCEPT ![p] = "booting"] /\ sig' = sig
         \/ \E p \in Pids : Ends(p) \/ (proc' = proc /\ sig' = [sig EXCEPT ![p] = "caught"])
<1> USE DEF agentVars, serviceVars
<1>1. CASE StopKill(t)
  <2>1. tool[t].pid \in Pids
    BY <1>1 DEF DaemonInv, TypeOK, StopKill, At
  <2> DEFINE p == tool[t].pid
  <2>2. \/ proc' = proc /\ sig' = sig
        \/ Exits(p) /\ file' = file
        \/ proc' = proc /\ sig' = [sig EXCEPT ![p] = IF @ = "none" THEN "caught" ELSE @]
    BY <1>1 DEF StopKill
  <2>3. CASE Exits(p) /\ file' = file
    BY <2>1, <2>3 DEF DaemonInv, TypeOK, Exits, Ends
  <2>4. CASE proc' = proc /\ sig' = [sig EXCEPT ![p] = IF @ = "none" THEN "caught" ELSE @]
    <3>1. CASE sig[p] = "none"
      BY <2>1, <2>4, <3>1
    <3>2. CASE sig[p] # "none"
      <4>1. sig' = sig
        BY <2>1, <2>4, <3>2 DEF DaemonInv, TypeOK
      <4> QED
        BY <2>4, <4>1
    <3> QED
      BY <3>1, <3>2
  <2> QED
    BY <2>2, <2>3, <2>4
<1>2. CASE Spawn(t)
  BY <1>2 DEF Spawn
<1>3. CASE Begin(t) \/ RestartRead(t) \/ StopRead(t) \/ StartRead(t)
  BY <1>3 DEF Begin, RestartRead, StopRead, StartRead
<1>4. CASE RestartProbe(t) \/ StopProbe(t) \/ StopRemove(t) \/ Wait(t) \/ StartProbe(t)
  BY <1>4 DEF RestartProbe, StopProbe, StopRemove, Wait, StartProbe
<1>5. CASE ParentTruncates(t) \/ ParentWrites(t) \/ Install(t)
  BY <1>5 DEF ParentTruncates, ParentWrites, Install
<1> QED
  BY <1>1, <1>2, <1>3, <1>4, <1>5 DEF Command

\* An agent begins as a process that boots, and one that serves has served since.
LEMMA ServingKept ==
  ASSUME DaemonInv, [Next]_vars, NEW q \in Pids
  PROVE  /\ proc[q] \in {"free", "other"} /\ proc'[q] \notin {"free", "other"}
              => proc[q] = "free" /\ proc'[q] = "booting"
         /\ q \in Serving' /\ proc[q] \notin {"free", "other"} => q \in Serving
<1> DEFINE Kept ==
      /\ proc[q] \in {"free", "other"} /\ proc'[q] \notin {"free", "other"}
           => proc[q] = "free" /\ proc'[q] = "booting"
      /\ q \in Serving' /\ proc[q] \notin {"free", "other"} => q \in Serving
<1> USE DEF DaemonInv, TypeOK, SigInv, Serving
<1>1. CASE proc' = proc /\ sig' = sig
  BY <1>1
<1>2. ASSUME NEW p \in Pids, Ends(p)
      PROVE  Kept
  BY <1>2 DEF Ends
<1>3. ASSUME NEW p \in Pids, StartsUp(p) \/ WritePID(p) \/ RunFails(p) \/ HandlerRemoves(p)
      PROVE  Kept
  BY <1>3 DEF StartsUp, WritePID, RunFails, HandlerRemoves
<1>4. ASSUME NEW p \in Pids, proc' = proc, sig' = [sig EXCEPT ![p] = "caught"]
      PROVE  Kept
  BY <1>4
<1>5. ASSUME NEW p \in Pids, proc[p] = "free", proc' = [proc EXCEPT ![p] = "booting"],
             sig' = sig
      PROVE  Kept
  BY <1>5
<1>6. CASE UnitStarts
  BY <1>5, <1>6 DEF UnitStarts
<1>7. CASE \E p \in Pids : Process(p)
  BY <1>2, <1>3, <1>7, ProcessSteps
<1>8. CASE \E t \in Tools : Command(t)
  BY <1>1, <1>2, <1>4, <1>5, <1>8, CommandActs
<1> QED
  BY <1>1, <1>6, <1>7, <1>8 DEF Next, vars, agentVars

\* The PID file is written by the command that has just spawned the agent.
LEMMA SpawnedBefore ==
  ASSUME DaemonInv, [Next]_vars, NEW t \in Tools,
         tool'[t].step \in {"truncate", "write"}
  PROVE  tool[t].step \in {"spawn", "truncate", "write"}
<1>1. CASE tool' = tool
  BY <1>1
<1>2. ASSUME NEW u \in Tools, Command(u), u # t
      PROVE  tool[t].step \in {"spawn", "truncate", "write"}
  BY <1>2, CommandTurns
<1>3. CASE Command(t)
  <2>1. CASE Begin(t)
    BY <2>1, Begins DEF DaemonInv, TypeOK
  <2>2. CASE RestartRead(t)
    <3>1. tool' = [tool EXCEPT ![t] = [tool[t] EXCEPT !.step = "restartProbe", !.old = file]]
      BY <2>2, RestartReads
    <3> QED
      BY <3>1 DEF DaemonInv, TypeOK
  <2>3. CASE StopRead(t)
    <3>1. tool' = [tool EXCEPT ![t] = [tool[t] EXCEPT !.step = "stopProbe", !.pid = file]]
      BY <2>3, StopReads
    <3> QED
      BY <3>1 DEF DaemonInv, TypeOK
  <2>4. CASE StartRead(t)
    <3>1. tool' = [tool EXCEPT ![t] = [tool[t] EXCEPT !.step = "startProbe", !.pid = file]]
      BY <2>4, StartReads
    <3> QED
      BY <3>1 DEF DaemonInv, TypeOK
  <2> USE DEF DaemonInv, TypeOK, At, Goto, Done, Idle
  <2>5. CASE RestartProbe(t) \/ StopProbe(t) \/ StopKill(t)
    BY <2>5 DEF RestartProbe, StopProbe, StopKill
  <2>6. CASE StopRemove(t) \/ Wait(t) \/ StartProbe(t)
    BY <2>6 DEF StopRemove, Wait, StartProbe
  <2>7. CASE Spawn(t) \/ ParentTruncates(t) \/ ParentWrites(t) \/ Install(t)
    BY <2>7 DEF Spawn, ParentTruncates, ParentWrites, Install
  <2> QED
    BY <1>3, <2>1, <2>2, <2>3, <2>4, <2>5, <2>6, <2>7 DEF Command
<1> QED
  BY <1>1, <1>2, <1>3, ProcessSteps DEF Next, UnitStarts, vars

-----------------------------------------------------------------------------
(* The host: the inductive invariant.                                      *)

Contents == Releases \cup {Torn, NoFile}

FileStates == [bin : Contents, runs : BOOLEAN]

FilesOK == exe \in FileStates /\ safe \in FileStates /\ tmp \in FileStates

UpdateOK ==
  upd \in [step : {"idle", "asking", "creating", "extracting", "chmod", "renaming",
                   "removing"},
           from : Releases \cup {NoFile}, tag : Releases \cup {NoFile}]

\* An update downloads a release, and renames what it knows to be whole.
TmpInv ==
  /\ upd.step \in {"creating", "extracting"} => upd.tag \in Releases
  /\ upd.step = "chmod" /\ ~mishap => tmp.bin \in Releases
  /\ upd.step = "renaming" /\ ~mishap => Upd!Executable(tmp)

\* One command at a time, and an update is one.
BusyInv == Patient => upd = Upd!Idle \/ \A t \in Tools : At(t, "idle")

\* While start or restart still writes the PID file, the agent it started runs
\* what the executable is.
VerInv == Patient /\ unit = "none" =>
  \A t \in Tools : tool[t].step \in {"truncate", "write"} =>
    \A p \in Serving : ver[p] = exe.bin

HostInv == /\ HostTypeOK /\ FilesOK /\ UpdateOK /\ TmpInv /\ ExecutableRuns
           /\ DaemonInv /\ BusyInv /\ VerInv

\* A fresh machine: a released executable, no update and no agent.
LEMMA InitHost == HostInit => HostInv
<1> SUFFICES ASSUME HostInit
             PROVE  HostInv
  OBVIOUS
<1>1. DaemonInv
  BY InitDaemon DEF HostInit
<1>2. PICK v \in Releases : exe = [bin |-> v, runs |-> TRUE]
  BY DEF HostInit, Upd!Init, Upd!File
<1>3. /\ safe = exe /\ latest = v /\ tmp = [bin |-> NoFile, runs |-> FALSE]
      /\ mishap = FALSE /\ upd = [step |-> "idle", from |-> NoFile, tag |-> NoFile]
  BY <1>2 DEF HostInit, Upd!Init, Upd!Absent, Upd!File, Upd!Idle
<1>4. FilesOK /\ UpdateOK /\ TmpInv /\ ExecutableRuns
  BY <1>2, <1>3 DEF FilesOK, FileStates, Contents, UpdateOK, TmpInv, ExecutableRuns, Upd!Executable
<1>5. HostTypeOK
  BY <1>1, <1>2, <1>3 DEF DaemonInv, HostTypeOK, HostInit
<1>6. BusyInv
  BY <1>3 DEF BusyInv, Upd!Idle
<1>7. VerInv
  BY DEF VerInv, HostInit, Init, Idle
<1> QED
  BY <1>1, <1>4, <1>5, <1>6, <1>7 DEF HostInv

-----------------------------------------------------------------------------
(* The files and the update.                                               *)

\* A file is absent, or a release or a torn one in one of its modes.
LEMMA FilesAre ==
  /\ Upd!Absent \in FileStates
  /\ \A c \in Releases \cup {Torn} : Upd!File(c, FALSE) \in FileStates
BY DEF Upd!Absent, Upd!File, FileStates, Contents

\* Every step of an update leaves files that are whole or torn.
LEMMA CommandKeepsTypes ==
  ASSUME FilesOK, Upd!Command, upd.step = "extracting" => upd.tag \in Releases
  PROVE  FilesOK'
<1> USE DEF FilesOK, Upd!fileVars
<1>1. CASE Upd!Begin \/ Upd!FetchLatest \/ Upd!FetchEnds
  BY <1>1 DEF Upd!Begin, Upd!FetchLatest, Upd!FetchEnds, Upd!Ends
<1>2. CASE Upd!CreateTemp \/ Upd!Extract
  BY <1>2, FilesAre DEF Upd!CreateTemp, Upd!Extract, Upd!At
<1>3. CASE Upd!Chmod
  BY <1>3 DEF Upd!Chmod, FileStates
<1>4. CASE Upd!Rename
  BY <1>4, FilesAre DEF Upd!Rename
<1>5. CASE Upd!Remove \/ Upd!Interrupt
  BY <1>5, FilesAre DEF Upd!Remove, Upd!Interrupt
<1> QED
  BY <1>1, <1>2, <1>3, <1>4, <1>5 DEF Upd!Command

\* Every step of an update keeps its types, and the executable whole unless a
\* write was lost.
LEMMA CommandKeepsWhole ==
  ASSUME HostInv, Upd!Command
  PROVE  UpdateOK' /\ TmpInv' /\ ExecutableRuns' /\ latest' \in Releases
<1> USE DEF HostInv, HostTypeOK, FilesOK, FileStates, Contents, UpdateOK, TmpInv, ExecutableRuns,
            Upd!Executable, Upd!At, Upd!Goto, Upd!File, Upd!Absent, Upd!Idle, Upd!fileVars
<1>1. CASE Upd!Begin
  BY <1>1 DEF Upd!Begin
<1>2. CASE Upd!FetchLatest
  BY <1>2 DEF Upd!FetchLatest
<1>3. CASE Upd!FetchEnds
  BY <1>3 DEF Upd!FetchEnds, Upd!Ends
<1>4. CASE Upd!CreateTemp
  BY <1>4 DEF Upd!CreateTemp
<1>5. CASE Upd!Extract
  <2>1. TmpInv'
    BY <1>5 DEF Upd!Extract
  <2>2. UpdateOK' /\ ExecutableRuns' /\ latest' \in Releases
    BY <1>5 DEF Upd!Extract
  <2> QED
    BY <2>1, <2>2
<1>6. CASE Upd!Chmod
  BY <1>6 DEF Upd!Chmod
<1>7. CASE Upd!Rename
  <2>1. TmpInv'
    BY <1>7 DEF Upd!Rename
  <2>2. UpdateOK' /\ ExecutableRuns' /\ latest' \in Releases
    BY <1>7 DEF Upd!Rename
  <2> QED
    BY <2>1, <2>2
<1>8. CASE Upd!Remove \/ Upd!Interrupt
  <2>1. TmpInv'
    BY <1>8 DEF Upd!Remove, Upd!Interrupt
  <2>2. UpdateOK' /\ ExecutableRuns' /\ latest' \in Releases
    BY <1>8 DEF Upd!Remove, Upd!Interrupt
  <2> QED
    BY <2>1, <2>2
<1> QED
  BY <1>1, <1>2, <1>3, <1>4, <1>5, <1>6, <1>7, <1>8 DEF Upd!Command

\* When the power fails, what was written back is there again, or what was not is
\* torn; without a mishap the executable is what it was.
LEMMA PowerFailureKeepsFiles ==
  ASSUME HostInv, Upd!PowerFailure
  PROVE  FilesOK' /\ UpdateOK' /\ TmpInv' /\ ExecutableRuns' /\ latest' \in Releases
<1> USE DEF HostInv, HostTypeOK, Upd!PowerFailure
<1>1. FilesOK'
  <2>1. Upd!File(Torn, TRUE) \in FileStates
    BY DEF Upd!File, FileStates, Contents
  <2>2. exe' \in {safe, exe, Upd!File(Torn, TRUE)} /\ safe' = exe' /\ tmp' = Upd!Absent
    OBVIOUS
  <2> QED
    BY <2>1, <2>2, FilesAre DEF FilesOK
<1>2. UpdateOK' /\ TmpInv'
  BY DEF UpdateOK, TmpInv, Upd!Idle
<1>3. ExecutableRuns'
  BY DEF ExecutableRuns
<1> QED
  BY <1>1, <1>2, <1>3

\* Publishing a release and writing a file back change no file's content.
LEMMA WorldKeepsFiles ==
  ASSUME HostInv, Upd!World
  PROVE  FilesOK' /\ UpdateOK' /\ TmpInv' /\ ExecutableRuns' /\ latest' \in Releases
<1> USE DEF HostInv, HostTypeOK, FilesOK, UpdateOK, TmpInv, ExecutableRuns, Upd!Executable,
            Upd!fileVars
<1>1. CASE Upd!Publish
  BY <1>1 DEF Upd!Publish
<1>2. CASE Upd!WriteBack
  BY <1>2 DEF Upd!WriteBack
<1> QED
  BY <1>1, <1>2 DEF Upd!World

\* The update's part of the invariant, over all steps.
LEMMA FilesKept ==
  ASSUME HostInv, [HostNext]_hostVars
  PROVE  FilesOK' /\ UpdateOK' /\ TmpInv' /\ ExecutableRuns' /\ latest' \in Releases
<1>1. CASE UpdateStep
  <2>1. FilesOK'
    BY <1>1, CommandKeepsTypes DEF UpdateStep, HostInv, TmpInv
  <2> QED
    BY <1>1, <2>1, CommandKeepsWhole DEF UpdateStep
<1>2. CASE WorldStep \/ PowerFailure
  BY <1>2, WorldKeepsFiles, PowerFailureKeepsFiles DEF WorldStep, PowerFailure
<1>3. CASE DaemonStep \/ UNCHANGED hostVars
  BY <1>3 DEF DaemonStep, hostVars, updateVars, HostInv, HostTypeOK, FilesOK, UpdateOK,
              TmpInv, ExecutableRuns, Upd!Executable
<1> QED
  BY <1>1, <1>2, <1>3 DEF HostNext

-----------------------------------------------------------------------------
(* The daemon beside the update.                                           *)

\* The daemon's invariant is kept by what an update, the world and a power failure
\* leave alone or start anew.
LEMMA DaemonKept ==
  ASSUME HostInv, [HostNext]_hostVars
  PROVE  DaemonInv'
<1>1. CASE DaemonStep
  BY <1>1, NextDaemon DEF DaemonStep, HostInv
<1>2. CASE UpdateStep \/ WorldStep \/ UNCHANGED hostVars
  <2>1. windows' = windows
    BY <1>2 DEF UpdateStep, WorldStep, hostVars, vars, serviceVars, Upd!Command, Upd!World,
      Upd!Begin, Upd!FetchLatest, Upd!FetchEnds, Upd!Ends, Upd!CreateTemp, Upd!Extract,
      Upd!Chmod, Upd!Rename, Upd!Remove, Upd!Interrupt, Upd!Publish, Upd!WriteBack
  <2>2. UNCHANGED vars
    BY <1>2, <2>1 DEF UpdateStep, WorldStep, daemonVars, hostVars, vars, agentVars,
      serviceVars
  <2> QED
    BY <2>2, NextDaemon DEF HostInv
<1>3. CASE PowerFailure
  <2>1. unit' \in {"none", "due"} /\ windows' = windows
    BY <1>3 DEF PowerFailure, Upd!PowerFailure
  <2> QED
    BY <1>3, <2>1, NothingLeft DEF PowerFailure, HostInv
<1> QED
  BY <1>1, <1>2, <1>3 DEF HostNext

\* Every process runs a release, or none.
LEMMA VersionsOK ==
  ASSUME HostInv, [HostNext]_hostVars
  PROVE  ver' \in [Pids -> Releases \cup {NoFile}]
<1> USE DEF HostInv, HostTypeOK
<1>1. CASE DaemonStep
  <2>1. ASSUME NEW p \in Pids
        PROVE  (IF proc'[p] \in {"free", "other"} THEN NoFile
                ELSE IF proc[p] \in {"free", "other"} THEN exe.bin ELSE ver[p])
                 \in Releases \cup {NoFile}
    <3>1. CASE proc'[p] \in {"free", "other"} \/ proc[p] \notin {"free", "other"}
      BY <3>1
    <3>2. CASE proc'[p] \notin {"free", "other"} /\ proc[p] \in {"free", "other"}
      <4>1. Starts
        BY <1>1, <3>2, ServingKept DEF DaemonStep, Starts
      <4>2. exe.bin \in Releases
        BY <1>1, <4>1 DEF DaemonStep, Upd!Executable
      <4> QED
        BY <3>2, <4>2
    <3> QED
      BY <3>1, <3>2
  <2> QED
    BY <1>1, <2>1 DEF DaemonStep, Runs
<1>2. CASE UpdateStep \/ WorldStep \/ UNCHANGED hostVars
  BY <1>2 DEF UpdateStep, WorldStep, hostVars
<1>3. CASE PowerFailure
  BY <1>3 DEF PowerFailure
<1> QED
  BY <1>1, <1>2, <1>3 DEF HostNext

\* Every step keeps the types.
LEMMA HostTypeKept ==
  ASSUME HostInv, [HostNext]_hostVars
  PROVE  HostTypeOK'
<1>1. mishap' \in BOOLEAN
  <2> USE DEF HostInv, HostTypeOK
  <2>1. CASE UpdateStep
    BY <2>1 DEF UpdateStep, Upd!Command, Upd!Begin, Upd!FetchLatest, Upd!FetchEnds,
      Upd!Ends, Upd!CreateTemp, Upd!Extract, Upd!Chmod, Upd!Rename, Upd!Remove,
      Upd!Interrupt, Upd!fileVars
  <2>2. CASE WorldStep
    BY <2>2 DEF WorldStep, Upd!World, Upd!Publish, Upd!WriteBack, Upd!fileVars
  <2>3. CASE PowerFailure
    BY <2>3 DEF PowerFailure, Upd!PowerFailure
  <2>4. CASE DaemonStep \/ UNCHANGED hostVars
    BY <2>4 DEF DaemonStep, hostVars, updateVars
  <2> QED
    BY <2>1, <2>2, <2>3, <2>4 DEF HostNext
<1>2. {exe'.bin, safe'.bin, tmp'.bin} \subseteq Releases \cup {Torn, NoFile}
  BY FilesKept DEF FilesOK, FileStates, Contents
<1> QED
  BY <1>1, <1>2, FilesKept, DaemonKept, VersionsOK DEF HostTypeOK, DaemonInv

\* A patient operator who types a command finds no update in progress, and the
\* other way round.
LEMMA BusyKept ==
  ASSUME HostInv, [HostNext]_hostVars
  PROVE  BusyInv'
<1> SUFFICES ASSUME Patient
             PROVE  BusyInv'
  BY DEF BusyInv
<1>1. CASE DaemonStep
  <2>1. upd' = upd
    BY <1>1 DEF DaemonStep, updateVars
  <2>2. CASE upd = Upd!Idle
    BY <2>1, <2>2 DEF BusyInv, Upd!Idle
  <2>3. CASE upd # Upd!Idle
    <3>1. \A t \in Tools : tool[t] = Idle
      BY <2>3 DEF HostInv, BusyInv, DaemonInv, IdleInv
    <3>2. \A t \in Tools : tool'[t] = Idle
      BY <1>1, <2>3, <3>1 DEF DaemonStep, Types
    <3> QED
      BY <3>2 DEF BusyInv, At, Idle
  <2> QED
    BY <2>2, <2>3
<1>2. CASE UpdateStep
  BY <1>2 DEF UpdateStep, HostInv, BusyInv, Settled, daemonVars, At
<1>3. CASE WorldStep \/ UNCHANGED hostVars
  BY <1>3 DEF WorldStep, Upd!World, Upd!Publish, Upd!WriteBack, daemonVars, hostVars,
    updateVars, vars, HostInv, BusyInv, At, Upd!Idle
<1>4. CASE PowerFailure
  BY <1>4 DEF PowerFailure, BusyInv, At, Idle
<1> QED
  BY <1>1, <1>2, <1>3, <1>4 DEF HostNext

\* The agent that was spawned runs the executable, which no update replaces
\* before the command is done.
LEMMA VerKept ==
  ASSUME HostInv, [HostNext]_hostVars
  PROVE  VerInv'
<1> SUFFICES ASSUME Patient, unit' = "none", NEW t \in Tools,
                    tool'[t].step \in {"truncate", "write"}, NEW p \in Serving'
             PROVE  ver'[p] = exe'.bin
  BY DEF VerInv, Serving
<1>p. p \in Pids
  BY DEF Serving
<1>1. CASE DaemonStep
  <2>1. exe' = exe
    BY <1>1 DEF DaemonStep, updateVars
  <2>2. [Next]_vars /\ Runs
    BY <1>1 DEF DaemonStep
  <2>3. proc'[p] \notin {"free", "other"}
    BY DEF Serving
  <2>4. CASE proc[p] \in {"free", "other"}
    BY <1>p, <2>1, <2>2, <2>3, <2>4 DEF Runs
  <2>5. CASE proc[p] \notin {"free", "other"}
    <3>1. ver'[p] = ver[p]
      BY <1>p, <2>2, <2>3, <2>5 DEF Runs
    <3>2. p \in Serving
      BY <1>p, <2>2, <2>5, ServingKept DEF HostInv
    <3>3. unit = "none"
      BY <1>1, UnitBefore DEF DaemonStep, HostInv
    <3>4. tool[t].step \in {"spawn", "truncate", "write"}
      BY <2>2, SpawnedBefore DEF HostInv
    <3>5. tool[t].step # "spawn"
      BY <3>2, <3>3 DEF HostInv, DaemonInv, PatientInv, SpawnInv, At, Gone, Serving
    <3> QED
      BY <2>1, <3>1, <3>2, <3>3, <3>4, <3>5 DEF HostInv, VerInv
  <2> QED
    BY <2>4, <2>5
<1>2. CASE UpdateStep
  <2>1. tool' = tool
    BY <1>2 DEF UpdateStep, daemonVars
  <2>2. ~At(t, "idle")
    BY <2>1 DEF At
  <2> QED
    BY <1>2, <2>2 DEF UpdateStep, HostInv, BusyInv, Settled
<1>3. CASE WorldStep
  BY <1>3 DEF WorldStep, Upd!World, Upd!Publish, Upd!WriteBack, Upd!fileVars, daemonVars,
    HostInv, VerInv, Serving
<1>4. CASE PowerFailure
  BY <1>4 DEF PowerFailure, Idle
<1>5. CASE UNCHANGED hostVars
  BY <1>5 DEF hostVars, vars, agentVars, serviceVars, updateVars, HostInv, VerInv, Serving
<1> QED
  BY <1>1, <1>2, <1>3, <1>4, <1>5 DEF HostNext

-----------------------------------------------------------------------------
(* The theorems.                                                           *)

\* The executable, the update, the agents, the commands and the PID file are tied
\* together in every state of the machine (daemon.go, update.go, main.go:89-205).
THEOREM HostInvariant == HostSpec => []HostInv
<1>1. HostInv /\ [HostNext]_hostVars => HostInv'
  BY FilesKept, DaemonKept, HostTypeKept, BusyKept, VerKept DEF HostInv
<1> QED
  BY InitHost, <1>1, PTL DEF HostSpec

\* Every process, command, file and update is in one of its states.
THEOREM HostTypeCorrect == HostSpec => []HostTypeOK
BY HostInvariant, PTL DEF HostInv

\* An update that fails or is interrupted anywhere leaves an executable of one
\* release, unless a write was lost, for any releases (update.go:90-132).
THEOREM ExecutableRunsHolds == HostSpec => []ExecutableRuns
BY HostInvariant, PTL DEF HostInv

\* With a patient operator and no service at most one agent serves, for any
\* number of process ids and of terminals (main.go:119-145).
THEOREM OneAgentHolds ==
  ASSUME Patient
  PROVE  HostSpec => []OneAgent
<1>1. HostInv => OneAgent
  BY DaemonPromises DEF HostInv
<1> QED
  BY HostInvariant, <1>1, PTL

\* With a patient operator and no service the PID file names the agent that runs
\* whenever no command is in progress (main.go:187).
THEOREM StopWorksHolds ==
  ASSUME Patient
  PROVE  HostSpec => []StopWorks
<1>1. HostInv => StopWorks
  BY DaemonPromises DEF HostInv
<1> QED
  BY HostInvariant, <1>1, PTL

\* With a patient operator and no service, when restart has started an agent no
\* agent serves with another binary than the executable (README.md:79-80).
THEOREM RestartPicksUpHolds ==
  ASSUME Patient
  PROVE  HostSpec => RestartPicksUp
<1>1. HostInv =>
        [\A t \in Tools : Restarted(t) /\ unit = "none" =>
           \A p \in Serving : ver[p] = exe.bin]_hostVars
  BY DEF HostInv, VerInv, Restarted, At
<1> QED
  BY HostInvariant, <1>1, PTL DEF HostSpec, RestartPicksUp
=============================================================================
