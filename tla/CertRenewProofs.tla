-------------------------- MODULE CertRenewProofs --------------------------
(***************************************************************************)
(* One agent process that nobody runs "setup" under replaces agent.crt     *)
(* atomically, whatever fails and whenever the power does: CertRenew       *)
(* implements CertFile.  Any number of agents install nothing unverified.  *)
(***************************************************************************)
EXTENDS CertRenew, TLAPS

OneAgent == \A a, b \in Agents : a = b
NoSetup == SetupIdents = {}

Quiet == /\ setup.step \in {"idle", "aborted"}
         /\ setup.left = {}
         /\ setup.fd = NoInode
         /\ key = FirstCert.key
         /\ diskKey = FirstCert.key

\* agent.crt and the temporary file are different files, also to somebody who
\* finds the directory as it was last written back.
Apart == /\ dir["tmp"] # dir["crt"]
         /\ dir["tmp"] # diskDir["crt"]
         /\ diskDir["tmp"] # diskDir["crt"]

\* What agent.crt refers to, now or after a power failure, is a whole
\* certificate that has been written back and pairs with the key.
Sound(c) == c \in Certs /\ c.key = FirstCert.key

Stored == /\ Sound(Crt) /\ diskData[dir["crt"]] = Crt
          /\ Sound(diskData[diskDir["crt"]])
          /\ data[diskDir["crt"]] = diskData[diskDir["crt"]]

\* An agent that has validated an offer installs it over the certificate it
\* validated it against, and has it stored by the time it renames.
Installing(a) ==
  /\ pc[a] = "validating" => current[a] = Crt
  /\ pc[a] \in {"opening", "writing", "syncing", "renaming"} =>
       /\ offer[a] \in Offers
       /\ Renews(offer[a], Crt, FirstCert.key)
       /\ offer[a] # Crt
  /\ pc[a] \in {"writing", "syncing"} => fd[a] = dir["tmp"]
  /\ pc[a] \in {"writing", "syncing", "renaming"} => dir["tmp"] \in Inodes
  /\ pc[a] = "syncing" => data[dir["tmp"]] = offer[a]
  /\ pc[a] = "renaming" => /\ data[dir["tmp"]] = offer[a]
                           /\ diskData[dir["tmp"]] = offer[a]

IInv == TypeOK /\ Quiet /\ Apart /\ Stored /\ \A a \in Agents : Installing(a)

-----------------------------------------------------------------------------
(* Types.                                                                  *)

USE CertificateAssumption, RenewAssumption

LEMMA AgentTyped ==
  ASSUME TypeOK, NEW a \in Agents, Agent(a)
  PROVE  TypeOK'
<1> USE DEF dirVars, dataVars, keyVars
<1>0. SetupTyped'
  BY DEF Agent, Start, Dial, Disconnect, Kill, Receive, LoadCurrent, Validate,
     Open, Write, Sync, Rename, RenameFails, Remove, TypeOK, SetupTyped
<1>1. CASE Start(a)
  BY <1>0, <1>1 DEF Start, TypeOK, FilesTyped, AgentsTyped, Steps
<1>2. CASE Dial(a)
  BY <1>0, <1>2 DEF Dial, PairLoads, TypeOK, FilesTyped, AgentsTyped, Steps
<1>3. CASE Disconnect(a)
  BY <1>0, <1>3 DEF Disconnect, TypeOK, FilesTyped, AgentsTyped, Steps
<1>4. CASE Kill(a)
  BY <1>0, <1>4 DEF Kill, TypeOK, FilesTyped, AgentsTyped, Steps
<1>5. CASE Receive(a)
  BY <1>0, <1>5 DEF Receive, TypeOK, FilesTyped, AgentsTyped, Steps
<1>6. CASE LoadCurrent(a)
  BY <1>0, <1>6 DEF LoadCurrent, GiveUp, TypeOK, FilesTyped, AgentsTyped, Steps
<1>7. CASE Validate(a)
  BY <1>0, <1>7 DEF Validate, Acceptable, GiveUp, TypeOK, FilesTyped, AgentsTyped, Steps
<1>8. CASE Open(a)
  BY <1>0, <1>8 DEF Open, GiveUp, TypeOK, FilesTyped, AgentsTyped, Steps, Names, Contents
<1>9. CASE Write(a)
  BY <1>0, <1>9 DEF Write, TypeOK, FilesTyped, AgentsTyped, Steps, Contents
<1>10. CASE Sync(a)
  BY <1>0, <1>10 DEF Sync, TypeOK, FilesTyped, AgentsTyped, Steps, Contents
<1>11. CASE Rename(a)
  BY <1>0, <1>11 DEF Rename, TypeOK, FilesTyped, AgentsTyped, Steps, Names
<1>12. CASE RenameFails(a)
  BY <1>0, <1>12 DEF RenameFails, TypeOK, FilesTyped, AgentsTyped, Steps
<1>13. CASE Remove(a)
  BY <1>0, <1>13 DEF Remove, GiveUp, TypeOK, FilesTyped, AgentsTyped, Steps, Names
<1> QED
  BY <1>1, <1>2, <1>3, <1>4, <1>5, <1>6, <1>7, <1>8, <1>9, <1>10, <1>11,
     <1>12, <1>13 DEF Agent

LEMMA SetupKeepsTypes ==
  ASSUME TypeOK, Setup
  PROVE  TypeOK'
<1> USE DEF dirVars, dataVars, keyVars, agentVars
<1>0. AgentsTyped'
  BY DEF Setup, SetupOpenCert, SetupWriteCert, SetupOpenKey, SetupWriteKey,
     SetupFails, TypeOK, AgentsTyped
<1>1. SetupCert \in Certs
  BY DEF SetupCert, Certs, TypeOK, SetupTyped
<1>2. CASE SetupOpenCert
  BY <1>0, <1>2 DEF SetupOpenCert, TypeOK, FilesTyped, SetupTyped, Names, Contents
<1>3. CASE SetupWriteCert
  BY <1>0, <1>1, <1>3 DEF SetupWriteCert, TypeOK, FilesTyped, SetupTyped, Contents
<1>4. CASE SetupOpenKey
  BY <1>0, <1>4 DEF SetupOpenKey, TypeOK, FilesTyped, SetupTyped
<1>5. CASE SetupWriteKey
  BY <1>0, <1>5 DEF SetupWriteKey, TypeOK, FilesTyped, SetupTyped
<1>6. CASE SetupFails
  BY <1>0, <1>6 DEF SetupFails, TypeOK, FilesTyped, SetupTyped
<1> QED
  BY <1>2, <1>3, <1>4, <1>5, <1>6 DEF Setup

LEMMA StorageTyped ==
  ASSUME TypeOK, Storage
  PROVE  TypeOK'
<1> USE DEF dirVars, dataVars, keyVars, agentVars, TypeOK, FilesTyped
<1>1. CASE WriteBackDir
  BY <1>1 DEF WriteBackDir, AgentsTyped, SetupTyped
<1>2. CASE WriteBackKey
  BY <1>2 DEF WriteBackKey, AgentsTyped, SetupTyped
<1>3. CASE PowerFailure
  <2>1. FilesTyped' /\ AgentsTyped'
    BY <1>3 DEF PowerFailure, AgentsTyped, Steps
  <2>2. setup' = [setup EXCEPT !.step = "aborted", !.fd = NoInode]
    BY <1>3 DEF PowerFailure
  <2>3. SetupTyped'
    BY <2>2 DEF SetupTyped
  <2> QED
    BY <2>1, <2>3
<1>4. ASSUME NEW i \in Inodes, WriteBackData(i)
      PROVE  TypeOK'
  BY <1>4 DEF WriteBackData, AgentsTyped, SetupTyped
<1> QED
  BY <1>1, <1>2, <1>3, <1>4 DEF Storage

LEMMA StepTyped ==
  ASSUME TypeOK, [Next]_vars
  PROVE  TypeOK'
<1>1. CASE UNCHANGED vars
  BY <1>1 DEF vars, dirVars, dataVars, keyVars, agentVars, TypeOK, FilesTyped,
     AgentsTyped, SetupTyped
<1> QED
  BY <1>1, AgentTyped, SetupKeepsTypes, StorageTyped DEF Next

LEMMA InitTyped == Init => TypeOK
<1> SUFFICES ASSUME Init
             PROVE  TypeOK
  OBVIOUS
<1>1. PICK i \in Inodes : /\ dir = [n \in Names |-> IF n = "crt" THEN i ELSE NoInode]
                          /\ data = [j \in Inodes |-> IF j = i THEN FirstCert ELSE Torn]
  BY DEF Init
<1>2. FirstCert.key \in Idents /\ FirstCert.ident \in Idents
  BY DEF Certs
<1> QED
  BY <1>1, <1>2 DEF Init, TypeOK, FilesTyped, AgentsTyped, SetupTyped, Names,
     Contents, Steps

\* Whatever the number of agent processes and of runs of setup, every variable
\* keeps its type.
THEOREM RenewTypeCorrect == Spec => []TypeOK
<1> QED
  BY InitTyped, StepTyped, PTL DEF Spec

-----------------------------------------------------------------------------
(* One agent, no setup.                                                    *)

\* A step of the agent that leaves the files alone.
LEMMA FilesAlone ==
  ASSUME IInv, TypeOK', UNCHANGED <<dirVars, dataVars, keyVars, setup>>,
         \A a \in Agents : Installing(a)'
  PROVE  IInv' /\ UNCHANGED <<Crt, diskData[diskDir["crt"]]>>
BY DEF IInv, Quiet, Apart, Stored, Crt, dirVars, dataVars, keyVars

LEMMA AgentStep ==
  ASSUME OneAgent, IInv, NEW a \in Agents, Agent(a)
  PROVE  IInv' /\ [File!Next]_(File!fileVars)
<1> USE DEF dirVars, dataVars, keyVars
<1>t. TypeOK /\ TypeOK' /\ Installing(a)
  BY AgentTyped DEF IInv
<1>d. /\ DOMAIN pc = Agents /\ DOMAIN fd = Agents /\ DOMAIN offer = Agents
      /\ DOMAIN current = Agents /\ DOMAIN tries = Agents
      /\ DOMAIN dir = Names /\ DOMAIN data = Inodes /\ DOMAIN diskData = Inodes
  BY <1>t DEF TypeOK, AgentsTyped, FilesTyped
<1>n. dir["crt"] \in Inodes /\ diskDir["crt"] \in Inodes
  BY <1>t DEF TypeOK, FilesTyped, Names
<1>o. ASSUME Installing(a)'
      PROVE  \A b \in Agents : Installing(b)'
  BY <1>o DEF OneAgent
<1>1. CASE Start(a) \/ Dial(a) \/ Disconnect(a) \/ Kill(a) \/ Receive(a)
  <2>1. Installing(a)'
    BY <1>1, <1>d DEF Start, Dial, Disconnect, Kill, Receive, Installing
  <2>2. UNCHANGED <<dirVars, dataVars, keyVars, setup>>
    BY <1>1 DEF Start, Dial, Disconnect, Kill, Receive
  <2> QED
    BY <1>t, <1>o, <2>1, <2>2, FilesAlone DEF File!fileVars
<1>2. CASE LoadCurrent(a)
  <2>1. UNCHANGED <<dirVars, dataVars, keyVars, setup>>
    BY <1>2 DEF LoadCurrent
  <2>2. Installing(a)'
    BY <1>2, <1>d, <2>1 DEF LoadCurrent, GiveUp, Installing, Crt
  <2> QED
    BY <1>t, <1>o, <2>1, <2>2, FilesAlone DEF File!fileVars
<1>3. CASE Validate(a)
  <2>1. UNCHANGED <<dirVars, dataVars, keyVars, setup>>
    BY <1>3 DEF Validate
  <2>2. key = FirstCert.key /\ pc[a] = "validating" /\ current[a] = Crt
    BY <1>3, <1>t DEF Validate, IInv, Quiet, Installing
  <2>3. offer[a] \in Certs => offer[a] \in Offers
    BY <1>t DEF TypeOK, AgentsTyped
  <2>4. Installing(a)'
    BY <1>3, <1>d, <2>1, <2>2, <2>3
       DEF Validate, GiveUp, Acceptable, Installing, Crt, Renews
  <2> QED
    BY <1>t, <1>o, <2>1, <2>4, FilesAlone DEF File!fileVars
<1>4. CASE Open(a)
  <2>1. CASE UNCHANGED <<dir, data, fd>> /\ GiveUp(a)
    <3>1. UNCHANGED <<dirVars, dataVars, keyVars, setup>>
      BY <1>4, <2>1 DEF Open
    <3>2. Installing(a)'
      BY <1>d, <2>1 DEF GiveUp, Installing
    <3> QED
      BY <1>t, <1>o, <3>1, <3>2, FilesAlone DEF File!fileVars
  <2>2. CASE ~(UNCHANGED <<dir, data, fd>> /\ GiveUp(a))
    <3> DEFINE t == fd'[a]
    <3>1. /\ t \in Inodes /\ t # dir["crt"] /\ t # diskDir["crt"]
          /\ dir' = [dir EXCEPT !["tmp"] = t]
          /\ data' = [data EXCEPT ![t] = Torn]
          /\ pc[a] = "opening" /\ pc' = [pc EXCEPT ![a] = "writing"]
          /\ UNCHANGED <<offer, current, diskDir, diskData, keyVars, setup>>
      BY <1>4, <1>t, <1>d, <2>2 DEF Open, Free, IInv, Apart, TypeOK, FilesTyped, Names
    <3>2. /\ dir'["tmp"] = t /\ dir'["crt"] = dir["crt"]
          /\ Crt' = Crt /\ data'[diskDir["crt"]] = data[diskDir["crt"]]
          /\ pc'[a] = "writing"
      BY <1>d, <1>n, <3>1 DEF Crt, Names
    <3>3. Installing(a)'
      BY <1>t, <3>1, <3>2 DEF Installing
    <3>4. Quiet' /\ Apart' /\ Stored'
      BY <3>1, <3>2 DEF IInv, Quiet, Apart, Stored
    <3>5. UNCHANGED File!fileVars
      BY <3>1, <3>2 DEF File!fileVars
    <3> QED
      BY <1>t, <1>o, <3>3, <3>4, <3>5 DEF IInv
  <2> QED
    BY <2>1, <2>2
<1>5. CASE Write(a)
  <2>1. fd[a] = dir["tmp"] /\ dir["tmp"] \in Inodes /\ pc[a] = "writing"
    BY <1>5, <1>t DEF Write, Installing
  <2>2. /\ Crt' = Crt /\ data'[diskDir["crt"]] = data[diskDir["crt"]]
        /\ UNCHANGED <<dirVars, diskData, keyVars, offer, current, setup>>
    BY <1>5, <1>d, <1>n, <2>1 DEF Write, IInv, Apart, Crt
  <2>3. Installing(a)'
    BY <1>5, <1>t, <1>d, <2>1, <2>2 DEF Write, Installing
  <2>4. Quiet' /\ Apart' /\ Stored' /\ UNCHANGED File!fileVars
    BY <2>2 DEF IInv, Quiet, Apart, Stored, File!fileVars
  <2> QED
    BY <1>t, <1>o, <2>3, <2>4 DEF IInv
<1>6. CASE Sync(a)
  <2>1. fd[a] = dir["tmp"] /\ dir["tmp"] \in Inodes /\ pc[a] = "syncing"
    BY <1>6, <1>t DEF Sync, Installing
  <2>2. /\ \A i \in Inodes : i # dir["tmp"] => diskData'[i] = diskData[i]
        /\ UNCHANGED <<dirVars, data, keyVars, offer, current, setup, Crt>>
    BY <1>6, <1>d, <2>1 DEF Sync, Crt
  <2>3. Installing(a)'
    BY <1>6, <1>t, <1>d, <2>1, <2>2 DEF Sync, Installing
  <2>4. Quiet' /\ Apart' /\ Stored' /\ UNCHANGED File!fileVars
    BY <1>n, <2>2 DEF IInv, Quiet, Apart, Stored, File!fileVars
  <2> QED
    BY <1>t, <1>o, <2>3, <2>4 DEF IInv
<1>7. CASE Rename(a)
  <2>1. /\ pc[a] = "renaming" /\ dir' = [crt |-> dir["tmp"], tmp |-> NoInode]
        /\ pc'[a] = "dialing"
        /\ UNCHANGED <<diskDir, dataVars, keyVars, setup>>
    BY <1>7, <1>d DEF Rename
  <2>2. /\ Crt' = offer[a] /\ diskData[dir["tmp"]] = offer[a]
        /\ dir'["crt"] = dir["tmp"] /\ dir'["tmp"] = NoInode
        /\ dir["tmp"] \in Inodes
    BY <1>t, <2>1 DEF Installing, Crt
  <2>3. offer[a] \in Offers /\ Renews(offer[a], Crt, FirstCert.key) /\ offer[a] # Crt
    BY <1>t, <2>1 DEF Installing
  <2>4. File!Next
    <3>1. UNCHANGED diskData[diskDir["crt"]]
      BY <2>1
    <3> QED
      BY <2>2, <2>3, <3>1 DEF File!Next, File!Replace, File!Renews, Renews
  <2>5. Installing(a)'
    BY <2>1 DEF Installing
  <2>6. Quiet' /\ Apart'
    BY <1>n, <2>1, <2>2 DEF IInv, Quiet, Apart
  <2>7. Stored'
    BY <2>1, <2>2, <2>3 DEF IInv, Stored, Sound, Renews
  <2> QED
    BY <1>t, <1>o, <2>4, <2>5, <2>6, <2>7 DEF IInv
<1>8. CASE RenameFails(a)
  <2>1. UNCHANGED <<dirVars, dataVars, keyVars, setup, offer>>
    BY <1>8 DEF RenameFails
  <2>2. pc'[a] \in {"renaming", "removing"} /\ pc[a] = "renaming"
    BY <1>8, <1>d DEF RenameFails
  <2>3. Installing(a)'
    BY <1>t, <2>1, <2>2 DEF Installing, Crt
  <2> QED
    BY <1>t, <1>o, <2>1, <2>3, FilesAlone DEF File!fileVars
<1>9. CASE Remove(a)
  <2>1. /\ dir'["crt"] = dir["crt"] /\ dir'["tmp"] = NoInode
        /\ UNCHANGED <<diskDir, dataVars, keyVars, setup>>
        /\ pc'[a] = "online"
    BY <1>9, <1>d DEF Remove, GiveUp, Names
  <2>2. Installing(a)'
    BY <2>1 DEF Installing
  <2>3. Crt' = Crt
    BY <2>1 DEF Crt
  <2>4. Quiet' /\ Apart' /\ Stored' /\ UNCHANGED File!fileVars
    BY <1>n, <2>1, <2>3 DEF IInv, Quiet, Apart, Stored, File!fileVars
  <2> QED
    BY <1>t, <1>o, <2>2, <2>4 DEF IInv
<1> QED
  BY <1>1, <1>2, <1>3, <1>4, <1>5, <1>6, <1>7, <1>8, <1>9 DEF Agent

LEMMA StorageStep ==
  ASSUME IInv, Storage
  PROVE  IInv' /\ [File!Next]_(File!fileVars)
<1> USE DEF dirVars, dataVars, keyVars, agentVars
<1>t. TypeOK /\ TypeOK'
  BY StorageTyped DEF IInv
<1>n. dir["crt"] \in Inodes /\ diskDir["crt"] \in Inodes
  BY <1>t DEF TypeOK, FilesTyped, Names
<1>1. CASE WriteBackDir
  <2>1. diskDir' = dir /\ UNCHANGED <<dir, data, diskData, key, diskKey, agentVars, setup, Crt>>
    BY <1>1 DEF WriteBackDir, Crt
  <2>2. Quiet' /\ Apart' /\ Stored'
    BY <2>1 DEF IInv, Quiet, Apart, Stored, Crt
  <2>3. \A a \in Agents : Installing(a)'
    BY <2>1 DEF IInv, Installing
  <2>4. File!WriteBack
    BY <2>1 DEF File!WriteBack, IInv, Stored
  <2> QED
    BY <1>t, <2>2, <2>3, <2>4 DEF IInv, File!Next
<1>2. CASE WriteBackKey
  <2>1. diskKey' = key /\ UNCHANGED <<dir, diskDir, data, diskData, key, agentVars, setup, Crt>>
    BY <1>2 DEF WriteBackKey, Crt
  <2>2. Quiet' /\ Apart' /\ Stored' /\ UNCHANGED File!fileVars
    BY <2>1 DEF IInv, Quiet, Apart, Stored, File!fileVars
  <2>3. \A a \in Agents : Installing(a)'
    BY <2>1 DEF IInv, Installing
  <2> QED
    BY <1>t, <2>2, <2>3 DEF IInv
<1>3. ASSUME NEW i \in Inodes, WriteBackData(i)
      PROVE  IInv' /\ UNCHANGED File!fileVars
  <2>1. /\ UNCHANGED <<dir, diskDir, data, key, diskKey, agentVars, setup, Crt>>
        /\ \A j \in Inodes : diskData'[j] = IF j = i THEN data[i] ELSE diskData[j]
    BY <1>t, <1>3 DEF WriteBackData, Crt, TypeOK, FilesTyped
  <2>2. /\ diskData'[dir["crt"]] = diskData[dir["crt"]]
        /\ diskData'[diskDir["crt"]] = diskData[diskDir["crt"]]
    BY <1>n, <2>1 DEF IInv, Stored, Crt
  <2>3. Quiet' /\ Apart' /\ Stored' /\ UNCHANGED File!fileVars
    BY <2>1, <2>2 DEF IInv, Quiet, Apart, Stored, File!fileVars
  <2>4. \A a \in Agents : Installing(a)'
    BY <2>1 DEF IInv, Installing
  <2> QED
    BY <1>t, <2>3, <2>4 DEF IInv
<1>4. CASE PowerFailure
  <2>1. /\ dir' = diskDir /\ data' = diskData /\ key' = diskKey
        /\ UNCHANGED <<diskDir, diskData, diskKey>>
        /\ pc' = [a \in Agents |-> "down"]
        /\ setup' = [setup EXCEPT !.step = "aborted", !.fd = NoInode]
    BY <1>4 DEF PowerFailure
  <2>2. Quiet'
    BY <1>t, <2>1 DEF IInv, Quiet, TypeOK, SetupTyped
  <2>3. Apart' /\ Stored' /\ File!PowerFailure
    BY <2>1 DEF IInv, Apart, Stored, Crt, File!PowerFailure
  <2>4. \A a \in Agents : Installing(a)'
    BY <2>1 DEF Installing
  <2> QED
    BY <1>t, <2>2, <2>3, <2>4 DEF IInv, File!Next
<1> QED
  BY <1>1, <1>2, <1>3, <1>4 DEF Storage

LEMMA RenewStep ==
  ASSUME OneAgent, IInv, [Next]_vars
  PROVE  IInv' /\ [File!Next]_(File!fileVars)
<1>1. ~Setup
  BY DEF Setup, SetupOpenCert, SetupWriteCert, SetupOpenKey, SetupWriteKey,
     SetupFails, IInv, Quiet
<1>2. CASE UNCHANGED vars
  <2>1. UNCHANGED <<dirVars, dataVars, keyVars, setup, agentVars>>
    BY <1>2 DEF vars
  <2>2. \A a \in Agents : Installing(a)'
    BY <2>1 DEF IInv, Installing, Crt, dirVars, dataVars, agentVars
  <2>3. TypeOK'
    BY StepTyped DEF IInv
  <2> QED
    BY <2>1, <2>2, <2>3, FilesAlone DEF File!fileVars
<1> QED
  BY <1>1, <1>2, AgentStep, StorageStep DEF Next

LEMMA RenewInit ==
  ASSUME NoSetup, Init
  PROVE  IInv /\ File!Init
<1>1. PICK i \in Inodes : /\ dir = [n \in Names |-> IF n = "crt" THEN i ELSE NoInode]
                          /\ data = [j \in Inodes |-> IF j = i THEN FirstCert ELSE Torn]
  BY DEF Init
<1>2. dir["crt"] = i /\ dir["tmp"] = NoInode /\ data[i] = FirstCert
  BY <1>1 DEF Names
<1>3. diskDir = dir /\ diskData = data
  BY DEF Init
<1>4. Quiet
  BY DEF Init, Quiet, NoSetup
<1>5. Apart /\ Stored /\ File!Init
  BY <1>2, <1>3 DEF Apart, Stored, Sound, Crt, File!Init
<1>6. \A a \in Agents : Installing(a)
  BY DEF Init, Installing
<1> QED
  BY <1>4, <1>5, <1>6, InitTyped DEF IInv

\* However many inodes, certificates and rename attempts there are: with one
\* agent process and no setup, the strengthened invariant holds.
THEOREM RenewInvariant ==
  ASSUME OneAgent, NoSetup
  PROVE  Spec => []IInv
<1>1. Init => IInv
  BY RenewInit
<1>2. IInv /\ [Next]_vars => IInv'
  BY RenewStep
<1> QED
  BY <1>1, <1>2, PTL DEF Spec

\* The certificate and key on disk always load as a pair.
THEOREM AlwaysStartable ==
  ASSUME OneAgent, NoSetup
  PROVE  Spec => []Startable
<1>1. IInv => Startable
  BY DEF IInv, Quiet, Stored, Sound, Startable, PairLoads
<1> QED
  BY <1>1, RenewInvariant, PTL

\* The calls on the file system implement the atomic replacement of agent.crt.
THEOREM RenewIsAtomic ==
  ASSUME OneAgent, NoSetup
  PROVE  Spec => AtomicReplacement
<1>1. Init => File!Init
  BY RenewInit
<1>2. IInv /\ [Next]_vars => [File!Next]_(File!fileVars)
  BY RenewStep
<1> QED
  BY <1>1, <1>2, RenewInvariant, PTL DEF Spec, AtomicReplacement, File!Spec

\* Each renewal changes what agent.crt holds: no certificate is installed over
\* itself, hence no connect-renew-reconnect loop on one offer.
THEOREM NoRenewLoopHolds ==
  ASSUME OneAgent, NoSetup
  PROVE  Spec => NoRenewLoop
<1>1. ASSUME IInv, NEW a \in Agents, Rename(a)
      PROVE  Crt' # Crt
  <2>1. pc[a] = "renaming" /\ Installing(a)
    BY <1>1 DEF Rename, IInv
  <2>2. Crt' = data[dir["tmp"]]
    BY <1>1 DEF Rename, Crt, dataVars
  <2> QED
    BY <2>1, <2>2 DEF Installing
<1>2. IInv => [\A a \in Agents : Rename(a) => Crt' # Crt]_vars
  BY <1>1
<1> QED
  BY <1>2, RenewInvariant, PTL DEF NoRenewLoop

-----------------------------------------------------------------------------
(* Any number of agents, until setup is run again.                         *)

Verified(c) == \/ c = FirstCert
               \/ c \in Offers /\ Renews(c, FirstCert, FirstCert.key)

\* No setup has begun: the key is the first one, and no setup has a file open.
Untouched == /\ setup.step \in {"idle", "aborted"}
             /\ setup.left = SetupIdents
             /\ setup.fd = NoInode
             /\ key = FirstCert.key
             /\ diskKey = FirstCert.key

AllVerified ==
  /\ TypeOK
  /\ Untouched
  /\ \A i \in Inodes : /\ data[i] = Torn \/ Verified(data[i])
                       /\ diskData[i] = Torn \/ Verified(diskData[i])
  /\ \A a \in Agents :
       /\ pc[a] = "validating" => Verified(current[a])
       /\ pc[a] \in {"opening", "writing", "syncing"} => Verified(offer[a])

LEMMA VerifiedStep ==
  ASSUME AllVerified, [Next]_vars, ~SetupOpenCert
  PROVE  AllVerified'
<1> USE DEF dirVars, dataVars, keyVars, agentVars
<1>t. TypeOK /\ TypeOK'
  BY StepTyped DEF AllVerified
<1>n. dir["crt"] \in Inodes
  BY <1>t DEF TypeOK, FilesTyped, Names
<1>d. /\ DOMAIN pc = Agents /\ DOMAIN offer = Agents /\ DOMAIN current = Agents
      /\ DOMAIN data = Inodes /\ DOMAIN diskData = Inodes
  BY <1>t DEF TypeOK, FilesTyped, AgentsTyped
<1>1. CASE UNCHANGED vars
  <2>1. UNCHANGED <<key, diskKey, setup, data, diskData, pc, offer, current>>
    BY <1>1 DEF vars
  <2> QED
    BY <1>t, <2>1 DEF AllVerified, Untouched
<1>2. ASSUME NEW a \in Agents, Agent(a)
      PROVE  AllVerified'
  <2>q. Untouched'
    BY <1>2 DEF AllVerified, Untouched, Agent, Start, Dial, Disconnect, Kill, Receive,
       LoadCurrent, Validate, Open, Write, Sync, Rename, RenameFails, Remove
  <2>1. CASE Start(a) \/ Dial(a) \/ Disconnect(a) \/ Kill(a) \/ Receive(a)
    BY <1>t, <1>d, <2>q, <2>1
       DEF Start, Dial, Disconnect, Kill, Receive, AllVerified
  <2>2. CASE LoadCurrent(a)
    <3>1. Crt \in Certs => Verified(Crt)
      BY <1>n DEF AllVerified, Crt
    <3> QED
      BY <1>t, <1>d, <2>q, <2>2, <3>1 DEF LoadCurrent, GiveUp, AllVerified
  <2>3. CASE Validate(a)
    <3>1. ASSUME Acceptable(offer[a], current[a], key), pc[a] = "validating"
          PROVE  Verified(offer[a])
      <4>1. offer[a] \in Certs /\ Renews(offer[a], current[a], FirstCert.key)
        BY <3>1 DEF Acceptable, AllVerified, Untouched
      <4>2. offer[a] \in Offers
        BY <1>t, <4>1 DEF TypeOK, AgentsTyped
      <4>3. Verified(current[a])
        BY <3>1 DEF AllVerified
      <4> QED
        BY <4>1, <4>2, <4>3 DEF Verified, Renews
    <3> QED
      BY <1>t, <1>d, <2>q, <2>3, <3>1 DEF Validate, GiveUp, AllVerified
  <2>4. CASE Open(a)
    BY <1>t, <1>d, <2>q, <2>4 DEF Open, GiveUp, AllVerified
  <2>5. CASE Write(a)
    BY <1>t, <1>d, <2>q, <2>5 DEF Write, AllVerified
  <2>6. CASE Sync(a)
    BY <1>t, <1>d, <2>q, <2>6 DEF Sync, AllVerified
  <2>7. CASE Rename(a) \/ RenameFails(a) \/ Remove(a)
    BY <1>t, <1>d, <2>q, <2>7 DEF Rename, RenameFails, Remove, GiveUp, AllVerified
  <2> QED
    BY <1>2, <2>1, <2>2, <2>3, <2>4, <2>5, <2>6, <2>7 DEF Agent
<1>3. ~Setup
  BY DEF Setup, SetupOpenCert, SetupWriteCert, SetupOpenKey, SetupWriteKey,
     SetupFails, AllVerified, Untouched
<1>4. CASE Storage
  <2>1. CASE WriteBackDir \/ WriteBackKey
    BY <1>t, <2>1 DEF WriteBackDir, WriteBackKey, AllVerified, Untouched
  <2>2. ASSUME NEW i \in Inodes, WriteBackData(i)
        PROVE  AllVerified'
    BY <1>t, <1>d, <2>2 DEF WriteBackData, AllVerified, Untouched
  <2>3. CASE PowerFailure
    <3>1. Untouched'
      <4>1. /\ key' = diskKey /\ diskKey' = diskKey
            /\ setup' = [setup EXCEPT !.step = "aborted", !.fd = NoInode]
        BY <2>3 DEF PowerFailure
      <4> QED
        BY <1>t, <4>1 DEF AllVerified, Untouched, TypeOK, SetupTyped
    <3> QED
      BY <1>t, <2>3, <3>1 DEF PowerFailure, AllVerified
  <2> QED
    BY <1>4, <2>1, <2>2, <2>3 DEF Storage
<1> QED
  BY <1>1, <1>2, <1>3, <1>4 DEF Next

\* A setup that has begun leaves one identity less for later ones, for good.
LEMMA BegunStep ==
  ASSUME TypeOK, [Next]_vars, SetupOpenCert \/ setup.left # SetupIdents
  PROVE  setup'.left # SetupIdents
<1> USE DEF dirVars, dataVars, keyVars, agentVars
<1>t. setup.left \in SUBSET SetupIdents
  BY DEF TypeOK, SetupTyped
<1>r. DOMAIN setup = {"step", "ident", "fd", "left"}
  BY DEF TypeOK, SetupTyped
<1>1. CASE SetupOpenCert
  <2>1. PICK i \in setup.left : setup' = [step |-> "crt", ident |-> i,
                                          fd |-> dir["crt"], left |-> setup.left \ {i}]
    BY <1>1 DEF SetupOpenCert
  <2> QED
    BY <1>t, <2>1
<1>2. CASE setup'.left = setup.left /\ setup.left # SetupIdents
  BY <1>2
<1>3. ASSUME ~SetupOpenCert
      PROVE  setup'.left = setup.left
  <2>1. CASE UNCHANGED vars
    BY <2>1 DEF vars
  <2>2. CASE \E a \in Agents : Agent(a)
    BY <2>2 DEF Agent, Start, Dial, Disconnect, Kill, Receive, LoadCurrent,
       Validate, Open, Write, Sync, Rename, RenameFails, Remove
  <2>3. CASE Setup
    BY <1>3, <1>r, <2>3 DEF Setup, SetupWriteCert, SetupOpenKey, SetupWriteKey, SetupFails
  <2>4. CASE Storage
    BY <1>r, <2>4 DEF Storage, WriteBackDir, WriteBackKey, WriteBackData, PowerFailure
  <2> QED
    BY <2>1, <2>2, <2>3, <2>4 DEF Next
<1> QED
  BY <1>1, <1>2, <1>3

VerifiedInv == TypeOK /\ (AllVerified \/ setup.left # SetupIdents)

LEMMA VerifiedInit == Init => VerifiedInv
<1>1. ASSUME Init
      PROVE  AllVerified
  <2>1. Untouched
    BY <1>1 DEF Init, Untouched
  <2>2. \A i \in Inodes : /\ data[i] = Torn \/ data[i] = FirstCert
                          /\ diskData[i] = Torn \/ diskData[i] = FirstCert
    BY <1>1 DEF Init
  <2>3. \A a \in Agents : pc[a] = "down"
    BY <1>1 DEF Init
  <2>4. TypeOK
    BY <1>1, InitTyped
  <2> QED
    BY <2>1, <2>2, <2>3, <2>4 DEF AllVerified, Verified
<1> QED
  BY <1>1, InitTyped DEF VerifiedInv

\* However many agent processes share ~/.deploy and whatever fails: until setup
\* is run again, agent.crt never holds a certificate that did not pass the
\* checks.
THEOREM NothingUnverifiedHolds == Spec => []NothingUnverified
<1>1. Init => VerifiedInv
  BY VerifiedInit
<1>2. VerifiedInv /\ [Next]_vars => VerifiedInv'
  BY StepTyped, VerifiedStep, BegunStep DEF VerifiedInv
<1>3. VerifiedInv => NothingUnverified
  BY DEF VerifiedInv, AllVerified, NothingUnverified, Verified, Crt, TypeOK,
     FilesTyped, Names
<1> QED
  BY <1>1, <1>2, <1>3, PTL DEF Spec

-----------------------------------------------------------------------------
(* What a connection presents: one agent, no setup.                        *)

\* Only a rename changes what the one agent reads from agent.crt.
LEMMA CrtStays ==
  ASSUME OneAgent, IInv, NEW a \in Agents, Agent(a), ~Rename(a)
  PROVE  Crt' = Crt
<1> USE DEF dirVars, dataVars
<1>t. TypeOK /\ Installing(a) /\ dir["tmp"] # dir["crt"]
  BY DEF IInv, Apart
<1>d. /\ DOMAIN fd = Agents /\ DOMAIN dir = Names /\ DOMAIN data = Inodes
      /\ dir["crt"] \in Inodes
  BY <1>t DEF TypeOK, AgentsTyped, FilesTyped, Names
<1>1. CASE Open(a)
  <2>1. CASE UNCHANGED <<dir, data>>
    BY <2>1 DEF Crt
  <2>2. CASE ~UNCHANGED <<dir, data>>
    <3>1. /\ fd'[a] # dir["crt"] /\ dir' = [dir EXCEPT !["tmp"] = fd'[a]]
          /\ data' = [data EXCEPT ![fd'[a]] = Torn]
      BY <1>1, <1>t, <1>d, <2>2 DEF Open, Free, Names
    <3> QED
      BY <1>d, <3>1 DEF Crt, Names
  <2> QED
    BY <2>1, <2>2
<1>2. CASE Write(a)
  <2>1. fd[a] # dir["crt"]
    BY <1>2, <1>t DEF Write, Installing
  <2> QED
    BY <1>2, <1>d, <2>1 DEF Write, Crt
<1>3. CASE Remove(a)
  BY <1>3, <1>d DEF Remove, Crt, Names
<1>4. CASE Start(a) \/ Dial(a) \/ Disconnect(a) \/ Kill(a) \/ Receive(a) \/ LoadCurrent(a)
  BY <1>4 DEF Start, Dial, Disconnect, Kill, Receive, LoadCurrent, Crt
<1>5. CASE Validate(a) \/ Sync(a) \/ RenameFails(a)
  BY <1>5 DEF Validate, Sync, RenameFails, Crt
<1> QED
  BY <1>1, <1>2, <1>3, <1>4, <1>5 DEF Agent

\* A step of the agent leaves its connection with the certificate on disk.
LEMMA PresentedStep ==
  ASSUME OneAgent, IInv, PresentsInstalled, [Next]_vars
  PROVE  PresentsInstalled'
<1>t. presented \in [Agents -> Certs \cup {NoCert}]
  BY DEF IInv, TypeOK, AgentsTyped
<1>1. ASSUME NEW a \in Agents, Agent(a)
      PROVE  PresentsInstalled'
  <2>1. \A b \in Agents : b = a
    BY DEF OneAgent
  <2>2. CASE Rename(a) \/ Kill(a) \/ Disconnect(a)
    BY <1>t, <2>1, <2>2 DEF Rename, Kill, Disconnect, PresentsInstalled
  <2>3. CASE Dial(a)
    <3>1. Crt' = Crt /\ presented' = [presented EXCEPT ![a] = Crt]
      BY <2>3 DEF Dial, Crt, dirVars, dataVars
    <3> QED
      BY <1>t, <2>1, <3>1 DEF PresentsInstalled
  <2>4. CASE ~(Rename(a) \/ Kill(a) \/ Disconnect(a) \/ Dial(a))
    <3>1. presented' = presented
      BY <1>1, <2>4 DEF Agent, Start, Receive, LoadCurrent, Validate, Open, Write,
         Sync, RenameFails, Remove
    <3>2. Crt' = Crt
      BY <1>1, <2>4, CrtStays
    <3> QED
      BY <3>1, <3>2 DEF PresentsInstalled
  <2> QED
    BY <2>2, <2>3, <2>4
<1>2. CASE PowerFailure
  BY <1>2 DEF PowerFailure, PresentsInstalled
<1>3. CASE WriteBackDir \/ WriteBackKey \/ (\E i \in Inodes : WriteBackData(i))
  BY <1>3 DEF WriteBackDir, WriteBackKey, WriteBackData, PresentsInstalled, Crt, agentVars,
     dataVars, dirVars
<1>4. CASE UNCHANGED vars
  BY <1>4 DEF vars, agentVars, dataVars, dirVars, PresentsInstalled, Crt
<1>5. ~Setup
  BY DEF Setup, SetupOpenCert, SetupWriteCert, SetupOpenKey, SetupWriteKey,
     SetupFails, IInv, Quiet
<1> QED
  BY <1>1, <1>2, <1>3, <1>4, <1>5 DEF Next, Storage

\* The connection of the one agent presents what agent.crt holds: a renewal ends
\* the connection that presented the old certificate (renew.go:101, :112-118).
THEOREM PresentsInstalledHolds ==
  ASSUME OneAgent, NoSetup
  PROVE  Spec => []PresentsInstalled
<1>1. Init => PresentsInstalled
  BY DEF Init, PresentsInstalled
<1>2. IInv /\ PresentsInstalled /\ [Next]_vars => PresentsInstalled'
  BY PresentedStep
<1> QED
  BY <1>1, <1>2, RenewInvariant, PTL DEF Spec

-----------------------------------------------------------------------------
(* Any number of agents and of runs of setup.                              *)

\* An identity that setup obtains comes with its key, and every certificate that
\* is issued for it later is for that key.
PairedOffers == \A c \in Offers : c.ident \in SetupIdents => c.key = c.ident

Begun == setup.left # SetupIdents

\* What renewals may leave in agent.crt; several agents tear it between them.
Renewable(c) == c \in Offers \/ (c = Torn /\ ~OneAgent)

\* The names refer to different files, and setup does not write to the temporary
\* one.
NamesApart == /\ dir["tmp"] # dir["crt"]
              /\ diskDir["tmp"] # diskDir["crt"]
              /\ setup.step = "crt" => setup.fd # dir["tmp"]

\* Between an agent's open and its rename, what the temporary file holds is from
\* a renewal, and whole when there is one agent.
TempRenewed == \A a \in Agents :
  /\ pc[a] \in {"writing", "syncing", "renaming"} /\ dir["tmp"] # NoInode =>
       data[dir["tmp"]] \in Offers \cup {Torn}
  /\ OneAgent =>
       /\ pc[a] \in {"writing", "syncing"} => fd[a] = dir["tmp"]
       /\ pc[a] \in {"syncing", "renaming"} /\ dir["tmp"] # NoInode =>
            data[dir["tmp"]] \in Offers
  /\ pc[a] = "renaming" => offer[a] \in Offers

\* What agent.crt and agent.key hold, step by step of setup.
SetupLeaves ==
  /\ Begun => setup.ident \in SetupIdents
  /\ ~Begun => setup.ident = FirstCert.ident
  /\ setup.step = "crt" => setup.fd = dir["crt"] \/ Renewable(Crt)
  /\ setup.step \in {"crt", "keyopen", "key"} => Begun
  /\ setup.step \in {"keyopen", "key"} => Crt = SetupCert \/ Renewable(Crt)
  /\ setup.step = "idle" /\ Begun =>
       key = setup.ident /\ (Crt = SetupCert \/ Renewable(Crt))
  /\ setup.step = "idle" /\ ~Begun =>
       key = FirstCert.key /\ (Crt = FirstCert \/ Renewable(Crt))

RestInv == TypeOK /\ NamesApart /\ TempRenewed /\ SetupLeaves

\* What one step does to agent.crt: nothing, or it leaves what renewals leave.
CrtMoves == \/ dir'["crt"] = dir["crt"] /\ Crt' = Crt
            \/ Renewable(Crt')

LEMMA SetupUnmoved ==
  ASSUME SetupLeaves, CrtMoves, UNCHANGED <<setup, key>>
  PROVE  SetupLeaves'
<1>1. SetupCert' = SetupCert
  BY DEF SetupCert
<1>2. \A c : Renewable(c)' <=> Renewable(c)
  BY DEF Renewable
<1> QED
  BY <1>1, <1>2 DEF SetupLeaves, CrtMoves, Begun, Renewable

\* A step of an agent leaves in agent.crt and in the temporary file what setup
\* reckons with.
LEMMA AgentRests ==
  ASSUME RestInv, NEW a \in Agents, Agent(a)
  PROVE  NamesApart' /\ TempRenewed' /\ SetupLeaves'
<1> USE DEF dirVars, dataVars, keyVars
<1>t. TypeOK
  BY DEF RestInv
<1>d. /\ DOMAIN pc = Agents /\ DOMAIN fd = Agents /\ DOMAIN offer = Agents
      /\ DOMAIN dir = Names /\ DOMAIN data = Inodes
      /\ dir["crt"] \in Inodes /\ dir["tmp"] \in Inodes \cup {NoInode}
      /\ dir["tmp"] # dir["crt"]
  BY <1>t DEF RestInv, NamesApart, TypeOK, AgentsTyped, FilesTyped, Names
<1>u. UNCHANGED <<setup, key, diskDir>>
  BY DEF Agent, Start, Dial, Disconnect, Kill, Receive, LoadCurrent, Validate, Open, Write,
     Sync, Rename, RenameFails, Remove
<1>s. CrtMoves => SetupLeaves'
  BY <1>u, SetupUnmoved DEF RestInv
<1>o. OneAgent => \A b \in Agents : b = a
  BY DEF OneAgent
<1>1. CASE Start(a) \/ Dial(a) \/ Disconnect(a) \/ Kill(a) \/ Receive(a)
  <2>1. UNCHANGED <<dir, data>>
    BY <1>1 DEF Start, Dial, Disconnect, Kill, Receive
  <2>2. TempRenewed'
    BY <1>1, <1>d DEF Start, Dial, Disconnect, Kill, Receive, RestInv, TempRenewed
  <2> QED
    BY <1>s, <1>u, <2>1, <2>2 DEF CrtMoves, Crt, RestInv, NamesApart
<1>2. CASE LoadCurrent(a) \/ Validate(a)
  <2>1. UNCHANGED <<dir, data>>
    BY <1>2 DEF LoadCurrent, Validate
  <2>2. TempRenewed'
    BY <1>2, <1>d DEF LoadCurrent, Validate, GiveUp, RestInv, TempRenewed
  <2> QED
    BY <1>s, <1>u, <2>1, <2>2 DEF CrtMoves, Crt, RestInv, NamesApart
<1>3. CASE Open(a)
  <2>1. CASE UNCHANGED <<dir, data, fd>> /\ GiveUp(a)
    <3>1. TempRenewed'
      BY <1>d, <2>1 DEF GiveUp, RestInv, TempRenewed
    <3> QED
      BY <1>s, <1>u, <2>1, <3>1 DEF CrtMoves, Crt, RestInv, NamesApart
  <2>2. CASE ~(UNCHANGED <<dir, data, fd>> /\ GiveUp(a))
    <3> DEFINE t == fd'[a]
    <3>1. /\ t \in Inodes /\ t # dir["crt"] /\ (setup.step = "crt" => t # setup.fd)
          /\ dir' = [dir EXCEPT !["tmp"] = t]
          /\ data' = [data EXCEPT ![t] = Torn]
          /\ pc' = [pc EXCEPT ![a] = "writing"]
          /\ UNCHANGED offer
          /\ \A b \in Agents : b # a => fd'[b] = fd[b]
      BY <1>3, <1>d, <2>2 DEF Open, Free, RestInv, NamesApart, Names
    <3>2. /\ dir'["tmp"] = t /\ dir'["crt"] = dir["crt"] /\ data'[t] = Torn
          /\ Crt' = Crt
      BY <1>d, <3>1 DEF Crt, Names
    <3>3. NamesApart'
      BY <1>u, <3>1, <3>2 DEF RestInv, NamesApart
    <3>4. TempRenewed'
      BY <1>d, <1>o, <3>1, <3>2 DEF RestInv, TempRenewed
    <3> QED
      BY <1>s, <3>2, <3>3, <3>4 DEF CrtMoves
  <2> QED
    BY <2>1, <2>2
<1>4. CASE Write(a)
  <2>1. offer[a] \in Offers /\ fd[a] \in Inodes /\ pc[a] = "writing" /\ dir' = dir
    BY <1>4, <1>t DEF Write, TypeOK, AgentsTyped
  <2>2. \/ data' = [data EXCEPT ![fd[a]] = offer[a]]
        \/ data' = [data EXCEPT ![fd[a]] = Torn]
    BY <1>4 DEF Write
  <2>3. CrtMoves
    <3>1. CASE fd[a] = dir["crt"]
      <4>1. ~OneAgent
        BY <1>d, <2>1, <3>1 DEF RestInv, TempRenewed
      <4> QED
        BY <1>d, <2>1, <2>2, <3>1, <4>1 DEF CrtMoves, Renewable, Crt
    <3>2. CASE fd[a] # dir["crt"]
      BY <1>d, <2>1, <2>2, <3>2 DEF CrtMoves, Crt
    <3> QED
      BY <3>1, <3>2
  <2>4. NamesApart'
    BY <1>u, <2>1 DEF RestInv, NamesApart
  <2>5. TempRenewed'
    BY <1>4, <1>d, <1>o, <2>1 DEF Write, RestInv, TempRenewed
  <2> QED
    BY <1>s, <2>3, <2>4, <2>5
<1>5. CASE Sync(a) \/ RenameFails(a)
  <2>1. UNCHANGED <<dir, data>>
    BY <1>5 DEF Sync, RenameFails
  <2>2. TempRenewed'
    BY <1>5, <1>t, <1>d DEF Sync, RenameFails, RestInv, TempRenewed, TypeOK, AgentsTyped
  <2> QED
    BY <1>s, <1>u, <2>1, <2>2 DEF CrtMoves, Crt, RestInv, NamesApart
<1>6. CASE Rename(a)
  <2>1. /\ pc[a] = "renaming" /\ dir["tmp"] # NoInode
        /\ dir' = [crt |-> dir["tmp"], tmp |-> NoInode]
        /\ data' = data
    BY <1>6 DEF Rename
  <2>2. Crt' = data[dir["tmp"]]
    BY <2>1 DEF Crt
  <2>3. CrtMoves
    BY <2>1, <2>2 DEF CrtMoves, Renewable, RestInv, TempRenewed
  <2>4. NamesApart'
    BY <1>t, <1>u, <1>d, <2>1 DEF RestInv, NamesApart, TypeOK, SetupTyped
  <2>5. pc' = [pc EXCEPT ![a] = "dialing"] /\ offer' = [offer EXCEPT ![a] = NoCert]
    BY <1>6 DEF Rename
  <2>6. TempRenewed'
    BY <1>d, <1>o, <2>1, <2>5 DEF RestInv, TempRenewed
  <2> QED
    BY <1>s, <2>3, <2>4, <2>6
<1>7. CASE Remove(a)
  <2>1. dir' = [dir EXCEPT !["tmp"] = NoInode] /\ data' = data
    BY <1>7 DEF Remove
  <2>2. dir'["crt"] = dir["crt"] /\ dir'["tmp"] = NoInode /\ Crt' = Crt
    BY <1>d, <2>1 DEF Crt, Names
  <2>3. NamesApart'
    BY <1>t, <1>u, <1>d, <2>2 DEF RestInv, NamesApart, TypeOK, SetupTyped
  <2>4. TempRenewed'
    BY <1>7, <1>d, <1>o, <2>2 DEF Remove, GiveUp, RestInv, TempRenewed
  <2> QED
    BY <1>s, <2>2, <2>3, <2>4 DEF CrtMoves
<1> QED
  BY <1>1, <1>2, <1>3, <1>4, <1>5, <1>6, <1>7 DEF Agent

\* So does every step of setup: it writes agent.crt and agent.key for one identity.
LEMMA SetupRests ==
  ASSUME RestInv, Setup
  PROVE  NamesApart' /\ TempRenewed' /\ SetupLeaves'
<1> USE DEF dirVars, dataVars, keyVars, agentVars
<1>t. TypeOK
  BY DEF RestInv
<1>d. /\ DOMAIN data = Inodes /\ dir["crt"] \in Inodes
      /\ dir["tmp"] # dir["crt"] /\ setup.left \subseteq SetupIdents
      /\ DOMAIN setup = {"step", "ident", "fd", "left"}
  BY <1>t DEF RestInv, NamesApart, TypeOK, FilesTyped, SetupTyped, Names
<1>u. UNCHANGED <<dir, diskDir, pc, fd, offer>>
  BY DEF Setup, SetupOpenCert, SetupWriteCert, SetupOpenKey, SetupWriteKey, SetupFails
<1>1. CASE SetupOpenCert
  <2>1. PICK i \in setup.left :
          setup' = [step |-> "crt", ident |-> i, fd |-> dir["crt"],
                    left |-> setup.left \ {i}]
    BY <1>1 DEF SetupOpenCert
  <2>2. data' = [data EXCEPT ![dir["crt"]] = Torn]
    BY <1>1 DEF SetupOpenCert
  <2>3. NamesApart'
    BY <1>d, <1>u, <2>1 DEF RestInv, NamesApart
  <2>4. TempRenewed'
    BY <1>d, <1>u, <2>2 DEF RestInv, TempRenewed
  <2>5. SetupLeaves'
    BY <1>d, <1>u, <2>1 DEF SetupLeaves, Begun
  <2> QED
    BY <2>3, <2>4, <2>5
<1>2. CASE SetupWriteCert
  <2>1. /\ setup.step = "crt" /\ setup.fd # dir["tmp"]
        /\ setup' = [setup EXCEPT !.step = "keyopen", !.fd = NoInode]
        /\ data' = [data EXCEPT ![setup.fd] = SetupCert]
    BY <1>2 DEF SetupWriteCert, RestInv, NamesApart
  <2>2. /\ setup'.step = "keyopen" /\ setup'.left = setup.left
        /\ setup'.ident = setup.ident /\ SetupCert' = SetupCert
    BY <1>d, <2>1 DEF SetupCert
  <2>3. IF setup.fd = dir["crt"] THEN Crt' = SetupCert ELSE Crt' = Crt
    BY <1>d, <1>u, <2>1 DEF Crt
  <2>4. NamesApart'
    BY <1>u, <2>2 DEF RestInv, NamesApart
  <2>5. TempRenewed'
    BY <1>d, <1>u, <2>1 DEF RestInv, TempRenewed
  <2>6. SetupLeaves'
    BY <2>1, <2>2, <2>3 DEF RestInv, SetupLeaves, Begun, Renewable
  <2> QED
    BY <2>4, <2>5, <2>6
<1>3. CASE SetupOpenKey \/ SetupWriteKey \/ SetupFails
  <2>1. data' = data
    BY <1>3 DEF SetupOpenKey, SetupWriteKey, SetupFails
  <2>2. /\ setup'.left = setup.left /\ setup'.ident = setup.ident /\ setup'.step # "crt"
        /\ SetupCert' = SetupCert /\ Crt' = Crt
    BY <1>3, <1>d, <1>u, <2>1 DEF SetupOpenKey, SetupWriteKey, SetupFails, SetupCert, Crt
  <2>3. NamesApart' /\ TempRenewed'
    BY <1>u, <2>1, <2>2 DEF RestInv, NamesApart, TempRenewed
  <2>4. ASSUME SetupOpenKey
        PROVE  setup.step = "keyopen" /\ setup'.step = "key"
    BY <1>d, <2>4 DEF SetupOpenKey
  <2>5. ASSUME SetupWriteKey
        PROVE  setup.step = "key" /\ setup'.step = "idle" /\ key' = setup.ident
    BY <1>d, <2>5 DEF SetupWriteKey
  <2>6. ASSUME SetupFails
        PROVE  setup'.step = "aborted"
    BY <1>d, <2>6 DEF SetupFails
  <2>7. setup'.step = "aborted" => SetupLeaves'
    BY <2>2 DEF RestInv, SetupLeaves, Begun
  <2>8. setup.step = "keyopen" /\ setup'.step = "key" => SetupLeaves'
    BY <2>2 DEF RestInv, SetupLeaves, Begun, Renewable
  <2>9. setup.step = "key" /\ setup'.step = "idle" /\ key' = setup.ident
          => SetupLeaves'
    BY <2>2 DEF RestInv, SetupLeaves, Begun, Renewable
  <2>10. SetupLeaves'
    BY <1>3, <2>4, <2>5, <2>6, <2>7, <2>8, <2>9
  <2> QED
    BY <2>3, <2>10
<1> QED
  BY <1>1, <1>2, <1>3 DEF Setup

\* The storage writes back what is there; after a power failure setup has not
\* ended, and no agent holds a file.
LEMMA StorageRests ==
  ASSUME RestInv, Storage
  PROVE  NamesApart' /\ TempRenewed' /\ SetupLeaves'
<1> USE DEF dirVars, dataVars, keyVars, agentVars
<1>t. DOMAIN setup = {"step", "ident", "fd", "left"}
  BY DEF RestInv, TypeOK, SetupTyped
<1>1. CASE PowerFailure
  <2>1. /\ setup' = [setup EXCEPT !.step = "aborted", !.fd = NoInode]
        /\ pc' = [a \in Agents |-> "down"] /\ dir' = diskDir /\ diskDir' = diskDir
    BY <1>1 DEF PowerFailure
  <2> QED
    BY <1>t, <2>1 DEF RestInv, NamesApart, TempRenewed, SetupLeaves, Begun
<1>2. CASE ~PowerFailure
  <2>1. UNCHANGED <<dir, data, key, pc, fd, offer, setup>> /\ diskDir' \in {dir, diskDir}
    BY <1>2 DEF Storage, WriteBackDir, WriteBackKey, WriteBackData
  <2>2. NamesApart' /\ TempRenewed'
    BY <2>1 DEF RestInv, NamesApart, TempRenewed
  <2>3. CrtMoves
    BY <2>1 DEF CrtMoves, Crt
  <2> QED
    BY <2>1, <2>2, <2>3, SetupUnmoved DEF RestInv
<1> QED
  BY <1>1, <1>2

\* Every step keeps what setup and the agents leave each other.
LEMMA RestStep ==
  ASSUME RestInv, [Next]_vars
  PROVE  RestInv'
<1>1. TypeOK'
  BY StepTyped DEF RestInv
<1>2. CASE UNCHANGED vars
  <2>1. UNCHANGED <<dir, diskDir, data, key, pc, fd, offer, setup>>
    BY <1>2 DEF vars, dirVars, dataVars, keyVars, agentVars
  <2>2. NamesApart' /\ TempRenewed'
    BY <2>1 DEF RestInv, NamesApart, TempRenewed
  <2>3. CrtMoves
    BY <2>1 DEF CrtMoves, Crt
  <2> QED
    BY <1>1, <2>1, <2>2, <2>3, SetupUnmoved DEF RestInv
<1> QED
  BY <1>1, <1>2, AgentRests, SetupRests, StorageRests DEF Next, RestInv

LEMMA RestInit == Init => RestInv
<1> SUFFICES ASSUME Init
             PROVE  RestInv
  OBVIOUS
<1>1. PICK i \in Inodes : /\ dir = [n \in Names |-> IF n = "crt" THEN i ELSE NoInode]
                          /\ data = [j \in Inodes |-> IF j = i THEN FirstCert ELSE Torn]
  BY DEF Init
<1>2. dir["crt"] = i /\ dir["tmp"] = NoInode /\ Crt = FirstCert
  BY <1>1 DEF Names, Crt
<1>3. NamesApart
  BY <1>2 DEF Init, NamesApart
<1>4. TempRenewed
  BY DEF Init, TempRenewed
<1>5. SetupLeaves
  BY <1>2 DEF Init, SetupLeaves, Begun
<1> QED
  BY <1>3, <1>4, <1>5, InitTyped DEF RestInv

\* When setup is at rest the pair loads, but for the races of the renewal.
LEMMA RestPairs ==
  ASSUME PairedOffers, RestInv, VerifiedInv
  PROVE  PairAtRest
<1> SUFFICES ASSUME setup.step = "idle"
             PROVE  \/ PairLoads
                    \/ Crt \in Offers /\ Crt.ident # setup.ident
                    \/ Crt = Torn /\ \E a, b \in Agents : a # b
  BY DEF PairAtRest
<1>1. CASE Crt = Torn
  <2>1. Torn \notin Certs /\ SetupCert # Torn /\ FirstCert # Torn
    <3>1. SetupCert \in Certs
      BY DEF SetupCert, Certs, RestInv, TypeOK, SetupTyped
    <3>2. Torn \notin Certs /\ FirstCert \in Certs
      OBVIOUS
    <3> QED
      BY <3>1, <3>2
  <2>2. ~OneAgent
    BY <1>1, <2>1 DEF RestInv, SetupLeaves, Renewable
  <2> QED
    BY <1>1, <2>2 DEF OneAgent
<1>2. CASE Crt # Torn /\ Begun
  <2>1. key = setup.ident /\ setup.ident \in SetupIdents
    BY <1>2 DEF RestInv, SetupLeaves
  <2>2. CASE Crt = SetupCert
    <3>1. SetupCert \in Certs /\ SetupCert.key = setup.ident
      BY DEF SetupCert, Certs, RestInv, TypeOK, SetupTyped
    <3> QED
      BY <2>1, <2>2, <3>1 DEF PairLoads
  <2>3. CASE Crt \in Offers
    BY <2>1, <2>3 DEF PairLoads, PairedOffers
  <2> QED
    BY <1>2, <2>2, <2>3 DEF RestInv, SetupLeaves, Renewable
<1>3. CASE Crt # Torn /\ ~Begun
  <2>1. key = FirstCert.key /\ (Crt = FirstCert \/ Crt \in Offers)
    BY <1>3 DEF RestInv, SetupLeaves, Renewable
  <2>2. Verified(Crt)
    BY <1>3 DEF VerifiedInv, AllVerified, Begun, Crt, TypeOK, FilesTyped, Names
  <2> QED
    BY <2>1, <2>2 DEF Verified, Renews, PairLoads
<1> QED
  BY <1>1, <1>2, <1>3

\* However many agents renew while setup is run, however often, and whenever the
\* power fails: what is on disk when setup has ended is a pair that loads, but
\* for the two races PairAtRest names (wizard.go:112-117, certrenew.go:122-124).
THEOREM PairAtRestHolds ==
  ASSUME PairedOffers
  PROVE  Spec => []PairAtRest
<1>1. Init => RestInv /\ VerifiedInv
  BY RestInit, VerifiedInit
<1>2. RestInv /\ VerifiedInv /\ [Next]_vars => RestInv' /\ VerifiedInv'
  BY RestStep, StepTyped, VerifiedStep, BegunStep DEF VerifiedInv
<1>3. RestInv /\ VerifiedInv => PairAtRest
  BY RestPairs
<1> QED
  BY <1>1, <1>2, <1>3, PTL DEF Spec
=============================================================================
