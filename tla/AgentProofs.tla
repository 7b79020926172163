---------------------------- MODULE AgentProofs ----------------------------
(***************************************************************************)
(* Proofs about module Agent.  The counter of RunAgent is the number of    *)
(* calls of Connect that failed in a row, and it reaches its limit only in *)
(* the step that returns the error; the list a connection uses is what the *)
(* file was at some moment since the loop came round.                      *)
(***************************************************************************)
EXTENDS Agent, TLAPS

\* The limit is a positive number.
LEMMA LimitPositive == MaxRetries \in Nat /\ MaxRetries > 0
BY AgentAssumption

-----------------------------------------------------------------------------
(* What LoadFile returns.                                                  *)

\* What is read from a file that agent.access may be is a list of networks.
LEMMA LoadedIsList ==
  ASSUME NEW f \in Files, Loads(f)
  PROVE  Loaded(f) \in Lists
<1>1. CASE f = Missing
  BY <1>1 DEF Loaded, Lists
<1>2. CASE f # Missing
  <2>1. f \in Seq(Line)
    BY <1>2, AgentAssumption DEF Loads
  <2>2. \A l \in Range(f) : l \in Line
    BY <2>1 DEF Range
  <2> QED
    BY <1>2, <2>2 DEF Loaded, Parse, Lists, Line
<1> QED
  BY <1>1, <1>2

-----------------------------------------------------------------------------
(* The inductive invariant.                                                *)

\* The counter counts failures in a row, and the process that reached the limit
\* is the one that has returned.
CountInv == /\ retries = streak
            /\ retries = MaxRetries => pc = "exited"
            /\ why = "tooManyFailures" <=> retries = MaxRetries

\* Only a process that has ended has an error to show.
WhyInv == pc # "exited" => why = "none"

\* The file as it is now is among what it was since the loop came round.
HeldInv == file \in held

IInv == TypeOK /\ CountInv /\ WhyInv /\ HeldInv /\ ListIsFresh

\* The process starts with no failure counted and no list.
LEMMA InitInvariant == Init => IInv
BY LimitPositive
   DEF Init, IInv, TypeOK, CountInv, WhyInv, HeldInv, ListIsFresh, Lists

\* Every step keeps the types.
LEMMA NextTypeOK ==
  ASSUME IInv, [Next]_vars
  PROVE  TypeOK'
<1> USE DEF IInv, TypeOK, agentVars, accessVars, envVars
<1>1. CASE LoadAccess
  BY <1>1, LoadedIsList DEF LoadAccess, LoopsWith, Return
<1>2. CASE ConnectSucceeds
  BY <1>2, LimitPositive DEF ConnectSucceeds, LoopsWith
<1>3. CASE ConnectFails
  <2>1. retries < MaxRetries
    BY <1>3, LimitPositive DEF ConnectFails, CountInv
  <2> QED
    BY <1>3, <2>1, LimitPositive DEF ConnectFails, LoopsWith, Return
<1>4. CASE Wake \/ Reconnect
  BY <1>4 DEF Wake, Reconnect, ComesRound, LoopsWith
<1>5. CASE Rejected \/ ConnectionLost
  BY <1>5 DEF Rejected, ConnectionLost, Return, LoopsWith
<1>6. CASE Restart
  BY <1>6, LimitPositive DEF Restart, Lists
<1>7. CASE ServerChanges \/ FileChanges \/ PairChanges
  BY <1>7 DEF ServerChanges, FileChanges, PairChanges
<1>8. CASE UNCHANGED vars
  BY <1>8 DEF vars
<1>9. CASE Begin
  BY <1>9 DEF Begin, LoopsWith, Return
<1> QED
  BY <1>1, <1>2, <1>3, <1>4, <1>5, <1>6, <1>7, <1>8, <1>9 DEF Next, Loop

\* Every step keeps the count and what the process has to show for it.
LEMMA NextCounts ==
  ASSUME IInv, [Next]_vars
  PROVE  CountInv' /\ WhyInv'
<1> USE LimitPositive
    DEF IInv, TypeOK, CountInv, WhyInv, agentVars, accessVars, envVars
<1>1. CASE LoadAccess
  BY <1>1 DEF LoadAccess, LoopsWith, Return
<1>2. CASE ConnectSucceeds
  BY <1>2 DEF ConnectSucceeds, LoopsWith
<1>3. CASE ConnectFails
  BY <1>3 DEF ConnectFails, LoopsWith, Return
<1>4. CASE Wake \/ Reconnect
  BY <1>4 DEF Wake, Reconnect, ComesRound, LoopsWith
<1>5. CASE Rejected \/ ConnectionLost
  BY <1>5 DEF Rejected, ConnectionLost, Return, LoopsWith
<1>6. CASE Restart
  BY <1>6 DEF Restart
<1>7. CASE ServerChanges \/ FileChanges \/ PairChanges \/ UNCHANGED vars
  BY <1>7 DEF ServerChanges, FileChanges, PairChanges, vars
<1>8. CASE Begin
  BY <1>8 DEF Begin, LoopsWith, Return
<1> QED
  BY <1>1, <1>2, <1>3, <1>4, <1>5, <1>6, <1>7, <1>8 DEF Next, Loop

\* Every step keeps the list one that the file held: reading it makes it the
\* file's, and an edit only adds to what the file was.
LEMMA NextFresh ==
  ASSUME IInv, [Next]_vars
  PROVE  HeldInv' /\ ListIsFresh'
<1> USE DEF IInv, HeldInv, ListIsFresh, agentVars, accessVars, envVars
<1>1. CASE LoadAccess
  BY <1>1 DEF LoadAccess, LoopsWith, Return, Loads, Loaded
<1>2. CASE ConnectSucceeds
  BY <1>2 DEF ConnectSucceeds, LoopsWith, Loads, Loaded
<1>3. CASE ConnectFails
  BY <1>3 DEF ConnectFails, LoopsWith, Return
<1>4. CASE Wake \/ Reconnect
  BY <1>4 DEF Wake, Reconnect, ComesRound, LoopsWith
<1>5. CASE Rejected \/ ConnectionLost
  BY <1>5 DEF Rejected, ConnectionLost, Return, LoopsWith
<1>6. CASE Restart
  BY <1>6 DEF Restart
<1>7. CASE ServerChanges \/ PairChanges \/ UNCHANGED vars
  BY <1>7 DEF ServerChanges, PairChanges, vars, Loads, Loaded
<1>8. CASE FileChanges
  BY <1>8 DEF FileChanges, Loads, Loaded
<1>9. CASE Begin
  BY <1>9 DEF Begin, LoopsWith, Return
<1> QED
  BY <1>1, <1>2, <1>3, <1>4, <1>5, <1>6, <1>7, <1>8, <1>9 DEF Next, Loop

-----------------------------------------------------------------------------
(* The theorems.                                                           *)

\* The counter of RunAgent, the error it returned and the list it has loaded
\* are tied together in every state (agent.go:48-96).
THEOREM AgentInvariant == Spec => []IInv
<1>1. IInv /\ [Next]_vars => IInv'
  BY NextTypeOK, NextCounts, NextFresh DEF IInv
<1> QED
  BY InitInvariant, <1>1, PTL DEF Spec

\* Every variable keeps to its values, the counter never passes its limit
\* (agent.go:48-96).
THEOREM AgentTypeCorrect == Spec => []TypeOK
BY AgentInvariant, PTL DEF IInv

\* RunAgent gives up for failed connections exactly when the limit's number of
\* calls of Connect in a row have failed, for every limit (agent.go:58-88).
THEOREM ExitIsEarnedHolds == Spec => []ExitIsEarned
<1>1. IInv => ExitIsEarned
  BY DEF IInv, CountInv, ExitIsEarned
<1> QED
  BY AgentInvariant, <1>1, PTL

\* The list of a connection is one that agent.access held since the loop came
\* round, for every set of hosts and of files (agent.go:52).
THEOREM ListIsFreshHolds == Spec => []ListIsFresh
BY AgentInvariant, PTL DEF IInv
=============================================================================
