---------------------------- MODULE ProxyService ----------------------------
(***************************************************************************)
(* What one connection of the agent promises to the server, session by     *)
(* session, with no goroutine, queue, map or socket in sight: the abstract *)
(* specification that Tunnel implements.                                   *)
(*                                                                         *)
(* A session is requested, then accepted or refused.  While it is open the *)
(* destination is given the server's chunks and the server the             *)
(* destination's.  It ends only when the server has all that was read from *)
(* the destination, unless the connection is over, and its id is then free *)
(* for another session.                                                    *)
(***************************************************************************)
EXTENDS Integers, Sequences

CONSTANTS Conns, IdOf, Denied

VARIABLES
    stage,  \* each session as the server sees it
    sent,   \* chunks the server sent in each session
    given,  \* what each destination was given: <<session, chunk>>
    up,     \* chunks the agent read from each destination
    rcv,    \* chunks of each destination the server received
    over    \* the connection was lost or the agent stopped reading it

vars == <<stage, sent, given, up, rcv, over>>

Init ==
    /\ stage = [c \in Conns |-> "idle"]
    /\ sent = [c \in Conns |-> 0] /\ given = [c \in Conns |-> <<>>]
    /\ up = [c \in Conns |-> 0] /\ rcv = [c \in Conns |-> 0]
    /\ over = FALSE

Open(c) == stage[c] \in {"open", "closing"}

Moves(c, s) ==
    /\ stage' = [stage EXCEPT ![c] = s]
    /\ UNCHANGED <<sent, given, up, rcv, over>>

Request(c) ==
    /\ stage[c] = "idle" /\ ~over
    /\ \A b \in Conns : IdOf[b] = IdOf[c] => stage[b] \in {"idle", "ended"}
    /\ Moves(c, "requested")

Accept(c) == stage[c] = "requested" /\ c \notin Denied /\ Moves(c, "open")

Refuse(c) == stage[c] = "requested" /\ Moves(c, "ended")

Close(c) == stage[c] = "open" /\ ~over /\ Moves(c, "closing")

\* A destination that closed is reported after all it sent was carried.
End(c) == Open(c) /\ (rcv[c] = up[c] \/ over) /\ Moves(c, "ended")

Send(c) ==
    /\ stage[c] = "open" /\ ~over
    /\ sent' = [sent EXCEPT ![c] = @ + 1]
    /\ UNCHANGED <<stage, given, up, rcv, over>>

\* Its own chunks, each once and in order.  The first ones may be missing: the
\* agent drops what arrives before it has registered the destination.
Give(c) ==
    /\ Open(c)
    /\ \E n \in 1..sent[c] :
           /\ given[c] # <<>> => n = given[c][Len(given[c])][2] + 1
           /\ given' = [given EXCEPT ![c] = Append(@, <<c, n>>)]
    /\ UNCHANGED <<stage, sent, up, rcv, over>>

\* The agent may read from a destination before the server knows it is open.
Read(c) ==
    /\ Open(c) \/ stage[c] = "requested"
    /\ up' = [up EXCEPT ![c] = @ + 1]
    /\ UNCHANGED <<stage, sent, given, rcv, over>>

Carry(c) ==
    /\ Open(c) /\ rcv[c] < up[c]
    /\ rcv' = [rcv EXCEPT ![c] = @ + 1]
    /\ UNCHANGED <<stage, sent, given, up, over>>

Cut == ~over /\ over' = TRUE /\ UNCHANGED <<stage, sent, given, up, rcv>>

Next ==
    \/ \E c \in Conns :
           \/ Request(c) \/ Accept(c) \/ Refuse(c) \/ Close(c) \/ End(c)
           \/ Send(c) \/ Give(c) \/ Read(c) \/ Carry(c)
    \/ Cut

Spec == Init /\ [][Next]_vars
=============================================================================
