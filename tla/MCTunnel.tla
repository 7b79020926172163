------------------------------ MODULE MCTunnel ------------------------------
(* Instances of Tunnel for TLC. *)
EXTENDS Tunnel, TLC

\* Every session has an id of its own: the ids are named by the sessions.
MCOwnIds  == Conns
MCOwnIdOf == [c \in Conns |-> c]

\* Every session is given the same id, one after the other.
MCOneId     == {0}
MCOneIdOf   == [c \in Conns |-> 0]
\* The sessions are interchangeable in both (used for safety only).
MCSymmetry == Permutations(Conns)
=============================================================================
