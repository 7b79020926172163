------------------------------ MODULE MCAgent ------------------------------
(***************************************************************************)
(* Instances of Agent.  MaxRetries is the 4 of the code.  agent.access is  *)
(* missing, unreadable, or one of two lists that allow different hosts.    *)
(***************************************************************************)
EXTENDS Agent

Entry(S) == [kind |-> "entry", covers |-> S]

MCFiles == {Missing, Unreadable, <<Entry({1})>>,
            <<[kind |-> "blank", covers |-> {}], Entry({2}),
              [kind |-> "bad", covers |-> {}]>>}
=============================================================================
