--------------------------- MODULE PacketChannel ---------------------------
(***************************************************************************)
(* What the wire format promises to the code above it: the messages one    *)
(* end sends reach the other whole, once and in order, in batches, until   *)
(* one that ends the connection or until the connection is lost.  A frame  *)
(* that declares a size no frame has wedges the channel: the connection    *)
(* stays up and nothing is delivered any more.                             *)
(***************************************************************************)
EXTENDS Naturals, Sequences

CONSTANTS
  Messages,   \* what an end may send
  Last,       \* the messages after which the receiver reads no more
  Wedges,     \* the frames that are none, of a broken peer
  MaxSent     \* bound on the messages sent

VARIABLES sent, received, open

channelVars == <<sent, received, open>>

Init == sent = <<>> /\ received = <<>> /\ open = TRUE

Send(msg) == /\ Len(sent) < MaxSent
             /\ sent' = Append(sent, msg)
             /\ UNCHANGED <<received, open>>

\* The receiver gets the next n messages, or those up to the one that ends
\* the connection.
Deliver(n) == /\ open
              /\ received' = SubSeq(sent, 1, Len(received) + n)
              /\ \A k \in 1..(Len(received) + n) : sent[k] \notin Wedges
              /\ \A k \in 1..(Len(received) + n - 1) : sent[k] \notin Last
              /\ open' = (\A k \in 1..(Len(received) + n) : sent[k] \notin Last)
              /\ UNCHANGED sent

Lose == open /\ open' = FALSE /\ UNCHANGED <<sent, received>>

Next == \/ \E msg \in Messages \cup Wedges : Send(msg)
        \/ \E n \in 0..(Len(sent) - Len(received)) : Deliver(n)
        \/ Lose

Spec == Init /\ [][Next]_channelVars
=============================================================================
