---------------------------- MODULE AtLeastOnce ----------------------------
(***************************************************************************)
(* What the outbox promises the payout path: a message that was accepted is *)
(* published, once or more often, and nothing else ever is.  It is          *)
(* published for certain only while some publisher is connected.            *)
(***************************************************************************)
CONSTANT Rows

VARIABLES
    accepted,    \* messages whose sender's transaction has committed
    published,   \* messages that are on the stream
    connected    \* whether a publisher can reach the stream: free to change

vars == <<accepted, published>>

Init == accepted = {} /\ published = {}

Accept(x) ==
    /\ accepted' = accepted \cup {x}
    /\ UNCHANGED published

\* A second copy of a message changes nothing here.
Publish(x) ==
    /\ x \in accepted
    /\ published' = published \cup {x}
    /\ UNCHANGED accepted

Next == \E x \in Rows : Accept(x) \/ Publish(x)

Safety == Init /\ [][Next]_vars

Delivery == \A x \in Rows : x \in accepted ~> x \in published \/ ~connected

Spec == Safety /\ Delivery
=============================================================================
