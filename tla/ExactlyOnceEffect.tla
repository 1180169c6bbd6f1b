------------------------- MODULE ExactlyOnceEffect -------------------------
(***************************************************************************)
(* What the keyed write paths of the API (POST /orders, POST /withdrawals)  *)
(* promise a client, with no mention of rows, leases or transactions: each  *)
(* idempotency key has at most one effect, it is never undone or replaced,  *)
(* and a 2xx answer reports the effect that the key really has.  Any        *)
(* request may instead be turned away (409, 500) or never be answered.      *)
(***************************************************************************)
CONSTANTS Keys, Requests, None

VARIABLES
    keyOf,    \* the Idempotency-Key each request carries, fixed
    effect,   \* per key: the request whose effect is durable, or None
    answer    \* per request: the effect reported in a 2xx answer, or None

vars == <<keyOf, effect, answer>>

Init ==
    /\ keyOf \in [Requests -> Keys]
    /\ effect = [k \in Keys |-> None]
    /\ answer = [r \in Requests |-> None]

\* The effect of request r becomes durable; the answer may be lost.
Apply(r) ==
    /\ effect[keyOf[r]] = None
    /\ effect' = [effect EXCEPT ![keyOf[r]] = r]
    /\ \/ answer' = [answer EXCEPT ![r] = r]
       \/ UNCHANGED answer
    /\ UNCHANGED keyOf

\* Request r is told what its key's effect was.
Replay(r) ==
    /\ effect[keyOf[r]] # None
    /\ answer[r] = None
    /\ answer' = [answer EXCEPT ![r] = effect[keyOf[r]]]
    /\ UNCHANGED <<keyOf, effect>>

Next == \E r \in Requests : Apply(r) \/ Replay(r)

Spec == Init /\ [][Next]_vars
=============================================================================
