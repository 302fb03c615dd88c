------------------------------ MODULE Allowance ------------------------------
(***************************************************************************)
(* What a rate limiter promises each of its clients: a credit that starts  *)
(* at Limit and grows by Refill with every tick of the clock up to Limit.  *)
(* A request that the credit covers is granted and paid for, any other is  *)
(* refused and costs nothing.  The limiter may forget what a client owes,  *)
(* one client at a time and only on the occasion of somebody's request.    *)
(*                                                                         *)
(* Both limiters of the server compute the credit lazily, from the time of *)
(* the last request; Limits shows that they implement this specification.  *)
(***************************************************************************)
EXTENDS Integers

CONSTANTS
  Client,      \* those who have an allowance of their own
  Limit,       \* the burst, in units of credit
  Cost,        \* what a request costs
  Refill       \* what a tick of the clock brings

VARIABLES
  credit,      \* of each client
  verdict      \* the request just made and its answer

vars == <<credit, verdict>>

Earned(amount) == IF amount + Refill > Limit THEN Limit ELSE amount + Refill

Init == credit = [c \in Client |-> Limit] /\ verdict = <<>>

Tick ==
  /\ credit' = [c \in Client |-> Earned(credit[c])]
  /\ verdict' = <<>>

\* Client c makes a request, and what the clients in lost owe is forgotten.
Ask(c, lost) ==
  LET ok == credit[c] >= Cost
  IN /\ verdict' = <<c, ok>>
     /\ credit' = [d \in Client |-> IF d \in lost THEN Limit
                                    ELSE IF d = c /\ ok THEN credit[c] - Cost ELSE credit[d]]

\* The client starts afresh.
Forgive(c) ==
  /\ credit' = [credit EXCEPT ![c] = Limit]
  /\ verdict' = <<>>

Next ==
  \/ Tick
  \/ \E c \in Client : Forgive(c) \/ Ask(c, {}) \/ \E d \in Client \ {c} : Ask(c, {d})

Spec == Init /\ [][Next]_vars
=============================================================================
