---------------------------- MODULE IdempotentIntake ----------------------------
(***************************************************************************)
(* What an Idempotency-Key promises a client: the first request accepted   *)
(* under a key binds the key to one mandate of its own, for good; later    *)
(* answers under the key name that mandate, and only to the same request.  *)
(* Both paid rails, M2MIntake and X402Seller, implement it.                *)
(***************************************************************************)
CONSTANTS Keys, Requests, Mandates, Nothing

VARIABLES
  bound,          \* by key: the request and the mandate it created
  accepted        \* answers 202 given so far: key, request, mandate

Binding == [request: Requests, mandate: Mandates]

Init == bound = [k \in Keys |-> Nothing] /\ accepted = {}

Bind(k, q, m) ==
  /\ bound[k] = Nothing
  /\ \A other \in Keys : bound[other] # Nothing => bound[other].mandate # m
  /\ bound' = [bound EXCEPT ![k] = [request |-> q, mandate |-> m]]
  /\ UNCHANGED accepted

Accept(k) ==
  /\ bound[k] # Nothing
  /\ accepted' = accepted \cup {<<k, bound[k].request, bound[k].mandate>>}
  /\ UNCHANGED bound

Next == \E k \in Keys :
  \/ Accept(k)
  \/ \E q \in Requests, m \in Mandates : Bind(k, q, m)

Spec == Init /\ [][Next]_<<bound, accepted>>
=============================================================================
