----------------------------- MODULE AgentIdentity -----------------------------
(***************************************************************************)
(* agents/identity.py: an external agent id belongs to the context (the    *)
(* M2M token, or a payer's wallet) that named it first.  The row is read   *)
(* before it is inserted and the insertion may lose to another request;    *)
(* what the caller's transaction loses with it is the caller's business.   *)
(***************************************************************************)
CONSTANTS
  Agents,         \* values of X-Agent-Id
  Anonymous,      \* no X-Agent-Id
  Contexts,       \* m2m_context_id values
  Nothing         \* no such row

VARIABLE identity  \* AgentIdentity.m2m_context_id, by agent id

ASSUME IdentityAssumption == Anonymous \notin Agents /\ Nothing \notin Contexts

IdentityInit == identity = [a \in Agents |-> Nothing]

(* M2M_AGENT_CONTEXT_CONFLICT is raised where this does not hold.            *)
MayAct(a, c) == a \in Agents => identity[a] \in {Nothing, c}

Establish(a, c) ==
  identity' = IF a \in Agents /\ identity[a] = Nothing
              THEN [identity EXCEPT ![a] = c] ELSE identity

(* The row was not there when it was looked up and is there at the flush.    *)
Collides(a, sawRow) == a \in Agents /\ ~sawRow /\ identity[a] # Nothing

IdentityTypeOK == identity \in [Agents -> Contexts \cup {Nothing}]
=============================================================================
