------------------------------- MODULE M2MIntake -------------------------------
(***************************************************************************)
(* POST /v1/m2m/mandates (api/m2m.py).  The handler is synchronous, so two *)
(* requests run in two threads: each looks its Idempotency-Key up, and     *)
(* each may find nothing before the other commits.  The creation           *)
(* transaction holds the day's ledger row and then inserts the unique key; *)
(* the loser of a race rolls everything back and answers like a replay.    *)
(***************************************************************************)
EXTENDS SpendLedger, AgentIdentity

CONSTANTS
  Threads,
  M2MKeys,        \* Idempotency-Key headers
  M2MRequests,    \* request_hash, agent and client of a payload
  AgentOf,        \* the agent a payload names
  BudgetOf,       \* its max_budget_usdc
  M2MContext,     \* the context of the one bearer token
  M2MMaximum      \* m2m_max_workflow_usdc()

ASSUME M2MAssumption ==
  /\ "M2M" \in Origins
  /\ AgentOf \in [M2MRequests -> Agents]
  /\ BudgetOf \in [M2MRequests -> Nat]
  /\ M2MContext \in Contexts
  /\ M2MMaximum \in Nat
  /\ Nothing \notin M2MKeys \X M2MRequests
  /\ Nothing \notin [request: M2MRequests, mandate: Mandates]

VARIABLES
  requests,       \* M2MMandateRequest, by idempotency key
  mpc, mjob,      \* thread: step, key and request
  maccepted       \* answers 202: key, request, mandate

m2mVars == <<requests, mpc, mjob, maccepted>>

Requested == [request: M2MRequests, mandate: Mandates]

M2MInit ==
  /\ requests = [k \in M2MKeys |-> Nothing]
  /\ mpc = [t \in Threads |-> "idle"]
  /\ mjob = [t \in Threads |-> Nothing]
  /\ maccepted = {}

(* The answer to a key that exists: the stored mandate if the payload is the *)
(* stored one, 409 M2M_IDEMPOTENCY_KEY_REUSED otherwise.                     *)
Matches(k, q) == requests[k] # Nothing /\ requests[k].request = q
Replay(k, q) ==
  maccepted' = IF Matches(k, q) THEN maccepted \cup {<<k, q, requests[k].mandate>>}
               ELSE maccepted

Leave(t) == /\ mpc' = [mpc EXCEPT ![t] = "idle"]
            /\ mjob' = [mjob EXCEPT ![t] = Nothing]

-----------------------------------------------------------------------------

(* The request arrives and its key is looked up, in one read.                *)
SubmitNew(t, k, q) ==
  /\ mpc[t] = "idle" /\ requests[k] = Nothing
  /\ mpc' = [mpc EXCEPT ![t] = "create"]
  /\ mjob' = [mjob EXCEPT ![t] = <<k, q>>]
  /\ UNCHANGED <<ledgerVars, identity, requests, maccepted>>

SubmitAgain(t, k, q) ==
  /\ mpc[t] = "idle" /\ requests[k] # Nothing
  /\ Replay(k, q)
  /\ UNCHANGED <<ledgerVars, identity, requests, mpc, mjob>>

Admissible(q) == MayAct(AgentOf[q], M2MContext) /\ ReserveOK(BudgetOf[q], M2MMaximum)

(* M2M_WORKFLOW_BUDGET_EXCEEDED, an identity of another context, the cap.    *)
CreateRefused(t) ==
  /\ mpc[t] = "create" /\ ~Admissible(mjob[t][2])
  /\ Leave(t)
  /\ UNCHANGED <<ledgerVars, identity, requests, maccepted>>

(* Mutant of CreateMandate: the key is not unique.                           *)
CreateMandate_NotUnique(t) ==
  LET k == mjob[t][1]
      q == mjob[t][2] IN
  /\ mpc[t] = "create" /\ Admissible(q)
  /\ \E m \in Mandates :
       /\ Reserve(m, "M2M", BudgetOf[q], M2MMaximum)
       /\ requests' = [requests EXCEPT ![k] = [request |-> q, mandate |-> m]]
  /\ Establish(AgentOf[q], M2MContext)
  /\ mpc' = [mpc EXCEPT ![t] = "answer"]
  /\ UNCHANGED <<mjob, maccepted>>

(* The transaction commits: identity, mandate, reservation, tasks, request.  *)
CreateMandate(t) ==
  LET k == mjob[t][1]
      q == mjob[t][2] IN
  /\ mpc[t] = "create" /\ Admissible(q) /\ requests[k] = Nothing
  /\ \E m \in Mandates :
       /\ Reserve(m, "M2M", BudgetOf[q], M2MMaximum)
       /\ requests' = [requests EXCEPT ![k] = [request |-> q, mandate |-> m]]
  /\ Establish(AgentOf[q], M2MContext)
  /\ mpc' = [mpc EXCEPT ![t] = "answer"]
  /\ UNCHANGED <<mjob, maccepted>>

(* IntegrityError on the key: everything is rolled back, then the replay.    *)
CreateCollides(t) ==
  LET k == mjob[t][1]
      q == mjob[t][2] IN
  /\ mpc[t] = "create" /\ Admissible(q) /\ requests[k] # Nothing
  /\ Replay(k, q)
  /\ Leave(t)
  /\ UNCHANGED <<ledgerVars, identity, requests>>

(* delay(), lost or not, and the 202.                                        *)
AnswerCreated(t) ==
  /\ mpc[t] = "answer"
  /\ Replay(mjob[t][1], mjob[t][2])
  /\ Leave(t)
  /\ UNCHANGED <<ledgerVars, identity, requests>>

(* The process dies with its open transaction.                               *)
ThreadDies(t) ==
  /\ mpc[t] # "idle"
  /\ Leave(t)
  /\ UNCHANGED <<ledgerVars, identity, requests, maccepted>>

M2MNext == \E t \in Threads :
  \/ \E k \in M2MKeys, q \in M2MRequests : SubmitNew(t, k, q) \/ SubmitAgain(t, k, q)
  \/ CreateRefused(t) \/ CreateMandate(t) \/ CreateCollides(t)
  \/ AnswerCreated(t) \/ ThreadDies(t)

M2MTypeOK ==
  /\ requests \in [M2MKeys -> Requested \cup {Nothing}]
  /\ mpc \in [Threads -> {"idle", "create", "answer"}]
  /\ mjob \in [Threads -> (M2MKeys \X M2MRequests) \cup {Nothing}]
  /\ \A t \in Threads : mpc[t] # "idle" => mjob[t] # Nothing
  /\ maccepted \subseteq M2MKeys \X M2MRequests \X Mandates
=============================================================================
