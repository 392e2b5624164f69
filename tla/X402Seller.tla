------------------------------- MODULE X402Seller -------------------------------
(***************************************************************************)
(* POST /v1/public/ask (api/x402.py): a signed payment is verified, put on *)
(* record, settled by the facilitator and then turned into an M2M mandate, *)
(* each in a session of its own.  The handler never yields, so it races    *)
(* with the asks of other server processes (a second one while a           *)
(* deployment replaces the first) and may die between any two steps.       *)
(*                                                                         *)
(* The facilitator and the chain are external: an authorization moves      *)
(* money at most once, success is reported only by the call that moved it, *)
(* and a failure or a timeout says nothing.                                *)
(***************************************************************************)
EXTENDS SpendLedger, AgentIdentity

CONSTANTS
  Processes,
  PayKeys,        \* Idempotency-Key headers
  Payments,       \* signed payment headers; without a key header, the key
  PayerOf,        \* the wallet that signed, which scopes an agent id
  AskRequests,    \* request fingerprints
  Asks,           \* BOUND: the asks clients send, any number of times
  Price,          \* X402_AMOUNT_USDC
  SellerMaximum,  \* m2m_max_workflow_usdc()
  LongReceipts    \* whether a settlement may exceed settlement_reference

AskKeys == PayKeys \cup Payments
Ask == [key: AskKeys, payment: Payments, request: AskRequests,
        agent: Agents \cup {Anonymous}]

ASSUME SellerAssumption ==
  /\ "M2M" \in Origins
  /\ PayerOf \in [Payments -> Contexts]
  /\ Price \in Nat /\ SellerMaximum \in Nat
  /\ LongReceipts \in BOOLEAN
  /\ Asks \subseteq Ask
  /\ \A ask \in Asks : ask.key \in PayKeys \cup {ask.payment}
  /\ Nothing \notin Mandates \cup Payments \cup AskRequests
  /\ Nothing \notin Ask \cup [request: AskRequests, mandate: Mandates]

VARIABLES
  pay,            \* InboundX402Payment, by idempotency key
  charged,        \* chain: authorizations that moved money
  xpc, xjob,      \* process: step, the ask
  sawAgent,       \* process: session.get found the agent identity
  xaccepted       \* answers 202: key, request, mandate

sellerVars == <<pay, charged, xpc, xjob, sawAgent, xaccepted>>

PaymentStatus == {"NONE", "VERIFIED", "SETTLED", "FAILED_SETTLE"}
Payment == [status: PaymentStatus, payment: Payments \cup {Nothing},
            request: AskRequests \cup {Nothing}, legible: BOOLEAN,
            mandate: Mandates \cup {Nothing}]
NoPayment == [status |-> "NONE", payment |-> Nothing, request |-> Nothing,
              legible |-> FALSE, mandate |-> Nothing]
AskStep == {"idle", "verified", "onRecord", "declined", "settled", "create", "answer"}

SellerInit ==
  /\ pay = [k \in AskKeys |-> NoPayment]
  /\ charged = {}
  /\ xpc = [w \in Processes |-> "idle"]
  /\ xjob = [w \in Processes |-> Nothing]
  /\ sawAgent = [w \in Processes |-> FALSE]
  /\ xaccepted = {}

Step(w, step) == /\ xpc' = [xpc EXCEPT ![w] = step]
                 /\ UNCHANGED xjob
Respond(w) == /\ xpc' = [xpc EXCEPT ![w] = "idle"]
              /\ xjob' = [xjob EXCEPT ![w] = Nothing]
              /\ sawAgent' = [sawAgent EXCEPT ![w] = FALSE]

-----------------------------------------------------------------------------

(* An unknown key goes on to verification, if the facilitator finds the      *)
(* payment valid; it does not look at what was recorded here.                *)
AskNew(w, ask) ==
  /\ xpc[w] = "idle" /\ pay[ask.key].status = "NONE"
  /\ xpc' = [xpc EXCEPT ![w] = "verified"]
  /\ xjob' = [xjob EXCEPT ![w] = ask]
  /\ UNCHANGED <<ledgerVars, identity, pay, charged, sawAgent, xaccepted>>

(* Mutant of Replayable: the fingerprint is not compared.                    *)
Replayable_AnyRequest(k, q) == pay[k].status = "SETTLED" /\ pay[k].legible

(* A truncated settlement_reference has no fingerprint to compare; a row     *)
(* that is not SETTLED is X402_PAYMENT_IN_PROGRESS.                          *)
Replayable(k, q) ==
  pay[k].status = "SETTLED" /\ pay[k].legible /\ pay[k].request = q

AskAgain(w, k, q) ==
  /\ xpc[w] = "idle" /\ Replayable(k, q)
  /\ xaccepted' = xaccepted \cup {<<k, q, pay[k].mandate>>}
  /\ UNCHANGED <<ledgerVars, identity, pay, charged, xpc, xjob, sawAgent>>

(* Mutant of PutOnRecord: the row is not committed before the settlement.    *)
PutOnRecord_Uncommitted(w) ==
  /\ xpc[w] = "verified"
  /\ Step(w, "onRecord")
  /\ UNCHANGED <<ledgerVars, identity, pay, charged, sawAgent, xaccepted>>

(* _create_verified_payment; idempotency_key is UNIQUE.                      *)
PutOnRecord(w) ==
  LET ask == xjob[w] IN
  /\ xpc[w] = "verified" /\ pay[ask.key].status = "NONE"
  /\ pay' = [pay EXCEPT ![ask.key] =
               [status |-> "VERIFIED", payment |-> ask.payment, request |-> ask.request,
                legible |-> TRUE, mandate |-> Nothing]]
  /\ Step(w, "onRecord")
  /\ UNCHANGED <<ledgerVars, identity, charged, sawAgent, xaccepted>>

(* X402_IDEMPOTENCY_UNAVAILABLE.                                             *)
RecordCollides(w) ==
  /\ xpc[w] = "verified" /\ pay[xjob[w].key].status # "NONE"
  /\ Respond(w)
  /\ UNCHANGED <<ledgerVars, identity, pay, charged, xaccepted>>

(* Mutant of SettleFails: an answer that is not a success is taken for one.  *)
SettleFails_Ignored(w) ==
  /\ xpc[w] = "onRecord"
  /\ charged' \in {charged, charged \cup {xjob[w].payment}}
  /\ Step(w, "settled")
  /\ UNCHANGED <<ledgerVars, identity, pay, sawAgent, xaccepted>>

SettleSucceeds(w) ==
  /\ xpc[w] = "onRecord" /\ xjob[w].payment \notin charged
  /\ charged' = charged \cup {xjob[w].payment}
  /\ Step(w, "settled")
  /\ UNCHANGED <<ledgerVars, identity, pay, sawAgent, xaccepted>>

(* A refusal, or X402_SETTLE_UNAVAILABLE, which may have moved the money.    *)
SettleFails(w) ==
  /\ xpc[w] = "onRecord"
  /\ charged' \in {charged, charged \cup {xjob[w].payment}}
  /\ Step(w, "declined")
  /\ UNCHANGED <<ledgerVars, identity, pay, sawAgent, xaccepted>>

RecordFailure(w) ==
  /\ xpc[w] = "declined"
  /\ pay' = [pay EXCEPT ![xjob[w].key].status = "FAILED_SETTLE"]
  /\ Respond(w)
  /\ UNCHANGED <<ledgerVars, identity, charged, xaccepted>>

(* get_or_create_m2m_identity: the agent's row is looked up.                 *)
LookUpAgent(w) ==
  LET a == xjob[w].agent IN
  /\ xpc[w] = "settled"
  /\ sawAgent' = [sawAgent EXCEPT ![w] = a \in Agents /\ identity[a] # Nothing]
  /\ Step(w, "create")
  /\ UNCHANGED <<ledgerVars, identity, pay, charged, xaccepted>>

Creatable(ask) == MayAct(ask.agent, PayerOf[ask.payment]) /\ ReserveOK(Price, SellerMaximum)

(* An insertion that collides rolls the session back, the SETTLED status and *)
(* the receipt with it; the handler goes on and links the mandate to the row.*)
CreateSettled(w) ==
  LET ask == xjob[w]
      collides == Collides(ask.agent, sawAgent[w]) IN
  /\ xpc[w] = "create" /\ Creatable(ask)
  /\ Establish(ask.agent, PayerOf[ask.payment])
  /\ \E m \in Mandates, fits \in {TRUE, ~LongReceipts} :
       /\ Reserve(m, "M2M", Price, SellerMaximum)
       /\ pay' = [pay EXCEPT ![ask.key].mandate = m,
                             ![ask.key].status = IF collides THEN @ ELSE "SETTLED",
                             ![ask.key].legible = IF collides THEN @ ELSE fits]
  /\ Step(w, "answer")
  /\ UNCHANGED <<charged, sawAgent, xaccepted>>

(* X402_MANDATE_UNAVAILABLE: the payment stays VERIFIED on record.           *)
CreateRefusedAfterSettlement(w) ==
  /\ xpc[w] = "create" /\ ~Creatable(xjob[w])
  /\ Respond(w)
  /\ UNCHANGED <<ledgerVars, identity, pay, charged, xaccepted>>

(* delay(), lost or not, and the 202.                                        *)
AnswerPaid(w) ==
  LET ask == xjob[w] IN
  /\ xpc[w] = "answer"
  /\ xaccepted' = xaccepted \cup {<<ask.key, ask.request, pay[ask.key].mandate>>}
  /\ Respond(w)
  /\ UNCHANGED <<ledgerVars, identity, pay, charged>>

ProcessDies(w) ==
  /\ xpc[w] # "idle"
  /\ Respond(w)
  /\ UNCHANGED <<ledgerVars, identity, pay, charged, xaccepted>>

SellerNext == \E w \in Processes :
  \/ \E ask \in Asks : AskNew(w, ask) \/ AskAgain(w, ask.key, ask.request)
  \/ PutOnRecord(w) \/ RecordCollides(w)
  \/ SettleSucceeds(w) \/ SettleFails(w) \/ RecordFailure(w)
  \/ LookUpAgent(w) \/ CreateSettled(w) \/ CreateRefusedAfterSettlement(w)
  \/ AnswerPaid(w) \/ ProcessDies(w)

-----------------------------------------------------------------------------
(* Properties.                                                             *)

SellerTypeOK ==
  /\ pay \in [AskKeys -> Payment]
  /\ charged \subseteq Payments
  /\ xpc \in [Processes -> AskStep]
  /\ xjob \in [Processes -> Ask \cup {Nothing}]
  /\ \A w \in Processes : xpc[w] # "idle" => xjob[w] # Nothing
  /\ sawAgent \in [Processes -> BOOLEAN]
  /\ xaccepted \subseteq AskKeys \X AskRequests \X Mandates

(* "Persist the verified payment attempt before settlement": whatever        *)
(* process dies and whatever the facilitator answers, money that moved has a *)
(* durable payment row that names it.                                        *)
ChargedIsOnRecord ==
  \A p \in charged : \E k \in AskKeys : pay[k].payment = p

(* "Create M2M work only after the inbound payment is settled": a mandate    *)
(* linked to a payment row stands for money that moved, has the price        *)
(* reserved, and no other row stands for the same money or the same mandate. *)
WorkIsPaid ==
  \A k \in AskKeys : pay[k].mandate # Nothing =>
     /\ pay[k].payment \in charged
     /\ budget[pay[k].mandate] = Price
     /\ \A other \in AskKeys \ {k} :
          pay[other].mandate # Nothing =>
            /\ pay[other].payment # pay[k].payment
            /\ pay[other].mandate # pay[k].mandate

(* test_same_idempotency_replays...: the request that created a mandate is   *)
(* answered with it when it is sent again under its key.                     *)
ReplayIsAnswered ==
  \A k \in AskKeys :
     pay[k].mandate # Nothing => Replayable(k, pay[k].request)
=============================================================================
