------------------------- MODULE CertifiedEvidence -------------------------
(***************************************************************************)
(* From a certified on-chain job to an anchored ticket: the tasks of       *)
(* ERC8183Job, promote_verified_erc8183_job (erc8183/evidence.py) and the  *)
(* tasks of TicketAnchor, run by the same workers.                         *)
(*                                                                         *)
(* The content of a promoted ticket is a function of the chain's facts     *)
(* about one job, so tickets are named by the job's identity.              *)
(***************************************************************************)
EXTENDS ERC8183Job, TicketAnchor

VARIABLE promoting            \* the job whose source a promotion has verified

vars == <<jobVars, anchorVars, promoting>>

Nobody == 0

Init ==
  /\ JobInit
  /\ AnchorInit
  /\ promoting = Nobody

-----------------------------------------------------------------------------
\* reconstruct: the row and a fresh reading of the chain and of the receiver
\* must agree on everything the Evidence core is made of.
CertifiedSource_AnyTerminal(job) == job.state = "TERMINAL" /\ job.id # 0
CertifiedSource(job) ==
  /\ job.state = "TERMINAL"
  /\ job.id # 0
  /\ Callback
  /\ job.verified
  /\ creates[job.id].state = "TERMINAL"
  /\ creates[job.id].delivered

\* promotion_status and the dry run
Reconstruct(i) ==
  /\ promoting = Nobody
  /\ CertifiedSource(jobs[i])
  /\ tickets[jobs[i].id] = Unissued
  /\ promoting' = jobs[i].id
  /\ UNCHANGED <<jobVars, anchorVars>>

\* Everything from the mandate to its ticket is one commit; the unique hash of
\* the ticket stops a second promotion.
Promote ==
  /\ promoting # Nobody
  /\ promoting' = Nobody
  /\ \/ /\ tickets[promoting] = Unissued
        /\ tickets' = [tickets EXCEPT ![promoting] = Issued]
     \/ UNCHANGED tickets
  /\ UNCHANGED <<jobVars, attempts, anchors, anchoring>>

-----------------------------------------------------------------------------
\* One pool of workers takes the messages of both queues of work.
StartJob(w) ==
  /\ anchoring[w] = Free
  /\ \E i \in DOMAIN jobs, step \in Step : Deliver(w, i, step)

StartAnchor(w) ==
  /\ working[w] = Resting
  /\ \E t \in Tickets : TakeAnchor(w, t)

JobNext ==
  \/ RequestFixture
  \/ \E w \in Workers : StartJob(w) \/ WorkerStep(w)
  \/ ChainStep

AnchorNext ==
  \/ \E w \in Workers : StartAnchor(w)
  \/ AnchorStep

Next ==
  \/ JobNext /\ UNCHANGED <<anchorVars, promoting>>
  \/ AnchorNext /\ UNCHANGED <<jobVars, promoting>>
  \/ \E i \in DOMAIN jobs : Reconstruct(i)
  \/ Promote

Spec == Init /\ [][Next]_vars

-----------------------------------------------------------------------------
(* A certified ticket exists only for a job the chain closed as served and *)
(* whose answer the receiver stored, and it is called ANCHORED only by the *)
(* transaction that anchored it (reconstruct, promote_verified_erc8183_job *)
(* and execute_ticket_anchor read rows that stale copies overwrite).       *)
CertifiedIsProven ==
  /\ TicketsAreOnChain
  /\ \A t \in Tickets :
       tickets[t] # Unissued =>
         t \in DOMAIN creates /\ creates[t].state = "TERMINAL" /\ creates[t].delivered

=============================================================================
