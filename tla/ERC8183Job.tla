----------------------------- MODULE ERC8183Job -----------------------------
(***************************************************************************)
(* The on-chain jobs: the rows of erc8183_jobs, the Celery tasks that work *)
(* on them (workers/tasks.py, "G7"), the gateway's one signer and the      *)
(* Telegraph diamond.  Every task loads its row once and commits the       *)
(* columns it changed since (SQLAlchemy, expire_on_commit off), so a       *)
(* worker's copy may be older than the row it writes.                      *)
(*                                                                         *)
(* Bounds: MaxRows rows, MaxCreates creation transactions.                 *)
(* Abstractions: the escrow holds one job's price or nothing; a lost       *)
(* deposit takes effect at once or never; an approval is part of the       *)
(* deposit it precedes.                                                    *)
(***************************************************************************)
EXTENDS Naturals, Sequences, FiniteSets

CONSTANTS Workers, MaxRows, MaxCreates,
          Callback            \* is a receiver contract configured?

ASSUME JobAssumption ==
  /\ MaxRows \in Nat \ {0}
  /\ MaxCreates \in Nat \ {0}
  /\ Callback \in BOOLEAN

VARIABLES jobs,               \* the rows, by creation
          creates,            \* the signer's createJob transactions
          escrow,             \* does the escrow hold a job's price?
          working,            \* what each worker is doing
          unanswered          \* creations of each row whose answer was lost

jobVars == <<jobs, creates, escrow, working, unanswered>>

\* CANCEL_PENDING is left out: only a route that has already answered 404 sets it.
JobState == {"PREPARING", "ESCROW_READY", "SUBMITTED", "FUNDED", "TERMINAL",
             "CANCELLED", "FAILED"}
Job == [state: JobState, chainState: {"NONE", "FUNDED", "TERMINAL", "CANCELLED"},
        create: 0 .. MaxCreates, id: 0 .. MaxCreates, verified: BOOLEAN]
NewJob == [state |-> "PREPARING", chainState |-> "NONE", create |-> 0, id |-> 0,
           verified |-> FALSE]

\* A job's identity on the chain is the index of the transaction that made it.
Creation == [receipt: {"PENDING", "CONFIRMED", "FAILED"},
             state: {"NONE", "FUNDED", "TERMINAL", "CANCELLED"}, delivered: BOOLEAN]

Step == {"repair", "preflight", "deposit", "create", "receipt", "watch",
         "reconcile", "fund", "cancel"}
Resting == [step |-> "rest"]
Busy == [step: Step, row: 1 .. MaxRows, seen: Job]

JobTypeOK ==
  /\ jobs \in Seq(Job) /\ Len(jobs) <= MaxRows
  /\ creates \in Seq(Creation) /\ Len(creates) <= MaxCreates
  /\ escrow \in BOOLEAN
  /\ working \in [Workers -> Busy \union {Resting}]
  /\ unanswered \in [1 .. MaxRows -> 0 .. MaxCreates]

JobInit ==
  /\ jobs = <<>>
  /\ creates = <<>>
  /\ escrow = FALSE
  /\ working = [w \in Workers |-> Resting]
  /\ unanswered = [i \in 1 .. MaxRows |-> 0]

-----------------------------------------------------------------------------
(* What a worker writes.                                                   *)

\* A commit changes the columns in which the worker's copy differs from what
\* it last loaded or wrote, and no other.
Merge(row, seen, new) ==
  [f \in DOMAIN row |-> IF new[f] # seen[f] THEN new[f] ELSE row[f]]

Seen(w) == working[w].seen
At(w, step) == working[w].step = step

Commit(w, new) ==
  jobs' = [jobs EXCEPT ![working[w].row] = Merge(@, Seen(w), new)]
Proceed(w, step, new) ==
  /\ Commit(w, new)
  /\ working' = [working EXCEPT ![w].step = step, ![w].seen = new]
Leave(w, new) ==
  /\ Commit(w, new)
  /\ working' = [working EXCEPT ![w] = Resting]
LeaveUnchanged(w) == Leave(w, Seen(w))

\* execute_erc8183_job's except clause: any error ends in FAILED.
Fail(w) == Leave(w, [Seen(w) EXCEPT !.state = "FAILED"])

Chain(w) == creates[Seen(w).id]

\* _verify_callback: the receiver's proof, which an outage hides.
Proofs(seen) ==
  IF ~Callback THEN {seen.verified}
  ELSE IF creates[seen.id].delivered THEN BOOLEAN ELSE {FALSE}

\* _mark_terminal of a job the chain reports terminal.
Marked(seen) ==
  {[seen EXCEPT !.state = "TERMINAL", !.chainState = "TERMINAL", !.verified = v] :
     v \in Proofs(seen)}

-----------------------------------------------------------------------------
(* Requests and deliveries.                                                *)

\* request_fixture answers with a row that is open or served, if there is one.
RequestFixture ==
  /\ Len(jobs) < MaxRows
  /\ \A i \in DOMAIN jobs : jobs[i].state \in {"FAILED", "CANCELLED"}
  /\ jobs' = Append(jobs, NewJob)
  /\ UNCHANGED <<creates, escrow, working, unanswered>>

Executing == {"repair", "preflight", "deposit", "create", "receipt", "watch"}

\* cancellation_allowed
Cancellable(job) == job.state = "FUNDED" /\ job.chainState = "FUNDED" /\ job.id # 0

\* A task's message reaches a worker, which loads the row.  One message is
\* sent for a request, so no two workers execute one row at a time.
Deliver(w, i, step) ==
  /\ working[w] = Resting
  /\ \/ /\ step = (IF jobs[i].state = "TERMINAL" THEN "repair" ELSE "preflight")
        /\ \A v \in Workers : working[v].step \in Executing => working[v].row # i
     \/ /\ step = "reconcile"
        /\ jobs[i].id # 0
     \/ /\ step = "fund"
        /\ jobs[i].state \in {"PREPARING", "ESCROW_READY"}
     \/ /\ step = "cancel"
        /\ Cancellable(jobs[i])
  /\ working' = [working EXCEPT ![w] = [step |-> step, row |-> i, seen |-> jobs[i]]]
  /\ UNCHANGED <<jobs, creates, escrow, unanswered>>

\* These tasks are acknowledged when they start: a dead worker's is gone.
JobWorkerDies(w) ==
  /\ working[w] # Resting
  /\ working' = [working EXCEPT ![w] = Resting]
  /\ UNCHANGED <<jobs, creates, escrow, unanswered>>

-----------------------------------------------------------------------------
(* execute_erc8183_job                                                     *)

\* Any call of the gateway may find no answer.
Outage(w) ==
  /\ working[w].step \in Executing \ {"create"}
  /\ ~(At(w, "repair") /\ (Seen(w).verified \/ ~Callback))
  /\ Fail(w)
  /\ UNCHANGED <<creates, escrow, unanswered>>

\* A redelivered terminal job repairs its telemetry and its callback proof.
Repair(w) ==
  /\ At(w, "repair")
  /\ IF Seen(w).verified \/ ~Callback
     THEN LeaveUnchanged(w)
     ELSE \E new \in Marked(Seen(w)) : Leave(w, new)
  /\ UNCHANGED <<creates, escrow, unanswered>>

\* A creation is attempted only while none is on record.
Uncreated_AnyReceipt(seen) == seen.id = 0
Uncreated(seen) == seen.id = 0 /\ seen.create = 0

Preflight(w) ==
  /\ At(w, "preflight")
  /\ \/ LeaveUnchanged(w)                       \* writes are disabled
     \/ /\ Uncreated(Seen(w))
        /\ IF escrow
           THEN Proceed(w, "create", [Seen(w) EXCEPT !.state = "ESCROW_READY"])
           ELSE Proceed(w, "deposit", Seen(w))
     \/ /\ ~Uncreated(Seen(w))
        /\ Proceed(w, IF Seen(w).id = 0 THEN "receipt" ELSE "watch", Seen(w))
  /\ UNCHANGED <<creates, escrow, unanswered>>

\* depositTelegraphEscrow accepts the exact top-up of an empty escrow.
Deposit(w) ==
  /\ At(w, "deposit")
  /\ ~escrow
  /\ escrow' = TRUE
  /\ \/ Proceed(w, "create", [Seen(w) EXCEPT !.state = "ESCROW_READY"])
     \/ Fail(w)
  /\ UNCHANGED <<creates, unanswered>>

\* createTelegraphJob sends the transaction and answers with its hash.
Submit == creates' = Append(creates, [receipt |-> "PENDING", state |-> "NONE",
                                      delivered |-> FALSE])

Create(w) ==
  /\ At(w, "create")
  /\ escrow
  /\ Len(creates) < MaxCreates
  /\ Submit
  /\ Proceed(w, "receipt",
             [Seen(w) EXCEPT !.state = "SUBMITTED", !.create = Len(creates) + 1])
  /\ UNCHANGED <<escrow, unanswered>>

\* The transaction is sent and the worker does not learn its hash.
CreateUnanswered(w) ==
  /\ At(w, "create")
  /\ escrow
  /\ Len(creates) < MaxCreates
  /\ Submit
  /\ unanswered' = [unanswered EXCEPT ![working[w].row] = @ + 1]
  /\ Fail(w) \/ (UNCHANGED jobs /\ working' = [working EXCEPT ![w] = Resting])
  /\ UNCHANGED escrow

CreateRefused(w) ==
  /\ At(w, "create")
  /\ Fail(w)
  /\ UNCHANGED <<creates, escrow, unanswered>>

Receipt(w) ==
  /\ At(w, "receipt")
  /\ LET create == creates[Seen(w).create] IN
     \/ create.receipt = "PENDING" /\ LeaveUnchanged(w)
     \/ create.receipt = "FAILED" /\ Fail(w)
     \/ /\ create.receipt = "CONFIRMED"
        /\ Proceed(w, "watch",
                   [Seen(w) EXCEPT !.state = "FUNDED", !.id = Seen(w).create])
  /\ UNCHANGED <<creates, escrow, unanswered>>

Funded(seen) == [seen EXCEPT !.state = "FUNDED", !.chainState = "FUNDED"]

\* What the chain's state makes of a row whose job is no longer funded.
Observed_NotFundedIsTerminal(seen) ==
  IF creates[seen.id].state = "FUNDED" THEN {} ELSE Marked(seen)
Observed(seen) ==
  CASE creates[seen.id].state = "CANCELLED" -> {[seen EXCEPT !.state = "CANCELLED"]}
    [] creates[seen.id].state = "TERMINAL"  -> Marked(seen)
    [] OTHER -> {}

Watch(w) ==
  /\ At(w, "watch")
  /\ \/ /\ Chain(w).state = "FUNDED"
        /\ Proceed(w, "watch", Funded(Seen(w))) \/ Leave(w, Funded(Seen(w)))
     \/ \E new \in Observed(Seen(w)) : Leave(w, new)
  /\ UNCHANGED <<creates, escrow, unanswered>>

-----------------------------------------------------------------------------
(* The other tasks                                                         *)

\* reconcile_erc8183_job only reads the chain; an error leaves the row alone.
Reconcile(w) ==
  /\ At(w, "reconcile")
  /\ \/ LeaveUnchanged(w)
     \/ /\ ~(Seen(w).state = "TERMINAL" /\ Seen(w).verified)
        /\ \/ Chain(w).state = "FUNDED" /\ Leave(w, Funded(Seen(w)))
           \/ \E new \in Observed(Seen(w)) :
                Leave(w, [new EXCEPT !.chainState = new.state])
  /\ UNCHANGED <<creates, escrow, unanswered>>

\* fund_erc8183_escrow tops up, or finds the escrow full; its errors write no
\* state, whether or not the deposit took effect.
Fund(w) ==
  /\ At(w, "fund")
  /\ \/ Leave(w, [Seen(w) EXCEPT !.state = "ESCROW_READY"]) /\ escrow' = TRUE
     \/ LeaveUnchanged(w) /\ escrow' \in {escrow, TRUE}
  /\ UNCHANGED <<creates, unanswered>>

\* cancel_erc8183_job: the diamond cancels a funded job; what follows on the
\* row needs the answer and a reading of the chain.
Cancel(w) ==
  /\ At(w, "cancel")
  /\ \/ LeaveUnchanged(w) /\ UNCHANGED creates
     \/ /\ Chain(w).state = "FUNDED"
        /\ creates' = [creates EXCEPT ![Seen(w).id].state = "CANCELLED"]
        /\ \/ Leave(w, [Seen(w) EXCEPT !.state = "CANCELLED",
                                       !.chainState = "CANCELLED"])
           \/ LeaveUnchanged(w)
  /\ UNCHANGED <<escrow, unanswered>>

-----------------------------------------------------------------------------
(* The chain                                                               *)

\* A creation takes the price out of the escrow or reverts.
MineCreate(k) ==
  /\ creates[k].receipt = "PENDING"
  /\ creates' = [creates EXCEPT ![k].receipt = IF escrow THEN "CONFIRMED" ELSE "FAILED",
                                ![k].state = IF escrow THEN "FUNDED" ELSE "NONE"]
  /\ escrow' = FALSE
  /\ UNCHANGED <<jobs, working, unanswered>>

\* A miner serves the job.
Serve(k) ==
  /\ creates[k].state = "FUNDED"
  /\ creates' = [creates EXCEPT ![k].state = "TERMINAL"]
  /\ UNCHANGED <<jobs, escrow, working, unanswered>>

DeliverCallback(k) ==
  /\ Callback
  /\ creates[k].state = "TERMINAL"
  /\ ~creates[k].delivered
  /\ creates' = [creates EXCEPT ![k].delivered = TRUE]
  /\ UNCHANGED <<jobs, escrow, working, unanswered>>

-----------------------------------------------------------------------------
Execute(w) ==
  \/ Outage(w) \/ Repair(w) \/ Preflight(w) \/ Deposit(w)
  \/ Create(w) \/ CreateUnanswered(w) \/ CreateRefused(w) \/ Receipt(w) \/ Watch(w)
WorkerStep(w) == Execute(w) \/ Reconcile(w) \/ Fund(w) \/ Cancel(w) \/ JobWorkerDies(w)
ChainStep == \E k \in DOMAIN creates : MineCreate(k) \/ Serve(k) \/ DeliverCallback(k)

-----------------------------------------------------------------------------
(* Whatever a stale copy writes, a row that says TERMINAL or CANCELLED is  *)
(* about a job of the row's own creation that the chain closed that way,   *)
(* and a callback counts as verified only when the receiver stored the     *)
(* answer (execute_erc8183_job, reconcile_erc8183_job, cancel_erc8183_job  *)
(* may all hold copies of one row).                                        *)
ClosedOnChain ==
  \A i \in DOMAIN jobs :
    /\ jobs[i].id # 0 => jobs[i].id = jobs[i].create
    /\ jobs[i].state \in {"TERMINAL", "CANCELLED"} =>
         jobs[i].id # 0 /\ creates[jobs[i].id].state = jobs[i].state
    /\ jobs[i].verified => creates[jobs[i].id].delivered

(* No retry, redelivery or receipt timeout creates a second job for a row: *)
(* beyond the first, a creation is paid only when the answer to an earlier *)
(* one was lost, and two rows never share one (create_tx_hash is the       *)
(* claim).                                                                 *)
CreatedPerLostAnswer ==
  /\ \A i, j \in DOMAIN jobs :
       i # j /\ jobs[i].create # 0 => jobs[i].create # jobs[j].create
  /\ Len(creates) = Cardinality({i \in DOMAIN jobs : jobs[i].create # 0})
                    + Cardinality({u \in (1 .. MaxRows) \X (1 .. MaxCreates) :
                                     u[2] <= unanswered[u[1]]})
=============================================================================
