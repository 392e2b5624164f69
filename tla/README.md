# PRAMA-Dynamagh in TLA+

PRAMA-Dynamagh takes a *mandate* (a paid question), buys evidence for it from a
network of miners through a gateway, evaluates the evidence and issues a ticket
with a decision. Money moves: a daily cap, per-mandate budgets, per-user credit
and payments that may or may not have happened when a process dies. Agents act
on their own, under delegated profiles and a longitudinal policy (G13) that may
stop them and that operators may lift. Tickets can be anchored on a chain, jobs
can be bought on one, and who saw a ticket is itself on record. These modules
state and check what the backend promises about the money, the life of a
mandate, the authority an agent acts under and what a ticket proves. Paths below are relative to `src/backend/app/` unless they say
otherwise.

## The system

| Component | State it keeps | Operations | Model |
|---|---|---|---|
| Spend ledger, G12 (`public_safety.py`) | one row per UTC day (reserved, spent), one reservation per mandate | reserve (conditional upsert), verify, settle in parts or finally, release | `SpendLedger` |
| User credit (`users/credit.py`, migration `0020_user_credit`) | append-only entries per user: grant, reservations, settlements, releases | grant once, reserve, verify, settle, release; an insert guard in the database | `UserCredit` |
| Mandate state machine (`domain/state_machine.py`) | `Mandate.status` | `transition_mandate` over a fixed table | `MandateLifecycle` (abstract) |
| Acquisition pipeline (`api/mandates.py`, `api/users.py`, `api/m2m.py`, `workers/tasks.py`, `workers/acquisition.py`) | mandates, tasks, calls, uncertainty events, broker messages, Redis locks | create and publish, `execute_one`, `advance`, redelivery | `MandatePipeline` |
| Evaluation and ticket (`evaluate_mandate`, `pramagraph/`, `tickets/service.py`) | evidence, decision, ticket | classify, `structural_state`, `decide`, `issue` | `MandatePipeline` |
| Autonomous scheduler (`autonomy/service.py`, `autonomy_tick`) | runs of a policy | `recover_runs`, `schedule_due`, `claim_run`, `execute_claimed`, `finalize_http_run` | `AutonomyRuns` |
| Adapters and gateway (`acquisition/`, `src/gateway/`) | a payment, its answer | `acquire` | external actor in `MandatePipeline` |
| Delegated authority and permits (`authority/delegated.py`, `profiles.py`, `composition.py`) | profiles, their status changes with effective times, one-shot permits | create, version, change status; issue a permit, read everything again and consume it | `AuthorityProfiles`, `ExecutionCommitment` |
| G13 longitudinal authority (`authority/autonomy.py`, `runtime.py`, `recovery.py`, `binding.py`, `bootstrap.py`, `agents/observation.py`) | evaluations, recovery events, the policy binding, bootstrap grants, consumed observations | build the agent's stream, evaluate a window of it, record a recovery, grant, probe | `G13Policy`, `G13Recovery`, `AgentTrajectory`, `ExecutionCommitment` |
| x402 seller (`api/x402.py`) | inbound payment rows by idempotency key | verify, put on record, settle, create the mandate, replay | `X402Seller`, `MandateIntake` |
| M2M intake (`api/m2m.py`) | one row per idempotency key | create once, replay | `M2MIntake`, `MandateIntake` |
| Machine agent identities (`agents/identity.py`) | the context an agent id belongs to | establish | `AgentIdentity` |
| Ticket anchoring (`anchors/`, `execute_ticket_anchor`, `chain.ts`) | anchor columns of a ticket, its one attempt | request, submit, read the receipt | `TicketAnchor` |
| ERC8183 jobs (`erc8183/`, four tasks of `workers/tasks.py`, `src/gateway/src/erc8183.ts`) | job rows, the escrow, callbacks | request, execute, reconcile, fund, cancel, promote | `ERC8183Job`, `CertifiedEvidence` |
| Disclosure (`tickets/disclosure.py`, `delivery.py`, `human_presence.py`, `api/disclosure.py`, `titular_check.py`, `agents/disclosure_memory.py`) | append-only facts, access attempts, signed grants | deliver, present, challenge, read, acknowledge, judge | `TitularDisclosure` |
| Epistemic evaluation, provenance observer, authentication, read APIs, frontend | | | see *What is not modelled* |

They interact through one PostgreSQL database (row locks and commits), one
RabbitMQ queue consumed by two worker processes, and one Redis used for locks.
The API commits a mandate and then publishes a message; a worker handles one
message at a time in several transactions and publishes the next message
itself; the beat starts `autonomy_tick` every minute. Nothing else synchronizes
them, so what is hard is what happens *between* two commits: another worker,
the death of this one and the redelivery of its message (`acks_late`), the end
of the 300 s Redis lease, a broker outage after a commit, recovery resetting a
row a live worker is using, and a gateway that paid and did not answer.

Per component, what makes it correct:

* **ledger**: spent + reserved stays under the cap, a mandate stays within the
  budget it reserved, the day's row is the sum of its reservations, spent money
  and closed reservations never change;
* **credit**: no user exceeds the grant, and credit and ledger agree;
* **pipeline**: at most one contact with the gateway per acquisition; what was
  paid is spent or still covered; an uncertain payment keeps its maximum; the
  books are closed exactly when acquisition is over; mandates follow their life
  cycle, are decided once, and get closed;
* **scheduler**: a run is completed only with its ticket, and no run blocks its
  policy for ever;
* **paid intake** (x402 and M2M): money is on record before it moves, one payment
  buys one mandate, a lost race leaves nothing reserved, and an idempotency key
  keeps naming the mandate it created, to the request that created it;
* **authority**: nothing is dispatched on authority withdrawn since the permit; a
  revocation is final and the past of a profile is fixed; the policy version in
  force was granted by a recovery; a recovery buys one canary or probe; failures
  that repeat stop the agent and its own denials do not;
* **chain**: a row or ticket that claims something happened on the chain is right,
  although workers write from copies read before their gateway calls; no retry
  pays twice unless an answer was lost;
* **disclosure**: each fact rests on the facts before it, verdicts do not change,
  the access limits hold although requests wait for locks after they read the
  clock.

## Modules

`SpendLedger` — one action per function of `public_safety.py`. `ledger[d]` is
the row of day `d`, `res[m]` the reservation row of mandate `m` (status, day,
origin, reserved, actual), `budget[m]` is `Mandate.max_budget_usdc`. The
conditional upsert is `ReserveOK`; `SettleSeen` is `settle_spend` over the
reservation object the session holds, which is the row itself in `Settle` and
may be an older copy in the pipeline. Amounts are natural numbers of
micro-USDC (`quantize`).

`UserCredit` — the entries of the append-only ledger are kept as their sums,
`granted[u]` and `credit[m]`; `FitsAvailable` is the view
`user_credit_balances`, `CreditCovers` is `verify_reserved` and what the insert
guard asks of a settlement.

`MandateLifecycle` — the abstract specification: forward moves along
`ALLOWED_TRANSITIONS`, a decision recorded once and before the ticket, a ticket
that carries it, closed mandates that never change. One transaction may make
several moves, so a step goes to any state reachable along the table
(`CanReach`); the exact table is used by the pipeline's `Transition`, which
raises, as the code does, where a move is not allowed.

`MandatePipeline` — extends both ledgers and composes everything a mandate goes
through. A worker's `pc` names the commit it stands between:

| steps | code |
|---|---|
| `Create`, `Publish`, `PublishLost`, `Republish` | `create_mandate`, the USER and M2M endpoints (the scheduler creates its mandates in the same way), `delay()` after the commit, a client's retry |
| `Deliver`, `DropLocked`, `Finish`, `LockExpires` | `execute_acquisition`: `SET NX EX 300`, `"LOCKED"`, the `finally` block |
| `Claim`, `ClaimRefused` | first transaction of `execute_one` |
| `Request`, `PrepareFails`, `Authorize`, `Deny` | budget, reservation, the unique call row; for AUTONOMOUS also checkpoint and permit |
| `Send`, `Receive`, `SettleCall`, `SettleFails`, `Fail` | the gateway, the commit of the answer, the settlement, the `except` branch |
| `AdvanceStops`, `AdvanceNext`, `AdvanceLost`, `AdvanceBlocked`, `AdvanceClose`, `AdvanceRaises`, `AdvanceAgain` | `advance` |
| `EvaluateStops`, `Evaluate`, `EvaluateStrict`, `TicketDecided`, `IssueTicket`, `Finalize` | `evaluate_mandate`, `issue` |
| `Crash`, `Midnight` | the environment |

`sent` and `paid` record what the gateway saw; no action reads them.

`AutonomyRuns` — extends the pipeline with the tick (`tick`, `due`: which step
it is at, for which run), the runs, and recovery as one transaction with its
three passes. `autoflush` is off in this code, so the second pass does not see
what the first one changed; `Requeued` and `Orphaned` say which rows each pass
reads. Real time is reduced to two booleans: whether less than the recovery
grace has passed since `run.updated_at` and since `task.started_at`. A run is
named by the mandate it creates. `admits` says whether `schedule_due` gets past its
gates (autonomy and policy switched on, the identity neither HALTED nor under
REVIEW_REQUIRED without a REVIEW to record, a profile in force): `GateMoves`
opens and closes them at any time, as operators and evaluations do, and behind
closed gates neither a new slot nor a run scheduled before is returned. `TickEnds`
is a tick with nothing to do, `TickDies` one that raises or is killed with something
left to do. `CloseOwnRun` conjoins the pipeline's steps
that call `finalize_http_run` with its effect on the run.

`IdempotentIntake` — what an `Idempotency-Key` promises: the first accepted
request binds it to a mandate of its own, and later answers name that mandate, to
that request only.

`M2MIntake` — `create_m2m_mandate`. The handler is synchronous and runs in
threads: `SubmitNew` is the look-up that finds nothing, `CreateMandate` the
transaction that commits, `CreateCollides` the loser of a race on the unique key
(everything rolled back, then the replay), `AnswerCreated` the publication and
the 202.

`X402Seller` — `public_x402_ask`. The handler is a coroutine that never yields
after it has read the body, so it races only with other server processes (the
image starts one; two run while a deployment replaces it, or when it is scaled).
`xpc` names the commit or the call it stands after: `PutOnRecord`
(`_create_verified_payment`), `SettleSucceeds` / `SettleFails`, `RecordFailure`,
`LookUpAgent` and `CreateSettled` (`_create_settled_mandate`), `AnswerPaid`.
`charged` is the chain's view: the facilitator moves an authorization once and
says so only to the call that moved it; a refusal or a time-out says nothing.
The fingerprint of a request is kept inside `settlement_reference`; `legible`
says whether what is stored there still parses.

`AgentIdentity` — `get_or_create_m2m_identity`. `CreateSettled` uses it in the
middle of a transaction, and an insertion that collides there rolls back what
the transaction had written before.

`MandateIntake` — both rails over one ledger and one table of identities, and
the two refinement mappings to `IdempotentIntake`.

`AuthorityProfiles` — `authority/profiles.py`: immutable versioned grants and an
append-only list of status changes with effective times. `Changeable` is the
guard of `set_authority_profile_status`, `EffectiveStatus` and `Resolve` are what
every later check reads.

`G13Policy` — `authority/autonomy.py` as operators: from observations to the
window, the causal units, the rules of v0.1 to v0.5 and the verdict; `Gate` is
the composition with the local decision and the economic authority. `Versions`
are written 1 to 5.

`G13Recovery` — the four recovery contracts (`Contract`), the binding they move
(`Activate`), and bootstrap grants. A recovery and the binding are one commit.

`AgentTrajectory` — what the policy sees of an agent: `Stream` is
`build_o_agent_stream` and `Selected` the window of `evaluate_current_g13`. Two
observations stand for the artifacts of a run, one that carries its failure and a
later one that does not, because the code spreads a run's facts over artifacts
that enter the window at different instants. Instants are counted in recoveries,
since a recovery is the only thing the window is cut by.

`ExecutionCommitment` — extends all of them with the runs of one agent. The
stages of `job` are the commits of one dispatch:

| step | code |
|---|---|
| `ScheduleDue` | evaluation, admission and the row of the run (`schedule_due`, every tick persists its evaluation) |
| `ExecuteClaimed` | `claim_run`, `execute_claimed` up to the tasks |
| `Prepare`, `Retry` | first transactions of `execute_one`: the budget, the durable call, the one observation |
| `IssuePermit` | the shadow checkpoints and `issue_execution_permit` |
| `Commit` | `consume_execution_permit`: authority is read again and the permit consumed, one transaction |
| `Answer`, `Conclude`, `Abandon` | the network's answer, the rest of the pipeline, an orphaned run |
| `Administer`, `Recover`, `ManageGrants`, `SwitchFlag`, `SwitchPolicy`, `OtherAgentProbes` | operators and other agents, between any two of the above |

`ERC8183Job` — one row per requested job, copies of it in workers. SQLAlchemy
writes the columns that differ from what a session last loaded or wrote, so
`Merge` writes the difference between the worker's old and new copy onto whatever
the row is by then. `Deliver` loads the copy; the steps of `execute_erc8183_job`
are separated at its commits and gateway calls; `Outage`, `CreateUnanswered` and
`JobWorkerDies` are the failures. The chain, its miner and the receiver contract
are external actions (`MineCreate`, `Serve`, `DeliverCallback`).

`TicketAnchor` — `request_anchor` and `execute_ticket_anchor` in the same way,
against a contract that keeps the first anchor of a hash.

`CertifiedEvidence` — extends both with the promotion of a verified job to a
ticket (`Reconstruct`, `Promote`); one pool of workers runs all tasks. No route or
schedule enables these writes by itself: operators send the tasks. The model sends
them in any order and any number of times, with one exception: no two workers execute
one row at the same time (see *What is not modelled*). The state
CANCEL_PENDING is left out: only the body of a route that has already answered 404
sets it (`main.py:127`).

`TitularDisclosure` — facts are stamped when they are inserted (`Stamp`) and count
from their commit (`CommitFacts`, `RollBack`); `Insert` is a transaction whose
insert and commit nothing comes between. `Added` is `INSERT ... DO NOTHING` by
the event's deterministic identity. `Ask` reads the clock and `LimitAccess` counts
later, with its locks; `Verdict` is `replay_disclosure`.

`MC*` modules give the constants values for TLC. Operators described as *mutant
of X* are variations of `X` with a plausible programming error, used to confirm
that the properties notice it; no specification uses them.

## Runs

| run | instance | what it shows |
|---|---|---|
| `PipelineSafety` | a manual mandate of up to 2 tasks, the first required and the second optional, or an autonomous one of 1 task whose profile is above the ceiling `advance` uses; budget 0..3, calls of at most 2, 2 workers, 2 deaths, outages | `PaidIsCovered`, `HoldIsKept`, `ClosedBooks`, `PermitIsEarned`, `WithinBudget` over settlements in parts and a later release, and that the pipeline implements `MandateLifecycle` and touches the ledger only by its operations (`UsesLedger`) |
| `PipelineLiveness` | a manual mandate of 2 required tasks, or a user's that is published again and again; midnight, no deaths, no outages | `EveryMandateCloses` |
| `PipelineContention` | 2 mandates of one user, of one task and 1 or 2 units each, a grant of 3, a cap of 2, 2 workers; part "days": midnight and 1 death; part "retries": a client publishes again | `DailyCap`, `ReservedBacked`, `SpentIsFinal` of the daily ledger, `NoOverdraft` and `CreditMatches` of the user's |
| `RunsSafety` | 1 run, 2 workers that may outlast the grace, 1 death | `AtMostOnePayment`, `CompletedIsTicketed` |
| `RunsProgress` | 1 run, 1 worker, 1 death, a delegated budget above the M2M ceiling, gates that open and close | `EveryRunCloses`, `ReservedBacked` under releases by recovery; checked for deadlock as well |
| `IntakeSafety` | 2 processes, 2 threads, 2 mandates under a cap of 2; four asks: one key with two payments and two requests, each payment without a key, one of them anonymous; one M2M key with two requests | `ChargedIsOnRecord`, `WorkIsPaid`, `OneRequestPerReservation`, `ImplementsIntake` |
| `Authority` | part "profiles": 1 run, bound to v0.2 at first, 1 recovery, 2 profile versions, 2 changes, 2 instants, the global switch; part "grants": the same run and recovery with 1 bootstrap grant under a fixed profile and both switches; part "trajectory": 3 runs, 2 recoveries, bindings v0.3 to v0.5, probes of other agents, one profile in force | `RevocationIsFinal`, `PastIsFixed`, `NoStaleDispatch`, `FirstIsCanary`, `DenialsLeaveNoTrace`, `OneProbePerRecovery`, `RepeatedFailuresStop`, `EvaluationsAreReproducible`, `BindingIsEarned`, `NeverDowngraded`, each in every part |
| `TicketServices` | evidence: 1 job row, 2 creations, 2 anchor transactions, 2 workers; disclosure: 2 receipts of which the agent owns one, 2 browsers behind one address, 2 sessions, 3 instants | `ClosedOnChain`, `CreatedPerLostAnswer`, `CertifiedIsProven`; `DisclosureIsEarned`, `VerdictsAreFinal`, `AccessIsLimited` |
| `PipelineRedelivery` | 1 mandate, 1 death | **violated**: `ResumesOnRedelivery`, see below |
| `RunsRecovery` | 1 run, 1 worker, 1 death, quick workers | **violated**: `PaidIsCovered`, see below |
| `IntakeReplay` | 1 process, 1 thread, the same asks | **violated**: `ReplayIsAnswered`, see below |
| `AuthorityBootstrap` | 1 run, 1 bootstrap grant, nothing else moves | **violated**: `ColdStartActs`, see below |

Why the bounds are enough for what is asked: the protocols distinguish a task
that is the last of its mandate from one that is not (two tasks), a worker from
"the other one" (two workers; the deployment has two), a call that uses up the
budget from one that leaves a remainder (3 units, calls of at most 2), a
reservation that fits under the cap from one that does not. Two deaths let a
redelivery die as well. `MaxCopies` bounds what clients' retries (`Republish`) and
the scheduler's tick (`TickPublish`) add to the queue; redeliveries and hand-overs
always fit. In `PipelineSafety` and `PipelineLiveness` a behaviour is about one of two
mandates, the one that is created first (`OneAtATime` restricts `Create` alone, which
has no fairness); an autonomous mandate has one task there, since the tick publishes
only the task of a mandate that has one. In `PipelineContention` either mandate alone fits the grant and the cap,
and both together exceed the cap, the grant, or (one unit each) neither; so each
ledger refuses what the other one allows. Midnight with a death, and retries, are two
parts of the instance (`MCPipelineContention`) because TLC cannot do all at once. Each bound is a named constant.
The pipeline's runs switch deadlock checking off because the system may stop:
everything closed, or a mandate whose message was lost. The scheduler never
stops and its runs check for deadlock, and so do the intake's: a client can
always ask again. In the intake every process and thread may die at every step,
any number of times, and asks are never used up: a client may send each of the
four as often as it likes. Two processes and two threads are the smallest number
that race; one agent id is claimed by a wallet and by the M2M token, so identities collide.
The intake's state holds no counter, so nothing else is bounded.

The authority's instances end with their last run (`Ended` in `MCAuthority`);
what operators may do afterwards they may also do between the runs. Two changes of
two profiles are what it takes to revive a revoked one, to overlap and to replace.
Three runs are what it takes to fail, to fail again and to be stopped, or to probe,
be withheld and probe again; for that the instances set the review threshold of
external failures to 2 and the window to 3 runs, where the code has 3 and 16: both
are constants of the modules. One failure short of the threshold happens at these
values; a run falling out of a full window does not, and a stop that was due before
it fell out is not asked about. `MCAuthority` and `MCTickets` split an instance into
`part`s that share nothing a property relates, so that TLC explores the sum of
their state spaces and not the product: the modules themselves have no such limit.
Two creations and two anchor transactions are one more than a correct row needs;
jobs and disclosures may stop, so `TicketServices` does not check for deadlock.

Fairness (`Fairness`, `RunsFairness`): a worker that holds a message takes its
next step, because it is a process running straight-line code with time-outs on
every external call; the broker hands queued messages to free workers; the API
process publishes what it committed; a Redis lease and a recovery grace end. The
beat keeps ticking and a tick goes on (weak fairness of `Tick`); ticks may raise
or be killed at any commit and any number of times, but not for ever: from some
moment on no tick dies with something left to do. That also stands for the policies
before this one in the tick's loop, an exception of which ends the tick.

Nothing is assumed of the gates of `schedule_due`. It returns nothing for ever for
an agent that is HALTED, under REVIEW_REQUIRED or without a profile, or with autonomy
or the policy switched off (`autonomy/service.py:180-245`), and then a SCHEDULED run
stays so. `EveryRunCloses` therefore says two things: a RUNNING run stops being
RUNNING whatever the gates do, because `recover_runs` comes before them; and an active
run is closed if the gates stay open in the end, a premise written in the property
and not in the fairness. Where the premise fails nothing gets the run closed; text and
code promise nothing there (the hazard at `autonomy/service.py:234`).

The authority, chain and disclosure modules state no liveness and assume no
fairness: operators, clients and chains owe nothing. Nothing is assumed of the
gateway's answers, of crashes, of clients' retries, or that a slot ever comes due.

### Four disagreements between text and code

1. `advance` is documented to *"Resume dispatch on redelivery"*
   (`workers/acquisition.py:770`). After a worker's death the broker redelivers
   its message at once, the dead worker's Redis key is still there for up to
   300 s, and the new worker returns `"LOCKED"` (`workers/tasks.py:79`), which
   acknowledges the message. Nobody publishes another: the mandate stays
   ACQUIRING. `PipelineRedelivery` shows it under full fairness. Autonomous
   mandates are picked up by recovery, users' by a retry while queued; manual
   and M2M mandates are not.
2. *"A network outcome that cannot be established holds its maximum"*
   (`workers/acquisition.py:3-4`). `PaidIsCovered` holds in `PipelineSafety`
   with two deaths at any step. With recovery it does not: the requeue of a
   RUNNING task (`autonomy/service.py:510`) leads to a second claim that fails
   on the unique call row before the network, overwrites the call as
   NOT_EXECUTED without an uncertainty event, and lets `advance` hand back the
   reservation that covered the payment (`RunsRecovery`).
3. *"An idempotent replay of an already-settled request does not settle again
   and returns `result_capability: null`"* (`docs/M2M_X402_RESULT_ACCESS.md:38`;
   `test_same_idempotency_replays_without_facilitator_or_second_settlement`
   asserts the 202). The code cuts what it stores about the settlement at 255
   characters (`api/x402.py:539`); with the facilitator's ordinary answer the JSON
   has 274, the fingerprint can no longer be read and the replay is answered 409
   (`IntakeReplay`). With short receipts (`LongReceipts = FALSE`) and two
   processes the same property fails in a second way: the insertion of the agent's
   identity collides, the rollback discards the SETTLED status, and the mandate is
   linked to a row that stays VERIFIED.
4. A bootstrap grant is *"Bounded cold-start authority"* (`authority/bootstrap.py:1`),
   to be consumed *"at the external-action commitment"* (line 247; also
   `docs/FULL_AUTONOMY.md:89-91`), and `test_g13_bootstrap.py:269` shows the scheduler
   create *"the bounded cold start run"*. That run never acts. Its preparation asks
   `bootstrap_eligibility` again (`workers/acquisition.py:389`), which wants an agent
   without runs (`bootstrap.py:217-222`) whose only fault is the missing trajectory
   (line 215); the run itself is both a run and an incomplete observation. The
   preparation raises G13_REVIEW and the grant stays unused (`AuthorityBootstrap`;
   `ColdStartActs` is what the text promises). `NoDispatchWithoutRecoveryHolds` proves
   that no grant is ever dispatched on, for any number of grants and runs.

## Proofs

All proofs are for arbitrary constants under the modules' named assumptions
(`LedgerAssumption`, `CreditAssumption`, `PipelineAssumption`,
`RunsAssumption`, `IdentityAssumption`, `M2MAssumption`, `SellerAssumption`,
`ProfileAssumptions`, `ThresholdAssumption`, `NoCodeAssumption`, `CodesAssumption`,
`RecoveryAssumptions`, `TrajectoryAssumptions`, `CommitmentAssumptions`,
`DisclosureAssumption`, `JobAssumption`, `AnchorAssumption`). TLC evaluates each of
them in some run. They say that amounts, bounds and times are naturals, that
origins, tasks and requests are typed, that the null record and the null failure
code are no values, that the review threshold is at least one, that a status change
never gives ACTIVE; and three things more:

* there are finitely many mandates and users' mandates (ids are UUIDs), without
  which a day row would be a sum over an infinite set;
* a budget may be spent in any parts: `0 .. x` lies in `Amounts` and `Requests` for
  every `x` in `Budgets`. Amounts are columns of micro-USDC, any of which the code
  accepts up to what is reserved;
* `Maximum` of every origin is one of the `Maxima`: the ceilings the code can pass.

`FiniteSums` has the facts about `SumFunctionOnSet` the money needs: the sum of
the empty set, of all but one element (`SumWithout`), after one row changes
(`SumAfterChange`) or enters or leaves the set (`SumAfterMove`), its bounds. The
operator folds over the set in an order it chooses; a sum that did not exist or that
depended on the order would do so on a smallest set, and that one is refuted. No
induction theorem of the library is used.

`Ledgers_proofs`, the two ledgers on their own:

* `LedgerTypeCorrect`, `DailyCapHolds`, `WithinBudgetHolds`, `SpentIsFinalHolds`,
  `ReservedBackedHolds`. The types are inductive by themselves because settlement
  and release compare the row with the reservation before they subtract; cap and
  budget are inductive together with them. That a day row is the sum of its
  reservations is inductive with the types; each operation changes one reservation
  and one row by the same amount. The settlement lemma is stated for any reservation
  record, since the pipeline settles over a copy.
* `CreditTypeCorrect`, `NoOverdraftHolds`. The types are not inductive (a release
  subtracts); `CreditInv` adds that a mandate settled and released no more than it
  reserved, `Within` the balance.

`MandatePipeline_proofs`, three invariants one upon the other:

* `ClaimInv` proves `AtMostOnePaymentHolds`. "At most one contact" says nothing
  about the states before the contact: a request that was sent has its call row
  (`SentHasCall`), a worker between the commit of the row and the request holds a
  row nobody has used (`SendersAreFresh`), and two such workers hold different
  acquisitions (`SendersDiffer`).
* `StageInv` relates tasks, mandate and workers: what a stage says of the tasks
  (`TasksFit`), that one task of a mandate runs at a time (`OneRunning`) and one
  worker runs it (`BusyDiffer`), where its worker stands (`WorkerStage`), what a
  decision rests on (`DecisionFits`). It proves `LifecycleImplemented` (every step is
  a step of `MandateLifecycle` or a stutter) and `PermitIsEarnedHolds`.
* `BookInv` follows the money through a worker: the reservation a session loaded is
  still the row (`WorkerBooks`), with room for the call beside every uncertain
  payment; a finished call is booked, held or was free (`PaidBooked`); holds fit
  in what is reserved (`HoldCovered`). It proves `LedgerIsUsed` and `CreditIsUsed` (the
  pipeline refines both ledgers, so `LedgersHold` inherits what `Ledgers_proofs`
  shows), `HoldIsKeptHolds`, `ClosedBooksHolds`, `PaidIsCoveredHolds`,
  `CreditMatchesHolds` and, with the queue's types, `PipelineTypeCorrect`.

`AutonomyRuns_proofs`, what recovery leaves true. `recover_runs` requeues tasks
whose worker may be alive, so a task can have two workers: `StageInv` and `BookInv`
are false under `RunsSpec`, and with them much of what they prove (below). Proved are

* `RecoveryNeverPaysTwice`: the tick leaves calls and workers alone
  (`TickLeavesClaims`), so `ClaimInv` stays;
* `CompletedIsTicketedHolds`: nothing moves a mandate out of TICKETED and whoever
  is about to complete a run has issued its ticket (`TicketsFit`, `CompletedFits`);
* `RecoveryKeepsCap`: `DailyCap`, `WithinBudget` and `NoOverdraft`, and
  `SpentStaysSpent`. `CapInv` does not ask that the reservation a session loaded is
  the row, only that the row once was like that (`CallFits`): a settlement over it
  moves what it adds to `spent` out of `reserved`, whichever mandate the amount was
  reserved for, so the row's total and the mandate's budget cannot be exceeded;
* `RunsTypesCorrect`: the types of scheduler and pipeline.

TLC refutes the others under recovery. With the constants of `RunsSafety` it finds
short behaviours against `ReservedBacked` (with a
second mandate: two workers settle one reservation, the second one out of the
other mandate's share of the row), `HoldIsKept`, `ClosedBooks`, `PermitIsEarned` and
`ImplementsLifecycle` (a worker that committed its decision issues the ticket of a
mandate another one has failed meanwhile: `issue` reads the status of the object its
session kept). They have two workers on one task, the first of them alive when its
300 s Redis lease ends, which the 120 s gateway time-out makes unlikely;
`PaidIsCovered` fails with a single worker that dies (`RunsRecovery`).

`MandateIntake_proofs`:

* `IntakeTypeCorrect`, `ChargedIsOnRecordHolds`, `WorkIsPaidHolds`. That a payment
  buys one mandate depends on what happens before the mandate exists, so `SellerInv`
  says who works on which row: a process past the insertion of its row is alone on it
  (`HeldRows`, `HoldersDiffer`, from the unique key); one past a successful settlement
  holds money that moved, has bought nothing and is held by no other such process
  (`CreatorsPaid`, from the facilitator's single success); a linked mandate has its
  reservation (`WorkIsReserved`), so a new mandate is none of the linked ones.
* `OneRequestPerReservationHolds` counts: `OwnedOnce` names the one row, of either
  rail, that a reserved mandate belongs to, and `OwnersKept` carries it through all
  the steps that create none.
* `IntakeImplemented`: both rails implement `IdempotentIntake`. Each mapped step
  binds one key, answers one request, or stutters.

`ExecutionCommitment_proofs`, all of `Spec`, with any number of runs, profiles and
administrative acts:

* `BindingIsEarnedHolds`, `NeverDowngradedHolds`: `BindingInv` adds the types of
  the recovery list, because a contract appends the event it binds.
* `RevocationIsFinalHolds`, `PastIsFixedHolds`, `NoStaleDispatchHolds`. What is read of
  a profile is its last due change, a `CHOOSE`; `ProfilesInv` therefore says that the
  changes of a profile are in the order of their effective times, that nothing
  follows a terminal one (`ChangesInOrder`), that a profile created closed is never
  changed (`ClosedStay`) and that every set of changes has a last element for the
  choice to find (`HasLast`). `NoStaleDispatch` is about one step, `Commit`, and
  follows from its second reading of the authority and the uniqueness in `Resolve`.
* `AuthorityTypeCorrect`, `OneProbePerRecoveryHolds`, `DenialsLeaveNoTraceHolds`,
  `EvaluationsAreReproducibleHolds`. `AuthorityInv` adds that every set
  of recoveries has a newest one (`HasNewest`), that a version older than the
  recoveries names none (`UnboundIsPlain`), and the runs with the work on the last of
  them (`WorkInv`): a denied run has no call that left and no decision
  (`DenialsWithheld`), so it is not among the artifacts the evaluation selects.
* `NoDispatchWithoutRecoveryHolds`, `FirstIsCanaryHolds`, `RepeatedFailuresStopHolds`.
  These are about what the evaluated window contains when a permit is committed.
  `TrajectoryInv` orders the instants of a run (`Timed`), says that nothing was
  recovered under an early version (`EarlyIsEmpty`), that a request is made only under
  a recovered one and on no bootstrap grant (`AskedIsRecovered`), and that an external
  failure belongs to a call that was requested (`FailuresAreSent`). The lemmas on the window show that it is the last
  `WindowSize` of the selected artifacts, latest last, that the run being prepared is
  always the latest (`LatestIsSeen`), and that failures since the recovery include
  the recovery's probe, so no exemption is left. The library's `SelectSeq` and
  `SortSeq` are opaque to the provers, so the model selects and orders with functions
  whose ranges and order are stated.

`TitularDisclosure_proofs`: `DisclosureIsEarnedHolds`, `VerdictsAreFinalHolds`,
`AccessIsLimitedHolds`. `EarnedInv` includes the transactions in flight
(`WritingIsSound`): two of them share no key, a committed fact with the key of
one in flight is the earlier one, and every fact in flight has what it rests on
in its own transaction or committed. With one fact per key (`OnePerKey`), facts only
grow (`FactsOnlyGrow`) and the delivery and presentation a verdict was read from are
the only ones there will ever be. `LimitInv` adds that a waiting request read the
clock in the past: its window, counted from there, contains the one that ends now.

`CertifiedEvidence_proofs`: `ClosedOnChainHolds`, `CertifiedIsProvenHolds`,
`CreatedPerLostAnswerHolds`. A worker commits the columns in which its result differs
from the copy it loaded, so `JobInv` says what rows and copies have in common: each
is true of the chain (`Sound`), a row has the creation and the identity that any
copy knew (`Follows`; an executor's copy still has exactly the row's), no two
executors hold one row (`ExecutorsDiffer`), and a copy shows what the task checked
before it went on (`Knows`). The chain forgets nothing (`Grown`), so what was true of
it stays true. `CountInv` counts the creations: each belongs to one row or its answer
was lost, and no two rows own the same (`OwnersDiffer`). `AnchorInv` says of tickets,
attempts and their copies what `JobInv` says of rows (`TicketTrue`, `AttemptTrue`),
and that a ticket once given a transaction keeps one; with `CertifiedOnly` (only a
proven job's ticket is issued, requested, held or promoted) it gives the second
theorem.

Only model-checked: liveness (`EveryMandateCloses`, `EveryRunCloses`), because
fairness is about ENABLED and neither is in reach of the provers used; `ReservedBacked`
in the scheduler's one-worker instance (`RunsProgress`), since it is false with two;
and the runs that end in a violation. Every other property of a passing run is a
theorem.

## What is not modelled, and why

* Inside modelled parts: the M2M tier and prices; the slot arithmetic and the
  calendar of `schedule_due`; REPLAY_ONLY and ERC8183 policies; several policies
  in one tick; hashes, evidence payloads and the contents of tickets. In
  `MandatePipeline` a refusal of an AUTONOMOUS call is one nondeterministic step
  (`Deny`, any reason, any time); when one *must* happen is `ExecutionCommitment`'s
  subject, which in turn takes reservations and credit for granted.
* Of the delegated authority: the kinds of action, intents and cadence a profile
  allows, principals and their provisioning. Of G13: hashes and the content of
  failure episodes (an episode is the run it came from) and the epistemic policy
  (`authority/epistemic.py`), which has nothing to read before an acquisition.
* The rate limiter of `public_safety.py` counts in Redis, refuses when Redis is
  away, and protects nothing another part relies on.
* The gateway's payment client, the chains, the miner, the receiver contract and the
  x402 facilitator are external: the model lets them act or not and answer or not,
  within what the code gives them and checks of them.
* Two `execute_erc8183_job` of one row at the same time. The code sends one message
  for each requested row (`main.py:56`) and a broker does not redeliver it, since these
  tasks are acknowledged when they start; an operator may send another one later, which
  is modelled. One who sends two at once would pay for two jobs without a lost answer:
  `CreatedPerLostAnswer` holds only under this assumption, which is the second conjunct
  of `Deliver`.
* Epistemic evaluation and the provenance observer compute over evidence and
  store results that no decision reads; the observer's kernel is floating-point.
* In the intake: the result capability and reading results, request validation,
  inactive identities, prices in several assets. In the disclosure: the consumer's
  delivery receipt, unknown hashes and ambiguous identities, refused before any fact.
* Authentication, read APIs, the frontend and the infrastructure have no
  protocol that spans more than one transaction.

One place where text and code differ and no run decides: under v0.4 and v0.5 a
probe whose call never left counts as the recovery's attempt
(`authority/autonomy.py:547`, asserted by `tests/unit/test_g13_operator_recovery.py`),
while the rule's text (line 78) asks that an external execution exist;
`FirstIsCanary` is stated for v0.3 only.

## Plan

Done: `SpendLedger`, `UserCredit`, `MandateLifecycle`, `MandatePipeline`,
`AutonomyRuns`, the paid intake, the authority (profiles, G13, commitment), anchoring,
ERC8183 jobs, disclosure; the proofs above. The ledgers have no run of their own:
`PipelineContention` exercises them where they are used.

Left, in this order:

1. Proofs: what still holds under recovery of the mandates it never touches. For a
   mandate that is not a run's, the arguments of `StageInv` and `BookInv` speak of its
   own tasks and workers; `CreditMatches`, which concerns users' mandates only, should
   then hold of `RunsSpec`, and the life cycle of every mandate that is not a run's.
2. Two runs of one policy in `AutonomyRuns`: the policy's daily budget.
3. `PramaGraph`: structural evaluation and replay as operators, compared with a
   reference definition, and the epistemic evaluation.
