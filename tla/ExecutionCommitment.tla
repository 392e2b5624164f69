-------------------------- MODULE ExecutionCommitment --------------------------
(*****************************************************************************)
(* One autonomous agent from the slot of its policy to the dispatch of a paid*)
(* request, under the authorities that must all agree (schedule_due and      *)
(* execute_claimed in autonomy/service.py, execute_one in                    *)
(* workers/acquisition.py, authority/delegated.py and authority/runtime.py). *)
(* A run is worked on in transactions; between any two of them profiles are  *)
(* revoked and replaced, recoveries recorded, switches thrown, and the worker*)
(* may die.  The one active run is the last of "runs".                       *)
(*                                                                           *)
(* Reservations and credit are checked by MandatePipeline and AutonomyRuns;  *)
(* here a mandate's reservation is there and covers Reserved.  A refusal that*)
(* the policy does not tell apart is WORKER_INTERNAL_PRE_NETWORK.            *)
(*****************************************************************************)
EXTENDS AuthorityProfiles, AgentTrajectory

CONSTANTS
    Reserved,      \* max_usdc_per_run: planned and reserved for a run
    CanaryBudget,  \* canary_budget_usdc of a recovery
    Environment    \* what happens around: "policy", "flag" (switches), "others"

ASSUME CommitmentAssumptions ==
    /\ Reserved \in Nat \ {0} /\ CanaryBudget \in Nat \ {0}
    /\ Environment \subseteq {"policy", "flag", "others"}

VARIABLES
    job,       \* how far the active run is, and what it was granted
    observed,  \* recoveries whose single observation is consumed
    identity,  \* autonomy_state of the agent
    flag,      \* FULL_AUTONOMY_ENABLED
    policyOn   \* the policy is enabled and active

workVars == <<runs, job, observed, identity>>
switches == <<flag, policyOn>>
vars == <<profileVars, recoveryVars, foreign, workVars, switches>>

Stages == {"IDLE", "SCHEDULED", "CLAIMED", "REQUESTED", "PERMITTED", "COMMITTED", "ANSWERED"}
Idle == [stage |-> "IDLE", amount |-> 0, seen |-> [result |-> "HALT"], ok |-> FALSE,
         boot |-> FALSE, observe |-> FALSE, profile |-> NoProfile]

AuthorityTypeOK ==
    /\ ProfilesTypeOK /\ RecoveryTypeOK /\ TrajectoryTypeOK
    /\ job.stage \in Stages /\ job.amount \in 0 .. Reserved
    /\ job.profile \in 0 .. MaxProfiles
    /\ (job.stage # "IDLE") = (runs # <<>> /\ Last(runs).state \in {"SCHEDULED", "RUNNING"})
    /\ observed \subseteq 1 .. MaxRecoveries
    /\ identity \in {"ACTIVE", "THROTTLED", "REVIEW_REQUIRED", "HALTED"}
    /\ flag \in BOOLEAN /\ policyOn \in BOOLEAN
--------------------------------------------------------------------------------
(*                     what an evaluation gives leave for                    *)
StateOf(result) ==
    [CONTINUE |-> "ACTIVE", THROTTLE |-> "THROTTLED",
     REVIEW |-> "REVIEW_REQUIRED", HALT |-> "HALTED"][result]

Lesser(a, b) == IF a < b THEN a ELSE b
ProbeV4(e)   == e.version = 4 /\ e.canary
ProbeOf(e)   == e.version \in EpisodeVersions /\ e.canary

\* One observation is granted per recovery, when nothing but a missing current
\* observation blocks (recovery_observation_available asks for the newest one).
Starved(e) == e.result = "REVIEW" /\ e.rules = {"G13_CURRENT_CRITICAL_OBSERVATION_MISSING"}
ObservationAvailable == recoveries # <<>> /\ Len(recoveries) \notin observed
Observes(e) == Starved(e) /\ ~ProbeV4(e) /\ ObservationAvailable
Boots(e)    == e.result = "REVIEW" /\ Resolve(now) # NoProfile /\ BootstrapEligible(e, runs # <<>>)
Exempt(e)   == ProbeV4(e) \/ Observes(e) \/ Boots(e)

\* Mutant of Limit: the budget of the canary is not looked at.
Limit_HalfCap(e, cap) == cap \div 2
Limit(e, cap) == IF e.canary THEN Lesser(cap, CanaryBudget) ELSE cap \div 2

Cap == IF Resolve(now) = NoProfile THEN 0 ELSE profiles[Resolve(now)].cap
--------------------------------------------------------------------------------
(*                                the scheduler                              *)
Supersedes(e) == Observes(e) /\ identity = "REVIEW_REQUIRED"

Admitted(e, state) ==
    /\ state # "HALTED"
    /\ state = "REVIEW_REQUIRED" => ProbeV4(e) \/ Boots(e)
    /\ flag <=> Resolve(now) # NoProfile
    /\ job.stage = "IDLE" /\ Len(runs) < MaxRuns
    /\ e.result # "HALT"
    /\ e.result = "REVIEW" => Exempt(e)
    /\ Resolve(now) # NoProfile => Reserved <= Cap

NewRun == [state |-> "SCHEDULED", code |-> NoCode, event |-> NoCode, call |-> "NONE",
           decision |-> "NONE", flagged |-> FALSE, spent |-> 0,
           began |-> Now, requested |-> Never, ended |-> Now]

\* The evaluation is persisted on every tick, also when the slot is skipped or
\* a run is active.
ScheduleDue ==
    /\ policyOn
    /\ LET e     == CurrentG13
           state == IF Supersedes(e) THEN "ACTIVE" ELSE identity
       IN  /\ Persist({e})
           /\ identity' = state
           /\ IF Admitted(e, state)
              THEN /\ runs' = Append(runs, NewRun)
                   /\ job' = [job EXCEPT !.stage = "SCHEDULED"]
              ELSE UNCHANGED <<runs, job>>
    /\ UNCHANGED <<profileVars, recoveries, binding, grants, foreign, observed, switches>>

\* Every step of a run leaves an event.
Update(run) == runs' = [runs EXCEPT ![Len(runs)] = [run EXCEPT !.ended = Now]]
\* Mutant of Close: the work of the run is not given up with it.
Close_KeepJob(state, code, decision) ==
    /\ Update([Last(runs) EXCEPT !.state = state, !.code = code, !.decision = decision])
    /\ UNCHANGED job
Close(state, code, decision) ==
    /\ Update([Last(runs) EXCEPT !.state = state, !.code = code, !.decision = decision])
    /\ job' = Idle

Claimable ==
    CASE ~policyOn -> "AUTONOMY_DISABLED"
      [] policyOn /\ ~flag -> "FULL_AUTONOMY_DISABLED"
      [] policyOn /\ flag /\ Resolve(now) = NoProfile -> "AUTHORITY_PROFILE_MISSING"
      [] OTHER -> NoCode

ExecuteClaimed ==
    /\ job.stage = "SCHEDULED"
    /\ IF Claimable = NoCode
       THEN /\ Update([Last(runs) EXCEPT !.state = "RUNNING"])
            /\ job' = [job EXCEPT !.stage = "CLAIMED"]
       ELSE Close("FAILED", Claimable, "NONE")
    /\ UNCHANGED <<profileVars, recoveryVars, foreign, observed, identity, switches>>
--------------------------------------------------------------------------------
(*                          the worker, step by step                         *)
\* An error before the network: the transaction is rolled back, and a call that
\* was recorded is marked NOT_EXECUTED.
Refuse(code) ==
    /\ Update([Last(runs) EXCEPT !.event = code,
                  !.call = IF @ = "NONE" THEN "NONE" ELSE "NOT_EXECUTED"])
    /\ job' = [Idle EXCEPT !.stage = "ANSWERED"]
    /\ UNCHANGED observed

Budget(e) ==
    IF e.result = "THROTTLE" THEN Lesser(Lesser(Reserved, Cap), Limit(e, Cap))
    ELSE Lesser(Reserved, Cap)

Preparation(e) ==
    IF Resolve(now) = NoProfile THEN "AUTHORITY_PROFILE_MISSING"
    ELSE IF e.result = "HALT" THEN "G13_HALT"
    ELSE IF e.result = "REVIEW" /\ ~Exempt(e) THEN "G13_REVIEW"
    ELSE IF Lesser(Reserved, Cap) > 0 /\ Budget(e) = 0 THEN "G13_THROTTLE_CONSTRAINTS_REQUIRED"
    ELSE IF Cap = 0 THEN "BUDGET_EXHAUSTED"
    ELSE NoCode

\* The call and its request event are durable before anything is sent; then the
\* recovery's observation is consumed.  A call that a first attempt recorded
\* makes the second one fail: there is one call per acquisition.
Attempt ==
    /\ LET e == CurrentG13 IN
       CASE Preparation(e) # NoCode -> Refuse(Preparation(e))
         [] Preparation(e) = NoCode /\ Last(runs).call # "NONE" -> Refuse("WORKER_INTERNAL_PRE_NETWORK")
         [] OTHER ->
              /\ Update([Last(runs) EXCEPT !.call = "REQUESTED", !.requested = Now,
                                           !.flagged = ProbeV4(e)])
              /\ job' = [stage |-> "REQUESTED", amount |-> Budget(e), seen |-> e,
                         ok |-> Budget(e) <= Limit(e, Cap), boot |-> Boots(e),
                         observe |-> Observes(e), profile |-> NoProfile]
              /\ observed' = IF Observes(e) THEN observed \cup {Len(recoveries)} ELSE observed
    /\ UNCHANGED <<profileVars, recoveryVars, foreign, identity, switches>>

Prepare == job.stage = "CLAIMED" /\ Attempt
\* The worker died after it recorded the call; recovery queued the task again.
Retry   == job.stage \in {"REQUESTED", "PERMITTED", "COMMITTED"} /\ Attempt

\* ALLOW or RESTRICT: the composition adds no authority of its own to the gate's.
Composed(e, ok, exempt, boot) ==
    Gate(TRUE, TRUE, e.result, ok, exempt, boot) = "NEXT_ACTION_AUTHORIZED"

\* The check before the action: evidence is acquired before anything is decided,
\* so there is no local decision yet, and the reservation is verified.
Passes(e, ok) ==
    /\ Composed(e, ok, ProbeOf(e) \/ (Starved(e) /\ ObservationAvailable), job.boot)
    /\ flag

\* The descriptive checkpoints, each in a transaction of its own: what fails or
\* takes too long is recorded as unavailable and stops nothing.  Of what they
\* persist only the composition's evaluation of the agent is ever looked up; that
\* of the run alone is of a version no recovery reads.
ShadowOutcomes == {{CurrentG13}, {}}

\* What the grant in force leaves of an action (g12_check); a grant without limit
\* is one whose cap covers every reservation.
Delegated(p, amount) == p # NoProfile /\ profiles[p].cap > 0 /\ amount <= profiles[p].cap

\* The permit is issued on the evaluation of the preparation.
Issued ==
    LET e == job.seen IN
    /\ Passes(e, job.ok)
    /\ Delegated(Resolve(now), job.amount)
    /\ e.result = "REVIEW" => ProbeV4(e) \/ job.boot

IssuePermit ==
    /\ job.stage = "REQUESTED"
    /\ \E shadow \in ShadowOutcomes :
       IF Issued
       THEN /\ Persist(shadow \cup {job.seen})
            /\ identity' = StateOf(job.seen.result)
            /\ job' = [job EXCEPT !.stage = "PERMITTED", !.profile = Resolve(now)]
            /\ UNCHANGED <<runs, observed>>
       ELSE /\ Persist(shadow)
            /\ Refuse("WORKER_INTERNAL_PRE_NETWORK")
            /\ UNCHANGED identity
    /\ UNCHANGED <<profileVars, recoveries, binding, grants, foreign, switches>>

\* Mutant of Fresh: the profile of the permit is not resolved again.
Fresh_TrustPermit(e) ==
    /\ Passes(e, job.amount <= Limit(e, profiles[job.profile].cap))
    /\ identity = StateOf(job.seen.result)
    /\ e.result = "REVIEW" => (ProbeV4(job.seen) /\ e.canary) \/ job.boot \/ job.observe
\* Authority is read again while the permit is locked: the one-shot permit
\* commits only under the profile and the state it was issued for.
Fresh(e) ==
    /\ Passes(e, job.amount <= Limit(e, profiles[job.profile].cap))
    /\ identity = StateOf(job.seen.result) /\ identity # "HALTED"
    /\ Resolve(now) = job.profile
    /\ Delegated(job.profile, job.amount)
    /\ e.result = "REVIEW" => (ProbeV4(job.seen) /\ e.canary) \/ job.boot \/ job.observe
    /\ job.boot => BootstrapEligible(e, runs # <<>>)

\* The execution commitment point: checks, consumption and the new state of the
\* identity are one transaction.
Commit ==
    /\ job.stage = "PERMITTED"
    /\ LET e == CurrentG13 IN
       IF Fresh(e)
       THEN /\ Persist({e})
            /\ identity' = StateOf(e.result)
            /\ Update([Last(runs) EXCEPT !.spent = job.amount])
            /\ job' = [job EXCEPT !.stage = "COMMITTED"]
            /\ IF job.boot THEN ConsumeGrant ELSE UNCHANGED grants
            /\ UNCHANGED observed
       ELSE /\ Refuse("WORKER_INTERNAL_PRE_NETWORK")
            /\ UNCHANGED <<reviews, identity, grants>>
    /\ UNCHANGED <<profileVars, recoveries, binding, foreign, switches>>

\* The answer of the network.  An explicit challenge was not paid; any other
\* failure may have been.
Outcomes ==
    {<<"SUCCEEDED", NoCode>>, <<"RECONCILED_NO_PAYMENT", "PAYMENT_REQUIRED">>,
     <<"PAYMENT_UNCERTAIN", "PAYMENT_FAILED">>, <<"PAYMENT_UNCERTAIN", "GATEWAY_UNAVAILABLE">>,
     <<"PAYMENT_UNCERTAIN", "PAYMENT_COST_UNAVAILABLE">>}

Answer ==
    /\ job.stage = "COMMITTED"
    /\ \E o \in Outcomes : Update([Last(runs) EXCEPT !.call = o[1], !.event = o[2]])
    /\ job' = [Idle EXCEPT !.stage = "ANSWERED"]
    /\ UNCHANGED <<profileVars, recoveryVars, foreign, observed, identity, switches>>

\* The pipeline to its end (advance, evaluation, ticket, finalize_http_run): a
\* run without evidence is ticketed with BLOCK.
Conclude ==
    /\ job.stage = "ANSWERED"
    /\ LET r == Last(runs) IN
       CASE r.event \in {"G13_REVIEW", "G13_HALT"} -> Close("FAILED", r.event, "NONE")
         [] r.event \notin {"G13_REVIEW", "G13_HALT"} /\ r.call = "SUCCEEDED" ->
              \/ \E d \in {"PERMIT", "BLOCK"} : Close("COMPLETED", NoCode, d)
              \/ Close("FAILED", "STRICT_PROVENANCE_FAILED", "NONE")
         [] OTHER -> Close("COMPLETED", NoCode, "BLOCK")
    /\ UNCHANGED <<profileVars, recoveryVars, foreign, observed, identity, switches>>

\* The worker died and the run was claimed again while its task was not queued:
\* the run is closed and its call stays as it was.
Abandon ==
    /\ job.stage \in Stages \ {"IDLE", "SCHEDULED"}
    /\ Close("FAILED", "AUTONOMY_ORPHANED_MANDATE", "NONE")
    /\ UNCHANGED <<profileVars, recoveryVars, foreign, observed, identity, switches>>
--------------------------------------------------------------------------------
(*                      operators, other agents, switches                    *)
Administer ==
    /\ ProfilesNext
    /\ UNCHANGED <<recoveryVars, foreign, workVars, switches>>

Recover ==
    /\ \/ RecordOperatorRecovery
       \/ RecordReviewRecovery
       \/ RecordReviewRecoveryV2
       \/ RecordCurrentReviewRecovery(Unpaid)
    /\ UNCHANGED <<profileVars, foreign, workVars, switches>>

ManageGrants ==
    /\ CreateGrant \/ RevokeGrant
    /\ UNCHANGED <<profileVars, foreign, workVars, switches>>

\* The probe count looks at the request events of every agent: one that is later
\* than the recovery is enough, and only the verdicts of v0.4 and v0.5 depend on it.
OtherAgentProbes ==
    /\ "others" \in Environment /\ binding.version \in EpisodeVersions /\ foreign < RecoveryOfBinding
    /\ foreign' = Now
    /\ UNCHANGED <<profileVars, recoveryVars, workVars, switches>>

\* Enabling a policy needs a profile within its budget (validate_policy_activation).
SwitchPolicy ==
    /\ "policy" \in Environment
    /\ policyOn \/ (Resolve(now) # NoProfile /\ Cap <= Reserved)
    /\ policyOn' = ~policyOn
    /\ UNCHANGED <<profileVars, recoveryVars, foreign, workVars, flag>>

SwitchFlag ==
    /\ "flag" \in Environment
    /\ flag' = ~flag
    /\ UNCHANGED <<profileVars, recoveryVars, foreign, workVars, policyOn>>
--------------------------------------------------------------------------------
Init ==
    /\ ProfilesInit /\ RecoveryInit
    /\ runs = <<>> /\ foreign = Never
    /\ job = Idle /\ observed = {} /\ identity = "ACTIVE"
    /\ flag = TRUE /\ policyOn = TRUE

Work == Prepare \/ Retry \/ IssuePermit \/ Commit \/ Answer \/ Conclude \/ Abandon
Next ==
    \/ ScheduleDue \/ ExecuteClaimed \/ Work
    \/ Administer \/ Recover \/ ManageGrants \/ OtherAgentProbes
    \/ SwitchPolicy \/ SwitchFlag
Spec == Init /\ [][Next]_vars
--------------------------------------------------------------------------------
(*                                 properties                                *)
Dispatches == job.stage = "PERMITTED" /\ job'.stage = "COMMITTED"

\* At an instant a grant gives nothing before its start, after its end, and once
\* any change of it (suspension, revocation, expiry) has taken effect.
Withdrawn(p, t) ==
    \/ t < profiles[p].from \/ profiles[p].until <= t
    \/ profiles[p].status # "ACTIVE"
    \/ \E c \in ToSet(changes) : c.profile = p /\ c.at <= t

\* NO_DISPATCH_COMMIT_WITH_STALE_AUTHORITY: whatever was revoked, replaced or
\* switched off since the permit was issued, the dispatch is committed under the
\* permit's own profile, still the only one in force, and within its budget.
NoStaleDispatch ==
    [][Dispatches => /\ flag /\ ~Withdrawn(job.profile, now)
                     /\ job.amount <= profiles[job.profile].cap
                     /\ \A q \in DOMAIN profiles \ {job.profile} : Withdrawn(q, now)]_vars

\* The runs before the active one that began under the recovery in force and that
\* a window of the latest runs, the active one included, always reaches.
SinceRecovery ==
    {i \in DOMAIN runs : /\ i < Len(runs) /\ Len(runs) - i < WindowSize
                        /\ runs[i].began >= RecoveryOfBinding}
ExecutedSince == {i \in DOMAIN runs : /\ runs[i].ended >= RecoveryOfBinding
                                      /\ runs[i].call \in {"RECEIVED", "SUCCEEDED", "PAYMENT_UNCERTAIN"}}

\* Under v0.3 no dispatch exceeds the canary's budget before one run has really
\* executed since the endpoint was replaced, however many were refused before.
FirstIsCanary ==
    [][Dispatches /\ binding.version = 3 /\ ExecutedSince = {} =>
          job.amount <= CanaryBudget]_vars

\* What bootstrap.py and its users promise ("Bounded cold-start authority", to be
\* consumed "at the external-action commitment"): while its grant lasts, the first
\* run of an agent without a recovery is not refused for the REVIEW that the grant
\* was given for.  The code does not keep this.
ColdStartActs ==
    [][/\ job.stage = "CLAIMED" /\ Len(runs) = 1 /\ recoveries = <<>>
       /\ Resolve(now) # NoProfile /\ \E g \in ActiveGrants : grants[g].left > 0
       => Last(runs').event # "G13_REVIEW"]_vars

\* What the code does instead: a cold start never dispatches.  The run that a
\* bootstrap grant schedules is itself the trajectory that its own preparation
\* finds incomplete, so only a recorded recovery lets an agent act, and no grant
\* is ever used up.
NoDispatchWithoutRecovery ==
    [][Dispatches => binding.version \in RecoveryVersions /\ ~job.boot]_vars

\* Failures that repeat since the recovery stop the agent: two runs whose evidence
\* failed its provenance, or as many external failures as need a review.
RepeatedFailuresStop ==
    [][Dispatches =>
          /\ Cardinality({i \in SinceRecovery : runs[i].code = "STRICT_PROVENANCE_FAILED"}) < 2
          /\ Cardinality({i \in SinceRecovery :
                  runs[i].code = NoCode /\ runs[i].event \in ExternalCodes}) < RecurrenceThreshold]_vars

\* A recovery authorizes one probe: its request is the attempt, even when the
\* call was withheld and has left the evaluated window.
OneProbePerRecovery ==
    \A i, j \in DOMAIN runs :
        runs[i].flagged /\ runs[j].flagged /\ runs[i].requested = runs[j].requested => i = j

\* A run that the gate itself refused leaves the verdict, its rules included, as
\* it would be without that run: G13 is never triggered by its own denials.
Denied == {i \in DOMAIN runs : runs[i].code \in DenialCodes}
DenialsLeaveNoTrace ==
    Denied # {} /\ binding # NoBinding =>
        LET seen == Selected(RecoveryOfBinding)
        IN  Evaluate(InputOver(seen)) = Evaluate(InputOver(seen \ Denied))

\* An evaluation can be recomputed from what is persisted of its input.
EvaluationsAreReproducible ==
    binding # NoBinding =>
        LET input == CurrentInput IN Evaluate(CanonicalCore(input)) = Evaluate(input)
================================================================================
