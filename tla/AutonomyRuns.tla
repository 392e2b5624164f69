------------------------------ MODULE AutonomyRuns ------------------------------
(***************************************************************************)
(* The autonomous scheduler over the pipeline: the beat's autonomy_tick    *)
(* (workers/tasks.py), which first recovers runs (recover_runs), then      *)
(* schedules, claims and executes the due run of a policy                  *)
(* (autonomy/service.py) and publishes its acquisition; and                *)
(* finalize_http_run, by which a worker closes the run of its mandate.     *)
(*                                                                         *)
(* There is one policy and one tick at a time; a run is named by the       *)
(* mandate it creates.  Its mandate's tasks are AutoTasks many.  Real time *)
(* appears only as the 300 s recovery grace: whether less has passed since *)
(* run.updated_at and since task.started_at.                               *)
(***************************************************************************)
EXTENDS MandatePipeline, FiniteSetsExt

CONSTANTS
  Planned,        \* what policy.max_usdc_per_run is set to, one time or another
  MaxPerDay,      \* policy.max_usdc_per_day
  AutoTasks,      \* acquisitions of the policy's mandate template
  SlowWorkers     \* whether a live worker may outlast the recovery grace

ASSUME RunsAssumption ==
  /\ Planned \subseteq Nat /\ MaxPerDay \in Nat
  /\ AutoTasks \in 1 .. MaxTasks
  /\ SlowWorkers \in BOOLEAN

VARIABLES
  run,            \* AutonomyRun.state; CLAIMED is never committed
  plan,           \* AutonomyRun.planned_cost_usdc
  updated,        \* less than the grace since run.updated_at, of a RUNNING run
  started,        \* less than the grace since AcquisitionTask.started_at
  tick, due,      \* the tick: its step, the run it works on
  admits          \* whether schedule_due gets past its gates

runVars == <<run, plan, updated, started, tick, due, admits>>

(* The mandates of origin AUTONOMOUS, one per run of the policy.              *)
Driven == {m \in Mandates : OriginOf[m] = "AUTONOMOUS"}
NoRun == "NONE"
ActiveRun == {"SCHEDULED", "RUNNING"}
ClosedRun == {"COMPLETED", "FAILED", "SKIPPED"}
RunState == ActiveRun \cup ClosedRun
Nobody == "nobody"

RunsInit ==
  /\ Init
  /\ run = [m \in Driven |-> NoRun]
  /\ plan = [m \in Driven |-> 0]
  /\ updated = [m \in Driven |-> FALSE]
  /\ started = [a \in Task |-> FALSE]
  /\ tick = "idle" /\ due = Nobody
  /\ admits \in BOOLEAN

Active == {m \in Driven : run[m] \in ActiveRun}

SetRun(m, state) ==
  /\ run' = [run EXCEPT ![m] = state]
  /\ updated' = [updated EXCEPT ![m] = (state = "RUNNING")]

(* finalize_http_run: a closed run stays as it is.                           *)
FinalizeRun(m, state) ==
  /\ IF run[m] \in ActiveRun THEN SetRun(m, state) ELSE UNCHANGED <<run, updated>>
  /\ UNCHANGED <<plan, started, tick, due, admits>>

TickTo(step, m) == tick' = step /\ due' = m

-----------------------------------------------------------------------------
(* recover_runs, committed as one transaction.  The session does not flush   *)
(* before a query, so the second pass does not see the runs the first one    *)
(* rescheduled; the third one does, and sees the requeued tasks.             *)

(* Mutant of Rescheduled: a run whose task is RUNNING is never stale.        *)
Rescheduled_NoGrace == {m \in Driven : run[m] = "RUNNING" /\ Running(m) = {}}

Rescheduled == {m \in Driven : run[m] = "RUNNING" /\ (Running(m) # {} => ~updated[m])}

(* Second pass: the tasks of a run that is SCHEDULED go back to the queue.   *)
Requeued == {a \in Task : a[1] \in Driven /\ run[a[1]] = "SCHEDULED" /\ task[a] = "RUNNING"}

(* Third pass: a task that is still RUNNING though its run is closed.        *)
Orphaned ==
  {a \in Task : /\ a[1] \in Driven /\ task[a] = "RUNNING"
                /\ run[a[1]] \in ClosedRun
                /\ ~started[a]}

CallUnresolved(a) == call[a] \in {"REQUESTED", "PAYMENT_UNCERTAIN"}

(* Their mandates fail; a reservation is released when the call does not     *)
(* look unresolved.                                                          *)
Failing == {m \in Driven : mstatus[m] \notin Lifecycle!Closed /\ Orphaned \cap TasksOf(m) # {}}
Freed == {m \in Failing : /\ Returnable(m)
                          /\ \A a \in Orphaned \cap TasksOf(m) : ~CallUnresolved(a)}

(* Mutant of ReleaseAll: the reservation stays open after its release.       *)
ReleaseAll_Unrecorded(S) ==
  LET held == [m \in Mandates |-> res[m].reserved]
      total(d) == SumFunctionOnSet(held, {m \in S : res[m].day = d}) IN
  /\ ledger' = [d \in Days |-> [ledger[d] EXCEPT !.reserved = @ - total(d)]]
  /\ UNCHANGED <<today, res, budget>>

(* One refused release raises, and the whole tick with it.                   *)
ReleaseAll(S) ==
  LET held == [m \in Mandates |-> res[m].reserved]
      total(d) == SumFunctionOnSet(held, {m \in S : res[m].day = d}) IN
  /\ \A d \in Days : total(d) <= ledger[d].reserved
  /\ ledger' = [d \in Days |-> [ledger[d] EXCEPT !.reserved = @ - total(d)]]
  /\ res' = [m \in Mandates |-> IF m \in S THEN [res[m] EXCEPT !.status = "RELEASED"] ELSE res[m]]
  /\ UNCHANGED <<today, budget>>

RecoverRuns ==
  /\ run' = [m \in Driven |-> IF m \in Rescheduled THEN "SCHEDULED" ELSE run[m]]
  /\ updated' = [m \in Driven |-> updated[m] /\ m \notin Rescheduled]
  /\ task' = [a \in Task |-> CASE a \in Orphaned -> "FAILED"
                              [] a \in Requeued -> "QUEUED"
                              [] OTHER           -> task[a]]
  /\ started' = [a \in Task |-> started[a] /\ a \notin Requeued]
  /\ code' = [a \in Task |-> IF a \in Orphaned THEN "OTHER" ELSE code[a]]
  /\ mstatus' = [m \in Mandates |-> IF m \in Failing THEN "FAILED" ELSE mstatus[m]]
  /\ ReleaseAll(Freed)

TickRecover ==
  /\ tick = "idle"
  /\ RecoverRuns
  /\ TickTo("schedule", Nobody)
  /\ UNCHANGED <<plan, admits, creditVars, decision, ticket, call, hold, queueVars, lock, pc,
                 job, localVars, gatewayVars, crashes>>

-----------------------------------------------------------------------------
(* schedule_due.  It returns nothing, also for the run it has scheduled      *)
(* before, while autonomy or the policy is switched off, the identity is     *)
(* HALTED or under REVIEW_REQUIRED without a REVIEW to record, or the        *)
(* profile does not match full autonomy.  Operators and evaluations of G13   *)
(* move these gates at any time, and may leave them closed for ever.         *)

GateMoves ==
  /\ admits' = ~admits
  /\ UNCHANGED <<run, plan, updated, started, tick, due, vars>>

(* _budget_reason over the runs of the day: what completed runs cost.  What  *)
(* active runs plan adds nothing: no slot is considered while one is active. *)
SpentToday ==
  MapThenSumSet(LAMBDA m : res[m].actual, {m \in Driven : run[m] = "COMPLETED"})
FitsPolicy(planned) == SpentToday + planned <= MaxPerDay

NewRun(m, planned, state) ==
  /\ Active = {} /\ run[m] = NoRun
  /\ SetRun(m, state)
  /\ plan' = [plan EXCEPT ![m] = planned]
  /\ IF state = "SCHEDULED" THEN TickTo("execute", m) ELSE TickTo("idle", Nobody)

(* Behind the gates an active run is returned before a new slot is           *)
(* considered.                                                               *)
TickResume ==
  /\ tick = "schedule" /\ admits
  /\ \E m \in Active : /\ run[m] = "SCHEDULED"
                      /\ TickTo("execute", m)
  /\ UNCHANGED <<run, plan, updated, started, admits, vars>>

TickSchedule ==
  /\ tick = "schedule" /\ admits
  /\ \E m \in Driven, x \in Planned : FitsPolicy(x) /\ NewRun(m, x, "SCHEDULED")
  /\ UNCHANGED <<started, admits, vars>>

(* The budget or a G13 REVIEW skips the slot.                                *)
TickSkip ==
  /\ tick = "schedule" /\ admits
  /\ \E m \in Driven, x \in Planned : NewRun(m, x, "SKIPPED")
  /\ UNCHANGED <<started, admits, vars>>

(* A gate is closed, no slot is due, the active run is still RUNNING and     *)
(* cannot be claimed, or the run was closed before it was claimed; or the    *)
(* mandate has several acquisitions and .one() raises.                       *)
NothingToDo ==
  \/ tick = "schedule" /\ (admits => \A m \in Driven : run[m] # "SCHEDULED")
  \/ tick = "execute" /\ run[due] # "SCHEDULED"
  \/ tick = "publish" /\ AutoTasks # 1

TickEnds ==
  /\ NothingToDo
  /\ TickTo("idle", Nobody)
  /\ UNCHANGED <<run, plan, updated, started, admits, vars>>

(* The tick raises or its process dies with something left to do, at any of  *)
(* its commits.  A tick is not redelivered.                                  *)
TickDies ==
  /\ tick # "idle" /\ ~NothingToDo
  /\ TickTo("idle", Nobody)
  /\ UNCHANGED <<run, plan, updated, started, admits, vars>>

-----------------------------------------------------------------------------
(* claim_run and execute_claimed: one transaction.                           *)

Executing(m) == tick = "execute" /\ due = m /\ run[m] = "SCHEDULED"

(* Autonomy or the HTTP rail was switched off meanwhile, or no authority.    *)
ExecuteRefused(m) ==
  /\ Executing(m)
  /\ SetRun(m, "FAILED") /\ TickTo("idle", Nobody)
  /\ UNCHANGED <<plan, started, admits, vars>>

ExecuteNew(m) ==
  /\ Executing(m) /\ mstatus[m] = "NONE"
  /\ Reserve(m, Owner(m), plan[m], MaxOf(m))
  /\ mstatus' = [mstatus EXCEPT ![m] = "RECEIVED"]
  /\ task' = [a \in Task |-> IF a[1] = m /\ a[2] <= AutoTasks THEN "QUEUED" ELSE task[a]]
  /\ SetRun(m, "RUNNING") /\ TickTo("publish", m)
  /\ UNCHANGED <<plan, started, admits, creditVars, decision, ticket, code, call, hold, queueVars,
                 lock, pc, job, localVars, gatewayVars, crashes>>

(* An acquisition of the template is malformed: the mandate and its          *)
(* reservation stay, without a task and without a link from the run.         *)
ExecuteMalformed(m) ==
  /\ Executing(m) /\ mstatus[m] = "NONE"
  /\ Reserve(m, Owner(m), plan[m], MaxOf(m))
  /\ mstatus' = [mstatus EXCEPT ![m] = "RECEIVED"]
  /\ SetRun(m, "FAILED") /\ TickTo("idle", Nobody)
  /\ UNCHANGED <<plan, started, admits, creditVars, decision, ticket, taskVars, queueVars, lock,
                 pc, job, localVars, gatewayVars, crashes>>

(* The ledger refuses: the mandate is recorded as failed.                    *)
ExecuteUnfunded(m) ==
  /\ Executing(m) /\ mstatus[m] = "NONE"
  /\ ~ReserveOK(plan[m], MaxOf(m))
  /\ mstatus' = [mstatus EXCEPT ![m] = "FAILED"]
  /\ SetRun(m, "FAILED") /\ TickTo("idle", Nobody)
  /\ UNCHANGED <<plan, started, admits, moneyVars, decision, ticket, taskVars, queueVars, lock, pc,
                 job, localVars, gatewayVars, crashes>>

(* Mutant of ExecuteAgain: a decision counts as a ticket.                    *)
ExecuteAgain_Decided(m) ==
  /\ Executing(m) /\ mstatus[m] # "NONE"
  /\ IF Queued(m) # {} THEN SetRun(m, "RUNNING") /\ TickTo("publish", m)
     ELSE /\ SetRun(m, IF mstatus[m] \in {"DECIDED", "TICKETED"} THEN "COMPLETED" ELSE "FAILED")
          /\ TickTo("idle", Nobody)
  /\ UNCHANGED <<plan, started, admits, vars>>

(* The run was recovered: its mandate exists.  A queued task is published    *)
(* again, a ticketed mandate completes the run, anything else is an orphan.  *)
ExecuteAgain(m) ==
  /\ Executing(m) /\ mstatus[m] # "NONE"
  /\ IF Queued(m) # {} THEN SetRun(m, "RUNNING") /\ TickTo("publish", m)
     ELSE /\ SetRun(m, IF mstatus[m] = "TICKETED" THEN "COMPLETED" ELSE "FAILED")
          /\ TickTo("idle", Nobody)
  /\ UNCHANGED <<plan, started, admits, vars>>

(* The mandate's only acquisition is published.                              *)
TickPublish(m) ==
  /\ tick = "publish" /\ due = m
  /\ AutoTasks = 1 /\ msgs[<<m, 1>>] < MaxCopies
  /\ msgs' = [msgs EXCEPT ![<<m, 1>>] = @ + 1]
  /\ TickTo("idle", Nobody)
  /\ UNCHANGED <<run, plan, updated, started, admits, moneyVars, mandateVars, taskVars,
                 unpublished, lock, pc, job, localVars, gatewayVars, crashes>>

Execute(m) ==
  \/ ExecuteRefused(m) \/ ExecuteNew(m) \/ ExecuteMalformed(m) \/ ExecuteUnfunded(m)
  \/ ExecuteAgain(m)

Tick ==
  \/ TickRecover \/ TickResume \/ TickSchedule \/ TickSkip \/ TickEnds
  \/ \E m \in Driven : Execute(m) \/ TickPublish(m)

-----------------------------------------------------------------------------
(* The pipeline's steps, with what they do to runs and leases.               *)

ClaimTask(w) ==
  /\ Claim(w)
  /\ started' = [started EXCEPT ![job[w]] = TRUE]
  /\ UNCHANGED <<run, plan, updated, tick, due, admits>>

CloseOwnRun(w) ==
  LET m == job[w][1] IN
  /\ CloseRun(w)
  /\ IF m \in Driven
     THEN FinalizeRun(m, IF pc[w] = "finalize" THEN "COMPLETED" ELSE "FAILED")
     ELSE UNCHANGED runVars

OtherStep(w) ==
  /\ ExecuteOne(w) \/ Advance(w) \/ EvaluateAndTicket(w) \/ Finish(w)
  /\ UNCHANGED runVars

WorkerRunStep(w) == ClaimTask(w) \/ CloseOwnRun(w) \/ OtherStep(w)

Working(a) == \E w \in Workers : job[w] = a

GraceEnds(m) ==
  /\ updated[m]
  /\ SlowWorkers \/ \A a \in TasksOf(m) : ~Working(a)
  /\ updated' = [updated EXCEPT ![m] = FALSE]
  /\ UNCHANGED <<run, plan, started, tick, due, admits, vars>>

StartGraceEnds(a) ==
  /\ started[a] /\ task[a] = "RUNNING"
  /\ SlowWorkers \/ ~Working(a)
  /\ started' = [started EXCEPT ![a] = FALSE]
  /\ UNCHANGED <<run, plan, updated, tick, due, admits, vars>>

RunsEnvironment ==
  \/ /\ Environment \/ \E m \in Mandates \ Driven : Api(m)
     /\ UNCHANGED runVars
  \/ /\ \E w \in Workers, a \in Task : Broker(w, a)
     /\ UNCHANGED runVars

Lease == (\E m \in Driven : GraceEnds(m)) \/ (\E a \in Task : StartGraceEnds(a))

(* What happens to a tick and to its runs from outside.                      *)
Outside == TickDies \/ GateMoves \/ Lease

RunsNext ==
  \/ Tick \/ Outside \/ RunsEnvironment
  \/ \E w \in Workers : WorkerRunStep(w)

runsVars == <<vars, runVars>>

RunsSpec == RunsInit /\ [][RunsNext]_runsVars

(* The beat keeps ticking, and some tick is the last one to die; workers     *)
(* finish what they hold, the broker delivers, leases end.  Nothing is       *)
(* assumed of the gates.                                                     *)
RunsFairness ==
  /\ WF_runsVars(Tick) /\ <>[][~TickDies]_runsVars
  /\ \A w \in Workers : WF_runsVars(WorkerRunStep(w))
  /\ WF_runsVars((\E w \in Workers, a \in Task : Broker(w, a)) /\ UNCHANGED runVars)
  /\ \A a \in Task : WF_runsVars(LockExpires(a) /\ UNCHANGED runVars)
  /\ WF_runsVars(Lease)

FairRunsSpec == RunsSpec /\ RunsFairness

-----------------------------------------------------------------------------
(* Properties.                                                             *)

(* Every variable has its declared shape.                                   *)
RunsTypeOK ==
  /\ TypeOK
  /\ run \in [Driven -> RunState \cup {NoRun}]
  /\ plan \in [Driven -> Nat]
  /\ updated \in [Driven -> BOOLEAN]
  /\ started \in [Task -> BOOLEAN]
  /\ tick \in {"idle", "schedule", "execute", "publish"}
  /\ due \in Driven \cup {Nobody}
  /\ admits \in BOOLEAN

(* A run is completed by finalize_http_run or by the tick that reconciles   *)
(* it, never before its mandate has the ticket of its decision.             *)
CompletedIsTicketed ==
  \A m \in Driven : run[m] = "COMPLETED" => mstatus[m] = "TICKETED" /\ ticket[m] = decision[m]

(* Recovery takes every run back from the worker or tick that died with it,  *)
(* at whichever step, since recover_runs comes before the gates; and when    *)
(* the gates stay open in the end, every run is got over with and none       *)
(* occupies its policy for ever.  Behind gates that stay closed, a run that  *)
(* is SCHEDULED remains so.                                                  *)
EveryRunCloses ==
  \A m \in Driven :
    /\ run[m] = "RUNNING" ~> run[m] # "RUNNING"
    /\ <>[]admits => (run[m] \in ActiveRun ~> run[m] \in ClosedRun)
=============================================================================
