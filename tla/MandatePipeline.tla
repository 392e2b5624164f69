---------------------------- MODULE MandatePipeline ----------------------------
(***************************************************************************)
(* A paid mandate from its creation to its ticket: the API that reserves   *)
(* the budget and publishes the first task, the Celery workers that run    *)
(* execute_acquisition (workers/tasks.py, workers/acquisition.py), the     *)
(* evaluation and the ticket.  A worker handles one message at a time in   *)
(* the steps its database commits cut it into; between two steps another   *)
(* worker may run, the process may die (its message is redelivered: the    *)
(* task is acks_late) and the 300 s Redis lock may expire.                 *)
(*                                                                         *)
(* The Telegraph gateway is external: it answers with or without having    *)
(* paid, never more than the budget it was given.                          *)
(***************************************************************************)
EXTENDS SpendLedger, UserCredit, Integers, Sequences

CONSTANTS
  Workers,
  Budgets,         \* budgets a client may ask for
  MaxTasks,        \* BOUND: tasks of a mandate (5 in the API)
  OriginOf,        \* Mandate.origin, by mandate
  Maximum,         \* maximum(mandate), by origin
  PerActionCap,    \* MAX_SINGLE_ACQUISITION_USDC or the profile's per-action budget, by origin
  Required,        \* ordinals of the tasks with required = TRUE
  StrictOrigins,   \* origins whose policy has strict_verification
  BrokerOutages,   \* whether delay() may raise
  MaxCrashes,      \* BOUND: worker deaths
  MaxCopies        \* BOUND: copies of one message that retries of clients, and ticks, put in the queue

ASSUME PipelineAssumption ==
  /\ MaxTasks \in Nat \ {0}
  /\ {"MANUAL", "USER", "M2M", "AUTONOMOUS"} \subseteq Origins
  /\ OriginOf \in [Mandates -> Origins]
  /\ Maximum \in [Origins -> Nat]
  /\ PerActionCap \in [Origins -> Nat]
  /\ UserMandates \subseteq Mandates
  /\ \A m \in Mandates : OriginOf[m] = "USER" <=> m \in UserMandates
  /\ Budgets \subseteq Nat
  /\ \A x \in Budgets : 0 .. x \subseteq Amounts \cap Requests   \* a budget is spent in any parts
  /\ \A o \in Origins : Maximum[o] \in Maxima
  /\ Required \subseteq 1 .. MaxTasks
  /\ MaxCrashes \in Nat /\ MaxCopies \in Nat

Task == Mandates \X (1 .. MaxTasks)
TasksOf(m) == {m} \X (1 .. MaxTasks)

NoWorker == "free"
Orphan   == "orphan"       \* the token of a dead process
Undecided == "NONE"
NoTask   == <<"NONE", 0>>

TaskStatus == {"NONE", "QUEUED", "RUNNING", "SUCCEEDED", "FAILED"}
CallStatus == {"NONE", "REQUESTED", "RECEIVED", "SUCCEEDED",
               "PAYMENT_UNCERTAIN", "RECONCILED_NO_PAYMENT", "NOT_EXECUTED"}
FailureCode == {"NONE", "G13_BLOCK", "OTHER"}   \* G13_BLOCK: G13_REVIEW, G13_HALT
Verdict == {"PERMIT", "REVIEW", "BLOCK"}
Finished == {"SUCCEEDED", "FAILED"}

(* Where a worker stands in execute_acquisition; "fail*" is the except       *)
(* branch of execute_one before the network, after it, or after a 402.       *)
Step == {"idle", "locked", "prepare", "authorize", "send", "answered", "refused",
         "settle", "failPre", "failBlocked", "failNet", "fail402", "advance", "evaluate",
         "ticket", "finalize", "finalizeStale", "done"}

VARIABLES
  mstatus,         \* Mandate.status
  decision,        \* Decision.state
  ticket,          \* the decision the Ticket row carries
  unpublished,     \* mandates committed whose first message is not published yet
  task,            \* AcquisitionTask.status
  code,            \* AcquisitionTask.failure_code
  call,            \* TelegraphCall.status; acquisition_id is UNIQUE
  hold,            \* held_budget_usdc of ACQUISITION_PAYMENT_UNCERTAIN events
  msgs,            \* execute_acquisition messages in the broker, by task
  lock,            \* Redis key prama:acquisition:<id>
  pc, job,         \* worker: step, message
  seen,            \* worker: the reservation its session loaded for the call
  slice, cost,     \* worker: budget of the call, cost of the result
  sent, paid,      \* gateway: requests received, amount paid
  crashes

mandateVars == <<mstatus, decision, ticket>>
taskVars    == <<task, code, call, hold>>
queueVars   == <<msgs, unpublished>>
localVars   == <<seen, slice, cost>>
moneyVars   == <<ledgerVars, creditVars>>
gatewayVars == <<sent, paid>>

vars == <<moneyVars, mandateVars, taskVars, queueVars, lock, pc, job, localVars,
          gatewayVars, crashes>>

Lifecycle == INSTANCE MandateLifecycle WITH status <- mstatus, Decisions <- Verdict

Init ==
  /\ LedgerInit /\ CreditInit
  /\ mstatus = [m \in Mandates |-> "NONE"]
  /\ decision = [m \in Mandates |-> Undecided]
  /\ ticket = [m \in Mandates |-> Undecided]
  /\ unpublished = {}
  /\ task = [a \in Task |-> "NONE"]
  /\ code = [a \in Task |-> "NONE"]
  /\ call = [a \in Task |-> "NONE"]
  /\ hold = [a \in Task |-> 0]
  /\ msgs = [a \in Task |-> 0]
  /\ lock = [a \in Task |-> NoWorker]
  /\ pc = [w \in Workers |-> "idle"]
  /\ job = [w \in Workers |-> NoTask]
  /\ seen = [w \in Workers |-> NoReservation]
  /\ slice = [w \in Workers |-> 0]
  /\ cost = [w \in Workers |-> 0]
  /\ sent = [a \in Task |-> 0]
  /\ paid = [a \in Task |-> 0]
  /\ crashes = 0

-----------------------------------------------------------------------------
(* Helpers.                                                                *)

Queued(m) == {a \in TasksOf(m) : task[a] = "QUEUED"}
Running(m) == {a \in TasksOf(m) : task[a] = "RUNNING"}
NextQueued(m) == CHOOSE a \in Queued(m) : \A b \in Queued(m) : a[2] <= b[2]

(* uncertain_hold: an acquisition is contacted at most once, so no event it  *)
(* sums is ever followed by a reconciliation of the same acquisition.        *)
UncertainHold(m) == SumFunctionOnSet(hold, TasksOf(m))

(* Mutant of CallBudget: the uncertain hold may be spent again.              *)
CallBudget_IgnoresHold(m) ==
  IF res[m].reserved <= PerActionCap[OriginOf[m]] THEN res[m].reserved
  ELSE PerActionCap[OriginOf[m]]

Smaller(x, y) == IF x <= y THEN x ELSE y
CallBudget(m) == Smaller(res[m].reserved - UncertainHold(m), PerActionCap[OriginOf[m]])

Goto(w, step) == pc' = [pc EXCEPT ![w] = step]
ForgetLocals(w) == /\ seen' = [seen EXCEPT ![w] = NoReservation]
                   /\ slice' = [slice EXCEPT ![w] = 0]
                   /\ cost' = [cost EXCEPT ![w] = 0]
Owner(m) == OriginOf[m]
MaxOf(m) == Maximum[OriginOf[m]]

(* advance calls maximum() without a session: no profile is consulted.       *)
MaxAtClose(m) == IF Owner(m) = "AUTONOMOUS" THEN Maximum["M2M"] ELSE MaxOf(m)

(* Mutants of UserReserve (without a look at the balance) and UserSettle     *)
(* (the remainder is not handed back).                                       *)
UserReserve_Unchecked(m, x) ==
  /\ IF m \in UserMandates THEN credit' = [credit EXCEPT ![m].reserved = x] ELSE UNCHANGED credit
  /\ UNCHANGED granted
UserSettle_Partial(m, x, finalize) ==
  IF m \in UserMandates THEN CreditSettle(m, x, FALSE) ELSE UNCHANGED creditVars

(* users/credit.py does nothing for other origins.                           *)
UserReserve(m, x) ==
  IF m \in UserMandates THEN CreditReserve(m, x) ELSE UNCHANGED creditVars
UserSettle(m, x, finalize) ==
  IF m \in UserMandates THEN CreditSettle(m, x, finalize) ELSE UNCHANGED creditVars
UserRelease(m) == IF m \in UserMandates THEN CreditRelease(m) ELSE UNCHANGED creditVars
UserCovers(m, x) == m \in UserMandates => CreditCovers(m, x)

(* transition_mandate, once per state of the path; it raises where the path  *)
(* leaves the allowed transitions.                                           *)
PathAllowed(m, path) ==
  \A i \in 1 .. Len(path) :
     path[i] \in Lifecycle!AllowedTransitions[IF i = 1 THEN mstatus[m] ELSE path[i - 1]]

Transition(m, path) ==
  /\ PathAllowed(m, path)
  /\ mstatus' = [mstatus EXCEPT ![m] = path[Len(path)]]

(* Mutant of EnterAcquiring: the mandate takes the status of its task.       *)
EnterAcquiring_TaskStatus(m) == mstatus' = [mstatus EXCEPT ![m] = "RUNNING"]

(* RECEIVED -> PLANNED -> ACQUIRING, from wherever the mandate stands.       *)
EnterAcquiring(m) ==
  mstatus' = IF mstatus[m] \in {"RECEIVED", "PLANNED"}
             THEN [mstatus EXCEPT ![m] = "ACQUIRING"] ELSE mstatus

-----------------------------------------------------------------------------
(* The API: create_mandate, reserve, tasks, commit; then publish.  A mandate *)
(* of the scheduler is created in the same way; AutonomyRuns says when.      *)

Create(m) ==
  /\ mstatus[m] = "NONE"
  /\ \E x \in Budgets : Reserve(m, Owner(m), x, MaxOf(m)) /\ UserReserve(m, x)
  /\ \E n \in 1 .. (IF Owner(m) = "USER" THEN 1 ELSE MaxTasks) :
        task' = [a \in Task |-> IF a[1] = m /\ a[2] <= n THEN "QUEUED" ELSE task[a]]
  /\ mstatus' = [mstatus EXCEPT ![m] = "RECEIVED"]
  /\ unpublished' = unpublished \cup {m}
  /\ UNCHANGED <<decision, ticket, code, call, hold, msgs, lock, pc, job, localVars,
                 gatewayVars, crashes>>

Publish(m) ==
  /\ m \in unpublished
  /\ unpublished' = unpublished \ {m}
  /\ msgs' = [msgs EXCEPT ![<<m, 1>>] = @ + 1]
  /\ UNCHANGED <<moneyVars, mandateVars, taskVars, lock, pc, job, localVars, gatewayVars,
                 crashes>>

(* Mutant of PublishLost: the reservation row is dropped, the ledger is not  *)
(* told.                                                                     *)
PublishLost_DropsReservation(m) ==
  /\ BrokerOutages
  /\ m \in unpublished
  /\ unpublished' = unpublished \ {m}
  /\ res' = [res EXCEPT ![m] = NoReservation]
  /\ UNCHANGED <<today, ledger, budget, creditVars, mandateVars, taskVars, msgs, lock, pc,
                 job, localVars, gatewayVars, crashes>>

(* delay() raised, or the API process died: the reservation is retained.     *)
PublishLost(m) ==
  /\ BrokerOutages
  /\ m \in unpublished
  /\ unpublished' = unpublished \ {m}
  /\ UNCHANGED <<moneyVars, mandateVars, taskVars, msgs, lock, pc, job, localVars,
                 gatewayVars, crashes>>

(* users.py submit: a retry with the same key publishes the task again as    *)
(* long as it is queued.                                                     *)
Republish(m) ==
  /\ Owner(m) = "USER"
  /\ task[<<m, 1>>] = "QUEUED"
  /\ msgs[<<m, 1>>] < MaxCopies
  /\ msgs' = [msgs EXCEPT ![<<m, 1>>] = @ + 1]
  /\ UNCHANGED <<moneyVars, mandateVars, taskVars, unpublished, lock, pc, job, localVars,
                 gatewayVars, crashes>>

-----------------------------------------------------------------------------
(* execute_acquisition: the Redis lock around one message.                   *)

Deliver(w, a) ==
  /\ pc[w] = "idle" /\ msgs[a] > 0
  /\ lock[a] = NoWorker
  /\ msgs' = [msgs EXCEPT ![a] = @ - 1]
  /\ lock' = [lock EXCEPT ![a] = w]
  /\ job' = [job EXCEPT ![w] = a]
  /\ Goto(w, "locked")
  /\ UNCHANGED <<moneyVars, mandateVars, taskVars, unpublished, localVars, gatewayVars,
                 crashes>>

(* "LOCKED": the message is acknowledged and gone.                           *)
DropLocked(w, a) ==
  /\ pc[w] = "idle" /\ msgs[a] > 0
  /\ lock[a] # NoWorker
  /\ msgs' = [msgs EXCEPT ![a] = @ - 1]
  /\ UNCHANGED <<moneyVars, mandateVars, taskVars, unpublished, lock, pc, job, localVars,
                 gatewayVars, crashes>>

(* The finally block, which deletes only its own token, and the ack.         *)
Finish(w) ==
  /\ pc[w] = "done"
  /\ lock' = [lock EXCEPT ![job[w]] = IF @ = w THEN NoWorker ELSE @]
  /\ job' = [job EXCEPT ![w] = NoTask]
  /\ Goto(w, "idle")
  /\ UNCHANGED <<moneyVars, mandateVars, taskVars, queueVars, localVars, gatewayVars, crashes>>

(* The 300 s lease ends, whether its holder is alive or not.                 *)
LockExpires(a) ==
  /\ lock[a] # NoWorker
  /\ lock' = [lock EXCEPT ![a] = NoWorker]
  /\ UNCHANGED <<moneyVars, mandateVars, taskVars, queueVars, pc, job, localVars,
                 gatewayVars, crashes>>

(* The worker process dies: open transactions roll back, the unacknowledged  *)
(* message goes back to the queue, the Redis key stays.                      *)
Crash(w) ==
  /\ crashes < MaxCrashes
  /\ pc[w] # "idle"
  /\ crashes' = crashes + 1
  /\ msgs' = [msgs EXCEPT ![job[w]] = @ + 1]
  /\ lock' = [lock EXCEPT ![job[w]] = IF @ = w THEN Orphan ELSE @]
  /\ job' = [job EXCEPT ![w] = NoTask]
  /\ Goto(w, "idle") /\ ForgetLocals(w)
  /\ UNCHANGED <<moneyVars, mandateVars, taskVars, unpublished, gatewayVars>>

-----------------------------------------------------------------------------
(* execute_one, first transaction: the claim, under the mandate row lock.    *)

Claimable(a) ==
  LET m == a[1] IN
  /\ task[a] = "QUEUED"
  /\ mstatus[m] \notin {"TICKETED", "DECIDED", "FAILED"}
  /\ Running(m) = {} /\ a = NextQueued(m)

Claim(w) ==
  LET a == job[w] IN
  /\ pc[w] = "locked" /\ Claimable(a)
  /\ EnterAcquiring(a[1])
  /\ task' = [task EXCEPT ![a] = "RUNNING"]
  /\ Goto(w, "prepare")
  /\ UNCHANGED <<moneyVars, decision, ticket, code, call, hold, queueVars, lock, job,
                 localVars, gatewayVars, crashes>>

(* ALREADY_SUCCEEDED and ALREADY_FAILED go on to advance; the other refusals *)
(* (ALREADY_RUNNING, MANDATE_TERMINAL, WAITING_FOR_PREVIOUS...) end here.    *)
ClaimRefused(w) ==
  LET a == job[w] IN
  /\ pc[w] = "locked" /\ ~Claimable(a)
  /\ Goto(w, IF task[a] \in Finished THEN "advance" ELSE "done")
  /\ UNCHANGED <<moneyVars, mandateVars, taskVars, queueVars, lock, job, localVars,
                 gatewayVars, crashes>>

(* Mutant of PrepareOK: a second call of the acquisition may be recorded.    *)
PrepareOK_NotUnique(a) ==
  LET m == a[1] IN
  /\ VerifyReservation(m, MaxOf(m), Owner(m))
  /\ CallBudget(m) > 0 /\ UserCovers(m, CallBudget(m))

(* Second transaction: budget, reservation and the call row, whose insertion *)
(* fails when the acquisition already has a call.                            *)
PrepareOK(a) ==
  LET m == a[1] IN
  /\ budget[m] <= MaxOf(m)
  /\ VerifyReservation(m, MaxOf(m), Owner(m))
  /\ CallBudget(m) > 0
  /\ UserCovers(m, CallBudget(m))
  /\ call[a] = "NONE"

(* G13 THROTTLE lowers the budget of an AUTONOMOUS call.                     *)
Request(w) ==
  LET a == job[w] IN
  /\ pc[w] = "prepare" /\ PrepareOK(a)
  /\ call' = [call EXCEPT ![a] = "REQUESTED"]
  /\ seen' = [seen EXCEPT ![w] = res[a[1]]]
  /\ \E b \in 1 .. CallBudget(a[1]) :
       /\ b = CallBudget(a[1]) \/ Owner(a[1]) = "AUTONOMOUS"
       /\ slice' = [slice EXCEPT ![w] = b]
  /\ Goto(w, IF Owner(a[1]) = "AUTONOMOUS" THEN "authorize" ELSE "send")
  /\ UNCHANGED <<moneyVars, mandateVars, task, code, hold, queueVars, lock, job, cost,
                 gatewayVars, crashes>>

PrepareFails(w) ==
  /\ pc[w] = "prepare" /\ ~PrepareOK(job[w])
  /\ Goto(w, "failPre")
  /\ UNCHANGED <<moneyVars, mandateVars, taskVars, queueVars, lock, job, localVars,
                 gatewayVars, crashes>>

(* AUTONOMOUS only.  The commitment transaction reloads mandate, task and     *)
(* reservation under their row locks and consumes the one-shot permit.       *)
Committable(w) ==
  LET a == job[w]
      m == a[1] IN
  /\ mstatus[m] = "ACQUIRING" /\ task[a] = "RUNNING"
  /\ VerifyReservation(m, MaxOf(m), Owner(m))
  /\ res[m] = seen[w]
  /\ slice[w] <= res[m].reserved - UncertainHold(m)

Authorize(w) ==
  /\ pc[w] = "authorize" /\ Committable(w)
  /\ Goto(w, "send")
  /\ UNCHANGED <<moneyVars, mandateVars, taskVars, queueVars, lock, job, localVars,
                 gatewayVars, crashes>>

(* The G13 evaluation before the call row, and the authority checkpoint, the *)
(* permit and its consumption after it, may each refuse.                     *)
Deny(w) ==
  /\ pc[w] \in {"prepare", "authorize"}
  /\ Owner(job[w][1]) = "AUTONOMOUS"
  /\ \E step \in {"failPre", "failBlocked"} : Goto(w, step)
  /\ UNCHANGED <<moneyVars, mandateVars, taskVars, queueVars, lock, job, localVars,
                 gatewayVars, crashes>>

(* adapter.acquire: the request reaches the gateway, which pays or not; a    *)
(* 402 is a challenge that was not paid.                                     *)
Send(w) ==
  LET a == job[w] IN
  /\ pc[w] = "send"
  /\ sent' = [sent EXCEPT ![a] = @ + 1]
  /\ \E x \in 0 .. slice[w], answer \in {"answered", "refused", "failNet", "fail402"} :
       /\ answer = "fail402" => x = 0
       /\ paid' = [paid EXCEPT ![a] = @ + x]
       /\ cost' = [cost EXCEPT ![w] = IF answer = "answered" THEN x ELSE 0]
       /\ Goto(w, answer)
  /\ UNCHANGED <<moneyVars, mandateVars, taskVars, queueVars, lock, job, seen, slice,
                 crashes>>

(* A parsed response is committed before it is judged: "refused" is one      *)
(* without identity, without cost, or costing more than the budget.          *)
Receive(w) ==
  /\ pc[w] \in {"answered", "refused"}
  /\ call' = [call EXCEPT ![job[w]] = "RECEIVED"]
  /\ Goto(w, IF pc[w] = "answered" THEN "settle" ELSE "failNet")
  /\ UNCHANGED <<moneyVars, mandateVars, task, code, hold, queueVars, lock, job, localVars,
                 gatewayVars, crashes>>

(* The user's credit first, then the day's ledger, over the reservation the  *)
(* session loaded before the network call.                                   *)
SettleCall(w) ==
  LET a == job[w]
      m == a[1]
      finalize == Queued(m) = {} /\ UncertainHold(m) = 0 IN
  /\ pc[w] = "settle"
  /\ UserSettle(m, cost[w], finalize)
  /\ SettleSeen(m, seen[w], cost[w], MaxOf(m), Owner(m), finalize)
  /\ call' = [call EXCEPT ![a] = "SUCCEEDED"]
  /\ task' = [task EXCEPT ![a] = "SUCCEEDED"]
  /\ Goto(w, "advance") /\ ForgetLocals(w)
  /\ UNCHANGED <<mandateVars, code, hold, queueVars, lock, job, gatewayVars, crashes>>

(* Either ledger refuses, or the transaction fails, after the network.       *)
SettleFails(w) ==
  /\ pc[w] = "settle"
  /\ Goto(w, "failNet")
  /\ UNCHANGED <<moneyVars, mandateVars, taskVars, queueVars, lock, job, localVars,
                 gatewayVars, crashes>>

(* The except branch.  Whatever the call row says is overwritten.            *)
Fail(w) ==
  LET a == job[w]
      outcome == CASE pc[w] = "fail402" -> "RECONCILED_NO_PAYMENT"
                   [] pc[w] = "failNet" -> "PAYMENT_UNCERTAIN"
                   [] OTHER             -> "NOT_EXECUTED" IN
  /\ pc[w] \in {"failPre", "failBlocked", "failNet", "fail402"}
  /\ EnterAcquiring(a[1])
  /\ task' = [task EXCEPT ![a] = "FAILED"]
  /\ code' = [code EXCEPT ![a] = IF pc[w] = "failBlocked" THEN "G13_BLOCK" ELSE "OTHER"]
  /\ call' = [call EXCEPT ![a] = IF @ = "NONE" THEN @ ELSE outcome]
  /\ hold' = [hold EXCEPT ![a] = IF pc[w] = "failNet" THEN @ + slice[w] ELSE @]
  /\ Goto(w, "advance") /\ ForgetLocals(w)
  /\ UNCHANGED <<moneyVars, decision, ticket, queueVars, lock, job, gatewayVars, crashes>>

-----------------------------------------------------------------------------
(* advance: close the acquisition phase or hand over to the next task.  Its  *)
(* transaction writes nothing before it publishes.                           *)

Advancing(w) == pc[w] = "advance"

AdvanceStops(w) ==
  LET m == job[w][1] IN
  /\ Advancing(w)
  /\ mstatus[m] \in {"TICKETED", "FAILED"} \/ Running(m) # {}
  /\ Goto(w, "done")
  /\ UNCHANGED <<moneyVars, mandateVars, taskVars, queueVars, lock, job, localVars,
                 gatewayVars, crashes>>

HasNext(m) ==
  mstatus[m] \notin {"TICKETED", "FAILED"} /\ Running(m) = {} /\ Queued(m) # {}

(* Mutant of AdvanceNext: the next task is not published.                    *)
AdvanceNext_Unpublished(w) ==
  /\ Advancing(w) /\ HasNext(job[w][1])
  /\ Goto(w, "done")
  /\ UNCHANGED <<moneyVars, mandateVars, taskVars, queueVars, lock, job, localVars,
                 gatewayVars, crashes>>

AdvanceNext(w) ==
  LET m == job[w][1] IN
  /\ Advancing(w) /\ HasNext(m)
  /\ msgs' = [msgs EXCEPT ![NextQueued(m)] = @ + 1]
  /\ Goto(w, "done")
  /\ UNCHANGED <<moneyVars, mandateVars, taskVars, unpublished, lock, job, localVars,
                 gatewayVars, crashes>>

(* delay() raises: the task fails, and a failed task is acknowledged.        *)
AdvanceLost(w) ==
  LET m == job[w][1] IN
  /\ BrokerOutages
  /\ Advancing(w) /\ HasNext(m)
  /\ Goto(w, "done")
  /\ UNCHANGED <<moneyVars, mandateVars, taskVars, queueVars, lock, job, localVars,
                 gatewayVars, crashes>>

(* Mutants of AllFinished (a queued task does not count) and Returnable (the *)
(* hold does not count).                                                     *)
AllFinished_QueuedForgotten(m) ==
  mstatus[m] \notin {"TICKETED", "FAILED"} /\ Running(m) = {}
Returnable_HoldForgotten(m) == res[m].status = "RESERVED"

AllFinished(m) ==
  mstatus[m] \notin {"TICKETED", "FAILED"} /\ Running(m) = {} /\ Queued(m) = {}

Returnable(m) == res[m].status = "RESERVED" /\ UncertainHold(m) = 0

Blocked(m) == \E a \in TasksOf(m) : task[a] = "FAILED" /\ code[a] = "G13_BLOCK"

(* G13 stopped a task: the mandate fails and what is not uncertain goes back.*)
AdvanceBlocked(w) ==
  LET m == job[w][1] IN
  /\ Advancing(w) /\ AllFinished(m) /\ Blocked(m)
  /\ IF Returnable(m)
     THEN UserRelease(m) /\ Release(m, Owner(m))
     ELSE UNCHANGED moneyVars
  /\ Transition(m, <<"FAILED">>)
  /\ Goto(w, "done")
  /\ UNCHANGED <<decision, ticket, taskVars, queueVars, lock, job, localVars, gatewayVars,
                 crashes>>

(* The last task is over: finalize the reservation unless a payment is       *)
(* uncertain, then evaluate.                                                 *)
AdvanceClose(w) ==
  LET m == job[w][1] IN
  /\ Advancing(w) /\ AllFinished(m) /\ ~Blocked(m)
  /\ mstatus[m] = "ACQUIRING"
  /\ IF Returnable(m)
     THEN /\ UserRelease(m)
          /\ IF res[m].reserved > 0
             THEN Settle(m, 0, MaxAtClose(m), Owner(m), TRUE)
             ELSE Release(m, Owner(m))
     ELSE UNCHANGED moneyVars
  /\ Transition(m, <<"EVALUATING">>)
  /\ Goto(w, "evaluate")
  /\ UNCHANGED <<decision, ticket, taskVars, queueVars, lock, job, localVars, gatewayVars,
                 crashes>>

(* settle_spend raises when the reservation is above the ceiling used here:  *)
(* nothing is written and the failed message is acknowledged.                *)
AdvanceRaises(w) ==
  LET m == job[w][1] IN
  /\ Advancing(w) /\ AllFinished(m) /\ ~Blocked(m)
  /\ mstatus[m] = "ACQUIRING"
  /\ Returnable(m) /\ res[m].reserved > MaxAtClose(m)
  /\ Goto(w, "done")
  /\ UNCHANGED <<moneyVars, mandateVars, taskVars, queueVars, lock, job, localVars,
                 gatewayVars, crashes>>

(* A redelivery finds the acquisition phase already closed.                  *)
AdvanceAgain(w) ==
  LET m == job[w][1] IN
  /\ Advancing(w) /\ AllFinished(m) /\ ~Blocked(m)
  /\ mstatus[m] # "ACQUIRING"
  /\ Goto(w, "evaluate")
  /\ UNCHANGED <<moneyVars, mandateVars, taskVars, queueVars, lock, job, localVars,
                 gatewayVars, crashes>>

-----------------------------------------------------------------------------
(* evaluate_mandate and tickets/service.py.                                  *)

(* Mutant of StructuralState: failed required acquisitions are forgotten.    *)
StructuralState_FailuresForgotten(evidence, tasks) ==
  LET admitted == {evidence[a] : a \in DOMAIN evidence} IN
  IF admitted = {} \/ "REJECTED" \in admitted THEN "STRUCTURALLY_BLOCKED"
  ELSE IF "LIMITED" \in admitted THEN "STRUCTURALLY_LIMITED"
  ELSE "STRUCTURALLY_ADMISSIBLE"

(* pramagraph: structural_state over the evidence of the succeeded calls and *)
(* the tasks, then decide.                                                   *)
StructuralState(evidence, tasks) ==
  LET admitted == {evidence[a] : a \in DOMAIN evidence}
      failed   == {a \in tasks : a[2] \in Required /\ task[a] = "FAILED"} IN
  IF admitted = {} \/ "REJECTED" \in admitted THEN "STRUCTURALLY_BLOCKED"
  ELSE IF failed # {} \/ "LIMITED" \in admitted THEN "STRUCTURALLY_LIMITED"
  ELSE "STRUCTURALLY_ADMISSIBLE"

Decide(state) ==
  CASE state = "STRUCTURALLY_BLOCKED" -> "BLOCK"
    [] state = "STRUCTURALLY_LIMITED" -> "REVIEW"
    [] OTHER                          -> "PERMIT"

Admissibility == {"ADMITTED", "LIMITED", "REJECTED"}
SucceededCalls(m) == {a \in TasksOf(m) : call[a] = "SUCCEEDED"}

(* Already ticketed, tasks still open, or a failed mandate: the transition   *)
(* out of FAILED raises and nothing is committed.                            *)
EvaluateStops(w) ==
  LET m == job[w][1] IN
  /\ pc[w] = "evaluate"
  /\ \/ mstatus[m] \in {"TICKETED", "FAILED"}
     \/ mstatus[m] # "DECIDED" /\ Queued(m) \cup Running(m) # {}
  /\ Goto(w, "done")
  /\ UNCHANGED <<moneyVars, mandateVars, taskVars, queueVars, lock, job, localVars,
                 gatewayVars, crashes>>

(* Each succeeded call is verified upstream and classified; one transaction  *)
(* goes EVALUATING -> DECIDING -> DECIDED with evidence and decision.        *)
Evaluate(w) ==
  LET m == job[w][1] IN
  /\ pc[w] = "evaluate"
  /\ mstatus[m] \notin {"TICKETED", "DECIDED", "FAILED"}
  /\ Queued(m) \cup Running(m) = {}
  /\ Transition(m, <<"DECIDING", "DECIDED">>)
  /\ \E evidence \in [SucceededCalls(m) -> Admissibility] :
        decision' = [decision EXCEPT ![m] = Decide(StructuralState(evidence, TasksOf(m)))]
  /\ Goto(w, "ticket")
  /\ UNCHANGED <<moneyVars, ticket, taskVars, queueVars, lock, job, localVars, gatewayVars,
                 crashes>>

(* A strict policy and a signal the gateway cannot verify.                   *)
EvaluateStrict(w) ==
  LET m == job[w][1] IN
  /\ pc[w] = "evaluate"
  /\ Owner(m) \in StrictOrigins
  /\ mstatus[m] \notin {"TICKETED", "DECIDED", "FAILED"}
  /\ Queued(m) \cup Running(m) = {}
  /\ SucceededCalls(m) # {}
  /\ Transition(m, <<"DECIDING", "FAILED">>)
  /\ Goto(w, "done")
  /\ UNCHANGED <<moneyVars, decision, ticket, taskVars, queueVars, lock, job, localVars,
                 gatewayVars, crashes>>

(* Mutant of TicketDecided: the mandate is closed without its ticket row.    *)
TicketDecided_NoRow(w) ==
  LET m == job[w][1] IN
  /\ pc[w] = "evaluate"
  /\ mstatus[m] = "DECIDED"
  /\ Transition(m, <<"TICKETED">>)
  /\ Goto(w, "done")
  /\ UNCHANGED <<moneyVars, decision, ticket, taskVars, queueVars, lock, job, localVars,
                 gatewayVars, crashes>>

(* A redelivery finds the decision committed without its ticket.             *)
TicketDecided(w) ==
  LET m == job[w][1] IN
  /\ pc[w] = "evaluate"
  /\ mstatus[m] = "DECIDED"
  /\ Transition(m, <<"TICKETED">>)
  /\ ticket' = [ticket EXCEPT ![m] = decision[m]]
  /\ Goto(w, "done")
  /\ UNCHANGED <<moneyVars, decision, taskVars, queueVars, lock, job, localVars,
                 gatewayVars, crashes>>

(* issue_ticket after the decision was committed.  The row is locked again   *)
(* but the session keeps the mandate it loaded, so only the ticket row tells *)
(* whether somebody else issued it meanwhile.                                *)
IssueTicket(w) ==
  LET m == job[w][1] IN
  /\ pc[w] = "ticket"
  /\ IF ticket[m] = Undecided
     THEN /\ mstatus' = [mstatus EXCEPT ![m] = "TICKETED"]
          /\ ticket' = [ticket EXCEPT ![m] = decision[m]]
     ELSE UNCHANGED <<mstatus, ticket>>
  /\ Goto(w, IF Owner(m) # "AUTONOMOUS" THEN "done"
             ELSE IF ticket[m] = Undecided THEN "finalize" ELSE "finalizeStale")
  /\ UNCHANGED <<moneyVars, decision, taskVars, queueVars, lock, job, localVars,
                 gatewayVars, crashes>>

(* finalize_http_run of an AUTONOMOUS mandate; AutonomyRuns says what it does*)
(* to the run.                                                               *)
Finalize(w) ==
  /\ pc[w] \in {"finalize", "finalizeStale"}
  /\ Goto(w, "done")
  /\ UNCHANGED <<moneyVars, mandateVars, taskVars, queueVars, lock, job, localVars,
                 gatewayVars, crashes>>

-----------------------------------------------------------------------------
Midnight ==
  /\ NextDay
  /\ UNCHANGED <<creditVars, mandateVars, taskVars, queueVars, lock, pc, job, localVars, gatewayVars,
                 crashes>>

Register(u) ==
  /\ GrantWelcome(u)
  /\ UNCHANGED <<ledgerVars, mandateVars, taskVars, queueVars, lock, pc, job, localVars,
                 gatewayVars, crashes>>

Api(m) == Create(m) \/ Publish(m) \/ PublishLost(m) \/ Republish(m)

Broker(w, a) == Deliver(w, a) \/ DropLocked(w, a)

ExecuteOne(w) ==
  \/ ClaimRefused(w) \/ Request(w) \/ PrepareFails(w) \/ Authorize(w) \/ Deny(w)
  \/ Send(w) \/ Receive(w) \/ SettleCall(w) \/ SettleFails(w) \/ Fail(w)

Advance(w) ==
  \/ AdvanceStops(w) \/ AdvanceNext(w) \/ AdvanceLost(w)
  \/ AdvanceClose(w) \/ AdvanceRaises(w) \/ AdvanceAgain(w)

EvaluateAndTicket(w) ==
  EvaluateStops(w) \/ Evaluate(w) \/ TicketDecided(w) \/ IssueTicket(w)

(* The steps that call finalize_http_run.                                    *)
CloseRun(w) == AdvanceBlocked(w) \/ EvaluateStrict(w) \/ Finalize(w)

WorkerStep(w) ==
  Claim(w) \/ ExecuteOne(w) \/ Advance(w) \/ EvaluateAndTicket(w) \/ CloseRun(w) \/ Finish(w)

Environment ==
  \/ \E a \in Task : LockExpires(a)
  \/ \E w \in Workers : Crash(w)
  \/ Midnight

Next ==
  \/ \E u \in Users : Register(u)
  \/ \E m \in Mandates : Api(m)
  \/ \E w \in Workers : WorkerStep(w) \/ \E a \in Task : Broker(w, a)
  \/ Environment

Spec == Init /\ [][Next]_vars

(* Scheduling: a worker that has a message finishes it, the broker delivers  *)
(* to a free worker, the API publishes what it committed, a lease ends.      *)
Fairness ==
  /\ \A m \in Mandates : WF_vars(Publish(m))
  /\ \A w \in Workers : WF_vars(WorkerStep(w))
  /\ WF_vars(\E w \in Workers, a \in Task : Broker(w, a))
  /\ \A a \in Task : WF_vars(LockExpires(a))

FairSpec == Spec /\ Fairness

-----------------------------------------------------------------------------
(* Properties.                                                             *)

(* Every variable has its declared shape.                                   *)
TypeOK ==
  /\ LedgerTypeOK /\ CreditTypeOK
  /\ mstatus \in [Mandates -> Lifecycle!MandateStatus \cup {"NONE"}]
  /\ decision \in [Mandates -> Verdict \cup {Undecided}]
  /\ ticket \in [Mandates -> Verdict \cup {Undecided}]
  /\ unpublished \subseteq Mandates
  /\ task \in [Task -> TaskStatus]
  /\ code \in [Task -> FailureCode]
  /\ call \in [Task -> CallStatus]
  /\ hold \in [Task -> Nat]
  /\ msgs \in [Task -> Nat]
  /\ lock \in [Task -> Workers \cup {NoWorker, Orphan}]
  /\ pc \in [Workers -> Step]
  /\ job \in [Workers -> Task \cup {NoTask}]
  /\ seen \in [Workers -> Reservation]
  /\ slice \in [Workers -> Nat]
  /\ cost \in [Workers -> Nat]
  /\ sent \in [Task -> Nat]
  /\ paid \in [Task -> Nat]
  /\ crashes \in Nat

(* The durable at-most-once claim: whatever is redelivered, duplicated or   *)
(* lost, an acquisition reaches the gateway at most once.                   *)
AtMostOnePayment == \A a \in Task : sent[a] <= 1

(* Every micro-USDC the gateway paid for a mandate is booked as spent or is *)
(* still covered by an open reservation, also between the payment and the   *)
(* commit that records it.                                                  *)
PaidIsCovered ==
  \A m \in Mandates :
     SumFunctionOnSet(paid, TasksOf(m))
       <= res[m].actual + (IF res[m].status = "RESERVED" THEN res[m].reserved ELSE 0)

(* A payment that could not be established keeps its maximum reserved: later*)
(* calls of the mandate cannot spend it and finalization cannot return it.  *)
HoldIsKept ==
  \A m \in Mandates :
     UncertainHold(m) > 0 => /\ res[m].status = "RESERVED"
                             /\ res[m].reserved >= UncertainHold(m)

(* A user's credit and the day's ledger tell the same story: what a USER     *)
(* mandate holds and has spent on the one is what it has on the other.      *)
CreditMatches ==
  \A m \in UserMandates :
     /\ credit[m].settled = res[m].actual
     /\ Held(m) = IF res[m].status = "RESERVED" THEN res[m].reserved ELSE 0

(* Once the acquisition phase is closed the books are too: no task is open  *)
(* and the reservation is closed unless a payment is uncertain.             *)
ClosedBooks ==
  \A m \in Mandates :
     mstatus[m] \in {"EVALUATING", "DECIDED", "TICKETED"} =>
        /\ \A a \in TasksOf(m) : task[a] \in Finished \cup {"NONE"}
        /\ res[m].status = "RESERVED" <=> UncertainHold(m) > 0

(* A PERMIT ticket is never issued for a mandate with a required acquisition*)
(* that failed, or with a call whose outcome is uncertain.                  *)
PermitIsEarned ==
  \A m \in Mandates :
     ticket[m] = "PERMIT" =>
        /\ \E a \in TasksOf(m) : call[a] = "SUCCEEDED"
        /\ \A a \in TasksOf(m) : a[2] \in Required => task[a] \in {"SUCCEEDED", "NONE"}

(* The pipeline implements the mandate life cycle and uses the spend ledger *)
(* only through its operations.                                             *)
ImplementsLifecycle == Lifecycle!Spec
UsesLedger == LedgerSpec

(* Without crashes and broker outages every accepted mandate is closed.     *)
EveryMandateCloses ==
  \A m \in Mandates : mstatus[m] # "NONE" ~> mstatus[m] \in {"TICKETED", "FAILED"}

(* advance: "Resume dispatch on redelivery without repeating completed      *)
(* payment".  A mandate whose tasks finished or wait, with a message about  *)
(* it in the broker or in a worker, gets on.                                *)
ResumesOnRedelivery ==
  \A m \in Mandates :
     (/\ mstatus[m] = "ACQUIRING" /\ Running(m) = {}
      /\ \E a \in TasksOf(m) : msgs[a] > 0 \/ \E w \in Workers : job[w] = a)
     ~> (mstatus[m] # "ACQUIRING" \/ Running(m) # {})
=============================================================================
