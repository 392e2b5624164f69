--------------------------- MODULE AutonomyRuns_proofs ---------------------------
(***************************************************************************)
(* What recovery cannot break.  recover_runs puts tasks back in the queue  *)
(* and closes orphans, also those of a worker that is alive, but it never  *)
(* touches a call row: every step of a tick leaves the state that ClaimInv *)
(* is about alone, every other step is one of the pipeline's.              *)
(*                                                                         *)
(* StageInv and BookInv do not survive it (a requeued task has two         *)
(* workers), so that a run is completed only with its ticket rests on an   *)
(* invariant of its own: nothing moves a mandate out of TICKETED.          *)
(* Of the ledgers the caps survive, and that what is spent stays spent:    *)
(* CapInv asks of a worker's reservation only that the row once was so.    *)
(***************************************************************************)
EXTENDS AutonomyRuns, MandatePipeline_proofs

LEMMA OutsideLeaves ==
  ASSUME Outside
  PROVE  UNCHANGED <<run, plan, vars>>
  BY DEF Outside, TickDies, GateMoves, Lease, GraceEnds, StartGraceEnds

LEMMA TickLeavesClaims ==
  ASSUME Tick \/ Outside
  PROVE  UNCHANGED <<call, sent, pc, job>>
<1>1. ASSUME TickRecover
      PROVE  UNCHANGED <<call, sent, pc, job>>
  BY <1>1 DEF TickRecover, gatewayVars
<1>2. ASSUME TickResume \/ TickSchedule \/ TickSkip \/ TickEnds
      PROVE  UNCHANGED <<call, sent, pc, job>>
  BY <1>2 DEF TickResume, TickSchedule, TickSkip, TickEnds, vars, taskVars, gatewayVars
<1>3. ASSUME \E m \in Driven : Execute(m) \/ TickPublish(m)
      PROVE  UNCHANGED <<call, sent, pc, job>>
  BY <1>3 DEF Execute, ExecuteRefused, ExecuteNew, ExecuteMalformed, ExecuteUnfunded, ExecuteAgain,
              TickPublish, vars, taskVars, gatewayVars
<1>4. ASSUME Outside
      PROVE  UNCHANGED <<call, sent, pc, job>>
  BY <1>4, OutsideLeaves DEF vars, taskVars, gatewayVars
<1> QED
  <2>1. \/ TickRecover \/ TickResume \/ TickSchedule \/ TickSkip \/ TickEnds \/ Outside
        \/ \E m \in Driven : Execute(m) \/ TickPublish(m)
    BY DEF Tick
  <2> QED
    BY <1>1, <1>2, <1>3, <1>4, <2>1, Zenon

LEMMA PipelineStep ==
  ASSUME RunsEnvironment \/ \E w \in Workers : WorkerRunStep(w)
  PROVE  Next
<1>1. CASE RunsEnvironment
  BY <1>1 DEF RunsEnvironment, Next
<1>2. ASSUME NEW w \in Workers, WorkerRunStep(w)
      PROVE  Next
  BY <1>2 DEF WorkerRunStep, ClaimTask, CloseOwnRun, OtherStep, Next, WorkerStep
<1> QED
  BY <1>1, <1>2

(* AtMostOnePayment, with recover_runs: a requeued acquisition is never paid *)
(* a second time, whether the worker it was taken from is dead or alive.     *)
THEOREM RecoveryNeverPaysTwice == RunsSpec => []AtMostOnePayment
<1>1. RunsInit => ClaimInv
  BY ClaimInit DEF RunsInit
<1>2. ClaimInv /\ [RunsNext]_runsVars => ClaimInv'
  <2> SUFFICES ASSUME ClaimInv, [RunsNext]_runsVars
               PROVE  ClaimInv'
    OBVIOUS
  <2>1. CASE Tick \/ Outside
    BY <2>1, TickLeavesClaims, ClaimElsewhere
  <2>2. CASE RunsEnvironment \/ \E w \in Workers : WorkerRunStep(w)
    BY <2>2, PipelineStep, ClaimNext
  <2>3. CASE UNCHANGED runsVars
    BY <2>3, ClaimElsewhere DEF runsVars, vars, taskVars, gatewayVars
  <2> QED
    BY <2>1, <2>2, <2>3 DEF RunsNext
<1>3. ClaimInv => AtMostOnePayment
  BY DEF ClaimInv, SentHasCall, AtMostOnePayment
<1> QED
  BY <1>1, <1>2, <1>3, PTL DEF RunsSpec
-----------------------------------------------------------------------------
(* A ticketed mandate keeps its status, its decision and its ticket; whoever  *)
(* is about to complete a run has issued that mandate's ticket.              *)
TicketTypeOK ==
  /\ mstatus \in [Mandates -> Stages]
  /\ decision \in [Mandates -> Verdict \cup {Undecided}]
  /\ ticket \in [Mandates -> Verdict \cup {Undecided}]

TicketsFit ==
  /\ ClaimTypeOK /\ TicketTypeOK
  /\ \A m \in Mandates : mstatus[m] = "TICKETED" => ticket[m] = decision[m]
  /\ \A w \in Workers : pc[w] = "finalize" => mstatus[job[w][1]] = "TICKETED"

RowKept(m) == mstatus'[m] = mstatus[m] /\ decision'[m] = decision[m] /\ ticket'[m] = ticket[m]
RowMoved(m) ==
  mstatus[m] # "TICKETED" /\ (mstatus'[m] = "TICKETED" => ticket'[m] = decision'[m])

TicketedStays == \A m \in Mandates : mstatus[m] = "TICKETED" => mstatus'[m] = "TICKETED"

LEMMA TicketStep ==
  ASSUME TicketsFit, ClaimTypeOK', TicketTypeOK',
         \A m \in Mandates : RowKept(m) \/ RowMoved(m),
         \A w \in Workers : pc'[w] = "finalize" =>
            \/ mstatus'[job'[w][1]] = "TICKETED"
            \/ pc[w] = "finalize" /\ job'[w] = job[w]
  PROVE  TicketsFit' /\ TicketedStays
<1>1. TicketedStays
  BY DEF TicketedStays, RowKept, RowMoved
<1>2. ASSUME NEW m \in Mandates, mstatus'[m] = "TICKETED"
      PROVE  ticket'[m] = decision'[m]
  BY <1>2 DEF TicketsFit, RowKept, RowMoved
<1>3. ASSUME NEW w \in Workers, pc'[w] = "finalize"
      PROVE  mstatus'[job'[w][1]] = "TICKETED"
  <2>1. CASE pc[w] = "finalize" /\ job'[w] = job[w]
    <3>1. job[w] \in Task /\ mstatus[job[w][1]] = "TICKETED"
      BY <2>1 DEF TicketsFit, ClaimTypeOK
    <3>2. job[w][1] \in Mandates
      BY <3>1, TaskFacts
    <3> QED
      BY <1>1, <2>1, <3>1, <3>2 DEF TicketedStays
  <2> QED
    BY <1>3, <2>1
<1> QED
  BY <1>1, <1>2, <1>3 DEF TicketsFit

(* The steps of a worker, by what they write on the row of its mandate.      *)
LEMMA TicketWork ==
  ASSUME TicketsFit, ClaimTypeOK', NEW w \in Workers,
         WorkerStep(w) \/ Crash(w) \/ \E a \in Task : Deliver(w, a)
  PROVE  TicketsFit' /\ TicketedStays
<1> DEFINE m == job[w][1]
<1>0. /\ pc \in [Workers -> Step] /\ mstatus \in [Mandates -> Stages]
      /\ decision \in [Mandates -> Verdict \cup {Undecided}]
      /\ ticket \in [Mandates -> Verdict \cup {Undecided}]
      /\ ClaimTypeOK /\ (pc[w] # "idle" => m \in Mandates)
  BY TaskFacts DEF TicketsFit, TicketTypeOK, ClaimTypeOK
<1>1. ASSUME UNCHANGED mandateVars, pc'[w] # "finalize",
             \A v \in Workers \ {w} : pc'[v] = pc[v] /\ job'[v] = job[v]
      PROVE  TicketsFit' /\ TicketedStays
  <2>1. TicketTypeOK' /\ \A n \in Mandates : RowKept(n)
    BY <1>0, <1>1 DEF mandateVars, TicketTypeOK, RowKept
  <2> QED
    BY <1>1, <2>1, TicketStep
<1>2. CASE Rests(w)
  BY <1>0, <1>1, <1>2, RestStep DEF rowVars
<1>3. CASE Turns(w)
  <2>1. /\ UNCHANGED <<rowVars, job>> /\ pc'[w] # "finalize"
        /\ \A v \in Workers \ {w} : pc'[v] = pc[v]
    BY <1>0, <1>3, TurnStep
  <2> QED
    BY <1>1, <2>1 DEF rowVars
<1>4. CASE Request(w) \/ Receive(w) \/ SettleCall(w)
  <2>1. /\ UNCHANGED mandateVars /\ job' = job
        /\ \E step \in {"authorize", "send", "settle", "failNet", "advance"} : pc' = [pc EXCEPT ![w] = step]
    BY <1>4 DEF Request, Receive, SettleCall, Goto
  <2> QED
    BY <1>0, <1>1, <2>1
<1>5. CASE Send(w)
  <2>1. /\ UNCHANGED mandateVars /\ job' = job
        /\ \E step \in {"answered", "refused", "failNet", "fail402"} : pc' = [pc EXCEPT ![w] = step]
    BY <1>5 DEF Send, Goto
  <2> QED
    BY <1>0, <1>1, <2>1
<1>6. ASSUME NEW s \in Stages \ {"TICKETED"}, mstatus' = [mstatus EXCEPT ![m] = s] \/ mstatus' = mstatus,
             mstatus[m] # "TICKETED", m \in Mandates,
             NEW d \in Verdict, decision' = decision \/ decision' = [decision EXCEPT ![m] = d],
             ticket' = ticket, job' = job,
             NEW step \in Step \ {"finalize"}, pc' = [pc EXCEPT ![w] = step]
      PROVE  TicketsFit' /\ TicketedStays
  <2>1. TicketTypeOK'
    BY <1>0, <1>6 DEF TicketTypeOK
  <2>2. \A n \in Mandates : RowKept(n) \/ RowMoved(n)
    BY <1>0, <1>6 DEF RowKept, RowMoved
  <2>3. \A v \in Workers : pc'[v] = "finalize" => pc[v] = "finalize" /\ job'[v] = job[v]
    BY <1>0, <1>6
  <2> QED
    BY <2>1, <2>2, <2>3, TicketStep
<1>7. CASE Claim(w) \/ Fail(w)
  <2>1. /\ m \in Mandates /\ EnterAcquiring(m) /\ UNCHANGED <<decision, ticket, job>>
        /\ \E step \in {"prepare", "advance"} : pc' = [pc EXCEPT ![w] = step]
    BY <1>0, <1>7 DEF Claim, Fail, Goto
  <2>2. CASE mstatus[m] \in {"RECEIVED", "PLANNED"}
    BY <1>6, <2>1, <2>2 DEF EnterAcquiring, Stages, Step, Verdict
  <2>3. CASE mstatus' = mstatus
    <3>1. UNCHANGED mandateVars /\ pc'[w] # "finalize"
          /\ \A v \in Workers \ {w} : pc'[v] = pc[v] /\ job'[v] = job[v]
      BY <1>0, <2>1, <2>3 DEF mandateVars
    <3> QED
      BY <1>1, <3>1
  <2> QED
    BY <2>1, <2>2, <2>3 DEF EnterAcquiring
<1>8. CASE AdvanceBlocked(w) \/ AdvanceClose(w) \/ EvaluateStrict(w)
  <2>1. /\ m \in Mandates /\ mstatus[m] # "TICKETED" /\ UNCHANGED <<decision, ticket, job>>
        /\ \E s \in {"FAILED", "EVALUATING"} : mstatus' = [mstatus EXCEPT ![m] = s]
        /\ \E step \in {"evaluate", "done"} : pc' = [pc EXCEPT ![w] = step]
    BY <1>0, <1>8, TransitionTo
       DEF AdvanceBlocked, AdvanceClose, EvaluateStrict, Advancing, AllFinished, Goto
  <2> QED
    BY <1>6, <2>1 DEF Stages, Step, Verdict
<1>9. CASE Evaluate(w)
  <2>1. /\ m \in Mandates /\ mstatus[m] # "TICKETED" /\ UNCHANGED <<ticket, job>>
        /\ mstatus' = [mstatus EXCEPT ![m] = "DECIDED"]
        /\ \E e \in [SucceededCalls(m) -> Admissibility] :
              decision' = [decision EXCEPT ![m] = Decide(StructuralState(e, TasksOf(m)))]
        /\ pc' = [pc EXCEPT ![w] = "ticket"]
    BY <1>0, <1>9, TransitionTo DEF Evaluate, Goto
  <2>2. \A s : Decide(s) \in Verdict
    BY DEF Decide, Verdict
  <2>3. \E d \in Verdict : decision' = [decision EXCEPT ![m] = d]
    BY <2>1, <2>2
  <2> QED
    BY <1>6, <2>1, <2>3 DEF Stages, Step
<1>10. CASE TicketDecided(w) \/ IssueTicket(w)
  <2>1. /\ m \in Mandates /\ UNCHANGED <<decision, job>>
        /\ \/ UNCHANGED <<mstatus, ticket>> /\ (TicketDecided(w) => FALSE)
           \/ /\ mstatus' = [mstatus EXCEPT ![m] = "TICKETED"]
              /\ ticket' = [ticket EXCEPT ![m] = decision[m]]
        /\ \E step \in {"done", "finalize", "finalizeStale"} :
              /\ pc' = [pc EXCEPT ![w] = step]
              /\ step = "finalize" => mstatus' = [mstatus EXCEPT ![m] = "TICKETED"]
    BY <1>0, <1>10, TransitionTo DEF TicketDecided, IssueTicket, Goto
  <2>2. TicketTypeOK'
    BY <1>0, <2>1 DEF TicketTypeOK, Stages
  <2>3. \A n \in Mandates : RowKept(n) \/ RowMoved(n)
    BY <1>0, <2>1 DEF RowKept, RowMoved, TicketsFit
  <2>4. \A v \in Workers : pc'[v] = "finalize" =>
           \/ mstatus'[job'[v][1]] = "TICKETED"
           \/ pc[v] = "finalize" /\ job'[v] = job[v]
    BY <1>0, <2>1
  <2> QED
    BY <2>2, <2>3, <2>4, TicketStep
<1> QED
  BY <1>2, <1>3, <1>4, <1>5, <1>7, <1>8, <1>9, <1>10
     DEF WorkerStep, ExecuteOne, Advance, EvaluateAndTicket, CloseRun, Rests, Turns

LEMMA TicketElsewhere ==
  ASSUME TicketsFit, ClaimTypeOK', TicketTypeOK', UNCHANGED <<decision, ticket, pc, job>>,
         \A m \in Mandates :
            \/ mstatus'[m] = mstatus[m]
            \/ mstatus[m] # "TICKETED" /\ mstatus'[m] # "TICKETED"
  PROVE  TicketsFit' /\ TicketedStays
  BY TicketStep DEF RowKept, RowMoved

LEMMA TicketNext ==
  ASSUME TicketsFit, ClaimTypeOK', [Next]_vars
  PROVE  TicketsFit' /\ TicketedStays
<1>1. ASSUME UNCHANGED <<mandateVars, pc, job>>
      PROVE  TicketsFit' /\ TicketedStays
  <2>1. UNCHANGED <<mstatus, decision, ticket, pc, job>>
    BY <1>1 DEF mandateVars
  <2>2. TicketTypeOK'
    BY <2>1 DEF TicketsFit, TicketTypeOK
  <2> QED
    BY <2>1, <2>2, TicketElsewhere
<1>2. ASSUME NEW m \in Mandates, Create(m)
      PROVE  TicketsFit' /\ TicketedStays
  <2>1. /\ mstatus[m] = "NONE" /\ mstatus' = [mstatus EXCEPT ![m] = "RECEIVED"]
        /\ UNCHANGED <<decision, ticket, pc, job>>
    BY <1>2 DEF Create
  <2>2. mstatus \in [Mandates -> Stages] /\ "RECEIVED" \in Stages
    BY DEF TicketsFit, TicketTypeOK, Stages
  <2>3. TicketTypeOK'
    BY <2>1, <2>2 DEF TicketsFit, TicketTypeOK
  <2>4. \A n \in Mandates :
           \/ mstatus'[n] = mstatus[n]
           \/ mstatus[n] # "TICKETED" /\ mstatus'[n] # "TICKETED"
    BY <2>1, <2>2
  <2> QED
    BY <2>1, <2>3, <2>4, TicketElsewhere
<1>3. ASSUME \/ \E u \in Users : Register(u)
             \/ \E m \in Mandates : Publish(m) \/ PublishLost(m) \/ Republish(m)
             \/ \E w \in Workers, a \in Task : DropLocked(w, a)
             \/ \E a \in Task : LockExpires(a)
             \/ Midnight \/ UNCHANGED vars
      PROVE  TicketsFit' /\ TicketedStays
  BY <1>1, <1>3
     DEF Register, Publish, PublishLost, Republish, DropLocked, LockExpires, Midnight, vars
<1> QED
  BY <1>2, <1>3, TicketWork DEF Next, Api, Broker, Environment

(* A tick moves mandates too, none of them out of TICKETED and none into it. *)
LEMMA TicketTick ==
  ASSUME TicketsFit, ClaimTypeOK', Tick \/ Outside
  PROVE  TicketsFit' /\ TicketedStays
<1>0. UNCHANGED <<pc, job>> /\ mstatus \in [Mandates -> Stages]
  BY TickLeavesClaims DEF TicketsFit, TicketTypeOK
<1>1. /\ UNCHANGED <<decision, ticket>>
      /\ \/ mstatus' = mstatus
         \/ mstatus' = [m \in Mandates |-> IF m \in Failing THEN "FAILED" ELSE mstatus[m]]
         \/ \E m \in Driven, s \in {"RECEIVED", "FAILED"} :
               mstatus[m] = "NONE" /\ mstatus' = [mstatus EXCEPT ![m] = s]
  <2>1. CASE TickRecover
    BY <2>1 DEF TickRecover, RecoverRuns
  <2>2. CASE TickResume \/ TickSchedule \/ TickSkip \/ TickEnds \/ Outside
    BY <2>2, OutsideLeaves DEF TickResume, TickSchedule, TickSkip, TickEnds,
                vars, mandateVars
  <2>3. ASSUME NEW m \in Driven, Execute(m)
        PROVE  /\ UNCHANGED <<decision, ticket>>
               /\ \/ mstatus' = mstatus
                  \/ \E s \in {"RECEIVED", "FAILED"} :
                        mstatus[m] = "NONE" /\ mstatus' = [mstatus EXCEPT ![m] = s]
    BY <2>3 DEF Execute, ExecuteRefused, ExecuteNew, ExecuteMalformed, ExecuteUnfunded,
                ExecuteAgain, vars, mandateVars
  <2>4. CASE \E m \in Driven : TickPublish(m)
    BY <2>4 DEF TickPublish, mandateVars
  <2> QED
    BY <2>1, <2>2, <2>3, <2>4 DEF Tick
<1>2. \A m \in Mandates : m \in Failing => mstatus[m] # "TICKETED"
  BY DEF Failing, Lifecycle!Closed
<1>3. TicketTypeOK' /\ \A m \in Mandates :
                          \/ mstatus'[m] = mstatus[m]
                          \/ mstatus[m] # "TICKETED" /\ mstatus'[m] # "TICKETED"
  BY <1>0, <1>1, <1>2 DEF TicketsFit, TicketTypeOK, Stages, Driven
<1>4. UNCHANGED <<decision, ticket, pc, job>>
  BY <1>0, <1>1
<1> QED
  BY <1>3, <1>4, TicketElsewhere

-----------------------------------------------------------------------------
CompletedFits ==
  /\ run \in [Driven -> RunState \cup {NoRun}]
  /\ \A m \in Driven : run[m] = "COMPLETED" => mstatus[m] = "TICKETED"

LEMMA RunsKept ==
  ASSUME CompletedFits, TicketedStays, run' \in [Driven -> RunState \cup {NoRun}],
         \A m \in Driven : run'[m] = "COMPLETED" => run[m] = "COMPLETED" \/ mstatus'[m] = "TICKETED"
  PROVE  CompletedFits'
  BY DEF CompletedFits, TicketedStays, Driven

LEMMA CompletedTick ==
  ASSUME CompletedFits, TicketedStays, Tick \/ Outside
  PROVE  CompletedFits'
<1>0. run \in [Driven -> RunState \cup {NoRun}]
  BY DEF CompletedFits
<1>1. ASSUME NEW m \in Driven, NEW s \in RunState, SetRun(m, s),
             s = "COMPLETED" => mstatus'[m] = "TICKETED"
      PROVE  CompletedFits'
  <2>1. run' = [run EXCEPT ![m] = s]
    BY <1>1 DEF SetRun
  <2> QED
    BY <1>0, <1>1, <2>1, RunsKept
<1>2. ASSUME run' = run
      PROVE  CompletedFits'
  BY <1>0, <1>2, RunsKept
<1>3. CASE TickRecover
  <2>1. run' = [m \in Driven |-> IF m \in Rescheduled THEN "SCHEDULED" ELSE run[m]]
    BY <1>3 DEF TickRecover, RecoverRuns
  <2> QED
    BY <1>0, <2>1, RunsKept DEF RunState, ActiveRun
<1>4. CASE TickResume \/ TickEnds \/ Outside \/ \E m \in Driven : TickPublish(m)
  BY <1>2, <1>4, OutsideLeaves DEF TickResume, TickEnds, TickPublish
<1>5. CASE TickSchedule \/ TickSkip
  <2>1. \E m \in Driven, s \in {"SCHEDULED", "SKIPPED"} : SetRun(m, s)
    BY <1>5 DEF TickSchedule, TickSkip, NewRun
  <2> QED
    BY <1>1, <2>1 DEF RunState, ActiveRun, ClosedRun
<1>6. ASSUME NEW m \in Driven, Execute(m)
      PROVE  CompletedFits'
  <2>1. CASE ExecuteAgain(m)
    <3>1. /\ mstatus' = mstatus
          /\ \/ SetRun(m, "RUNNING") \/ SetRun(m, "FAILED")
             \/ SetRun(m, "COMPLETED") /\ mstatus[m] = "TICKETED"
      BY <2>1 DEF ExecuteAgain, vars, mandateVars
    <3> QED
      BY <1>1, <3>1 DEF RunState, ActiveRun, ClosedRun
  <2>2. CASE ExecuteRefused(m) \/ ExecuteNew(m) \/ ExecuteMalformed(m) \/ ExecuteUnfunded(m)
    <3>1. SetRun(m, "RUNNING") \/ SetRun(m, "FAILED")
      BY <2>2 DEF ExecuteRefused, ExecuteNew, ExecuteMalformed, ExecuteUnfunded
    <3> QED
      BY <1>1, <3>1 DEF RunState, ActiveRun, ClosedRun
  <2> QED
    BY <1>6, <2>1, <2>2 DEF Execute
<1> QED
  <2>1. \/ TickRecover \/ TickResume \/ TickSchedule \/ TickSkip \/ TickEnds \/ Outside
        \/ \E m \in Driven : Execute(m) \/ TickPublish(m)
    BY DEF Tick
  <2> QED
    BY <1>3, <1>4, <1>5, <1>6, <2>1

(* finalize_http_run completes the run of the mandate whose ticket its worker *)
(* has issued.                                                               *)
LEMMA CompletedStep ==
  ASSUME CompletedFits, TicketedStays, TicketsFit,
         RunsEnvironment \/ (\E w \in Workers : WorkerRunStep(w)) \/ UNCHANGED runsVars
  PROVE  CompletedFits'
<1>0. run \in [Driven -> RunState \cup {NoRun}]
  BY DEF CompletedFits
<1>1. ASSUME run' = run
      PROVE  CompletedFits'
  BY <1>0, <1>1, RunsKept
<1>2. CASE RunsEnvironment \/ UNCHANGED runsVars
  BY <1>1, <1>2 DEF RunsEnvironment, runsVars, runVars
<1>3. ASSUME NEW w \in Workers, ClaimTask(w) \/ OtherStep(w)
      PROVE  CompletedFits'
  BY <1>1, <1>3 DEF ClaimTask, OtherStep, runVars
<1>4. ASSUME NEW w \in Workers, CloseOwnRun(w)
      PROVE  CompletedFits'
  <2>1. PICK m : m = job[w][1]
    OBVIOUS
  <2>2. \/ run' = run
        \/ /\ m \in Driven
           /\ run' = [run EXCEPT ![m] = IF pc[w] = "finalize" THEN "COMPLETED" ELSE "FAILED"]
    BY <1>4, <2>1 DEF CloseOwnRun, FinalizeRun, SetRun, runVars
  <2>3. pc[w] = "finalize" /\ m \in Driven => mstatus'[m] = "TICKETED"
    BY <2>1 DEF TicketsFit, TicketedStays, Driven
  <2> QED
    BY <1>0, <1>1, <2>2, <2>3, RunsKept DEF RunState, ClosedRun
<1> QED
  BY <1>2, <1>3, <1>4 DEF WorkerRunStep

(* CompletedIsTicketed: whichever of recovery, a restarted tick or a late     *)
(* worker closes a run, it is COMPLETED only when its mandate carries the     *)
(* ticket of its decision.                                                   *)
THEOREM CompletedIsTicketedHolds == RunsSpec => []CompletedIsTicketed
<1> DEFINE Inv == ClaimInv /\ TicketsFit /\ CompletedFits
<1>1. RunsInit => Inv
  <2> SUFFICES ASSUME RunsInit PROVE Inv
    OBVIOUS
  <2>1. ClaimInv
    BY ClaimInit DEF RunsInit
  <2>2. TicketsFit
    BY <2>1 DEF RunsInit, Init, TicketsFit, TicketTypeOK, ClaimInv, Stages
  <2>3. CompletedFits
    BY DEF RunsInit, CompletedFits, NoRun
  <2> QED
    BY <2>1, <2>2, <2>3
<1>2. Inv /\ [RunsNext]_runsVars => Inv'
  <2> SUFFICES ASSUME Inv, [RunsNext]_runsVars PROVE Inv'
    OBVIOUS
  <2>1. CASE Tick \/ Outside
    <3>1. ClaimInv'
      BY <2>1, TickLeavesClaims, ClaimElsewhere
    <3>2. TicketsFit' /\ TicketedStays
      BY <2>1, <3>1, TicketTick DEF ClaimInv
    <3> QED
      BY <2>1, <3>1, <3>2, CompletedTick
  <2>2. CASE RunsEnvironment \/ (\E w \in Workers : WorkerRunStep(w)) \/ UNCHANGED runsVars
    <3>1. [Next]_vars
      BY <2>2, PipelineStep DEF runsVars
    <3>2. ClaimInv'
      BY <3>1, ClaimNext
    <3>3. TicketsFit' /\ TicketedStays
      BY <3>1, <3>2, TicketNext DEF ClaimInv
    <3> QED
      BY <2>2, <3>2, <3>3, CompletedStep
  <2> QED
    BY <2>1, <2>2 DEF RunsNext
<1>3. Inv => CompletedIsTicketed
  BY DEF CompletedFits, TicketsFit, CompletedIsTicketed, Driven
<1> QED
  BY <1>1, <1>2, <1>3, PTL DEF RunsSpec
-----------------------------------------------------------------------------
(* The ledgers, when a reservation loaded before the network call may be      *)
(* stale: its task was requeued meanwhile and another worker has settled or   *)
(* released the row.  ReservedBacked does not survive that.  These do, since  *)
(* a settlement moves what it adds to spent out of reserved, whatever row it  *)
(* was computed from.                                                        *)

(* What a session that called the gateway holds: a reservation that the row   *)
(* once was, and the part of it that the call may cost.                      *)
CallFits(w) ==
  LET m == job[w][1] IN
  /\ Called(w) => /\ res[m].status # "NONE" /\ seen[w].status = "RESERVED"
                  /\ seen[w].actual + seen[w].reserved <= budget[m]
                  /\ slice[w] <= seen[w].reserved
  /\ pc[w] \in {"answered", "settle"} => cost[w] <= slice[w]

UserBudgetsFit == \A m \in UserMandates : budget[m] > 0 => 0 .. budget[m] \subseteq Requests

CapInv ==
  /\ BookTypeOK /\ DailyCap /\ WithinBudget
  /\ UserBudgetsFit
  /\ \A w \in Workers : CallFits(w)

(* A settlement over a reservation that the row once was.                    *)
SettlesFrom(m, r) ==
  /\ \E o \in Origins, x \in Nat, max \in Nat, f \in BOOLEAN : SettleSeen(m, r, x, max, o, f)
  /\ r \in Reservation /\ r.actual + r.reserved <= budget[m] /\ res[m].status # "NONE"

LedgerUse ==
  \/ UNCHANGED ledgerVars \/ NextDay
  \/ \E m \in Mandates, o \in Origins, x \in Nat, max \in Nat :
        Reserve(m, o, x, max) /\ (m \in UserMandates => 0 .. x \subseteq Requests)
  \/ \E m \in Mandates, r \in Reservation : SettlesFrom(m, r)
  \/ \E m \in Mandates, o \in Origins : Release(m, o)
  \/ \E S \in SUBSET Mandates : ReleaseAll(S)

(* What a step of the ledger leaves as it was.                               *)
RowsStay ==
  /\ \A m \in Mandates : res[m].status # "NONE" => res'[m].status # "NONE" /\ budget'[m] = budget[m]
  /\ \A d \in Days : ledger'[d].spent >= ledger[d].spent

LedgerFits == LedgerTypeOK /\ DailyCap /\ WithinBudget /\ UserBudgetsFit

LEMMA ReserveFits ==
  ASSUME LedgerFits, NEW m \in Mandates, NEW o \in Origins, NEW x \in Nat, NEW max \in Nat,
         Reserve(m, o, x, max), m \in UserMandates => 0 .. x \subseteq Requests
  PROVE  LedgerFits' /\ RowsStay
<1>1. LedgerTypeOK' /\ DailyCap'
  BY ReserveTyped, ReserveKeepsCap DEF LedgerFits
<1>2. /\ res' = [res EXCEPT ![m] = [status |-> "RESERVED", day |-> today, origin |-> o,
                                    reserved |-> x, actual |-> 0]]
      /\ budget' = [budget EXCEPT ![m] = x] /\ res[m].status = "NONE"
      /\ res \in [Mandates -> Reservation] /\ budget \in [Mandates -> Nat]
  BY DEF Reserve, LedgerFits, LedgerTypeOK
<1>3. WithinBudget'
  BY <1>2 DEF LedgerFits, WithinBudget
<1>4. UserBudgetsFit'
  BY <1>2, PipelineAssumption DEF LedgerFits, UserBudgetsFit
<1>5. RowsStay
  <2>1. \A d \in Days : ledger[d] \in [reserved: Nat, spent: Nat] /\ ledger'[d].spent = ledger[d].spent
    BY DEF Reserve, LedgerFits, LedgerTypeOK
  <2> QED
    BY <1>2, <2>1 DEF RowsStay
<1> QED
  BY <1>1, <1>3, <1>4, <1>5 DEF LedgerFits

LEMMA SettleFits ==
  ASSUME LedgerFits, NEW m \in Mandates, NEW r \in Reservation, SettlesFrom(m, r)
  PROVE  LedgerFits' /\ RowsStay
<1>1. PICK o \in Origins, x \in Nat, max \in Nat, f \in BOOLEAN : SettleSeen(m, r, x, max, o, f)
  BY DEF SettlesFrom
<1>2. LedgerTypeOK' /\ DailyCap'
  BY <1>1, SettleSeenTyped, SettleSeenKeepsCap DEF LedgerFits
<1>3. /\ budget' = budget /\ budget \in [Mandates -> Nat]
      /\ \A n \in Mandates \ {m} : res'[n] = res[n]
      /\ res'[m].actual = r.actual + x
      /\ res'[m].reserved = IF f THEN 0 ELSE r.reserved - x
      /\ res'[m].status = IF f THEN "SETTLED" ELSE res[m].status
      /\ x <= r.reserved /\ r.reserved \in Nat /\ r.actual \in Nat
      /\ r.actual + r.reserved <= budget[m] /\ res[m].status # "NONE"
  BY <1>1 DEF SettleSeen, SettleOK, SettlesFrom, Reservation, LedgerFits, LedgerTypeOK
<1>4. WithinBudget'
  <2>1. res'[m].actual + (IF res'[m].status = "RESERVED" THEN res'[m].reserved ELSE 0) <= budget[m]
    BY <1>3
  <2> QED
    BY <1>3, <2>1 DEF LedgerFits, WithinBudget
<1>5. UserBudgetsFit'
  BY <1>3 DEF LedgerFits, UserBudgetsFit
<1>6. RowsStay
  <2>1. ASSUME NEW d \in Days PROVE ledger'[d].spent >= ledger[d].spent
    <3>1. ledger[d] \in [reserved: Nat, spent: Nat]
          /\ ledger'[d].spent = IF d = r.day THEN ledger[d].spent + x ELSE ledger[d].spent
      BY <1>1 DEF SettleSeen, LedgerFits, LedgerTypeOK
    <3> QED
      BY <3>1
  <2> QED
    BY <1>3, <2>1 DEF RowsStay
<1> QED
  BY <1>2, <1>4, <1>5, <1>6 DEF LedgerFits

LEMMA ReleaseFits ==
  ASSUME LedgerFits, NEW m \in Mandates, NEW o \in Origins, Release(m, o)
  PROVE  LedgerFits' /\ RowsStay
<1>1. LedgerTypeOK' /\ DailyCap'
  BY ReleaseTyped, ReleaseKeepsCap DEF LedgerFits
<1>2. /\ budget' = budget /\ res' = [res EXCEPT ![m].status = "RELEASED"]
      /\ res \in [Mandates -> Reservation] /\ budget \in [Mandates -> Nat]
      /\ res[m].status = "RESERVED"
  BY DEF Release, Releasable, LedgerFits, LedgerTypeOK
<1>3. WithinBudget'
  <2>1. res[m].actual \in Nat /\ res[m].reserved \in Nat
    BY <1>2 DEF Reservation
  <2> QED
    BY <1>2, <2>1 DEF LedgerFits, WithinBudget, Reservation
<1>4. UserBudgetsFit'
  BY <1>2 DEF LedgerFits, UserBudgetsFit
<1>5. RowsStay
  <2>1. \A d \in Days : ledger[d] \in [reserved: Nat, spent: Nat] /\ ledger'[d].spent = ledger[d].spent
    BY ReservationTyped DEF Release, LedgerFits, LedgerTypeOK
  <2> QED
    BY <1>2, <2>1 DEF RowsStay, Reservation
<1> QED
  BY <1>1, <1>3, <1>4, <1>5 DEF LedgerFits

LEMMA ReleaseAllFits ==
  ASSUME LedgerFits, NEW S \in SUBSET Mandates, ReleaseAll(S)
  PROVE  LedgerFits' /\ RowsStay
<1> DEFINE held == [m \in Mandates |-> res[m].reserved]
           total(d) == SumFunctionOnSet(held, {m \in S : res[m].day = d})
<1>1. /\ \A d \in Days : total(d) <= ledger[d].reserved
      /\ ledger' = [d \in Days |-> [ledger[d] EXCEPT !.reserved = @ - total(d)]]
      /\ res' = [m \in Mandates |-> IF m \in S THEN [res[m] EXCEPT !.status = "RELEASED"] ELSE res[m]]
      /\ UNCHANGED <<today, budget>>
  BY DEF ReleaseAll
<1>2. /\ ledger \in [Days -> [reserved: Nat, spent: Nat]] /\ today \in Days
      /\ res \in [Mandates -> Reservation] /\ budget \in [Mandates -> Nat]
  BY DEF LedgerFits, LedgerTypeOK
<1>3. ASSUME NEW d \in Days PROVE total(d) \in Nat
  <2> DEFINE D == {m \in S : res[m].day = d}
  <2>1. IsFiniteSet(D) /\ \A m \in D : held[m] \in Nat
    BY <1>2, FS_Subset, LedgerAssumption DEF Reservation
  <2> QED
    BY <2>1, SumBounds
<1> HIDE DEF total, held
<1>4. ASSUME NEW d \in Days
      PROVE  /\ ledger'[d] \in [reserved: Nat, spent: Nat]
             /\ ledger'[d].spent = ledger[d].spent /\ ledger'[d].reserved <= ledger[d].reserved
  <2>1. /\ total(d) \in Nat /\ total(d) <= ledger[d].reserved
        /\ ledger[d] \in [reserved: Nat, spent: Nat]
    BY <1>1, <1>2, <1>3
  <2>2. ledger'[d] = [ledger[d] EXCEPT !.reserved = @ - total(d)]
    BY <1>1
  <2>3. ledger[d].reserved - total(d) \in Nat /\ ledger[d].reserved - total(d) <= ledger[d].reserved
    BY <2>1
  <2> QED
    BY <2>1, <2>2, <2>3
<1>5. LedgerTypeOK'
  <2>1. ledger' \in [Days -> [reserved: Nat, spent: Nat]]
    BY <1>1, <1>4
  <2>2. res' \in [Mandates -> Reservation]
    BY <1>1, <1>2 DEF Reservation, ReservationStatus
  <2> QED
    BY <1>1, <1>2, <2>1, <2>2 DEF LedgerTypeOK
<1>6. DailyCap'
  <2> SUFFICES ASSUME NEW d \in Days PROVE ledger'[d].spent + ledger'[d].reserved <= Cap
    BY DEF DailyCap
  <2>1. ledger[d].spent + ledger[d].reserved <= Cap /\ ledger[d] \in [reserved: Nat, spent: Nat]
    BY <1>2 DEF LedgerFits, DailyCap
  <2> QED
    BY <1>4, <2>1, LedgerAssumption
<1>7. ASSUME NEW m \in Mandates
      PROVE  /\ res'[m].actual = res[m].actual /\ res'[m].reserved = res[m].reserved
             /\ res'[m].status \in {res[m].status, "RELEASED"}
             /\ res[m].actual \in Nat /\ res[m].reserved \in Nat /\ budget[m] \in Nat
  BY <1>1, <1>2 DEF Reservation
<1>8. WithinBudget'
  BY <1>1, <1>7 DEF LedgerFits, WithinBudget
<1>9. UserBudgetsFit' /\ RowsStay
  <2>1. RowsStay
    BY <1>1, <1>2, <1>4, <1>7 DEF RowsStay
  <2> QED
    BY <1>1, <2>1 DEF LedgerFits, UserBudgetsFit
<1> QED
  BY <1>5, <1>6, <1>8, <1>9 DEF LedgerFits

LEMMA LedgerUsed ==
  ASSUME LedgerFits, LedgerUse
  PROVE  LedgerFits' /\ RowsStay
<1>1. CASE UNCHANGED ledgerVars \/ NextDay
  <2>1. UNCHANGED <<ledger, res, budget>> /\ (today' = today \/ NextDay)
    BY <1>1 DEF ledgerVars, NextDay
  <2>2. LedgerTypeOK'
    BY <1>1, <2>1, NextDayTyped DEF LedgerFits, LedgerTypeOK
  <2>3. DailyCap' /\ WithinBudget' /\ UserBudgetsFit'
    BY <2>1 DEF LedgerFits, DailyCap, WithinBudget, UserBudgetsFit
  <2>4. \A d \in Days : ledger[d].spent \in Nat
    BY DEF LedgerFits, LedgerTypeOK
  <2> QED
    BY <2>1, <2>2, <2>3, <2>4 DEF LedgerFits, RowsStay
<1> QED
  BY <1>1, ReserveFits, SettleFits, ReleaseFits, ReleaseAllFits DEF LedgerUse

(* Every worker whose call does not change keeps its fit.                    *)
LEMMA CapKept ==
  ASSUME CapInv, ClaimTypeOK, BookTypeOK', LedgerFits', RowsStay,
         \A v \in Workers : CallFits(v)' \/ Stays(v)
  PROVE  CapInv'
<1>1. ASSUME NEW v \in Workers, Stays(v)
      PROVE  CallFits(v)'
  <2>1. CallFits(v)
    BY DEF CapInv
  <2>2. Called(v) => job[v][1] \in Mandates
    BY TaskFacts DEF Called, ClaimTypeOK
  <2>3. Called(v)' <=> Called(v)
    BY <1>1 DEF Called, Stays
  <2> QED
    BY <1>1, <2>1, <2>2, <2>3 DEF CallFits, RowsStay, Stays
<1> QED
  BY <1>1 DEF CapInv, LedgerFits

(* What a step of a worker does to the ledgers.                              *)
LEMMA WorkerUse ==
  ASSUME CapInv, ClaimTypeOK, NEW w \in Workers,
         SettleCall(w) \/ AdvanceBlocked(w) \/ AdvanceClose(w)
  PROVE  LedgerUse /\ [CreditNext]_creditVars
<1> DEFINE m == job[w][1]
<1>0. m \in Mandates /\ Owner(m) \in Origins /\ MaxOf(m) \in Nat /\ MaxAtClose(m) \in Nat
  <2>1. m \in Mandates
    BY TaskFacts DEF SettleCall, AdvanceBlocked, AdvanceClose, Advancing, ClaimTypeOK
  <2>2. Owner(m) \in Origins /\ MaxOf(m) \in Maxima /\ MaxAtClose(m) \in Maxima
    BY <2>1, OriginFacts
  <2> QED
    BY <2>1, <2>2, LedgerAssumption
<1>1. CASE SettleCall(w)
  <2>1. PICK finalize \in BOOLEAN :
           /\ UserSettle(m, cost[w], finalize)
           /\ SettleSeen(m, seen[w], cost[w], MaxOf(m), Owner(m), finalize)
    BY <1>1 DEF SettleCall
  <2>2. /\ seen[w] \in Reservation /\ cost[w] \in Nat /\ slice[w] \in Nat
        /\ seen[w].reserved \in Nat /\ seen[w].actual \in Nat /\ budget[m] \in Nat
    BY <1>0 DEF CapInv, BookTypeOK, LedgerTypeOK, Reservation
  <2>3. /\ res[m].status # "NONE" /\ seen[w].actual + seen[w].reserved <= budget[m]
        /\ slice[w] <= seen[w].reserved /\ cost[w] <= slice[w]
    BY <1>1 DEF CapInv, CallFits, Called, SettleCall
  <2>4. SettlesFrom(m, seen[w])
    BY <1>0, <2>1, <2>2, <2>3 DEF SettlesFrom
  <2>5. m \in UserMandates => cost[w] \in Requests
    <3> SUFFICES ASSUME m \in UserMandates PROVE cost[w] \in Requests
      OBVIOUS
    <3>1. cost[w] \in 0 .. budget[m]
      BY <2>2, <2>3
    <3>2. seen[w].reserved > 0
      BY <2>1 DEF SettleSeen, SettleOK, Verified
    <3>3. budget[m] > 0
      BY <2>2, <2>3, <3>2
    <3> QED
      BY <3>1, <3>3 DEF CapInv, UserBudgetsFit
  <2> HIDE DEF m
  <2>6. LedgerUse
    BY <1>0, <2>2, <2>4 DEF LedgerUse
  <2>7. [CreditNext]_creditVars
    BY <2>1, <2>5 DEF UserSettle, CreditNext
  <2> QED
    BY <2>6, <2>7
<1>2. CASE AdvanceBlocked(w) \/ AdvanceClose(w)
  <2>1. \/ UNCHANGED moneyVars
        \/ /\ Returnable(m) /\ UserRelease(m)
           /\ Release(m, Owner(m)) \/ Settle(m, 0, MaxAtClose(m), Owner(m), TRUE)
    BY <1>2 DEF AdvanceBlocked, AdvanceClose
  <2>2. CASE UNCHANGED moneyVars
    BY <2>2 DEF moneyVars, LedgerUse
  <2>3. CASE UserRelease(m) /\ Release(m, Owner(m))
    <3> HIDE DEF m
    <3> QED
      BY <1>0, <2>3 DEF LedgerUse, UserRelease, CreditNext
  <2>4. CASE Returnable(m) /\ UserRelease(m) /\ Settle(m, 0, MaxAtClose(m), Owner(m), TRUE)
    <3>1. /\ res[m] \in Reservation /\ res[m].status = "RESERVED"
          /\ res[m].actual + res[m].reserved <= budget[m]
      BY <1>0, <2>4 DEF Returnable, CapInv, BookTypeOK, LedgerTypeOK, WithinBudget
    <3>2. SettlesFrom(m, res[m])
      BY <1>0, <2>4, <3>1 DEF SettlesFrom, Settle
    <3> HIDE DEF m
    <3> QED
      BY <1>0, <2>4, <3>1, <3>2 DEF LedgerUse, UserRelease, CreditNext
  <2> QED
    BY <2>1, <2>2, <2>3, <2>4
<1> QED
  BY <1>1, <1>2

LEMMA LocalsTyped ==
  ASSUME BookTypeOK, NEW w \in Workers, ForgetLocals(w) \/ UNCHANGED localVars
  PROVE  /\ seen' \in [Workers -> Reservation] /\ slice' \in [Workers -> Nat]
         /\ cost' \in [Workers -> Nat]
         /\ \A v \in Workers \ {w} :
               seen'[v] = seen[v] /\ slice'[v] = slice[v] /\ cost'[v] = cost[v]
<1>1. NoReservation \in Reservation
  BY LedgerAssumption DEF NoReservation, Reservation, ReservationStatus, Days
<1> QED
  BY <1>1 DEF ForgetLocals, localVars, BookTypeOK

(* A step after which the worker has called nobody.                          *)
LEMMA CapLeft ==
  ASSUME CapInv, ClaimTypeOK, NEW w \in Workers, LedgerUse, [CreditNext]_creditVars,
         ForgetLocals(w) \/ UNCHANGED localVars,
         hold' \in [Task -> Nat], paid' \in [Task -> Nat],
         pc'[w] \notin {"authorize", "send", "answered", "refused", "settle", "failNet", "fail402"},
         \A v \in Workers \ {w} : pc'[v] = pc[v] /\ job'[v] = job[v]
  PROVE  CapInv'
<1>1. LedgerFits' /\ RowsStay
  BY LedgerUsed DEF CapInv, LedgerFits, BookTypeOK
<1>2. CreditInv'
  BY CreditStep DEF CapInv, BookTypeOK
<1>3. /\ BookTypeOK'
      /\ \A v \in Workers \ {w} : seen'[v] = seen[v] /\ slice'[v] = slice[v] /\ cost'[v] = cost[v]
  BY <1>1, <1>2, LocalsTyped DEF CapInv, BookTypeOK, LedgerFits
<1>4. CallFits(w)'
  BY DEF CallFits, Called
<1> QED
  BY <1>1, <1>3, <1>4, CapKept DEF Stays

(* The steps between the call's row and the commit of its outcome.           *)
LEMMA CapCall ==
  ASSUME CapInv, ClaimTypeOK, NEW w \in Workers,
         Request(w) \/ Send(w) \/ Receive(w) \/ Turns(w)
  PROVE  CapInv'
<1> DEFINE m == job[w][1]
<1>1. /\ UNCHANGED <<moneyVars, hold, job>> /\ LedgerFits' /\ RowsStay /\ CreditInv'
      /\ paid \in [Task -> Nat] /\ seen \in [Workers -> Reservation] /\ slice \in [Workers -> Nat]
      /\ cost \in [Workers -> Nat] /\ hold \in [Task -> Nat] /\ pc \in [Workers -> Step]
      /\ job \in [Workers -> Task \cup {NoTask}]
  <2>1. UNCHANGED <<moneyVars, hold, job>>
    BY TurnStep DEF Request, Send, Receive, rowVars, taskVars
  <2>2. LedgerUse /\ UNCHANGED creditVars
    BY <2>1 DEF moneyVars, LedgerUse
  <2>3. LedgerFits' /\ RowsStay
    BY <2>2, LedgerUsed DEF CapInv, LedgerFits, BookTypeOK
  <2>4. CreditInv'
    BY <2>2, CreditStep DEF CapInv, BookTypeOK
  <2> QED
    BY <2>1, <2>3, <2>4 DEF CapInv, BookTypeOK, ClaimTypeOK
<1>2. ASSUME seen' \in [Workers -> Reservation], slice' \in [Workers -> Nat],
             cost' \in [Workers -> Nat], paid' \in [Task -> Nat], CallFits(w)',
             \A v \in Workers \ {w} : Stays(v)
      PROVE  CapInv'
  <2>1. BookTypeOK'
    BY <1>1, <1>2 DEF BookTypeOK, LedgerFits
  <2> QED
    BY <1>1, <1>2, <2>1, CapKept
<1>3. pc[w] # "idle" /\ job[w] \in Task /\ m \in Mandates
  BY TaskFacts DEF Request, Send, Receive, Turns, ClaimRefused, PrepareFails, Authorize, Deny,
     SettleFails, AdvanceAgain, Advancing, ClaimTypeOK
<1>4. CASE Request(w)
  <2>1. /\ res[m].status = "RESERVED" /\ CallBudget(m) > 0
        /\ seen' = [seen EXCEPT ![w] = res[m]] /\ UNCHANGED <<cost, paid>>
        /\ \E step \in {"authorize", "send"} : pc' = [pc EXCEPT ![w] = step]
    BY <1>4 DEF Request, PrepareOK, VerifyReservation, Verified, Goto, gatewayVars
  <2>2. PICK b \in 1 .. CallBudget(m) : slice' = [slice EXCEPT ![w] = b]
    BY <1>4 DEF Request
  <2>3. /\ res[m] \in Reservation /\ UncertainHold(m) \in Nat
        /\ PerActionCap[OriginOf[m]] \in Nat /\ res[m].reserved \in Nat
        /\ res[m].actual + res[m].reserved <= budget[m]
    BY <1>3, <2>1, BookSums, PipelineAssumption
       DEF CapInv, BookTypeOK, LedgerTypeOK, Reservation, WithinBudget
  <2>4. b \in Nat /\ b <= res[m].reserved
    BY <2>3 DEF CallBudget, Smaller
  <2>5. CallFits(w)'
    BY <1>1, <2>1, <2>2, <2>3, <2>4 DEF CallFits, moneyVars, ledgerVars
  <2>6. /\ seen' \in [Workers -> Reservation] /\ slice' \in [Workers -> Nat]
        /\ cost' \in [Workers -> Nat] /\ paid' \in [Task -> Nat]
        /\ \A v \in Workers \ {w} : Stays(v)
    BY <1>1, <2>1, <2>2, <2>3, <2>4 DEF Stays
  <2> QED
    BY <1>2, <2>5, <2>6
<1>5. CASE Send(w)
  <2>1. PICK x \in 0 .. slice[w], answer \in {"answered", "refused", "failNet", "fail402"} :
           /\ paid' = [paid EXCEPT ![job[w]] = @ + x]
           /\ cost' = [cost EXCEPT ![w] = IF answer = "answered" THEN x ELSE 0]
           /\ pc' = [pc EXCEPT ![w] = answer]
    BY <1>5 DEF Send, Goto
  <2>2. pc[w] = "send" /\ UNCHANGED <<seen, slice>>
    BY <1>5 DEF Send
  <2>3. x \in Nat /\ x <= slice[w]
    BY <1>1
  <2>4. CallFits(w)'
    BY <1>1, <2>1, <2>2, <2>3 DEF CapInv, CallFits, Called, moneyVars, ledgerVars
  <2>5. /\ cost' \in [Workers -> Nat] /\ paid' \in [Task -> Nat]
        /\ \A v \in Workers \ {w} : Stays(v)
    BY <1>1, <1>3, <2>1, <2>2, <2>3 DEF Stays
  <2> QED
    BY <1>1, <1>2, <2>2, <2>4, <2>5
<1>6. CASE Receive(w)
  <2>1. /\ UNCHANGED <<seen, slice, cost, paid>>
        /\ \/ pc[w] = "answered" /\ pc' = [pc EXCEPT ![w] = "settle"]
           \/ pc[w] = "refused" /\ pc' = [pc EXCEPT ![w] = "failNet"]
    BY <1>6 DEF Receive, Goto, localVars, gatewayVars
  <2>2. CallFits(w)'
    BY <1>1, <2>1 DEF CapInv, CallFits, Called, moneyVars, ledgerVars
  <2>3. \A v \in Workers \ {w} : Stays(v)
    BY <1>1, <2>1 DEF Stays
  <2> QED
    BY <1>1, <1>2, <2>1, <2>2, <2>3
<1>7. CASE Turns(w)
  <2>1. /\ UNCHANGED <<seen, slice, cost, paid>>
        /\ \A v \in Workers \ {w} : pc'[v] = pc[v]
        /\ \/ pc'[w] \in {"done", "advance", "evaluate", "failPre", "failBlocked"}
           \/ pc[w] = "authorize" /\ pc'[w] = "send"
           \/ pc[w] = "settle" /\ pc'[w] = "failNet"
    BY <1>7, TurnStep DEF rowVars, gatewayVars, localVars
  <2>2. CallFits(w)'
    BY <1>1, <2>1 DEF CapInv, CallFits, Called, moneyVars, ledgerVars
  <2>3. \A v \in Workers \ {w} : Stays(v)
    BY <1>1, <2>1 DEF Stays
  <2> QED
    BY <1>1, <1>2, <2>1, <2>2, <2>3
<1> QED
  BY <1>4, <1>5, <1>6, <1>7

(* The other steps of a worker.                                              *)
LEMMA CapWork ==
  ASSUME CapInv, ClaimTypeOK, NEW w \in Workers,
         WorkerStep(w) \/ Crash(w) \/ \E a \in Task : Deliver(w, a)
  PROVE  CapInv' /\ LedgerUse /\ [CreditNext]_creditVars
<1>0. /\ hold \in [Task -> Nat] /\ paid \in [Task -> Nat] /\ slice \in [Workers -> Nat]
      /\ pc \in [Workers -> Step]
  BY DEF CapInv, BookTypeOK, ClaimTypeOK
<1>1. CASE Request(w) \/ Send(w) \/ Receive(w) \/ Turns(w)
  <2>1. Moneyless(w)
    BY <1>1 DEF Moneyless
  <2>2. UNCHANGED moneyVars
    BY <2>1, MoneylessStep
  <2> QED
    BY <1>1, <2>2, CapCall DEF moneyVars, LedgerUse
<1>2. ASSUME LedgerUse, [CreditNext]_creditVars,
             ForgetLocals(w) \/ UNCHANGED localVars,
             hold' \in [Task -> Nat], paid' = paid, job' = job,
             \E step \in Step \ {"authorize", "send", "answered", "refused", "settle", "failNet", "fail402"} :
                Goto(w, step)
      PROVE  CapInv'
  <2>1. /\ pc'[w] \notin {"authorize", "send", "answered", "refused", "settle", "failNet", "fail402"}
        /\ \A v \in Workers \ {w} : pc'[v] = pc[v] /\ job'[v] = job[v]
    BY <1>0, <1>2 DEF Goto
  <2> QED
    BY <1>0, <1>2, <2>1, CapLeft
<1>3. CASE Rests(w)
  <2>1. /\ UNCHANGED rowVars /\ pc'[w] \in {"idle", "locked", "done"}
        /\ \A v \in Workers \ {w} : pc'[v] = pc[v] /\ job'[v] = job[v]
    BY <1>3, RestStep
  <2>2. UNCHANGED localVars \/ ForgetLocals(w)
    BY <1>3 DEF Rests, Deliver, Finish, Crash, AdvanceStops, AdvanceNext, AdvanceLost, AdvanceRaises,
                EvaluateStops, Finalize
  <2>3. LedgerUse /\ UNCHANGED <<creditVars, hold, paid>>
    BY <2>1 DEF rowVars, moneyVars, LedgerUse, taskVars, gatewayVars
  <2> QED
    BY <1>0, <2>1, <2>2, <2>3, CapLeft
<1>4. CASE \/ Claim(w) \/ Evaluate(w) \/ EvaluateStrict(w) \/ TicketDecided(w) \/ IssueTicket(w)
  <2>1. UNCHANGED moneyVars
    BY <1>4, MoneylessStep DEF Moneyless
  <2>2. LedgerUse /\ UNCHANGED creditVars
    BY <2>1 DEF moneyVars, LedgerUse
  <2>3. /\ UNCHANGED <<localVars, hold, paid, job>>
        /\ \E step \in {"prepare", "ticket", "done", "finalize", "finalizeStale"} : Goto(w, step)
    BY <1>4 DEF Claim, Evaluate, EvaluateStrict, TicketDecided, IssueTicket, taskVars, gatewayVars
  <2> QED
    BY <1>0, <1>2, <2>2, <2>3 DEF Step
<1>5. CASE SettleCall(w)
  <2>1. /\ ForgetLocals(w) /\ UNCHANGED <<hold, paid, job>> /\ Goto(w, "advance")
    BY <1>5 DEF SettleCall, gatewayVars
  <2> QED
    BY <1>0, <1>2, <1>5, <2>1, WorkerUse DEF Step
<1>6. CASE AdvanceBlocked(w) \/ AdvanceClose(w)
  <2>1. /\ UNCHANGED <<localVars, hold, paid, job>>
        /\ \E step \in {"done", "evaluate"} : Goto(w, step)
    BY <1>6 DEF AdvanceBlocked, AdvanceClose, taskVars, gatewayVars
  <2> QED
    BY <1>0, <1>2, <1>6, <2>1, WorkerUse DEF Step
<1>7. CASE Fail(w)
  <2>1. /\ ForgetLocals(w) /\ UNCHANGED <<moneyVars, paid, job>> /\ Goto(w, "advance")
        /\ hold' = [hold EXCEPT ![job[w]] = IF pc[w] = "failNet" THEN @ + slice[w] ELSE @]
    BY <1>7 DEF Fail, gatewayVars
  <2>2. hold' \in [Task -> Nat]
    <3>1. job[w] \in Task
      BY <1>7 DEF Fail, ClaimTypeOK
    <3> QED
      BY <1>0, <2>1, <3>1
  <2>3. LedgerUse /\ UNCHANGED creditVars
    BY <2>1 DEF moneyVars, LedgerUse
  <2> QED
    BY <1>2, <2>1, <2>2, <2>3 DEF Step
<1> QED
  BY <1>1, <1>3, <1>4, <1>5, <1>6, <1>7
     DEF WorkerStep, ExecuteOne, Advance, EvaluateAndTicket, CloseRun, Rests, Turns

(* Everybody else: no session's copy changes.                                *)
LEMMA CapElsewhere ==
  ASSUME CapInv, ClaimTypeOK, LedgerUse, [CreditNext]_creditVars,
         UNCHANGED <<hold, paid, pc, job, localVars>>
  PROVE  CapInv'
<1>1. LedgerFits' /\ RowsStay
  BY LedgerUsed DEF CapInv, LedgerFits, BookTypeOK
<1>2. CreditInv'
  BY CreditStep DEF CapInv, BookTypeOK
<1>3. BookTypeOK' /\ \A v \in Workers : Stays(v)
  BY <1>1, <1>2 DEF CapInv, BookTypeOK, LedgerFits, localVars, Stays
<1> QED
  BY <1>1, <1>3, CapKept

LEMMA CapNext ==
  ASSUME CapInv, ClaimTypeOK, [Next]_vars
  PROVE  CapInv' /\ LedgerUse /\ [CreditNext]_creditVars
<1>1. ASSUME NEW m \in Mandates, Create(m)
      PROVE  CapInv' /\ LedgerUse /\ [CreditNext]_creditVars
  <2>1. PICK x \in Budgets : Reserve(m, Owner(m), x, MaxOf(m)) /\ UserReserve(m, x)
    BY <1>1 DEF Create
  <2>2. x \in Nat /\ 0 .. x \subseteq Requests
    BY PipelineAssumption
  <2>3. LedgerUse
    BY <2>1, <2>2, OriginFacts DEF LedgerUse
  <2>4. [CreditNext]_creditVars
    BY <1>1, CreateMoves
  <2> QED
    BY <1>1, <2>3, <2>4, CapElsewhere DEF Create, localVars, gatewayVars
<1>2. ASSUME UNCHANGED <<hold, paid, pc, job, localVars>>,
             \/ UNCHANGED moneyVars
             \/ UNCHANGED ledgerVars /\ CreditNext
             \/ NextDay /\ UNCHANGED creditVars
      PROVE  CapInv' /\ LedgerUse /\ [CreditNext]_creditVars
  <2>1. LedgerUse /\ [CreditNext]_creditVars
    BY <1>2 DEF moneyVars, LedgerUse
  <2> QED
    BY <1>2, <2>1, CapElsewhere
<1>3. ASSUME \/ \E m \in Mandates : Publish(m) \/ PublishLost(m) \/ Republish(m)
             \/ \E w \in Workers, a \in Task : DropLocked(w, a)
             \/ \E a \in Task : LockExpires(a)
             \/ UNCHANGED vars
      PROVE  CapInv' /\ LedgerUse /\ [CreditNext]_creditVars
  BY <1>2, <1>3 DEF Publish, PublishLost, Republish, DropLocked, LockExpires, vars, taskVars, gatewayVars
<1>4. CASE Midnight \/ \E u \in Users : Register(u)
  BY <1>2, <1>4 DEF Midnight, Register, CreditNext, taskVars, gatewayVars
<1> QED
  BY <1>1, <1>3, <1>4, CapWork DEF Next, Api, Broker, Environment

(* A tick reserves what its run plans, and releases.                         *)
LEMMA CapTick ==
  ASSUME CapInv, ClaimTypeOK, plan \in [Driven -> Nat], Tick \/ Outside
  PROVE  CapInv' /\ LedgerUse /\ UNCHANGED creditVars
<1>1. UNCHANGED <<creditVars, hold, paid, pc, job, localVars>>
  BY OutsideLeaves
     DEF Tick, TickRecover, TickResume, TickSchedule, TickSkip, TickEnds, Execute,
         ExecuteRefused, ExecuteNew, ExecuteMalformed, ExecuteUnfunded, ExecuteAgain, TickPublish,
         vars, moneyVars, taskVars, gatewayVars
<1>2. ASSUME NEW m \in Driven, Reserve(m, Owner(m), plan[m], MaxOf(m))
      PROVE  LedgerUse
  <2>1. m \in Mandates /\ m \notin UserMandates /\ plan[m] \in Nat
    BY PipelineAssumption DEF Driven
  <2> QED
    BY <1>2, <2>1, OriginFacts DEF LedgerUse
<1>3. CASE TickRecover
  <2>1. Freed \in SUBSET Mandates
    BY DEF Freed, Failing, Driven
  <2> QED
    BY <1>1, <1>3, <2>1, CapElsewhere DEF TickRecover, RecoverRuns, LedgerUse
<1>4. ASSUME NEW m \in Driven, ExecuteNew(m) \/ ExecuteMalformed(m)
      PROVE  LedgerUse
  BY <1>2, <1>4 DEF ExecuteNew, ExecuteMalformed
<1>5. ASSUME \/ TickResume \/ TickSchedule \/ TickSkip \/ TickEnds \/ Outside
             \/ \E m \in Driven : \/ ExecuteRefused(m) \/ ExecuteUnfunded(m) \/ ExecuteAgain(m)
                                  \/ TickPublish(m)
      PROVE  LedgerUse
  <2>1. UNCHANGED moneyVars
    BY <1>5, OutsideLeaves
       DEF TickResume, TickSchedule, TickSkip, TickEnds, ExecuteRefused,
                ExecuteUnfunded, ExecuteAgain, TickPublish, vars
  <2> QED
    BY <2>1 DEF moneyVars, LedgerUse
<1>6. ~TickRecover => LedgerUse
  BY <1>4, <1>5 DEF Tick, Execute
<1> QED
  BY <1>1, <1>3, <1>6, CapElsewhere

-----------------------------------------------------------------------------
(* What the runs and tasks may be.                                           *)
RunTypeOK ==
  /\ run \in [Driven -> RunState \cup {NoRun}]
  /\ plan \in [Driven -> Nat]
  /\ updated \in [Driven -> BOOLEAN]
  /\ started \in [Task -> BOOLEAN]
  /\ tick \in {"idle", "schedule", "execute", "publish"}
  /\ due \in Driven \cup {Nobody}
  /\ admits \in BOOLEAN

TaskTypeOK == task \in [Task -> TaskStatus] /\ code \in [Task -> FailureCode]

LEMMA RunTyped ==
  ASSUME RunTypeOK, [RunsNext]_runsVars PROVE RunTypeOK'
<1>1. ASSUME NEW m \in Driven, NEW s \in RunState, SetRun(m, s)
      PROVE  run' \in [Driven -> RunState \cup {NoRun}] /\ updated' \in [Driven -> BOOLEAN]
  BY <1>1 DEF RunTypeOK, SetRun
<1>2. ASSUME \/ RunsEnvironment \/ UNCHANGED runsVars \/ TickResume \/ TickEnds
             \/ \E w \in Workers : OtherStep(w)
             \/ \E m \in Driven : TickPublish(m)
      PROVE  RunTypeOK'
  <2>1. CASE UNCHANGED runVars
    BY <2>1 DEF runVars, RunTypeOK
  <2>2. RunsEnvironment \/ UNCHANGED runsVars => UNCHANGED runVars
    BY DEF RunsEnvironment, runsVars
  <2>3. ASSUME TickResume \/ TickEnds \/ \E m \in Driven : TickPublish(m)
        PROVE  /\ UNCHANGED <<run, plan, updated, started, admits>>
               /\ tick' \in {"execute", "idle"} /\ due' \in Driven \cup {Nobody}
    BY <2>3 DEF TickResume, TickEnds, TickPublish, TickTo, Active
  <2>4. (\E w \in Workers : OtherStep(w)) => UNCHANGED runVars
    BY DEF OtherStep
  <2> QED
    BY <1>2, <2>1, <2>2, <2>3, <2>4 DEF RunTypeOK
<1>3. CASE TickRecover
  BY <1>3 DEF TickRecover, RecoverRuns, TickTo, RunTypeOK, RunState, ActiveRun
<1>4. CASE TickSchedule \/ TickSkip
  <2>1. PICK m \in Driven, x \in Planned, s \in {"SCHEDULED", "SKIPPED"} :
           NewRun(m, x, s) /\ UNCHANGED <<started, admits>>
    BY <1>4 DEF TickSchedule, TickSkip
  <2>2. x \in Nat /\ s \in RunState
    BY RunsAssumption DEF RunState, ActiveRun, ClosedRun
  <2>3. plan' = [plan EXCEPT ![m] = x] /\ SetRun(m, s)
        /\ tick' \in {"execute", "idle"} /\ due' \in Driven \cup {Nobody}
    BY <2>1 DEF NewRun, TickTo
  <2> QED
    BY <1>1, <2>1, <2>2, <2>3 DEF RunTypeOK
<1>5. ASSUME NEW m \in Driven, Execute(m)
      PROVE  RunTypeOK'
  <2>1. /\ UNCHANGED <<plan, started, admits>>
        /\ \E s \in {"RUNNING", "FAILED", "COMPLETED"} : SetRun(m, s)
        /\ tick' \in {"publish", "idle"} /\ due' \in Driven \cup {Nobody}
    BY <1>5 DEF Execute, ExecuteRefused, ExecuteNew, ExecuteMalformed, ExecuteUnfunded,
                ExecuteAgain, TickTo
  <2> QED
    BY <1>1, <2>1 DEF RunTypeOK, RunState, ActiveRun, ClosedRun
<1>6. CASE Outside
  <2>1. CASE TickDies
    BY <2>1 DEF TickDies, TickTo, RunTypeOK
  <2>2. CASE GateMoves
    BY <2>2 DEF GateMoves, RunTypeOK
  <2>3. CASE Lease
    BY <2>3 DEF Lease, GraceEnds, StartGraceEnds, RunTypeOK
  <2> QED
    BY <1>6, <2>1, <2>2, <2>3 DEF Outside
<1>7. ASSUME NEW w \in Workers, ClaimTask(w)
      PROVE  RunTypeOK'
  BY <1>7 DEF ClaimTask, RunTypeOK
<1>8. ASSUME NEW w \in Workers, CloseOwnRun(w)
      PROVE  RunTypeOK'
  <2>1. CASE UNCHANGED runVars
    BY <2>1 DEF runVars, RunTypeOK
  <2>2. CASE job[w][1] \in Driven /\ ~UNCHANGED runVars
    <3>1. PICK s \in {"COMPLETED", "FAILED"} : FinalizeRun(job[w][1], s)
      BY <1>8, <2>2 DEF CloseOwnRun
    <3>2. s \in RunState
      BY DEF RunState, ClosedRun
    <3>3. UNCHANGED <<run, updated>> \/ SetRun(job[w][1], s)
      BY <3>1 DEF FinalizeRun
    <3> QED
      BY <1>1, <2>2, <3>1, <3>2, <3>3 DEF FinalizeRun, RunTypeOK
  <2> QED
    BY <1>8, <2>1, <2>2 DEF CloseOwnRun
<1> QED
  BY <1>2, <1>3, <1>4, <1>5, <1>6, <1>7, <1>8 DEF RunsNext, Tick, WorkerRunStep

LEMMA TaskTyped ==
  ASSUME TaskTypeOK, [RunsNext]_runsVars PROVE TaskTypeOK'
<1>1. ASSUME NEW s \in TaskStatus, NEW c \in FailureCode, NEW a,
             task' = [task EXCEPT ![a] = s] \/ task' = task,
             code' = [code EXCEPT ![a] = c] \/ code' = code
      PROVE  TaskTypeOK'
  BY <1>1 DEF TaskTypeOK
<1>2. CASE UNCHANGED <<task, code>>
  BY <1>2 DEF TaskTypeOK
<1>3. CASE TickRecover
  BY <1>3 DEF TickRecover, RecoverRuns, TaskTypeOK, TaskStatus, FailureCode
<1>4. ASSUME NEW m \in Mandates, Create(m)
      PROVE  TaskTypeOK'
  <2>1. code' = code /\ \E n : task' = [a \in Task |-> IF a[1] = m /\ a[2] <= n THEN "QUEUED" ELSE task[a]]
    BY <1>4 DEF Create
  <2> QED
    BY <2>1 DEF TaskTypeOK, TaskStatus
<1>5. ASSUME NEW m \in Driven, ExecuteNew(m)
      PROVE  TaskTypeOK'
  BY <1>5 DEF ExecuteNew, TaskTypeOK, TaskStatus
<1>6. ASSUME NEW w \in Workers, Claim(w) \/ SettleCall(w) \/ Fail(w)
      PROVE  TaskTypeOK'
  <2>1. CASE Claim(w)
    BY <1>1, <2>1 DEF Claim, TaskStatus, FailureCode
  <2>2. CASE SettleCall(w)
    BY <1>1, <2>2 DEF SettleCall, TaskStatus, FailureCode
  <2>3. CASE Fail(w)
    BY <1>1, <2>3 DEF Fail, TaskStatus, FailureCode
  <2> QED
    BY <1>6, <2>1, <2>2, <2>3
<1>7. ASSUME NEW w \in Workers, WorkerStep(w), ~(Claim(w) \/ SettleCall(w) \/ Fail(w))
      PROVE  UNCHANGED <<task, code>>
  BY <1>7 DEF WorkerStep, ExecuteOne, ClaimRefused, Request, PrepareFails, Authorize, Deny,
       Send, Receive, SettleFails, Advance, AdvanceStops, AdvanceNext, AdvanceLost,
       AdvanceClose, AdvanceRaises, AdvanceAgain, EvaluateAndTicket, EvaluateStops, Evaluate,
       TicketDecided, IssueTicket, CloseRun, AdvanceBlocked, EvaluateStrict, Finalize, Finish, taskVars
<1>8. ASSUME [Next]_vars PROVE TaskTypeOK'
  <2>1. ASSUME \/ \E m \in Mandates : Publish(m) \/ PublishLost(m) \/ Republish(m)
               \/ \E w \in Workers, a \in Task : Broker(w, a)
               \/ Environment \/ (\E u \in Users : Register(u)) \/ UNCHANGED vars
        PROVE  UNCHANGED <<task, code>>
    BY <2>1 DEF Publish, PublishLost, Republish, Broker, Deliver, DropLocked, Environment, LockExpires,
                Crash, Midnight, Register, vars, taskVars
  <2> QED
    BY <1>2, <1>4, <1>6, <1>7, <1>8, <2>1 DEF Next, Api
<1>9. ASSUME \/ TickResume \/ TickSchedule \/ TickSkip \/ TickEnds \/ Outside
             \/ \E m \in Driven : \/ ExecuteRefused(m) \/ ExecuteMalformed(m) \/ ExecuteUnfunded(m)
                                  \/ ExecuteAgain(m) \/ TickPublish(m)
      PROVE  UNCHANGED <<task, code>>
  BY <1>9, OutsideLeaves
     DEF TickResume, TickSchedule, TickSkip, TickEnds, ExecuteRefused, ExecuteMalformed,
              ExecuteUnfunded, ExecuteAgain, TickPublish, vars, taskVars
<1> QED
  BY <1>2, <1>3, <1>5, <1>8, <1>9, PipelineStep DEF RunsNext, Tick, Execute, runsVars

(* A tick puts at most one message in the queue.                              *)
LEMMA QueueTick ==
  ASSUME QueueTypeOK, Tick \/ Outside
  PROVE  QueueTypeOK'
<1>1. ASSUME NEW m \in Driven, TickPublish(m)
      PROVE  QueueTypeOK'
  <2>1. /\ msgs' = [msgs EXCEPT ![<<m, 1>>] = @ + 1]
        /\ UNCHANGED <<unpublished, lock, crashes>>
    BY <1>1 DEF TickPublish
  <2> QED
    BY <2>1, OneMore DEF QueueTypeOK
<1>2. ASSUME \/ TickRecover \/ TickResume \/ TickSchedule \/ TickSkip \/ TickEnds \/ Outside
             \/ \E m \in Driven : Execute(m)
      PROVE  UNCHANGED <<msgs, unpublished, lock, crashes>>
  BY <1>2, OutsideLeaves
     DEF TickRecover, TickResume, TickSchedule, TickSkip, TickEnds, Execute,
              ExecuteRefused, ExecuteNew, ExecuteMalformed, ExecuteUnfunded, ExecuteAgain,
              vars, queueVars
<1> QED
  BY <1>1, <1>2 DEF Tick, QueueTypeOK

(* The invariant of the scheduler over the pipeline.                          *)
RunsInv ==
  /\ ClaimInv /\ TicketsFit /\ CapInv
  /\ QueueTypeOK /\ RunTypeOK /\ TaskTypeOK

LEMMA CapInit ==
  ASSUME Init PROVE CapInv
<1>1. BookTypeOK /\ LedgerTypeOK
  BY BooksInit DEF BookInv, BookTypeOK
<1>2. DailyCap /\ WithinBudget
  BY LedgerAssumption DEF Init, LedgerInit, DailyCap, WithinBudget, NoReservation
<1>3. UserBudgetsFit
  BY PipelineAssumption DEF Init, LedgerInit, UserBudgetsFit
<1>4. \A w \in Workers : CallFits(w)
  BY DEF Init, CallFits, Called
<1> QED
  BY <1>1, <1>2, <1>3, <1>4 DEF CapInv

LEMMA RunsStart ==
  ASSUME RunsInit PROVE RunsInv
<1>1. ClaimInv /\ CapInv
  BY ClaimInit, CapInit DEF RunsInit
<1>2. TicketsFit
  BY <1>1 DEF RunsInit, Init, TicketsFit, TicketTypeOK, ClaimInv, Stages
<1>3. QueueTypeOK
  BY DEF RunsInit, Init, QueueTypeOK
<1>4. RunTypeOK
  BY DEF RunsInit, RunTypeOK
<1>5. TaskTypeOK
  BY DEF RunsInit, Init, TaskTypeOK, TaskStatus, FailureCode
<1> QED
  BY <1>1, <1>2, <1>3, <1>4, <1>5 DEF RunsInv

LEMMA RunsStep ==
  ASSUME RunsInv, [RunsNext]_runsVars
  PROVE  RunsInv' /\ LedgerUse /\ [CreditNext]_creditVars
<1>1. RunTypeOK' /\ TaskTypeOK'
  BY RunTyped, TaskTyped DEF RunsInv
<1>2. ClaimTypeOK /\ plan \in [Driven -> Nat]
  BY DEF RunsInv, ClaimInv, RunTypeOK
<1>3. CASE Tick \/ Outside
  <2>1. ClaimInv'
    BY <1>3, TickLeavesClaims, ClaimElsewhere DEF RunsInv
  <2>2. TicketsFit'
    BY <1>3, <2>1, TicketTick DEF RunsInv, ClaimInv
  <2>3. CapInv' /\ LedgerUse /\ UNCHANGED creditVars
    BY <1>2, <1>3, CapTick DEF RunsInv
  <2>4. QueueTypeOK'
    BY <1>3, QueueTick DEF RunsInv
  <2> QED
    BY <1>1, <2>1, <2>2, <2>3, <2>4 DEF RunsInv
<1>4. CASE RunsEnvironment \/ (\E w \in Workers : WorkerRunStep(w)) \/ UNCHANGED runsVars
  <2>1. [Next]_vars
    BY <1>4, PipelineStep DEF runsVars
  <2>2. ClaimInv'
    BY <2>1, ClaimNext DEF RunsInv
  <2>3. TicketsFit'
    BY <2>1, <2>2, TicketNext DEF RunsInv, ClaimInv
  <2>4. CapInv' /\ LedgerUse /\ [CreditNext]_creditVars
    BY <1>2, <2>1, CapNext DEF RunsInv
  <2>5. QueueTypeOK'
    BY <2>1, QueueTyped DEF RunsInv
  <2> QED
    BY <1>1, <2>2, <2>3, <2>4, <2>5 DEF RunsInv
<1> QED
  BY <1>3, <1>4 DEF RunsNext

LEMMA RunsAlways == RunsSpec => []RunsInv
<1>1. RunsInit => RunsInv
  BY RunsStart
<1>2. RunsInv /\ [RunsNext]_runsVars => RunsInv'
  BY RunsStep
<1> QED
  BY <1>1, <1>2, PTL DEF RunsSpec

(* recover_runs and stale reservations cannot break the caps of               *)
(* public_safety.py: the day never commits more than its cap, a mandate never *)
(* more than the budget it reserved, a user never more than was granted.      *)
THEOREM RecoveryKeepsCap == RunsSpec => [](DailyCap /\ WithinBudget /\ NoOverdraft)
<1>1. RunsInv => DailyCap /\ WithinBudget
  BY DEF RunsInv, CapInv
<1>2. RunsInit => CreditInit
  BY DEF RunsInit, Init
<1>3. RunsInv /\ [RunsNext]_runsVars => [CreditNext]_creditVars
  BY RunsStep
<1>4. RunsSpec => CreditSpec
  BY <1>2, <1>3, RunsAlways, PTL DEF RunsSpec, CreditSpec
<1> QED
  BY <1>1, <1>4, RunsAlways, NoOverdraftHolds, PTL

(* Nor does either ever take back what a day row counts as spent, or change   *)
(* the budget a reservation was made for.                                     *)
THEOREM SpentStaysSpent ==
  RunsSpec => [][ /\ \A d \in Days : ledger'[d].spent >= ledger[d].spent
                  /\ \A m \in Mandates : res[m].status # "NONE" => budget'[m] = budget[m]
                ]_runsVars
<1>1. RunsInv /\ [RunsNext]_runsVars => RowsStay
  BY RunsStep, LedgerUsed DEF RunsInv, CapInv, LedgerFits, BookTypeOK
<1>2. RowsStay => /\ \A d \in Days : ledger'[d].spent >= ledger[d].spent
                  /\ \A m \in Mandates : res[m].status # "NONE" => budget'[m] = budget[m]
  BY DEF RowsStay
<1> QED
  BY <1>1, <1>2, RunsAlways, PTL DEF RunsSpec

(* RunsTypeOK: every variable of the scheduler and of the pipeline under it   *)
(* keeps its declared shape, also when a tick dies between two commits; no    *)
(* ledger column goes below zero.                                             *)
THEOREM RunsTypesCorrect == RunsSpec => []RunsTypeOK
<1>1. RunsInv => RunsTypeOK
  <2> SUFFICES ASSUME RunsInv PROVE RunsTypeOK
    OBVIOUS
  <2>1. LedgerTypeOK /\ CreditTypeOK
    BY DEF RunsInv, CapInv, BookTypeOK, CreditInv
  <2>2. mstatus \in [Mandates -> Lifecycle!MandateStatus \cup {"NONE"}]
    <3>1. Stages \subseteq Lifecycle!MandateStatus \cup {"NONE"}
      BY DEF Stages, Lifecycle!MandateStatus, Lifecycle!AllowedTransitions
    <3> QED
      BY <3>1 DEF RunsInv, TicketsFit, TicketTypeOK
  <2>3. /\ decision \in [Mandates -> Verdict \cup {Undecided}]
        /\ ticket \in [Mandates -> Verdict \cup {Undecided}]
    BY DEF RunsInv, TicketsFit, TicketTypeOK
  <2>4. /\ call \in [Task -> CallStatus] /\ sent \in [Task -> Nat]
        /\ pc \in [Workers -> Step] /\ job \in [Workers -> Task \cup {NoTask}]
    BY DEF RunsInv, ClaimInv, ClaimTypeOK
  <2>5. /\ hold \in [Task -> Nat] /\ paid \in [Task -> Nat] /\ seen \in [Workers -> Reservation]
        /\ slice \in [Workers -> Nat] /\ cost \in [Workers -> Nat]
    BY DEF RunsInv, CapInv, BookTypeOK
  <2>6. TypeOK
    BY <2>1, <2>2, <2>3, <2>4, <2>5 DEF TypeOK, RunsInv, QueueTypeOK, TaskTypeOK
  <2> QED
    BY <2>6 DEF RunsInv, RunTypeOK, RunsTypeOK
<1> QED
  BY <1>1, RunsAlways, PTL
=============================================================================
