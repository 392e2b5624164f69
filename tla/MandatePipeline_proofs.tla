------------------------- MODULE MandatePipeline_proofs -------------------------
(***************************************************************************)
(* The paid pipeline, for any number of mandates, tasks and workers, every *)
(* budget and cap, any number of crashes and redelivered messages.  Three  *)
(* inductive invariants, one upon the other:                               *)
(*                                                                         *)
(* ClaimInv, the at-most-once claim of workers/acquisition.py.  The call   *)
(* row is unique per acquisition and committed before the request, so of   *)
(* all the workers that reach the gateway for one acquisition the second   *)
(* fails to insert its row: a request that was sent has its row, and of    *)
(* the workers about to send each holds a row nobody has used.             *)
(*                                                                         *)
(* StageInv, what the stage of a mandate says of its tasks and what the    *)
(* position of a worker says of both: a mandate has one running task and   *)
(* one worker that runs it, and nothing is open once it is evaluated.      *)
(*                                                                         *)
(* BookInv, what becomes of the money.  A worker between its request and   *)
(* the commit of the outcome holds the reservation as the row has it, with *)
(* room for its call beside every uncertain payment; what the gateway was  *)
(* paid is booked, held as uncertain, or still covered.  From it follows   *)
(* also that the pipeline uses the two ledgers only as they allow.         *)
(***************************************************************************)
EXTENDS MandatePipeline, Ledgers_proofs

(* Between the commit of the call row and the request.                       *)
AboutToSend(w) == pc[w] \in {"authorize", "send"}

ClaimTypeOK ==
  /\ call \in [Task -> CallStatus]
  /\ sent \in [Task -> Nat]
  /\ pc \in [Workers -> Step]
  /\ job \in [Workers -> Task \cup {NoTask}]
  /\ \A w \in Workers : pc[w] # "idle" => job[w] \in Task

SentHasCall == \A a \in Task : sent[a] <= 1 /\ (sent[a] = 1 => call[a] # "NONE")

SendersAreFresh ==
  \A w \in Workers : AboutToSend(w) => sent[job[w]] = 0 /\ call[job[w]] # "NONE"

SendersDiffer ==
  \A v, w \in Workers : AboutToSend(v) /\ AboutToSend(w) /\ v # w => job[v] # job[w]

ClaimInv == ClaimTypeOK /\ SentHasCall /\ SendersAreFresh /\ SendersDiffer

-----------------------------------------------------------------------------
(* Leaving the window, or staying out of it, without touching the rows.      *)
LEMMA ClaimKept ==
  ASSUME ClaimInv,
         UNCHANGED <<call, sent>>,
         pc' \in [Workers -> Step], job' \in [Workers -> Task \cup {NoTask}],
         \A w \in Workers : pc'[w] # "idle" => job'[w] \in Task,
         \A w \in Workers : AboutToSend(w)' => AboutToSend(w) /\ job'[w] = job[w]
  PROVE  ClaimInv'
  BY DEF ClaimInv, ClaimTypeOK, SentHasCall, SendersAreFresh, SendersDiffer, AboutToSend

(* One worker moves to a step outside the window, or from "authorize" to "send".*)
LEMMA ClaimMoved ==
  ASSUME ClaimInv, NEW w \in Workers, NEW step \in Step \ {"idle"},
         step \in {"authorize", "send"} => AboutToSend(w),
         pc[w] # "idle",
         Goto(w, step), UNCHANGED <<call, sent, job>>
  PROVE  ClaimInv'
<1>1. \A v \in Workers : pc'[v] = IF v = w THEN step ELSE pc[v]
  BY DEF ClaimInv, ClaimTypeOK, Goto
<1>2. pc' \in [Workers -> Step] /\ job' \in [Workers -> Task \cup {NoTask}]
  BY DEF ClaimInv, ClaimTypeOK, Goto
<1>3. \A v \in Workers : pc'[v] # "idle" => job'[v] \in Task
  BY <1>1 DEF ClaimInv, ClaimTypeOK
<1>4. \A v \in Workers : AboutToSend(v)' => AboutToSend(v) /\ job'[v] = job[v]
  BY <1>1 DEF AboutToSend
<1> QED
  BY <1>2, <1>3, <1>4, ClaimKept

(* A call row, once inserted, is updated and never removed.                  *)
LEMMA ClaimRowUpdated ==
  ASSUME ClaimInv, NEW w \in Workers, NEW step \in Step \ {"idle", "authorize", "send"},
         pc[w] # "idle", Goto(w, step), UNCHANGED <<sent, job>>,
         call' \in [Task -> CallStatus],
         \A a \in Task : call[a] # "NONE" => call'[a] # "NONE"
  PROVE  ClaimInv'
<1>1. \A v \in Workers : pc'[v] = IF v = w THEN step ELSE pc[v]
  BY DEF ClaimInv, ClaimTypeOK, Goto
<1>2. ClaimTypeOK'
  BY <1>1 DEF ClaimInv, ClaimTypeOK, Goto
<1>3. SentHasCall'
  BY DEF ClaimInv, SentHasCall, ClaimTypeOK
<1>4. \A v \in Workers : AboutToSend(v)' => AboutToSend(v)
  BY <1>1 DEF AboutToSend
<1>5. \A v \in Workers : AboutToSend(v) => job[v] \in Task
  BY DEF ClaimInv, ClaimTypeOK, AboutToSend
<1>6. SendersAreFresh' /\ SendersDiffer'
  BY <1>4, <1>5 DEF ClaimInv, SendersAreFresh, SendersDiffer
<1> QED
  BY <1>2, <1>3, <1>6 DEF ClaimInv
-----------------------------------------------------------------------------
(* The two steps that open and leave the window.                             *)
LEMMA ClaimRequest ==
  ASSUME ClaimInv, NEW w \in Workers, Request(w)
  PROVE  ClaimInv'
<1> DEFINE a == job[w]
<1>1. a \in Task /\ pc[w] = "prepare" /\ call[a] = "NONE" /\ sent[a] = 0
  BY DEF ClaimInv, ClaimTypeOK, SentHasCall, Request, PrepareOK
<1>2. /\ call' = [call EXCEPT ![a] = "REQUESTED"]
      /\ sent' = sent /\ job' = job
      /\ \E step \in {"authorize", "send"} : pc' = [pc EXCEPT ![w] = step]
  BY DEF Request, Goto, gatewayVars
<1>3. ClaimTypeOK'
  BY <1>1, <1>2 DEF ClaimInv, ClaimTypeOK, CallStatus, Step
<1>4. SentHasCall'
  BY <1>1, <1>2 DEF ClaimInv, SentHasCall, ClaimTypeOK
<1>5. ASSUME NEW v \in Workers, v # w, AboutToSend(v)'
      PROVE  /\ AboutToSend(v) /\ job[v] \in Task /\ job[v] # a
             /\ sent'[job'[v]] = 0 /\ call'[job'[v]] # "NONE"
  BY <1>1, <1>2, <1>5 DEF ClaimInv, ClaimTypeOK, SendersAreFresh, AboutToSend
<1>6. sent'[job'[w]] = 0 /\ call'[job'[w]] # "NONE"
  BY <1>1, <1>2 DEF ClaimInv, ClaimTypeOK
<1>7. SendersAreFresh'
  BY <1>5, <1>6 DEF SendersAreFresh
<1>8. SendersDiffer'
  BY <1>2, <1>5 DEF ClaimInv, SendersDiffer
<1> QED
  BY <1>3, <1>4, <1>7, <1>8 DEF ClaimInv

LEMMA ClaimSend ==
  ASSUME ClaimInv, NEW w \in Workers, Send(w)
  PROVE  ClaimInv'
<1> DEFINE a == job[w]
<1>1. a \in Task /\ pc[w] = "send" /\ call[a] # "NONE" /\ sent[a] = 0
  BY DEF ClaimInv, ClaimTypeOK, SendersAreFresh, AboutToSend, Send
<1>2. /\ sent' = [sent EXCEPT ![a] = @ + 1]
      /\ call' = call /\ job' = job
      /\ \E step \in {"answered", "refused", "failNet", "fail402"} :
             pc' = [pc EXCEPT ![w] = step]
  BY DEF Send, Goto, taskVars
<1>3. ClaimTypeOK'
  BY <1>1, <1>2 DEF ClaimInv, ClaimTypeOK, Step
<1>4. SentHasCall'
  BY <1>1, <1>2 DEF ClaimInv, SentHasCall, ClaimTypeOK
<1>5. ASSUME NEW v \in Workers, AboutToSend(v)'
      PROVE  AboutToSend(v) /\ v # w
  BY <1>1, <1>2, <1>5 DEF ClaimInv, ClaimTypeOK, AboutToSend
<1>6. ASSUME NEW v \in Workers, AboutToSend(v)'
      PROVE  job[v] \in Task /\ job[v] # a
  BY <1>1, <1>5, <1>6 DEF ClaimInv, ClaimTypeOK, SendersDiffer, AboutToSend
<1>7. SendersAreFresh'
  BY <1>2, <1>5, <1>6 DEF ClaimInv, ClaimTypeOK, SendersAreFresh
<1>8. SendersDiffer'
  BY <1>2, <1>5 DEF ClaimInv, SendersDiffer
<1> QED
  BY <1>3, <1>4, <1>7, <1>8 DEF ClaimInv

(* The steps that update the row of the call.                                *)
LEMMA ClaimUpdate ==
  ASSUME ClaimInv, NEW w \in Workers, Receive(w) \/ SettleCall(w) \/ Fail(w)
  PROVE  ClaimInv'
<1>1. CASE Receive(w)
  <2>1. PICK step \in {"settle", "failNet"} : Goto(w, step)
    BY <1>1 DEF Receive
  <2>2. /\ pc[w] # "idle" /\ UNCHANGED <<sent, job>>
        /\ call' = [call EXCEPT ![job[w]] = "RECEIVED"]
    BY <1>1 DEF Receive, gatewayVars
  <2>3. step \in Step \ {"idle", "authorize", "send"}
    BY DEF Step
  <2>4. call' \in [Task -> CallStatus] /\ \A a \in Task : call[a] # "NONE" => call'[a] # "NONE"
    BY <2>2 DEF ClaimInv, ClaimTypeOK, CallStatus
  <2> QED
    BY <2>1, <2>2, <2>3, <2>4, ClaimRowUpdated
<1>2. CASE SettleCall(w)
  <2>1. /\ pc[w] # "idle" /\ UNCHANGED <<sent, job>> /\ Goto(w, "advance")
        /\ call' = [call EXCEPT ![job[w]] = "SUCCEEDED"]
    BY <1>2 DEF SettleCall, gatewayVars
  <2>2. "advance" \in Step \ {"idle", "authorize", "send"}
    BY DEF Step
  <2>3. call' \in [Task -> CallStatus] /\ \A a \in Task : call[a] # "NONE" => call'[a] # "NONE"
    BY <2>1 DEF ClaimInv, ClaimTypeOK, CallStatus
  <2> QED
    BY <2>1, <2>2, <2>3, ClaimRowUpdated
<1>3. CASE Fail(w)
  <2>1. /\ pc[w] # "idle" /\ UNCHANGED <<sent, job>> /\ Goto(w, "advance")
        /\ \E outcome \in {"RECONCILED_NO_PAYMENT", "PAYMENT_UNCERTAIN", "NOT_EXECUTED"} :
              call' = [call EXCEPT ![job[w]] = IF @ = "NONE" THEN @ ELSE outcome]
    BY <1>3 DEF Fail, gatewayVars
  <2>2. "advance" \in Step \ {"idle", "authorize", "send"}
    BY DEF Step
  <2>3. call' \in [Task -> CallStatus] /\ \A a \in Task : call[a] # "NONE" => call'[a] # "NONE"
    BY <2>1 DEF ClaimInv, ClaimTypeOK, CallStatus
  <2> QED
    BY <2>1, <2>2, <2>3, ClaimRowUpdated
<1> QED
  BY <1>1, <1>2, <1>3
-----------------------------------------------------------------------------
(* Every other step of a worker moves it, and touches neither row nor gateway.*)
Moves(w) ==
  \/ Claim(w) \/ ClaimRefused(w) \/ PrepareFails(w) \/ Authorize(w) \/ Deny(w)
  \/ SettleFails(w) \/ Advance(w) \/ EvaluateAndTicket(w) \/ CloseRun(w)

LEMMA MoveTarget ==
  ASSUME NEW w \in Workers, Moves(w)
  PROVE  /\ pc[w] # "idle" /\ UNCHANGED <<call, sent, job>>
         /\ \E step \in Step \ {"idle"} :
               /\ Goto(w, step)
               /\ step \in {"authorize", "send"} => AboutToSend(w)
<1>1. ASSUME Claim(w) \/ ClaimRefused(w) \/ PrepareFails(w)
      PROVE  /\ pc[w] # "idle" /\ UNCHANGED <<call, sent, job>>
             /\ \E step \in {"prepare", "advance", "done", "failPre"} : Goto(w, step)
  BY <1>1 DEF Claim, ClaimRefused, PrepareFails, gatewayVars, taskVars
<1>2. ASSUME Authorize(w)
      PROVE  /\ pc[w] = "authorize" /\ UNCHANGED <<call, sent, job>> /\ Goto(w, "send")
  BY <1>2 DEF Authorize, gatewayVars, taskVars
<1>3. ASSUME Deny(w) \/ SettleFails(w)
      PROVE  /\ pc[w] # "idle" /\ UNCHANGED <<call, sent, job>>
             /\ \E step \in {"failPre", "failBlocked", "failNet"} : Goto(w, step)
  BY <1>3 DEF Deny, SettleFails, gatewayVars, taskVars
<1>4. ASSUME Advance(w)
      PROVE  /\ pc[w] # "idle" /\ UNCHANGED <<call, sent, job>>
             /\ \E step \in {"done", "evaluate"} : Goto(w, step)
  BY <1>4 DEF Advance, AdvanceStops, AdvanceNext, AdvanceLost, AdvanceClose, AdvanceRaises,
              AdvanceAgain, Advancing, gatewayVars, taskVars
<1>5. ASSUME EvaluateAndTicket(w)
      PROVE  /\ pc[w] # "idle" /\ UNCHANGED <<call, sent, job>>
             /\ \E step \in {"done", "ticket", "finalize", "finalizeStale"} : Goto(w, step)
  BY <1>5 DEF EvaluateAndTicket, EvaluateStops, Evaluate, TicketDecided, IssueTicket,
              gatewayVars, taskVars
<1>6. ASSUME CloseRun(w)
      PROVE  pc[w] # "idle" /\ UNCHANGED <<call, sent, job>> /\ Goto(w, "done")
  BY <1>6 DEF CloseRun, AdvanceBlocked, EvaluateStrict, Finalize, Advancing, gatewayVars, taskVars
<1> QED
  BY <1>1, <1>2, <1>3, <1>4, <1>5, <1>6 DEF Moves, Step, AboutToSend

(* The broker, the API, the clock and the death of a worker.                 *)
LEMMA ClaimBroker ==
  ASSUME ClaimInv, NEW w \in Workers, NEW a \in Task,
         Deliver(w, a) \/ Finish(w) \/ Crash(w)
  PROVE  ClaimInv'
<1>1. UNCHANGED <<call, sent>>
  BY DEF Deliver, Finish, Crash, taskVars, gatewayVars
<1>2. /\ \E step \in {"locked", "idle"}, b \in Task \cup {NoTask} :
            /\ pc' = [pc EXCEPT ![w] = step] /\ job' = [job EXCEPT ![w] = b]
            /\ step # "idle" => b \in Task
  BY DEF Deliver, Finish, Crash, Goto
<1>3. /\ pc' \in [Workers -> Step] /\ job' \in [Workers -> Task \cup {NoTask}]
      /\ \A v \in Workers : pc'[v] # "idle" => job'[v] \in Task
      /\ \A v \in Workers : AboutToSend(v)' => AboutToSend(v) /\ job'[v] = job[v]
  BY <1>2 DEF ClaimInv, ClaimTypeOK, AboutToSend, Step
<1> QED
  BY <1>1, <1>3, ClaimKept

LEMMA ClaimElsewhere ==
  ASSUME ClaimInv, UNCHANGED <<call, sent, pc, job>>
  PROVE  ClaimInv'
  BY ClaimKept DEF ClaimInv, ClaimTypeOK, AboutToSend

LEMMA ClaimNext ==
  ASSUME ClaimInv, [Next]_vars
  PROVE  ClaimInv'
<1>1. ASSUME NEW u \in Users, Register(u)
      PROVE  ClaimInv'
  BY <1>1, ClaimElsewhere DEF Register, taskVars, gatewayVars
<1>2. ASSUME NEW m \in Mandates, Api(m)
      PROVE  ClaimInv'
  BY <1>2, ClaimElsewhere DEF Api, Create, Publish, PublishLost, Republish, taskVars, gatewayVars
<1>3. ASSUME NEW w \in Workers, WorkerStep(w)
      PROVE  ClaimInv'
  <2>1. CASE Moves(w)
    <3>1. PICK step \in Step \ {"idle"} :
                 /\ Goto(w, step)
                 /\ step \in {"authorize", "send"} => AboutToSend(w)
      BY <2>1, MoveTarget
    <3>2. pc[w] # "idle" /\ UNCHANGED <<call, sent, job>>
      BY <2>1, MoveTarget
    <3> QED
      BY <3>1, <3>2, ClaimMoved
  <2>2. CASE Request(w)
    BY <2>2, ClaimRequest
  <2>3. CASE Send(w)
    BY <2>3, ClaimSend
  <2>4. CASE Receive(w) \/ SettleCall(w) \/ Fail(w)
    BY <2>4, ClaimUpdate
  <2>5. CASE Finish(w)
    <3>1. job[w] \in Task
      BY <2>5 DEF ClaimInv, ClaimTypeOK, Finish
    <3> QED
      BY <2>5, <3>1, ClaimBroker
  <2> QED
    BY <1>3, <2>1, <2>2, <2>3, <2>4, <2>5 DEF WorkerStep, ExecuteOne, Moves
<1>4. ASSUME NEW w \in Workers, NEW a \in Task, Broker(w, a)
      PROVE  ClaimInv'
  BY <1>4, ClaimBroker, ClaimElsewhere DEF Broker, DropLocked, taskVars, gatewayVars
<1>5. ASSUME Environment
      PROVE  ClaimInv'
  <2>1. ASSUME NEW w \in Workers, Crash(w)
        PROVE  ClaimInv'
    <3>1. job[w] \in Task
      BY <2>1 DEF ClaimInv, ClaimTypeOK, Crash
    <3> QED
      BY <2>1, <3>1, ClaimBroker
  <2> QED
    BY <1>5, <2>1, ClaimElsewhere DEF Environment, LockExpires, Midnight, taskVars, gatewayVars
<1>6. CASE UNCHANGED vars
  BY <1>6, ClaimElsewhere DEF vars, taskVars, gatewayVars
<1> QED
  BY <1>1, <1>2, <1>3, <1>4, <1>5, <1>6 DEF Next

LEMMA ClaimInit ==
  ASSUME Init PROVE ClaimInv
<1>1. NoTask \in Task \cup {NoTask} /\ "idle" \in Step /\ "NONE" \in CallStatus
  BY DEF Step, CallStatus
<1> QED
  BY <1>1 DEF Init, ClaimInv, ClaimTypeOK, SentHasCall, SendersAreFresh, SendersDiffer, AboutToSend

(* AtMostOnePayment: whatever workers die, whatever messages are lost,       *)
(* repeated or redelivered and whenever the Redis lock expires, no           *)
(* acquisition is requested from the gateway twice.                          *)
THEOREM AtMostOnePaymentHolds == Spec => []AtMostOnePayment
<1>1. Spec => []ClaimInv
  BY ClaimInit, ClaimNext, PTL DEF Spec
<1>2. ClaimInv => AtMostOnePayment
  BY DEF ClaimInv, SentHasCall, AtMostOnePayment
<1> QED
  BY <1>1, <1>2, PTL
-----------------------------------------------------------------------------
(* The steps that change no row: of the broker, of a worker that dies or     *)
(* comes to an end, and those that only say where a worker goes on.          *)
Rests(w) ==
  \/ \E a \in Task : Deliver(w, a)
  \/ Finish(w) \/ Crash(w)
  \/ AdvanceStops(w) \/ AdvanceNext(w) \/ AdvanceLost(w) \/ AdvanceRaises(w)
  \/ EvaluateStops(w) \/ Finalize(w)

Turns(w) ==
  \/ ClaimRefused(w) \/ PrepareFails(w) \/ Authorize(w) \/ Deny(w) \/ SettleFails(w)
  \/ AdvanceAgain(w)

rowVars == <<moneyVars, mandateVars, taskVars, gatewayVars>>

LEMMA RestStep ==
  ASSUME ClaimTypeOK, NEW w \in Workers, Rests(w)
  PROVE  /\ UNCHANGED rowVars
         /\ pc'[w] \in {"idle", "locked", "done"}
         /\ \A v \in Workers \ {w} : pc'[v] = pc[v] /\ job'[v] = job[v]
<1>1. ASSUME NEW a \in Task, Deliver(w, a)
      PROVE  /\ UNCHANGED rowVars
             /\ pc' = [pc EXCEPT ![w] = "locked"] /\ job' = [job EXCEPT ![w] = a]
  BY <1>1 DEF Deliver, Goto, rowVars
<1>2. ASSUME Finish(w) \/ Crash(w)
      PROVE  /\ UNCHANGED rowVars
             /\ pc' = [pc EXCEPT ![w] = "idle"] /\ job' = [job EXCEPT ![w] = NoTask]
  BY <1>2 DEF Finish, Crash, Goto, rowVars
<1>3. ASSUME \/ AdvanceStops(w) \/ AdvanceNext(w) \/ AdvanceLost(w) \/ AdvanceRaises(w)
             \/ EvaluateStops(w) \/ Finalize(w)
      PROVE  /\ UNCHANGED rowVars
             /\ pc' = [pc EXCEPT ![w] = "done"] /\ job' = job
  BY <1>3 DEF AdvanceStops, AdvanceNext, AdvanceLost, AdvanceRaises, EvaluateStops, Finalize,
              Goto, rowVars
<1> QED
  BY <1>1, <1>2, <1>3 DEF Rests, ClaimTypeOK

LEMMA TurnStep ==
  ASSUME ClaimTypeOK, NEW w \in Workers, Turns(w)
  PROVE  /\ UNCHANGED <<rowVars, job, localVars>>
         /\ \A v \in Workers \ {w} : pc'[v] = pc[v]
         /\ \/ pc'[w] = "done"
            \/ pc[w] = "locked" /\ pc'[w] = "advance" /\ task[job[w]] \in Finished
            \/ pc[w] \in {"prepare", "authorize"} /\ pc'[w] \in {"failPre", "failBlocked"}
            \/ pc[w] = "authorize" /\ pc'[w] = "send"
            \/ pc[w] = "settle" /\ pc'[w] = "failNet"
            \/ /\ pc[w] = "advance" /\ pc'[w] = "evaluate"
               /\ AllFinished(job[w][1]) /\ mstatus[job[w][1]] # "ACQUIRING"
<1>1. ASSUME ClaimRefused(w)
      PROVE  /\ UNCHANGED <<rowVars, job, localVars>> /\ pc[w] = "locked"
             /\ pc' = [pc EXCEPT ![w] = IF task[job[w]] \in Finished THEN "advance" ELSE "done"]
  BY <1>1 DEF ClaimRefused, Goto, rowVars
<1>2. ASSUME PrepareFails(w) \/ Deny(w)
      PROVE  /\ UNCHANGED <<rowVars, job, localVars>> /\ pc[w] \in {"prepare", "authorize"}
             /\ \E step \in {"failPre", "failBlocked"} : pc' = [pc EXCEPT ![w] = step]
  BY <1>2 DEF PrepareFails, Deny, Goto, rowVars
<1>3. ASSUME Authorize(w)
      PROVE  /\ UNCHANGED <<rowVars, job, localVars>> /\ pc[w] = "authorize"
             /\ pc' = [pc EXCEPT ![w] = "send"]
  BY <1>3 DEF Authorize, Goto, rowVars
<1>4. ASSUME SettleFails(w)
      PROVE  /\ UNCHANGED <<rowVars, job, localVars>> /\ pc[w] = "settle"
             /\ pc' = [pc EXCEPT ![w] = "failNet"]
  BY <1>4 DEF SettleFails, Goto, rowVars
<1>5. ASSUME AdvanceAgain(w)
      PROVE  /\ UNCHANGED <<rowVars, job, localVars>> /\ pc[w] = "advance"
             /\ AllFinished(job[w][1]) /\ mstatus[job[w][1]] # "ACQUIRING"
             /\ pc' = [pc EXCEPT ![w] = "evaluate"]
  BY <1>5 DEF AdvanceAgain, Advancing, Goto, rowVars
<1> QED
  <2>1. \A step \in Step : pc' = [pc EXCEPT ![w] = step] =>
             pc'[w] = step /\ \A v \in Workers \ {w} : pc'[v] = pc[v]
    BY DEF ClaimTypeOK
  <2> QED
    BY <1>1, <1>2, <1>3, <1>4, <1>5, <2>1 DEF Turns, Step
-----------------------------------------------------------------------------
Stages == {"NONE", "RECEIVED", "ACQUIRING", "EVALUATING", "DECIDED", "TICKETED", "FAILED"}
Concluded == {"DECIDED", "TICKETED"}
Acquired == {"EVALUATING"} \cup Concluded
BusySteps == {"prepare", "authorize", "send", "answered", "refused", "settle",
              "failPre", "failBlocked", "failNet", "fail402"}
Busy(w) == pc[w] \in BusySteps

StageTypeOK ==
  /\ mstatus \in [Mandates -> Stages]
  /\ decision \in [Mandates -> Verdict \cup {Undecided}]
  /\ ticket \in [Mandates -> Verdict \cup {Undecided}]
  /\ task \in [Task -> TaskStatus]
  /\ code \in [Task -> FailureCode]

Earned(m) ==
  /\ \E a \in TasksOf(m) : call[a] = "SUCCEEDED"
  /\ \A a \in TasksOf(m) : a[2] \in Required => task[a] \in {"SUCCEEDED", "NONE"}

TasksFit(m) ==
  \A a \in TasksOf(m) :
     /\ mstatus[m] = "NONE" => task[a] = "NONE"
     /\ mstatus[m] = "RECEIVED" => task[a] \in {"NONE", "QUEUED"}
     /\ mstatus[m] \in Acquired \cup {"FAILED"} => task[a] \in Finished \cup {"NONE"}
     /\ mstatus[m] \in Acquired /\ task[a] = "FAILED" => code[a] # "G13_BLOCK"

OneRunning(m) ==
  \A a, b \in TasksOf(m) : task[a] = "RUNNING" /\ task[b] = "RUNNING" => a = b

DecisionFits(m) ==
  /\ decision[m] # Undecided <=> mstatus[m] \in Concluded
  /\ ticket[m] = IF mstatus[m] = "TICKETED" THEN decision[m] ELSE Undecided
  /\ decision[m] = "PERMIT" => Earned(m)

MandateStage(m) == TasksFit(m) /\ OneRunning(m) /\ DecisionFits(m)

WorkerStage(w) ==
  LET m == job[w][1] IN
  /\ Busy(w) => task[job[w]] = "RUNNING"
  /\ pc[w] \in {"advance", "evaluate", "ticket"} => task[job[w]] \in Finished
  /\ pc[w] = "evaluate" => mstatus[m] \in Acquired \cup {"FAILED"}
  /\ pc[w] = "ticket" => mstatus[m] \in Concluded

BusyDiffer == \A v, w \in Workers : Busy(v) /\ Busy(w) /\ v # w => job[v] # job[w]

StageInv ==
  /\ ClaimTypeOK /\ StageTypeOK
  /\ \A m \in Mandates : MandateStage(m)
  /\ \A w \in Workers : WorkerStage(w)
  /\ BusyDiffer

LEMMA TaskFacts ==
  /\ \A m \in Mandates : \A a \in TasksOf(m) : a \in Task /\ a[1] = m
  /\ \A a \in Task : a[1] \in Mandates /\ a[2] \in 1 .. MaxTasks /\ a \in TasksOf(a[1])
BY DEF Task, TasksOf

LEMMA TransitionTo ==
  ASSUME NEW m \in Mandates, NEW s, NEW t
  PROVE  /\ Transition(m, <<s>>) => mstatus' = [mstatus EXCEPT ![m] = s]
         /\ Transition(m, <<t, s>>) => mstatus' = [mstatus EXCEPT ![m] = s]
BY DEF Transition

LEMMA StageKept ==
  ASSUME NEW m \in Mandates, MandateStage(m),
         mstatus'[m] = mstatus[m], decision'[m] = decision[m], ticket'[m] = ticket[m],
         \A a \in TasksOf(m) : task'[a] = task[a] /\ code'[a] = code[a] /\ call'[a] = call[a]
  PROVE  MandateStage(m)'
<1>1. TasksFit(m)'
  BY DEF MandateStage, TasksFit
<1>2. OneRunning(m)'
  BY DEF MandateStage, OneRunning
<1>3. DecisionFits(m)'
  BY DEF MandateStage, DecisionFits, Earned
<1> QED
  BY <1>1, <1>2, <1>3 DEF MandateStage

LEMMA StageStep ==
  ASSUME StageInv, ClaimTypeOK', StageTypeOK', NEW w \in Workers,
         \A v \in Workers \ {w} : pc'[v] = pc[v] /\ job'[v] = job[v],
         \A n \in Mandates : MandateStage(n)',
         WorkerStage(w)',
         Busy(w)' => /\ job'[w] = job[w]
                     /\ \/ Busy(w)
                        \/ task[job[w]] # "RUNNING",
         \A b \in Task : task[b] \in Finished => task'[b] \in Finished,
         \A v \in Workers \ {w} : Busy(v) => task'[job[v]] = "RUNNING",
         \A n \in Mandates :
            /\ mstatus[n] \in Acquired \cup {"FAILED"} => mstatus'[n] \in Acquired \cup {"FAILED"}
            /\ mstatus[n] \in Concluded => mstatus'[n] \in Concluded
  PROVE  StageInv'
<1>1. ASSUME NEW v \in Workers \ {w}
      PROVE  WorkerStage(v)' /\ (Busy(v)' <=> Busy(v))
  <2>1. pc'[v] = pc[v] /\ job'[v] = job[v] /\ WorkerStage(v)
    BY DEF StageInv
  <2>2. pc[v] # "idle" => job[v] \in Task /\ job[v][1] \in Mandates
    BY TaskFacts DEF StageInv, ClaimTypeOK
  <2>3. Busy(v)' <=> Busy(v)
    BY <2>1 DEF Busy
  <2>4. Busy(v) => task'[job[v]] = "RUNNING"
    OBVIOUS
  <2>5. pc[v] \in {"advance", "evaluate", "ticket"} => task'[job[v]] \in Finished
    BY <2>1, <2>2 DEF WorkerStage
  <2>6. /\ pc[v] = "evaluate" => mstatus'[job[v][1]] \in Acquired \cup {"FAILED"}
        /\ pc[v] = "ticket" => mstatus'[job[v][1]] \in Concluded
    BY <2>1, <2>2 DEF WorkerStage
  <2> QED
    BY <2>1, <2>3, <2>4, <2>5, <2>6 DEF WorkerStage
<1>2. ASSUME NEW v \in Workers \ {w}, Busy(v), Busy(w)'
      PROVE  job[v] # job'[w]
  <2>1. task[job[v]] = "RUNNING"
    BY <1>2 DEF StageInv, WorkerStage
  <2> QED
    BY <1>2, <2>1 DEF StageInv, BusyDiffer
<1>3. BusyDiffer'
  BY <1>1, <1>2 DEF StageInv, BusyDiffer
<1> QED
  BY <1>1, <1>3 DEF StageInv

LEMMA StageQuiet ==
  ASSUME StageInv, ClaimTypeOK', UNCHANGED <<mandateVars, taskVars>>, NEW w \in Workers,
         \A v \in Workers \ {w} : pc'[v] = pc[v] /\ job'[v] = job[v],
         WorkerStage(w)',
         Busy(w)' => Busy(w) /\ job'[w] = job[w]
  PROVE  StageInv'
<1>0. UNCHANGED <<mstatus, decision, ticket, task, code, call>>
  BY DEF mandateVars, taskVars
<1>1. StageTypeOK'
  BY <1>0 DEF StageInv, StageTypeOK
<1>2. \A n \in Mandates : MandateStage(n)'
  BY <1>0, StageKept DEF StageInv
<1>3. \A v \in Workers \ {w} : Busy(v) => task'[job[v]] = "RUNNING"
  BY <1>0 DEF StageInv, WorkerStage
<1> QED
  BY <1>0, <1>1, <1>2, <1>3, StageStep

LEMMA StageRests ==
  ASSUME StageInv, ClaimTypeOK', NEW w \in Workers, Rests(w)
  PROVE  StageInv'
<1>1. /\ UNCHANGED <<mandateVars, taskVars>>
      /\ pc'[w] \in {"idle", "locked", "done"}
      /\ \A v \in Workers \ {w} : pc'[v] = pc[v] /\ job'[v] = job[v]
  BY RestStep DEF StageInv, rowVars
<1>2. WorkerStage(w)' /\ ~Busy(w)'
  BY <1>1 DEF WorkerStage, Busy, BusySteps
<1> QED
  BY <1>1, <1>2, StageQuiet

LEMMA StageTurns ==
  ASSUME StageInv, ClaimTypeOK', NEW w \in Workers, Turns(w)
  PROVE  StageInv'
<1>0. ClaimTypeOK /\ WorkerStage(w)
  BY DEF StageInv
<1>1. /\ UNCHANGED <<mandateVars, taskVars, job>>
      /\ \A v \in Workers \ {w} : pc'[v] = pc[v]
  BY <1>0, TurnStep DEF rowVars
<1>2. UNCHANGED <<mstatus, task>>
  BY <1>1 DEF mandateVars, taskVars
<1>3. WorkerStage(w)' /\ (Busy(w)' => Busy(w))
  <2>1. CASE pc'[w] = "done"
    BY <2>1 DEF WorkerStage, Busy, BusySteps
  <2>2. CASE pc[w] = "locked" /\ pc'[w] = "advance" /\ task[job[w]] \in Finished
    BY <1>1, <1>2, <2>2 DEF WorkerStage, Busy, BusySteps
  <2>3. CASE \/ pc[w] \in {"prepare", "authorize"} /\ pc'[w] \in {"failPre", "failBlocked"}
             \/ pc[w] = "authorize" /\ pc'[w] = "send"
             \/ pc[w] = "settle" /\ pc'[w] = "failNet"
    BY <1>0, <1>1, <1>2, <2>3 DEF WorkerStage, Busy, BusySteps
  <2>4. CASE /\ pc[w] = "advance" /\ pc'[w] = "evaluate"
             /\ AllFinished(job[w][1]) /\ mstatus[job[w][1]] # "ACQUIRING"
    <3> DEFINE a == job[w]  m == job[w][1]
    <3>1. a \in Task /\ m \in Mandates /\ a \in TasksOf(m) /\ task[a] \in Finished
      BY <1>0, <2>4, TaskFacts DEF ClaimTypeOK, WorkerStage
    <3>2. mstatus[m] \in Stages /\ TasksFit(m)
      BY <3>1 DEF StageInv, StageTypeOK, MandateStage
    <3>3. mstatus[m] \in Acquired
      BY <2>4, <3>1, <3>2 DEF TasksFit, Stages, Acquired, Concluded, Finished, AllFinished
    <3> QED
      BY <1>1, <1>2, <2>4, <3>1, <3>3 DEF WorkerStage, Busy, BusySteps
  <2> QED
    BY <1>0, <2>1, <2>2, <2>3, <2>4, TurnStep
<1> QED
  BY <1>1, <1>3, StageQuiet

(* A worker in execute_one has the only running task of an open mandate.     *)
LEMMA BusyFacts ==
  ASSUME StageInv, NEW w \in Workers, Busy(w)
  PROVE  /\ job[w] \in Task /\ job[w][1] \in Mandates /\ job[w] \in TasksOf(job[w][1])
         /\ task[job[w]] = "RUNNING" /\ mstatus[job[w][1]] = "ACQUIRING"
         /\ decision[job[w][1]] = Undecided /\ ticket[job[w][1]] = Undecided
<1>1. /\ job[w] \in Task /\ job[w][1] \in Mandates /\ job[w] \in TasksOf(job[w][1])
      /\ task[job[w]] = "RUNNING"
  BY TaskFacts DEF StageInv, ClaimTypeOK, WorkerStage, Busy, BusySteps
<1>2. MandateStage(job[w][1]) /\ mstatus[job[w][1]] \in Stages
  BY <1>1 DEF StageInv, StageTypeOK
<1>3. mstatus[job[w][1]] = "ACQUIRING"
  BY <1>1, <1>2 DEF MandateStage, TasksFit, Stages, Acquired, Concluded, Finished
<1> QED
  BY <1>1, <1>2, <1>3 DEF MandateStage, DecisionFits, Concluded

(* A step of a busy worker on the rows of its task.                          *)
LEMMA StageWork ==
  ASSUME StageInv, ClaimTypeOK', StageTypeOK', NEW w \in Workers, Busy(w),
         UNCHANGED <<mstatus, decision, ticket, job>>,
         \A v \in Workers \ {w} : pc'[v] = pc[v],
         \A b \in Task \ {job[w]} : task'[b] = task[b] /\ code'[b] = code[b] /\ call'[b] = call[b],
         WorkerStage(w)'
  PROVE  StageInv'
<1> DEFINE a == job[w]  m == a[1]
<1>1. /\ a \in Task /\ m \in Mandates /\ a \in TasksOf(m)
      /\ task[a] = "RUNNING" /\ mstatus[m] = "ACQUIRING" /\ decision[m] = Undecided
  BY BusyFacts
<1>2. ASSUME NEW n \in Mandates
      PROVE  MandateStage(n)'
  <2>0. MandateStage(n)
    BY DEF StageInv
  <2>1. CASE n # m
    <3>1. \A b \in TasksOf(n) : b \in Task \ {a}
      BY <2>1, TaskFacts
    <3> QED
      BY <2>0, <3>1, StageKept
  <2>2. CASE n = m
    <3>1. TasksFit(n)'
      BY <1>1, <2>2 DEF TasksFit, Acquired, Concluded
    <3>2. \A b \in TasksOf(n) : b # a => task'[b] # "RUNNING"
      BY <1>1, <2>0, <2>2, TaskFacts DEF MandateStage, OneRunning
    <3>3. OneRunning(n)'
      BY <3>2 DEF OneRunning
    <3>4. DecisionFits(n)'
      BY <1>1, <2>0, <2>2 DEF MandateStage, DecisionFits, Undecided
    <3> QED
      BY <3>1, <3>3, <3>4 DEF MandateStage
  <2> QED
    BY <2>1, <2>2
<1>3. ASSUME NEW v \in Workers \ {w}, Busy(v)
      PROVE  task'[job[v]] = "RUNNING"
  <2>1. job[v] \in Task \ {a} /\ task[job[v]] = "RUNNING"
    BY <1>3, BusyFacts DEF StageInv, BusyDiffer
  <2> QED
    BY <2>1
<1>4. \A b \in Task : task[b] \in Finished => task'[b] \in Finished
  BY <1>1 DEF Finished
<1> QED
  BY <1>2, <1>3, <1>4, StageStep

(* A step of a worker on the row of its mandate.                             *)
LEMMA StageMove ==
  ASSUME StageInv, ClaimTypeOK', StageTypeOK', NEW w \in Workers, NEW m \in Mandates,
         UNCHANGED <<taskVars, job>>,
         \A v \in Workers \ {w} : pc'[v] = pc[v],
         \A n \in Mandates \ {m} : /\ mstatus'[n] = mstatus[n] /\ decision'[n] = decision[n]
                                   /\ ticket'[n] = ticket[n],
         MandateStage(m)', WorkerStage(w)', ~Busy(w)',
         mstatus[m] \in Acquired \cup {"FAILED"} => mstatus'[m] \in Acquired \cup {"FAILED"},
         mstatus[m] \in Concluded => mstatus'[m] \in Concluded
  PROVE  StageInv'
<1>0. UNCHANGED <<task, code, call>>
  BY DEF taskVars
<1>1. \A n \in Mandates : MandateStage(n)'
  BY <1>0, StageKept DEF StageInv
<1>2. \A v \in Workers \ {w} : Busy(v) => task'[job[v]] = "RUNNING"
  BY <1>0, BusyFacts
<1> QED
  BY <1>0, <1>1, <1>2, StageStep

LEMMA StageClaim ==
  ASSUME StageInv, ClaimTypeOK', NEW w \in Workers, Claim(w)
  PROVE  StageInv'
<1> DEFINE a == job[w]  m == a[1]
<1>1. /\ a \in Task /\ m \in Mandates /\ a \in TasksOf(m) /\ pc[w] = "locked"
      /\ task[a] = "QUEUED" /\ Running(m) = {} /\ mstatus[m] \in Stages /\ MandateStage(m)
  BY TaskFacts DEF StageInv, StageTypeOK, ClaimTypeOK, Claim, Claimable
<1>2. mstatus[m] \in {"RECEIVED", "ACQUIRING"}
  BY <1>1 DEF MandateStage, TasksFit, Stages, Acquired, Concluded, Finished
<1>3. /\ task' = [task EXCEPT ![a] = "RUNNING"] /\ pc' = [pc EXCEPT ![w] = "prepare"]
      /\ mstatus' = [mstatus EXCEPT ![m] = "ACQUIRING"]
      /\ UNCHANGED <<decision, ticket, code, call, job>>
  BY <1>2 DEF Claim, EnterAcquiring, Goto, StageInv, StageTypeOK
<1>4. StageTypeOK'
  BY <1>3 DEF StageInv, StageTypeOK, Stages, TaskStatus
<1>5. ASSUME NEW n \in Mandates
      PROVE  MandateStage(n)'
  <2>0. MandateStage(n)
    BY DEF StageInv
  <2>1. CASE n # m
    <3>1. \A b \in TasksOf(n) : b \in Task \ {a}
      BY <2>1, TaskFacts
    <3>2. \A b \in TasksOf(n) : task'[b] = task[b]
      BY <1>3, <3>1 DEF StageInv, StageTypeOK
    <3> QED
      BY <1>3, <2>0, <2>1, <3>2, StageKept DEF StageInv, StageTypeOK
  <2>2. CASE n = m
    <3>0. mstatus'[m] = "ACQUIRING" /\ \A b \in Task \ {a} : task'[b] = task[b]
      BY <1>1, <1>3 DEF StageInv, StageTypeOK
    <3>1. TasksFit(n)'
      BY <2>2, <3>0 DEF TasksFit, Acquired, Concluded
    <3>2. \A b \in TasksOf(n) : b # a => task'[b] # "RUNNING"
      BY <1>1, <2>2, <3>0, TaskFacts DEF Running
    <3>3. OneRunning(n)'
      BY <3>2 DEF OneRunning
    <3>4. DecisionFits(n)'
      BY <1>2, <1>3, <2>0, <2>2, <3>0 DEF MandateStage, DecisionFits, Undecided, Concluded
    <3> QED
      BY <3>1, <3>3, <3>4 DEF MandateStage
  <2> QED
    BY <2>1, <2>2
<1>6. /\ WorkerStage(w)'
      /\ job'[w] = job[w] /\ task[job[w]] # "RUNNING"
      /\ \A v \in Workers \ {w} : pc'[v] = pc[v] /\ job'[v] = job[v]
  BY <1>1, <1>3 DEF WorkerStage, StageInv, StageTypeOK, ClaimTypeOK
<1>7. \A b \in Task : task[b] \in Finished => task'[b] \in Finished
  BY <1>1, <1>3 DEF StageInv, StageTypeOK, Finished
<1>8. \A v \in Workers \ {w} : Busy(v) => task'[job[v]] = "RUNNING"
  BY <1>1, <1>3, BusyFacts DEF StageInv, StageTypeOK
<1>9. \A n \in Mandates :
         /\ mstatus[n] \in Acquired \cup {"FAILED"} => mstatus'[n] \in Acquired \cup {"FAILED"}
         /\ mstatus[n] \in Concluded => mstatus'[n] \in Concluded
  BY <1>2, <1>3 DEF StageInv, StageTypeOK, Acquired, Concluded
<1> QED
  BY <1>4, <1>5, <1>6, <1>7, <1>8, <1>9, StageStep

(* Request, Receive, SettleCall and Fail.                                    *)
LEMMA StageCalls ==
  ASSUME StageInv, ClaimTypeOK', NEW w \in Workers,
         Request(w) \/ Receive(w) \/ SettleCall(w) \/ Fail(w)
  PROVE  StageInv'
<1> DEFINE a == job[w]  m == a[1]
<1>1. Busy(w)
  BY DEF Request, Receive, SettleCall, Fail, Busy, BusySteps
<1>2. /\ a \in Task /\ m \in Mandates /\ task[a] = "RUNNING" /\ mstatus[m] = "ACQUIRING"
  BY <1>1, BusyFacts
<1>3. CASE Request(w) \/ Receive(w)
  <2>1. /\ UNCHANGED <<mstatus, decision, ticket, task, code, job>>
        /\ \E s \in CallStatus : call' = [call EXCEPT ![a] = s]
        /\ \E s \in BusySteps : pc' = [pc EXCEPT ![w] = s]
    <3>1. CASE Request(w)
      BY <3>1 DEF Request, Goto, mandateVars, CallStatus, BusySteps
    <3>2. CASE Receive(w)
      BY <3>2 DEF Receive, Goto, mandateVars, CallStatus, BusySteps
    <3> QED
      BY <1>3, <3>1, <3>2
  <2>2. StageTypeOK'
    BY <2>1 DEF StageInv, StageTypeOK
  <2>3. WorkerStage(w)' /\ \A v \in Workers \ {w} : pc'[v] = pc[v]
    BY <1>2, <2>1 DEF WorkerStage, StageInv, ClaimTypeOK, Busy, BusySteps
  <2>4. \A b \in Task \ {a} : task'[b] = task[b] /\ code'[b] = code[b] /\ call'[b] = call[b]
    BY <2>1 DEF StageInv, ClaimTypeOK
  <2> QED
    BY <1>1, <2>1, <2>2, <2>3, <2>4, StageWork
<1>4. CASE SettleCall(w) \/ Fail(w)
  <2>1. /\ UNCHANGED <<mstatus, decision, ticket, job>>
        /\ \E s \in Finished : task' = [task EXCEPT ![a] = s]
        /\ \E s \in FailureCode : code' = code \/ code' = [code EXCEPT ![a] = s]
        /\ \E s \in CallStatus : call' = [call EXCEPT ![a] = s]
        /\ pc' = [pc EXCEPT ![w] = "advance"]
    <3>1. CASE SettleCall(w)
      BY <3>1 DEF SettleCall, Goto, mandateVars, CallStatus, FailureCode, Finished
    <3>2. CASE Fail(w)
      <4>1. call[a] \in CallStatus
        BY <1>2 DEF StageInv, ClaimTypeOK
      <4>2. mstatus' = mstatus
        BY <1>2, <3>2 DEF Fail, EnterAcquiring
      <4> QED
        BY <3>2, <4>1, <4>2 DEF Fail, Goto, CallStatus, FailureCode, Finished
    <3> QED
      BY <1>4, <3>1, <3>2
  <2>2. StageTypeOK'
    BY <2>1 DEF StageInv, StageTypeOK, Finished, TaskStatus
  <2>3. WorkerStage(w)' /\ \A v \in Workers \ {w} : pc'[v] = pc[v]
    BY <1>2, <2>1 DEF WorkerStage, StageInv, StageTypeOK, ClaimTypeOK, Busy, BusySteps
  <2>4. \A b \in Task \ {a} : task'[b] = task[b] /\ code'[b] = code[b] /\ call'[b] = call[b]
    BY <2>1 DEF StageInv, StageTypeOK, ClaimTypeOK
  <2> QED
    BY <1>1, <2>1, <2>2, <2>3, <2>4, StageWork
<1> QED
  BY <1>3, <1>4

LEMMA StageSend ==
  ASSUME StageInv, ClaimTypeOK', NEW w \in Workers, Send(w)
  PROVE  StageInv'
<1>1. Busy(w) /\ UNCHANGED <<mandateVars, taskVars, job>>
  BY DEF Send, Busy, BusySteps
<1>2. \E s \in BusySteps \ {"prepare"} : pc' = [pc EXCEPT ![w] = s]
  BY DEF Send, Goto, BusySteps
<1>3. task[job[w]] = "RUNNING" /\ task' = task
  BY <1>1, BusyFacts DEF taskVars
<1>4. WorkerStage(w)' /\ \A v \in Workers \ {w} : pc'[v] = pc[v]
  BY <1>1, <1>2, <1>3 DEF WorkerStage, StageInv, ClaimTypeOK, Busy, BusySteps
<1> QED
  BY <1>1, <1>4, StageQuiet

(* AdvanceBlocked and AdvanceClose.                                          *)
LEMMA StageAdvance ==
  ASSUME StageInv, ClaimTypeOK', NEW w \in Workers, AdvanceBlocked(w) \/ AdvanceClose(w)
  PROVE  StageInv'
<1> DEFINE a == job[w]  m == a[1]
<1>1. /\ pc[w] = "advance" /\ AllFinished(m)
      /\ UNCHANGED <<decision, ticket, taskVars, job>>
  BY DEF AdvanceBlocked, AdvanceClose, Advancing
<1>2. /\ a \in Task /\ m \in Mandates /\ a \in TasksOf(m) /\ task[a] \in Finished
      /\ MandateStage(m) /\ mstatus[m] \in Stages
  BY <1>1, TaskFacts DEF StageInv, StageTypeOK, ClaimTypeOK, WorkerStage
<1>3. \A b \in TasksOf(m) : task[b] \in Finished \cup {"NONE"}
  BY <1>1, <1>2, TaskFacts DEF AllFinished, Running, Queued, StageInv, StageTypeOK, TaskStatus, Finished
<1>4. /\ mstatus[m] = "ACQUIRING"
      /\ \/ Transition(m, <<"FAILED">>) /\ Goto(w, "done")
         \/ ~Blocked(m) /\ Transition(m, <<"EVALUATING">>) /\ Goto(w, "evaluate")
  <2>1. CASE AdvanceBlocked(w)
    <3>1. Blocked(m) /\ Transition(m, <<"FAILED">>) /\ Goto(w, "done")
      BY <2>1 DEF AdvanceBlocked
    <3>2. mstatus[m] \notin Acquired
      BY <1>2, <3>1 DEF Blocked, MandateStage, TasksFit
    <3> QED
      BY <1>1, <1>2, <3>1, <3>2 DEF MandateStage, TasksFit, Stages, AllFinished, Acquired, Concluded,
                                    Finished
  <2>2. CASE AdvanceClose(w)
    BY <2>2 DEF AdvanceClose
  <2> QED
    BY <2>1, <2>2
<1>5. PICK s \in {"FAILED", "EVALUATING"} :
         /\ mstatus' = [mstatus EXCEPT ![m] = s]
         /\ pc' = [pc EXCEPT ![w] = IF s = "FAILED" THEN "done" ELSE "evaluate"]
         /\ s = "EVALUATING" => ~Blocked(m)
  BY <1>2, <1>4, TransitionTo DEF Goto
<1>6. StageTypeOK'
  BY <1>1, <1>5 DEF StageInv, StageTypeOK, Stages, taskVars
<1>7. mstatus'[m] = s /\ UNCHANGED <<task, code, call>>
  BY <1>1, <1>2, <1>5 DEF StageInv, StageTypeOK, taskVars
<1>8. MandateStage(m)'
  <2>1. TasksFit(m)'
    BY <1>1, <1>3, <1>5, <1>7 DEF TasksFit, Blocked, Acquired, Concluded
  <2>2. OneRunning(m)'
    BY <1>1, <1>2, <1>7 DEF MandateStage, OneRunning
  <2>3. DecisionFits(m)'
    BY <1>1, <1>2, <1>4, <1>7 DEF MandateStage, DecisionFits, Concluded, Undecided
  <2> QED
    BY <2>1, <2>2, <2>3 DEF MandateStage
<1>9. /\ WorkerStage(w)' /\ ~Busy(w)' /\ \A v \in Workers \ {w} : pc'[v] = pc[v]
      /\ \A n \in Mandates \ {m} : mstatus'[n] = mstatus[n]
  BY <1>1, <1>2, <1>5, <1>7 DEF WorkerStage, Busy, BusySteps, Acquired, StageInv, StageTypeOK,
                                ClaimTypeOK
<1> QED
  BY <1>1, <1>2, <1>4, <1>6, <1>8, <1>9, StageMove DEF Acquired, Concluded

LEMMA StageEvaluate ==
  ASSUME StageInv, ClaimTypeOK', NEW w \in Workers, Evaluate(w) \/ EvaluateStrict(w)
  PROVE  StageInv'
<1> DEFINE a == job[w]  m == a[1]
<1>1. /\ pc[w] = "evaluate" /\ mstatus[m] \notin {"TICKETED", "DECIDED", "FAILED"}
      /\ Queued(m) \cup Running(m) = {}
      /\ UNCHANGED <<ticket, taskVars, job>>
  BY DEF Evaluate, EvaluateStrict
<1>2. /\ a \in Task /\ m \in Mandates /\ a \in TasksOf(m) /\ task[a] \in Finished
      /\ MandateStage(m) /\ mstatus[m] = "EVALUATING"
  BY <1>1, TaskFacts DEF StageInv, StageTypeOK, ClaimTypeOK, WorkerStage, Acquired, Concluded
<1>3. UNCHANGED <<task, code, call>>
  BY <1>1 DEF taskVars
<1>4. CASE Evaluate(w)
  <2>1. PICK evidence \in [SucceededCalls(m) -> Admissibility] :
           decision' = [decision EXCEPT ![m] = Decide(StructuralState(evidence, TasksOf(m)))]
    BY <1>4 DEF Evaluate
  <2> DEFINE d == Decide(StructuralState(evidence, TasksOf(m)))
  <2>2. d \in Verdict
    BY DEF Decide, Verdict
  <2>3. d = "PERMIT" => Earned(m)
    <3>1. SUFFICES ASSUME d = "PERMIT" PROVE Earned(m)
      OBVIOUS
    <3>2. StructuralState(evidence, TasksOf(m)) \notin {"STRUCTURALLY_BLOCKED", "STRUCTURALLY_LIMITED"}
      BY <3>1 DEF Decide
    <3>3. /\ {evidence[b] : b \in DOMAIN evidence} # {}
          /\ {b \in TasksOf(m) : b[2] \in Required /\ task[b] = "FAILED"} = {}
      BY <3>2 DEF StructuralState
    <3>4. \E b \in TasksOf(m) : call[b] = "SUCCEEDED"
      BY <3>3 DEF SucceededCalls
    <3>5. \A b \in TasksOf(m) : task[b] \in {"NONE", "SUCCEEDED", "FAILED"}
      BY <1>1, <1>2, TaskFacts DEF Queued, Running, StageInv, StageTypeOK, TaskStatus
    <3> QED
      BY <3>3, <3>4, <3>5 DEF Earned
  <2> HIDE DEF d
  <2>4. mstatus' = [mstatus EXCEPT ![m] = "DECIDED"] /\ pc' = [pc EXCEPT ![w] = "ticket"]
    BY <1>2, <1>4, TransitionTo DEF Evaluate, Goto
  <2>5. StageTypeOK'
    BY <1>1, <1>3, <2>1, <2>2, <2>4 DEF d, StageInv, StageTypeOK, Stages
  <2>6. mstatus'[m] = "DECIDED" /\ decision'[m] = d /\ ticket'[m] = ticket[m]
    BY <1>1, <1>2, <2>1, <2>4 DEF d, StageInv, StageTypeOK
  <2>7. MandateStage(m)'
    <3>1. TasksFit(m)'
      BY <1>1, <1>2, <1>3, <2>6 DEF MandateStage, TasksFit, Acquired, Concluded
    <3>2. OneRunning(m)'
      BY <1>1, <1>2, <1>3 DEF MandateStage, OneRunning
    <3>3. Earned(m)' <=> Earned(m)
      BY <1>1, <1>3 DEF Earned
    <3>4. DecisionFits(m)'
      <4>1. Undecided \notin Verdict /\ ticket[m] = Undecided
        BY <1>2 DEF MandateStage, DecisionFits, Undecided, Verdict
      <4> QED
        BY <1>1, <2>2, <2>3, <2>6, <3>3, <4>1 DEF DecisionFits, Concluded
    <3> QED
      BY <3>1, <3>2, <3>4 DEF MandateStage
  <2>8. /\ WorkerStage(w)' /\ ~Busy(w)' /\ \A v \in Workers \ {w} : pc'[v] = pc[v]
        /\ \A n \in Mandates \ {m} : /\ mstatus'[n] = mstatus[n] /\ decision'[n] = decision[n]
                                     /\ ticket'[n] = ticket[n]
    BY <1>1, <1>2, <1>3, <2>1, <2>4, <2>6
       DEF WorkerStage, Busy, BusySteps, Concluded, StageInv, StageTypeOK, ClaimTypeOK
  <2> QED
    BY <1>1, <1>2, <2>5, <2>6, <2>7, <2>8, StageMove DEF Acquired, Concluded
<1>5. CASE EvaluateStrict(w)
  <2>1. mstatus' = [mstatus EXCEPT ![m] = "FAILED"] /\ pc' = [pc EXCEPT ![w] = "done"]
        /\ decision' = decision
    BY <1>2, <1>5, TransitionTo DEF EvaluateStrict, Goto
  <2>2. StageTypeOK' /\ mstatus'[m] = "FAILED"
    BY <1>1, <1>2, <1>3, <2>1 DEF StageInv, StageTypeOK, Stages
  <2>3. MandateStage(m)'
    <3>1. TasksFit(m)'
      BY <1>1, <1>2, <1>3, <2>2 DEF MandateStage, TasksFit, Acquired, Concluded
    <3>2. OneRunning(m)'
      BY <1>1, <1>2, <1>3 DEF MandateStage, OneRunning
    <3>3. DecisionFits(m)'
      BY <1>1, <1>2, <2>1, <2>2 DEF MandateStage, DecisionFits, Concluded, Undecided
    <3> QED
      BY <3>1, <3>2, <3>3 DEF MandateStage
  <2>4. /\ WorkerStage(w)' /\ ~Busy(w)' /\ \A v \in Workers \ {w} : pc'[v] = pc[v]
        /\ \A n \in Mandates \ {m} : mstatus'[n] = mstatus[n]
    BY <1>2, <2>1 DEF WorkerStage, Busy, BusySteps, StageInv, StageTypeOK, ClaimTypeOK
  <2> QED
    BY <1>1, <1>2, <2>1, <2>2, <2>3, <2>4, StageMove DEF Acquired, Concluded
<1> QED
  BY <1>4, <1>5

LEMMA StageTicket ==
  ASSUME StageInv, ClaimTypeOK', NEW w \in Workers, TicketDecided(w) \/ IssueTicket(w)
  PROVE  StageInv'
<1> DEFINE a == job[w]  m == a[1]
<1>1. pc[w] \in {"evaluate", "ticket"} /\ UNCHANGED <<decision, taskVars, job>>
  BY DEF TicketDecided, IssueTicket
<1>2. /\ a \in Task /\ m \in Mandates /\ a \in TasksOf(m) /\ MandateStage(m)
      /\ UNCHANGED <<task, code, call>>
  BY <1>1, TaskFacts DEF StageInv, ClaimTypeOK, taskVars
<1>3. \E s \in {"done", "finalize", "finalizeStale"} : pc' = [pc EXCEPT ![w] = s]
  BY DEF TicketDecided, IssueTicket, Goto
<1>4. /\ WorkerStage(w)' /\ ~Busy(w)' /\ \A v \in Workers \ {w} : pc'[v] = pc[v]
  BY <1>3 DEF WorkerStage, Busy, BusySteps, StageInv, ClaimTypeOK
<1>5. CASE mstatus' = mstatus /\ ticket' = ticket
  <2>1. UNCHANGED mandateVars
    BY <1>1, <1>5 DEF mandateVars
  <2> QED
    BY <1>1, <1>4, <2>1, StageQuiet
<1>6. CASE ~(mstatus' = mstatus /\ ticket' = ticket)
  <2>1. /\ mstatus[m] = "DECIDED"
        /\ mstatus' = [mstatus EXCEPT ![m] = "TICKETED"]
        /\ ticket' = [ticket EXCEPT ![m] = decision[m]]
    <3>1. CASE TicketDecided(w)
      BY <1>2, <3>1, TransitionTo DEF TicketDecided
    <3>2. CASE IssueTicket(w)
      <4>1. mstatus[m] \in Concluded
        BY <3>2 DEF StageInv, WorkerStage, IssueTicket
      <4>2. ticket[m] = Undecided
        BY <1>6, <3>2 DEF IssueTicket
      <4>3. mstatus[m] = "DECIDED"
        BY <1>2, <4>1, <4>2 DEF MandateStage, DecisionFits, Concluded
      <4> QED
        BY <3>2, <4>2, <4>3 DEF IssueTicket
    <3> QED
      BY <3>1, <3>2
  <2>2. decision[m] \in Verdict /\ decision[m] # Undecided
    BY <1>2, <2>1 DEF MandateStage, DecisionFits, Concluded, StageInv, StageTypeOK
  <2>3. StageTypeOK' /\ mstatus'[m] = "TICKETED" /\ ticket'[m] = decision[m]
    BY <1>1, <1>2, <2>1, <2>2 DEF StageInv, StageTypeOK, Stages
  <2>4. MandateStage(m)'
    <3>1. TasksFit(m)'
      BY <1>1, <1>2, <2>1, <2>3 DEF MandateStage, TasksFit, Acquired, Concluded
    <3>2. OneRunning(m)'
      BY <1>1, <1>2 DEF MandateStage, OneRunning
    <3>3. Earned(m)' <=> Earned(m)
      BY <1>1, <1>2 DEF Earned
    <3>4. DecisionFits(m)'
      BY <1>1, <1>2, <2>1, <2>2, <2>3, <3>3 DEF MandateStage, DecisionFits, Concluded
    <3> QED
      BY <3>1, <3>2, <3>4 DEF MandateStage
  <2>5. \A n \in Mandates \ {m} : mstatus'[n] = mstatus[n] /\ ticket'[n] = ticket[n]
    BY <2>1 DEF StageInv, StageTypeOK
  <2> QED
    BY <1>1, <1>2, <1>4, <2>1, <2>3, <2>4, <2>5, StageMove DEF Acquired, Concluded
<1> QED
  BY <1>5, <1>6

(* Steps that leave the workers where they are: the API, the broker's, the   *)
(* clock's.                                                                  *)
LEMMA StageElsewhere ==
  ASSUME StageInv, ClaimTypeOK', UNCHANGED <<mandateVars, taskVars, pc, job>>
  PROVE  StageInv'
<1>0. UNCHANGED <<mstatus, decision, ticket, task, code, call>>
  BY DEF mandateVars, taskVars
<1>1. StageTypeOK'
  BY <1>0 DEF StageInv, StageTypeOK
<1>2. \A n \in Mandates : MandateStage(n)'
  BY <1>0, StageKept DEF StageInv
<1>3. \A w \in Workers : WorkerStage(w)' /\ (Busy(w)' <=> Busy(w))
  BY <1>0 DEF StageInv, WorkerStage, Busy
<1> QED
  BY <1>1, <1>2, <1>3 DEF StageInv, BusyDiffer

LEMMA StageCreate ==
  ASSUME StageInv, ClaimTypeOK', NEW m \in Mandates, Create(m)
  PROVE  StageInv'
<1>1. PICK k \in 1 .. MaxTasks :
        task' = [a \in Task |-> IF a[1] = m /\ a[2] <= k THEN "QUEUED" ELSE task[a]]
  BY PipelineAssumption DEF Create
<1>2. /\ mstatus[m] = "NONE" /\ mstatus' = [mstatus EXCEPT ![m] = "RECEIVED"]
      /\ UNCHANGED <<decision, ticket, code, call, pc, job>>
  BY DEF Create
<1>3. StageTypeOK'
  BY <1>1, <1>2 DEF StageInv, StageTypeOK, Stages, TaskStatus
<1>4. /\ \A a \in TasksOf(m) : task[a] = "NONE" /\ task'[a] \in {"NONE", "QUEUED"}
      /\ \A a \in Task : a[1] # m => task'[a] = task[a]
      /\ mstatus'[m] = "RECEIVED" /\ \A n \in Mandates : n # m => mstatus'[n] = mstatus[n]
  BY <1>1, <1>2, TaskFacts DEF StageInv, StageTypeOK, MandateStage, TasksFit
<1>5. ASSUME NEW n \in Mandates
      PROVE  MandateStage(n)'
  <2>0. MandateStage(n)
    BY DEF StageInv
  <2>1. CASE n # m
    BY <1>2, <1>4, <2>0, <2>1, TaskFacts, StageKept
  <2>2. CASE n = m
    <3>1. TasksFit(n)'
      BY <1>4, <2>2 DEF TasksFit, Acquired, Concluded
    <3>2. OneRunning(n)'
      BY <1>4, <2>2 DEF OneRunning
    <3>3. DecisionFits(n)'
      BY <1>2, <1>4, <2>0, <2>2 DEF MandateStage, DecisionFits, Undecided, Concluded
    <3> QED
      BY <3>1, <3>2, <3>3 DEF MandateStage
  <2> QED
    BY <2>1, <2>2
<1>6. ASSUME NEW w \in Workers
      PROVE  WorkerStage(w)' /\ (Busy(w)' <=> Busy(w))
  <2>1. WorkerStage(w) /\ (pc[w] # "idle" => job[w] \in Task /\ job[w][1] \in Mandates
                                               /\ job[w] \in TasksOf(job[w][1]))
    BY TaskFacts DEF StageInv, ClaimTypeOK
  <2>2. pc'[w] = pc[w] /\ job'[w] = job[w] /\ (Busy(w)' <=> Busy(w))
    BY <1>2 DEF Busy
  <2>3. Busy(w) \/ pc[w] \in {"advance", "evaluate", "ticket"}
          => task[job[w]] # "NONE" /\ pc[w] # "idle"
    BY <2>1 DEF WorkerStage, Busy, BusySteps, Finished
  <2>4. Busy(w) \/ pc[w] \in {"advance", "evaluate", "ticket"}
          => /\ job[w][1] # m /\ task'[job[w]] = task[job[w]]
             /\ mstatus'[job[w][1]] = mstatus[job[w][1]]
    BY <1>4, <2>1, <2>3
  <2> QED
    BY <2>1, <2>2, <2>4 DEF WorkerStage
<1>7. BusyDiffer'
  BY <1>2, <1>6 DEF StageInv, BusyDiffer
<1> QED
  BY <1>3, <1>5, <1>6, <1>7 DEF StageInv

LEMMA StageNext ==
  ASSUME StageInv, ClaimTypeOK', [Next]_vars
  PROVE  StageInv'
<1>1. ASSUME NEW w \in Workers, WorkerStep(w)
      PROVE  StageInv'
  <2>1. CASE Rests(w)
    BY <2>1, StageRests
  <2>2. CASE Turns(w)
    BY <2>2, StageTurns
  <2>3. CASE Claim(w)
    BY <2>3, StageClaim
  <2>4. CASE Request(w) \/ Receive(w) \/ SettleCall(w) \/ Fail(w)
    BY <2>4, StageCalls
  <2>5. CASE Send(w)
    BY <2>5, StageSend
  <2>6. CASE AdvanceBlocked(w) \/ AdvanceClose(w)
    BY <2>6, StageAdvance
  <2>7. CASE Evaluate(w) \/ EvaluateStrict(w)
    BY <2>7, StageEvaluate
  <2>8. CASE TicketDecided(w) \/ IssueTicket(w)
    BY <2>8, StageTicket
  <2> QED
    BY <1>1, <2>1, <2>2, <2>3, <2>4, <2>5, <2>6, <2>7, <2>8
       DEF WorkerStep, ExecuteOne, Advance, EvaluateAndTicket, CloseRun, Rests, Turns
<1>2. ASSUME NEW w \in Workers, \/ Crash(w) \/ \E a \in Task : Deliver(w, a)
      PROVE  StageInv'
  BY <1>2, StageRests DEF Rests
<1>3. ASSUME UNCHANGED <<mandateVars, taskVars, pc, job>>
      PROVE  StageInv'
  BY <1>3, StageElsewhere
<1>4. ASSUME NEW m \in Mandates, Api(m)
      PROVE  StageInv'
  BY <1>3, <1>4, StageCreate DEF Api, Publish, PublishLost, Republish
<1>5. ASSUME NEW w \in Workers, NEW a \in Task, Broker(w, a)
      PROVE  StageInv'
  BY <1>2, <1>3, <1>5 DEF Broker, DropLocked
<1>6. ASSUME NEW u \in Users, Register(u)
      PROVE  StageInv'
  BY <1>3, <1>6 DEF Register
<1>7. CASE Environment
  BY <1>2, <1>3, <1>7 DEF Environment, LockExpires, Midnight
<1>8. CASE UNCHANGED vars
  BY <1>3, <1>8 DEF vars
<1> QED
  BY <1>1, <1>4, <1>5, <1>6, <1>7, <1>8 DEF Next

LEMMA StageInit ==
  ASSUME Init, ClaimTypeOK PROVE StageInv
<1>1. StageTypeOK
  BY DEF Init, StageTypeOK, Stages, TaskStatus, FailureCode, Undecided
<1>2. ASSUME NEW m \in Mandates
      PROVE  MandateStage(m)
  <2>1. \A a \in TasksOf(m) : task[a] = "NONE"
    BY TaskFacts DEF Init
  <2>2. mstatus[m] = "NONE" /\ decision[m] = Undecided /\ ticket[m] = Undecided
    BY DEF Init
  <2>3. TasksFit(m) /\ OneRunning(m)
    BY <2>1, <2>2 DEF TasksFit, OneRunning, Acquired, Concluded
  <2>4. DecisionFits(m)
    BY <2>2 DEF DecisionFits, Concluded, Undecided
  <2> QED
    BY <2>3, <2>4 DEF MandateStage
<1>3. \A w \in Workers : WorkerStage(w) /\ ~Busy(w)
  BY DEF Init, WorkerStage, Busy, BusySteps
<1> QED
  BY <1>1, <1>2, <1>3 DEF StageInv, BusyDiffer
-----------------------------------------------------------------------------
(* The pipeline implements MandateLifecycle, under the identity on its three  *)
(* variables: a worker's step is one of the life cycle's or none.             *)

LEMMA MoveTo ==
  ASSUME NEW m \in Mandates, NEW s \in {"ACQUIRING", "EVALUATING", "FAILED"},
         mstatus[m] \in {"RECEIVED", "ACQUIRING", "EVALUATING"}, mstatus[m] # s,
         mstatus[m] = "EVALUATING" => s = "FAILED",
         mstatus' = [mstatus EXCEPT ![m] = s], UNCHANGED <<decision, ticket>>
  PROVE  Lifecycle!Next
<1>1. mstatus[m] \in Lifecycle!MandateStatus /\ s \in Lifecycle!MandateStatus \ {"DECIDED", "TICKETED"}
  BY DEF Lifecycle!MandateStatus, Lifecycle!AllowedTransitions
<1>2. Lifecycle!CanReach(mstatus[m], s)
  BY DEF Lifecycle!CanReach, Lifecycle!Rank
<1> QED
  BY <1>1, <1>2 DEF Lifecycle!Next, Lifecycle!Move

LEMMA LifecycleClaim ==
  ASSUME StageInv, NEW w \in Workers, Claim(w)
  PROVE  Lifecycle!Next \/ UNCHANGED mandateVars
<1> DEFINE a == job[w]  m == a[1]
<1>1. /\ a \in Task /\ m \in Mandates /\ a \in TasksOf(m)
      /\ task[a] = "QUEUED" /\ mstatus[m] \in Stages /\ MandateStage(m)
  BY TaskFacts DEF StageInv, StageTypeOK, ClaimTypeOK, Claim, Claimable
<1>2. mstatus[m] \in {"RECEIVED", "ACQUIRING"}
  BY <1>1 DEF MandateStage, TasksFit, Stages, Acquired, Concluded, Finished
<1>3. UNCHANGED <<decision, ticket>>
  BY DEF Claim
<1>4. CASE mstatus[m] = "RECEIVED"
  <2>1. mstatus' = [mstatus EXCEPT ![m] = "ACQUIRING"]
    BY <1>4 DEF Claim, EnterAcquiring
  <2> QED
    BY <1>1, <1>3, <1>4, <2>1, MoveTo
<1>5. CASE mstatus[m] = "ACQUIRING"
  <2>1. mstatus' = mstatus
    BY <1>5 DEF Claim, EnterAcquiring
  <2> QED
    BY <1>3, <2>1 DEF mandateVars
<1> QED
  BY <1>2, <1>4, <1>5

LEMMA LifecycleWork ==
  ASSUME StageInv, NEW w \in Workers,
         Request(w) \/ Send(w) \/ Receive(w) \/ SettleCall(w) \/ Fail(w)
  PROVE  UNCHANGED mandateVars
<1>1. CASE Fail(w)
  <2>1. mstatus[job[w][1]] = "ACQUIRING"
    BY <1>1, BusyFacts DEF Fail, Busy, BusySteps
  <2> QED
    BY <1>1, <2>1 DEF Fail, EnterAcquiring, mandateVars
<1> QED
  BY <1>1 DEF Request, Send, Receive, SettleCall

LEMMA LifecycleAdvance ==
  ASSUME StageInv, NEW w \in Workers, AdvanceBlocked(w) \/ AdvanceClose(w)
  PROVE  Lifecycle!Next
<1> DEFINE a == job[w]  m == a[1]
<1>1. pc[w] = "advance" /\ AllFinished(m) /\ UNCHANGED <<decision, ticket>>
  BY DEF AdvanceBlocked, AdvanceClose, Advancing
<1>2. /\ a \in Task /\ m \in Mandates /\ a \in TasksOf(m) /\ task[a] \in Finished
      /\ MandateStage(m) /\ mstatus[m] \in Stages
  BY <1>1, TaskFacts DEF StageInv, StageTypeOK, ClaimTypeOK, WorkerStage
<1>3. /\ mstatus[m] = "ACQUIRING"
      /\ Transition(m, <<"FAILED">>) \/ Transition(m, <<"EVALUATING">>)
  <2>1. CASE AdvanceBlocked(w)
    <3>1. Blocked(m) /\ Transition(m, <<"FAILED">>)
      BY <2>1 DEF AdvanceBlocked
    <3>2. mstatus[m] \notin Acquired
      BY <1>2, <3>1 DEF Blocked, MandateStage, TasksFit
    <3> QED
      BY <1>1, <1>2, <3>1, <3>2 DEF MandateStage, TasksFit, Stages, AllFinished, Acquired, Concluded,
                                    Finished
  <2>2. CASE AdvanceClose(w)
    BY <2>2 DEF AdvanceClose
  <2> QED
    BY <2>1, <2>2
<1>4. PICK s \in {"FAILED", "EVALUATING"} : mstatus' = [mstatus EXCEPT ![m] = s]
  BY <1>2, <1>3, TransitionTo
<1> QED
  BY <1>1, <1>2, <1>3, <1>4, MoveTo

LEMMA LifecycleEvaluate ==
  ASSUME StageInv, NEW w \in Workers, Evaluate(w) \/ EvaluateStrict(w)
  PROVE  Lifecycle!Next
<1> DEFINE a == job[w]  m == a[1]
<1>1. /\ pc[w] = "evaluate" /\ mstatus[m] \notin {"TICKETED", "DECIDED", "FAILED"}
      /\ UNCHANGED ticket
  BY DEF Evaluate, EvaluateStrict
<1>2. m \in Mandates /\ mstatus[m] = "EVALUATING" /\ decision[m] = Undecided
  <2>1. m \in Mandates /\ mstatus[m] = "EVALUATING"
    BY <1>1, TaskFacts DEF StageInv, ClaimTypeOK, WorkerStage, Acquired, Concluded
  <2> QED
    BY <2>1 DEF StageInv, MandateStage, DecisionFits, Concluded
<1>3. CASE Evaluate(w)
  <2>1. PICK evidence \in [SucceededCalls(m) -> Admissibility] :
           decision' = [decision EXCEPT ![m] = Decide(StructuralState(evidence, TasksOf(m)))]
    BY <1>3 DEF Evaluate
  <2>2. Decide(StructuralState(evidence, TasksOf(m))) \in Verdict
    BY DEF Decide, Verdict
  <2>3. mstatus' = [mstatus EXCEPT ![m] = "DECIDED"]
    BY <1>2, <1>3, TransitionTo DEF Evaluate
  <2>4. mstatus[m] \in Lifecycle!MandateStatus /\ Lifecycle!CanReach(mstatus[m], "DECIDED")
    BY <1>2 DEF Lifecycle!MandateStatus, Lifecycle!AllowedTransitions, Lifecycle!CanReach, Lifecycle!Rank
  <2>5. Lifecycle!Decide(m)
    BY <1>1, <1>2, <2>1, <2>2, <2>3, <2>4 DEF Lifecycle!Decide
  <2> QED
    BY <1>2, <2>5 DEF Lifecycle!Next
<1>4. CASE EvaluateStrict(w)
  <2>1. mstatus' = [mstatus EXCEPT ![m] = "FAILED"] /\ UNCHANGED decision
    BY <1>2, <1>4, TransitionTo DEF EvaluateStrict
  <2> QED
    BY <1>1, <1>2, <2>1, MoveTo
<1> QED
  BY <1>3, <1>4

LEMMA LifecycleTicket ==
  ASSUME StageInv, NEW w \in Workers, TicketDecided(w) \/ IssueTicket(w)
  PROVE  Lifecycle!Next \/ UNCHANGED mandateVars
<1> DEFINE m == job[w][1]
<1>1. pc[w] \in {"evaluate", "ticket"} /\ UNCHANGED decision
  BY DEF TicketDecided, IssueTicket
<1>2. m \in Mandates /\ DecisionFits(m)
  BY <1>1, TaskFacts DEF StageInv, ClaimTypeOK, MandateStage
<1>3. CASE mstatus' = mstatus /\ ticket' = ticket
  BY <1>1, <1>3 DEF mandateVars
<1>4. CASE ~(mstatus' = mstatus /\ ticket' = ticket)
  <2>1. /\ mstatus[m] = "DECIDED"
        /\ mstatus' = [mstatus EXCEPT ![m] = "TICKETED"]
        /\ ticket' = [ticket EXCEPT ![m] = decision[m]]
    <3>1. CASE TicketDecided(w)
      BY <1>2, <3>1, TransitionTo DEF TicketDecided
    <3>2. CASE IssueTicket(w)
      <4>1. mstatus[m] \in Concluded
        BY <3>2 DEF StageInv, WorkerStage, IssueTicket
      <4>2. ticket[m] = Undecided
        BY <1>4, <3>2 DEF IssueTicket
      <4>3. mstatus[m] = "DECIDED"
        BY <1>2, <4>1, <4>2 DEF DecisionFits, Concluded
      <4> QED
        BY <3>2, <4>2, <4>3 DEF IssueTicket
    <3> QED
      BY <3>1, <3>2
  <2>2. ticket[m] = Undecided
    BY <1>2, <2>1 DEF DecisionFits
  <2> QED
    BY <1>1, <1>2, <2>1, <2>2 DEF Lifecycle!Next, Lifecycle!IssueTicket
<1> QED
  BY <1>3, <1>4

LEMMA LifecycleStep ==
  ASSUME StageInv, [Next]_vars
  PROVE  Lifecycle!Next \/ UNCHANGED mandateVars
<1>1. ASSUME NEW w \in Workers, Rests(w) \/ Turns(w)
      PROVE  UNCHANGED mandateVars
  BY <1>1, RestStep, TurnStep DEF rowVars, StageInv
<1>2. ASSUME NEW w \in Workers, WorkerStep(w)
      PROVE  Lifecycle!Next \/ UNCHANGED mandateVars
  BY <1>1, <1>2, LifecycleClaim, LifecycleWork, LifecycleAdvance, LifecycleEvaluate, LifecycleTicket
     DEF WorkerStep, ExecuteOne, Advance, EvaluateAndTicket, CloseRun, Rests, Turns
<1>3. ASSUME NEW m \in Mandates, Create(m)
      PROVE  Lifecycle!Next
  <2>1. Lifecycle!Open(m)
    BY <1>3 DEF Create, Lifecycle!Open
  <2> QED
    BY <2>1 DEF Lifecycle!Next
<1>4. ASSUME NEW w \in Workers, \/ Crash(w) \/ \E a \in Task : Deliver(w, a)
      PROVE  UNCHANGED mandateVars
  BY <1>1, <1>4 DEF Rests
<1>5. ASSUME \/ \E u \in Users : Register(u)
             \/ \E m \in Mandates : Publish(m) \/ PublishLost(m) \/ Republish(m)
             \/ \E w \in Workers, a \in Task : DropLocked(w, a)
             \/ \E a \in Task : LockExpires(a)
             \/ Midnight \/ UNCHANGED vars
      PROVE  UNCHANGED mandateVars
  BY <1>5 DEF Register, Publish, PublishLost, Republish, DropLocked, LockExpires, Midnight, vars
<1> QED
  BY <1>2, <1>3, <1>4, <1>5 DEF Next, Api, Broker, Environment

LEMMA StageAlways == Spec => []StageInv
<1>1. Init => ClaimInv /\ StageInv
  BY ClaimInit, StageInit DEF ClaimInv
<1>2. ClaimInv /\ StageInv /\ [Next]_vars => ClaimInv' /\ StageInv'
  <2> SUFFICES ASSUME ClaimInv, StageInv, [Next]_vars PROVE ClaimInv' /\ StageInv'
    OBVIOUS
  <2>1. ClaimInv'
    BY ClaimNext
  <2> QED
    BY <2>1, StageNext DEF ClaimInv
<1> QED
  BY <1>1, <1>2, PTL DEF Spec

(* ImplementsLifecycle: whatever its workers do, a mandate moves forward      *)
(* through the states of domain/state_machine.py, is decided once, before its *)
(* ticket, and the ticket carries that decision.                              *)
THEOREM LifecycleImplemented == Spec => ImplementsLifecycle
<1>1. Init => Lifecycle!Init
  BY DEF Init, Lifecycle!Init
<1>2. StageInv /\ [Next]_vars => [Lifecycle!Next]_(Lifecycle!vars)
  BY LifecycleStep DEF mandateVars, Lifecycle!vars
<1> QED
  BY <1>1, <1>2, StageAlways, PTL DEF Spec, ImplementsLifecycle, Lifecycle!Spec

(* PermitIsEarned: no interleaving issues a PERMIT for a mandate without a    *)
(* succeeded call or with a required acquisition that failed.                 *)
THEOREM PermitIsEarnedHolds == Spec => []PermitIsEarned
<1>1. StageInv => PermitIsEarned
  <2> SUFFICES ASSUME StageInv, NEW m \in Mandates, ticket[m] = "PERMIT"
               PROVE  Earned(m)
    BY DEF PermitIsEarned, Earned
  <2> QED
    BY DEF StageInv, MandateStage, DecisionFits, Undecided
<1> QED
  BY <1>1, StageAlways, PTL
-----------------------------------------------------------------------------
(* The books.  A worker between its request and the commit of the outcome     *)
(* holds the reservation as the row has it, with room for its call beside     *)
(* every uncertain payment; what the gateway was paid is booked, held as      *)
(* uncertain, or still covered.                                               *)

Called(w) ==
  pc[w] \in {"authorize", "send", "answered", "refused", "settle", "failNet", "fail402"}

(* What the gateway was paid for the acquisitions that are over.             *)
PaidBefore == [a \in Task |-> IF task[a] = "RUNNING" THEN 0 ELSE paid[a]]

BookTypeOK ==
  /\ LedgerTypeOK /\ CreditInv
  /\ seen \in [Workers -> Reservation]
  /\ slice \in [Workers -> Nat] /\ cost \in [Workers -> Nat]
  /\ hold \in [Task -> Nat] /\ paid \in [Task -> Nat]

HoldCovered(m) ==
  UncertainHold(m) > 0 => res[m].status = "RESERVED" /\ UncertainHold(m) <= res[m].reserved

TaskBooks(m) ==
  \A a \in TasksOf(m) :
     /\ task[a] # "FAILED" => hold[a] = 0
     /\ task[a] \in {"NONE", "QUEUED"} => paid[a] = 0
     /\ task[a] = "RUNNING" /\ paid[a] > 0 =>
           res[m].status = "RESERVED" /\ paid[a] + UncertainHold(m) <= res[m].reserved

PaidBooked(m) ==
  SumFunctionOnSet(PaidBefore, TasksOf(m)) <= res[m].actual + UncertainHold(m)

BookClosed(m) ==
  mstatus[m] \in Acquired /\ res[m].status = "RESERVED" => UncertainHold(m) > 0

Spendable(m) ==
  res[m].status = "RESERVED" => 0 .. res[m].reserved \subseteq Amounts \cap Requests

MandateBooks(m) ==
  HoldCovered(m) /\ TaskBooks(m) /\ PaidBooked(m) /\ BookClosed(m) /\ Spendable(m)

WorkerBooks(w) ==
  LET a == job[w]
      m == a[1] IN
  /\ Called(w) => /\ res[m].status = "RESERVED" /\ seen[w] = res[m]
                  /\ slice[w] + UncertainHold(m) <= res[m].reserved
  /\ pc[w] \in {"prepare", "authorize", "send", "failPre", "failBlocked", "fail402"} => paid[a] = 0
  /\ pc[w] \in {"answered", "settle"} => paid[a] = cost[w]
  /\ pc[w] \in {"answered", "refused", "settle", "failNet"} => paid[a] <= slice[w]

BookInv ==
  /\ BookTypeOK
  /\ \A m \in Mandates : MandateBooks(m)
  /\ \A w \in Workers : WorkerBooks(w)
  /\ CreditMatches

LEMMA TasksFinite == \A m \in Mandates : IsFiniteSet(TasksOf(m))
<1> SUFFICES ASSUME NEW m \in Mandates PROVE IsFiniteSet(TasksOf(m))
  OBVIOUS
<1>0. 1 \in Int /\ MaxTasks \in Int
  BY PipelineAssumption
<1>1. IsFiniteSet(1 .. MaxTasks) /\ IsFiniteSet({m})
  BY <1>0, FS_Interval, FS_Singleton
<1>2. IsFiniteSet({m} \X (1 .. MaxTasks))
  BY <1>1, FS_Product
<1> QED
  BY <1>2 DEF TasksOf

LEMMA BookSums ==
  ASSUME BookTypeOK, NEW m \in Mandates
  PROVE  /\ UncertainHold(m) \in Nat
         /\ \A a \in TasksOf(m) : /\ hold[a] \in Nat /\ hold[a] <= UncertainHold(m)
                                  /\ paid[a] \in Nat /\ PaidBefore[a] \in Nat
         /\ SumFunctionOnSet(paid, TasksOf(m)) \in Nat
         /\ SumFunctionOnSet(PaidBefore, TasksOf(m)) \in Nat
<1>1. \A a \in TasksOf(m) : hold[a] \in Nat /\ paid[a] \in Nat /\ PaidBefore[a] \in Nat
  BY TaskFacts DEF BookTypeOK, PaidBefore
<1>2. IsFiniteSet(TasksOf(m))
  BY TasksFinite
<1> QED
  BY <1>1, <1>2, SumBounds DEF UncertainHold

LEMMA HoldKept ==
  ASSUME NEW m \in Mandates, \A a \in TasksOf(m) : hold'[a] = hold[a]
  PROVE  UncertainHold(m)' = UncertainHold(m)
<1>1. SumFunctionOnSet(hold, TasksOf(m)) = SumFunctionOnSet(hold', TasksOf(m))
  BY TasksFinite, SumOfSame
<1> QED
  BY <1>1 DEF UncertainHold

LEMMA PaidKept ==
  ASSUME NEW m \in Mandates,
         \A a \in TasksOf(m) : \/ task'[a] = task[a] /\ paid'[a] = paid[a]
                               \/ task[a] # "RUNNING" /\ paid[a] = 0 /\ paid'[a] = 0
                               \/ task[a] = "RUNNING" /\ task'[a] = "RUNNING"
  PROVE  SumFunctionOnSet(PaidBefore, TasksOf(m))' = SumFunctionOnSet(PaidBefore, TasksOf(m))
<1> DEFINE f == PaidBefore  g == PaidBefore'
<1>1. \A a \in TasksOf(m) : f[a] = g[a]
  BY TaskFacts DEF PaidBefore
<1> HIDE DEF f, g
<1>2. SumFunctionOnSet(f, TasksOf(m)) = SumFunctionOnSet(g, TasksOf(m))
  BY <1>1, TasksFinite, SumOfSame
<1> QED
  BY <1>2 DEF f, g, TasksOf

(* Nothing of a mandate changes but, perhaps, that it leaves ACQUIRING.      *)
LEMMA BooksKept ==
  ASSUME NEW m \in Mandates, MandateBooks(m), res'[m] = res[m],
         \A a \in TasksOf(m) : task'[a] = task[a] /\ hold'[a] = hold[a] /\ paid'[a] = paid[a],
         mstatus'[m] \in Acquired => mstatus[m] \in Acquired
  PROVE  MandateBooks(m)' /\ UncertainHold(m)' = UncertainHold(m)
<1>1. UncertainHold(m)' = UncertainHold(m)
  BY HoldKept
<1>2. SumFunctionOnSet(PaidBefore, TasksOf(m))' = SumFunctionOnSet(PaidBefore, TasksOf(m))
  BY PaidKept
<1>3. HoldCovered(m)' /\ TaskBooks(m)'
  BY <1>1 DEF MandateBooks, HoldCovered, TaskBooks
<1>4. PaidBooked(m)'
  BY <1>1, <1>2 DEF MandateBooks, PaidBooked
<1>5. BookClosed(m)' /\ Spendable(m)'
  BY <1>1 DEF MandateBooks, BookClosed, Spendable
<1> QED
  BY <1>1, <1>3, <1>4, <1>5 DEF MandateBooks

(* Where a worker is and what its session holds stays as it is.              *)
Stays(w) ==
  /\ pc'[w] = pc[w] /\ job'[w] = job[w]
  /\ seen'[w] = seen[w] /\ slice'[w] = slice[w] /\ cost'[w] = cost[w]

LEMMA WorkerKept ==
  ASSUME NEW w \in Workers, WorkerBooks(w), Stays(w),
         Busy(w) => \A n \in Mandates : n = job[w][1] =>
                       /\ res'[n] = res[n] /\ UncertainHold(n)' = UncertainHold(n)
                       /\ paid'[job[w]] = paid[job[w]],
         Busy(w) => job[w][1] \in Mandates
  PROVE  WorkerBooks(w)'
<1>1. CASE ~Busy(w)
  BY <1>1 DEF WorkerBooks, Called, Busy, BusySteps, Stays
<1>2. CASE Busy(w)
  <2> DEFINE n == job[w][1]
  <2>1. /\ n \in Mandates /\ res'[n] = res[n] /\ paid'[job[w]] = paid[job[w]]
        /\ SumFunctionOnSet(hold', TasksOf(n)) = SumFunctionOnSet(hold, TasksOf(n))
    BY <1>2 DEF UncertainHold
  <2> QED
    BY <2>1 DEF WorkerBooks, Called, Stays, UncertainHold
<1> QED
  BY <1>1, <1>2

(* A step on one mandate, of a worker or of the API.                         *)
LEMMA BooksStep ==
  ASSUME StageInv, BookInv, BookTypeOK', CreditMatches', NEW m \in Mandates,
         \A n \in Mandates \ {m} : res'[n] = res[n] /\ mstatus'[n] = mstatus[n],
         \A b \in Task : b[1] # m => task'[b] = task[b] /\ hold'[b] = hold[b] /\ paid'[b] = paid[b],
         MandateBooks(m)',
         \A v \in Workers : \/ WorkerBooks(v)'
                            \/ Stays(v) /\ (Busy(v) => job[v][1] # m)
  PROVE  BookInv'
<1>1. ASSUME NEW n \in Mandates \ {m}
      PROVE  MandateBooks(n)' /\ UncertainHold(n)' = UncertainHold(n)
  <2>1. MandateBooks(n)
    BY DEF BookInv
  <2>2. \A a \in TasksOf(n) : task'[a] = task[a] /\ hold'[a] = hold[a] /\ paid'[a] = paid[a]
    BY TaskFacts
  <2> QED
    BY <2>1, <2>2, BooksKept
<1>2. ASSUME NEW v \in Workers, Stays(v), Busy(v) => job[v][1] # m
      PROVE  WorkerBooks(v)'
  <2>1. WorkerBooks(v)
    BY DEF BookInv
  <2>2. Busy(v) => job[v] \in Task /\ job[v][1] \in Mandates \ {m}
    BY <1>2, BusyFacts
  <2> QED
    BY <1>1, <1>2, <2>1, <2>2, WorkerKept
<1> QED
  BY <1>1, <1>2 DEF BookInv

(* Two busy workers never work for one mandate.                              *)
LEMMA BusyApart ==
  ASSUME StageInv, NEW v \in Workers, Busy(v), NEW m \in Mandates,
         \/ Running(m) = {}
         \/ \E w \in Workers : w # v /\ Busy(w) /\ job[w][1] = m
  PROVE  job[v][1] # m
<1> SUFFICES ASSUME job[v][1] = m PROVE FALSE
  OBVIOUS
<1>1. job[v] \in TasksOf(m) /\ task[job[v]] = "RUNNING"
  BY BusyFacts
<1>2. PICK w \in Workers : w # v /\ Busy(w) /\ job[w][1] = m
  BY <1>1 DEF Running
<1>3. job[w] \in TasksOf(m) /\ task[job[w]] = "RUNNING"
  BY <1>2, BusyFacts
<1>4. OneRunning(m) /\ job[v] # job[w]
  BY <1>2 DEF StageInv, MandateStage, BusyDiffer
<1> QED
  BY <1>1, <1>3, <1>4 DEF OneRunning

(* A step that touches neither the money nor the tasks.                      *)
LEMMA BooksQuiet ==
  ASSUME StageInv, BookInv, BookTypeOK', UNCHANGED <<res, credit, task, hold, paid>>,
         \A n \in Mandates : mstatus'[n] \in Acquired => mstatus[n] \in Acquired,
         \A v \in Workers : WorkerBooks(v)' \/ Stays(v)
  PROVE  BookInv'
<1>1. ASSUME NEW n \in Mandates
      PROVE  MandateBooks(n)' /\ UncertainHold(n)' = UncertainHold(n)
  BY BooksKept DEF BookInv
<1>2. ASSUME NEW v \in Workers, Stays(v)
      PROVE  WorkerBooks(v)'
  BY <1>1, <1>2, BusyFacts, WorkerKept DEF BookInv
<1>3. CreditMatches'
  BY DEF BookInv, CreditMatches, Held
<1> QED
  BY <1>1, <1>2, <1>3 DEF BookInv
-----------------------------------------------------------------------------
(* What the steps of the pipeline do to the two ledgers is what the ledgers   *)
(* allow.                                                                    *)
LEMMA OriginFacts ==
  ASSUME NEW m \in Mandates
  PROVE  /\ Owner(m) \in Origins /\ MaxOf(m) \in Maxima /\ MaxAtClose(m) \in Maxima
         /\ MaxOf(m) \in Nat
  BY PipelineAssumption DEF Owner, MaxOf, MaxAtClose

LEMMA CreateMoves ==
  ASSUME NEW m \in Mandates, Create(m)
  PROVE  LedgerNext /\ [CreditNext]_creditVars
<1>1. PICK x \in Budgets : Reserve(m, Owner(m), x, MaxOf(m)) /\ UserReserve(m, x)
  BY DEF Create
<1>2. x \in Amounts /\ x \in Requests
  <2>1. x \in Nat /\ 0 .. x \subseteq Amounts \cap Requests
    BY PipelineAssumption
  <2> QED
    BY <2>1
<1>3. LedgerNext
  BY <1>1, <1>2, OriginFacts DEF LedgerNext
<1>4. [CreditNext]_creditVars
  BY <1>1, <1>2 DEF UserReserve, CreditNext
<1> QED
  BY <1>3, <1>4

(* The reservation a settling worker holds is the row, and its cost a part of *)
(* what it may spend.                                                        *)
LEMMA SettleFacts ==
  ASSUME StageInv, BookInv, NEW w \in Workers, SettleCall(w)
  PROVE  LET m == job[w][1] IN
         /\ Busy(w) /\ m \in Mandates /\ seen[w] = res[m] /\ res[m] \in Reservation
         /\ res[m].status = "RESERVED" /\ UncertainHold(m) \in Nat
         /\ cost[w] \in Nat /\ paid[job[w]] = cost[w]
         /\ cost[w] + UncertainHold(m) <= res[m].reserved
         /\ cost[w] \in Amounts /\ cost[w] \in Requests
<1> DEFINE m == job[w][1]
<1>1. pc[w] = "settle" /\ Busy(w)
  BY DEF SettleCall, Busy, BusySteps
<1>2. m \in Mandates
  BY <1>1, BusyFacts
<1>3. /\ res[m].status = "RESERVED" /\ seen[w] = res[m] /\ paid[job[w]] = cost[w]
      /\ slice[w] + UncertainHold(m) <= res[m].reserved /\ cost[w] <= slice[w]
  BY <1>1 DEF BookInv, WorkerBooks, Called
<1>4. /\ res[m] \in Reservation /\ res[m].reserved \in Nat
      /\ slice[w] \in Nat /\ cost[w] \in Nat /\ UncertainHold(m) \in Nat
  BY <1>2, BookSums, ReservationTyped DEF BookInv, BookTypeOK, LedgerTypeOK, Reservation
<1>5. cost[w] + UncertainHold(m) <= res[m].reserved /\ cost[w] \in 0 .. res[m].reserved
  BY <1>3, <1>4
<1>6. 0 .. res[m].reserved \subseteq Amounts \cap Requests
  BY <1>2, <1>3 DEF BookInv, MandateBooks, Spendable
<1> QED
  BY <1>1, <1>2, <1>3, <1>4, <1>5, <1>6

LEMMA SettleMoves ==
  ASSUME StageInv, BookInv, NEW w \in Workers, SettleCall(w)
  PROVE  LedgerNext /\ [CreditNext]_creditVars
<1> DEFINE m == job[w][1]
           finalize == Queued(m) = {} /\ UncertainHold(m) = 0
<1>1. /\ m \in Mandates /\ seen[w] = res[m]
      /\ cost[w] \in Amounts /\ cost[w] \in Requests /\ finalize \in BOOLEAN
  BY SettleFacts
<1>2. /\ Settle(m, cost[w], MaxOf(m), Owner(m), finalize)
      /\ UserSettle(m, cost[w], finalize)
  BY <1>1 DEF SettleCall, Settle
<1> HIDE DEF m, finalize
<1>3. LedgerNext
  BY <1>1, <1>2, OriginFacts DEF LedgerNext
<1>4. [CreditNext]_creditVars
  BY <1>1, <1>2 DEF UserSettle, CreditNext
<1> QED
  BY <1>3, <1>4

(* How advance closes the books, by what is left.                            *)
LEMMA ClosingFacts ==
  ASSUME StageInv, BookInv, NEW w \in Workers, AdvanceBlocked(w) \/ AdvanceClose(w)
  PROVE  LET m == job[w][1] IN
         /\ m \in Mandates /\ Running(m) = {}
         /\ \/ UNCHANGED moneyVars /\ (AdvanceClose(w) => ~Returnable(m))
            \/ /\ Returnable(m) /\ UserRelease(m)
               /\ \/ Release(m, Owner(m))
                  \/ 0 \in Amounts /\ Settle(m, 0, MaxAtClose(m), Owner(m), TRUE)
<1> DEFINE m == job[w][1]
<1>1. m \in Mandates /\ Running(m) = {}
  BY TaskFacts DEF AdvanceBlocked, AdvanceClose, Advancing, AllFinished, StageInv, ClaimTypeOK
<1>2. Returnable(m) => 0 \in Amounts
  <2> SUFFICES ASSUME Returnable(m) PROVE 0 \in Amounts
    OBVIOUS
  <2>1. res[m].reserved \in Nat /\ 0 .. res[m].reserved \subseteq Amounts
    BY <1>1, ReservationTyped
       DEF Returnable, BookInv, BookTypeOK, LedgerTypeOK, MandateBooks, Spendable, Reservation
  <2> QED
    BY <2>1
<1>3. CASE AdvanceBlocked(w)
  BY <1>1, <1>3 DEF AdvanceBlocked, AdvanceClose
<1>4. CASE AdvanceClose(w)
  <2>1. \/ ~Returnable(m) /\ UNCHANGED moneyVars
        \/ /\ Returnable(m) /\ UserRelease(m)
           /\ \/ Settle(m, 0, MaxAtClose(m), Owner(m), TRUE)
              \/ Release(m, Owner(m))
    BY <1>4 DEF AdvanceClose
  <2> QED
    BY <1>1, <1>2, <2>1
<1> QED
  BY <1>3, <1>4

LEMMA ClosingMoves ==
  ASSUME StageInv, BookInv, NEW w \in Workers, AdvanceBlocked(w) \/ AdvanceClose(w)
  PROVE  [LedgerNext]_ledgerVars /\ [CreditNext]_creditVars
<1> DEFINE m == job[w][1]
<1>1. /\ m \in Mandates
      /\ \/ UNCHANGED moneyVars
         \/ /\ UserRelease(m)
            /\ \/ Release(m, Owner(m))
               \/ 0 \in Amounts /\ Settle(m, 0, MaxAtClose(m), Owner(m), TRUE)
  BY ClosingFacts
<1> HIDE DEF m
<1>2. CASE UNCHANGED moneyVars
  BY <1>2 DEF moneyVars
<1>3. CASE UserRelease(m) /\ Release(m, Owner(m))
  BY <1>1, <1>3, OriginFacts DEF LedgerNext, CreditNext, UserRelease
<1>4. CASE UserRelease(m) /\ 0 \in Amounts /\ Settle(m, 0, MaxAtClose(m), Owner(m), TRUE)
  <2>1. LedgerNext
    BY <1>1, <1>4, OriginFacts DEF LedgerNext
  <2> QED
    BY <1>1, <1>4, <2>1 DEF CreditNext, UserRelease
<1> QED
  BY <1>1, <1>2, <1>3, <1>4

(* The steps that move no money.                                             *)
Moneyless(w) ==
  \/ Rests(w) \/ Turns(w) \/ Claim(w) \/ Request(w) \/ Receive(w) \/ Send(w) \/ Fail(w)
  \/ Evaluate(w) \/ EvaluateStrict(w) \/ TicketDecided(w) \/ IssueTicket(w)

LEMMA MoneylessStep ==
  ASSUME ClaimTypeOK, NEW w \in Workers, Moneyless(w) PROVE UNCHANGED moneyVars
<1>1. CASE Rests(w) \/ Turns(w)
  BY <1>1, RestStep, TurnStep DEF rowVars
<1> QED
  BY <1>1 DEF Moneyless, Claim, Request, Receive, Send, Fail, Evaluate, EvaluateStrict,
              TicketDecided, IssueTicket

(* Every step of the pipeline.                                               *)
LEMMA LedgerMoves ==
  ASSUME StageInv, BookInv, [Next]_vars
  PROVE  [LedgerNext]_ledgerVars /\ [CreditNext]_creditVars
<1>1. ASSUME UNCHANGED moneyVars
      PROVE  [LedgerNext]_ledgerVars /\ [CreditNext]_creditVars
  BY <1>1 DEF moneyVars
<1>2. ASSUME NEW w \in Workers, WorkerStep(w) \/ Crash(w) \/ \E a \in Task : Broker(w, a)
      PROVE  [LedgerNext]_ledgerVars /\ [CreditNext]_creditVars
  <2>1. \/ Moneyless(w) \/ SettleCall(w) \/ AdvanceBlocked(w) \/ AdvanceClose(w)
        \/ \E a \in Task : DropLocked(w, a)
    BY <1>2 DEF WorkerStep, ExecuteOne, Advance, EvaluateAndTicket, CloseRun, Broker,
                Moneyless, Rests, Turns
  <2>2. ClaimTypeOK
    BY DEF StageInv
  <2> QED
    BY <1>1, <2>1, <2>2, MoneylessStep, SettleMoves, ClosingMoves DEF DropLocked
<1>3. ASSUME NEW m \in Mandates, Api(m)
      PROVE  [LedgerNext]_ledgerVars /\ [CreditNext]_creditVars
  BY <1>1, <1>3, CreateMoves DEF Api, Publish, PublishLost, Republish
<1>4. ASSUME NEW u \in Users, Register(u)
      PROVE  [LedgerNext]_ledgerVars /\ [CreditNext]_creditVars
  BY <1>4 DEF Register, CreditNext
<1>5. CASE Midnight
  BY <1>5 DEF Midnight, LedgerNext
<1>6. CASE (\E a \in Task : LockExpires(a)) \/ UNCHANGED vars
  BY <1>1, <1>6 DEF LockExpires, vars
<1> QED
  BY <1>2, <1>3, <1>4, <1>5, <1>6 DEF Next, Environment

LEMMA LedgersTyped ==
  ASSUME StageInv, BookInv, [Next]_vars
  PROVE  LedgerTypeOK' /\ CreditInv'
  BY LedgerMoves, LedgerTypeStep, CreditStep DEF BookInv, BookTypeOK
-----------------------------------------------------------------------------
(* Each step keeps the books.                                                *)
Bystanders(w) == \A v \in Workers \ {w} : Stays(v)

LEMMA BooksRests ==
  ASSUME StageInv, BookInv, NEW w \in Workers, Rests(w), LedgerTypeOK', CreditInv'
  PROVE  BookInv'
<1>1. /\ UNCHANGED rowVars /\ pc'[w] \in {"idle", "locked", "done"}
      /\ \A v \in Workers \ {w} : pc'[v] = pc[v] /\ job'[v] = job[v]
  BY RestStep DEF StageInv
<1>2. UNCHANGED <<res, credit, mstatus, task, hold, paid>>
  BY <1>1 DEF rowVars, moneyVars, ledgerVars, creditVars, mandateVars, taskVars, gatewayVars
<1>3. UNCHANGED localVars \/ ForgetLocals(w)
  BY DEF Rests, Deliver, Finish, Crash, AdvanceStops, AdvanceNext, AdvanceLost, AdvanceRaises,
         EvaluateStops, Finalize
<1>4. /\ seen' \in [Workers -> Reservation] /\ slice' \in [Workers -> Nat] /\ cost' \in [Workers -> Nat]
      /\ \A v \in Workers \ {w} : seen'[v] = seen[v] /\ slice'[v] = slice[v] /\ cost'[v] = cost[v]
  <2>1. NoReservation \in Reservation
    BY LedgerAssumption DEF NoReservation, Reservation, ReservationStatus, Days
  <2> QED
    BY <1>3, <2>1 DEF ForgetLocals, localVars, BookInv, BookTypeOK
<1>5. BookTypeOK'
  BY <1>2, <1>4 DEF BookInv, BookTypeOK
<1>6. WorkerBooks(w)' /\ \A v \in Workers \ {w} : Stays(v)
  BY <1>1, <1>4 DEF WorkerBooks, Called, Stays
<1> QED
  BY <1>2, <1>5, <1>6, BooksQuiet

(* A worker that goes on, on what its session holds.                         *)
LEMMA BooksTurns ==
  ASSUME StageInv, BookInv, NEW w \in Workers, Turns(w), LedgerTypeOK', CreditInv'
  PROVE  BookInv'
<1>1. /\ UNCHANGED <<rowVars, job, localVars>>
      /\ \A v \in Workers \ {w} : pc'[v] = pc[v]
      /\ \/ pc'[w] \in {"done", "advance", "evaluate"}
         \/ pc[w] \in {"prepare", "authorize"} /\ pc'[w] \in {"failPre", "failBlocked"}
         \/ pc[w] = "authorize" /\ pc'[w] = "send"
         \/ pc[w] = "settle" /\ pc'[w] = "failNet"
  BY TurnStep DEF StageInv
<1>2. UNCHANGED <<res, credit, mstatus, task, hold, paid, job, seen, slice, cost>>
  BY <1>1 DEF rowVars, moneyVars, ledgerVars, creditVars, mandateVars, taskVars, gatewayVars, localVars
<1>3. BookTypeOK'
  BY <1>2 DEF BookInv, BookTypeOK
<1>4. WorkerBooks(w)'
  <2>1. WorkerBooks(w)
    BY DEF BookInv
  <2>2. pc[w] = "settle" => cost[w] <= slice[w]
    BY <2>1 DEF WorkerBooks
  <2>3. UncertainHold(job[w][1])' = UncertainHold(job[w][1])
    BY <1>2 DEF UncertainHold
  <2> QED
    BY <1>1, <1>2, <2>1, <2>2, <2>3 DEF WorkerBooks, Called
<1>5. \A v \in Workers \ {w} : Stays(v)
  BY <1>1, <1>2 DEF Stays
<1> QED
  BY <1>2, <1>3, <1>4, <1>5, BooksQuiet

(* The mandate's only running task, before its worker has anything.          *)
LEMMA BooksClaim ==
  ASSUME StageInv, BookInv, NEW w \in Workers, Claim(w), LedgerTypeOK', CreditInv'
  PROVE  BookInv'
<1>0. PICK a \in Task, m \in Mandates : a = job[w] /\ m = a[1] /\ a \in TasksOf(m)
  BY TaskFacts DEF StageInv, ClaimTypeOK, Claim
<1>1. /\ pc[w] = "locked" /\ task[a] = "QUEUED" /\ Running(m) = {} /\ mstatus[m] \in Stages
      /\ MandateStage(m) /\ MandateBooks(m)
  BY <1>0 DEF StageInv, StageTypeOK, Claim, Claimable, BookInv
<1>2. /\ task' = [task EXCEPT ![a] = "RUNNING"] /\ pc' = [pc EXCEPT ![w] = "prepare"]
      /\ UNCHANGED <<res, credit, hold, paid, job, seen, slice, cost>>
      /\ mstatus' = [mstatus EXCEPT ![m] = "ACQUIRING"] \/ mstatus' = mstatus
  BY <1>0 DEF Claim, Goto, EnterAcquiring, moneyVars, ledgerVars, creditVars, gatewayVars, localVars
<1>3. /\ task \in [Task -> TaskStatus] /\ mstatus \in [Mandates -> Stages] /\ pc \in [Workers -> Step]
  BY DEF StageInv, StageTypeOK, ClaimTypeOK
<1>4. BookTypeOK' /\ CreditMatches'
  BY <1>2 DEF BookInv, BookTypeOK, CreditMatches, Held
<1>5. paid[a] = 0 /\ hold[a] = 0
  BY <1>0, <1>1 DEF MandateBooks, TaskBooks
<1>6. /\ \A b \in TasksOf(m) : b # a => task'[b] = task[b]
      /\ task'[a] = "RUNNING" /\ mstatus'[m] \notin Acquired
      /\ \A n \in Mandates \ {m} : mstatus'[n] = mstatus[n]
      /\ \A b \in Task : b[1] # m => task'[b] = task[b]
      /\ pc'[w] = "prepare" /\ \A v \in Workers \ {w} : Stays(v)
  <2>1. mstatus[m] \notin Acquired
    BY <1>0, <1>1 DEF MandateStage, TasksFit, Acquired, Concluded, Finished
  <2> QED
    BY <1>0, <1>1, <1>2, <1>3, <2>1, TaskFacts DEF Stays, Acquired, Concluded
<1>7. UncertainHold(m)' = UncertainHold(m)
  BY <1>2 DEF UncertainHold
<1>8. MandateBooks(m)'
  <2>1. SumFunctionOnSet(PaidBefore, TasksOf(m))' = SumFunctionOnSet(PaidBefore, TasksOf(m))
    BY <1>1, <1>2, <1>5, <1>6, <1>7, PaidKept
  <2>2. HoldCovered(m)' /\ PaidBooked(m)' /\ Spendable(m)'
    BY <1>1, <1>2, <1>7, <2>1 DEF MandateBooks, HoldCovered, PaidBooked, Spendable
  <2>3. TaskBooks(m)'
    BY <1>1, <1>2, <1>5, <1>6, <1>7 DEF MandateBooks, TaskBooks
  <2>4. BookClosed(m)'
    BY <1>6, <1>7 DEF BookClosed
  <2> QED
    BY <2>2, <2>3, <2>4 DEF MandateBooks
<1>9. WorkerBooks(w)'
  BY <1>0, <1>2, <1>5, <1>6 DEF WorkerBooks, Called
<1>10. \A v \in Workers \ {w} : Busy(v) => job[v][1] # m
  BY <1>1, BusyApart
<1> QED
  BY <1>1, <1>2, <1>4, <1>6, <1>8, <1>9, <1>10, BooksStep

(* A worker on the call of its task: what it writes is told from where it is. *)
LEMMA BusyAlone ==
  ASSUME StageInv, NEW w \in Workers, Busy(w)
  PROVE  /\ \E a \in Task, m \in Mandates : a = job[w] /\ m = a[1] /\ a \in TasksOf(m)
         /\ \A v \in Workers \ {w} : Busy(v) => job[v][1] # job[w][1]
<1>1. \E a \in Task, m \in Mandates : a = job[w] /\ m = a[1] /\ a \in TasksOf(m)
  BY BusyFacts
<1> QED
  BY <1>1, BusyApart

LEMMA BooksRequest ==
  ASSUME StageInv, BookInv, NEW w \in Workers, Request(w), LedgerTypeOK', CreditInv'
  PROVE  BookInv'
<1>0. Busy(w) /\ pc[w] = "prepare"
  BY DEF Request, Busy, BusySteps
<1>1. PICK a \in Task, m \in Mandates : a = job[w] /\ m = a[1] /\ a \in TasksOf(m)
  BY <1>0, BusyAlone
<1>2. PICK b \in 1 .. CallBudget(m) : slice' = [slice EXCEPT ![w] = b]
  BY <1>1 DEF Request
<1>3. /\ UNCHANGED <<res, credit, mstatus, task, hold, paid, job, cost>>
      /\ seen' = [seen EXCEPT ![w] = res[m]] /\ res[m].status = "RESERVED"
      /\ \E step \in {"authorize", "send"} : pc' = [pc EXCEPT ![w] = step]
  BY <1>1 DEF Request, PrepareOK, VerifyReservation, Verified, Goto, moneyVars, ledgerVars,
              creditVars, mandateVars, gatewayVars
<1>4. /\ seen \in [Workers -> Reservation] /\ slice \in [Workers -> Nat] /\ pc \in [Workers -> Step]
      /\ res[m] \in Reservation /\ res[m].reserved \in Nat /\ UncertainHold(m) \in Nat
  BY BookSums, ReservationTyped
     DEF BookInv, BookTypeOK, LedgerTypeOK, StageInv, ClaimTypeOK, Reservation
<1>5. b \in Nat /\ b + UncertainHold(m) <= res[m].reserved
  <2>1. PerActionCap[OriginOf[m]] \in Nat
    BY PipelineAssumption
  <2>2. CallBudget(m) \in Int /\ CallBudget(m) <= res[m].reserved - UncertainHold(m)
    BY <1>4, <2>1 DEF CallBudget, Smaller
  <2> QED
    BY <1>4, <2>2
<1>6. BookTypeOK'
  BY <1>2, <1>3, <1>4, <1>5 DEF BookInv, BookTypeOK
<1>7. /\ \A v \in Workers \ {w} : Stays(v)
      /\ pc'[w] \in {"authorize", "send"} /\ seen'[w] = res[m] /\ slice'[w] = b
  BY <1>2, <1>3, <1>4 DEF Stays
<1>8. WorkerBooks(w)'
  <2>1. paid[a] = 0
    BY <1>0, <1>1 DEF BookInv, WorkerBooks
  <2>2. UncertainHold(m)' = UncertainHold(m)
    BY <1>3 DEF UncertainHold
  <2> QED
    BY <1>1, <1>3, <1>5, <1>7, <2>1, <2>2 DEF WorkerBooks, Called
<1> QED
  BY <1>3, <1>6, <1>7, <1>8, BooksQuiet

LEMMA BooksReceive ==
  ASSUME StageInv, BookInv, NEW w \in Workers, Receive(w), LedgerTypeOK', CreditInv'
  PROVE  BookInv'
<1>1. /\ UNCHANGED <<res, credit, mstatus, task, hold, paid, job, seen, slice, cost>>
      /\ \/ pc[w] = "answered" /\ pc' = [pc EXCEPT ![w] = "settle"]
         \/ pc[w] = "refused" /\ pc' = [pc EXCEPT ![w] = "failNet"]
  BY DEF Receive, Goto, moneyVars, ledgerVars, creditVars, mandateVars, gatewayVars, localVars
<1>2. BookTypeOK' /\ pc \in [Workers -> Step]
  BY <1>1 DEF BookInv, BookTypeOK, StageInv, ClaimTypeOK
<1>3. WorkerBooks(w)' /\ \A v \in Workers \ {w} : Stays(v)
  <2>1. UncertainHold(job[w][1])' = UncertainHold(job[w][1])
    BY <1>1 DEF UncertainHold
  <2> QED
    BY <1>1, <1>2, <2>1 DEF BookInv, WorkerBooks, Called, Stays
<1> QED
  BY <1>1, <1>2, <1>3, BooksQuiet

(* What the gateway takes is within the slice.                               *)
LEMMA BooksSend ==
  ASSUME StageInv, BookInv, NEW w \in Workers, Send(w), LedgerTypeOK', CreditInv'
  PROVE  BookInv'
<1>0. Busy(w) /\ pc[w] = "send"
  BY DEF Send, Busy, BusySteps
<1>1. PICK a \in Task, m \in Mandates : a = job[w] /\ m = a[1] /\ a \in TasksOf(m)
  BY <1>0, BusyAlone
<1>2. PICK x \in 0 .. slice[w], answer \in {"answered", "refused", "failNet", "fail402"} :
        /\ answer = "fail402" => x = 0
        /\ paid' = [paid EXCEPT ![a] = @ + x]
        /\ cost' = [cost EXCEPT ![w] = IF answer = "answered" THEN x ELSE 0]
        /\ pc' = [pc EXCEPT ![w] = answer]
  BY <1>1 DEF Send, Goto
<1>3. UNCHANGED <<res, credit, mstatus, task, hold, job, seen, slice>>
  BY DEF Send, moneyVars, ledgerVars, creditVars, mandateVars, taskVars
<1>4. /\ pc \in [Workers -> Step] /\ paid \in [Task -> Nat] /\ cost \in [Workers -> Nat]
      /\ slice[w] \in Nat /\ UncertainHold(m) \in Nat /\ res[m].reserved \in Nat
      /\ MandateBooks(m) /\ task[a] = "RUNNING"
  BY <1>0, <1>1, BookSums, BusyFacts, ReservationTyped
     DEF BookInv, BookTypeOK, LedgerTypeOK, StageInv, ClaimTypeOK, Reservation
<1>5. /\ paid[a] = 0 /\ res[m].status = "RESERVED"
      /\ slice[w] + UncertainHold(m) <= res[m].reserved /\ seen[w] = res[m]
  BY <1>0, <1>1 DEF BookInv, WorkerBooks, Called
<1>6. /\ x \in Nat /\ x <= slice[w] /\ x + UncertainHold(m) <= res[m].reserved
      /\ paid'[a] = x /\ \A b \in Task \ {a} : paid'[b] = paid[b]
      /\ pc'[w] = answer /\ (answer = "answered" => cost'[w] = x)
      /\ \A v \in Workers \ {w} : Stays(v)
  BY <1>2, <1>3, <1>4, <1>5 DEF Stays
<1>7. BookTypeOK' /\ CreditMatches'
  BY <1>2, <1>3, <1>4, <1>6 DEF BookInv, BookTypeOK, CreditMatches, Held
<1>8. UncertainHold(m)' = UncertainHold(m)
  BY <1>3 DEF UncertainHold
<1>9. MandateBooks(m)'
  <2>1. SumFunctionOnSet(PaidBefore, TasksOf(m))' = SumFunctionOnSet(PaidBefore, TasksOf(m))
    BY <1>3, <1>4, <1>6, TaskFacts, PaidKept
  <2>2. HoldCovered(m)' /\ PaidBooked(m)' /\ Spendable(m)' /\ BookClosed(m)'
    BY <1>3, <1>4, <1>8, <2>1 DEF MandateBooks, HoldCovered, PaidBooked, Spendable, BookClosed
  <2>3. TaskBooks(m)'
    BY <1>3, <1>4, <1>5, <1>6, <1>8, TaskFacts DEF MandateBooks, TaskBooks
  <2> QED
    BY <2>2, <2>3 DEF MandateBooks
<1>10. WorkerBooks(w)'
  BY <1>1, <1>2, <1>3, <1>5, <1>6, <1>8 DEF WorkerBooks, Called
<1>11. /\ \A b \in Task : b[1] # m => paid'[b] = paid[b]
       /\ \A v \in Workers \ {w} : Busy(v) => job[v][1] # m
  BY <1>0, <1>1, <1>6, BusyAlone
<1> QED
  BY <1>3, <1>6, <1>7, <1>9, <1>10, <1>11, BooksStep

(* The rows of the task that is over, and what the gateway took for it.      *)
LEMMA PaidAtEnd ==
  ASSUME BookTypeOK, NEW m \in Mandates, NEW a \in TasksOf(m), task[a] = "RUNNING",
         task'[a] # "RUNNING", UNCHANGED paid,
         \A b \in TasksOf(m) : b # a => task'[b] = task[b]
  PROVE  SumFunctionOnSet(PaidBefore, TasksOf(m))'
            = SumFunctionOnSet(PaidBefore, TasksOf(m)) + paid[a]
<1> DEFINE f == PaidBefore  g == PaidBefore'  S == TasksOf(m)
<1>1. /\ \A b \in S : f[b] \in Nat /\ g[b] \in Nat
      /\ \A b \in S : b # a => g[b] = f[b]
      /\ f[a] = 0 /\ g[a] = paid[a]
  BY TaskFacts DEF PaidBefore, BookTypeOK
<1>2. IsFiniteSet(S) /\ a \in S
  BY TasksFinite
<1>3. SumFunctionOnSet(f, S) \in Nat
  BY BookSums
<1>4. SumFunctionOnSet(PaidBefore, TasksOf(m))' = SumFunctionOnSet(g, S)
  BY DEF TasksOf
<1> HIDE DEF f, g, S
<1>5. \A b \in S : f[b] \in Int /\ g[b] \in Int
  BY <1>1
<1>6. SumFunctionOnSet(g, S) = SumFunctionOnSet(f, S) - f[a] + g[a]
  BY <1>1, <1>2, <1>5, SumAfterChange
<1>7. SumFunctionOnSet(g, S) = SumFunctionOnSet(f, S) + paid[a]
  BY <1>1, <1>2, <1>3, <1>6
<1> QED
  BY <1>4, <1>7 DEF f, S

LEMMA BooksSettle ==
  ASSUME StageInv, BookInv, NEW w \in Workers, SettleCall(w), LedgerTypeOK', CreditInv'
  PROVE  BookInv'
<1>0. Busy(w) /\ pc[w] = "settle"
  BY DEF SettleCall, Busy, BusySteps
<1>1. PICK a \in Task, m \in Mandates : a = job[w] /\ m = a[1] /\ a \in TasksOf(m)
  BY <1>0, BusyAlone
<1>2. PICK finalize \in BOOLEAN :
        /\ finalize => UncertainHold(m) = 0
        /\ UserSettle(m, cost[w], finalize)
        /\ SettleSeen(m, seen[w], cost[w], MaxOf(m), Owner(m), finalize)
  BY <1>1 DEF SettleCall
<1>3. /\ task' = [task EXCEPT ![a] = "SUCCEEDED"] /\ pc' = [pc EXCEPT ![w] = "advance"]
      /\ ForgetLocals(w) /\ UNCHANGED <<mstatus, hold, paid, job>>
  BY <1>1 DEF SettleCall, Goto, mandateVars, gatewayVars
<1>4. /\ seen[w] = res[m] /\ res[m] \in Reservation /\ res[m].status = "RESERVED"
      /\ UncertainHold(m) \in Nat /\ cost[w] \in Nat /\ paid[a] = cost[w]
      /\ cost[w] + UncertainHold(m) <= res[m].reserved
      /\ res[m].reserved \in Nat /\ res[m].actual \in Nat
  BY <1>1, SettleFacts, ReservationTyped DEF Reservation
<1>5. /\ pc \in [Workers -> Step] /\ task \in [Task -> TaskStatus] /\ res \in [Mandates -> Reservation]
      /\ task[a] = "RUNNING" /\ mstatus[m] = "ACQUIRING" /\ MandateBooks(m) /\ OneRunning(m)
  BY <1>0, <1>1, BusyFacts
     DEF StageInv, StageTypeOK, ClaimTypeOK, BookInv, BookTypeOK, LedgerTypeOK, MandateStage
<1>6. /\ res'[m].actual = res[m].actual + cost[w]
      /\ \/ finalize /\ res'[m].status = "SETTLED"
         \/ ~finalize /\ res'[m].status = "RESERVED" /\ res'[m].reserved = res[m].reserved - cost[w]
      /\ \A n \in Mandates \ {m} : res'[n] = res[n]
  BY <1>2, <1>4, <1>5 DEF SettleSeen
<1>7. /\ \A v \in Workers \ {w} : Stays(v)
      /\ pc'[w] = "advance" /\ task'[a] = "SUCCEEDED" /\ \A b \in Task \ {a} : task'[b] = task[b]
      /\ seen' \in [Workers -> Reservation] /\ slice' \in [Workers -> Nat] /\ cost' \in [Workers -> Nat]
  <2>1. NoReservation \in Reservation
    BY LedgerAssumption DEF NoReservation, Reservation, ReservationStatus, Days
  <2> QED
    BY <1>3, <1>5, <2>1 DEF ForgetLocals, Stays, BookInv, BookTypeOK
<1>8. BookTypeOK'
  BY <1>3, <1>7 DEF BookInv, BookTypeOK
<1>9. CreditMatches'
  <2> SUFFICES ASSUME NEW n \in UserMandates
               PROVE  /\ credit'[n].settled = res'[n].actual
                      /\ Held(n)' = IF res'[n].status = "RESERVED" THEN res'[n].reserved ELSE 0
    BY DEF CreditMatches
  <2>1. /\ n \in Mandates /\ credit \in [UserMandates -> [reserved: Nat, settled: Nat, released: Nat]]
        /\ credit[n].settled = res[n].actual
        /\ Held(n) = IF res[n].status = "RESERVED" THEN res[n].reserved ELSE 0
    BY PipelineAssumption DEF BookInv, BookTypeOK, CreditInv, CreditTypeOK, CreditMatches
  <2>2. /\ credit[n].reserved \in Nat /\ credit[n].settled \in Nat /\ credit[n].released \in Nat
    BY <2>1
  <2>3. CASE n # m
    <3>1. credit'[n] = credit[n]
      BY <1>2, <2>1, <2>3 DEF UserSettle, CreditSettle, creditVars
    <3> QED
      BY <1>6, <2>1, <2>3, <3>1 DEF Held
  <2>4. CASE n = m
    <3>1. credit' = [credit EXCEPT ![n] =
                       [reserved |-> @.reserved,
                        settled  |-> @.settled + cost[w],
                        released |-> @.released + (IF finalize THEN Held(n) - cost[w] ELSE 0)]]
      BY <1>2, <2>4 DEF UserSettle, CreditSettle
    <3>2. /\ credit'[n].settled = credit[n].settled + cost[w]
          /\ credit'[n].reserved = credit[n].reserved
          /\ credit'[n].released = credit[n].released + (IF finalize THEN Held(n) - cost[w] ELSE 0)
      BY <2>1, <3>1
    <3>3. Held(n)' = credit'[n].reserved - credit'[n].settled - credit'[n].released
      BY DEF Held
    <3>4. Held(n) = credit[n].reserved - credit[n].settled - credit[n].released
      BY DEF Held
    <3>5. Held(n) = res[n].reserved
      BY <1>4, <2>1, <2>4
    <3> QED
      BY <1>4, <1>6, <2>1, <2>2, <2>4, <3>2, <3>3, <3>4, <3>5
  <2> QED
    BY <2>3, <2>4
<1>10. UncertainHold(m)' = UncertainHold(m)
  BY <1>3 DEF UncertainHold
<1>11. MandateBooks(m)'
  <2>1. SumFunctionOnSet(PaidBefore, TasksOf(m))'
          = SumFunctionOnSet(PaidBefore, TasksOf(m)) + cost[w]
    BY <1>1, <1>3, <1>4, <1>5, <1>7, PaidAtEnd, TaskFacts DEF BookInv
  <2>2. SumFunctionOnSet(PaidBefore, TasksOf(m)) \in Nat
    BY BookSums DEF BookInv
  <2>3. PaidBooked(m)'
    BY <1>4, <1>5, <1>6, <1>10, <2>1, <2>2 DEF MandateBooks, PaidBooked
  <2>4. HoldCovered(m)' /\ BookClosed(m)'
    BY <1>2, <1>3, <1>4, <1>5, <1>6, <1>10 DEF HoldCovered, BookClosed, Acquired, Concluded
  <2>5. TaskBooks(m)'
    <3>1. \A b \in TasksOf(m) : /\ task'[b] # "RUNNING" /\ hold'[b] = hold[b] /\ paid'[b] = paid[b]
                                /\ b # a => task'[b] = task[b]
      BY <1>1, <1>3, <1>5, <1>7, TaskFacts DEF OneRunning
    <3>2. hold[a] = 0
      BY <1>1, <1>5 DEF MandateBooks, TaskBooks
    <3> QED
      BY <1>1, <1>5, <1>7, <3>1, <3>2 DEF MandateBooks, TaskBooks
  <2>6. Spendable(m)'
    <3>1. 0 .. res[m].reserved \subseteq Amounts \cap Requests
      BY <1>4, <1>5 DEF MandateBooks, Spendable
    <3> QED
      BY <1>4, <1>6, <3>1 DEF Spendable
  <2> QED
    BY <2>3, <2>4, <2>5, <2>6 DEF MandateBooks
<1>12. WorkerBooks(w)'
  BY <1>7 DEF WorkerBooks, Called
<1>13. /\ \A b \in Task : b[1] # m => task'[b] = task[b] /\ hold'[b] = hold[b] /\ paid'[b] = paid[b]
       /\ \A v \in Workers \ {w} : Busy(v) => job[v][1] # m
       /\ \A n \in Mandates \ {m} : res'[n] = res[n] /\ mstatus'[n] = mstatus[n]
  BY <1>0, <1>1, <1>3, <1>6, <1>7, BusyAlone
<1> QED
  BY <1>7, <1>8, <1>9, <1>11, <1>12, <1>13, BooksStep

(* The except branch: what may have been paid becomes a hold.                *)
LEMMA BooksFail ==
  ASSUME StageInv, BookInv, NEW w \in Workers, Fail(w), LedgerTypeOK', CreditInv'
  PROVE  BookInv'
<1>0. Busy(w) /\ pc[w] \in {"failPre", "failBlocked", "failNet", "fail402"}
  BY DEF Fail, Busy, BusySteps
<1>1. PICK a \in Task, m \in Mandates : a = job[w] /\ m = a[1] /\ a \in TasksOf(m)
  BY <1>0, BusyAlone
<1>2. /\ pc \in [Workers -> Step] /\ task \in [Task -> TaskStatus] /\ hold \in [Task -> Nat]
      /\ task[a] = "RUNNING" /\ mstatus[m] = "ACQUIRING" /\ MandateBooks(m) /\ OneRunning(m)
      /\ slice[w] \in Nat /\ paid[a] \in Nat /\ UncertainHold(m) \in Nat
      /\ res[m].reserved \in Nat /\ res[m].actual \in Nat
  BY <1>0, <1>1, BusyFacts, BookSums, ReservationTyped
     DEF StageInv, StageTypeOK, ClaimTypeOK, BookInv, BookTypeOK, LedgerTypeOK, MandateStage, Reservation
<1>3. /\ task' = [task EXCEPT ![a] = "FAILED"] /\ pc' = [pc EXCEPT ![w] = "advance"]
      /\ hold' = [hold EXCEPT ![a] = IF pc[w] = "failNet" THEN @ + slice[w] ELSE @]
      /\ ForgetLocals(w) /\ UNCHANGED <<res, credit, mstatus, paid, job>>
  BY <1>1, <1>2 DEF Fail, Goto, EnterAcquiring, moneyVars, ledgerVars, creditVars, gatewayVars
<1>4. /\ \A v \in Workers \ {w} : Stays(v)
      /\ pc'[w] = "advance" /\ task'[a] = "FAILED" /\ \A b \in Task \ {a} : task'[b] = task[b]
      /\ seen' \in [Workers -> Reservation] /\ slice' \in [Workers -> Nat] /\ cost' \in [Workers -> Nat]
  <2>1. NoReservation \in Reservation
    BY LedgerAssumption DEF NoReservation, Reservation, ReservationStatus, Days
  <2> QED
    BY <1>2, <1>3, <2>1 DEF ForgetLocals, Stays, BookInv, BookTypeOK
<1>5. BookTypeOK' /\ CreditMatches'
  <2>1. hold' \in [Task -> Nat]
    BY <1>2, <1>3
  <2>2. BookTypeOK'
    BY <1>3, <1>4, <2>1 DEF BookInv, BookTypeOK
  <2>3. CreditMatches'
    BY <1>3 DEF BookInv, CreditMatches, Held
  <2> QED
    BY <2>2, <2>3
<1>6. PICK h \in Nat :
        /\ \A b \in Task : hold'[b] = IF b = a THEN h ELSE hold[b]
        /\ UncertainHold(m)' = UncertainHold(m) + h
        /\ paid[a] <= h
        /\ h > 0 => res[m].status = "RESERVED" /\ UncertainHold(m) + h <= res[m].reserved
  <2> DEFINE h == IF pc[w] = "failNet" THEN slice[w] ELSE 0
  <2>1. hold[a] = 0
    BY <1>1, <1>2 DEF MandateBooks, TaskBooks
  <2>2. h \in Nat /\ \A b \in Task : hold'[b] = IF b = a THEN h ELSE hold[b]
    BY <1>2, <1>3, <2>1
  <2>3. /\ paid[a] <= h
        /\ h > 0 => res[m].status = "RESERVED" /\ UncertainHold(m) + h <= res[m].reserved
    BY <1>0, <1>1, <1>2 DEF BookInv, WorkerBooks, Called
  <2> HIDE DEF h
  <2>4. /\ \A b \in TasksOf(m) : hold[b] \in Int /\ hold'[b] \in Int
        /\ \A b \in TasksOf(m) : b # a => hold'[b] = hold[b]
        /\ hold'[a] = h
    BY <1>1, <1>2, <2>2, TaskFacts
  <2>5. SumFunctionOnSet(hold', TasksOf(m)) = SumFunctionOnSet(hold, TasksOf(m)) - hold[a] + hold'[a]
    BY <1>1, <2>4, TasksFinite, SumAfterChange
  <2>6. UncertainHold(m)' = UncertainHold(m) + h
    BY <1>2, <2>1, <2>2, <2>4, <2>5 DEF UncertainHold
  <2> QED
    BY <2>2, <2>3, <2>6
<1>7. MandateBooks(m)'
  <2>1. SumFunctionOnSet(PaidBefore, TasksOf(m))'
          = SumFunctionOnSet(PaidBefore, TasksOf(m)) + paid[a]
    BY <1>1, <1>2, <1>3, <1>4, PaidAtEnd, TaskFacts DEF BookInv
  <2>2. SumFunctionOnSet(PaidBefore, TasksOf(m)) \in Nat
    BY BookSums DEF BookInv
  <2>3. PaidBooked(m)'
    BY <1>2, <1>3, <1>6, <2>1, <2>2 DEF MandateBooks, PaidBooked
  <2>4. HoldCovered(m)' /\ BookClosed(m)' /\ Spendable(m)'
    <3>1. HoldCovered(m)'
      BY <1>2, <1>3, <1>6 DEF MandateBooks, HoldCovered
    <3>2. BookClosed(m)' /\ Spendable(m)'
      BY <1>2, <1>3 DEF MandateBooks, BookClosed, Spendable, Acquired, Concluded
    <3> QED
      BY <3>1, <3>2
  <2>5. TaskBooks(m)'
    <3>1. \A b \in TasksOf(m) : /\ task'[b] # "RUNNING" /\ paid'[b] = paid[b]
                                /\ b # a => task'[b] = task[b] /\ hold'[b] = hold[b]
      BY <1>1, <1>2, <1>3, <1>4, <1>6, TaskFacts DEF OneRunning
    <3> QED
      BY <1>1, <1>2, <1>4, <3>1 DEF MandateBooks, TaskBooks
  <2> QED
    BY <2>3, <2>4, <2>5 DEF MandateBooks
<1>8. WorkerBooks(w)'
  BY <1>4 DEF WorkerBooks, Called
<1>9. /\ \A b \in Task : b[1] # m => task'[b] = task[b] /\ hold'[b] = hold[b] /\ paid'[b] = paid[b]
      /\ \A v \in Workers \ {w} : Busy(v) => job[v][1] # m
      /\ \A n \in Mandates \ {m} : res'[n] = res[n] /\ mstatus'[n] = mstatus[n]
  BY <1>0, <1>1, <1>3, <1>4, <1>6, BusyAlone
<1> QED
  BY <1>4, <1>5, <1>7, <1>8, <1>9, BooksStep

(* The acquisition phase ends: what is left goes back unless a payment is     *)
(* uncertain.                                                                *)
LEMMA ClosingRows ==
  ASSUME StageInv, BookInv, NEW w \in Workers, AdvanceBlocked(w) \/ AdvanceClose(w),
         NEW m \in Mandates, m = job[w][1]
  PROVE  /\ \A n \in Mandates \ {m} : res'[n] = res[n]
         /\ res'[m].actual = res[m].actual
         /\ \/ res'[m] = res[m] /\ UNCHANGED credit
               /\ (res[m].status = "RESERVED" /\ AdvanceClose(w) => UncertainHold(m) # 0)
            \/ /\ UncertainHold(m) = 0
               /\ res[m].status = "RESERVED" /\ res'[m].status \in {"SETTLED", "RELEASED"}
               /\ UserRelease(m)
<1>1. /\ res \in [Mandates -> Reservation] /\ res[m] \in Reservation
      /\ res[m].actual \in Nat /\ res[m].reserved \in Nat
  BY ReservationTyped DEF BookInv, BookTypeOK, LedgerTypeOK, Reservation
<1>2. \/ UNCHANGED moneyVars /\ (AdvanceClose(w) => ~Returnable(m))
      \/ /\ Returnable(m) /\ UserRelease(m)
         /\ \/ Release(m, Owner(m))
            \/ 0 \in Amounts /\ Settle(m, 0, MaxAtClose(m), Owner(m), TRUE)
  BY ClosingFacts
<1>3. CASE UNCHANGED moneyVars /\ (AdvanceClose(w) => ~Returnable(m))
  BY <1>3 DEF moneyVars, ledgerVars, creditVars, Returnable
<1>4. CASE Returnable(m) /\ UserRelease(m) /\ Release(m, Owner(m))
  BY <1>1, <1>4 DEF Release, Returnable
<1>5. CASE Returnable(m) /\ UserRelease(m) /\ Settle(m, 0, MaxAtClose(m), Owner(m), TRUE)
  BY <1>1, <1>5 DEF Settle, SettleSeen, Returnable
<1> QED
  BY <1>2, <1>3, <1>4, <1>5

LEMMA BooksClosing ==
  ASSUME StageInv, BookInv, NEW w \in Workers, AdvanceBlocked(w) \/ AdvanceClose(w),
         LedgerTypeOK', CreditInv'
  PROVE  BookInv'
<1>1. PICK m \in Mandates : m = job[w][1] /\ Running(m) = {}
  BY ClosingFacts
<1>2. /\ UNCHANGED <<task, hold, paid, job, seen, slice, cost>>
      /\ \/ AdvanceClose(w) /\ pc' = [pc EXCEPT ![w] = "evaluate"]
         \/ /\ pc' = [pc EXCEPT ![w] = "done"]
            /\ mstatus' = [mstatus EXCEPT ![m] = "FAILED"]
      /\ \A n \in Mandates \ {m} : mstatus'[n] = mstatus[n]
  BY <1>1, TransitionTo
     DEF AdvanceBlocked, AdvanceClose, Goto, taskVars, gatewayVars, localVars, StageInv, StageTypeOK
<1>3. /\ \A n \in Mandates \ {m} : res'[n] = res[n]
      /\ res'[m].actual = res[m].actual
      /\ \/ res'[m] = res[m] /\ UNCHANGED credit
            /\ (res[m].status = "RESERVED" /\ AdvanceClose(w) => UncertainHold(m) # 0)
         \/ /\ UncertainHold(m) = 0
            /\ res[m].status = "RESERVED" /\ res'[m].status \in {"SETTLED", "RELEASED"}
            /\ UserRelease(m)
  BY <1>1, ClosingRows
<1>4. /\ pc \in [Workers -> Step] /\ mstatus \in [Mandates -> Stages]
      /\ MandateBooks(m) /\ UncertainHold(m) \in Nat /\ BookTypeOK
  BY BookSums DEF StageInv, StageTypeOK, ClaimTypeOK, BookInv
<1>5. BookTypeOK'
  BY <1>2, <1>4 DEF BookTypeOK
<1>6. \A v \in Workers \ {w} : Stays(v) /\ (Busy(v) => job[v][1] # m)
  BY <1>1, <1>2, <1>4, BusyApart DEF Stays
<1>7. WorkerBooks(w)'
  BY <1>2, <1>4 DEF WorkerBooks, Called
<1>8. CreditMatches'
  <2> SUFFICES ASSUME NEW n \in UserMandates
               PROVE  /\ credit'[n].settled = res'[n].actual
                      /\ Held(n)' = IF res'[n].status = "RESERVED" THEN res'[n].reserved ELSE 0
    BY DEF CreditMatches
  <2>1. /\ n \in Mandates /\ credit \in [UserMandates -> [reserved: Nat, settled: Nat, released: Nat]]
        /\ credit[n].settled = res[n].actual
        /\ Held(n) = IF res[n].status = "RESERVED" THEN res[n].reserved ELSE 0
    BY <1>4, PipelineAssumption DEF BookInv, BookTypeOK, CreditInv, CreditTypeOK, CreditMatches
  <2>2. CASE res'[n] = res[n] /\ credit'[n] = credit[n]
    BY <2>1, <2>2 DEF Held
  <2>3. CASE n # m
    <3>1. credit'[n] = credit[n]
      BY <1>3, <2>1, <2>3 DEF UserRelease, CreditRelease, creditVars
    <3> QED
      BY <1>3, <2>1, <2>2, <2>3, <3>1
  <2>4. CASE n = m /\ UserRelease(m) /\ res'[m].status \in {"SETTLED", "RELEASED"}
    <3>1. credit' = [credit EXCEPT ![n].released = @ + Held(n)]
      BY <2>4 DEF UserRelease, CreditRelease
    <3>2. /\ credit'[n].settled = credit[n].settled /\ credit'[n].reserved = credit[n].reserved
          /\ credit'[n].released = credit[n].released + Held(n)
      BY <2>1, <3>1
    <3>3. credit[n].reserved \in Nat /\ credit[n].settled \in Nat /\ credit[n].released \in Nat
      BY <2>1
    <3>4. Held(n)' = 0
      BY <3>2, <3>3 DEF Held
    <3> QED
      BY <1>3, <2>1, <2>4, <3>2, <3>4
  <2> QED
    BY <1>3, <2>1, <2>2, <2>3, <2>4
<1>9. UncertainHold(m)' = UncertainHold(m)
  BY <1>2 DEF UncertainHold
<1>10. MandateBooks(m)'
  <2>1. SumFunctionOnSet(PaidBefore, TasksOf(m))' = SumFunctionOnSet(PaidBefore, TasksOf(m))
    BY <1>2, PaidKept
  <2>2. PaidBooked(m)' /\ HoldCovered(m)'
    BY <1>3, <1>4, <1>9, <2>1 DEF MandateBooks, PaidBooked, HoldCovered
  <2>3. TaskBooks(m)'
    BY <1>1, <1>2, <1>4 DEF MandateBooks, TaskBooks, Running
  <2>4. BookClosed(m)'
    BY <1>2, <1>3, <1>4, <1>9 DEF BookClosed, Acquired, Concluded
  <2>5. Spendable(m)'
    BY <1>3, <1>4 DEF MandateBooks, Spendable
  <2> QED
    BY <2>2, <2>3, <2>4, <2>5 DEF MandateBooks
<1>11. \A b \in Task : task'[b] = task[b] /\ hold'[b] = hold[b] /\ paid'[b] = paid[b]
  BY <1>2
<1> QED
  BY <1>2, <1>3, <1>5, <1>6, <1>7, <1>8, <1>10, <1>11, BooksStep

(* The decision and the ticket, of a mandate whose books are closed.         *)
LEMMA BooksDecide ==
  ASSUME StageInv, BookInv, NEW w \in Workers,
         Evaluate(w) \/ EvaluateStrict(w) \/ TicketDecided(w) \/ IssueTicket(w),
         LedgerTypeOK', CreditInv'
  PROVE  BookInv'
<1> DEFINE m == job[w][1]
<1>1. /\ UNCHANGED <<res, credit, task, hold, paid, job, seen, slice, cost>>
      /\ \E step \in {"ticket", "done", "finalize", "finalizeStale"} : pc' = [pc EXCEPT ![w] = step]
  BY DEF Evaluate, EvaluateStrict, TicketDecided, IssueTicket, Goto, moneyVars, ledgerVars,
         creditVars, taskVars, gatewayVars, localVars
<1>2. pc \in [Workers -> Step] /\ mstatus \in [Mandates -> Stages] /\ WorkerStage(w)
  BY DEF StageInv, StageTypeOK, ClaimTypeOK
<1>3. BookTypeOK'
  BY <1>1 DEF BookInv, BookTypeOK
<1>4. WorkerBooks(w)' /\ \A v \in Workers \ {w} : Stays(v)
  BY <1>1, <1>2 DEF WorkerBooks, Called, Stays
<1>5. \/ mstatus' = mstatus
      \/ mstatus' = [mstatus EXCEPT ![m] = "FAILED"]
      \/ mstatus[m] \in Acquired /\ \E s \in Stages : mstatus' = [mstatus EXCEPT ![m] = s]
  <2>1. m \in Mandates
    BY TaskFacts DEF Evaluate, EvaluateStrict, TicketDecided, IssueTicket, StageInv, ClaimTypeOK
  <2>2. CASE Evaluate(w) \/ EvaluateStrict(w)
    BY <1>2, <2>1, <2>2, TransitionTo
       DEF Evaluate, EvaluateStrict, WorkerStage, Acquired, Concluded, Stages
  <2>3. CASE TicketDecided(w) \/ IssueTicket(w)
    BY <1>2, <2>1, <2>3, TransitionTo
       DEF TicketDecided, IssueTicket, WorkerStage, Acquired, Concluded, Stages
  <2> QED
    BY <2>2, <2>3
<1>6. \A n \in Mandates : mstatus'[n] \in Acquired => mstatus[n] \in Acquired
  BY <1>2, <1>5 DEF Acquired, Concluded
<1> QED
  BY <1>1, <1>3, <1>4, <1>6, BooksQuiet

(* A mandate is created with its budget reserved on both ledgers.            *)
LEMMA BooksCreate ==
  ASSUME StageInv, BookInv, NEW m \in Mandates, Create(m), LedgerTypeOK', CreditInv'
  PROVE  BookInv'
<1>1. PICK x \in Budgets : Reserve(m, Owner(m), x, MaxOf(m)) /\ UserReserve(m, x)
  BY DEF Create
<1>2. PICK k \in 1 .. MaxTasks :
        task' = [a \in Task |-> IF a[1] = m /\ a[2] <= k THEN "QUEUED" ELSE task[a]]
  BY PipelineAssumption DEF Create
<1>3. /\ mstatus[m] = "NONE" /\ mstatus' = [mstatus EXCEPT ![m] = "RECEIVED"]
      /\ UNCHANGED <<hold, paid, pc, job, seen, slice, cost>>
  BY DEF Create, localVars, gatewayVars
<1>4. /\ res \in [Mandates -> Reservation] /\ mstatus \in [Mandates -> Stages]
      /\ task \in [Task -> TaskStatus] /\ MandateStage(m) /\ MandateBooks(m)
  BY DEF StageInv, StageTypeOK, BookInv, BookTypeOK, LedgerTypeOK
<1>5. /\ \A a \in TasksOf(m) : task[a] = "NONE" /\ task'[a] \in {"NONE", "QUEUED"}
      /\ \A a \in Task : a[1] # m => task'[a] = task[a]
      /\ \A n \in Mandates \ {m} : mstatus'[n] = mstatus[n]
      /\ mstatus'[m] \notin Acquired
  BY <1>2, <1>3, <1>4, TaskFacts DEF MandateStage, TasksFit, Acquired, Concluded
<1>6. /\ res'[m].status = "RESERVED" /\ res'[m].reserved = x /\ res'[m].actual = 0
      /\ \A n \in Mandates \ {m} : res'[n] = res[n]
  BY <1>1, <1>4 DEF Reserve
<1>7. x \in Nat /\ 0 .. x \subseteq Amounts \cap Requests
  BY PipelineAssumption
<1>8. BookTypeOK'
  BY <1>3 DEF BookInv, BookTypeOK
<1>9. CreditMatches'
  <2> SUFFICES ASSUME NEW n \in UserMandates
               PROVE  /\ credit'[n].settled = res'[n].actual
                      /\ Held(n)' = IF res'[n].status = "RESERVED" THEN res'[n].reserved ELSE 0
    BY DEF CreditMatches
  <2>1. /\ n \in Mandates /\ credit \in [UserMandates -> [reserved: Nat, settled: Nat, released: Nat]]
        /\ credit[n].settled = res[n].actual
        /\ Held(n) = IF res[n].status = "RESERVED" THEN res[n].reserved ELSE 0
        /\ credit[n].settled + credit[n].released <= credit[n].reserved
    BY PipelineAssumption
       DEF BookInv, BookTypeOK, CreditInv, CreditTypeOK, CreditMatches, MandateCovered
  <2>2. CASE n # m
    <3>1. credit'[n] = credit[n]
      BY <1>1, <2>1, <2>2 DEF UserReserve, CreditReserve, creditVars
    <3> QED
      BY <1>6, <2>1, <2>2, <3>1 DEF Held
  <2>3. CASE n = m
    <3>1. credit[n].reserved = 0 /\ credit' = [credit EXCEPT ![n].reserved = x]
      BY <1>1, <2>3 DEF UserReserve, CreditReserve
    <3>2. /\ credit[n].settled \in Nat /\ credit[n].released \in Nat
          /\ credit'[n].settled = credit[n].settled /\ credit'[n].released = credit[n].released
          /\ credit'[n].reserved = x
      BY <2>1, <3>1
    <3>3. credit[n].settled = 0 /\ credit[n].released = 0
      BY <2>1, <3>1, <3>2
    <3> QED
      BY <1>6, <1>7, <2>3, <3>2, <3>3 DEF Held
  <2> QED
    BY <2>2, <2>3
<1>10. /\ UncertainHold(m)' = 0
       /\ SumFunctionOnSet(PaidBefore, TasksOf(m))' = 0
  <2>1. \A a \in TasksOf(m) : hold[a] = 0 /\ paid[a] = 0
    BY <1>4, <1>5 DEF MandateBooks, TaskBooks
  <2>2. IsFiniteSet(TasksOf(m))
    BY TasksFinite
  <2>3. UncertainHold(m)' = 0
    BY <1>3, <2>1, <2>2, SumOfZeros DEF UncertainHold
  <2> DEFINE g == PaidBefore'
  <2>4. \A a \in TasksOf(m) : g[a] = 0
    BY <1>3, <2>1, TaskFacts DEF PaidBefore
  <2> HIDE DEF g
  <2>5. SumFunctionOnSet(g, TasksOf(m)) = 0
    BY <2>2, <2>4, SumOfZeros
  <2> QED
    BY <2>3, <2>5 DEF g, TasksOf
<1>11. MandateBooks(m)'
  <2>1. HoldCovered(m)' /\ PaidBooked(m)' /\ BookClosed(m)'
    BY <1>5, <1>6, <1>10 DEF HoldCovered, PaidBooked, BookClosed
  <2>2. TaskBooks(m)'
    BY <1>3, <1>4, <1>5 DEF MandateBooks, TaskBooks
  <2>3. Spendable(m)'
    BY <1>6, <1>7 DEF Spendable
  <2> QED
    BY <2>1, <2>2, <2>3 DEF MandateBooks
<1>12. \A v \in Workers : Stays(v) /\ (Busy(v) => job[v][1] # m)
  BY <1>3, BusyFacts DEF Stays
<1> QED
  BY <1>3, <1>5, <1>6, <1>8, <1>9, <1>11, <1>12, BooksStep

LEMMA BooksNext ==
  ASSUME StageInv, BookInv, [Next]_vars
  PROVE  BookInv'
<1>0. LedgerTypeOK' /\ CreditInv'
  BY LedgersTyped
<1>1. ASSUME NEW w \in Workers, WorkerStep(w) \/ Crash(w) \/ \E a \in Task : Deliver(w, a)
      PROVE  BookInv'
  <2>1. CASE Rests(w) \/ Turns(w)
    BY <1>0, <2>1, BooksRests, BooksTurns
  <2>2. CASE Claim(w) \/ Request(w) \/ Receive(w) \/ Send(w)
    BY <1>0, <2>2, BooksClaim, BooksRequest, BooksReceive, BooksSend
  <2>3. CASE SettleCall(w) \/ Fail(w)
    BY <1>0, <2>3, BooksSettle, BooksFail
  <2>4. CASE AdvanceBlocked(w) \/ AdvanceClose(w)
    BY <1>0, <2>4, BooksClosing
  <2>5. CASE Evaluate(w) \/ EvaluateStrict(w) \/ TicketDecided(w) \/ IssueTicket(w)
    BY <1>0, <2>5, BooksDecide
  <2> QED
    BY <1>1, <2>1, <2>2, <2>3, <2>4, <2>5
       DEF WorkerStep, ExecuteOne, Advance, EvaluateAndTicket, CloseRun, Rests, Turns
<1>2. ASSUME UNCHANGED <<res, credit, mstatus, task, hold, paid, pc, job, seen, slice, cost>>
      PROVE  BookInv'
  <2>1. BookTypeOK' /\ \A v \in Workers : Stays(v)
    BY <1>0, <1>2 DEF BookInv, BookTypeOK, Stays
  <2> QED
    BY <1>2, <2>1, BooksQuiet
<1>3. ASSUME NEW m \in Mandates, Api(m)
      PROVE  BookInv'
  <2>1. CASE Create(m)
    BY <1>0, <2>1, BooksCreate
  <2>2. CASE Publish(m) \/ PublishLost(m) \/ Republish(m)
    BY <1>2, <2>2 DEF Publish, PublishLost, Republish, moneyVars, ledgerVars, creditVars,
                      mandateVars, taskVars, localVars, gatewayVars
  <2> QED
    BY <1>3, <2>1, <2>2 DEF Api
<1>4. ASSUME \/ \E w \in Workers, a \in Task : DropLocked(w, a)
             \/ \E a \in Task : LockExpires(a)
             \/ \E u \in Users : Register(u)
             \/ Midnight
      PROVE  BookInv'
  BY <1>2, <1>4 DEF DropLocked, LockExpires, Register, GrantWelcome, Midnight, NextDay, moneyVars,
                    ledgerVars, creditVars, mandateVars, taskVars, localVars, gatewayVars
<1>5. CASE UNCHANGED vars
  BY <1>2, <1>5 DEF vars, moneyVars, ledgerVars, creditVars, mandateVars, taskVars, localVars, gatewayVars
<1> QED
  BY <1>1, <1>3, <1>4, <1>5 DEF Next, Broker, Environment

LEMMA BooksInit ==
  ASSUME Init PROVE BookInv
<1>1. NoReservation \in Reservation
  BY LedgerAssumption DEF NoReservation, Reservation, ReservationStatus, Days
<1>2. LedgerTypeOK /\ CreditInv
  BY LedgerInitTyped, CreditInitial DEF Init
<1>3. BookTypeOK
  BY <1>1, <1>2 DEF Init, BookTypeOK
<1>4. ASSUME NEW m \in Mandates
      PROVE  MandateBooks(m)
  <2>1. /\ res[m] = NoReservation /\ mstatus[m] = "NONE"
        /\ \A a \in TasksOf(m) : hold[a] = 0 /\ paid[a] = 0 /\ PaidBefore[a] = 0 /\ task[a] = "NONE"
    BY TaskFacts DEF Init, LedgerInit, PaidBefore
  <2>2. UncertainHold(m) = 0 /\ SumFunctionOnSet(PaidBefore, TasksOf(m)) = 0
    BY <2>1, TasksFinite, SumOfZeros DEF UncertainHold
  <2> QED
    BY <2>1, <2>2 DEF MandateBooks, HoldCovered, TaskBooks, PaidBooked, BookClosed, Spendable,
                      NoReservation
<1>5. \A w \in Workers : WorkerBooks(w)
  BY DEF Init, WorkerBooks, Called
<1>6. CreditMatches
  BY PipelineAssumption DEF Init, LedgerInit, CreditInit, CreditMatches, Held, NoReservation
<1> QED
  BY <1>3, <1>4, <1>5, <1>6 DEF BookInv

LEMMA BooksAlways == Spec => [](StageInv /\ BookInv)
<1>1. Init => BookInv
  BY BooksInit
<1>2. StageInv /\ BookInv /\ [Next]_vars => BookInv'
  BY BooksNext
<1> QED
  BY <1>1, <1>2, StageAlways, PTL DEF Spec

-----------------------------------------------------------------------------
(* UsesLedger: the pipeline reserves, settles and releases on the spend       *)
(* ledger as public_safety.py defines it, also over the reservation that a    *)
(* session loaded before its network call.                                   *)
THEOREM LedgerIsUsed == Spec => UsesLedger
<1>1. Init => LedgerInit
  BY DEF Init
<1>2. StageInv /\ BookInv /\ [Next]_vars => [LedgerNext]_ledgerVars
  BY LedgerMoves
<1> QED
  BY <1>1, <1>2, BooksAlways, PTL DEF Spec, UsesLedger, LedgerSpec

(* And on the credit of e-mail users only as users/credit.py defines it.     *)
THEOREM CreditIsUsed == Spec => CreditSpec
<1>1. Init => CreditInit
  BY DEF Init
<1>2. StageInv /\ BookInv /\ [Next]_vars => [CreditNext]_creditVars
  BY LedgerMoves
<1> QED
  BY <1>1, <1>2, BooksAlways, PTL DEF Spec, CreditSpec

(* So what holds of the two ledgers holds in the pipeline: DailyCap,          *)
(* WithinBudget, ReservedBacked, SpentIsFinal and NoOverdraft, whatever       *)
(* workers, crashes and redeliveries do.                                     *)
THEOREM LedgersHold ==
  Spec => [](DailyCap /\ WithinBudget /\ ReservedBacked /\ NoOverdraft) /\ SpentIsFinal
  BY LedgerIsUsed, CreditIsUsed, DailyCapHolds, WithinBudgetHolds, ReservedBackedHolds,
     SpentIsFinalHolds, NoOverdraftHolds, PTL DEF UsesLedger

(* HoldIsKept: a payment that could not be established stays reserved in      *)
(* full, whatever is called, settled or closed after it.                     *)
THEOREM HoldIsKeptHolds == Spec => []HoldIsKept
<1>1. BookInv => HoldIsKept
  BY BookSums, ReservationTyped
     DEF BookInv, MandateBooks, HoldCovered, HoldIsKept, BookTypeOK, LedgerTypeOK, Reservation
<1> QED
  BY <1>1, BooksAlways, PTL

(* ClosedBooks: from EVALUATING on, no task is open and the reservation is    *)
(* closed unless a payment is uncertain.                                     *)
THEOREM ClosedBooksHolds == Spec => []ClosedBooks
<1>1. StageInv /\ BookInv => ClosedBooks
  <2> SUFFICES ASSUME StageInv, BookInv, NEW m \in Mandates, mstatus[m] \in Acquired
               PROVE  /\ \A a \in TasksOf(m) : task[a] \in Finished \cup {"NONE"}
                      /\ res[m].status = "RESERVED" <=> UncertainHold(m) > 0
    BY DEF ClosedBooks, Acquired, Concluded
  <2>1. TasksFit(m) /\ BookClosed(m) /\ HoldCovered(m)
    BY DEF StageInv, MandateStage, BookInv, MandateBooks
  <2> QED
    BY <2>1 DEF TasksFit, BookClosed, HoldCovered
<1> QED
  BY <1>1, BooksAlways, PTL

(* PaidIsCovered: at every moment, between the gateway's payment and the      *)
(* commit that records it too, what was paid is booked or still reserved.    *)
THEOREM PaidIsCoveredHolds == Spec => []PaidIsCovered
<1>1. StageInv /\ BookInv => PaidIsCovered
  <2> SUFFICES ASSUME StageInv, BookInv, NEW m \in Mandates
               PROVE  SumFunctionOnSet(paid, TasksOf(m))
                        <= res[m].actual + (IF res[m].status = "RESERVED" THEN res[m].reserved ELSE 0)
    BY DEF PaidIsCovered
  <2>1. /\ BookTypeOK /\ TaskBooks(m) /\ PaidBooked(m) /\ HoldCovered(m) /\ OneRunning(m)
        /\ UncertainHold(m) \in Nat /\ res[m].reserved \in Nat /\ res[m].actual \in Nat
        /\ SumFunctionOnSet(PaidBefore, TasksOf(m)) \in Nat /\ IsFiniteSet(TasksOf(m))
    BY BookSums, TasksFinite, ReservationTyped
       DEF StageInv, MandateStage, BookInv, BookTypeOK, MandateBooks, LedgerTypeOK, Reservation
  <2>2. CASE \A a \in TasksOf(m) : task[a] # "RUNNING"
    <3>1. \A a \in TasksOf(m) : paid[a] = PaidBefore[a]
      BY <2>2, TaskFacts DEF PaidBefore
    <3>2. SumFunctionOnSet(paid, TasksOf(m)) = SumFunctionOnSet(PaidBefore, TasksOf(m))
      BY <2>1, <3>1, SumOfSame
    <3> QED
      BY <2>1, <3>2 DEF PaidBooked, HoldCovered
  <2>3. ASSUME NEW a \in TasksOf(m), task[a] = "RUNNING"
        PROVE  SumFunctionOnSet(paid, TasksOf(m))
                 <= res[m].actual + (IF res[m].status = "RESERVED" THEN res[m].reserved ELSE 0)
    <3>1. /\ \A b \in TasksOf(m) : b # a => paid[b] = PaidBefore[b]
          /\ PaidBefore[a] = 0 /\ paid[a] \in Nat
          /\ \A b \in TasksOf(m) : paid[b] \in Int /\ PaidBefore[b] \in Int
      BY <2>1, <2>3, TaskFacts, BookSums DEF PaidBefore, OneRunning
    <3>2. SumFunctionOnSet(paid, TasksOf(m))
            = SumFunctionOnSet(PaidBefore, TasksOf(m)) - PaidBefore[a] + paid[a]
      BY <2>1, <3>1, SumAfterChange
    <3>3. SumFunctionOnSet(paid, TasksOf(m)) = SumFunctionOnSet(PaidBefore, TasksOf(m)) + paid[a]
      BY <2>1, <3>1, <3>2
    <3>4. paid[a] > 0 => res[m].status = "RESERVED" /\ paid[a] + UncertainHold(m) <= res[m].reserved
      BY <2>1, <2>3 DEF TaskBooks
    <3> QED
      BY <2>1, <3>1, <3>3, <3>4 DEF PaidBooked, HoldCovered
  <2> QED
    BY <2>2, <2>3
<1> QED
  BY <1>1, BooksAlways, PTL

(* CreditMatches: the user's credit holds and has spent what the day's ledger *)
(* holds and has spent for the same mandate.                                 *)
THEOREM CreditMatchesHolds == Spec => []CreditMatches
  BY BooksAlways, PTL DEF BookInv

-----------------------------------------------------------------------------
(* The rest of the types: the broker, the locks and the bound on crashes.    *)
QueueTypeOK ==
  /\ unpublished \subseteq Mandates
  /\ msgs \in [Task -> Nat]
  /\ lock \in [Task -> Workers \cup {NoWorker, Orphan}]
  /\ crashes \in Nat

LEMMA OneMore ==
  ASSUME NEW f \in [Task -> Nat], NEW x
  PROVE  [f EXCEPT ![x] = @ + 1] \in [Task -> Nat]
<1> DEFINE g == [f EXCEPT ![x] = @ + 1]
<1>1. \A b \in Task : g[b] = (IF b = x THEN f[b] + 1 ELSE f[b]) /\ f[b] \in Nat
  OBVIOUS
<1>2. \A b \in Task : g[b] \in Nat
  BY <1>1
<1> QED
  BY <1>2

LEMMA QueueTyped ==
  ASSUME QueueTypeOK, [Next]_vars PROVE QueueTypeOK'
<1>1. ASSUME UNCHANGED <<msgs, unpublished, lock, crashes>>
      PROVE  QueueTypeOK'
  BY <1>1 DEF QueueTypeOK
<1>2. ASSUME NEW m \in Mandates, Api(m)
      PROVE  QueueTypeOK'
  BY <1>2 DEF Api, Create, Publish, PublishLost, Republish, QueueTypeOK
<1>3. ASSUME NEW w \in Workers, NEW a \in Task, Broker(w, a)
      PROVE  QueueTypeOK'
  <2>1. /\ msgs' = [msgs EXCEPT ![a] = @ - 1] /\ msgs[a] > 0 /\ UNCHANGED <<unpublished, crashes>>
        /\ UNCHANGED lock \/ lock' = [lock EXCEPT ![a] = w]
    BY <1>3 DEF Broker, Deliver, DropLocked
  <2> QED
    BY <2>1 DEF QueueTypeOK
<1>4. ASSUME NEW w \in Workers, WorkerStep(w)
      PROVE  QueueTypeOK'
  <2>1. CASE Finish(w)
    BY <2>1 DEF Finish, queueVars, QueueTypeOK
  <2>2. CASE AdvanceNext(w)
    <3>1. msgs' = [msgs EXCEPT ![NextQueued(job[w][1])] = @ + 1]
          /\ UNCHANGED <<unpublished, lock, crashes>>
      BY <2>2 DEF AdvanceNext
    <3> QED
      BY <3>1, OneMore DEF QueueTypeOK
  <2>3. CASE ~Finish(w) /\ ~AdvanceNext(w)
    <3>1. UNCHANGED <<msgs, unpublished, lock, crashes>>
      BY <1>4, <2>3
         DEF WorkerStep, Claim, ExecuteOne, ClaimRefused, Request, PrepareFails, Authorize, Deny,
             Send, Receive, SettleCall, SettleFails, Fail, Advance, AdvanceStops, AdvanceLost,
             AdvanceClose, AdvanceRaises, AdvanceAgain, EvaluateAndTicket, EvaluateStops, Evaluate,
             TicketDecided, IssueTicket, CloseRun, AdvanceBlocked, EvaluateStrict, Finalize,
             queueVars
    <3> QED
      BY <1>1, <3>1
  <2> QED
    BY <2>1, <2>2, <2>3
<1>5. ASSUME NEW w \in Workers, Crash(w)
      PROVE  QueueTypeOK'
  <2>1. /\ msgs' = [msgs EXCEPT ![job[w]] = @ + 1] /\ crashes' = crashes + 1
        /\ lock' = [lock EXCEPT ![job[w]] = IF @ = w THEN Orphan ELSE @]
        /\ UNCHANGED unpublished
    BY <1>5 DEF Crash
  <2>2. msgs' \in [Task -> Nat]
    BY <2>1, OneMore DEF QueueTypeOK
  <2>3. lock' \in [Task -> Workers \cup {NoWorker, Orphan}]
    BY <2>1 DEF QueueTypeOK
  <2> QED
    BY <2>1, <2>2, <2>3 DEF QueueTypeOK
<1>6. ASSUME NEW a \in Task, LockExpires(a)
      PROVE  QueueTypeOK'
  BY <1>6 DEF LockExpires, queueVars, QueueTypeOK
<1>7. CASE Midnight \/ (\E u \in Users : Register(u)) \/ UNCHANGED vars
  BY <1>1, <1>7 DEF Midnight, Register, vars, queueVars
<1> QED
  BY <1>2, <1>3, <1>4, <1>5, <1>6, <1>7 DEF Next, Environment

(* TypeOK: every variable of the pipeline keeps its declared shape; in        *)
(* particular no ledger column, no hold and no queue ever goes below zero.   *)
THEOREM PipelineTypeCorrect == Spec => []TypeOK
<1>1. Init => QueueTypeOK
  BY DEF Init, QueueTypeOK
<1>2. QueueTypeOK /\ [Next]_vars => QueueTypeOK'
  BY QueueTyped
<1>3. StageInv /\ BookInv /\ QueueTypeOK => TypeOK
  <2> SUFFICES ASSUME StageInv, BookInv, QueueTypeOK PROVE TypeOK
    OBVIOUS
  <2>1. LedgerTypeOK /\ CreditTypeOK
    BY DEF BookInv, BookTypeOK, CreditInv
  <2>2. mstatus \in [Mandates -> Lifecycle!MandateStatus \cup {"NONE"}]
    <3>1. Stages \subseteq Lifecycle!MandateStatus \cup {"NONE"}
      BY DEF Stages, Lifecycle!MandateStatus, Lifecycle!AllowedTransitions
    <3> QED
      BY <3>1 DEF StageInv, StageTypeOK
  <2>3. /\ decision \in [Mandates -> Verdict \cup {Undecided}]
        /\ ticket \in [Mandates -> Verdict \cup {Undecided}]
        /\ task \in [Task -> TaskStatus] /\ code \in [Task -> FailureCode]
    BY DEF StageInv, StageTypeOK
  <2>4. /\ call \in [Task -> CallStatus] /\ sent \in [Task -> Nat]
        /\ pc \in [Workers -> Step] /\ job \in [Workers -> Task \cup {NoTask}]
    BY DEF StageInv, ClaimTypeOK
  <2>5. /\ hold \in [Task -> Nat] /\ paid \in [Task -> Nat] /\ seen \in [Workers -> Reservation]
        /\ slice \in [Workers -> Nat] /\ cost \in [Workers -> Nat]
    BY DEF BookInv, BookTypeOK
  <2> QED
    BY <2>1, <2>2, <2>3, <2>4, <2>5 DEF TypeOK, QueueTypeOK
<1> QED
  BY <1>1, <1>2, <1>3, BooksAlways, PTL DEF Spec
===============================================================================
