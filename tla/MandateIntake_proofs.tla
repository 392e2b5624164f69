-------------------------- MODULE MandateIntake_proofs --------------------------
(* Theorems about the two paid rails: for every number of threads, processes, *)
(* keys, payments and mandates, a payment is on record before it moves and    *)
(* buys at most one mandate.                                                  *)
EXTENDS MandateIntake, Ledgers_proofs

(* Past the insertion of its payment row; past the settlement, before the     *)
(* mandate.                                                                   *)
Owns(w) == xpc[w] \in {"onRecord", "declined", "settled", "create", "answer"}
Creating(w) == xpc[w] \in {"settled", "create"}

BlankRows ==
  \A k \in AskKeys : /\ pay[k].status = "NONE" => pay[k].payment = Nothing
                     /\ pay[k].status = "NONE" => pay[k].mandate = Nothing
                     /\ pay[k].status = "SETTLED" => pay[k].mandate # Nothing
                     /\ pay[k].mandate # Nothing => pay[k].request # Nothing

(* A process that inserted a row is the only one that works on it.            *)
HeldRows ==
  \A w \in Processes : Owns(w) =>
     /\ pay[xjob[w].key].payment = xjob[w].payment
     /\ pay[xjob[w].key].request = xjob[w].request
     /\ pay[xjob[w].key].status # "NONE"
     /\ xpc[w] = "answer" <=> pay[xjob[w].key].mandate # Nothing

HoldersDiffer ==
  \A v, w \in Processes : Owns(v) /\ Owns(w) /\ v # w => xjob[v].key # xjob[w].key

(* The money of a process about to create a mandate has moved and has not     *)
(* bought one, and no other process is about to spend it.                     *)
CreatorsPaid ==
  \A w \in Processes : Creating(w) =>
     /\ xjob[w].payment \in charged
     /\ \A k \in AskKeys : pay[k].mandate # Nothing => pay[k].payment # xjob[w].payment
     /\ \A v \in Processes \ {w} : Creating(v) => xjob[v].payment # xjob[w].payment

WorkIsReserved ==
  \A k \in AskKeys : pay[k].mandate # Nothing => res[pay[k].mandate].status # "NONE"

SellerInv ==
  /\ BlankRows /\ HeldRows /\ HoldersDiffer /\ CreatorsPaid
  /\ ChargedIsOnRecord /\ WorkIsPaid /\ WorkIsReserved

(* The rows of either rail that name a mandate: none before its reservation,  *)
(* one after it.                                                              *)
AskedAs(m) == {k \in M2MKeys : requests[k] # Nothing /\ requests[k].mandate = m}
PaidAs(m) == {k \in AskKeys : pay[k].mandate = m}

OwnedOnce ==
  \A m \in Mandates :
     IF res[m].status = "NONE" THEN AskedAs(m) = {} /\ PaidAs(m) = {}
     ELSE \/ PaidAs(m) = {} /\ \E k \in M2MKeys : AskedAs(m) = {k}
          \/ AskedAs(m) = {} /\ \E k \in AskKeys : PaidAs(m) = {k}

IntakeInv == IntakeTypeOK /\ SellerInv /\ OwnedOnce

-----------------------------------------------------------------------------
(* Types.                                                                   *)

LEMMA Jobs ==
  ASSUME IntakeTypeOK, NEW w \in Processes, xpc[w] # "idle"
  PROVE  /\ xjob[w] \in Ask /\ xjob[w].key \in AskKeys /\ xjob[w].payment \in Payments
         /\ xjob[w].request \in AskRequests
BY DEF IntakeTypeOK, SellerTypeOK, Ask

LEMMA Threaded ==
  ASSUME IntakeTypeOK, NEW t \in Threads, mpc[t] # "idle"
  PROVE  /\ mjob[t] \in M2MKeys \X M2MRequests
         /\ mjob[t][1] \in M2MKeys /\ mjob[t][2] \in M2MRequests
BY DEF IntakeTypeOK, M2MTypeOK

LEMMA EstablishTyped ==
  ASSUME IdentityTypeOK, NEW a, NEW c \in Contexts, Establish(a, c)
  PROVE  IdentityTypeOK'
BY DEF IdentityTypeOK, Establish

LEMMA ReplayTyped ==
  ASSUME M2MTypeOK, NEW k \in M2MKeys, NEW q \in M2MRequests, Replay(k, q)
  PROVE  maccepted' \subseteq M2MKeys \X M2MRequests \X Mandates
<1>1. CASE Matches(k, q)
  <2>1. requests[k] \in Requested
    BY <1>1 DEF Matches, M2MTypeOK
  <2>2. <<k, q, requests[k].mandate>> \in M2MKeys \X M2MRequests \X Mandates
    BY <2>1 DEF Requested
  <2> QED
    BY <1>1, <2>2 DEF Replay, M2MTypeOK
<1>2. CASE ~Matches(k, q)
  BY <1>2 DEF Replay, M2MTypeOK
<1> QED
  BY <1>1, <1>2

LEMMA LeaveTyped ==
  ASSUME M2MTypeOK, NEW t \in Threads, Leave(t), UNCHANGED requests,
         maccepted' \subseteq M2MKeys \X M2MRequests \X Mandates
  PROVE  M2MTypeOK'
BY DEF M2MTypeOK, Leave

(* A reservation that was made is not touched by the intake any more.         *)
ReservationsKept ==
  \A m \in Mandates :
     res[m].status # "NONE" => res'[m] = res[m] /\ budget'[m] = budget[m]

LEMMA ReserveNew ==
  ASSUME LedgerTypeOK, NEW m \in Mandates, NEW x \in Nat, NEW max \in Nat,
         "M2M" \in Origins, Reserve(m, "M2M", x, max)
  PROVE  /\ LedgerTypeOK' /\ ReservationsKept
         /\ res'[m].status = "RESERVED" /\ budget'[m] = x
<1>1. LedgerTypeOK'
  BY ReserveTyped
<1> QED
  BY <1>1 DEF Reserve, LedgerTypeOK, ReservationsKept

LEMMA M2MStep ==
  ASSUME IntakeTypeOK, M2MNext
  PROVE  LedgerTypeOK' /\ IdentityTypeOK' /\ M2MTypeOK' /\ ReservationsKept
<1>0. LedgerTypeOK /\ IdentityTypeOK /\ M2MTypeOK
  BY DEF IntakeTypeOK
<1>1. ASSUME UNCHANGED <<ledgerVars, identity>>
      PROVE  LedgerTypeOK' /\ IdentityTypeOK' /\ ReservationsKept
  BY <1>0, <1>1 DEF ledgerVars, LedgerTypeOK, IdentityTypeOK, ReservationsKept
<1>2. ASSUME NEW t \in Threads, NEW k \in M2MKeys, NEW q \in M2MRequests,
             SubmitNew(t, k, q) \/ SubmitAgain(t, k, q)
      PROVE  LedgerTypeOK' /\ IdentityTypeOK' /\ M2MTypeOK' /\ ReservationsKept
  <2>1. CASE SubmitNew(t, k, q)
    <3>1. M2MTypeOK'
      BY <1>0, <2>1, M2MAssumption DEF SubmitNew, M2MTypeOK
    <3> QED
      BY <1>1, <2>1, <3>1 DEF SubmitNew
  <2>2. CASE SubmitAgain(t, k, q)
    <3>1. maccepted' \subseteq M2MKeys \X M2MRequests \X Mandates
      BY <1>0, <2>2, ReplayTyped DEF SubmitAgain
    <3>2. M2MTypeOK'
      BY <1>0, <2>2, <3>1 DEF SubmitAgain, M2MTypeOK
    <3> QED
      BY <1>1, <2>2, <3>2 DEF SubmitAgain
  <2> QED
    BY <1>2, <2>1, <2>2
<1>3. ASSUME NEW t \in Threads, CreateMandate(t)
      PROVE  LedgerTypeOK' /\ IdentityTypeOK' /\ M2MTypeOK' /\ ReservationsKept
  <2> DEFINE k == mjob[t][1]
             q == mjob[t][2]
  <2>1. k \in M2MKeys /\ q \in M2MRequests
    BY <1>3, Threaded DEF CreateMandate
  <2>2. PICK m \in Mandates :
          /\ Reserve(m, "M2M", BudgetOf[q], M2MMaximum)
          /\ requests' = [requests EXCEPT ![k] = [request |-> q, mandate |-> m]]
    BY <1>3 DEF CreateMandate
  <2>3. LedgerTypeOK' /\ ReservationsKept
    BY <1>0, <2>1, <2>2, ReserveNew, M2MAssumption
  <2>4. IdentityTypeOK'
    BY <1>0, <1>3, EstablishTyped, M2MAssumption DEF CreateMandate
  <2>5. requests' \in [M2MKeys -> Requested \cup {Nothing}]
    BY <1>0, <2>1, <2>2 DEF M2MTypeOK, Requested
  <2>6. M2MTypeOK'
    BY <1>0, <1>3, <2>5 DEF CreateMandate, M2MTypeOK
  <2> QED
    BY <2>3, <2>4, <2>6
<1>4. ASSUME NEW t \in Threads, CreateCollides(t) \/ AnswerCreated(t)
      PROVE  LedgerTypeOK' /\ IdentityTypeOK' /\ M2MTypeOK' /\ ReservationsKept
  <2>1. mjob[t][1] \in M2MKeys /\ mjob[t][2] \in M2MRequests
    BY <1>4, Threaded DEF CreateCollides, AnswerCreated
  <2>2. Replay(mjob[t][1], mjob[t][2]) /\ Leave(t) /\ UNCHANGED <<ledgerVars, identity, requests>>
    BY <1>4 DEF CreateCollides, AnswerCreated
  <2>3. maccepted' \subseteq M2MKeys \X M2MRequests \X Mandates
    BY <1>0, <2>1, <2>2, ReplayTyped
  <2> QED
    BY <1>0, <1>1, <2>2, <2>3, LeaveTyped
<1>5. ASSUME NEW t \in Threads, CreateRefused(t) \/ ThreadDies(t)
      PROVE  LedgerTypeOK' /\ IdentityTypeOK' /\ M2MTypeOK' /\ ReservationsKept
  <2>1. Leave(t) /\ UNCHANGED <<ledgerVars, identity, requests, maccepted>>
    BY <1>5 DEF CreateRefused, ThreadDies
  <2> QED
    BY <1>0, <1>1, <2>1, LeaveTyped DEF M2MTypeOK
<1> QED
  BY <1>2, <1>3, <1>4, <1>5 DEF M2MNext

-----------------------------------------------------------------------------
(* The seller's steps: those that touch neither row nor chain.              *)

LEMMA Rows ==
  ASSUME IntakeTypeOK, NEW k \in AskKeys
  PROVE  /\ pay[k] \in Payment
         /\ pay[k].mandate # Nothing => pay[k].mandate \in Mandates
         /\ pay[k].payment # Nothing => pay[k].payment \in Payments
BY DEF IntakeTypeOK, SellerTypeOK, Payment

(* A process that is at the same row as before, or at none.                   *)
Follows(w) ==
  Owns(w)' => /\ Owns(w) /\ xjob'[w] = xjob[w]
              /\ xpc'[w] = "answer" <=> xpc[w] = "answer"
              /\ Creating(w)' => Creating(w)

LEMMA WorkKept ==
  ASSUME IntakeTypeOK, SellerInv, UNCHANGED <<pay, charged>>, ReservationsKept
  PROVE  WorkIsPaid' /\ WorkIsReserved'
<1>1. ASSUME NEW k \in AskKeys, pay[k].mandate # Nothing
      PROVE  /\ res'[pay[k].mandate] = res[pay[k].mandate]
             /\ budget'[pay[k].mandate] = budget[pay[k].mandate]
  BY <1>1, Rows DEF SellerInv, WorkIsReserved, ReservationsKept
<1> QED
  BY <1>1 DEF SellerInv, WorkIsPaid, WorkIsReserved

LEMMA SellerKept ==
  ASSUME IntakeTypeOK, SellerInv, UNCHANGED <<pay, charged>>, ReservationsKept,
         \A w \in Processes : Follows(w)
  PROVE  SellerInv'
<1>1. BlankRows' /\ ChargedIsOnRecord'
  BY DEF SellerInv, BlankRows, ChargedIsOnRecord
<1>2. HeldRows'
  BY DEF SellerInv, HeldRows, Follows
<1>3. HoldersDiffer'
  BY DEF SellerInv, HoldersDiffer, Follows
<1>4. ASSUME NEW w \in Processes, Creating(w)'
      PROVE  Creating(w) /\ xjob'[w] = xjob[w]
  BY <1>4 DEF Follows, Creating, Owns
<1>5. CreatorsPaid'
  BY <1>4 DEF SellerInv, CreatorsPaid
<1> QED
  BY <1>1, <1>2, <1>3, <1>5, WorkKept DEF SellerInv

LEMMA LedgerKept ==
  ASSUME IntakeTypeOK, UNCHANGED <<ledgerVars, identity>>
  PROVE  LedgerTypeOK' /\ IdentityTypeOK' /\ ReservationsKept
BY DEF IntakeTypeOK, ledgerVars, LedgerTypeOK, IdentityTypeOK, ReservationsKept

(* Where a step takes the process, and its types.                             *)
LEMMA RespondTyped ==
  ASSUME IntakeTypeOK, NEW w \in Processes, Respond(w), pay' \in [AskKeys -> Payment],
         UNCHANGED charged, xaccepted' \subseteq AskKeys \X AskRequests \X Mandates
  PROVE  /\ SellerTypeOK'
         /\ \A v \in Processes : Follows(v)
         /\ \A v \in Processes : Owns(v)' => v # w
BY DEF Respond, IntakeTypeOK, SellerTypeOK, AskStep, Follows, Owns, Creating

LEMMA StepTyped ==
  ASSUME IntakeTypeOK, NEW w \in Processes, NEW step \in AskStep, xpc[w] # "idle",
         Step(w, step), pay' \in [AskKeys -> Payment], charged' \subseteq Payments,
         sawAgent' \in [Processes -> BOOLEAN], UNCHANGED xaccepted
  PROVE  /\ SellerTypeOK'
         /\ xjob' = xjob /\ xpc'[w] = step
         /\ \A v \in Processes \ {w} : xpc'[v] = xpc[v]
BY DEF Step, IntakeTypeOK, SellerTypeOK, AskStep

LEMMA AskInv ==
  ASSUME IntakeTypeOK, SellerInv, NEW w \in Processes, NEW ask \in Asks,
         AskNew(w, ask) \/ AskAgain(w, ask.key, ask.request)
  PROVE  LedgerTypeOK' /\ IdentityTypeOK' /\ SellerTypeOK' /\ SellerInv'
<1>1. ask \in Ask /\ ask # Nothing
  BY SellerAssumption
<1>2. LedgerTypeOK' /\ IdentityTypeOK' /\ ReservationsKept
  BY LedgerKept DEF AskNew, AskAgain
<1>3. CASE AskNew(w, ask)
  <2>1. SellerTypeOK'
    BY <1>1, <1>3 DEF AskNew, IntakeTypeOK, SellerTypeOK, AskStep
  <2>2. \A v \in Processes : Follows(v)
    BY <1>3 DEF AskNew, IntakeTypeOK, SellerTypeOK, Follows, Owns, Creating
  <2>3. UNCHANGED <<pay, charged>>
    BY <1>3 DEF AskNew
  <2> QED
    BY <1>2, <2>1, <2>2, <2>3, SellerKept
<1>4. CASE AskAgain(w, ask.key, ask.request)
  <2>1. ask.key \in AskKeys /\ ask.request \in AskRequests
    BY <1>1 DEF Ask
  <2>2. pay[ask.key].mandate \in Mandates
    BY <1>4, <2>1, Rows DEF AskAgain, Replayable, SellerInv, BlankRows
  <2>3. SellerTypeOK'
    BY <1>4, <2>1, <2>2 DEF AskAgain, IntakeTypeOK, SellerTypeOK
  <2>4. UNCHANGED <<pay, charged, xpc, xjob>>
    BY <1>4 DEF AskAgain
  <2>5. \A v \in Processes : Follows(v)
    BY <2>4 DEF Follows, Owns, Creating
  <2> QED
    BY <1>2, <2>3, <2>4, <2>5, SellerKept
<1> QED
  BY <1>3, <1>4

LEMMA ResponseInv ==
  ASSUME IntakeTypeOK, SellerInv, NEW w \in Processes,
         \/ RecordCollides(w) \/ CreateRefusedAfterSettlement(w)
         \/ AnswerPaid(w) \/ ProcessDies(w)
  PROVE  LedgerTypeOK' /\ IdentityTypeOK' /\ SellerTypeOK' /\ SellerInv'
<1>1. Respond(w) /\ UNCHANGED <<ledgerVars, identity, pay, charged>>
  BY DEF RecordCollides, CreateRefusedAfterSettlement, AnswerPaid, ProcessDies
<1>2. xaccepted' \subseteq AskKeys \X AskRequests \X Mandates
  <2>1. CASE AnswerPaid(w)
    <3>1. xjob[w].key \in AskKeys /\ xjob[w].request \in AskRequests
      BY <2>1, Jobs DEF AnswerPaid
    <3>2. pay[xjob[w].key].mandate \in Mandates
      BY <2>1, <3>1, Rows DEF AnswerPaid, SellerInv, HeldRows, Owns
    <3> QED
      BY <2>1, <3>1, <3>2 DEF AnswerPaid, IntakeTypeOK, SellerTypeOK
  <2> QED
    BY <2>1 DEF RecordCollides, CreateRefusedAfterSettlement, ProcessDies,
                IntakeTypeOK, SellerTypeOK
<1>3. pay' \in [AskKeys -> Payment]
  BY <1>1 DEF IntakeTypeOK, SellerTypeOK
<1>4. SellerTypeOK' /\ \A v \in Processes : Follows(v)
  BY <1>1, <1>2, <1>3, RespondTyped
<1> QED
  BY <1>1, <1>4, LedgerKept, SellerKept

-----------------------------------------------------------------------------
(* The steps that change a row or move money.                               *)

LEMMA PutOnRecordInv ==
  ASSUME IntakeTypeOK, SellerInv, NEW w \in Processes, PutOnRecord(w)
  PROVE  LedgerTypeOK' /\ IdentityTypeOK' /\ SellerTypeOK' /\ SellerInv'
<1> DEFINE ask == xjob[w]
           k == ask.key
           row == [status |-> "VERIFIED", payment |-> ask.payment, request |-> ask.request,
                   legible |-> TRUE, mandate |-> Nothing]
<1>1. /\ xpc[w] = "verified" /\ pay[k].status = "NONE"
      /\ pay' = [pay EXCEPT ![k] = row]
      /\ Step(w, "onRecord")
      /\ UNCHANGED <<ledgerVars, identity, charged, sawAgent, xaccepted>>
  BY DEF PutOnRecord
<1>2. k \in AskKeys /\ ask.payment \in Payments /\ ask.request \in AskRequests
  BY <1>1, Jobs
<1>3. LedgerTypeOK' /\ IdentityTypeOK' /\ ReservationsKept
  BY <1>1, LedgerKept
<1>4. pay' \in [AskKeys -> Payment]
  BY <1>1, <1>2 DEF IntakeTypeOK, SellerTypeOK, Payment, PaymentStatus
<1>5. /\ SellerTypeOK'
      /\ xjob' = xjob /\ xpc'[w] = "onRecord"
      /\ \A v \in Processes \ {w} : xpc'[v] = xpc[v]
  BY <1>1, <1>4, StepTyped DEF IntakeTypeOK, SellerTypeOK, AskStep
<1>6. pay'[k] = row /\ \A j \in AskKeys \ {k} : pay'[j] = pay[j]
  BY <1>1, <1>2 DEF IntakeTypeOK, SellerTypeOK
<1>7. pay[k].payment = Nothing /\ pay[k].mandate = Nothing
  BY <1>1, <1>2 DEF SellerInv, BlankRows
<1>8. ASSUME NEW v \in Processes \ {w}, Owns(v)
      PROVE  xjob[v].key \in AskKeys \ {k}
  <2>1. xjob[v].key \in AskKeys
    BY <1>8, Jobs DEF Owns
  <2> QED
    BY <1>1, <1>8, <2>1 DEF SellerInv, HeldRows
<1>9. ASSUME NEW v \in Processes
      PROVE  /\ v # w => (Owns(v)' <=> Owns(v)) /\ (Creating(v)' <=> Creating(v))
             /\ Owns(w)' /\ ~Creating(w)'
  BY <1>5 DEF Owns, Creating
<1>10. BlankRows'
  BY <1>6 DEF SellerInv, BlankRows
<1>11. HeldRows'
  <2> SUFFICES ASSUME NEW v \in Processes, Owns(v)'
               PROVE  /\ pay'[xjob[v].key].payment = xjob[v].payment
                      /\ pay'[xjob[v].key].request = xjob[v].request
                      /\ pay'[xjob[v].key].status # "NONE"
                      /\ xpc'[v] = "answer" <=> pay'[xjob[v].key].mandate # Nothing
    BY <1>5 DEF HeldRows
  <2>1. CASE v = w
    BY <1>5, <1>6, <2>1
  <2>2. CASE v # w
    BY <1>5, <1>6, <1>8, <1>9, <2>2 DEF SellerInv, HeldRows
  <2> QED
    BY <2>1, <2>2
<1>12. HoldersDiffer'
  BY <1>5, <1>8, <1>9 DEF SellerInv, HoldersDiffer
<1>13. CreatorsPaid'
  BY <1>1, <1>5, <1>6, <1>9 DEF SellerInv, CreatorsPaid
<1>14. ChargedIsOnRecord'
  <2> SUFFICES ASSUME NEW p \in charged
               PROVE  \E j \in AskKeys : pay'[j].payment = p
    BY <1>1 DEF ChargedIsOnRecord
  <2>1. PICK j \in AskKeys : pay[j].payment = p
    BY DEF SellerInv, ChargedIsOnRecord
  <2>2. p # Nothing
    BY SellerAssumption DEF IntakeTypeOK, SellerTypeOK
  <2> QED
    BY <1>6, <1>7, <2>1, <2>2
<1>15. WorkIsPaid' /\ WorkIsReserved'
  BY <1>1, <1>6 DEF SellerInv, WorkIsPaid, WorkIsReserved, ledgerVars
<1> QED
  BY <1>3, <1>5, <1>10, <1>11, <1>12, <1>13, <1>14, <1>15 DEF SellerInv

LEMMA SettleInv ==
  ASSUME IntakeTypeOK, SellerInv, NEW w \in Processes,
         SettleSucceeds(w) \/ SettleFails(w)
  PROVE  LedgerTypeOK' /\ IdentityTypeOK' /\ SellerTypeOK' /\ SellerInv'
<1> DEFINE p == xjob[w].payment
<1>1. PICK step \in {"settled", "declined"} :
        /\ xpc[w] = "onRecord"
        /\ charged \subseteq charged' /\ charged' \subseteq charged \cup {p}
        /\ step = "settled" => p \notin charged /\ p \in charged'
        /\ Step(w, step)
        /\ UNCHANGED <<ledgerVars, identity, pay, sawAgent, xaccepted>>
  BY DEF SettleSucceeds, SettleFails
<1>2. p \in Payments /\ xjob[w].key \in AskKeys
  BY <1>1, Jobs
<1>3. LedgerTypeOK' /\ IdentityTypeOK' /\ ReservationsKept
  BY <1>1, LedgerKept
<1>4. /\ SellerTypeOK'
      /\ xjob' = xjob /\ xpc'[w] = step
      /\ \A v \in Processes \ {w} : xpc'[v] = xpc[v]
  BY <1>1, <1>2, StepTyped DEF IntakeTypeOK, SellerTypeOK, AskStep
<1>5. Owns(w)
  BY <1>1 DEF Owns
<1>6. ASSUME NEW v \in Processes
      PROVE  /\ Owns(v)' <=> Owns(v)
             /\ xpc'[v] = "answer" <=> xpc[v] = "answer"
             /\ v # w => (Creating(v)' <=> Creating(v))
             /\ Creating(w)' <=> step = "settled"
  BY <1>1, <1>4 DEF Owns, Creating
<1>7. BlankRows' /\ HeldRows' /\ HoldersDiffer'
  BY <1>1, <1>4, <1>6 DEF SellerInv, BlankRows, HeldRows, HoldersDiffer
<1>8. ASSUME step = "settled"
      PROVE  /\ \A k \in AskKeys : pay[k].mandate # Nothing => pay[k].payment # p
             /\ \A v \in Processes : Creating(v) => xjob[v].payment # p
  BY <1>1, <1>8 DEF SellerInv, WorkIsPaid, CreatorsPaid
<1>9. CreatorsPaid'
  <2> SUFFICES ASSUME NEW v \in Processes, Creating(v)'
               PROVE  /\ xjob[v].payment \in charged'
                      /\ \A k \in AskKeys : pay[k].mandate # Nothing
                                            => pay[k].payment # xjob[v].payment
                      /\ \A u \in Processes \ {v} : Creating(u)' => xjob[u].payment # xjob[v].payment
    BY <1>1, <1>4 DEF CreatorsPaid
  <2>1. CASE v = w
    BY <1>1, <1>6, <1>8, <2>1
  <2>2. CASE v # w
    BY <1>1, <1>6, <1>8, <2>2 DEF SellerInv, CreatorsPaid
  <2> QED
    BY <2>1, <2>2
<1>10. ChargedIsOnRecord'
  BY <1>1, <1>2, <1>5 DEF SellerInv, ChargedIsOnRecord, HeldRows
<1>11. WorkIsPaid' /\ WorkIsReserved'
  BY <1>1 DEF SellerInv, WorkIsPaid, WorkIsReserved, ledgerVars
<1> QED
  BY <1>3, <1>4, <1>7, <1>9, <1>10, <1>11 DEF SellerInv

LEMMA RecordFailureInv ==
  ASSUME IntakeTypeOK, SellerInv, NEW w \in Processes, RecordFailure(w)
  PROVE  LedgerTypeOK' /\ IdentityTypeOK' /\ SellerTypeOK' /\ SellerInv'
<1> DEFINE k == xjob[w].key
<1>1. /\ xpc[w] = "declined"
      /\ pay' = [pay EXCEPT ![k].status = "FAILED_SETTLE"]
      /\ Respond(w)
      /\ UNCHANGED <<ledgerVars, identity, charged, xaccepted>>
  BY DEF RecordFailure
<1>2. k \in AskKeys
  BY <1>1, Jobs
<1>3. LedgerTypeOK' /\ IdentityTypeOK' /\ ReservationsKept
  BY <1>1, LedgerKept
<1>4. pay' \in [AskKeys -> Payment]
  BY <1>1, <1>2 DEF IntakeTypeOK, SellerTypeOK, Payment, PaymentStatus
<1>5. SellerTypeOK' /\ \A v \in Processes : Follows(v)
  BY <1>1, <1>4, RespondTyped DEF IntakeTypeOK, SellerTypeOK
<1>6. \A j \in AskKeys : /\ pay'[j].payment = pay[j].payment
                         /\ pay'[j].request = pay[j].request
                         /\ pay'[j].mandate = pay[j].mandate
                         /\ pay'[j].status = IF j = k THEN "FAILED_SETTLE" ELSE pay[j].status
  <2>1. pay'[k] = [pay[k] EXCEPT !.status = "FAILED_SETTLE"]
    BY <1>1, <1>2 DEF IntakeTypeOK, SellerTypeOK
  <2>2. \A j \in AskKeys \ {k} : pay'[j] = pay[j]
    BY <1>1, <1>2 DEF IntakeTypeOK, SellerTypeOK
  <2>3. pay[k] \in Payment
    BY <1>2, Rows
  <2> QED
    BY <2>1, <2>2, <2>3 DEF Payment
<1>7. \A v \in Processes : Owns(v) => xjob[v].key \in AskKeys
  BY Jobs DEF Owns
<1>8. BlankRows'
  <2>1. pay[k].status # "NONE"
    BY <1>1 DEF SellerInv, HeldRows, Owns
  <2> QED
    BY <1>6, <2>1 DEF SellerInv, BlankRows
<1>9. HeldRows'
  BY <1>5, <1>6, <1>7 DEF SellerInv, HeldRows, Follows
<1>10. HoldersDiffer'
  BY <1>5 DEF SellerInv, HoldersDiffer, Follows
<1>11. ASSUME NEW v \in Processes, Creating(v)'
       PROVE  Creating(v) /\ xjob'[v] = xjob[v]
  BY <1>5, <1>11 DEF Follows, Creating, Owns
<1>12. CreatorsPaid'
  BY <1>1, <1>6, <1>11 DEF SellerInv, CreatorsPaid
<1>13. ChargedIsOnRecord'
  BY <1>1, <1>6 DEF SellerInv, ChargedIsOnRecord
<1>14. WorkIsPaid' /\ WorkIsReserved'
  BY <1>1, <1>6 DEF SellerInv, WorkIsPaid, WorkIsReserved, ledgerVars
<1> QED
  BY <1>3, <1>5, <1>8, <1>9, <1>10, <1>12, <1>13, <1>14 DEF SellerInv

LEMMA LookUpInv ==
  ASSUME IntakeTypeOK, SellerInv, NEW w \in Processes, LookUpAgent(w)
  PROVE  LedgerTypeOK' /\ IdentityTypeOK' /\ SellerTypeOK' /\ SellerInv'
<1>1. /\ xpc[w] = "settled" /\ Step(w, "create")
      /\ UNCHANGED <<ledgerVars, identity, pay, charged, xaccepted>>
  BY DEF LookUpAgent
<1>2. sawAgent' \in [Processes -> BOOLEAN]
  BY DEF LookUpAgent, IntakeTypeOK, SellerTypeOK
<1>3. /\ SellerTypeOK'
      /\ xjob' = xjob /\ xpc'[w] = "create"
      /\ \A v \in Processes \ {w} : xpc'[v] = xpc[v]
  BY <1>1, <1>2, StepTyped DEF IntakeTypeOK, SellerTypeOK, AskStep
<1>4. \A v \in Processes : Follows(v)
  BY <1>1, <1>3 DEF Follows, Owns, Creating
<1> QED
  BY <1>1, <1>3, <1>4, LedgerKept, SellerKept

(* What _create_settled_mandate writes on the payment row.                    *)
LEMMA Linked ==
  ASSUME IntakeTypeOK, NEW k \in AskKeys, NEW m \in Mandates, NEW collides, NEW fits \in BOOLEAN,
         pay' = [pay EXCEPT ![k].mandate = m,
                            ![k].status = IF collides THEN @ ELSE "SETTLED",
                            ![k].legible = IF collides THEN @ ELSE fits]
  PROVE  /\ pay' \in [AskKeys -> Payment]
         /\ \A j \in AskKeys \ {k} : pay'[j] = pay[j]
         /\ pay'[k].payment = pay[k].payment /\ pay'[k].request = pay[k].request
         /\ pay'[k].mandate = m
         /\ pay'[k].status \in {pay[k].status, "SETTLED"}
<1> DEFINE status == IF collides THEN pay[k].status ELSE "SETTLED"
           legible == IF collides THEN pay[k].legible ELSE fits
           row == [pay[k] EXCEPT !.mandate = m, !.status = status, !.legible = legible]
<1>1. pay \in [AskKeys -> Payment] /\ pay[k] \in Payment
  BY Rows DEF IntakeTypeOK, SellerTypeOK
<1>2. pay' = [pay EXCEPT ![k] = row]
  BY <1>1 DEF Payment
<1>3. row \in Payment
  BY <1>1 DEF Payment, PaymentStatus
<1>4. /\ row.payment = pay[k].payment /\ row.request = pay[k].request
      /\ row.mandate = m /\ row.status = status
  BY <1>1 DEF Payment
<1> HIDE DEF row
<1> QED
  BY <1>1, <1>2, <1>3, <1>4

LEMMA CreateInv ==
  ASSUME IntakeTypeOK, SellerInv, NEW w \in Processes, CreateSettled(w)
  PROVE  LedgerTypeOK' /\ IdentityTypeOK' /\ SellerTypeOK' /\ SellerInv'
<1> DEFINE ask == xjob[w]
           k == ask.key
           collides == Collides(ask.agent, sawAgent[w])
<1>1. PICK m \in Mandates, fits \in BOOLEAN :
        /\ Reserve(m, "M2M", Price, SellerMaximum)
        /\ pay' = [pay EXCEPT ![k].mandate = m,
                              ![k].status = IF collides THEN @ ELSE "SETTLED",
                              ![k].legible = IF collides THEN @ ELSE fits]
  <2>1. LongReceipts \in BOOLEAN
    BY SellerAssumption
  <2> QED
    BY <2>1 DEF CreateSettled
<1>2. /\ xpc[w] = "create" /\ Step(w, "answer")
      /\ Establish(ask.agent, PayerOf[ask.payment])
      /\ UNCHANGED <<charged, sawAgent, xaccepted>>
  BY DEF CreateSettled
<1>3. k \in AskKeys /\ ask.payment \in Payments
  BY <1>2, Jobs
<1>4. /\ LedgerTypeOK' /\ ReservationsKept
      /\ res'[m].status = "RESERVED" /\ budget'[m] = Price
  BY <1>1, ReserveNew, SellerAssumption DEF IntakeTypeOK
<1>5. IdentityTypeOK'
  BY <1>2, <1>3, EstablishTyped, SellerAssumption DEF IntakeTypeOK
<1>6. m # Nothing
  BY SellerAssumption
<1>7. /\ pay' \in [AskKeys -> Payment]
      /\ \A j \in AskKeys \ {k} : pay'[j] = pay[j]
      /\ pay'[k].payment = pay[k].payment /\ pay'[k].request = pay[k].request
      /\ pay'[k].mandate = m
      /\ pay'[k].status \in {pay[k].status, "SETTLED"}
  BY <1>1, <1>3, Linked
<1>8. /\ SellerTypeOK'
      /\ xjob' = xjob /\ xpc'[w] = "answer"
      /\ \A v \in Processes \ {w} : xpc'[v] = xpc[v]
  BY <1>2, <1>7, StepTyped DEF IntakeTypeOK, SellerTypeOK, AskStep
<1>9. ASSUME NEW v \in Processes
      PROVE  /\ Owns(v)' <=> Owns(v)
             /\ Creating(v)' <=> v # w /\ Creating(v)
  BY <1>2, <1>8 DEF Owns, Creating
<1>10. /\ Owns(w) /\ Creating(w)
       /\ pay[k].payment = ask.payment /\ pay[k].request = ask.request
       /\ pay[k].status # "NONE" /\ pay[k].mandate = Nothing
  BY <1>2 DEF SellerInv, HeldRows, Owns, Creating
<1>11. ASSUME NEW v \in Processes \ {w}, Owns(v)
       PROVE  xjob[v].key \in AskKeys \ {k}
  <2>1. xjob[v].key \in AskKeys
    BY <1>11, Jobs DEF Owns
  <2> QED
    BY <1>10, <1>11, <2>1 DEF SellerInv, HoldersDiffer
<1>12. BlankRows'
  <2>1. ask.request # Nothing
    BY <1>2, Jobs, SellerAssumption
  <2> QED
    BY <1>6, <1>7, <1>10, <2>1 DEF SellerInv, BlankRows
<1>13. HeldRows'
  <2> SUFFICES ASSUME NEW v \in Processes, Owns(v)
               PROVE  /\ pay'[xjob[v].key].payment = xjob[v].payment
                      /\ pay'[xjob[v].key].request = xjob[v].request
                      /\ pay'[xjob[v].key].status # "NONE"
                      /\ xpc'[v] = "answer" <=> pay'[xjob[v].key].mandate # Nothing
    BY <1>8, <1>9 DEF HeldRows
  <2>1. CASE v = w
    BY <1>6, <1>7, <1>8, <1>10, <2>1
  <2>2. CASE v # w
    BY <1>7, <1>8, <1>11, <2>2 DEF SellerInv, HeldRows
  <2> QED
    BY <2>1, <2>2
<1>14. HoldersDiffer'
  BY <1>8, <1>9 DEF SellerInv, HoldersDiffer
<1>15. CreatorsPaid'
  <2> SUFFICES ASSUME NEW v \in Processes \ {w}, Creating(v)
               PROVE  /\ xjob[v].payment \in charged
                      /\ \A j \in AskKeys : pay'[j].mandate # Nothing
                                            => pay'[j].payment # xjob[v].payment
                      /\ \A u \in Processes \ {v} :
                           Creating(u) => xjob[u].payment # xjob[v].payment
    BY <1>2, <1>8, <1>9 DEF CreatorsPaid
  <2> QED
    BY <1>7, <1>10 DEF SellerInv, CreatorsPaid
<1>16. ChargedIsOnRecord'
  BY <1>2, <1>7 DEF SellerInv, ChargedIsOnRecord
<1>17. /\ ask.payment \in charged
       /\ \A j \in AskKeys : pay[j].mandate # Nothing
                             => pay[j].payment # ask.payment /\ pay[j].mandate # m
  BY <1>1, <1>10 DEF SellerInv, CreatorsPaid, WorkIsReserved, Reserve
<1>18. ASSUME NEW j \in AskKeys \ {k}, pay[j].mandate # Nothing
       PROVE  /\ res'[pay[j].mandate].status # "NONE"
              /\ budget'[pay[j].mandate] = Price
  BY <1>4, <1>18, Rows DEF SellerInv, WorkIsPaid, WorkIsReserved, ReservationsKept
<1>19. WorkIsPaid'
  <2> SUFFICES ASSUME NEW j \in AskKeys, pay'[j].mandate # Nothing
               PROVE  /\ pay'[j].payment \in charged
                      /\ budget'[pay'[j].mandate] = Price
                      /\ \A other \in AskKeys \ {j} :
                           pay'[other].mandate # Nothing =>
                             /\ pay'[other].payment # pay'[j].payment
                             /\ pay'[other].mandate # pay'[j].mandate
    BY <1>2 DEF WorkIsPaid
  <2>1. CASE j = k
    BY <1>4, <1>7, <1>10, <1>17, <2>1
  <2>2. CASE j # k
    <3>1. pay[j].payment \in charged /\ budget'[pay[j].mandate] = Price
      BY <1>7, <1>18, <2>2 DEF SellerInv, WorkIsPaid
    <3>2. \A other \in AskKeys \ {j} :
            pay'[other].mandate # Nothing =>
              pay'[other].payment # pay[j].payment /\ pay'[other].mandate # pay[j].mandate
      BY <1>7, <1>10, <1>17, <2>2 DEF SellerInv, WorkIsPaid
    <3> QED
      BY <1>7, <2>2, <3>1, <3>2
  <2> QED
    BY <2>1, <2>2
<1>20. WorkIsReserved'
  BY <1>4, <1>7, <1>18 DEF WorkIsReserved
<1> QED
  BY <1>4, <1>5, <1>8, <1>12, <1>13, <1>14, <1>15, <1>16, <1>19, <1>20 DEF SellerInv

-----------------------------------------------------------------------------
(* Owners.                                                                  *)

(* What no step but the two creations does: touch a reservation, or the       *)
(* request or mandate of a row that has one.                                  *)
OwnersKept ==
  /\ UNCHANGED <<res, requests>>
  /\ \A k \in AskKeys : /\ pay'[k].mandate = pay[k].mandate
                        /\ pay[k].mandate # Nothing => pay'[k].request = pay[k].request

(* A new reservation, and the one row of either rail that is bound to it.     *)
AskedNow(k, q, m) ==
  /\ res[m].status = "NONE" /\ res'[m].status # "NONE"
  /\ \A n \in Mandates \ {m} : res'[n] = res[n]
  /\ requests[k] = Nothing
  /\ requests' = [requests EXCEPT ![k] = [request |-> q, mandate |-> m]]
  /\ pay' = pay

PaidNow(k, m) ==
  /\ res[m].status = "NONE" /\ res'[m].status # "NONE"
  /\ \A n \in Mandates \ {m} : res'[n] = res[n]
  /\ pay[k].mandate = Nothing /\ pay'[k].mandate = m /\ pay'[k].request = pay[k].request
  /\ \A j \in AskKeys \ {k} : pay'[j] = pay[j]
  /\ requests' = requests

LEMMA ReserveOne ==
  ASSUME LedgerTypeOK, NEW m \in Mandates, NEW x, NEW max, Reserve(m, "M2M", x, max)
  PROVE  /\ res[m].status = "NONE" /\ res'[m].status # "NONE"
         /\ \A n \in Mandates \ {m} : res'[n] = res[n]
BY DEF Reserve, LedgerTypeOK

LEMMA M2MOwners ==
  ASSUME IntakeTypeOK, M2MNext, UNCHANGED sellerVars
  PROVE  \/ OwnersKept
         \/ \E k \in M2MKeys, q \in M2MRequests, m \in Mandates :
               AskedNow(k, q, m) /\ UNCHANGED maccepted
<1>0. UNCHANGED pay
  BY DEF sellerVars
<1>1. ASSUME NEW t \in Threads, CreateMandate(t)
      PROVE  \E k \in M2MKeys, q \in M2MRequests, m \in Mandates :
               AskedNow(k, q, m) /\ UNCHANGED maccepted
  <2>1. mjob[t][1] \in M2MKeys /\ mjob[t][2] \in M2MRequests
    BY <1>1, Threaded DEF CreateMandate
  <2>2. PICK k \in M2MKeys, q \in M2MRequests : k = mjob[t][1] /\ q = mjob[t][2]
    BY <2>1
  <2>3. PICK m \in Mandates :
          /\ Reserve(m, "M2M", BudgetOf[q], M2MMaximum)
          /\ requests' = [requests EXCEPT ![k] = [request |-> q, mandate |-> m]]
    BY <1>1, <2>2 DEF CreateMandate
  <2>4. AskedNow(k, q, m)
    BY <1>0, <1>1, <2>2, <2>3, ReserveOne DEF AskedNow, CreateMandate, IntakeTypeOK
  <2> QED
    BY <1>1, <2>4 DEF CreateMandate
<1>2. ASSUME UNCHANGED <<ledgerVars, requests>>
      PROVE  OwnersKept
  BY <1>0, <1>2 DEF OwnersKept, ledgerVars
<1> QED
  BY <1>1, <1>2 DEF M2MNext, SubmitNew, SubmitAgain, CreateRefused, CreateCollides,
                    AnswerCreated, ThreadDies

LEMMA SellerOwners ==
  ASSUME IntakeTypeOK, SellerInv, SellerNext, UNCHANGED m2mVars
  PROVE  \/ OwnersKept
         \/ \E k \in AskKeys, m \in Mandates : PaidNow(k, m) /\ UNCHANGED xaccepted
<1>0. UNCHANGED requests /\ pay \in [AskKeys -> Payment]
  BY DEF m2mVars, IntakeTypeOK, SellerTypeOK
<1>1. ASSUME NEW w \in Processes, CreateSettled(w)
      PROVE  \E k \in AskKeys, m \in Mandates : PaidNow(k, m) /\ UNCHANGED xaccepted
  <2>1. xpc[w] = "create" /\ UNCHANGED xaccepted /\ xjob[w].key \in AskKeys
    BY <1>1, Jobs DEF CreateSettled
  <2>2. PICK k \in AskKeys : k = xjob[w].key
    BY <2>1
  <2> DEFINE collides == Collides(xjob[w].agent, sawAgent[w])
  <2>3. PICK m \in Mandates, fits \in BOOLEAN :
          /\ Reserve(m, "M2M", Price, SellerMaximum)
          /\ pay' = [pay EXCEPT ![k].mandate = m,
                                ![k].status = IF collides THEN @ ELSE "SETTLED",
                                ![k].legible = IF collides THEN @ ELSE fits]
    <3>1. LongReceipts \in BOOLEAN
      BY SellerAssumption
    <3> QED
      BY <1>1, <2>2, <3>1 DEF CreateSettled
  <2>4. pay[k].mandate = Nothing
    BY <2>1, <2>2 DEF SellerInv, HeldRows, Owns
  <2>5. /\ pay'[k].mandate = m /\ pay'[k].request = pay[k].request
        /\ \A j \in AskKeys \ {k} : pay'[j] = pay[j]
    BY <2>3, Linked
  <2>6. PaidNow(k, m)
    BY <1>0, <2>3, <2>4, <2>5, ReserveOne DEF PaidNow, IntakeTypeOK
  <2> QED
    BY <2>1, <2>6
<1>2. ASSUME UNCHANGED <<ledgerVars, pay>>
      PROVE  OwnersKept
  BY <1>0, <1>2 DEF OwnersKept, ledgerVars
<1>3. ASSUME NEW w \in Processes, PutOnRecord(w)
      PROVE  OwnersKept
  <2>1. xjob[w].key \in AskKeys
    BY <1>3, Jobs DEF PutOnRecord
  <2>2. pay[xjob[w].key].mandate = Nothing
    BY <1>3, <2>1 DEF PutOnRecord, SellerInv, BlankRows
  <2> QED
    BY <1>0, <1>3, <2>1, <2>2 DEF PutOnRecord, OwnersKept, ledgerVars
<1>4. ASSUME NEW w \in Processes, RecordFailure(w)
      PROVE  OwnersKept
  <2>1. xjob[w].key \in AskKeys
    BY <1>4, Jobs DEF RecordFailure
  <2> QED
    BY <1>0, <1>4, <2>1 DEF RecordFailure, OwnersKept, ledgerVars, Payment
<1> QED
  BY <1>1, <1>2, <1>3, <1>4
     DEF SellerNext, AskNew, AskAgain, RecordCollides, SettleSucceeds, SettleFails, LookUpAgent,
         CreateRefusedAfterSettlement, AnswerPaid, ProcessDies

LEMMA OwnedKept ==
  ASSUME OwnedOnce, OwnersKept
  PROVE  OwnedOnce'
<1>1. \A m \in Mandates : AskedAs(m)' = AskedAs(m) /\ PaidAs(m)' = PaidAs(m) /\ res'[m] = res[m]
  BY DEF OwnersKept, AskedAs, PaidAs
<1> QED
  BY <1>1 DEF OwnedOnce

LEMMA AskedOnce ==
  ASSUME IntakeTypeOK, OwnedOnce,
         NEW k \in M2MKeys, NEW q \in M2MRequests, NEW m \in Mandates, AskedNow(k, q, m)
  PROVE  OwnedOnce'
<1>1. /\ [request |-> q, mandate |-> m] # Nothing
      /\ requests'[k] = [request |-> q, mandate |-> m]
      /\ \A j \in M2MKeys \ {k} : requests'[j] = requests[j]
  BY M2MAssumption DEF AskedNow, IntakeTypeOK, M2MTypeOK
<1>2. \A n \in Mandates : PaidAs(n)' = PaidAs(n)
  BY DEF AskedNow, PaidAs
<1>3. \A n \in Mandates \ {m} : AskedAs(n)' = AskedAs(n)
  BY <1>1 DEF AskedNow, AskedAs
<1>4. AskedAs(m) = {} /\ PaidAs(m) = {}
  BY DEF OwnedOnce, AskedNow
<1>5. AskedAs(m)' = {k}
  BY <1>1, <1>4 DEF AskedAs
<1> QED
  BY <1>2, <1>3, <1>4, <1>5 DEF OwnedOnce, AskedNow

LEMMA PaidOnce ==
  ASSUME OwnedOnce, NEW k \in AskKeys, NEW m \in Mandates, PaidNow(k, m)
  PROVE  OwnedOnce'
<1>1. \A n \in Mandates : AskedAs(n)' = AskedAs(n)
  BY DEF PaidNow, AskedAs
<1>2. \A n \in Mandates \ {m} : PaidAs(n)' = PaidAs(n)
  BY SellerAssumption DEF PaidNow, PaidAs
<1>3. AskedAs(m) = {} /\ PaidAs(m) = {}
  BY DEF OwnedOnce, PaidNow
<1>4. PaidAs(m)' = {k}
  BY <1>3 DEF PaidAs, PaidNow
<1> QED
  BY <1>1, <1>2, <1>3, <1>4 DEF OwnedOnce, PaidNow

-----------------------------------------------------------------------------
(* The theorems.                                                            *)

LEMMA OwnersStep ==
  ASSUME IntakeInv, [IntakeNext]_intakeVars
  PROVE  OwnedOnce'
<1>1. CASE M2MNext /\ UNCHANGED sellerVars
  BY <1>1, M2MOwners, OwnedKept, AskedOnce DEF IntakeInv
<1>2. CASE SellerNext /\ UNCHANGED m2mVars
  BY <1>2, SellerOwners, OwnedKept, PaidOnce DEF IntakeInv
<1>3. CASE UNCHANGED intakeVars
  BY <1>3, OwnedKept DEF IntakeInv, OwnersKept, intakeVars, ledgerVars, m2mVars, sellerVars
<1> QED
  BY <1>1, <1>2, <1>3 DEF IntakeNext

LEMMA IntakeStep ==
  ASSUME IntakeInv, [IntakeNext]_intakeVars
  PROVE  IntakeInv'
<1>0. IntakeTypeOK /\ SellerInv
  BY DEF IntakeInv
<1> SUFFICES IntakeTypeOK' /\ SellerInv'
  BY OwnersStep DEF IntakeInv
<1>1. CASE M2MNext /\ UNCHANGED sellerVars
  <2>1. LedgerTypeOK' /\ IdentityTypeOK' /\ M2MTypeOK' /\ ReservationsKept
    BY <1>0, <1>1, M2MStep
  <2>2. SellerTypeOK'
    BY <1>0, <1>1 DEF IntakeTypeOK, SellerTypeOK, sellerVars
  <2>3. \A w \in Processes : Follows(w)
    BY <1>1 DEF sellerVars, Follows, Owns, Creating
  <2>4. SellerInv'
    BY <1>0, <1>1, <2>1, <2>3, SellerKept DEF sellerVars
  <2> QED
    BY <2>1, <2>2, <2>4 DEF IntakeTypeOK
<1>2. CASE SellerNext /\ UNCHANGED m2mVars
  <2>1. M2MTypeOK'
    BY <1>0, <1>2 DEF IntakeTypeOK, M2MTypeOK, m2mVars
  <2>2. LedgerTypeOK' /\ IdentityTypeOK' /\ SellerTypeOK' /\ SellerInv'
    BY <1>0, <1>2, AskInv, ResponseInv, PutOnRecordInv, SettleInv, RecordFailureInv,
       LookUpInv, CreateInv DEF SellerNext
  <2> QED
    BY <2>1, <2>2 DEF IntakeTypeOK
<1>3. CASE UNCHANGED intakeVars
  <2>1. UNCHANGED <<ledgerVars, identity, m2mVars, sellerVars>>
    BY <1>3 DEF intakeVars
  <2>2. IntakeTypeOK'
    BY <1>0, <2>1 DEF ledgerVars, m2mVars, sellerVars, IntakeTypeOK, LedgerTypeOK,
                      IdentityTypeOK, M2MTypeOK, SellerTypeOK
  <2>3. ReservationsKept /\ \A w \in Processes : Follows(w)
    BY <2>1 DEF ledgerVars, sellerVars, ReservationsKept, Follows, Owns, Creating
  <2>4. SellerInv'
    BY <1>0, <2>1, <2>3, SellerKept DEF sellerVars
  <2> QED
    BY <2>2, <2>4
<1> QED
  BY <1>1, <1>2, <1>3 DEF IntakeNext

LEMMA IntakeStart ==
  ASSUME IntakeInit
  PROVE  IntakeInv
<1>1. LedgerTypeOK
  BY LedgerInitTyped DEF IntakeInit
<1>2. IdentityTypeOK /\ M2MTypeOK
  BY DEF IntakeInit, IdentityInit, IdentityTypeOK, M2MInit, M2MTypeOK
<1>3. SellerTypeOK
  BY DEF IntakeInit, SellerInit, SellerTypeOK, NoPayment, Payment, PaymentStatus, AskStep
<1>4. SellerInv
  BY DEF IntakeInit, SellerInit, NoPayment, SellerInv, BlankRows, HeldRows, HoldersDiffer,
         CreatorsPaid, ChargedIsOnRecord, WorkIsPaid, WorkIsReserved, Owns, Creating
<1>5. OwnedOnce
  <2>1. \A m \in Mandates : res[m].status = "NONE"
    BY DEF IntakeInit, LedgerInit, NoReservation
  <2>2. \A m \in Mandates : AskedAs(m) = {} /\ PaidAs(m) = {}
    BY SellerAssumption
       DEF IntakeInit, M2MInit, SellerInit, NoPayment, AskedAs, PaidAs
  <2> QED
    BY <2>1, <2>2 DEF OwnedOnce
<1> QED
  BY <1>1, <1>2, <1>3, <1>4, <1>5 DEF IntakeInv, IntakeTypeOK

LEMMA IntakeInvariant == IntakeSpec => []IntakeInv
BY IntakeStart, IntakeStep, PTL DEF IntakeSpec

(* Whatever the two rails do, their rows, keys and answers stay well-formed;  *)
(* in particular every 202 names a mandate.                                   *)
THEOREM IntakeTypeCorrect == IntakeSpec => []IntakeTypeOK
<1>1. IntakeInv => IntakeTypeOK
  BY DEF IntakeInv
<1> QED
  BY <1>1, IntakeInvariant, PTL

(* _create_verified_payment before the facilitator's settle: for any number   *)
(* of racing and dying processes, a payment that moved is on record.          *)
THEOREM ChargedIsOnRecordHolds == IntakeSpec => []ChargedIsOnRecord
<1>1. IntakeInv => ChargedIsOnRecord
  BY DEF IntakeInv, SellerInv
<1> QED
  BY <1>1, IntakeInvariant, PTL

(* _create_settled_mandate: a mandate linked to a payment row was bought with *)
(* money that moved, at the price, and neither buys or is bought twice.       *)
THEOREM WorkIsPaidHolds == IntakeSpec => []WorkIsPaid
<1>1. IntakeInv => WorkIsPaid
  BY DEF IntakeInv, SellerInv
<1> QED
  BY <1>1, IntakeInvariant, PTL

(* OneRequestPerReservation: a race that is lost, a transaction that rolls    *)
(* back or a process that dies leaves no budget reserved without a request,   *)
(* and no two requests share a mandate, not even one of each rail.            *)
THEOREM OneRequestPerReservationHolds == IntakeSpec => []OneRequestPerReservation
<1>1. IntakeInv => OneRequestPerReservation
  <2> SUFFICES ASSUME IntakeInv, NEW m \in Mandates
               PROVE  Cardinality(AskedAs(m)) + Cardinality(PaidAs(m))
                        = IF res[m].status = "NONE" THEN 0 ELSE 1
    BY DEF OneRequestPerReservation, AskedAs, PaidAs
  <2>1. Cardinality({}) = 0 /\ \A k : Cardinality({k}) = 1
    BY FS_EmptySet, FS_Singleton
  <2>2. CASE res[m].status = "NONE"
    <3>1. AskedAs(m) = {} /\ PaidAs(m) = {}
      BY <2>2 DEF IntakeInv, OwnedOnce
    <3>2. Cardinality(AskedAs(m)) = 0 /\ Cardinality(PaidAs(m)) = 0
      BY <2>1, <3>1, Zenon
    <3> QED
      BY <2>2, <3>2
  <2>3. CASE res[m].status # "NONE"
    <3>1. \/ PaidAs(m) = {} /\ \E k \in M2MKeys : AskedAs(m) = {k}
          \/ AskedAs(m) = {} /\ \E k \in AskKeys : PaidAs(m) = {k}
      BY <2>3 DEF IntakeInv, OwnedOnce
    <3>2. \/ Cardinality(AskedAs(m)) = 1 /\ Cardinality(PaidAs(m)) = 0
          \/ Cardinality(AskedAs(m)) = 0 /\ Cardinality(PaidAs(m)) = 1
      BY <2>1, <3>1, Zenon
    <3> QED
      BY <2>3, <3>2
  <2> QED
    BY <2>2, <2>3
<1> QED
  BY <1>1, IntakeInvariant, PTL
-----------------------------------------------------------------------------
(* Both rails implement what an Idempotency-Key promises.                   *)

LEMMA M2MBindsOnce ==
  ASSUME IntakeInv, [IntakeNext]_intakeVars
  PROVE  [M2MPromise!Next]_<<requests, maccepted>>
<1>0. requests \in [M2MKeys -> Requested \cup {Nothing}]
  BY DEF IntakeInv, IntakeTypeOK, M2MTypeOK
<1>1. ASSUME NEW k \in M2MKeys, NEW q \in M2MRequests, NEW m \in Mandates,
             AskedNow(k, q, m), UNCHANGED maccepted
      PROVE  M2MPromise!Bind(k, q, m)
  <2>1. \A j \in M2MKeys : requests[j] # Nothing => requests[j].mandate # m
    BY <1>1 DEF IntakeInv, OwnedOnce, AskedAs, AskedNow
  <2> QED
    BY <1>1, <2>1 DEF AskedNow, M2MPromise!Bind
<1>2. ASSUME NEW k \in M2MKeys, NEW q \in M2MRequests, Replay(k, q), UNCHANGED requests
      PROVE  M2MPromise!Accept(k) \/ UNCHANGED <<requests, maccepted>>
  BY <1>2 DEF Replay, Matches, M2MPromise!Accept
<1>3. CASE M2MNext /\ UNCHANGED sellerVars
  <2>1. PICK t \in Threads :
          \/ \E k \in M2MKeys, q \in M2MRequests : SubmitNew(t, k, q) \/ SubmitAgain(t, k, q)
          \/ CreateRefused(t) \/ CreateMandate(t) \/ CreateCollides(t)
          \/ AnswerCreated(t) \/ ThreadDies(t)
    BY <1>3 DEF M2MNext
  <2>2. CASE CreateMandate(t)
    <3>1. ~OwnersKept
      BY <2>2, M2MAssumption, Threaded DEF CreateMandate, OwnersKept, IntakeInv, IntakeTypeOK, M2MTypeOK
    <3>2. PICK k \in M2MKeys, q \in M2MRequests, m \in Mandates :
            AskedNow(k, q, m) /\ UNCHANGED maccepted
      BY <1>3, <3>1, M2MOwners DEF IntakeInv
    <3> QED
      BY <1>1, <3>2 DEF M2MPromise!Next
  <2>3. CASE CreateCollides(t) \/ AnswerCreated(t)
    <3>1. mjob[t][1] \in M2MKeys /\ mjob[t][2] \in M2MRequests
      BY <2>3, Threaded DEF CreateCollides, AnswerCreated, IntakeInv
    <3> QED
      BY <1>2, <2>3, <3>1 DEF CreateCollides, AnswerCreated, M2MPromise!Next
  <2>4. CASE \E k \in M2MKeys, q \in M2MRequests : SubmitAgain(t, k, q)
    BY <1>2, <2>4 DEF SubmitAgain, M2MPromise!Next
  <2>5. CASE \/ \E k \in M2MKeys, q \in M2MRequests : SubmitNew(t, k, q)
             \/ CreateRefused(t) \/ ThreadDies(t)
    BY <2>5 DEF SubmitNew, CreateRefused, ThreadDies
  <2> QED
    BY <2>1, <2>2, <2>3, <2>4, <2>5
<1>4. CASE SellerNext /\ UNCHANGED m2mVars
  BY <1>4 DEF m2mVars
<1>5. CASE UNCHANGED intakeVars
  BY <1>5 DEF intakeVars, m2mVars
<1> QED
  BY <1>3, <1>4, <1>5 DEF IntakeNext

paidBound == [k \in AskKeys |-> PaidBinding(k)]

LEMMA PaidBound ==
  ASSUME IntakeInv, NEW k \in AskKeys
  PROVE  IF pay[k].mandate = Nothing THEN PaidBinding(k) = Nothing
         ELSE /\ PaidBinding(k) = [request |-> pay[k].request, mandate |-> pay[k].mandate]
              /\ PaidBinding(k) # Nothing
              /\ pay[k].request \in AskRequests /\ pay[k].mandate \in Mandates
<1>1. pay[k] \in Payment
  BY Rows DEF IntakeInv
<1>2. pay[k].mandate # Nothing => pay[k].request \in AskRequests /\ pay[k].mandate \in Mandates
  BY <1>1 DEF Payment, IntakeInv, SellerInv, BlankRows
<1> QED
  BY <1>2, SellerAssumption DEF PaidBinding

(* A step that leaves the bindings alone, by the answers it adds.             *)
LEMMA PaidAccepts ==
  ASSUME IntakeInv, OwnersKept
  PROVE  /\ paidBound' = paidBound
         /\ \A k \in AskKeys :
              /\ pay[k].mandate # Nothing
              /\ xaccepted' = xaccepted \cup {<<k, pay[k].request, pay[k].mandate>>}
              => PaidPromise!Accept(k)
<1>1. paidBound' = paidBound
  BY DEF OwnersKept, paidBound, PaidBinding
<1> QED
  BY <1>1, PaidBound DEF PaidPromise!Accept, paidBound

LEMMA PaidBinds ==
  ASSUME IntakeInv, IntakeInv', UNCHANGED xaccepted,
         NEW k \in AskKeys, NEW m \in Mandates, PaidNow(k, m)
  PROVE  PaidPromise!Bind(k, pay[k].request, m) /\ pay[k].request \in AskRequests
<1> DEFINE row == [request |-> pay[k].request, mandate |-> m]
<1>1. m # Nothing
  BY SellerAssumption
<1>2. PaidBinding(k)' = row /\ PaidBinding(k) = Nothing
  BY <1>1 DEF PaidNow, PaidBinding
<1>3. \A j \in AskKeys \ {k} : PaidBinding(j)' = PaidBinding(j)
  BY DEF PaidNow, PaidBinding
<1>4. paidBound' = [paidBound EXCEPT ![k] = row]
  BY <1>2, <1>3 DEF paidBound
<1>5. \A j \in AskKeys : paidBound[j] # Nothing => paidBound[j].mandate # m
  <2>1. \A j \in AskKeys : pay[j].mandate # m
    BY DEF IntakeInv, OwnedOnce, PaidAs, PaidNow
  <2> QED
    BY <2>1, PaidBound DEF paidBound
<1>6. pay[k].request \in AskRequests
  <2>1. pay'[k] \in Payment /\ pay'[k].mandate = m /\ pay'[k].request = pay[k].request
    BY DEF IntakeInv, IntakeTypeOK, SellerTypeOK, PaidNow
  <2>2. pay'[k].request # Nothing
    BY <1>1, <2>1 DEF IntakeInv, SellerInv, BlankRows
  <2> QED
    BY <2>1, <2>2 DEF Payment
<1> QED
  BY <1>2, <1>4, <1>5, <1>6 DEF PaidPromise!Bind, paidBound

LEMMA PaidBindsOnce ==
  ASSUME IntakeInv, IntakeInv', [IntakeNext]_intakeVars
  PROVE  [PaidPromise!Next]_<<paidBound, xaccepted>>
<1>1. CASE M2MNext /\ UNCHANGED sellerVars
  BY <1>1 DEF sellerVars, paidBound, PaidBinding
<1>2. CASE UNCHANGED intakeVars
  BY <1>2 DEF intakeVars, sellerVars, paidBound, PaidBinding
<1>3. ASSUME NEW k \in AskKeys, NEW m \in Mandates, PaidNow(k, m), UNCHANGED xaccepted
      PROVE  PaidPromise!Next
  BY <1>3, PaidBinds DEF PaidPromise!Next
<1>4. CASE SellerNext /\ UNCHANGED m2mVars
  <2>1. OwnersKept \/ \E k \in AskKeys, m \in Mandates : PaidNow(k, m) /\ UNCHANGED xaccepted
    BY <1>4, SellerOwners DEF IntakeInv
  <2>2. ASSUME OwnersKept
        PROVE  \/ UNCHANGED xaccepted
               \/ \E k \in AskKeys :
                     /\ pay[k].mandate # Nothing
                     /\ xaccepted' = xaccepted \cup {<<k, pay[k].request, pay[k].mandate>>}
    <3>1. ASSUME NEW w \in Processes, NEW ask \in Asks, AskAgain(w, ask.key, ask.request)
          PROVE  \E k \in AskKeys :
                     /\ pay[k].mandate # Nothing
                     /\ xaccepted' = xaccepted \cup {<<k, pay[k].request, pay[k].mandate>>}
      <4>1. ask.key \in AskKeys
        BY SellerAssumption DEF Ask
      <4> QED
        BY <3>1, <4>1 DEF AskAgain, Replayable, IntakeInv, SellerInv, BlankRows
    <3>2. ASSUME NEW w \in Processes, AnswerPaid(w)
          PROVE  \E k \in AskKeys :
                     /\ pay[k].mandate # Nothing
                     /\ xaccepted' = xaccepted \cup {<<k, pay[k].request, pay[k].mandate>>}
      <4>1. xjob[w].key \in AskKeys
        BY <3>2, Jobs DEF AnswerPaid, IntakeInv
      <4> QED
        BY <3>2, <4>1 DEF AnswerPaid, IntakeInv, SellerInv, HeldRows, Owns
    <3> QED
      BY <1>4, <3>1, <3>2
         DEF SellerNext, AskNew, PutOnRecord, RecordCollides, SettleSucceeds, SettleFails,
             RecordFailure, LookUpAgent, CreateSettled, CreateRefusedAfterSettlement, ProcessDies
  <2>3. CASE OwnersKept
    BY <2>2, <2>3, PaidAccepts DEF PaidPromise!Next
  <2> QED
    BY <1>3, <2>1, <2>3
<1> QED
  BY <1>1, <1>2, <1>4 DEF IntakeNext

(* "Repeating the same Idempotency-Key returns the original Mandate", on      *)
(* both rails: however requests race, processes die and clients repeat, a key *)
(* is bound once, to a mandate of its own, and every 202 under it names that  *)
(* mandate and answers the request that created it.                           *)
THEOREM IntakeImplemented == IntakeSpec => ImplementsIntake
<1>1. IntakeInit => M2MPromise!Init
  BY DEF IntakeInit, M2MInit, M2MPromise!Init
<1>2. IntakeInit => PaidPromise!Init
  BY DEF IntakeInit, SellerInit, NoPayment, PaidBinding, PaidPromise!Init
<1>3. IntakeInv /\ [IntakeNext]_intakeVars => [M2MPromise!Next]_<<requests, maccepted>>
  BY M2MBindsOnce
<1>4. /\ IntakeInv /\ IntakeInv' /\ [IntakeNext]_intakeVars
      => [PaidPromise!Next]_<<[k \in AskKeys |-> PaidBinding(k)], xaccepted>>
  BY PaidBindsOnce DEF paidBound
<1> QED
  BY <1>1, <1>2, <1>3, <1>4, IntakeInvariant, PTL
     DEF IntakeSpec, ImplementsIntake, M2MPromise!Spec, PaidPromise!Spec
=============================================================================
