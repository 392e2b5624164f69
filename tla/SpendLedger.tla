------------------------------ MODULE SpendLedger ------------------------------
(***************************************************************************)
(* The G12 spend ledger of backend/app/public_safety.py.  One row per UTC  *)
(* day carries what is reserved and what is spent; every paid mandate has  *)
(* one reservation against the row of the day it was created on.  The      *)
(* three operations run inside a caller's database transaction, on rows    *)
(* they lock (the conditional upsert, SELECT ... FOR UPDATE), so each is   *)
(* one action.  Amounts are counted in micro-USDC, i.e. after quantize().  *)
(***************************************************************************)
EXTENDS Naturals, FiniteSets, Functions

CONSTANTS
  Mandates,       \* mandate ids
  Origins,        \* Mandate.origin: MANUAL, USER, M2M, AUTONOMOUS
  LastDay,        \* BOUND: the last UTC day the model reaches
  Cap,            \* global_daily_spend_cap_usdc()
  Amounts,        \* amounts a caller may ask to reserve or to settle
  Maxima,         \* workflow ceilings a caller may pass as `maximum`
  NoOrigin        \* the origin field of a reservation row that does not exist

(* A mandate id is a UUID, of which there are finitely many.                 *)
ASSUME LedgerAssumption ==
  /\ IsFiniteSet(Mandates)
  /\ LastDay \in Nat
  /\ Cap \in Nat
  /\ Amounts \subseteq Nat
  /\ Maxima \subseteq Nat
  /\ NoOrigin \notin Origins

Days == 0 .. LastDay

VARIABLES
  today,          \* the UTC date the database session sees
  ledger,         \* PublicManualSpendLedger, by day
  res,            \* PublicManualSpendReservation, by mandate
  budget          \* Mandate.max_budget_usdc, the amount first reserved

ledgerVars == <<today, ledger, res, budget>>

ReservationStatus == {"NONE", "RESERVED", "SETTLED", "RELEASED"}

Reservation ==
  [status: ReservationStatus, day: Days, origin: Origins \cup {NoOrigin},
   reserved: Nat, actual: Nat]

NoReservation ==
  [status |-> "NONE", day |-> 0, origin |-> NoOrigin, reserved |-> 0, actual |-> 0]

LedgerInit ==
  /\ today = 0
  /\ ledger = [d \in Days |-> [reserved |-> 0, spent |-> 0]]
  /\ res = [m \in Mandates |-> NoReservation]
  /\ budget = [m \in Mandates |-> 0]

-----------------------------------------------------------------------------
(* Reserving: _reserve_spend.  A row that does not exist yet is a row of   *)
(* zeros: the INSERT branch is preceded by the same comparison with Cap.   *)

(* Mutant of ReserveOK: what is already spent is forgotten.                  *)
ReserveOK_SpentForgotten(amount, maximum) ==
  amount > 0 /\ amount <= maximum /\ ledger[today].reserved + amount <= Cap

ReserveOK(amount, maximum) ==
  /\ amount > 0
  /\ amount <= maximum
  /\ ledger[today].spent + ledger[today].reserved + amount <= Cap

Reserve(m, origin, amount, maximum) ==
  /\ res[m].status = "NONE"
  /\ ReserveOK(amount, maximum)
  /\ ledger' = [ledger EXCEPT ![today].reserved = @ + amount]
  /\ res' = [res EXCEPT ![m] = [status |-> "RESERVED", day |-> today, origin |-> origin,
                                reserved |-> amount, actual |-> 0]]
  /\ budget' = [budget EXCEPT ![m] = amount]
  /\ UNCHANGED today

-----------------------------------------------------------------------------
(* Settling and releasing.                                                 *)

Verified(r, maximum, origin) ==
  /\ r.status = "RESERVED"
  /\ r.origin = origin
  /\ r.reserved > 0
  /\ r.reserved <= maximum

VerifyReservation(m, maximum, origin) == Verified(res[m], maximum, origin)

LedgerCovers(m) == ledger[res[m].day].reserved >= res[m].reserved

SettleOK(r, actual, maximum, origin) ==
  /\ Verified(r, maximum, origin)
  /\ actual <= r.reserved
  /\ ledger[r.day].reserved >= r.reserved

(* Mutants of SettleSeen: what is booked replaces what was spent; the        *)
(* reservation still holds what it paid.                                     *)
SettleSeen_SpentReplaced(m, r, actual, maximum, origin, finalize) ==
  /\ SettleOK(r, actual, maximum, origin)
  /\ ledger' = [ledger EXCEPT ![r.day] =
                  [reserved |-> @.reserved - (IF finalize THEN r.reserved ELSE actual),
                   spent    |-> actual]]
  /\ res' = [res EXCEPT ![m].status = IF finalize THEN "SETTLED" ELSE @,
                        ![m].reserved = IF finalize THEN 0 ELSE @ - actual,
                        ![m].actual = @ + actual]
  /\ UNCHANGED <<today, budget>>
SettleSeen_HoldKept(m, r, actual, maximum, origin, finalize) ==
  /\ SettleOK(r, actual, maximum, origin)
  /\ ledger' = [ledger EXCEPT ![r.day] =
                  [reserved |-> @.reserved - (IF finalize THEN r.reserved ELSE actual),
                   spent    |-> @.spent + actual]]
  /\ res' = [res EXCEPT ![m].actual = @ + actual]
  /\ UNCHANGED <<today, budget>>

(* settle_spend, over the reservation the session holds: r is the row itself *)
(* unless the session loaded it earlier (SELECT FOR UPDATE does not refresh a*)
(* loaded object).  A final settlement also hands the remainder back.        *)
SettleSeen(m, r, actual, maximum, origin, finalize) ==
  LET remainder == r.reserved - actual IN
  /\ SettleOK(r, actual, maximum, origin)
  /\ ledger' = [ledger EXCEPT ![r.day] =
                  [reserved |-> @.reserved - actual - (IF finalize THEN remainder ELSE 0),
                   spent    |-> @.spent + actual]]
  /\ res' = [res EXCEPT ![m] =
               [status   |-> IF finalize THEN "SETTLED" ELSE @.status,
                day      |-> @.day,
                origin   |-> @.origin,
                reserved |-> IF finalize THEN 0 ELSE remainder,
                actual   |-> r.actual + actual]]
  /\ UNCHANGED <<today, budget>>

(* Mutant of Settle: booked on the row of the current day.                   *)
Settle_Today(m, actual, maximum, origin, finalize) ==
  SettleSeen(m, [res[m] EXCEPT !.day = today], actual, maximum, origin, finalize)

Settle(m, actual, maximum, origin, finalize) ==
  SettleSeen(m, res[m], actual, maximum, origin, finalize)

(* release_spend_reservation: reserved_usdc keeps the released amount.     *)
Releasable(m, origin) ==
  /\ res[m].status = "RESERVED"
  /\ res[m].origin = origin

Release(m, origin) ==
  /\ Releasable(m, origin)
  /\ LedgerCovers(m)
  /\ ledger' = [ledger EXCEPT ![res[m].day].reserved = @ - res[m].reserved]
  /\ res' = [res EXCEPT ![m].status = "RELEASED"]
  /\ UNCHANGED <<today, budget>>

(* Midnight UTC: later reservations are charged to the next day's row.     *)
NextDay ==
  /\ today < LastDay
  /\ today' = today + 1
  /\ UNCHANGED <<ledger, res, budget>>

LedgerNext ==
  \/ \E m \in Mandates, o \in Origins, x \in Amounts, max \in Maxima :
        \/ Reserve(m, o, x, max)
        \/ \E finalize \in BOOLEAN : Settle(m, x, max, o, finalize)
  \/ \E m \in Mandates, o \in Origins : Release(m, o)
  \/ NextDay

LedgerSpec == LedgerInit /\ [][LedgerNext]_ledgerVars

-----------------------------------------------------------------------------
(* Properties.                                                             *)

LedgerTypeOK ==
  /\ today \in Days
  /\ ledger \in [Days -> [reserved: Nat, spent: Nat]]
  /\ res \in [Mandates -> Reservation]
  /\ budget \in [Mandates -> Nat]

(* "spent + reserved can therefore never exceed the cap": whatever order    *)
(* concurrent mandates reserve, settle part by part and release in.         *)
DailyCap == \A d \in Days : ledger[d].spent + ledger[d].reserved <= Cap

(* A mandate never moves more than the budget it reserved: what it spent    *)
(* and what it still holds stay within Mandate.max_budget_usdc, in every    *)
(* split of the budget over partial settlements.                            *)
WithinBudget ==
  \A m \in Mandates :
     res[m].actual + (IF res[m].status = "RESERVED" THEN res[m].reserved ELSE 0)
       <= budget[m]

(* The day row is exactly the sum of the reservations charged to it: nothing *)
(* leaks when a budget is settled in parts, finalized or released, so the   *)
(* ledger.reserved_usdc < reservation.reserved_usdc refusal never fires.    *)
ReservedBacked ==
  \A d \in Days :
     LET onDay == {m \in Mandates : res[m].status # "NONE" /\ res[m].day = d}
         open  == {m \in onDay : res[m].status = "RESERVED"} IN
     /\ ledger[d].reserved = SumFunctionOnSet([m \in Mandates |-> res[m].reserved], open)
     /\ ledger[d].spent = SumFunctionOnSet([m \in Mandates |-> res[m].actual], onDay)

(* Money once booked as spent is never taken back, and a reservation that   *)
(* was settled or released is never reopened or charged again.              *)
SpentIsFinal ==
  [][ /\ \A d \in Days : ledger'[d].spent >= ledger[d].spent
      /\ \A m \in Mandates :
            res[m].status \in {"SETTLED", "RELEASED"} => res'[m] = res[m]
    ]_ledgerVars
=============================================================================
