------------------------------ MODULE Ledgers_proofs ------------------------------
(***************************************************************************)
(* Theorems about the two ledgers, the daily spend ledger and the credit   *)
(* of e-mail users, each under its own specification: for every set of     *)
(* mandates, origins and users, every cap, every number of days and every  *)
(* amount.                                                                 *)
(***************************************************************************)
EXTENDS SpendLedger, UserCredit, FiniteSums

(* The spend ledger.  Its types first.                                       *)

(* What the type invariant says of one reservation and of its day's row.      *)
LEMMA ReservationTyped ==
  ASSUME LedgerTypeOK, NEW m \in Mandates
  PROVE  /\ res[m] \in Reservation
         /\ res[m].status \in ReservationStatus
         /\ res[m].day \in Days
         /\ res[m].origin \in Origins \cup {NoOrigin}
         /\ res[m].reserved \in Nat
         /\ res[m].actual \in Nat
         /\ ledger[res[m].day] \in [reserved: Nat, spent: Nat]
         /\ ledger[res[m].day].reserved \in Nat
         /\ ledger[res[m].day].spent \in Nat
BY DEF LedgerTypeOK, Reservation

LEMMA ReserveTyped ==
  ASSUME LedgerTypeOK, NEW m \in Mandates, NEW o \in Origins, NEW x \in Nat, NEW max \in Nat,
         Reserve(m, o, x, max)
  PROVE  LedgerTypeOK'
<1>1. ledger[today] \in [reserved: Nat, spent: Nat]
  BY DEF LedgerTypeOK
<1>2. ledger' \in [Days -> [reserved: Nat, spent: Nat]]
  BY <1>1 DEF Reserve, LedgerTypeOK
<1>3. res' \in [Mandates -> Reservation]
  BY DEF Reserve, LedgerTypeOK, Reservation, ReservationStatus
<1>4. budget' \in [Mandates -> Nat]
  BY DEF Reserve, LedgerTypeOK
<1> QED
  BY <1>2, <1>3, <1>4 DEF Reserve, LedgerTypeOK

(* The guards of a settlement are what keeps the subtractions natural, also   *)
(* for one computed from a reservation row that was loaded earlier.           *)
LEMMA SettleSeenTyped ==
  ASSUME LedgerTypeOK, NEW m \in Mandates, NEW r \in Reservation, NEW o \in Origins,
         NEW x \in Nat, NEW max \in Nat, NEW finalize \in BOOLEAN,
         SettleSeen(m, r, x, max, o, finalize)
  PROVE  LedgerTypeOK'
<1> DEFINE d         == r.day
           remainder == r.reserved - x
           row       == [reserved |-> ledger[d].reserved - x
                                        - (IF finalize THEN remainder ELSE 0),
                         spent    |-> ledger[d].spent + x]
<1>0. /\ r.reserved \in Nat /\ r.actual \in Nat /\ d \in Days
      /\ ledger[d] \in [reserved: Nat, spent: Nat]
  BY DEF Reservation, LedgerTypeOK
<1>1. /\ x <= r.reserved
      /\ r.reserved <= ledger[d].reserved
  BY <1>0 DEF SettleSeen, SettleOK
<1>2. remainder \in Nat
  BY <1>0, <1>1
<1>3. row \in [reserved: Nat, spent: Nat]
  BY <1>0, <1>1, <1>2
<1>4. ledger' \in [Days -> [reserved: Nat, spent: Nat]]
  BY <1>3 DEF SettleSeen, LedgerTypeOK
<1>5. res' \in [Mandates -> Reservation]
  <2>1. r.actual + x \in Nat
    BY <1>0
  <2> QED
    BY <1>2, <2>1, ReservationTyped DEF SettleSeen, LedgerTypeOK, Reservation, ReservationStatus
<1> QED
  BY <1>4, <1>5 DEF SettleSeen, LedgerTypeOK

LEMMA SettleTyped ==
  ASSUME LedgerTypeOK, NEW m \in Mandates, NEW o \in Origins, NEW x \in Nat, NEW max \in Nat,
         NEW finalize \in BOOLEAN, Settle(m, x, max, o, finalize)
  PROVE  LedgerTypeOK'
BY SettleSeenTyped, ReservationTyped DEF Settle

LEMMA ReleaseTyped ==
  ASSUME LedgerTypeOK, NEW m \in Mandates, NEW o \in Origins, Release(m, o)
  PROVE  LedgerTypeOK'
<1>1. ledger[res[m].day].reserved - res[m].reserved \in Nat
  BY ReservationTyped DEF Release, LedgerCovers
<1>2. ledger' \in [Days -> [reserved: Nat, spent: Nat]]
  BY <1>1, ReservationTyped DEF Release, LedgerTypeOK
<1>3. res' \in [Mandates -> Reservation]
  BY ReservationTyped DEF Release, LedgerTypeOK, Reservation, ReservationStatus
<1> QED
  BY <1>2, <1>3 DEF Release, LedgerTypeOK

LEMMA NextDayTyped == LedgerTypeOK /\ NextDay => LedgerTypeOK'
BY LedgerAssumption DEF NextDay, LedgerTypeOK, Days

LEMMA LedgerTypeStep == LedgerTypeOK /\ [LedgerNext]_ledgerVars => LedgerTypeOK'
<1> SUFFICES ASSUME LedgerTypeOK, [LedgerNext]_ledgerVars PROVE LedgerTypeOK'
  OBVIOUS
<1>1. Amounts \subseteq Nat /\ Maxima \subseteq Nat
  BY LedgerAssumption
<1>2. CASE UNCHANGED ledgerVars
  BY <1>2 DEF ledgerVars, LedgerTypeOK
<1>3. ASSUME NEW m \in Mandates, NEW o \in Origins, NEW x \in Amounts, NEW max \in Maxima,
             Reserve(m, o, x, max)
      PROVE  LedgerTypeOK'
  BY <1>1, <1>3, ReserveTyped
<1>4. ASSUME NEW m \in Mandates, NEW o \in Origins, NEW x \in Amounts, NEW max \in Maxima,
             NEW finalize \in BOOLEAN, Settle(m, x, max, o, finalize)
      PROVE  LedgerTypeOK'
  BY <1>1, <1>4, SettleTyped
<1>5. ASSUME NEW m \in Mandates, NEW o \in Origins, Release(m, o)
      PROVE  LedgerTypeOK'
  BY <1>5, ReleaseTyped
<1> QED
  BY <1>2, <1>3, <1>4, <1>5, NextDayTyped DEF LedgerNext

LEMMA LedgerInitTyped == LedgerInit => LedgerTypeOK
BY LedgerAssumption
   DEF LedgerInit, LedgerTypeOK, Days, NoReservation, Reservation, ReservationStatus

(* The ledger's rows and reservations always have their declared shape.       *)
THEOREM LedgerTypeCorrect == LedgerSpec => []LedgerTypeOK
BY LedgerInitTyped, LedgerTypeStep, PTL DEF LedgerSpec

-----------------------------------------------------------------------------
(* The daily cap.  DailyCap is inductive on top of the types: only Reserve    *)
(* raises spent + reserved, and its guard is the cap itself.                  *)

LEMMA ReserveKeepsCap ==
  ASSUME LedgerTypeOK, DailyCap, NEW m \in Mandates, NEW o \in Origins, NEW x \in Nat,
         NEW max \in Nat, Reserve(m, o, x, max)
  PROVE  DailyCap'
<1> SUFFICES ASSUME NEW d \in Days
             PROVE  ledger'[d].spent + ledger'[d].reserved <= Cap
  BY DEF DailyCap
<1>1. ledger[d] \in [reserved: Nat, spent: Nat] /\ ledger[d].spent + ledger[d].reserved <= Cap
  BY DEF LedgerTypeOK, DailyCap
<1>2. CASE d = today
  <2>1. ledger'[d].spent = ledger[d].spent /\ ledger'[d].reserved = ledger[d].reserved + x
    BY <1>1, <1>2 DEF Reserve, LedgerTypeOK
  <2> QED
    BY <1>1, <1>2, <2>1, LedgerAssumption DEF Reserve, ReserveOK
<1>3. CASE d # today
  BY <1>1, <1>3 DEF Reserve, LedgerTypeOK
<1> QED
  BY <1>2, <1>3

LEMMA SettleSeenKeepsCap ==
  ASSUME LedgerTypeOK, DailyCap, NEW m \in Mandates, NEW r \in Reservation, NEW o \in Origins,
         NEW x \in Nat, NEW max \in Nat, NEW finalize \in BOOLEAN,
         SettleSeen(m, r, x, max, o, finalize)
  PROVE  DailyCap'
<1> SUFFICES ASSUME NEW d \in Days
             PROVE  ledger'[d].spent + ledger'[d].reserved <= Cap
  BY DEF DailyCap
<1>1. ledger[d] \in [reserved: Nat, spent: Nat] /\ ledger[d].spent + ledger[d].reserved <= Cap
  BY DEF LedgerTypeOK, DailyCap
<1>2. CASE d = r.day
  <2>1. /\ ledger'[d].spent = ledger[d].spent + x
        /\ ledger'[d].reserved = ledger[d].reserved - x
                                    - (IF finalize THEN r.reserved - x ELSE 0)
    BY <1>1, <1>2 DEF SettleSeen, LedgerTypeOK
  <2>2. x <= r.reserved /\ r.reserved \in Nat
    BY DEF SettleSeen, SettleOK, Reservation
  <2> QED
    BY <1>1, <2>1, <2>2, LedgerAssumption
<1>3. CASE d # r.day
  BY <1>1, <1>3 DEF SettleSeen, LedgerTypeOK
<1> QED
  BY <1>2, <1>3

LEMMA SettleKeepsCap ==
  ASSUME LedgerTypeOK, DailyCap, NEW m \in Mandates, NEW o \in Origins, NEW x \in Nat,
         NEW max \in Nat, NEW finalize \in BOOLEAN, Settle(m, x, max, o, finalize)
  PROVE  DailyCap'
BY SettleSeenKeepsCap, ReservationTyped DEF Settle

LEMMA ReleaseKeepsCap ==
  ASSUME LedgerTypeOK, DailyCap, NEW m \in Mandates, NEW o \in Origins, Release(m, o)
  PROVE  DailyCap'
<1> SUFFICES ASSUME NEW d \in Days
             PROVE  ledger'[d].spent + ledger'[d].reserved <= Cap
  BY DEF DailyCap
<1>1. ledger[d] \in [reserved: Nat, spent: Nat] /\ ledger[d].spent + ledger[d].reserved <= Cap
  BY DEF LedgerTypeOK, DailyCap
<1>2. CASE d = res[m].day
  <2>1. /\ ledger'[d].spent = ledger[d].spent
        /\ ledger'[d].reserved = ledger[d].reserved - res[m].reserved
    BY <1>1, <1>2 DEF Release, LedgerTypeOK
  <2> QED
    BY <1>1, <2>1, ReservationTyped, LedgerAssumption
<1>3. CASE d # res[m].day
  BY <1>1, <1>3 DEF Release, LedgerTypeOK
<1> QED
  BY <1>2, <1>3

LEMMA DailyCapStep == LedgerTypeOK /\ DailyCap /\ [LedgerNext]_ledgerVars => DailyCap'
<1> SUFFICES ASSUME LedgerTypeOK, DailyCap, [LedgerNext]_ledgerVars PROVE DailyCap'
  OBVIOUS
<1>1. Amounts \subseteq Nat /\ Maxima \subseteq Nat
  BY LedgerAssumption
<1>2. CASE UNCHANGED ledgerVars \/ NextDay
  BY <1>2 DEF ledgerVars, NextDay, DailyCap
<1>3. ASSUME NEW m \in Mandates, NEW o \in Origins, NEW x \in Amounts, NEW max \in Maxima,
             Reserve(m, o, x, max)
      PROVE  DailyCap'
  BY <1>1, <1>3, ReserveKeepsCap
<1>4. ASSUME NEW m \in Mandates, NEW o \in Origins, NEW x \in Amounts, NEW max \in Maxima,
             NEW finalize \in BOOLEAN, Settle(m, x, max, o, finalize)
      PROVE  DailyCap'
  BY <1>1, <1>4, SettleKeepsCap
<1>5. ASSUME NEW m \in Mandates, NEW o \in Origins, Release(m, o)
      PROVE  DailyCap'
  BY <1>5, ReleaseKeepsCap
<1> QED
  BY <1>2, <1>3, <1>4, <1>5 DEF LedgerNext

(* No interleaving of reservations, settlements and releases takes a day's    *)
(* spent plus reserved past the cap, whatever the cap and the budgets are.    *)
THEOREM DailyCapHolds == LedgerSpec => []DailyCap
<1>1. LedgerInit => DailyCap
  BY LedgerAssumption DEF LedgerInit, DailyCap
<1> QED
  BY <1>1, LedgerInitTyped, LedgerTypeStep, DailyCapStep, PTL DEF LedgerSpec

-----------------------------------------------------------------------------
(* One mandate's budget.                                                      *)

LEMMA WithinBudgetStep == LedgerTypeOK /\ WithinBudget /\ [LedgerNext]_ledgerVars => WithinBudget'
<1> SUFFICES ASSUME LedgerTypeOK, WithinBudget, [LedgerNext]_ledgerVars, NEW n \in Mandates
             PROVE  WithinBudget!(n)'
  BY DEF WithinBudget
<1>1. /\ Amounts \subseteq Nat
      /\ WithinBudget!(n)
      /\ budget[n] \in Nat
  BY LedgerAssumption DEF WithinBudget, LedgerTypeOK
<1>2. CASE UNCHANGED ledgerVars \/ NextDay
  BY <1>1, <1>2 DEF ledgerVars, NextDay
<1>3. ASSUME NEW m \in Mandates, NEW o \in Origins, NEW x \in Amounts, NEW max \in Maxima,
             Reserve(m, o, x, max)
      PROVE  WithinBudget!(n)'
  BY <1>1, <1>3 DEF Reserve, LedgerTypeOK
<1>4. ASSUME NEW m \in Mandates, NEW o \in Origins, NEW x \in Amounts, NEW max \in Maxima,
             NEW finalize \in BOOLEAN, Settle(m, x, max, o, finalize)
      PROVE  WithinBudget!(n)'
  <2>1. x <= res[m].reserved /\ res[m].status = "RESERVED" /\ budget' = budget
    BY <1>4 DEF Settle, SettleSeen, SettleOK, Verified
  <2>2. CASE n = m
    <3>1. /\ res'[n].actual = res[n].actual + x
          /\ res'[n].reserved = IF finalize THEN 0 ELSE res[n].reserved - x
          /\ res'[n].status = IF finalize THEN "SETTLED" ELSE res[n].status
      BY <1>4, <2>2 DEF Settle, SettleSeen, LedgerTypeOK
    <3> QED
      BY <1>1, <2>1, <2>2, <3>1, ReservationTyped
  <2>3. CASE n # m
    BY <1>1, <1>4, <2>1, <2>3 DEF Settle, SettleSeen, LedgerTypeOK
  <2> QED
    BY <2>2, <2>3
<1>5. ASSUME NEW m \in Mandates, NEW o \in Origins, Release(m, o)
      PROVE  WithinBudget!(n)'
  <2>1. /\ res'[n].actual = res[n].actual
        /\ res'[n].reserved = res[n].reserved
        /\ res'[n].status = "RESERVED" => res[n].status = "RESERVED"
    BY <1>5 DEF Release, LedgerTypeOK, Reservation
  <2> QED
    BY <1>1, <1>5, <2>1, ReservationTyped DEF Release
<1> QED
  BY <1>2, <1>3, <1>4, <1>5 DEF LedgerNext

(* However a budget is split over partial settlements, a mandate never moves  *)
(* more than it reserved.                                                     *)
THEOREM WithinBudgetHolds == LedgerSpec => []WithinBudget
<1>1. LedgerInit => WithinBudget
  BY DEF LedgerInit, WithinBudget, NoReservation
<1> QED
  BY <1>1, LedgerInitTyped, LedgerTypeStep, WithinBudgetStep, PTL DEF LedgerSpec

-----------------------------------------------------------------------------
(* What was spent stays spent.                                                *)

LEMMA SpentIsFinalStep ==
  LedgerTypeOK /\ [LedgerNext]_ledgerVars
    => [ /\ \A d \in Days : ledger'[d].spent >= ledger[d].spent
         /\ \A m \in Mandates :
               res[m].status \in {"SETTLED", "RELEASED"} => res'[m] = res[m] ]_ledgerVars
<1> DEFINE Grows  == \A d \in Days : ledger'[d].spent >= ledger[d].spent
           Frozen == \A m \in Mandates :
                       res[m].status \in {"SETTLED", "RELEASED"} => res'[m] = res[m]
<1> SUFFICES ASSUME LedgerTypeOK, LedgerNext PROVE Grows /\ Frozen
  OBVIOUS
<1>1. Amounts \subseteq Nat /\ \A d \in Days : ledger[d] \in [reserved: Nat, spent: Nat]
  BY LedgerAssumption DEF LedgerTypeOK
<1>2. CASE NextDay
  BY <1>1, <1>2 DEF NextDay
<1>3. ASSUME NEW m \in Mandates, NEW o \in Origins, NEW x \in Amounts, NEW max \in Maxima,
             Reserve(m, o, x, max)
      PROVE  Grows /\ Frozen
  <2>1. Grows
    BY <1>1, <1>3 DEF Reserve, LedgerTypeOK
  <2>2. Frozen
    BY <1>3 DEF Reserve, LedgerTypeOK
  <2> QED
    BY <2>1, <2>2
<1>4. ASSUME NEW m \in Mandates, NEW o \in Origins, NEW x \in Amounts, NEW max \in Maxima,
             NEW finalize \in BOOLEAN, Settle(m, x, max, o, finalize)
      PROVE  Grows /\ Frozen
  <2>1. Grows
    BY <1>1, <1>4 DEF Settle, SettleSeen, LedgerTypeOK
  <2>2. Frozen
    BY <1>4 DEF Settle, SettleSeen, SettleOK, Verified, LedgerTypeOK
  <2> QED
    BY <2>1, <2>2
<1>5. ASSUME NEW m \in Mandates, NEW o \in Origins, Release(m, o)
      PROVE  Grows /\ Frozen
  <2>1. Grows
    BY <1>1, <1>5 DEF Release, LedgerTypeOK
  <2>2. Frozen
    BY <1>5 DEF Release, Releasable, LedgerTypeOK
  <2> QED
    BY <2>1, <2>2
<1> QED
  BY <1>2, <1>3, <1>4, <1>5 DEF LedgerNext

(* Money booked as spent is never taken back and a closed reservation is      *)
(* never reopened, in any step of the ledger.                                 *)
THEOREM SpentIsFinalHolds == LedgerSpec => SpentIsFinal
BY LedgerInitTyped, LedgerTypeStep, SpentIsFinalStep, PTL DEF LedgerSpec, SpentIsFinal

-----------------------------------------------------------------------------
(* The day's row is the sum of its reservations.  Each operation changes one  *)
(* reservation, and the row of its day by as much.                            *)

(* What mandate m counts for in the row of day d.                             *)
ReservedPart(m, d) ==
  IF res[m].status = "RESERVED" /\ res[m].day = d THEN res[m].reserved ELSE 0
SpentPart(m, d) ==
  IF res[m].status # "NONE" /\ res[m].day = d THEN res[m].actual ELSE 0

LEMMA BooksFollow ==
  ASSUME LedgerTypeOK, LedgerTypeOK', ReservedBacked, NEW m \in Mandates,
         \A n \in Mandates : n # m => res'[n] = res[n],
         \A d \in Days :
            /\ ledger'[d].reserved = ledger[d].reserved - ReservedPart(m, d) + ReservedPart(m, d)'
            /\ ledger'[d].spent = ledger[d].spent - SpentPart(m, d) + SpentPart(m, d)'
  PROVE  ReservedBacked'
<1> DEFINE onDay(d)  == {n \in Mandates : res[n].status # "NONE" /\ res[n].day = d}
           open(d)   == {n \in onDay(d) : res[n].status = "RESERVED"}
           onDay1(d) == {n \in Mandates : res'[n].status # "NONE" /\ res'[n].day = d}
           open1(d)  == {n \in onDay1(d) : res'[n].status = "RESERVED"}
           held      == [n \in Mandates |-> res[n].reserved]
           held1     == [n \in Mandates |-> res'[n].reserved]
           done      == [n \in Mandates |-> res[n].actual]
           done1     == [n \in Mandates |-> res'[n].actual]
<1>1. \A n \in Mandates : /\ held[n] \in Nat /\ held1[n] \in Nat
                          /\ done[n] \in Nat /\ done1[n] \in Nat
                          /\ n # m => held1[n] = held[n] /\ done1[n] = done[n]
  BY DEF LedgerTypeOK, Reservation
<1> SUFFICES ASSUME NEW d \in Days
             PROVE  /\ ledger'[d].reserved = SumFunctionOnSet(held1, open1(d))
                    /\ ledger'[d].spent = SumFunctionOnSet(done1, onDay1(d))
  BY DEF ReservedBacked
<1>2. /\ ledger[d].reserved = SumFunctionOnSet(held, open(d))
      /\ ledger[d].spent = SumFunctionOnSet(done, onDay(d))
  BY DEF ReservedBacked
<1>3. /\ open(d) \subseteq Mandates /\ open1(d) \subseteq Mandates
      /\ onDay(d) \subseteq Mandates /\ onDay1(d) \subseteq Mandates
      /\ open(d) \ {m} = open1(d) \ {m} /\ onDay(d) \ {m} = onDay1(d) \ {m}
  OBVIOUS
<1>4. /\ IsFiniteSet(open(d)) /\ IsFiniteSet(open1(d))
      /\ IsFiniteSet(onDay(d)) /\ IsFiniteSet(onDay1(d))
  BY <1>3, LedgerAssumption, FS_Subset
<1>5. /\ (IF m \in open(d) THEN held[m] ELSE 0) = ReservedPart(m, d)
      /\ (IF m \in open1(d) THEN held1[m] ELSE 0) = ReservedPart(m, d)'
      /\ (IF m \in onDay(d) THEN done[m] ELSE 0) = SpentPart(m, d)
      /\ (IF m \in onDay1(d) THEN done1[m] ELSE 0) = SpentPart(m, d)'
  BY DEF ReservedPart, SpentPart
<1> HIDE DEF onDay, open, onDay1, open1, held, held1, done, done1
<1>6. SumFunctionOnSet(held1, open1(d))
        = SumFunctionOnSet(held, open(d)) - (IF m \in open(d) THEN held[m] ELSE 0)
                                          + (IF m \in open1(d) THEN held1[m] ELSE 0)
  BY <1>1, <1>3, <1>4, SumAfterMove
<1>7. SumFunctionOnSet(done1, onDay1(d))
        = SumFunctionOnSet(done, onDay(d)) - (IF m \in onDay(d) THEN done[m] ELSE 0)
                                           + (IF m \in onDay1(d) THEN done1[m] ELSE 0)
  BY <1>1, <1>3, <1>4, SumAfterMove
<1> QED
  BY <1>2, <1>5, <1>6, <1>7

LEMMA ReserveBacked ==
  ASSUME LedgerTypeOK, LedgerTypeOK', ReservedBacked, NEW m \in Mandates, NEW o \in Origins,
         NEW x \in Nat, NEW max \in Nat, Reserve(m, o, x, max)
  PROVE  ReservedBacked'
<1>1. \A n \in Mandates : n # m => res'[n] = res[n]
  BY DEF Reserve, LedgerTypeOK
<1>2. /\ res[m].status = "NONE" /\ today \in Days
      /\ res'[m] = [status |-> "RESERVED", day |-> today, origin |-> o, reserved |-> x, actual |-> 0]
      /\ ledger' = [ledger EXCEPT ![today].reserved = @ + x]
  BY DEF Reserve, LedgerTypeOK
<1>3. ASSUME NEW d \in Days
      PROVE  /\ ledger'[d].reserved = ledger[d].reserved - ReservedPart(m, d) + ReservedPart(m, d)'
             /\ ledger'[d].spent = ledger[d].spent - SpentPart(m, d) + SpentPart(m, d)'
  <2>1. /\ ReservedPart(m, d) = 0 /\ ReservedPart(m, d)' = IF d = today THEN x ELSE 0
        /\ SpentPart(m, d) = 0 /\ SpentPart(m, d)' = 0
    BY <1>2 DEF ReservedPart, SpentPart
  <2>2. ledger[d] \in [reserved: Nat, spent: Nat]
    BY DEF LedgerTypeOK
  <2>3. /\ ledger'[d].reserved = IF d = today THEN ledger[d].reserved + x ELSE ledger[d].reserved
        /\ ledger'[d].spent = ledger[d].spent
    BY <1>2, <2>2 DEF LedgerTypeOK
  <2> QED
    BY <2>1, <2>2, <2>3
<1> QED
  BY <1>1, <1>3, BooksFollow

LEMMA SettleBacked ==
  ASSUME LedgerTypeOK, LedgerTypeOK', ReservedBacked, NEW m \in Mandates, NEW o \in Origins,
         NEW x \in Nat, NEW max \in Nat, NEW finalize \in BOOLEAN, Settle(m, x, max, o, finalize)
  PROVE  ReservedBacked'
<1> DEFINE back == IF finalize THEN res[m].reserved - x ELSE 0
<1>1. \A n \in Mandates : n # m => res'[n] = res[n]
  BY DEF Settle, SettleSeen, LedgerTypeOK
<1>2. /\ res[m].status = "RESERVED" /\ res[m].day \in Days
      /\ res[m].reserved \in Nat /\ res[m].actual \in Nat
      /\ x <= res[m].reserved /\ back \in Nat
  BY ReservationTyped DEF Settle, SettleSeen, SettleOK, Verified
<1>3. /\ res'[m].status = IF finalize THEN "SETTLED" ELSE "RESERVED"
      /\ res'[m].day = res[m].day
      /\ res'[m].reserved = IF finalize THEN 0 ELSE res[m].reserved - x
      /\ res'[m].actual = res[m].actual + x
  BY <1>2 DEF Settle, SettleSeen, LedgerTypeOK
<1>4. ASSUME NEW d \in Days
      PROVE  /\ ledger'[d].reserved = ledger[d].reserved - ReservedPart(m, d) + ReservedPart(m, d)'
             /\ ledger'[d].spent = ledger[d].spent - SpentPart(m, d) + SpentPart(m, d)'
  <2>1. ledger[d].reserved \in Nat /\ ledger[d].spent \in Nat
    BY DEF LedgerTypeOK
  <2>2. CASE d # res[m].day
    <3>1. /\ ReservedPart(m, d) = 0 /\ ReservedPart(m, d)' = 0
          /\ SpentPart(m, d) = 0 /\ SpentPart(m, d)' = 0
      BY <1>3, <2>2 DEF ReservedPart, SpentPart
    <3>2. ledger'[d] = ledger[d]
      BY <2>2 DEF Settle, SettleSeen, LedgerTypeOK
    <3> QED
      BY <2>1, <3>1, <3>2
  <2>3. CASE d = res[m].day
    <3>1. /\ ReservedPart(m, d) = res[m].reserved
          /\ ReservedPart(m, d)' = IF finalize THEN 0 ELSE res[m].reserved - x
          /\ SpentPart(m, d) = res[m].actual /\ SpentPart(m, d)' = res[m].actual + x
      BY <1>2, <1>3, <2>3 DEF ReservedPart, SpentPart
    <3>2. /\ ledger'[d].reserved = ledger[d].reserved - x - back
          /\ ledger'[d].spent = ledger[d].spent + x
      BY <2>3 DEF Settle, SettleSeen, LedgerTypeOK
    <3> QED
      BY <1>2, <2>1, <3>1, <3>2
  <2> QED
    BY <2>2, <2>3
<1> QED
  BY <1>1, <1>4, BooksFollow

LEMMA ReleaseBacked ==
  ASSUME LedgerTypeOK, LedgerTypeOK', ReservedBacked, NEW m \in Mandates, NEW o \in Origins,
         Release(m, o)
  PROVE  ReservedBacked'
<1>1. /\ \A n \in Mandates : n # m => res'[n] = res[n]
      /\ res[m].status = "RESERVED" /\ res'[m].status = "RELEASED"
      /\ res'[m].day = res[m].day /\ res'[m].actual = res[m].actual
  BY ReservationTyped DEF Release, Releasable, LedgerTypeOK, Reservation
<1>2. ASSUME NEW d \in Days
      PROVE  /\ ledger'[d].reserved = ledger[d].reserved - ReservedPart(m, d) + ReservedPart(m, d)'
             /\ ledger'[d].spent = ledger[d].spent - SpentPart(m, d) + SpentPart(m, d)'
  <2>1. /\ ReservedPart(m, d)' = 0 /\ SpentPart(m, d)' = SpentPart(m, d)
        /\ ReservedPart(m, d) = IF res[m].day = d THEN res[m].reserved ELSE 0
    BY <1>1 DEF ReservedPart, SpentPart
  <2>2. ledger[d] \in [reserved: Nat, spent: Nat] /\ SpentPart(m, d) \in Nat
        /\ res[m].reserved \in Nat
    BY ReservationTyped DEF LedgerTypeOK, SpentPart
  <2>3. /\ ledger'[d].reserved = ledger[d].reserved - (IF res[m].day = d THEN res[m].reserved ELSE 0)
        /\ ledger'[d].spent = ledger[d].spent
    BY <2>2 DEF Release, LedgerTypeOK
  <2> QED
    BY <2>1, <2>2, <2>3
<1> QED
  BY <1>1, <1>2, BooksFollow

LEMMA BackedStep ==
  LedgerTypeOK /\ ReservedBacked /\ [LedgerNext]_ledgerVars => ReservedBacked'
<1> SUFFICES ASSUME LedgerTypeOK, ReservedBacked, [LedgerNext]_ledgerVars
             PROVE  ReservedBacked'
  OBVIOUS
<1>1. Amounts \subseteq Nat /\ Maxima \subseteq Nat /\ LedgerTypeOK'
  BY LedgerAssumption, LedgerTypeStep
<1>2. CASE UNCHANGED ledgerVars \/ NextDay
  <2>1. res' = res /\ ledger' = ledger
    BY <1>2 DEF ledgerVars, NextDay
  <2> QED
    BY <2>1 DEF ReservedBacked
<1>3. ASSUME NEW m \in Mandates, NEW o \in Origins, NEW x \in Amounts, NEW max \in Maxima,
             Reserve(m, o, x, max)
      PROVE  ReservedBacked'
  BY <1>1, <1>3, ReserveBacked
<1>4. ASSUME NEW m \in Mandates, NEW o \in Origins, NEW x \in Amounts, NEW max \in Maxima,
             NEW finalize \in BOOLEAN, Settle(m, x, max, o, finalize)
      PROVE  ReservedBacked'
  BY <1>1, <1>4, SettleBacked
<1>5. ASSUME NEW m \in Mandates, NEW o \in Origins, Release(m, o)
      PROVE  ReservedBacked'
  BY <1>1, <1>5, ReleaseBacked
<1> QED
  BY <1>2, <1>3, <1>4, <1>5 DEF LedgerNext

LEMMA BackedInit == LedgerInit => ReservedBacked
<1> SUFFICES ASSUME LedgerInit, NEW d \in Days PROVE ReservedBacked!(d)
  BY DEF ReservedBacked
<1> DEFINE onDay == {n \in Mandates : res[n].status # "NONE" /\ res[n].day = d}
           open  == {n \in onDay : res[n].status = "RESERVED"}
<1>1. onDay = {} /\ open = {}
  BY DEF LedgerInit, NoReservation
<1>2. ledger[d].reserved = 0 /\ ledger[d].spent = 0
  BY DEF LedgerInit
<1> QED
  BY <1>1, <1>2, SumOfNothing

(* Nothing leaks: at any time a day's row is the sum of what the mandates of  *)
(* that day hold and have spent, in every order in which any number of them   *)
(* reserve, settle in parts, finalize and release.                            *)
THEOREM ReservedBackedHolds == LedgerSpec => []ReservedBacked
BY LedgerInitTyped, LedgerTypeStep, BackedInit, BackedStep, PTL DEF LedgerSpec

-----------------------------------------------------------------------------
(* The credit of users: what the insert trigger of migration 0020 enforces.   *)

(* No mandate is charged or given back more than it reserved: the part of     *)
(* NoOverdraft about mandates, on which the shape of the balances depends.    *)
MandateCovered ==
  \A m \in UserMandates : credit[m].settled + credit[m].released <= credit[m].reserved

CreditInv == CreditTypeOK /\ MandateCovered

LEMMA CreditTyped ==
  ASSUME CreditInv, NEW m \in UserMandates
  PROVE  /\ credit[m] \in [reserved: Nat, settled: Nat, released: Nat]
         /\ Held(m) \in Nat
         /\ credit[m].settled + credit[m].released + Held(m) = credit[m].reserved
<1>1. /\ credit[m] \in [reserved: Nat, settled: Nat, released: Nat]
      /\ credit[m].settled + credit[m].released <= credit[m].reserved
  BY DEF CreditInv, CreditTypeOK, MandateCovered
<1> QED
  BY <1>1 DEF Held

(* One mandate's row is replaced by one that is covered.                      *)
LEMMA RowReplaced ==
  ASSUME CreditInv, NEW m \in UserMandates,
         NEW row \in [reserved: Nat, settled: Nat, released: Nat],
         row.settled + row.released <= row.reserved,
         credit' = [credit EXCEPT ![m] = row], UNCHANGED granted
  PROVE  CreditInv'
<1>1. CreditTypeOK'
  BY DEF CreditInv, CreditTypeOK
<1>2. ASSUME NEW n \in UserMandates
      PROVE  credit'[n].settled + credit'[n].released <= credit'[n].reserved
  BY DEF CreditInv, CreditTypeOK, MandateCovered
<1> QED
  BY <1>1, <1>2 DEF CreditInv, MandateCovered

LEMMA GrantKeeps ==
  ASSUME CreditInv, NEW u \in Users, GrantWelcome(u)
  PROVE  CreditInv'
BY CreditAssumption DEF CreditInv, CreditTypeOK, MandateCovered, GrantWelcome

LEMMA ReserveKeeps ==
  ASSUME CreditInv, NEW m \in UserMandates, NEW x \in Nat, CreditReserve(m, x)
  PROVE  CreditInv'
<1> DEFINE row == [credit[m] EXCEPT !.reserved = x]
<1>1. /\ credit[m] \in [reserved: Nat, settled: Nat, released: Nat]
      /\ credit[m].reserved = 0
      /\ credit[m].settled + credit[m].released <= credit[m].reserved
  BY CreditTyped DEF CreditReserve, CreditInv, MandateCovered
<1>2. credit' = [credit EXCEPT ![m] = row] /\ UNCHANGED granted
  BY DEF CreditReserve, CreditInv, CreditTypeOK
<1>3. row \in [reserved: Nat, settled: Nat, released: Nat] /\ row.settled + row.released <= row.reserved
  BY <1>1
<1> QED
  BY <1>2, <1>3, RowReplaced

LEMMA SettleKeeps ==
  ASSUME CreditInv, NEW m \in UserMandates, NEW x \in Nat, NEW final \in BOOLEAN,
         CreditSettle(m, x, final)
  PROVE  CreditInv'
<1> DEFINE back == IF final THEN Held(m) - x ELSE 0
           row  == [reserved |-> credit[m].reserved, settled |-> credit[m].settled + x,
                    released |-> credit[m].released + back]
<1>1. x <= Held(m)
  BY DEF CreditSettle, CreditCovers
<1>2. back \in Nat /\ x + back <= Held(m)
  BY <1>1, CreditTyped
<1>3. row \in [reserved: Nat, settled: Nat, released: Nat] /\ row.settled + row.released <= row.reserved
  <2>1. /\ credit[m].reserved \in Nat /\ credit[m].settled \in Nat /\ credit[m].released \in Nat
        /\ Held(m) \in Nat
        /\ credit[m].settled + credit[m].released + Held(m) = credit[m].reserved
    BY CreditTyped
  <2> HIDE DEF back
  <2> QED
    BY <1>2, <2>1
<1>4. credit' = [credit EXCEPT ![m] = row] /\ UNCHANGED granted
  BY DEF CreditSettle, CreditInv, CreditTypeOK
<1> QED
  BY <1>3, <1>4, RowReplaced

LEMMA ReleaseKeeps ==
  ASSUME CreditInv, NEW m \in UserMandates, CreditRelease(m)
  PROVE  CreditInv'
<1> DEFINE row == [credit[m] EXCEPT !.released = @ + Held(m)]
<1>1. credit' = [credit EXCEPT ![m] = row] /\ UNCHANGED granted
  BY DEF CreditRelease, CreditInv, CreditTypeOK
<1>2. row \in [reserved: Nat, settled: Nat, released: Nat] /\ row.settled + row.released <= row.reserved
  BY CreditTyped
<1> QED
  BY <1>1, <1>2, RowReplaced

LEMMA CreditStep == CreditInv /\ [CreditNext]_creditVars => CreditInv'
<1> SUFFICES ASSUME CreditInv, [CreditNext]_creditVars PROVE CreditInv'
  OBVIOUS
<1>1. CASE UNCHANGED creditVars
  BY <1>1 DEF creditVars, CreditInv, CreditTypeOK, MandateCovered
<1>2. CASE CreditNext
  BY <1>2, CreditAssumption, GrantKeeps, ReserveKeeps, SettleKeeps, ReleaseKeeps DEF CreditNext
<1> QED
  BY <1>1, <1>2

LEMMA CreditInitial == CreditInit => CreditInv
BY DEF CreditInit, CreditInv, CreditTypeOK, MandateCovered

(* The credit rows keep their shape: no subtraction ever goes below zero.     *)
THEOREM CreditTypeCorrect == CreditSpec => []CreditTypeOK
<1>1. CreditInv => CreditTypeOK
  BY DEF CreditInv
<1> QED
  BY <1>1, CreditInitial, CreditStep, PTL DEF CreditSpec

-----------------------------------------------------------------------------
(* No overdraft: of each user, what the mandates reserved is within the grant *)
(* and what was given back.                                                   *)

Within == \A u \in Users : FitsAvailable(u, 0)

ReservedOf == [m \in UserMandates |-> credit[m].reserved]
ReleasedOf == [m \in UserMandates |-> credit[m].released]

LEMMA CreditSums ==
  ASSUME CreditTypeOK, NEW u \in Users
  PROVE  /\ IsFiniteSet(OfUser(u))
         /\ \A m \in OfUser(u) : ReservedOf[m] \in Nat /\ ReleasedOf[m] \in Nat
         /\ ReservedBy(u) = SumFunctionOnSet(ReservedOf, OfUser(u))
         /\ ReleasedTo(u) = SumFunctionOnSet(ReleasedOf, OfUser(u))
         /\ ReservedBy(u) \in Nat /\ ReleasedTo(u) \in Nat
<1>1. IsFiniteSet(OfUser(u))
  BY FS_Subset, CreditAssumption DEF OfUser, UserMandates
<1>2. \A m \in OfUser(u) : ReservedOf[m] \in Nat /\ ReleasedOf[m] \in Nat
  BY DEF CreditTypeOK, OfUser, ReservedOf, ReleasedOf
<1>3. /\ ReservedBy(u) = SumFunctionOnSet(ReservedOf, OfUser(u))
      /\ ReleasedTo(u) = SumFunctionOnSet(ReleasedOf, OfUser(u))
  BY DEF ReservedBy, ReleasedTo, ReservedOf, ReleasedOf
<1> QED
  BY <1>1, <1>2, <1>3, SumBounds

(* One mandate's row changes, and its user's sums by as much.                 *)
LEMMA SumsFollow ==
  ASSUME CreditTypeOK, CreditTypeOK', NEW m \in UserMandates, NEW u \in Users,
         \A n \in UserMandates : n # m => credit'[n] = credit[n]
  PROVE  /\ u # UserOf[m] => ReservedBy(u)' = ReservedBy(u) /\ ReleasedTo(u)' = ReleasedTo(u)
         /\ u = UserOf[m] =>
              /\ ReservedBy(u)' = ReservedBy(u) - credit[m].reserved + credit'[m].reserved
              /\ ReleasedTo(u)' = ReleasedTo(u) - credit[m].released + credit'[m].released
<1> DEFINE f == ReservedOf  f1 == ReservedOf'  g == ReleasedOf  g1 == ReleasedOf'
           S == OfUser(u)
<1>1. /\ IsFiniteSet(S)
      /\ \A n \in S : f[n] \in Int /\ f1[n] \in Int /\ g[n] \in Int /\ g1[n] \in Int
      /\ ReservedBy(u) = SumFunctionOnSet(f, S) /\ ReservedBy(u)' = SumFunctionOnSet(f1, S)
      /\ ReleasedTo(u) = SumFunctionOnSet(g, S) /\ ReleasedTo(u)' = SumFunctionOnSet(g1, S)
  <2>1. S' = S
    BY DEF OfUser, UserMandates
  <2>2. \A n \in S : f1[n] \in Nat /\ g1[n] \in Nat
    BY DEF CreditTypeOK, OfUser, ReservedOf, ReleasedOf
  <2>3. /\ ReservedBy(u)' = SumFunctionOnSet(f1, S)
        /\ ReleasedTo(u)' = SumFunctionOnSet(g1, S)
    BY <2>1 DEF ReservedBy, ReleasedTo, ReservedOf, ReleasedOf
  <2> QED
    BY <2>2, <2>3, CreditSums
<1>2. /\ f[m] = credit[m].reserved /\ f1[m] = credit'[m].reserved
      /\ g[m] = credit[m].released /\ g1[m] = credit'[m].released
      /\ \A n \in S : n # m => f1[n] = f[n] /\ g1[n] = g[n]
      /\ m \in S <=> u = UserOf[m]
  BY DEF ReservedOf, ReleasedOf, OfUser, UserMandates
<1> HIDE DEF f, f1, g, g1, S
<1>3. CASE u = UserOf[m]
  <2>1. /\ SumFunctionOnSet(f1, S) = SumFunctionOnSet(f, S) - f[m] + f1[m]
        /\ SumFunctionOnSet(g1, S) = SumFunctionOnSet(g, S) - g[m] + g1[m]
    BY <1>1, <1>2, <1>3, SumAfterChange
  <2> QED
    BY <1>1, <1>2, <1>3, <2>1
<1>4. CASE u # UserOf[m]
  <2>1. /\ SumFunctionOnSet(f1, S) = SumFunctionOnSet(f, S)
        /\ SumFunctionOnSet(g1, S) = SumFunctionOnSet(g, S)
    BY <1>1, <1>2, <1>4, SumOfSame
  <2> QED
    BY <1>1, <1>4, <2>1
<1> QED
  BY <1>3, <1>4

LEMMA WithinStep ==
  ASSUME CreditInv, CreditInv', Within, [CreditNext]_creditVars
  PROVE  Within'
<1> SUFFICES ASSUME NEW u \in Users PROVE FitsAvailable(u, 0)'
  BY DEF Within
<1>0. /\ CreditTypeOK /\ CreditTypeOK' /\ Requests \subseteq Nat /\ Welcome \in Nat
      /\ granted[u] \in Nat /\ ReservedBy(u) \in Nat /\ ReleasedTo(u) \in Nat
      /\ ReservedBy(u) <= granted[u] + ReleasedTo(u)
  BY CreditSums, CreditAssumption DEF CreditInv, CreditTypeOK, Within, FitsAvailable
<1>1. SUFFICES /\ ReservedBy(u)' \in Int /\ granted'[u] \in Int /\ ReleasedTo(u)' \in Int
               /\ ReservedBy(u)' <= granted'[u] + ReleasedTo(u)'
  BY DEF FitsAvailable
<1>2. CASE UNCHANGED creditVars
  BY <1>0, <1>2 DEF creditVars, ReservedBy, ReleasedTo
<1>3. ASSUME NEW v \in Users, GrantWelcome(v)
      PROVE  <1>1!1
  <2>1. ReservedBy(u)' = ReservedBy(u) /\ ReleasedTo(u)' = ReleasedTo(u)
    BY <1>3 DEF GrantWelcome, ReservedBy, ReleasedTo
  <2>2. granted'[u] \in Nat /\ granted'[u] >= granted[u]
    BY <1>0, <1>3 DEF GrantWelcome, CreditTypeOK
  <2> QED
    BY <1>0, <2>1, <2>2
<1>4. ASSUME NEW m \in UserMandates, NEW row \in [reserved: Nat, settled: Nat, released: Nat],
             credit' = [credit EXCEPT ![m] = row], granted' = granted,
             \/ /\ row.reserved = credit[m].reserved /\ row.released >= credit[m].released
             \/ /\ FitsAvailable(UserOf[m], row.reserved) /\ row.released = credit[m].released
                /\ credit[m].reserved = 0
      PROVE  <1>1!1
  <2>1. /\ \A n \in UserMandates : n # m => credit'[n] = credit[n]
        /\ credit'[m] = row /\ credit[m] \in [reserved: Nat, settled: Nat, released: Nat]
    BY <1>0, <1>4 DEF CreditTypeOK
  <2>2. CASE u # UserOf[m]
    BY <1>0, <1>4, <2>1, <2>2, SumsFollow
  <2>3. CASE u = UserOf[m]
    <3>1. /\ ReservedBy(u)' = ReservedBy(u) - credit[m].reserved + row.reserved
          /\ ReleasedTo(u)' = ReleasedTo(u) - credit[m].released + row.released
      BY <1>0, <2>1, <2>3, SumsFollow
    <3> QED
      BY <1>0, <1>4, <2>1, <2>3, <3>1 DEF FitsAvailable
  <2> QED
    BY <2>2, <2>3
<1>5. ASSUME NEW m \in UserMandates, NEW x \in Requests, CreditReserve(m, x)
      PROVE  <1>1!1
  <2> DEFINE row == [credit[m] EXCEPT !.reserved = x]
  <2>1. credit[m] \in [reserved: Nat, settled: Nat, released: Nat]
    BY <1>0 DEF CreditTypeOK
  <2>2. /\ row \in [reserved: Nat, settled: Nat, released: Nat]
        /\ row.reserved = x /\ row.released = credit[m].released
    BY <1>0, <2>1
  <2>3. credit' = [credit EXCEPT ![m] = row] /\ granted' = granted
    BY <1>5 DEF CreditReserve
  <2>4. FitsAvailable(UserOf[m], x) /\ credit[m].reserved = 0
    BY <1>5 DEF CreditReserve
  <2> HIDE DEF row
  <2> QED
    BY <1>4, <2>2, <2>3, <2>4
<1>6. ASSUME NEW m \in UserMandates, NEW x \in Requests, NEW final \in BOOLEAN,
             CreditSettle(m, x, final)
      PROVE  <1>1!1
  <2> DEFINE back == IF final THEN Held(m) - x ELSE 0
             row  == [reserved |-> credit[m].reserved, settled |-> credit[m].settled + x,
                      released |-> credit[m].released + back]
  <2>1. credit[m] \in [reserved: Nat, settled: Nat, released: Nat] /\ Held(m) \in Nat
    BY CreditTyped
  <2>2. back \in Nat
    BY <1>0, <1>6, <2>1 DEF CreditSettle, CreditCovers
  <2>3. credit' = [credit EXCEPT ![m] = row] /\ granted' = granted
    BY <1>6 DEF CreditSettle
  <2> HIDE DEF back
  <2>4. /\ row \in [reserved: Nat, settled: Nat, released: Nat]
        /\ row.reserved = credit[m].reserved /\ row.released >= credit[m].released
    BY <1>0, <2>1, <2>2
  <2> HIDE DEF row
  <2> QED
    BY <1>4, <2>3, <2>4
<1>7. ASSUME NEW m \in UserMandates, CreditRelease(m)
      PROVE  <1>1!1
  <2> DEFINE row == [credit[m] EXCEPT !.released = @ + Held(m)]
  <2>1. credit[m] \in [reserved: Nat, settled: Nat, released: Nat] /\ Held(m) \in Nat
    BY CreditTyped
  <2>2. credit' = [credit EXCEPT ![m] = row] /\ granted' = granted
    BY <1>7 DEF CreditRelease
  <2>3. /\ row \in [reserved: Nat, settled: Nat, released: Nat]
        /\ row.reserved = credit[m].reserved /\ row.released >= credit[m].released
    BY <2>1
  <2> HIDE DEF row
  <2> QED
    BY <1>4, <2>2, <2>3
<1> QED
  BY <1>2, <1>3, <1>5, <1>6, <1>7 DEF CreditNext

LEMMA WithinInit == CreditInit => Within
<1> SUFFICES ASSUME CreditInit, NEW u \in Users PROVE FitsAvailable(u, 0)
  BY DEF Within
<1>1. CreditTypeOK
  BY CreditInitial DEF CreditInv
<1>2. \A m \in OfUser(u) : ReservedOf[m] = 0
  BY DEF CreditInit, OfUser, ReservedOf
<1>3. ReservedBy(u) = 0 /\ ReleasedTo(u) \in Nat /\ granted[u] = 0
  BY <1>1, <1>2, CreditSums, SumOfZeros DEF CreditInit
<1> QED
  BY <1>3 DEF FitsAvailable

(* A user never has more reserved than was granted and given back, and no     *)
(* mandate more settled and released than reserved, over every interleaving   *)
(* of any number of mandates.                                                 *)
THEOREM NoOverdraftHolds == CreditSpec => []NoOverdraft
<1>1. CreditInv /\ Within => NoOverdraft
  BY DEF CreditInv, MandateCovered, Within, NoOverdraft
<1>2. CreditInv /\ Within /\ [CreditNext]_creditVars => CreditInv' /\ Within'
  BY CreditStep, WithinStep
<1> QED
  BY <1>1, <1>2, CreditInitial, WithinInit, PTL DEF CreditSpec
=============================================================================
