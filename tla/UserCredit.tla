------------------------------- MODULE UserCredit -------------------------------
(***************************************************************************)
(* The internal credit of e-mail users: users/credit.py over the append-   *)
(* only ledger, its balance view and the insert guard of migration         *)
(* 0020_user_credit.  Callers lock the account row first, so each          *)
(* operation is one step.                                                  *)
(***************************************************************************)
EXTENDS Naturals, FiniteSets, Functions

CONSTANTS
  Users,
  UserOf,         \* UserMandate.user_id, by mandate of origin USER
  Welcome,        \* welcome_amount()
  Requests        \* budgets a user may ask for, costs a settlement may have

ASSUME CreditAssumption ==
  /\ Welcome \in Nat \ {0}
  /\ Requests \subseteq Nat
  /\ UserOf \in [DOMAIN UserOf -> Users] /\ IsFiniteSet(DOMAIN UserOf)

VARIABLES
  granted,        \* WELCOME_CREDIT, by user
  credit          \* sums of the three other kinds of entries, by mandate

creditVars == <<granted, credit>>

UserMandates == DOMAIN UserOf

CreditInit ==
  /\ granted = [u \in Users |-> 0]
  /\ credit = [m \in UserMandates |-> [reserved |-> 0, settled |-> 0, released |-> 0]]

Held(m) == credit[m].reserved - credit[m].settled - credit[m].released

OfUser(u) == {m \in UserMandates : UserOf[m] = u}
ReservedBy(u) == SumFunctionOnSet([m \in UserMandates |-> credit[m].reserved], OfUser(u))
ReleasedTo(u) == SumFunctionOnSet([m \in UserMandates |-> credit[m].released], OfUser(u))

(* amount <= available_credit of the view user_credit_balances.              *)
FitsAvailable(u, amount) == ReservedBy(u) + amount <= granted[u] + ReleasedTo(u)

(* register: granted once, whatever is retried (idempotency key, unique      *)
(* index).                                                                   *)
GrantWelcome(u) ==
  /\ granted[u] = 0
  /\ granted' = [granted EXCEPT ![u] = Welcome]
  /\ UNCHANGED credit

(* A mandate has one SPEND_RESERVATION entry.                                *)
CreditReserve(m, amount) ==
  /\ credit[m].reserved = 0
  /\ FitsAvailable(UserOf[m], amount)
  /\ credit' = [credit EXCEPT ![m].reserved = amount]
  /\ UNCHANGED granted

(* verify_reserved, and what the insert guard asks of a settlement.          *)
CreditCovers(m, amount) == Held(m) >= amount

(* settle: a final settlement is followed by the release of the remainder.   *)
CreditSettle(m, amount, finalize) ==
  /\ CreditCovers(m, amount)
  /\ credit' = [credit EXCEPT ![m] =
                  [reserved |-> @.reserved,
                   settled  |-> @.settled + amount,
                   released |-> @.released + (IF finalize THEN Held(m) - amount ELSE 0)]]
  /\ UNCHANGED granted

CreditRelease(m) ==
  /\ credit' = [credit EXCEPT ![m].released = @ + Held(m)]
  /\ UNCHANGED granted

CreditNext ==
  \/ \E u \in Users : GrantWelcome(u)
  \/ \E m \in UserMandates :
       \/ \E x \in Requests : CreditReserve(m, x) \/ \E f \in BOOLEAN : CreditSettle(m, x, f)
       \/ CreditRelease(m)

CreditSpec == CreditInit /\ [][CreditNext]_creditVars

-----------------------------------------------------------------------------
(* Properties.                                                             *)

CreditTypeOK ==
  /\ granted \in [Users -> Nat]
  /\ credit \in [UserMandates -> [reserved: Nat, settled: Nat, released: Nat]]

(* A user never spends or holds more than was granted, over every           *)
(* interleaving of several mandates of the same user: reserve compares with *)
(* the balance of the account it locked, settle and release with what the   *)
(* mandate holds.                                                           *)
NoOverdraft ==
  /\ \A u \in Users : FitsAvailable(u, 0)
  /\ \A m \in UserMandates : credit[m].settled + credit[m].released <= credit[m].reserved
=============================================================================
