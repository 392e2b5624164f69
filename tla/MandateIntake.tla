------------------------------ MODULE MandateIntake ------------------------------
(* The two paid machine rails side by side, over one ledger and one table of  *)
(* agent identities.                                                          *)
EXTENDS M2MIntake, X402Seller, FiniteSets

intakeVars == <<ledgerVars, identity, m2mVars, sellerVars>>

IntakeInit == LedgerInit /\ IdentityInit /\ M2MInit /\ SellerInit

IntakeNext ==
  \/ M2MNext /\ UNCHANGED sellerVars
  \/ SellerNext /\ UNCHANGED m2mVars

IntakeSpec == IntakeInit /\ [][IntakeNext]_intakeVars

(* A row of either rail as a binding of its key.                             *)
M2MPromise == INSTANCE IdempotentIntake WITH
  Keys <- M2MKeys, Requests <- M2MRequests, bound <- requests, accepted <- maccepted

PaidBinding(k) == IF pay[k].mandate = Nothing THEN Nothing
                  ELSE [request |-> pay[k].request, mandate |-> pay[k].mandate]
PaidPromise == INSTANCE IdempotentIntake WITH
  Keys <- AskKeys, Requests <- AskRequests,
  bound <- [k \in AskKeys |-> PaidBinding(k)], accepted <- xaccepted

-----------------------------------------------------------------------------
(* Properties.                                                             *)

IntakeTypeOK == LedgerTypeOK /\ IdentityTypeOK /\ M2MTypeOK /\ SellerTypeOK

(* "Repeating the same Idempotency-Key returns the original Mandate": on     *)
(* both rails, however requests race, die or are sent again.                 *)
ImplementsIntake == M2MPromise!Spec /\ PaidPromise!Spec

(* A race lost or a transaction rolled back leaves no budget reserved        *)
(* without a request, and no mandate is shared by two requests, even across  *)
(* the rails.                                                                *)
OneRequestPerReservation ==
  \A m \in Mandates :
     LET asked == {k \in M2MKeys : requests[k] # Nothing /\ requests[k].mandate = m}
         paidFor == {k \in AskKeys : pay[k].mandate = m} IN
     Cardinality(asked) + Cardinality(paidFor)
       = IF res[m].status = "NONE" THEN 0 ELSE 1
=============================================================================
