----------------------------- MODULE MCMandateIntake -----------------------------
(* MandateIntake on small instances; prices are scaled to 1, the cap refuses  *)
(* the third mandate.                                                         *)
EXTENDS MandateIntake, TLC

CONSTANTS m1, m2, w1, w2, t1, t2

TwoMandates == {m1, m2}
TwoProcesses == {w1, w2}
TwoThreads == {t1, t2}
OneAgent == {"agent"}
TwoPayments == {"p1", "p2"}
Wallets == {"wallet", "token"}
AskOf(k, p, q, a) == [key |-> k, payment |-> p, request |-> q, agent |-> a]
(* One key for two payments and two requests, and each payment without a key. *)
FourAsks == {AskOf("K", "p1", "a", "agent"), AskOf("K", "p2", "b", "agent"),
             AskOf("p1", "p1", "a", "agent"), AskOf("p2", "p2", "b", "anonymous")}
OneWallet == [p \in TwoPayments |-> "wallet"]
Agent == [q \in M2MRequests |-> "agent"]
CostsOne == [q \in M2MRequests |-> 1]

Interchangeable == Permutations(TwoMandates) \cup Permutations(TwoProcesses)
                     \cup Permutations(TwoThreads)
=============================================================================
