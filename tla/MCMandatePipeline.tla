--------------------------- MODULE MCMandatePipeline ---------------------------
(* MandatePipeline on small instances.  Amounts are scaled: a workflow of 3   *)
(* units, calls of at most 2.                                                 *)
EXTENDS MandatePipeline, TLC

CONSTANTS m1, m2, w1, w2

OneMandate  == {m1}
TwoMandates == {m1, m2}
TwoWorkers  == {w1, w2}

OneUser     == {"u"}
AllOrigins  == {"MANUAL", "USER", "M2M", "AUTONOMOUS"}
Manual      == [m \in Mandates |-> "MANUAL"]
ManualOrAutonomous == [m \in Mandates |-> IF m = m1 THEN "MANUAL" ELSE "AUTONOMOUS"]
ManualOrUser == [m \in Mandates |-> IF m = m1 THEN "MANUAL" ELSE "USER"]
NoUserMandates == [m \in {} |-> "u"]
M2OfUser    == [m \in {m2} |-> "u"]
Ceilings    == [o \in AllOrigins |-> 3]
(* The delegated budget of the profile is above the M2M ceiling.              *)
HighProfile == [o \in AllOrigins |-> IF o = "M2M" THEN 2 ELSE 3]
PerAction   == [o \in AllOrigins |-> 2]
Budget3     == {3}
Amounts03   == 0 .. 3

WorkerSymmetry == Permutations(TwoWorkers)

(* BOUND: a behaviour is about one of the mandates, the first that is         *)
(* created; and an autonomous mandate has one task, because the tick          *)
(* publishes no other.                                                        *)
Created == {m \in Mandates : mstatus[m] # "NONE"}
Apart ==
  /\ Cardinality(Created) <= 1
  /\ \A m \in Created : Owner(m) = "AUTONOMOUS" =>
        \A a \in TasksOf(m) : a[2] = 1 \/ task[a] = "NONE"
OneAtATime == Apart'
=============================================================================
