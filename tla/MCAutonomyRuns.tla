----------------------------- MODULE MCAutonomyRuns -----------------------------
(* AutonomyRuns on small instances: one run of the policy, from its slot to   *)
(* its end, with one worker or two.                                           *)
EXTENDS AutonomyRuns, TLC

CONSTANTS m1, w1, w2

OneMandate  == {m1}
OneWorker   == {w1}
TwoWorkers  == {w1, w2}

AllOrigins  == {"MANUAL", "USER", "M2M", "AUTONOMOUS"}
Autonomous  == [m \in Mandates |-> "AUTONOMOUS"]
NoUsers     == {}
NoUserMandates == [m \in {} |-> "u"]
Ceilings    == [o \in AllOrigins |-> 2]
(* The delegated budget of the profile is above the M2M ceiling.              *)
HighProfile == [o \in AllOrigins |-> IF o = "AUTONOMOUS" THEN 2 ELSE 1]
PerAction   == [o \in AllOrigins |-> 2]
Budget2     == {2}
Amounts02   == 0 .. 2

WorkerSymmetry == Permutations(TwoWorkers)
=============================================================================
