-------------------------- MODULE MCPipelineContention --------------------------
(* Two mandates of one user that compete for the user's grant and for the     *)
(* day, with two workers.  With a unit or two each, a grant of 3 and a cap of *)
(* 2, both may be open at once, the day may refuse what the grant allows and  *)
(* the grant what the day allows.                                             *)
(*                                                                            *)
(* The instance has two parts.  In "days" midnight passes and a worker may    *)
(* die; in "retries" the client's retries put copies of a message in the      *)
(* queue.  Both at once are beyond TLC in reasonable time.                    *)
EXTENDS MandatePipeline, TLC

CONSTANTS m1, m2, w1, w2

TwoMandates == {m1, m2}
TwoWorkers  == {w1, w2}
AllOrigins  == {"MANUAL", "USER", "M2M", "AUTONOMOUS"}
UserOrigins == [m \in Mandates |-> "USER"]
OneUser     == {"u"}
BothOfUser  == [m \in Mandates |-> "u"]
Ceilings    == [o \in AllOrigins |-> 2]
PerAction   == [o \in AllOrigins |-> 2]
Amounts02   == 0 .. 2

ContentionSymmetry == Permutations(TwoWorkers) \cup Permutations(TwoMandates)

VARIABLE part

ContentionInit == Init /\ part \in {"days", "retries"}
ContentionNext ==
  /\ Next
  /\ IF part = "days" THEN \A m \in Mandates : ~Republish(m)
     ELSE today' = today /\ crashes' = crashes
  /\ UNCHANGED part

ContentionSpec == ContentionInit /\ [][ContentionNext]_<<vars, part>>
=============================================================================
