------------------------------ MODULE MCAuthority ------------------------------
\* Model-checking instance of ExecutionCommitment, in parts: a behaviour stays in
\* one of them, so that the instance is the sum of the parts' state spaces and not
\* their product.
\*   "profiles"    one run of an agent bound to v0.2 at first, one recovery;
\*                 profiles and the global switch change, the policy stays on and
\*                 there are no bootstrap grants;
\*   "grants"      the same run and recovery beside a bootstrap grant, under both
\*                 switches, with profiles that stay as they are;
\*   "trajectory"  MaxRuns runs of an agent already bound to v0.3 or v0.4 and
\*                 MaxRecoveries recoveries, beside other agents' probes, with
\*                 profiles and switches that stay as they are.
EXTENDS ExecutionCommitment

CONSTANT Parts
VARIABLE part

MCEpisodes == 1 .. MaxRuns

\* BOUND: runs, recoveries and first bindings of a part.
RunsOf       == IF part = "trajectory" THEN MaxRuns ELSE 1
RecoveriesOf == IF part = "trajectory" THEN MaxRecoveries ELSE 1
BindingsOf   == IF part = "trajectory" THEN {3, 4} ELSE {2}

Within ==
    /\ UNCHANGED part
    /\ Len(recoveries') <= RecoveriesOf
    /\ part # "profiles" => UNCHANGED profileVars
    /\ part # "grants" => UNCHANGED policyOn
    /\ part = "trajectory" => UNCHANGED flag
    /\ part # "grants" => UNCHANGED grants
    /\ part # "trajectory" => UNCHANGED foreign

\* BOUND: an instance stops when its last run has ended; what operators may do
\* afterwards, they may also do before and between the runs.
Ended == Len(runs) = RunsOf /\ job.stage = "IDLE"
Stop  == Ended /\ UNCHANGED <<vars, part>>

MCInit == Init /\ part \in Parts /\ binding.version \in BindingsOf
MCNext == (~Ended /\ Next /\ Within) \/ Stop
MCSpec == MCInit /\ [][MCNext]_<<vars, part>>
================================================================================
