---------------------------- MODULE AgentTrajectory ----------------------------
(*****************************************************************************)
(* What the longitudinal policy sees of one autonomous agent: the O_AGENT    *)
(* stream built from its persisted runs (agents/observation.py) and the      *)
(* window of it that is evaluated (evaluate_current_g13 in runtime.py).      *)
(*                                                                           *)
(* The stream has one observation per persisted artifact.  The artifacts of a*)
(* run share its facts, except for what a usage event says of its own event: *)
(* two observations stand for them, one that carries the failure of the run  *)
(* and one later event that does not.  Skipped slots are not in the stream.  *)
(* Time is measured by the recoveries recorded so far.                       *)
(*****************************************************************************)
EXTENDS G13Recovery

CONSTANTS
    MaxRuns,     \* BOUND: runs that are not skipped
    WindowSize,  \* G13_ENFORCEMENT_WINDOW_SIZE
    Agent

ASSUME TrajectoryAssumptions == MaxRuns \in Nat /\ WindowSize \in Nat \ {0}

VARIABLES
    runs,     \* the agent's runs, in the order of their slots
    foreign   \* recoveries recorded when another agent last started a probe

Never == -1
Instants == {Never} \cup (0 .. MaxRecoveries)
FailureCodes ==
    {"STRICT_PROVENANCE_FAILED", "PAYMENT_COST_UNAVAILABLE", "BUDGET_EXHAUSTED",
     "AUTONOMY_DISABLED", "FULL_AUTONOMY_DISABLED", "AUTHORITY_PROFILE_MISSING",
     "WORKER_INTERNAL_PRE_NETWORK"}
    \cup ExternalCodes \cup BookkeepingCodes \cup DenialCodes
Codes == {NoCode} \cup FailureCodes

ASSUME CodesAssumption == NoCode \notin FailureCodes

Run == [state     : {"SCHEDULED", "RUNNING", "COMPLETED", "FAILED"},
        code      : Codes,      \* the run's failure_code
        event     : Codes,      \* the code of its ACQUISITION_FAILED event
        call      : {"NONE", "REQUESTED", "NOT_EXECUTED", "RECEIVED", "SUCCEEDED",
                     "PAYMENT_UNCERTAIN", "RECONCILED_NO_PAYMENT"},
        decision  : {"NONE", "PERMIT", "BLOCK"},
        flagged   : BOOLEAN,    \* its request was made as a recovery probe
        spent     : Nat,        \* what its committed dispatch may spend
        began     : Instants,
        requested : Instants,
        ended     : Instants]   \* its latest event

TrajectoryTypeOK ==
    /\ runs \in Seq(Run) /\ Len(runs) <= MaxRuns
    /\ foreign \in Instants

Now == Len(recoveries)
--------------------------------------------------------------------------------
(*                          build_o_agent_stream                             *)
Statuses(r) == IF r.call = "NONE" THEN {} ELSE {r.call}
Succeeded(r) == r.call = "SUCCEEDED" /\ r.decision # "NONE"

\* Everything a run may still be missing before and after its call.
Missing(r) ==
    (IF r.call = "NONE" THEN {"TELEGRAPH_CALL_NOT_PRESENT"} ELSE {})
    \cup (IF r.state = "COMPLETED" THEN {} ELSE {"TICKET_NOT_PRESENT"})

ExpectedMissing == {"EVIDENCE_NOT_PRESENT", "TICKET_NOT_PRESENT"}

\* The two artifacts of run i are 2i-1, which carries its failure (the failure
\* event is one of those, and the others do not recover it), and 2i.
RunOf(k) == (k + 1) \div 2
ArtifactCode(k) ==
    LET r == runs[RunOf(k)] IN
    IF r.code # NoCode \/ k % 2 = 0 THEN r.code ELSE r.event

\* The artifacts are numbered in the order of their instants: runs follow one
\* another, and the failure event of a run precedes what closes it.
Observation(k, cutoff) ==
    LET r == runs[RunOf(k)] IN
    [id |-> k, seq |-> k, agent |-> Agent, hash |-> 0, run |-> RunOf(k),
     statuses |-> Statuses(r), code |-> ArtifactCode(k), events |-> ArtifactCode(k) # NoCode,
     recovered |-> FALSE, block |-> r.decision = "BLOCK", complete |-> Succeeded(r),
     probe |-> IF k % 2 = 1 THEN r.flagged ELSE r.requested # Never /\ r.requested >= cutoff,
     episodes |-> IF k % 2 = 1 /\ r.event \in ExternalCodes THEN {RunOf(k)} ELSE {},
     missing |-> Missing(r)]

\* An artifact is in the window when it was observed after the recovery: a run
\* that began before it may still leave some.
ObservedSince(cutoff, k) ==
    LET r == runs[RunOf(k)] IN
    \/ r.ended >= cutoff /\ (k % 2 = 0 \/ r.state = "COMPLETED")
    \/ k % 2 = 1 /\ (r.began >= cutoff \/ r.requested >= cutoff)
Artifacts(i, cutoff) == {k \in {2 * i - 1, 2 * i} : ObservedSince(cutoff, k)}

Stream(S, cutoff) == {Observation(k, cutoff) : k \in UNION {Artifacts(i, cutoff) : i \in S}}
--------------------------------------------------------------------------------
(*                           evaluate_current_g13                            *)
\* A run whose call was withheld is no trajectory, nor is one that only the
\* gate denied.
Significant(i) == Statuses(runs[i]) # {"NOT_EXECUTED"}

\* Mutant of DeniedOnly: a denied run stays in the window.
DeniedOnly_None(i, cutoff) == FALSE
DeniedOnly(i, cutoff) ==
    /\ \A k \in Artifacts(i, cutoff) : ArtifactCode(k) \in DenialCodes
    /\ Statuses(runs[i]) \subseteq {"NOT_EXECUTED", "REQUESTED"}
    /\ runs[i].decision = "NONE"

Selected(cutoff) ==
    LET units == {i \in DOMAIN runs : /\ Artifacts(i, cutoff) # {}
                                      /\ Significant(i) /\ ~DeniedOnly(i, cutoff)}
    IN  {i \in units : Cardinality({j \in units : j > i}) < WindowSize}

\* Mutant of ProbeStarted: requests recorded as probes are not looked for.
ProbeStarted_ForeignOnly(cutoff) == foreign >= cutoff
\* A recorded probe of any agent, even one not yet in the window.
ProbeStarted(cutoff) ==
    \/ foreign >= cutoff
    \/ \E i \in DOMAIN runs : runs[i].flagged /\ runs[i].requested >= cutoff

InputOver(S) ==
    LET cutoff == RecoveryOfBinding IN
    FromObservations(Agent, Stream(S, cutoff), binding.version,
                     IF cutoff = 0 THEN NoRecovery
                     ELSE [id |-> cutoff, limit |-> CanaryLimit, valid |-> TRUE],
                     IF cutoff # 0 /\ ProbeStarted(cutoff) THEN 1 ELSE 0,
                     ExpectedMissing)
CurrentInput == InputOver(Selected(RecoveryOfBinding))

\* Without a binding nothing is inferred: HALT.
BindingMissing ==
    [result |-> "HALT", rules |-> {"G13_POLICY_BINDING_MISSING"},
     episodes |-> {}, canary |-> FALSE]

WithBinding(e) ==
    [result |-> e.result, rules |-> e.rules, episodes |-> e.episodes, canary |-> e.canary,
     version |-> binding.version, binding |-> binding.recovery]
CurrentG13 ==
    WithBinding(IF binding = NoBinding THEN BindingMissing ELSE Evaluate(CurrentInput))

\* persist_policy_evaluation: only a REVIEW is ever read again.
Persist(evaluations) ==
    reviews' = reviews \cup {e \in evaluations : e.result = "REVIEW"}

\* The failures of this agent that were reconciled without a payment, in a run
\* whose reservation is closed.
Unpaid == {i \in DOMAIN runs : /\ runs[i].call = "RECONCILED_NO_PAYMENT"
                               /\ runs[i].state \in {"COMPLETED", "FAILED"}}
================================================================================
