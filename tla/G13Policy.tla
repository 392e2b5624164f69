------------------------------- MODULE G13Policy -------------------------------
(*****************************************************************************)
(* The longitudinal policy G13 (authority/autonomy.py): a pure function from *)
(* a window of agent observations to CONTINUE, THROTTLE, REVIEW or HALT, in  *)
(* its five versions (1..5 stand for v0.1..v0.5), and the gate that composes *)
(* its result with the local decision and the economic authority.            *)
(*                                                                           *)
(* An observation is a record                                                *)
(*   [id, seq, agent, hash, run, statuses, code, events, recovered, block,   *)
(*    complete, probe, episodes, missing]                                    *)
(* "run" is the first autonomy run of its lineage (its own id if it has      *)
(* none), "events" says whether failure events are attached, "complete" is   *)
(* the conjunction of the seven facts of a finished acquisition, "probe" that*)
(* a recovery probe or request is recorded, "episodes" the failure episodes. *)
(*****************************************************************************)
EXTENDS Integers, Sequences, FiniteSets, SequencesExt

CONSTANTS
    RecurrenceThreshold,  \* external failures that need a review
    TrustedEpisodes,      \* the episode identities that validate
    NoCode                \* "no failure code"

ASSUME ThresholdAssumption == RecurrenceThreshold \in Nat \ {0}

NoRecovery == [id |-> 0, limit |-> 0, valid |-> FALSE]
--------------------------------------------------------------------------------
(*                          versions, codes and rules                        *)
Versions         == 1 .. 5
RecoveryVersions == 3 .. 5
EpisodeVersions  == 4 .. 5

Precedence == [CONTINUE |-> 0, THROTTLE |-> 1, REVIEW |-> 2, HALT |-> 3]

RuleOutput ==
    [G13_OPERATOR_RECOVERY_CANARY             |-> "THROTTLE",
     G13_REQUIRED_TRAJECTORY_MISSING          |-> "REVIEW",
     G13_IDENTITY_OR_TRAJECTORY_INTEGRITY     |-> "HALT",
     G13_CURRENT_CRITICAL_OBSERVATION_MISSING |-> "REVIEW",
     G13_EXTERNAL_ACQUISITION_DEGRADATION     |-> "THROTTLE",
     G13_EXTERNAL_ACQUISITION_RECURRENCE      |-> "REVIEW",
     G13_FAILURE_EPISODE_IDENTITY_MISSING     |-> "REVIEW",
     G13_REPEATED_LOCAL_BLOCK                 |-> "REVIEW",
     G13_LOCAL_BLOCK_DEGRADATION              |-> "THROTTLE",
     G13_REPEATED_EXECUTION_FAILURE           |-> "REVIEW",
     G13_EXECUTION_FAILURE_DEGRADATION        |-> "THROTTLE"]

NonExecution == {"NOT_EXECUTED", "REQUESTED", "RECONCILED_NO_PAYMENT"}

NonBlockingCodes ==
    {"TELEGRAPH_REQUEST_FAILED", "X402_FACILITATOR_TIMEOUT", "PAYMENT_FAILED"}
ExternalCodes ==
    NonBlockingCodes \cup
    {"GATEWAY_UNAVAILABLE", "TELEGRAPH_UNAVAILABLE", "PAYMENT_REQUIRED"}
BookkeepingCodes == {"AUTONOMY_ORPHANED_MANDATE"}
DenialCodes ==
    {"G13_REVIEW", "G13_HALT", "G13_THROTTLE_CONSTRAINTS_REQUIRED"}

ASSUME NoCodeAssumption == NoCode \notin ExternalCodes \cup BookkeepingCodes \cup DenialCodes
--------------------------------------------------------------------------------
(*                        from observations to an input                      *)
Before(a, b) == a.seq < b.seq \/ (a.seq = b.seq /\ a.id <= b.id)
Earliest(O)  == CHOOSE a \in O : \A b \in O : Before(a, b)
Latest(O)    == CHOOSE a \in O : \A b \in O : Before(b, a)

\* One observation per id, the first in (sequence, id) order, oldest first.
Window(observations) ==
    LET kept == {Earliest({b \in observations : b.id = a.id}) : a \in observations}
    IN  MapThenFoldSet(LAMBDA a, earlier : Append(earlier, a), <<>>, LAMBDA a : a, Latest, kept)

\* A foreign observation, or two contents under one id, breaks the window.
Intact(agent, observations) ==
    \A a, b \in observations :
        a.agent = agent /\ (a.id = b.id => a.hash = b.hash)

FromObservations(agent, observations, version, recovery, attempts, expected) ==
    [agent     |-> agent,
     version   |-> version,
     obs       |-> Window(observations),
     integrity |-> ~Intact(agent, observations),
     recovery  |-> recovery,
     attempts  |-> attempts,
     expected  |-> expected]

\* Mutant of CanonicalCore: the probe count is not part of the core.
CanonicalCore_NoAttempts(in) == [in EXCEPT !.attempts = 0]

\* What is persisted of an input: an evaluation is replayed from this alone.
CanonicalCore(in) ==
    IF in.version \in RecoveryVersions
    THEN in
    ELSE [in EXCEPT !.recovery = NoRecovery, !.attempts = 0]
--------------------------------------------------------------------------------
(*       what counts: causal executions (runs), never their projections      *)
Ran(o)      == o.statuses \ NonExecution # {}
Withheld(o) == o.statuses \cap {"NOT_EXECUTED", "RECONCILED_NO_PAYMENT"} # {}

ExternalOutcome(o) ==
    \/ o.code \in NonBlockingCodes
    \/ "RECONCILED_NO_PAYMENT" \in o.statuses /\ o.code \in ExternalCodes

Blocks(o) ==
    /\ o.block
    /\ ~ExternalOutcome(o)
    /\ o.code \notin BookkeepingCodes \cup DenialCodes

Fails(o) ==
    /\ ~o.recovered
    /\ o.code \notin ExternalCodes \cup BookkeepingCodes \cup DenialCodes
    /\ o.code # NoCode \/ o.events

Units(O)     == {o.run : o \in O}
Complete(o)  == o.complete
Executed(O)  == Units({o \in O : Ran(o)})
Excused(O)   == Units({o \in O : ExternalOutcome(o)})
Eligible(O)  == Executed(O) \cup (Units(O) \ Units({o \in O : Withheld(o)}))
BlockedUnits(O) ==
    (Eligible(O) \cap Units({o \in O : Blocks(o)})) \ Excused(O)

\* Mutant of FailedUnits: only the latest run is looked at.
FailedUnits_Latest(O) ==
    {u \in Eligible(O) \cap Units({o \in O : Fails(o)}) : \A v \in Units(O) : v <= u}

\* A completed projection of the same run clears its failure.
FailedUnits(O) ==
    (Eligible(O) \cap Units({o \in O : Fails(o)}))
        \ (Units({o \in O : Complete(o)}) \cup Excused(O))

ProbeUnits(O) == {o.run : o \in {p \in O : p.probe}}

ExternalObs(O) == {o \in O : o.code \in ExternalCodes}
\* Without a trusted identity each observation is an episode of its own.
Anonymous(O) == {o \in ExternalObs(O) : o.episodes = {} \/ ~(o.episodes \subseteq TrustedEpisodes)}
Episodes(O)  == UNION {o.episodes \cap TrustedEpisodes : o \in ExternalObs(O)}

ExternalCount(in) ==
    LET O == ToSet(in.obs) IN
    CASE in.version = 3 -> Cardinality(Units(ExternalObs(O)))
      [] in.version \in EpisodeVersions ->
            Cardinality(Episodes(O)) + Cardinality(Anonymous(O))
      [] OTHER -> 0
--------------------------------------------------------------------------------
(*                                evaluation                                 *)
ValidRecovery(in) == in.version \in RecoveryVersions /\ in.recovery.valid

\* The probes seen in the window and the requests recorded as probes: the larger
\* of the two counts, which is below a limit when both are.
AttemptsBelow(in, limit) ==
    in.attempts < limit /\ Cardinality(ProbeUnits(ToSet(in.obs))) < limit

\* Versions 1 counts observations; the later ones count executions, and only
\* they see them.
BlockCount(in) ==
    IF in.version = 1
    THEN Cardinality({i \in DOMAIN in.obs : in.obs[i].block})
    ELSE Cardinality(BlockedUnits(ToSet(in.obs)))
FailureCount(in) ==
    IF in.version = 1
    THEN Cardinality({i \in DOMAIN in.obs : in.obs[i].code # NoCode \/ in.obs[i].events})
    ELSE Cardinality(FailedUnits(ToSet(in.obs)))
ExecutedCount(in) ==
    IF in.version = 1 THEN 0 ELSE Cardinality(Executed(ToSet(in.obs)))

CanaryAuthorized(in) ==
    /\ ValidRecovery(in)
    /\ ExecutedCount(in) = 0
    /\ in.version \in EpisodeVersions => AttemptsBelow(in, in.recovery.limit)

\* Only the latest observation is judged for what it misses, and a call that
\* has no external result yet misses nothing once a recovery is in force.
CurrentMissing(in) ==
    IF in.obs = <<>> \/ (in.recovery # NoRecovery /\ ~Ran(Last(in.obs)))
    THEN {} ELSE Last(in.obs).missing
Unexpected(in) == CurrentMissing(in) \ in.expected # {}
LatestCodeIn(in, codes) == in.obs # <<>> /\ Last(in.obs).code \in codes
Degraded(in) == in.version \in RecoveryVersions /\ LatestCodeIn(in, ExternalCodes)

Fires(in) ==
    [G13_OPERATOR_RECOVERY_CANARY    |-> CanaryAuthorized(in),
     G13_REQUIRED_TRAJECTORY_MISSING |-> in.obs = <<>> /\ ~ValidRecovery(in),
     G13_IDENTITY_OR_TRAJECTORY_INTEGRITY |->
        in.integrity \/ (in.version \in RecoveryVersions /\ ~ValidRecovery(in)),
     G13_CURRENT_CRITICAL_OBSERVATION_MISSING |->
        Unexpected(in) /\ ~Degraded(in) /\ ~LatestCodeIn(in, NonBlockingCodes),
     G13_EXTERNAL_ACQUISITION_DEGRADATION |-> Unexpected(in) /\ Degraded(in),
     G13_EXTERNAL_ACQUISITION_RECURRENCE  |-> ExternalCount(in) >= RecurrenceThreshold,
     G13_FAILURE_EPISODE_IDENTITY_MISSING |->
        /\ in.version \in EpisodeVersions
        /\ Anonymous(ToSet(in.obs)) # {}
        /\ CurrentMissing(in) = {}
        /\ Ran(Last(in.obs)),
     G13_REPEATED_LOCAL_BLOCK          |-> BlockCount(in) >= 2,
     G13_LOCAL_BLOCK_DEGRADATION       |-> BlockCount(in) = 1,
     G13_REPEATED_EXECUTION_FAILURE    |-> FailureCount(in) >= 2,
     G13_EXECUTION_FAILURE_DEGRADATION |-> FailureCount(in) = 1]

Triggered(in) == LET fires == Fires(in) IN {r \in DOMAIN RuleOutput : fires[r]}

Outcome(rules) ==
    LET outputs == {RuleOutput[r] : r \in rules} \cup {"CONTINUE"}
    IN  CHOOSE o \in outputs : \A p \in outputs : Precedence[p] <= Precedence[o]

Evaluate(in) ==
    LET rules == Triggered(in)
    IN  [result   |-> Outcome(rules),
         rules    |-> rules,
         episodes |-> IF in.version \in EpisodeVersions THEN Episodes(ToSet(in.obs)) ELSE {},
         canary   |-> CanaryAuthorized(in)]

\* The gate: no authority overrides another.
Gate(permitted, economic, result, throttled, exempt, bootstrap) ==
    CASE ~permitted -> "LOCAL_EPISTEMIC_DENIAL"
      [] permitted /\ ~economic -> "G12_ECONOMIC_DENIAL"
      [] permitted /\ economic /\ result = "HALT" -> "G13_HALT"
      [] permitted /\ economic /\ result = "REVIEW" /\ ~exempt /\ ~bootstrap -> "G13_REVIEW"
      [] permitted /\ economic /\ result = "THROTTLE" /\ ~throttled ->
            "G13_THROTTLE_CONSTRAINTS_REQUIRED"
      [] OTHER -> "NEXT_ACTION_AUTHORIZED"
================================================================================
