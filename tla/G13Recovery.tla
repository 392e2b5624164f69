------------------------------ MODULE G13Recovery ------------------------------
(*****************************************************************************)
(* What an operator records to let a blocked agent act again                 *)
(* (authority/recovery.py, binding.py, bootstrap.py): the recovery events of *)
(* one agent, the durable binding that selects its policy version, and the   *)
(* one-action bootstrap grant of a cold start.  Every operation is one       *)
(* transaction of its caller; a refused one rolls back and changes nothing.  *)
(* Payload hashes are always verified on write and on read and are left out. *)
(*****************************************************************************)
EXTENDS G13Policy

CONSTANTS
    MaxRecoveries,  \* BOUND: recovery events
    MaxGrants,      \* BOUND: bootstrap grants
    FirstBindings   \* versions an agent of an older deployment starts with

ASSUME RecoveryAssumptions ==
    /\ MaxRecoveries \in Nat /\ MaxGrants \in Nat
    /\ FirstBindings \subseteq {0, 2, 3, 4}
    /\ FirstBindings \cap RecoveryVersions # {} => MaxRecoveries > 0

VARIABLES
    recoveries,   \* G13_OPERATOR_RECOVERY_RECORDED events, oldest first
    binding,      \* the row of g13_policy_bindings, or NoBinding
    reviews,      \* the persisted evaluations whose result is REVIEW
    grants        \* bootstrap_authorities: [status, left]

recoveryVars == <<recoveries, binding, reviews, grants>>

NoBinding == [version |-> 0, recovery |-> 0]
Grant == [status : {"ACTIVE", "EXHAUSTED", "REVOKED"}, left : 0 .. 1]

\* The four contracts a stored event may satisfy (validate_recovery_payload): each
\* fixes the version it leaves and the one it names, and all of them ask for an
\* operator's review, at least one source event and a canary of one execution.
Contract ==
    [ENDPOINT |-> [from |-> 2, to |-> 3], REVIEW  |-> [from |-> 3, to |-> 4],
     REVIEW2  |-> [from |-> 4, to |-> 5], CURRENT |-> [from |-> 4, to |-> 4]]

\* A recovery event: the version it names, and the recovery of the binding it was
\* recorded under when its contract moves none (the same-policy one).
Recovery ==
    [version : {Contract[c].to : c \in DOMAIN Contract}, under : {0}]
    \cup [version : {Contract["CURRENT"].to}, under : 1 .. MaxRecoveries]

\* canary_execution_limit, which every contract fixes.
CanaryLimit == 1

RecoveryTypeOK ==
    /\ recoveries \in Seq(Recovery) /\ Len(recoveries) <= MaxRecoveries
    /\ binding \in [version : {0, 2, 3, 4, 5}, recovery : 0 .. MaxRecoveries]
    /\ grants \in Seq(Grant) /\ Len(grants) <= MaxGrants
--------------------------------------------------------------------------------
(*                                 the binding                               *)
\* A binding is identified by the transition it came from.
Transition(version, previous, source) ==
    /\ binding = NoBinding \/ binding.version = previous
    /\ binding' = [version |-> version, recovery |-> source]

\* Mutant of Activate: the transition's previous version is not compared.
Activate_AnyPrevious(version, previous, source) ==
    IF binding.version = version
    THEN UNCHANGED binding
    ELSE binding' = [version |-> version, recovery |-> source]

\* The same version again leaves the binding as it is, whatever event it names.
Activate(version, previous, source) ==
    IF binding.version = version
    THEN UNCHANGED binding
    ELSE Transition(version, previous, source)

Record(version, under) ==
    /\ Len(recoveries) < MaxRecoveries
    /\ recoveries' = Append(recoveries, [version |-> version, under |-> under])
    /\ UNCHANGED <<reviews, grants>>

\* Mutant of Newest: the event is looked up before it is written.
Newest_BeforeFlush == Len(recoveries)
Newest == Len(recoveries) + 1

\* The newest event made for this binding; its own event otherwise.
RecoveryOfBinding ==
    LET fit == {i \in DOMAIN recoveries :
                   \/ recoveries[i].under # 0
                      /\ recoveries[i].under = binding.recovery
                      /\ recoveries[i].version = binding.version
                   \/ i = binding.recovery}
    IN  IF binding.recovery = 0 \/ fit = {} THEN 0
        ELSE CHOOSE i \in fit : \A j \in fit : j <= i
--------------------------------------------------------------------------------
(*                          recovery events (recovery.py)                    *)
\* The event and the binding it moves are one transaction.
Follow(c) ==
    /\ Activate(c.to, c.from, Newest)
    /\ Record(c.to, 0)

\* The endpoint was replaced; any recorded event is a source.
RecordOperatorRecovery == Follow(Contract["ENDPOINT"])

\* A REVIEW under v0.3 is lifted.  Its source events must be reconciled without
\* payment, but may be any agent's: there can always be some.
RecordReviewRecovery ==
    /\ \E r \in reviews : r.version = 3
    /\ Follow(Contract["REVIEW"])

RecurrenceAlone(r) ==
    r.version = 4 /\ r.rules = {"G13_EXTERNAL_ACQUISITION_RECURRENCE"} /\ r.episodes # {}

\* The recurrence of external failures is the sole blocker under v0.4.
RecordReviewRecoveryV2 ==
    /\ \E r \in reviews : RecurrenceAlone(r)
    /\ Follow(Contract["REVIEW2"])

\* The same, under v0.4: the evaluation belongs to this very binding, and every
\* one of its episodes is closed economically.
RecordCurrentReviewRecovery(unpaid) ==
    /\ binding.version = 4
    /\ \E r \in reviews : /\ RecurrenceAlone(r)
                          /\ r.binding = binding.recovery
                          /\ r.episodes \subseteq unpaid
    /\ Record(4, binding.recovery)
    /\ UNCHANGED binding
--------------------------------------------------------------------------------
(*                        bootstrap grants (bootstrap.py)                    *)
ActiveGrants == {g \in DOMAIN grants : grants[g].status = "ACTIVE"}

CreateGrant ==
    /\ Len(grants) < MaxGrants
    /\ ActiveGrants = {}
    /\ grants' = Append(grants, [status |-> "ACTIVE", left |-> 1])
    /\ UNCHANGED <<recoveries, binding, reviews>>

RevokeGrant ==
    /\ \E g \in ActiveGrants : grants' = [grants EXCEPT ![g].status = "REVOKED"]
    /\ UNCHANGED <<recoveries, binding, reviews>>

\* A cold start: the missing trajectory alone blocks, and nothing ever ran.
BootstrapEligible(evaluation, ran) ==
    /\ evaluation.rules = {"G13_REQUIRED_TRAJECTORY_MISSING"}
    /\ ~ran
    /\ \E g \in ActiveGrants : grants[g].left > 0

ConsumeGrant ==
    grants' = [g \in DOMAIN grants |->
                  IF g \in ActiveGrants THEN [status |-> "EXHAUSTED", left |-> 0] ELSE grants[g]]
--------------------------------------------------------------------------------
(* An agent without a binding, one of an older deployment bound to v0.2, or  *)
(* one a recovery has bound (the migration keeps that event).                *)
RecoveryInit ==
    /\ \E v \in FirstBindings :
          /\ binding = [version |-> v, recovery |-> IF v \in RecoveryVersions THEN 1 ELSE 0]
          /\ recoveries = IF v \in RecoveryVersions
                          THEN <<[version |-> v, under |-> 0]>> ELSE <<>>
    /\ reviews = {}
    /\ grants = <<>>

\* The version in force is never one that no reviewed recovery granted: a binding
\* names the recovery event that moved it there, and every recovery made under a
\* binding is of that binding's version (latest_recovery_for_binding).
BindingIsEarned ==
    /\ binding.version \in RecoveryVersions =>
          /\ binding.recovery \in DOMAIN recoveries
          /\ recoveries[binding.recovery].version = binding.version
    /\ \A i \in DOMAIN recoveries :
          recoveries[i].under # 0 =>
              /\ recoveries[i].under < i
              /\ recoveries[recoveries[i].under].version = recoveries[i].version

\* The versions are climbed one at a time and never left downwards.
NeverDowngraded ==
    [][\/ binding'.version = binding.version /\ binding'.recovery = binding.recovery
       \/ binding = NoBinding
       \/ binding'.version = binding.version + 1]_binding
================================================================================
