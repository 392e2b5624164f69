----------------------- MODULE ExecutionCommitment_proofs -----------------------
(* Theorems about the authorities of an agent, for every number of profiles,  *)
(* changes, recoveries and runs: what the status of a grant was can never be  *)
(* rewritten, a revocation is final, and a policy version is in force only    *)
(* when a recorded recovery moved the binding there, one version at a time;   *)
(* a recovery authorizes one probe, a denial of the gate leaves the verdict as*)
(* it was, an evaluation can be computed again from what is persisted, only a *)
(* recovery lets an agent dispatch, its first dispatch is a canary, and       *)
(* failures that repeat stop it.                                              *)
EXTENDS ExecutionCommitment, FiniteSums, FiniteSetTheorems, TLAPS

--------------------------------------------------------------------------------
(*                          what a step leaves alone                          *)

LEMMA EntryTyped ==
  ASSUME NEW S, NEW seq \in Seq(S), NEW i \in DOMAIN seq
  PROVE  /\ seq[i] \in S
         /\ i \in Nat /\ Len(seq) \in Nat /\ i <= Len(seq)
OBVIOUS

LEMMA OnlyAdministerChangesProfiles ==
  Next => ProfilesNext \/ UNCHANGED profileVars
<1> SUFFICES ASSUME Next PROVE ProfilesNext \/ UNCHANGED profileVars
  OBVIOUS
<1>1. CASE ScheduleDue
  BY <1>1 DEF ScheduleDue
<1>2. CASE ExecuteClaimed
  BY <1>2 DEF ExecuteClaimed
<1>3. CASE Work
  <2>1. CASE Prepare \/ Retry
    BY <2>1 DEF Prepare, Retry, Attempt
  <2>2. CASE IssuePermit
    BY <2>2 DEF IssuePermit
  <2>3. CASE Commit
    BY <2>3 DEF Commit
  <2>4. CASE Answer \/ Conclude \/ Abandon
    BY <2>4 DEF Answer, Conclude, Abandon
  <2> QED
    BY <1>3, <2>1, <2>2, <2>3, <2>4 DEF Work
<1>4. CASE Administer
  BY <1>4 DEF Administer
<1>5. CASE Recover \/ ManageGrants
  BY <1>5 DEF Recover, ManageGrants
<1>6. CASE OtherAgentProbes \/ SwitchPolicy \/ SwitchFlag
  BY <1>6 DEF OtherAgentProbes, SwitchPolicy, SwitchFlag
<1> QED
  BY <1>1, <1>2, <1>3, <1>4, <1>5, <1>6 DEF Next

LEMMA OnlyRecoverMovesBinding ==
  Next => Recover \/ UNCHANGED <<recoveries, binding>>
<1> SUFFICES ASSUME Next PROVE Recover \/ UNCHANGED <<recoveries, binding>>
  OBVIOUS
<1>1. CASE ScheduleDue
  BY <1>1 DEF ScheduleDue
<1>2. CASE ExecuteClaimed
  BY <1>2 DEF ExecuteClaimed, recoveryVars
<1>3. CASE Work
  <2>1. CASE Prepare \/ Retry
    BY <2>1 DEF Prepare, Retry, Attempt, recoveryVars
  <2>2. CASE IssuePermit
    BY <2>2 DEF IssuePermit
  <2>3. CASE Commit
    BY <2>3 DEF Commit
  <2>4. CASE Answer \/ Conclude \/ Abandon
    BY <2>4 DEF Answer, Conclude, Abandon, recoveryVars
  <2> QED
    BY <1>3, <2>1, <2>2, <2>3, <2>4 DEF Work
<1>4. CASE Administer
  BY <1>4 DEF Administer, recoveryVars
<1>5. CASE ManageGrants
  BY <1>5 DEF ManageGrants, CreateGrant, RevokeGrant
<1>6. CASE OtherAgentProbes \/ SwitchPolicy \/ SwitchFlag
  BY <1>6 DEF OtherAgentProbes, SwitchPolicy, SwitchFlag, recoveryVars
<1> QED
  BY <1>1, <1>2, <1>3, <1>4, <1>5, <1>6 DEF Next

--------------------------------------------------------------------------------
(*                               the binding                                  *)

RecoveriesTyped == recoveries \in Seq([version : Nat, under : Nat])

BindingInv == RecoveriesTyped /\ BindingIsEarned

LEMMA UnderTyped ==
  ASSUME BindingInv, NEW i \in DOMAIN recoveries
  PROVE  recoveries[i].under \in Nat
<1>1. recoveries[i] \in [version : Nat, under : Nat]
  BY EntryTyped DEF BindingInv, RecoveriesTyped
<1> QED
  BY <1>1

LEMMA BindingStarts == Init => BindingInv
<1> SUFFICES ASSUME Init PROVE BindingInv
  OBVIOUS
<1>1. PICK v \in FirstBindings :
        /\ binding = [version |-> v, recovery |-> IF v \in RecoveryVersions THEN 1 ELSE 0]
        /\ recoveries = IF v \in RecoveryVersions
                        THEN <<[version |-> v, under |-> 0]>> ELSE <<>>
  BY DEF Init, RecoveryInit
<1>2. v \in Nat
  BY RecoveryAssumptions
<1>3. CASE v \in RecoveryVersions
  BY <1>1, <1>2, <1>3 DEF BindingInv, RecoveriesTyped, BindingIsEarned
<1>4. CASE v \notin RecoveryVersions
  BY <1>1, <1>4 DEF BindingInv, RecoveriesTyped, BindingIsEarned
<1> QED
  BY <1>3, <1>4

(* A recovery that follows a contract names itself in the binding, or leaves   *)
(* it where an earlier recovery of the same version has put it.                *)
LEMMA FollowKeeps ==
  ASSUME BindingInv, NEW c \in [from : Nat, to : Nat], Follow(c)
  PROVE  BindingInv'
<1> DEFINE new == [version |-> c.to, under |-> 0]
<1>1. /\ recoveries' = Append(recoveries, new)
      /\ \/ UNCHANGED binding
         \/ binding' = [version |-> c.to, recovery |-> Len(recoveries) + 1]
  BY DEF Follow, Record, Activate, Transition, Newest
<1>2. /\ RecoveriesTyped'
      /\ DOMAIN recoveries' = DOMAIN recoveries \cup {Len(recoveries) + 1}
      /\ Len(recoveries) \in Nat /\ DOMAIN recoveries = 1 .. Len(recoveries)
      /\ \A i \in DOMAIN recoveries : recoveries'[i] = recoveries[i]
      /\ recoveries'[Len(recoveries) + 1] = new
  BY <1>1 DEF BindingInv, RecoveriesTyped
<1>3. \A i \in DOMAIN recoveries : recoveries[i].under \in Nat
  BY UnderTyped
<1>4. BindingIsEarned'
  BY <1>1, <1>2, <1>3 DEF BindingInv, BindingIsEarned
<1> QED
  BY <1>2, <1>4 DEF BindingInv

LEMMA CurrentKeeps ==
  ASSUME BindingInv, RecordCurrentReviewRecovery(Unpaid)
  PROVE  BindingInv'
<1> DEFINE new == [version |-> 4, under |-> binding.recovery]
<1>1. /\ binding.version = 4 /\ UNCHANGED binding
      /\ recoveries' = Append(recoveries, new)
  BY DEF RecordCurrentReviewRecovery, Record
<1>2. /\ binding.recovery \in DOMAIN recoveries
      /\ recoveries[binding.recovery].version = 4
  BY <1>1 DEF BindingInv, BindingIsEarned, RecoveryVersions
<1>3. /\ RecoveriesTyped'
      /\ DOMAIN recoveries' = DOMAIN recoveries \cup {Len(recoveries) + 1}
      /\ Len(recoveries) \in Nat /\ DOMAIN recoveries = 1 .. Len(recoveries)
      /\ \A i \in DOMAIN recoveries : recoveries'[i] = recoveries[i]
      /\ recoveries'[Len(recoveries) + 1] = new
  BY <1>1, <1>2 DEF BindingInv, RecoveriesTyped
<1>4. \A i \in DOMAIN recoveries : recoveries[i].under \in Nat
  BY UnderTyped
<1>5. BindingIsEarned'
  BY <1>1, <1>2, <1>3, <1>4 DEF BindingInv, BindingIsEarned
<1> QED
  BY <1>3, <1>5 DEF BindingInv

(* The four operations an operator has, as the contracts they follow.          *)
LEMMA RecoverFollows ==
  Recover => \/ \E c \in {[from |-> 2, to |-> 3], [from |-> 3, to |-> 4], [from |-> 4, to |-> 5]} :
                    Follow(c)
             \/ RecordCurrentReviewRecovery(Unpaid)
BY DEF Recover, RecordOperatorRecovery, RecordReviewRecovery, RecordReviewRecoveryV2, Contract

LEMMA BindingKept == BindingInv /\ [Next]_vars => BindingInv'
<1> SUFFICES ASSUME BindingInv, [Next]_vars PROVE BindingInv'
  OBVIOUS
<1>1. Recover \/ UNCHANGED <<recoveries, binding>>
  BY OnlyRecoverMovesBinding DEF vars, recoveryVars
<1>2. CASE UNCHANGED <<recoveries, binding>>
  BY <1>2 DEF BindingInv, RecoveriesTyped, BindingIsEarned
<1>3. CASE Recover
  BY <1>3, RecoverFollows, FollowKeeps, CurrentKeeps
<1> QED
  BY <1>1, <1>2, <1>3

(* The policy version in force was granted by a recorded recovery, and every   *)
(* recovery made under a binding is of that binding's version.                 *)
THEOREM BindingIsEarnedHolds == Spec => []BindingIsEarned
<1>1. BindingInv => BindingIsEarned
  BY DEF BindingInv
<1> QED
  BY <1>1, BindingStarts, BindingKept, PTL DEF Spec

LEMMA BindingClimbs ==
  [Next]_vars =>
    [\/ binding'.version = binding.version /\ binding'.recovery = binding.recovery
     \/ binding = NoBinding
     \/ binding'.version = binding.version + 1]_binding
<1> SUFFICES ASSUME [Next]_vars
             PROVE  \/ UNCHANGED binding
                    \/ binding = NoBinding
                    \/ binding'.version = binding.version + 1
  OBVIOUS
<1>1. Recover \/ UNCHANGED binding
  BY OnlyRecoverMovesBinding DEF vars, recoveryVars
<1>2. ASSUME NEW c \in {[from |-> 2, to |-> 3], [from |-> 3, to |-> 4], [from |-> 4, to |-> 5]},
             Follow(c)
      PROVE  \/ UNCHANGED binding
             \/ binding = NoBinding
             \/ binding'.version = binding.version + 1
  BY <1>2 DEF Follow, Activate, Transition
<1> QED
  BY <1>1, <1>2, RecoverFollows DEF RecordCurrentReviewRecovery

(* No step, of the scheduler, of a worker or of an operator, takes an agent    *)
(* back to an earlier policy version or past the next one.                     *)
THEOREM NeverDowngradedHolds == Spec => NeverDowngraded
BY BindingClimbs, PTL DEF Spec, NeverDowngraded
--------------------------------------------------------------------------------
(*                                 the grants                                 *)

Row == [from : Nat, until : Nat, cap : Caps, status : Status]

\* What a change may give: no change makes a profile active again.
Closing == Status \ {"ACTIVE"}

ProfilesTyped ==
  /\ now \in Nat
  /\ profiles \in Seq(Row)
  /\ changes \in Seq([profile : Nat, status : Closing, at : Nat])
  /\ \A i \in DOMAIN changes : changes[i].profile \in DOMAIN profiles

(* A profile that was created closed is never changed.                         *)
ClosedStay ==
  \A i \in DOMAIN changes : profiles[changes[i].profile].status \notin Terminal

(* The choice of a last change is a choice: every set of changes has a last.   *)
HasLast ==
  \A S \in SUBSET DOMAIN changes : S = {} \/ \E i \in S : \A j \in S : j <= i

ProfilesInv == ProfilesTyped /\ ClosedStay /\ HasLast /\ ChangesInOrder

LEMMA ProfilesStart == Init => ProfilesInv
<1> SUFFICES ASSUME Init PROVE ProfilesInv
  OBVIOUS
<1>1. now = 0 /\ changes = <<>>
  BY DEF Init, ProfilesInit
<1>2. profiles \in Seq(Row)
  <2>1. CASE profiles = <<>>
    BY <2>1
  <2>2. ASSUME NEW c \in Caps,
               profiles = <<[from |-> 0, until |-> Always, cap |-> c, status |-> "ACTIVE"]>>
        PROVE  profiles \in Seq(Row)
    BY <2>2, ProfileAssumptions DEF Row, Always, Status
  <2> QED
    BY <2>1, <2>2 DEF Init, ProfilesInit
<1> QED
  BY <1>1, <1>2
  DEF ProfilesInv, ProfilesTyped, ClosedStay, HasLast, ChangesInOrder

LEMMA ChangeTyped ==
  ASSUME ProfilesTyped, NEW i \in DOMAIN changes
  PROVE  /\ changes[i].profile \in Nat
         /\ changes[i].status \in Closing
         /\ changes[i].at \in Nat
<1>1. changes[i] \in [profile : Nat, status : Closing, at : Nat]
  BY EntryTyped DEF ProfilesTyped
<1> QED
  BY <1>1

LEMMA NewProfileGrows ==
  ASSUME ProfilesTyped, NEW from \in Nat, NewProfile(from)
  PROVE  /\ profiles' \in Seq(Row)
         /\ DOMAIN profiles \subseteq DOMAIN profiles'
         /\ \A p \in DOMAIN profiles : profiles'[p] = profiles[p]
<1>1. PICK until \in (from + 1) .. Always, c \in Caps, s \in FirstStatus :
        profiles' = Append(profiles, [from |-> from, until |-> until, cap |-> c, status |-> s])
  BY DEF NewProfile
<1>2. [from |-> from, until |-> until, cap |-> c, status |-> s] \in Row
  <2>1. until \in Nat
    BY ProfileAssumptions DEF Always
  <2>2. s \in Status
    BY ProfileAssumptions
  <2> QED
    BY <2>1, <2>2 DEF Row
<1> QED
  BY <1>1, <1>2 DEF ProfilesTyped

(* Profiles may be added as long as the recorded changes are the same.         *)
LEMMA GrowthKeeps ==
  ASSUME ProfilesInv, UNCHANGED changes, now' \in Nat, profiles' \in Seq(Row),
         DOMAIN profiles \subseteq DOMAIN profiles',
         \A p \in DOMAIN profiles : profiles'[p] = profiles[p]
  PROVE  ProfilesInv'
<1>1. ProfilesTyped'
  BY DEF ProfilesInv, ProfilesTyped
<1>2. ClosedStay'
  BY DEF ProfilesInv, ProfilesTyped, ClosedStay
<1>3. HasLast' /\ ChangesInOrder'
  BY DEF ProfilesInv, HasLast, ChangesInOrder
<1> QED
  BY <1>1, <1>2, <1>3 DEF ProfilesInv

(* What the guard of a change means: every earlier change of the profile is    *)
(* open and takes effect no later, and the profile itself was created open.    *)
LEMMA ChangeableIsLast ==
  ASSUME ProfilesInv, NEW p \in DOMAIN profiles, NEW at \in Nat, Changeable(p, at)
  PROVE  /\ now <= at
         /\ profiles[p].status \notin Terminal
         /\ \A i \in ChangesOf(p) : changes[i].at <= at /\ changes[i].status \notin Terminal
<1>1. CASE ChangesOf(p) = {}
  BY <1>1 DEF Changeable, ProfilesInv, ProfilesTyped
<1>2. CASE ChangesOf(p) # {}
  <2>1. PICK l \in ChangesOf(p) : \A j \in ChangesOf(p) : j <= l
    BY <1>2 DEF ProfilesInv, HasLast, ChangesOf
  <2>2. LastOf(p) \in ChangesOf(p) /\ \A j \in ChangesOf(p) : j <= LastOf(p)
    BY <2>1 DEF LastOf
  <2>3. changes[LastOf(p)].status \notin Terminal /\ changes[LastOf(p)].at <= at
    BY <1>2 DEF Changeable
  <2>4. ASSUME NEW i \in ChangesOf(p)
        PROVE  changes[i].at <= at /\ changes[i].status \notin Terminal
    <3>1. CASE i = LastOf(p)
      BY <2>3, <3>1
    <3>2. CASE i # LastOf(p)
      <4>1. i < LastOf(p) /\ i \in DOMAIN changes /\ LastOf(p) \in DOMAIN changes
        <5>1. i \in DOMAIN changes /\ LastOf(p) \in DOMAIN changes /\ i <= LastOf(p)
          BY <2>2 DEF ChangesOf
        <5>2. i \in Nat /\ LastOf(p) \in Nat
          BY <5>1, EntryTyped DEF ProfilesInv, ProfilesTyped
        <5> QED
          BY <3>2, <5>1, <5>2
      <4>2. changes[i].at <= changes[LastOf(p)].at /\ changes[i].status \notin Terminal
        BY <2>2, <4>1 DEF ProfilesInv, ChangesInOrder, ChangesOf
      <4>3. changes[i].at \in Nat /\ changes[LastOf(p)].at \in Nat
        BY <4>1, ChangeTyped DEF ProfilesInv
      <4> QED
        BY <2>3, <4>2, <4>3
    <3> QED
      BY <3>1, <3>2
  <2>5. profiles[p].status \notin Terminal
    BY <2>1 DEF ProfilesInv, ClosedStay, ChangesOf
  <2> QED
    BY <2>4, <2>5 DEF Changeable, ProfilesInv, ProfilesTyped
<1> QED
  BY <1>1, <1>2

(* One change is recorded, and at most one profile is created with it.         *)
LEMMA ChangeKeeps ==
  ASSUME ProfilesInv, UNCHANGED now,
         NEW p \in DOMAIN profiles, NEW s \in Closing, NEW at \in Nat, RecordChange(p, s, at),
         profiles' \in Seq(Row), DOMAIN profiles \subseteq DOMAIN profiles',
         \A q \in DOMAIN profiles : profiles'[q] = profiles[q]
  PROVE  ProfilesInv'
<1> DEFINE n == Len(changes) + 1
           new == [profile |-> p, status |-> s, at |-> at]
<1>1. /\ changes' = Append(changes, new)
      /\ changes \in Seq([profile : Nat, status : Closing, at : Nat])
      /\ p \in Nat
  BY DEF RecordChange, ProfilesInv, ProfilesTyped
<1>2. /\ changes' \in Seq([profile : Nat, status : Closing, at : Nat])
      /\ DOMAIN changes = 1 .. Len(changes) /\ Len(changes) \in Nat
      /\ DOMAIN changes' = DOMAIN changes \cup {n}
      /\ \A i \in DOMAIN changes : changes'[i] = changes[i]
      /\ changes'[n] = new
  BY <1>1
<1>3. ProfilesTyped'
  BY <1>2 DEF ProfilesInv, ProfilesTyped
<1>4. /\ profiles[p].status \notin Terminal
      /\ \A i \in ChangesOf(p) : changes[i].at <= at /\ changes[i].status \notin Terminal
  BY ChangeableIsLast DEF RecordChange
<1>5. ClosedStay'
  BY <1>2, <1>4 DEF ProfilesInv, ProfilesTyped, ClosedStay
<1>6. HasLast'
  <2>1. SUFFICES ASSUME NEW S \in SUBSET DOMAIN changes', S # {}
                 PROVE  \E i \in S : \A j \in S : j <= i
    BY DEF HasLast
  <2>2. CASE n \in S
    BY <1>2, <2>2
  <2>3. CASE n \notin S
    <3>1. S \in SUBSET DOMAIN changes
      BY <1>2, <2>3
    <3> QED
      BY <2>1, <3>1 DEF ProfilesInv, HasLast
  <2> QED
    BY <2>2, <2>3
<1>7. ChangesInOrder'
  <2>1. SUFFICES ASSUME NEW i \in DOMAIN changes', NEW j \in DOMAIN changes',
                        i < j, changes'[i].profile = changes'[j].profile
                 PROVE  changes'[i].at <= changes'[j].at /\ changes'[i].status \notin Terminal
    BY DEF ChangesInOrder
  <2>2. i \in DOMAIN changes
    BY <1>2, <2>1
  <2>3. CASE j \in DOMAIN changes
    BY <1>2, <2>1, <2>2, <2>3 DEF ProfilesInv, ChangesInOrder
  <2>4. CASE j = n
    BY <1>2, <1>4, <2>1, <2>2, <2>4 DEF ChangesOf
  <2> QED
    BY <1>2, <2>3, <2>4
<1> QED
  BY <1>3, <1>5, <1>6, <1>7 DEF ProfilesInv

LEMMA AdministerKeeps == ProfilesInv /\ ProfilesNext => ProfilesInv'
<1> SUFFICES ASSUME ProfilesInv, ProfilesNext PROVE ProfilesInv'
  OBVIOUS
<1>0. /\ Times \subseteq Nat /\ NextStatus \subseteq Closing /\ "REVOKED" \in Closing
      /\ now \in Nat /\ profiles \in Seq(Row) /\ ProfilesTyped
      /\ \A from \in now .. MaxTime : from \in Nat
  BY ProfileAssumptions DEF Times, ProfilesInv, ProfilesTyped, Status, Closing
<1>1. CASE CreateProfile
  BY <1>0, <1>1, NewProfileGrows, GrowthKeeps DEF CreateProfile
<1>2. CASE SetStatus
  BY <1>0, <1>2, ChangeKeeps DEF SetStatus
<1>3. CASE VersionProfile
  BY <1>0, <1>3, NewProfileGrows, ChangeKeeps DEF VersionProfile
<1>4. CASE Elapse
  BY <1>0, <1>4, GrowthKeeps DEF Elapse
<1> QED
  BY <1>1, <1>2, <1>3, <1>4 DEF ProfilesNext

LEMMA ProfilesKept == ProfilesInv /\ [Next]_vars => ProfilesInv'
<1> SUFFICES ASSUME ProfilesInv, [Next]_vars PROVE ProfilesInv'
  OBVIOUS
<1>1. ProfilesNext \/ UNCHANGED profileVars
  BY OnlyAdministerChangesProfiles DEF vars
<1>2. CASE UNCHANGED profileVars
  BY <1>2 DEF profileVars, ProfilesInv, ProfilesTyped, ClosedStay, HasLast, ChangesInOrder
<1> QED
  BY <1>1, <1>2, AdministerKeeps
--------------------------------------------------------------------------------
(*                          the status of a grant                             *)

(* In the order that the changes are recorded in, the last one that is due at  *)
(* an instant gives the status.                                                *)
LEMMA LastDueCounts ==
  ASSUME ProfilesInv, NEW p, NEW t \in Nat,
         NEW i \in Due(p, t), \A j \in Due(p, t) : j <= i
  PROVE  EffectiveStatus(p, t) = changes[i].status
<1> DEFINE k == CHOOSE k \in Due(p, t) : \A j \in Due(p, t) : Later(k, j)
<1>1. \A j \in Due(p, t) : j \in DOMAIN changes /\ changes[j].profile = p
  BY DEF Due
<1>2. \A j \in Due(p, t) : j \in Nat /\ changes[j].at \in Nat
  BY <1>1, EntryTyped, ChangeTyped DEF ProfilesInv, ProfilesTyped
<1>3. \A j \in Due(p, t) : j # i => j < i /\ changes[j].at <= changes[i].at
  <2>1. SUFFICES ASSUME NEW j \in Due(p, t), j # i
                 PROVE  j < i /\ changes[j].at <= changes[i].at
    OBVIOUS
  <2>2. j < i
    BY <1>2, <2>1
  <2> QED
    BY <1>1, <2>2 DEF ProfilesInv, ChangesInOrder
<1>4. \A j \in Due(p, t) : Later(i, j)
  BY <1>2, <1>3 DEF Later
<1>5. k \in Due(p, t) /\ \A j \in Due(p, t) : Later(k, j)
  BY <1>4
<1>6. k = i
  <2>1. Later(k, i) /\ (k # i => k < i /\ changes[k].at <= changes[i].at)
    BY <1>3, <1>5
  <2>2. k \in Nat /\ i \in Nat /\ changes[k].at \in Nat /\ changes[i].at \in Nat
    BY <1>2, <1>5
  <2> QED
    BY <2>1, <2>2 DEF Later
<1> QED
  BY <1>6 DEF EffectiveStatus

LastDueDecides ==
  \A p : \A t \in Nat : \A i \in Due(p, t) :
    (\A j \in Due(p, t) : j <= i) => EffectiveStatus(p, t) = changes[i].status

(* The same before a step and after it.                                        *)
LEMMA AlwaysDecides == ProfilesInv => LastDueDecides
BY LastDueCounts DEF LastDueDecides

LEMMA DecidesAfter == ProfilesInv' => LastDueDecides'
BY AlwaysDecides, PTL

LEMMA ClosedForGood ==
  ASSUME ProfilesInv, NEW p, NEW t \in Nat, NEW u \in Nat, t <= u,
         EffectiveStatus(p, t) \in Terminal
  PROVE  EffectiveStatus(p, u) = EffectiveStatus(p, t)
<1>0. \A i \in DOMAIN changes : i \in Nat /\ changes[i].at \in Nat
  BY EntryTyped, ChangeTyped DEF ProfilesInv, ProfilesTyped
<1>1. CASE Due(p, t) = {}
  <2>1. profiles[p].status \in Terminal
    BY <1>1 DEF EffectiveStatus
  <2>2. Due(p, u) = {}
    BY <2>1 DEF Due, ProfilesInv, ClosedStay
  <2> QED
    BY <1>1, <2>2 DEF EffectiveStatus
<1>2. CASE Due(p, t) # {}
  <2>1. PICK i \in Due(p, t) : \A j \in Due(p, t) : j <= i
    BY <1>2 DEF ProfilesInv, HasLast, Due
  <2>2. EffectiveStatus(p, t) = changes[i].status
    BY <2>1, LastDueCounts
  <2>3. i \in DOMAIN changes /\ changes[i].profile = p /\ changes[i].at <= t
    BY DEF Due
  <2>4. i \in Due(p, u)
    BY <1>0, <2>3 DEF Due
  <2>5. ASSUME NEW j \in Due(p, u) PROVE j <= i
    <3>1. j \in DOMAIN changes /\ changes[j].profile = p /\ j \in Nat /\ i \in Nat
      BY <1>0, <2>3 DEF Due
    <3>2. ~(i < j)
      BY <2>2, <2>3, <3>1 DEF ProfilesInv, ChangesInOrder
    <3> QED
      BY <3>1, <3>2
  <2>6. EffectiveStatus(p, u) = changes[i].status
    BY <2>4, <2>5, LastDueCounts
  <2> QED
    BY <2>2, <2>6
<1> QED
  BY <1>1, <1>2

(* A revocation or an expiry holds at every later instant, whatever changes    *)
(* were scheduled before it (set_authority_profile_status).                    *)
THEOREM RevocationIsFinalHolds == Spec => []RevocationIsFinal
<1>1. ProfilesInv => RevocationIsFinal
  <2>1. Times \subseteq Nat
    BY ProfileAssumptions DEF Times
  <2> QED
    BY <2>1, ClosedForGood DEF RevocationIsFinal
<1> QED
  BY <1>1, ProfilesStart, ProfilesKept, PTL DEF Spec

(* A new change is never due at an instant that has passed.                    *)
LEMMA ChangeIsNotPast ==
  ASSUME ProfilesInv, NEW p \in DOMAIN profiles, NEW q, NEW s, NEW at \in Nat,
         RecordChange(p, s, at), NEW t \in Nat, t < now
  PROVE  /\ DOMAIN changes \subseteq DOMAIN changes'
         /\ \A i \in DOMAIN changes : changes'[i] = changes[i]
         /\ Due(q, t)' = Due(q, t)
<1> DEFINE n == Len(changes) + 1
           new == [profile |-> p, status |-> s, at |-> at]
<1>1. changes' = Append(changes, new) /\ now <= at /\ now \in Nat
  BY ChangeableIsLast DEF RecordChange, ProfilesInv, ProfilesTyped
<1>2. /\ DOMAIN changes' = DOMAIN changes \cup {n}
      /\ \A i \in DOMAIN changes : changes'[i] = changes[i]
      /\ changes'[n] = new
  BY <1>1 DEF ProfilesInv, ProfilesTyped
<1>3. ~(new.at <= t)
  BY <1>1
<1>4. n \notin DOMAIN changes
  BY EntryTyped DEF ProfilesInv, ProfilesTyped
<1> QED
  BY <1>2, <1>3, <1>4 DEF Due

LEMMA SameHistory ==
  ASSUME ProfilesInv, ProfilesInv', NEW p \in DOMAIN profiles, NEW t \in Nat,
         profiles'[p] = profiles[p], Due(p, t)' = Due(p, t),
         \A i \in DOMAIN changes : changes'[i] = changes[i]
  PROVE  EffectiveStatus(p, t)' = EffectiveStatus(p, t)
<1>1. CASE Due(p, t) = {}
  BY <1>1 DEF EffectiveStatus
<1>2. CASE Due(p, t) # {}
  <2>1. PICK i \in Due(p, t) : \A j \in Due(p, t) : j <= i
    BY <1>2 DEF ProfilesInv, HasLast, Due
  <2>2. EffectiveStatus(p, t) = changes[i].status
    BY <2>1, LastDueCounts
  <2>3. EffectiveStatus(p, t)' = changes'[i].status
    BY <2>1, DecidesAfter DEF LastDueDecides
  <2> QED
    BY <2>1, <2>2, <2>3 DEF Due
<1> QED
  BY <1>1, <1>2
LEMMA PastKept ==
  ASSUME ProfilesInv, ProfilesInv', ProfilesNext
  PROVE  \A p \in DOMAIN profiles : \A t \in Times :
           t < now => EffectiveStatus(p, t)' = EffectiveStatus(p, t)
<1> SUFFICES ASSUME NEW q \in DOMAIN profiles, NEW t \in Times, t < now
             PROVE  EffectiveStatus(q, t)' = EffectiveStatus(q, t)
  OBVIOUS
<1>0. /\ Times \subseteq Nat /\ t \in Nat
      /\ ProfilesTyped /\ profiles \in Seq(Row) /\ now \in Nat
      /\ \A from \in now .. MaxTime : from \in Nat
  BY ProfileAssumptions DEF Times, ProfilesInv, ProfilesTyped
<1>1. CASE CreateProfile
  <2>1. profiles'[q] = profiles[q] /\ UNCHANGED changes
    BY <1>0, <1>1, NewProfileGrows DEF CreateProfile
  <2> QED
    BY <1>0, <2>1, SameHistory DEF Due
<1>2. CASE SetStatus
  BY <1>0, <1>2, ChangeIsNotPast, SameHistory DEF SetStatus
<1>3. CASE VersionProfile
  <2>1. PICK p \in DOMAIN profiles, from \in now .. MaxTime :
          RecordChange(p, "REVOKED", from) /\ NewProfile(from)
    BY <1>3 DEF VersionProfile
  <2>2. profiles'[q] = profiles[q]
    BY <1>0, <2>1, NewProfileGrows
  <2> QED
    BY <1>0, <2>1, <2>2, ChangeIsNotPast, SameHistory
<1>4. CASE Elapse
  BY <1>0, <1>4, SameHistory DEF Elapse, Due
<1> QED
  BY <1>1, <1>2, <1>3, <1>4 DEF ProfilesNext

(* No operation rewrites what the status of a recorded grant was at an instant *)
(* that has passed: the audit of a past action gives one answer for ever.      *)
THEOREM PastIsFixedHolds == Spec => PastIsFixed
<1>1. ProfilesInv /\ ProfilesInv' /\ [Next]_vars =>
        [\A p \in DOMAIN profiles : \A t \in Times :
           t < now => EffectiveStatus(p, t)' = EffectiveStatus(p, t)]_profileVars
  <2> SUFFICES ASSUME ProfilesInv, ProfilesInv', [Next]_vars, ~UNCHANGED profileVars
               PROVE  \A p \in DOMAIN profiles : \A t \in Times :
                        t < now => EffectiveStatus(p, t)' = EffectiveStatus(p, t)
    OBVIOUS
  <2>1. ProfilesNext
    BY OnlyAdministerChangesProfiles DEF vars
  <2> QED
    BY <2>1, PastKept
<1> QED
  BY <1>1, ProfilesStart, ProfilesKept, PTL DEF Spec, PastIsFixed
--------------------------------------------------------------------------------
(*                               the dispatch                                 *)

(* A grant that is in force has no change behind it: it was created active,    *)
(* has started, has not ended, and nothing recorded of it has taken effect.    *)
LEMMA InForceMeans ==
  ASSUME ProfilesInv, NEW p \in DOMAIN profiles, NEW t \in Nat
  PROVE  p \in InForce(t) <=> ~Withdrawn(p, t)
<1>1. profiles[p] \in Row
  BY EntryTyped DEF ProfilesInv, ProfilesTyped
<1>2. /\ profiles[p].from \in Nat /\ profiles[p].until \in Nat
  BY <1>1 DEF Row
<1>3. (\E c \in ToSet(changes) : c.profile = p /\ c.at <= t) <=> Due(p, t) # {}
  BY DEF Due, ToSet
<1>4. CASE Due(p, t) = {}
  BY <1>2, <1>3, <1>4 DEF InForce, Withdrawn, EffectiveStatus
<1>5. CASE Due(p, t) # {}
  <2>1. PICK i \in Due(p, t) : \A j \in Due(p, t) : j <= i
    BY <1>5 DEF ProfilesInv, HasLast, Due
  <2>2. EffectiveStatus(p, t) = changes[i].status
    BY <2>1, LastDueCounts
  <2>3. changes[i].status # "ACTIVE"
    BY ChangeTyped DEF Due, ProfilesInv, Closing
  <2> QED
    BY <1>3, <1>5, <2>2, <2>3 DEF InForce, Withdrawn
<1> QED
  BY <1>4, <1>5

LEMMA ResolvedAlone ==
  ASSUME ProfilesInv, NEW t, Resolve(t) # NoProfile
  PROVE  InForce(t) = {Resolve(t)} /\ Resolve(t) \in DOMAIN profiles
<1>1. IsFiniteSet(InForce(t))
  <2>1. DOMAIN profiles = 1 .. Len(profiles) /\ Len(profiles) \in Nat
    BY DEF ProfilesInv, ProfilesTyped
  <2>2. IsFiniteSet(DOMAIN profiles)
    BY <2>1, FS_Interval
  <2>3. InForce(t) \subseteq DOMAIN profiles
    BY DEF InForce
  <2> QED
    BY <2>2, <2>3, FS_Subset
<1>2. Cardinality(InForce(t)) = 1 /\ Resolve(t) = CHOOSE p \in InForce(t) : TRUE
  BY DEF Resolve
<1>3. PICK p : InForce(t) = {p}
  BY <1>1, <1>2, FS_Singleton
<1>4. Resolve(t) = p
  BY <1>2, <1>3
<1> QED
  BY <1>3, <1>4 DEF InForce

(* Only the commit step dispatches, and only when every authority still agrees. *)
LEMMA DispatchIsFresh ==
  Next /\ Dispatches => Fresh(CurrentG13)
<1> SUFFICES ASSUME Next, Dispatches PROVE Fresh(CurrentG13)
  OBVIOUS
<1>0. job.stage = "PERMITTED" /\ job'.stage = "COMMITTED" /\ job' # job
  BY DEF Dispatches
<1>1. ~ScheduleDue
  BY <1>0 DEF ScheduleDue, Admitted
<1>2. ~ExecuteClaimed
  BY <1>0 DEF ExecuteClaimed
<1>3. CASE Work
  <2>1. ~(Prepare \/ IssuePermit \/ Answer \/ Conclude)
    BY <1>0 DEF Prepare, IssuePermit, Answer, Conclude
  <2>2. ~Abandon
    BY <1>0 DEF Abandon, Close, Idle
  <2>3. ~Retry
    BY <1>0 DEF Retry, Attempt, Refuse, Idle
  <2>4. Commit
    BY <1>3, <2>1, <2>2, <2>3 DEF Work
  <2> QED
    BY <1>0, <2>4 DEF Commit, Refuse, Idle
<1>4. ~(Administer \/ Recover \/ ManageGrants)
  BY <1>0 DEF Administer, Recover, ManageGrants, workVars
<1>5. ~(OtherAgentProbes \/ SwitchPolicy \/ SwitchFlag)
  BY <1>0 DEF OtherAgentProbes, SwitchPolicy, SwitchFlag, workVars
<1> QED
  BY <1>1, <1>2, <1>3, <1>4, <1>5 DEF Next

(* The dispatch is committed under the permit's own grant, which is in force   *)
(* and the only one that is, within its budget and with full autonomy on,      *)
(* whatever happened since the permit was issued.                              *)
THEOREM NoStaleDispatchHolds == Spec => NoStaleDispatch
<1>1. ASSUME ProfilesInv, [Next]_vars, Dispatches
      PROVE  /\ flag /\ ~Withdrawn(job.profile, now)
             /\ job.amount <= profiles[job.profile].cap
             /\ \A q \in DOMAIN profiles \ {job.profile} : Withdrawn(q, now)
  <2>1. Next
    BY <1>1 DEF vars, workVars, Dispatches
  <2>2. Fresh(CurrentG13)
    BY <1>1, <2>1, DispatchIsFresh
  <2>3. flag /\ Resolve(now) = job.profile /\ Delegated(job.profile, job.amount)
    BY <2>2 DEF Fresh, Passes
  <2>4. InForce(now) = {job.profile} /\ job.profile \in DOMAIN profiles
    BY <1>1, <2>3, ResolvedAlone DEF Delegated
  <2>5. now \in Nat
    BY <1>1 DEF ProfilesInv, ProfilesTyped
  <2> QED
    BY <1>1, <2>3, <2>4, <2>5, InForceMeans DEF Delegated
<1> QED
  BY <1>1, ProfilesStart, ProfilesKept, PTL DEF Spec, NoStaleDispatch

--------------------------------------------------------------------------------
(*                            types: the grants                               *)

LEMMA ProfilesTypeKept ==
  ASSUME ProfilesTypeOK, [Next]_vars
  PROVE  ProfilesTypeOK'
<1>0. /\ now \in Times /\ profiles \in Seq(Profile) /\ changes \in Seq(Change)
      /\ Len(profiles) \in 0 .. MaxProfiles /\ DOMAIN profiles = 1 .. Len(profiles)
      /\ MaxTime \in Nat /\ MaxProfiles \in Nat
  BY ProfileAssumptions DEF ProfilesTypeOK
<1>8. ASSUME NEW i \in DOMAIN changes
      PROVE  changes[i].profile \in Nat /\ changes[i].profile <= Len(profiles)
  <2>1. changes[i] \in Change
    BY <1>0, EntryTyped
  <2> QED
    BY <2>1 DEF Change, ProfilesTypeOK
<1>1. ASSUME NEW from \in Times, NewProfile(from)
      PROVE  profiles' \in Seq(Profile) /\ Len(profiles') = Len(profiles) + 1
             /\ Len(profiles') <= MaxProfiles
  <2>1. PICK until \in (from + 1) .. Always, c \in Caps, s \in FirstStatus :
          profiles' = Append(profiles, [from |-> from, until |-> until, cap |-> c, status |-> s])
    BY <1>1 DEF NewProfile
  <2>2. [from |-> from, until |-> until, cap |-> c, status |-> s] \in Profile
    BY <1>0 DEF Profile, Times, Always
  <2> QED
    BY <1>0, <1>1, <2>1, <2>2 DEF NewProfile
<1>2. ASSUME NEW p \in DOMAIN profiles, NEW s \in NextStatus, NEW at \in Times,
             RecordChange(p, s, at), Len(profiles') \in Nat, Len(profiles') >= Len(profiles)
      PROVE  /\ changes' \in Seq(Change)
             /\ \A i \in DOMAIN changes' : changes'[i].profile <= Len(profiles')
  <2> DEFINE new == [profile |-> p, status |-> s, at |-> at]
  <2>1. changes' = Append(changes, new)
    BY <1>2 DEF RecordChange
  <2>2. p \in 1 .. MaxProfiles /\ p <= Len(profiles) /\ new \in Change
    BY <1>0 DEF Change
  <2> HIDE DEF new
  <2>4. /\ changes' \in Seq(Change)
        /\ \A i \in DOMAIN changes' : \/ i \in DOMAIN changes /\ changes'[i] = changes[i]
                                      \/ changes'[i] = new
    BY <1>0, <2>1, <2>2
  <2>5. new.profile = p
    BY DEF new
  <2>6. \A i \in DOMAIN changes : changes[i].profile <= Len(profiles)
    BY DEF ProfilesTypeOK
  <2> QED
    BY <1>0, <1>2, <1>8, <2>2, <2>4, <2>5, <2>6
<1>3. CASE CreateProfile
  <2>1. profiles' \in Seq(Profile) /\ Len(profiles') = Len(profiles) + 1 /\ Len(profiles') <= MaxProfiles
    BY <1>1, <1>3 DEF CreateProfile
  <2>2. \A i \in DOMAIN changes : changes[i].profile <= Len(profiles')
    BY <1>0, <1>8, <2>1
  <2> QED
    BY <1>0, <1>3, <2>1, <2>2 DEF CreateProfile, ProfilesTypeOK
<1>4. CASE SetStatus
  BY <1>0, <1>2, <1>4 DEF SetStatus, ProfilesTypeOK
<1>5. CASE VersionProfile
  <2>1. PICK p \in DOMAIN profiles, from \in now .. MaxTime :
          RecordChange(p, "REVOKED", from) /\ NewProfile(from)
    BY <1>5 DEF VersionProfile
  <2>2. from \in Times /\ "REVOKED" \in NextStatus
    BY <1>0, ProfileAssumptions DEF Times
  <2>3. profiles' \in Seq(Profile) /\ Len(profiles') = Len(profiles) + 1 /\ Len(profiles') <= MaxProfiles
    BY <1>1, <2>1, <2>2
  <2>4. /\ changes' \in Seq(Change)
        /\ \A i \in DOMAIN changes' : changes'[i].profile <= Len(profiles')
    BY <1>0, <1>2, <2>1, <2>2, <2>3
  <2> QED
    BY <1>0, <1>5, <2>3, <2>4 DEF VersionProfile, ProfilesTypeOK
<1>6. CASE Elapse
  BY <1>0, <1>6 DEF Elapse, ProfilesTypeOK, Times
<1>7. CASE UNCHANGED profileVars
  BY <1>7 DEF profileVars, ProfilesTypeOK
<1> QED
  BY <1>3, <1>4, <1>5, <1>6, <1>7, OnlyAdministerChangesProfiles DEF vars, ProfilesNext

--------------------------------------------------------------------------------
(*                          types: the recoveries                             *)

(* Every set of recoveries has a newest one.                                   *)
HasNewest ==
  \A S \in SUBSET DOMAIN recoveries : S = {} \/ \E i \in S : \A j \in S : j <= i

RecoveriesOK == RecoveryTypeOK /\ BindingInv /\ HasNewest

LEMMA ContractsTyped ==
  /\ {Contract[c].to : c \in DOMAIN Contract} = RecoveryVersions
  /\ RecoveryVersions = {3, 4, 5}
BY DEF Contract, RecoveryVersions

LEMMA RecordTyped ==
  ASSUME RecoveriesOK, NEW v, NEW u, Record(v, u), [version |-> v, under |-> u] \in Recovery
  PROVE  /\ recoveries' \in Seq(Recovery) /\ Len(recoveries') = Len(recoveries) + 1
         /\ Len(recoveries') \in 1 .. MaxRecoveries
         /\ HasNewest' /\ UNCHANGED <<reviews, grants>>
<1> DEFINE new == [version |-> v, under |-> u]
           n == Len(recoveries) + 1
<1>1. /\ Len(recoveries) < MaxRecoveries /\ recoveries' = Append(recoveries, new)
      /\ UNCHANGED <<reviews, grants>>
      /\ recoveries \in Seq(Recovery) /\ MaxRecoveries \in Nat
  BY RecoveryAssumptions DEF Record, RecoveriesOK, RecoveryTypeOK
<1>2. /\ recoveries' \in Seq(Recovery) /\ Len(recoveries') = n /\ Len(recoveries) \in Nat
      /\ DOMAIN recoveries = 1 .. Len(recoveries)
      /\ DOMAIN recoveries' = DOMAIN recoveries \cup {n}
  BY <1>1
<1>3. HasNewest'
  <2>1. SUFFICES ASSUME NEW S \in SUBSET DOMAIN recoveries', S # {}
                 PROVE  \E i \in S : \A j \in S : j <= i
    BY DEF HasNewest
  <2>2. CASE n \in S
    BY <1>2, <2>2
  <2>3. CASE n \notin S
    <3>1. S \in SUBSET DOMAIN recoveries
      BY <1>2, <2>3
    <3> QED
      BY <2>1, <3>1 DEF RecoveriesOK, HasNewest
  <2> QED
    BY <2>2, <2>3
<1> QED
  BY <1>1, <1>2, <1>3

LEMMA RecoverTyped ==
  ASSUME RecoveriesOK, BindingInv', Recover
  PROVE  RecoveriesOK'
<1>0. /\ recoveries \in Seq(Recovery) /\ Len(recoveries) \in 0 .. MaxRecoveries /\ MaxRecoveries \in Nat
      /\ binding \in [version : {0, 2, 3, 4, 5}, recovery : 0 .. MaxRecoveries]
  BY RecoveryAssumptions DEF RecoveriesOK, RecoveryTypeOK
<1>1. ASSUME NEW c \in {[from |-> 2, to |-> 3], [from |-> 3, to |-> 4], [from |-> 4, to |-> 5]},
             Follow(c)
      PROVE  RecoveriesOK'
  <2>1. [version |-> c.to, under |-> 0] \in Recovery
    BY ContractsTyped DEF Recovery
  <2>2. Record(c.to, 0) /\ Activate(c.to, c.from, Len(recoveries) + 1)
    BY <1>1 DEF Follow, Newest
  <2>3. /\ recoveries' \in Seq(Recovery) /\ Len(recoveries') = Len(recoveries) + 1
        /\ Len(recoveries') \in 1 .. MaxRecoveries
        /\ HasNewest' /\ UNCHANGED <<reviews, grants>>
    BY <2>1, <2>2, RecordTyped
  <2>4. binding' \in [version : {0, 2, 3, 4, 5}, recovery : 0 .. MaxRecoveries]
    <3>1. binding' = binding \/ binding' = [version |-> c.to, recovery |-> Len(recoveries) + 1]
      BY <2>2 DEF Activate, Transition
    <3> QED
      BY <1>0, <2>3, <3>1
  <2> QED
    BY <2>3, <2>4 DEF RecoveriesOK, RecoveryTypeOK
<1>2. CASE RecordCurrentReviewRecovery(Unpaid)
  <2>1. binding.version = 4 /\ Record(4, binding.recovery) /\ UNCHANGED binding
    BY <1>2 DEF RecordCurrentReviewRecovery
  <2>2. binding.recovery \in 1 .. MaxRecoveries
    BY <1>0, <2>1 DEF RecoveriesOK, BindingInv, BindingIsEarned, RecoveryVersions
  <2>3. [version |-> 4, under |-> binding.recovery] \in Recovery
    BY <2>2 DEF Recovery, Contract
  <2>4. /\ recoveries' \in Seq(Recovery) /\ Len(recoveries') \in 1 .. MaxRecoveries
        /\ HasNewest' /\ UNCHANGED <<reviews, grants>>
    BY <2>1, <2>3, RecordTyped
  <2> QED
    BY <1>0, <2>1, <2>4 DEF RecoveriesOK, RecoveryTypeOK
<1> QED
  BY <1>1, <1>2, RecoverFollows

LEMMA OnlyTheseMoveGrants ==
  Next => \/ Recover \/ CreateGrant \/ RevokeGrant
          \/ ConsumeGrant /\ UNCHANGED <<recoveries, binding>>
          \/ UNCHANGED <<recoveries, binding, grants>>
<1> SUFFICES ASSUME Next
             PROVE  \/ Recover \/ CreateGrant \/ RevokeGrant
                    \/ ConsumeGrant /\ UNCHANGED <<recoveries, binding>>
                    \/ UNCHANGED <<recoveries, binding, grants>>
  OBVIOUS
<1>1. CASE ScheduleDue \/ ExecuteClaimed
  BY <1>1 DEF ScheduleDue, ExecuteClaimed, recoveryVars
<1>2. CASE Work
  <2>1. CASE Prepare \/ Retry
    BY <2>1 DEF Prepare, Retry, Attempt, recoveryVars
  <2>2. CASE IssuePermit
    BY <2>2 DEF IssuePermit
  <2>3. CASE Commit
    BY <2>3 DEF Commit
  <2>4. CASE Answer \/ Conclude \/ Abandon
    BY <2>4 DEF Answer, Conclude, Abandon, recoveryVars
  <2> QED
    BY <1>2, <2>1, <2>2, <2>3, <2>4 DEF Work
<1>3. CASE Administer
  BY <1>3 DEF Administer, recoveryVars
<1>4. CASE Recover \/ ManageGrants
  BY <1>4 DEF ManageGrants
<1>5. CASE OtherAgentProbes \/ SwitchPolicy \/ SwitchFlag
  BY <1>5 DEF OtherAgentProbes, SwitchPolicy, SwitchFlag, recoveryVars
<1> QED
  BY <1>1, <1>2, <1>3, <1>4, <1>5 DEF Next

LEMMA RecoveriesKept ==
  ASSUME RecoveriesOK, [Next]_vars
  PROVE  RecoveriesOK'
<1>0. BindingInv'
  BY BindingKept DEF RecoveriesOK
<1>1. \/ Recover \/ CreateGrant \/ RevokeGrant
      \/ ConsumeGrant /\ UNCHANGED <<recoveries, binding>>
      \/ UNCHANGED <<recoveries, binding, grants>>
  BY OnlyTheseMoveGrants DEF vars, recoveryVars
<1>2. ASSUME UNCHANGED <<recoveries, binding>>, grants' \in Seq(Grant), Len(grants') <= MaxGrants
      PROVE  RecoveriesOK'
  BY <1>0, <1>2 DEF RecoveriesOK, RecoveryTypeOK, HasNewest
<1>3. grants \in Seq(Grant) /\ Len(grants) \in Nat /\ Len(grants) <= MaxGrants /\ MaxGrants \in Nat
  BY RecoveryAssumptions DEF RecoveriesOK, RecoveryTypeOK
<1>8. \A g \in DOMAIN grants : grants[g] \in Grant
  BY <1>3, EntryTyped
<1>4. CASE CreateGrant
  <2>1. [status |-> "ACTIVE", left |-> 1] \in Grant
    BY DEF Grant
  <2> QED
    BY <1>2, <1>3, <1>4, <2>1 DEF CreateGrant
<1>5. CASE RevokeGrant
  <2>1. PICK g \in DOMAIN grants : grants' = [grants EXCEPT ![g].status = "REVOKED"]
    BY <1>5 DEF RevokeGrant, ActiveGrants
  <2>2. [grants[g] EXCEPT !.status = "REVOKED"] \in Grant
    BY <1>8 DEF Grant
  <2>3. grants' \in Seq(Grant) /\ Len(grants') = Len(grants)
    BY <1>3, <2>1, <2>2
  <2> QED
    BY <1>2, <1>3, <1>5, <2>3 DEF RevokeGrant
<1>6. CASE ConsumeGrant /\ UNCHANGED <<recoveries, binding>>
  <2>1. grants' \in [1 .. Len(grants) -> Grant]
    BY <1>3, <1>6, <1>8 DEF ConsumeGrant, Grant
  <2>2. grants' \in Seq(Grant) /\ Len(grants') = Len(grants)
    BY <1>3, <2>1
  <2> QED
    BY <1>2, <1>3, <1>6, <2>2
<1>7. CASE UNCHANGED <<recoveries, binding, grants>>
  BY <1>2, <1>3, <1>7
<1> QED
  BY <1>0, <1>1, <1>4, <1>5, <1>6, <1>7, RecoverTyped

--------------------------------------------------------------------------------
(*                       types: what an evaluation says                       *)

Results == {"CONTINUE", "THROTTLE", "REVIEW", "HALT"}

LEMMA OutcomeTyped ==
  ASSUME NEW rules, rules \subseteq DOMAIN RuleOutput
  PROVE  Outcome(rules) \in Results
<1> DEFINE outputs == {RuleOutput[r] : r \in rules} \cup {"CONTINUE"}
<1>1. outputs \subseteq Results /\ "CONTINUE" \in outputs
  BY DEF RuleOutput, Results
<1>2. \E o \in outputs : \A p \in outputs : Precedence[p] <= Precedence[o]
  <2> HIDE DEF outputs
  <2>1. CASE "HALT" \in outputs
    BY <1>1, <2>1 DEF Precedence, Results
  <2>2. CASE "HALT" \notin outputs /\ "REVIEW" \in outputs
    BY <1>1, <2>2 DEF Precedence, Results
  <2>3. CASE "HALT" \notin outputs /\ "REVIEW" \notin outputs /\ "THROTTLE" \in outputs
    BY <1>1, <2>3 DEF Precedence, Results
  <2>4. CASE "HALT" \notin outputs /\ "REVIEW" \notin outputs /\ "THROTTLE" \notin outputs
    BY <1>1, <2>4 DEF Precedence, Results
  <2> QED
    BY <2>1, <2>2, <2>3, <2>4
<1>3. Outcome(rules) \in outputs
  BY <1>2 DEF Outcome
<1> QED
  BY <1>1, <1>3

LEMMA CurrentTyped ==
  /\ CurrentG13.result \in Results
  /\ CurrentG13.version = binding.version
  /\ CurrentG13.canary => binding # NoBinding /\ CanaryAuthorized(CurrentInput)
<1>1. Triggered(CurrentInput) \subseteq DOMAIN RuleOutput
  BY DEF Triggered
<1>2. Evaluate(CurrentInput).result \in Results
  BY <1>1, OutcomeTyped DEF Evaluate
<1>3. BindingMissing.result \in Results /\ BindingMissing.canary = FALSE
  BY DEF BindingMissing, Results
<1>4. Evaluate(CurrentInput).canary = CanaryAuthorized(CurrentInput)
  BY DEF Evaluate
<1> QED
  BY <1>2, <1>3, <1>4 DEF CurrentG13, WithBinding

LEMMA CapTyped ==
  ASSUME ProfilesInv, ProfilesTypeOK
  PROVE  Cap \in Nat /\ Resolve(now) \in 0 .. MaxProfiles
<1>1. CASE Resolve(now) = NoProfile
  BY <1>1, ProfileAssumptions DEF Cap, NoProfile
<1>2. CASE Resolve(now) # NoProfile
  <2>1. Resolve(now) \in DOMAIN profiles
    BY <1>2, ResolvedAlone
  <2>2. profiles[Resolve(now)] \in Row
    BY <2>1, EntryTyped DEF ProfilesInv, ProfilesTyped
  <2>3. Resolve(now) \in 1 .. Len(profiles) /\ Len(profiles) \in Nat
    BY <2>1 DEF ProfilesInv, ProfilesTyped
  <2>4. Cap \in Nat
    BY <1>2, <2>2, ProfileAssumptions DEF Cap, Row
  <2>5. Len(profiles) <= MaxProfiles /\ MaxProfiles \in Nat
    BY ProfileAssumptions DEF ProfilesTypeOK
  <2> QED
    BY <2>3, <2>4, <2>5
<1> QED
  BY <1>1, <1>2

LEMMA BudgetTyped ==
  ASSUME Cap \in Nat, NEW e
  PROVE  Budget(e) \in 0 .. Reserved
<1>1. Limit(e, Cap) \in Nat
  BY CommitmentAssumptions DEF Limit, Lesser
<1> QED
  BY <1>1, CommitmentAssumptions DEF Budget, Lesser

LEMMA PreparationTyped ==
  ASSUME NEW e
  PROVE  Preparation(e) \in Codes \ ExternalCodes
BY NoCodeAssumption
   DEF Preparation, Codes, FailureCodes, DenialCodes, ExternalCodes, NonBlockingCodes

--------------------------------------------------------------------------------
(*                      the runs and the work on them                         *)

JobFields == {"stage", "amount", "seen", "ok", "boot", "observe", "profile"}

JobTyped ==
  /\ DOMAIN job = JobFields
  /\ job.stage \in Stages /\ job.amount \in 0 .. Reserved /\ job.profile \in 0 .. MaxProfiles
  /\ job.seen.result \in Results

WorkTyped ==
  /\ TrajectoryTypeOK /\ JobTyped
  /\ (job.stage # "IDLE") = (runs # <<>> /\ Last(runs).state \in {"SCHEDULED", "RUNNING"})
  /\ observed \subseteq 1 .. MaxRecoveries
  /\ identity \in {"ACTIVE", "THROTTLED", "REVIEW_REQUIRED", "HALTED"}
  /\ flag \in BOOLEAN /\ policyOn \in BOOLEAN

(* A run that is closed as denied never left the process, and the active run   *)
(* is not closed; once its work is over, a denial it ended with did not either.*)
DenialsWithheld ==
  /\ \A i \in DOMAIN runs : runs[i].code \in DenialCodes =>
        runs[i].call \in {"NONE", "NOT_EXECUTED"} /\ runs[i].decision = "NONE"
  /\ job.stage # "IDLE" => Last(runs).code = NoCode
  /\ job.stage = "ANSWERED" /\ Last(runs).event \in {"G13_REVIEW", "G13_HALT"} =>
        Last(runs).call \in {"NONE", "NOT_EXECUTED"}

WorkInv == WorkTyped /\ DenialsWithheld /\ OneProbePerRecovery

LEMMA LastTyped ==
  ASSUME runs \in Seq(Run), runs # <<>>
  PROVE  /\ Last(runs) = runs[Len(runs)] /\ Last(runs) \in Run
         /\ Len(runs) \in DOMAIN runs /\ Len(runs) \in Nat \ {0} /\ DOMAIN runs = 1 .. Len(runs)
<1>1. Len(runs) \in Nat \ {0} /\ DOMAIN runs = 1 .. Len(runs) /\ Last(runs) = runs[Len(runs)]
  BY DEF Last
<1> QED
  BY <1>1, EntryTyped

LEMMA UpdateTyped ==
  ASSUME runs \in Seq(Run), runs # <<>>, Now \in 0 .. MaxRecoveries, NEW r \in Run, Update(r)
  PROVE  /\ runs' \in Seq(Run) /\ Len(runs') = Len(runs) /\ DOMAIN runs' = DOMAIN runs
         /\ runs' # <<>> /\ Last(runs)' = [r EXCEPT !.ended = Now]
         /\ runs'[Len(runs)] = [r EXCEPT !.ended = Now]
         /\ \A i \in DOMAIN runs : i # Len(runs) => runs'[i] = runs[i]
<1> DEFINE new == [r EXCEPT !.ended = Now]
<1>1. new \in Run
  BY DEF Run, Instants
<1>2. runs' = [runs EXCEPT ![Len(runs)] = new]
  BY DEF Update
<1> HIDE DEF new
<1>3. /\ runs' \in Seq(Run) /\ Len(runs') = Len(runs) /\ DOMAIN runs' = DOMAIN runs
      /\ runs'[Len(runs)] = new
      /\ \A i \in DOMAIN runs : i # Len(runs) => runs'[i] = runs[i]
  BY <1>1, <1>2, LastTyped
<1>4. runs' # <<>> /\ Last(runs)' = runs'[Len(runs')]
  BY <1>3, LastTyped DEF Last
<1> QED
  BY <1>3, <1>4 DEF new

(* What a step of the scheduler or the worker leaves well-formed around a run. *)
Around ==
  /\ foreign' \in Instants
  /\ observed' \subseteq 1 .. MaxRecoveries
  /\ identity' \in {"ACTIVE", "THROTTLED", "REVIEW_REQUIRED", "HALTED"}
  /\ flag' \in BOOLEAN /\ policyOn' \in BOOLEAN

LEMMA WorkRests ==
  ASSUME WorkInv, Around, UNCHANGED <<runs, job>>
  PROVE  WorkInv'
BY DEF WorkInv, WorkTyped, Around, TrajectoryTypeOK, JobTyped, DenialsWithheld, OneProbePerRecovery

(* The run that an update leaves active.                                       *)
LEMMA WorkMoves ==
  ASSUME WorkInv, Around, Now \in 0 .. MaxRecoveries, job.stage # "IDLE",
         NEW r \in Run, Update(r), r.state \in {"SCHEDULED", "RUNNING"}, r.code = NoCode,
         JobTyped', job'.stage # "IDLE",
         job'.stage = "ANSWERED" /\ r.event \in {"G13_REVIEW", "G13_HALT"} =>
            r.call \in {"NONE", "NOT_EXECUTED"},
         r.flagged => \/ Last(runs).flagged /\ Last(runs).requested = r.requested
                      \/ \A i \in DOMAIN runs : ~(runs[i].flagged /\ runs[i].requested = r.requested)
  PROVE  WorkInv'
<1>1. runs \in Seq(Run) /\ runs # <<>> /\ Len(runs) <= MaxRuns
  BY DEF WorkInv, WorkTyped, TrajectoryTypeOK
<1> DEFINE new == [r EXCEPT !.ended = Now]
<1>2. /\ runs' \in Seq(Run) /\ Len(runs') = Len(runs) /\ DOMAIN runs' = DOMAIN runs
      /\ runs' # <<>> /\ Last(runs)' = new /\ runs'[Len(runs)] = new
      /\ \A i \in DOMAIN runs : i # Len(runs) => runs'[i] = runs[i]
  BY <1>1, UpdateTyped
<1>3. /\ new.state = r.state /\ new.code = r.code /\ new.event = r.event /\ new.call = r.call
      /\ new.flagged = r.flagged /\ new.requested = r.requested
  BY DEF Run
<1> HIDE DEF new
<1>4. Len(runs) \in DOMAIN runs /\ Last(runs) = runs[Len(runs)]
  BY <1>1, LastTyped
<1>5. WorkTyped'
  BY <1>1, <1>2, <1>3 DEF WorkInv, WorkTyped, Around, TrajectoryTypeOK
<1>6. DenialsWithheld'
  BY <1>2, <1>3, NoCodeAssumption DEF WorkInv, DenialsWithheld
<1>7. OneProbePerRecovery'
  <2>1. ASSUME NEW i \in DOMAIN runs, i # Len(runs), new.flagged, runs[i].flagged
        PROVE  runs[i].requested # new.requested
    BY <1>3, <1>4, <2>1 DEF WorkInv, OneProbePerRecovery
  <2> QED
    BY <1>2, <2>1 DEF WorkInv, OneProbePerRecovery
<1> QED
  BY <1>5, <1>6, <1>7 DEF WorkInv

LEMMA WorkCloses ==
  ASSUME WorkInv, Around, Now \in 0 .. MaxRecoveries, job.stage # "IDLE",
         NEW s \in {"COMPLETED", "FAILED"}, NEW c \in Codes, NEW d \in {"NONE", "PERMIT", "BLOCK"},
         Close(s, c, d),
         c \in DenialCodes => Last(runs).call \in {"NONE", "NOT_EXECUTED"} /\ d = "NONE"
  PROVE  WorkInv'
<1>1. runs \in Seq(Run) /\ runs # <<>> /\ Len(runs) <= MaxRuns
  BY DEF WorkInv, WorkTyped, TrajectoryTypeOK
<1>2. Last(runs) \in Run /\ Len(runs) \in DOMAIN runs /\ Last(runs) = runs[Len(runs)]
  BY <1>1, LastTyped
<1> DEFINE r == [Last(runs) EXCEPT !.state = s, !.code = c, !.decision = d]
           new == [r EXCEPT !.ended = Now]
<1>3. r \in Run
  BY <1>2 DEF Run
<1>4. Update(r) /\ job' = Idle
  BY DEF Close
<1>5. /\ new.state = s /\ new.code = c /\ new.decision = d /\ new.call = Last(runs).call
      /\ new.flagged = Last(runs).flagged /\ new.requested = Last(runs).requested
  BY <1>2 DEF Run
<1> HIDE DEF r
<1>6. /\ runs' \in Seq(Run) /\ Len(runs') = Len(runs) /\ DOMAIN runs' = DOMAIN runs
      /\ runs' # <<>> /\ Last(runs)' = new /\ runs'[Len(runs)] = new
      /\ \A i \in DOMAIN runs : i # Len(runs) => runs'[i] = runs[i]
  BY <1>1, <1>3, <1>4, UpdateTyped
<1> HIDE DEF new
<1>7. JobTyped' /\ job'.stage = "IDLE"
  BY <1>4, CommitmentAssumptions, ProfileAssumptions
     DEF JobTyped, Idle, JobFields, Stages, NoProfile, Results
<1>8. WorkTyped'
  BY <1>1, <1>5, <1>6, <1>7 DEF WorkInv, WorkTyped, Around, TrajectoryTypeOK
<1>9. DenialsWithheld'
  BY <1>2, <1>5, <1>6, <1>7 DEF WorkInv, DenialsWithheld
<1>10. OneProbePerRecovery'
  <2>1. ASSUME NEW i \in DOMAIN runs, i # Len(runs), new.flagged, runs[i].flagged
        PROVE  runs[i].requested # new.requested
    BY <1>2, <1>5, <2>1 DEF WorkInv, OneProbePerRecovery
  <2> QED
    BY <1>6, <2>1 DEF WorkInv, OneProbePerRecovery
<1> QED
  BY <1>8, <1>9, <1>10 DEF WorkInv

LEMMA WorkStarts ==
  ASSUME WorkInv, Around, Now \in 0 .. MaxRecoveries, job.stage = "IDLE", Len(runs) < MaxRuns,
         runs' = Append(runs, NewRun), job' = [job EXCEPT !.stage = "SCHEDULED"]
  PROVE  WorkInv'
<1>1. runs \in Seq(Run) /\ Len(runs) \in Nat /\ DOMAIN runs = 1 .. Len(runs)
  BY DEF WorkInv, WorkTyped, TrajectoryTypeOK
<1>2. NewRun \in Run /\ NewRun.state = "SCHEDULED" /\ NewRun.code = NoCode /\ ~NewRun.flagged
  BY DEF NewRun, Run, Codes, FailureCodes, Instants, Never
<1>3. /\ runs' \in Seq(Run) /\ Len(runs') = Len(runs) + 1
      /\ runs'[Len(runs) + 1] = NewRun
      /\ DOMAIN runs' = DOMAIN runs \cup {Len(runs) + 1}
      /\ \A i \in DOMAIN runs : runs'[i] = runs[i]
  BY <1>1, <1>2
<1>4. runs' # <<>> /\ Last(runs)' = NewRun
  BY <1>1, <1>3 DEF Last
<1>5. JobTyped' /\ job'.stage = "SCHEDULED"
  BY DEF WorkInv, WorkTyped, JobTyped, JobFields, Stages
<1>6. WorkTyped'
  BY <1>1, <1>2, <1>3, <1>4, <1>5, TrajectoryAssumptions
     DEF WorkInv, WorkTyped, Around, TrajectoryTypeOK
<1>7. DenialsWithheld'
  BY <1>2, <1>3, <1>4, <1>5, NoCodeAssumption DEF WorkInv, DenialsWithheld
<1>8. OneProbePerRecovery'
  BY <1>2, <1>3 DEF WorkInv, OneProbePerRecovery
<1> QED
  BY <1>6, <1>7, <1>8 DEF WorkInv

--------------------------------------------------------------------------------
(*                 the runs and the work on them: one step                    *)

LEMMA NowTyped ==
  ASSUME RecoveriesOK
  PROVE  Now \in 0 .. MaxRecoveries /\ Now \in Instants /\ MaxRecoveries \in Nat
BY RecoveryAssumptions DEF RecoveriesOK, RecoveryTypeOK, Now, Instants

LEMMA ActiveTyped ==
  ASSUME WorkInv, job.stage # "IDLE"
  PROVE  /\ Last(runs) \in Run /\ Last(runs).state \in {"SCHEDULED", "RUNNING"}
         /\ Last(runs).code = NoCode
<1>1. runs \in Seq(Run) /\ runs # <<>> /\ Last(runs).state \in {"SCHEDULED", "RUNNING"}
  BY DEF WorkInv, WorkTyped, TrajectoryTypeOK
<1> QED
  BY <1>1, LastTyped DEF WorkInv, DenialsWithheld

LEMMA Undisturbed ==
  ASSUME WorkInv, UNCHANGED <<foreign, observed, identity, switches>>
  PROVE  Around
BY DEF WorkInv, WorkTyped, TrajectoryTypeOK, Around, switches

LEMMA WorkAdvances ==
  ASSUME WorkInv, Around, UNCHANGED runs, JobTyped', job.stage # "IDLE",
         job'.stage \notin {"IDLE", "ANSWERED"}
  PROVE  WorkInv'
BY DEF WorkInv, WorkTyped, Around, TrajectoryTypeOK, DenialsWithheld, OneProbePerRecovery

LEMMA IdleTyped ==
  ASSUME NEW s \in Stages, job' = [Idle EXCEPT !.stage = s]
  PROVE  JobTyped' /\ job'.stage = s
BY CommitmentAssumptions, ProfileAssumptions DEF JobTyped, Idle, JobFields, Stages, NoProfile, Results

LEMMA StageTyped ==
  ASSUME JobTyped, NEW s \in Stages, job' = [job EXCEPT !.stage = s]
  PROVE  JobTyped' /\ job'.stage = s
BY DEF JobTyped, JobFields

LEMMA StateOfTyped ==
  ASSUME NEW result \in Results
  PROVE  StateOf(result) \in {"ACTIVE", "THROTTLED", "REVIEW_REQUIRED", "HALTED"}
BY DEF StateOf, Results

LEMMA RefuseKeeps ==
  ASSUME WorkInv, Around, Now \in 0 .. MaxRecoveries, job.stage # "IDLE",
         NEW code \in Codes, Refuse(code)
  PROVE  WorkInv'
<1> DEFINE r == [Last(runs) EXCEPT !.event = code,
                    !.call = IF @ = "NONE" THEN "NONE" ELSE "NOT_EXECUTED"]
<1>1. /\ Last(runs) \in Run /\ Last(runs).state \in {"SCHEDULED", "RUNNING"}
      /\ Last(runs).code = NoCode
  BY ActiveTyped
<1>2. r \in Run
  BY <1>1 DEF Run
<1>3. /\ r.state = Last(runs).state /\ r.code = Last(runs).code
      /\ r.flagged = Last(runs).flagged /\ r.requested = Last(runs).requested
      /\ r.call \in {"NONE", "NOT_EXECUTED"}
  BY <1>1 DEF Run
<1>4. Update(r) /\ job' = [Idle EXCEPT !.stage = "ANSWERED"]
  BY DEF Refuse
<1>5. JobTyped' /\ job'.stage = "ANSWERED"
  BY <1>4, IdleTyped DEF Stages
<1> HIDE DEF r
<1> QED
  BY <1>1, <1>2, <1>3, <1>4, <1>5, WorkMoves

LEMMA ScheduleKeeps ==
  ASSUME WorkInv, RecoveriesOK, ScheduleDue
  PROVE  WorkInv'
<1> DEFINE state == IF Supersedes(CurrentG13) THEN "ACTIVE" ELSE identity
<1>1. Around
  BY DEF ScheduleDue, Around, WorkInv, WorkTyped, TrajectoryTypeOK, switches
<1>2. CASE Admitted(CurrentG13, state)
  <2>1. /\ runs' = Append(runs, NewRun) /\ job' = [job EXCEPT !.stage = "SCHEDULED"]
        /\ job.stage = "IDLE" /\ Len(runs) < MaxRuns
    BY <1>2 DEF ScheduleDue, Admitted
  <2> QED
    BY <1>1, <2>1, NowTyped, WorkStarts
<1>3. CASE ~Admitted(CurrentG13, state)
  BY <1>1, <1>3, WorkRests DEF ScheduleDue
<1> QED
  BY <1>2, <1>3

LEMMA ClaimKeeps ==
  ASSUME WorkInv, RecoveriesOK, ExecuteClaimed
  PROVE  WorkInv'
<1>1. Around /\ job.stage = "SCHEDULED"
  BY Undisturbed DEF ExecuteClaimed
<1>2. CASE Claimable = NoCode
  <2> DEFINE r == [Last(runs) EXCEPT !.state = "RUNNING"]
  <2>1. Last(runs) \in Run /\ Last(runs).code = NoCode
    BY <1>1, ActiveTyped
  <2>2. /\ r \in Run /\ r.state = "RUNNING" /\ r.code = NoCode
        /\ r.flagged = Last(runs).flagged /\ r.requested = Last(runs).requested
    BY <2>1 DEF Run
  <2>3. Update(r) /\ job' = [job EXCEPT !.stage = "CLAIMED"]
    BY <1>2 DEF ExecuteClaimed
  <2>4. JobTyped' /\ job'.stage = "CLAIMED"
    BY <2>3, StageTyped DEF WorkInv, WorkTyped, Stages
  <2> HIDE DEF r
  <2> QED
    BY <1>1, <2>2, <2>3, <2>4, NowTyped, WorkMoves
<1>3. CASE Claimable # NoCode
  <2>1. /\ Claimable \in Codes
        /\ Claimable \notin DenialCodes
    BY <1>3 DEF Claimable, Codes, FailureCodes, DenialCodes
  <2>2. Close("FAILED", Claimable, "NONE")
    BY <1>3 DEF ExecuteClaimed
  <2> QED
    BY <1>1, <2>1, <2>2, NowTyped, WorkCloses
<1> QED
  BY <1>2, <1>3

(* The recovery of a binding is an event that was recorded.                    *)
LEMMA RecoveryOfBindingTyped ==
  ASSUME RecoveriesOK
  PROVE  RecoveryOfBinding \in 0 .. Now /\ Now \in Nat
<1> DEFINE fit == {i \in DOMAIN recoveries :
                     \/ recoveries[i].under # 0
                        /\ recoveries[i].under = binding.recovery
                        /\ recoveries[i].version = binding.version
                     \/ i = binding.recovery}
<1>1. Now \in Nat /\ DOMAIN recoveries = 1 .. Now
  BY DEF RecoveriesOK, RecoveryTypeOK, Now
<1>2. CASE RecoveryOfBinding = 0
  BY <1>1, <1>2
<1>3. CASE RecoveryOfBinding # 0
  <2>1. fit # {} /\ RecoveryOfBinding = CHOOSE i \in fit : \A j \in fit : j <= i
    BY <1>3 DEF RecoveryOfBinding
  <2>2. \E i \in fit : \A j \in fit : j <= i
    BY <2>1 DEF RecoveriesOK, HasNewest
  <2>3. RecoveryOfBinding \in fit
    BY <2>1, <2>2
  <2> QED
    BY <1>1, <2>3
<1> QED
  BY <1>2, <1>3

(* A probe is made only when none has been made since the recovery in force.   *)
LEMMA ProbeIsFirst ==
  ASSUME RecoveriesOK, ProbeV4(CurrentG13)
  PROVE  \A i \in DOMAIN runs : ~(runs[i].flagged /\ runs[i].requested = Now)
<1> DEFINE cutoff == RecoveryOfBinding
<1>1. binding.version = 4 /\ CanaryAuthorized(CurrentInput)
  BY CurrentTyped DEF ProbeV4
<1>2. /\ CurrentInput.version = binding.version
      /\ CurrentInput.recovery = IF cutoff = 0 THEN NoRecovery
                                 ELSE [id |-> cutoff, limit |-> CanaryLimit, valid |-> TRUE]
      /\ CurrentInput.attempts = IF cutoff # 0 /\ ProbeStarted(cutoff) THEN 1 ELSE 0
  BY DEF CurrentInput, InputOver, FromObservations
<1>3. CurrentInput.recovery.valid /\ CurrentInput.attempts < CurrentInput.recovery.limit
  BY <1>1, <1>2 DEF CanaryAuthorized, ValidRecovery, AttemptsBelow, EpisodeVersions
<1>4. cutoff # 0
  BY <1>2, <1>3 DEF NoRecovery
<1>5. ~ProbeStarted(cutoff)
  BY <1>2, <1>3, <1>4 DEF CanaryLimit
<1>6. cutoff \in 0 .. Now /\ Now \in Nat
  BY RecoveryOfBindingTyped
<1> HIDE DEF cutoff
<1> QED
  BY <1>5, <1>6 DEF ProbeStarted

LEMMA AttemptKeeps ==
  ASSUME WorkInv, RecoveriesOK, ProfilesInv, ProfilesTypeOK, job.stage # "IDLE", Attempt
  PROVE  WorkInv'
<1>1. /\ UNCHANGED <<foreign, identity, switches>> /\ UNCHANGED recoveries
  BY DEF Attempt, recoveryVars
<1>2. ASSUME NEW code \in Codes, Refuse(code) PROVE WorkInv'
  <2>1. Around
    BY <1>1, <1>2, Undisturbed DEF Refuse
  <2> QED
    BY <1>2, <2>1, NowTyped, RefuseKeeps
<1>3. CASE Preparation(CurrentG13) # NoCode
  <2>1. Refuse(Preparation(CurrentG13))
    BY <1>3 DEF Attempt
  <2> QED
    BY <1>2, <2>1, PreparationTyped
<1>4. CASE Preparation(CurrentG13) = NoCode /\ Last(runs).call # "NONE"
  <2>1. Refuse("WORKER_INTERNAL_PRE_NETWORK")
    BY <1>4 DEF Attempt
  <2>2. "WORKER_INTERNAL_PRE_NETWORK" \in Codes
    BY DEF Codes, FailureCodes
  <2> QED
    BY <1>2, <2>1, <2>2
<1>5. CASE Preparation(CurrentG13) = NoCode /\ Last(runs).call = "NONE"
  <2> DEFINE e == CurrentG13
             r == [Last(runs) EXCEPT !.call = "REQUESTED", !.requested = Now,
                                     !.flagged = ProbeV4(e)]
  <2>1. /\ Update(r)
        /\ job' = [stage |-> "REQUESTED", amount |-> Budget(e), seen |-> e,
                   ok |-> Budget(e) <= Limit(e, Cap), boot |-> Boots(e),
                   observe |-> Observes(e), profile |-> NoProfile]
        /\ observed' = IF Observes(e) THEN observed \cup {Len(recoveries)} ELSE observed
    BY <1>5 DEF Attempt
  <2>2. Last(runs) \in Run /\ Last(runs).state \in {"SCHEDULED", "RUNNING"} /\ Last(runs).code = NoCode
    BY ActiveTyped
  <2>3. ProbeV4(e) \in BOOLEAN
    BY DEF ProbeV4
  <2>4. /\ r \in Run /\ r.state = Last(runs).state /\ r.code = NoCode
        /\ r.flagged = ProbeV4(e) /\ r.requested = Now
    BY <2>2, <2>3, NowTyped DEF Run
  <2>5. JobTyped' /\ job'.stage = "REQUESTED"
    <3>1. Budget(e) \in 0 .. Reserved
      BY CapTyped, BudgetTyped
    <3>2. NoProfile \in 0 .. MaxProfiles
      BY ProfileAssumptions DEF NoProfile
    <3>3. e.result \in Results
      BY CurrentTyped
    <3> HIDE DEF e
    <3> QED
      BY <2>1, <3>1, <3>2, <3>3 DEF JobTyped, JobFields, Stages
  <2>6. Around
    <3>1. observed' \subseteq 1 .. MaxRecoveries
      <4>1. CASE Observes(e)
        <5>1. recoveries # <<>> /\ recoveries \in Seq(Recovery) /\ Len(recoveries) <= MaxRecoveries
          BY <4>1 DEF Observes, ObservationAvailable, RecoveriesOK, RecoveryTypeOK
        <5>2. Len(recoveries) \in 1 .. MaxRecoveries
          BY <5>1, NowTyped
        <5> QED
          BY <2>1, <4>1, <5>2 DEF WorkInv, WorkTyped
      <4>2. CASE ~Observes(e)
        BY <2>1, <4>2 DEF WorkInv, WorkTyped
      <4> QED
        BY <4>1, <4>2
    <3> QED
      BY <1>1, <3>1 DEF WorkInv, WorkTyped, TrajectoryTypeOK, Around, switches
  <2>7. r.flagged => \A i \in DOMAIN runs : ~(runs[i].flagged /\ runs[i].requested = r.requested)
    BY <2>4, ProbeIsFirst
  <2> HIDE DEF r, e
  <2> QED
    BY <2>1, <2>2, <2>4, <2>5, <2>6, <2>7, NowTyped, WorkMoves
<1> QED
  BY <1>3, <1>4, <1>5

LEMMA PermitKeeps ==
  ASSUME WorkInv, RecoveriesOK, ProfilesInv, ProfilesTypeOK, IssuePermit
  PROVE  WorkInv'
<1>1. /\ job.stage = "REQUESTED" /\ UNCHANGED <<foreign, switches>>
      /\ JobTyped /\ foreign \in Instants /\ observed \subseteq 1 .. MaxRecoveries
      /\ identity \in {"ACTIVE", "THROTTLED", "REVIEW_REQUIRED", "HALTED"}
      /\ flag \in BOOLEAN /\ policyOn \in BOOLEAN
  BY DEF IssuePermit, WorkInv, WorkTyped, TrajectoryTypeOK
<1>2. CASE Issued
  <2>1. /\ identity' = StateOf(job.seen.result) /\ UNCHANGED <<runs, observed>>
        /\ job' = [job EXCEPT !.stage = "PERMITTED", !.profile = Resolve(now)]
    BY <1>2 DEF IssuePermit
  <2>2. Around
    BY <1>1, <2>1, StateOfTyped DEF Around, JobTyped, switches
  <2>3. JobTyped' /\ job'.stage = "PERMITTED"
    BY <1>1, <2>1, CapTyped DEF JobTyped, JobFields, Stages
  <2> QED
    BY <1>1, <2>1, <2>2, <2>3, WorkAdvances
<1>3. CASE ~Issued
  <2>1. Refuse("WORKER_INTERNAL_PRE_NETWORK") /\ UNCHANGED <<identity, observed>>
    BY <1>3 DEF IssuePermit, Refuse
  <2>2. "WORKER_INTERNAL_PRE_NETWORK" \in Codes
    BY DEF Codes, FailureCodes
  <2> QED
    BY <1>1, <2>1, <2>2, Undisturbed, NowTyped, RefuseKeeps
<1> QED
  BY <1>2, <1>3

LEMMA CommitKeeps ==
  ASSUME WorkInv, RecoveriesOK, Commit
  PROVE  WorkInv'
<1>1. /\ job.stage = "PERMITTED" /\ UNCHANGED <<foreign, switches>>
      /\ JobTyped /\ foreign \in Instants /\ observed \subseteq 1 .. MaxRecoveries
      /\ flag \in BOOLEAN /\ policyOn \in BOOLEAN
  BY DEF Commit, WorkInv, WorkTyped, TrajectoryTypeOK
<1>2. CASE Fresh(CurrentG13)
  <2> DEFINE r == [Last(runs) EXCEPT !.spent = job.amount]
  <2>1. /\ identity' = StateOf(CurrentG13.result) /\ UNCHANGED observed
        /\ Update(r) /\ job' = [job EXCEPT !.stage = "COMMITTED"]
    BY <1>2 DEF Commit
  <2>2. Around
    BY <1>1, <2>1, StateOfTyped, CurrentTyped DEF Around, switches
  <2>3. JobTyped' /\ job'.stage = "COMMITTED"
    BY <1>1, <2>1, StageTyped DEF Stages
  <2>4. Last(runs) \in Run /\ Last(runs).state \in {"SCHEDULED", "RUNNING"} /\ Last(runs).code = NoCode
    BY <1>1, ActiveTyped
  <2>5. job.amount \in Nat
    BY <1>1, CommitmentAssumptions DEF JobTyped
  <2>6. /\ r \in Run /\ r.state = Last(runs).state /\ r.code = NoCode
        /\ r.flagged = Last(runs).flagged /\ r.requested = Last(runs).requested
    BY <2>4, <2>5 DEF Run
  <2> HIDE DEF r
  <2> QED
    BY <1>1, <2>1, <2>2, <2>3, <2>4, <2>6, NowTyped, WorkMoves
<1>3. CASE ~Fresh(CurrentG13)
  <2>1. Refuse("WORKER_INTERNAL_PRE_NETWORK") /\ UNCHANGED <<identity, observed>>
    BY <1>3 DEF Commit, Refuse
  <2>2. "WORKER_INTERNAL_PRE_NETWORK" \in Codes
    BY DEF Codes, FailureCodes
  <2> QED
    BY <1>1, <2>1, <2>2, Undisturbed, NowTyped, RefuseKeeps
<1> QED
  BY <1>2, <1>3

LEMMA AnswerKeeps ==
  ASSUME WorkInv, RecoveriesOK, Answer
  PROVE  WorkInv'
<1>1. PICK o \in Outcomes : Update([Last(runs) EXCEPT !.call = o[1], !.event = o[2]])
  BY DEF Answer
<1> DEFINE r == [Last(runs) EXCEPT !.call = o[1], !.event = o[2]]
<1>2. /\ o[1] \in {"SUCCEEDED", "RECONCILED_NO_PAYMENT", "PAYMENT_UNCERTAIN"}
      /\ o[2] \in Codes /\ o[2] \notin {"G13_REVIEW", "G13_HALT"}
  BY NoCodeAssumption DEF Outcomes, Codes, FailureCodes, ExternalCodes, NonBlockingCodes, DenialCodes
<1>3. Around /\ job.stage = "COMMITTED" /\ job' = [Idle EXCEPT !.stage = "ANSWERED"]
  BY Undisturbed DEF Answer
<1>4. Last(runs) \in Run /\ Last(runs).state \in {"SCHEDULED", "RUNNING"} /\ Last(runs).code = NoCode
  BY <1>3, ActiveTyped
<1>5. /\ r \in Run /\ r.state = Last(runs).state /\ r.code = NoCode /\ r.event = o[2]
      /\ r.flagged = Last(runs).flagged /\ r.requested = Last(runs).requested
  BY <1>2, <1>4 DEF Run
<1>6. JobTyped' /\ job'.stage = "ANSWERED"
  BY <1>3, IdleTyped DEF Stages
<1>7. Update(r)
  BY <1>1
<1> HIDE DEF r
<1> QED
  BY <1>2, <1>3, <1>4, <1>5, <1>6, <1>7, NowTyped, WorkMoves

LEMMA ConcludeKeeps ==
  ASSUME WorkInv, RecoveriesOK, Conclude
  PROVE  WorkInv'
<1>1. Around /\ job.stage = "ANSWERED"
  BY Undisturbed DEF Conclude
<1>2. Last(runs).event \in Codes
  BY <1>1, ActiveTyped DEF Run
<1>3. /\ NoCode \in Codes /\ NoCode \notin DenialCodes
      /\ "STRICT_PROVENANCE_FAILED" \in Codes /\ "STRICT_PROVENANCE_FAILED" \notin DenialCodes
  BY NoCodeAssumption DEF Codes, FailureCodes, DenialCodes
<1>4. CASE Last(runs).event \in {"G13_REVIEW", "G13_HALT"}
  <2>1. Close("FAILED", Last(runs).event, "NONE")
    BY <1>4 DEF Conclude
  <2>2. Last(runs).call \in {"NONE", "NOT_EXECUTED"}
    BY <1>1, <1>4 DEF WorkInv, DenialsWithheld
  <2> QED
    BY <1>1, <1>2, <2>1, <2>2, NowTyped, WorkCloses
<1>5. CASE Last(runs).event \notin {"G13_REVIEW", "G13_HALT"}
  <2>1. \/ \E d \in {"PERMIT", "BLOCK"} : Close("COMPLETED", NoCode, d)
        \/ Close("FAILED", "STRICT_PROVENANCE_FAILED", "NONE")
    <3>1. CASE Last(runs).call = "SUCCEEDED"
      BY <1>5, <3>1 DEF Conclude
    <3>2. CASE Last(runs).call # "SUCCEEDED"
      BY <1>5, <3>2 DEF Conclude
    <3> QED
      BY <3>1, <3>2
  <2>2. CASE Close("FAILED", "STRICT_PROVENANCE_FAILED", "NONE")
    BY <1>1, <1>3, <2>2, NowTyped, WorkCloses
  <2>3. CASE \E d \in {"PERMIT", "BLOCK"} : Close("COMPLETED", NoCode, d)
    <3>1. PICK d \in {"PERMIT", "BLOCK"} : Close("COMPLETED", NoCode, d)
      BY <2>3
    <3> QED
      BY <1>1, <1>3, <3>1, NowTyped, WorkCloses
  <2> QED
    BY <2>1, <2>2, <2>3
<1> QED
  BY <1>4, <1>5

LEMMA AbandonKeeps ==
  ASSUME WorkInv, RecoveriesOK, Abandon
  PROVE  WorkInv'
<1>1. Around /\ job.stage # "IDLE" /\ Close("FAILED", "AUTONOMY_ORPHANED_MANDATE", "NONE")
  BY Undisturbed DEF Abandon
<1>2. /\ "AUTONOMY_ORPHANED_MANDATE" \in Codes
      /\ "AUTONOMY_ORPHANED_MANDATE" \notin DenialCodes
  BY DEF Codes, FailureCodes, BookkeepingCodes, DenialCodes
<1> QED
  BY <1>1, <1>2, NowTyped, WorkCloses

LEMMA WorkStep ==
  ASSUME WorkInv, RecoveriesOK, ProfilesInv, ProfilesTypeOK, [Next]_vars
  PROVE  WorkInv'
<1>1. CASE ScheduleDue
  BY <1>1, ScheduleKeeps
<1>2. CASE ExecuteClaimed
  BY <1>2, ClaimKeeps
<1>3. CASE Work
  <2>1. CASE Prepare \/ Retry
    <3>1. job.stage # "IDLE" /\ Attempt
      BY <2>1 DEF Prepare, Retry
    <3> QED
      BY <3>1, AttemptKeeps
  <2> QED
    BY <1>3, <2>1, PermitKeeps, CommitKeeps, AnswerKeeps, ConcludeKeeps, AbandonKeeps DEF Work
<1>4. CASE Administer \/ Recover \/ ManageGrants
  <2>1. UNCHANGED <<foreign, runs, job, observed, identity, switches>>
    BY <1>4 DEF Administer, Recover, ManageGrants, workVars
  <2> QED
    BY <2>1, Undisturbed, WorkRests
<1>5. CASE OtherAgentProbes
  <2>1. foreign' = Now /\ UNCHANGED <<runs, job, observed, identity, switches>>
    BY <1>5 DEF OtherAgentProbes, workVars
  <2>2. Around
    BY <2>1, NowTyped DEF Around, WorkInv, WorkTyped, switches
  <2> QED
    BY <2>1, <2>2, WorkRests
<1>6. CASE SwitchPolicy \/ SwitchFlag
  <2>1. /\ UNCHANGED <<foreign, runs, job, observed, identity>>
        /\ flag' \in BOOLEAN /\ policyOn' \in BOOLEAN
    BY <1>6 DEF SwitchPolicy, SwitchFlag, workVars, WorkInv, WorkTyped
  <2>2. Around
    BY <2>1 DEF Around, WorkInv, WorkTyped, TrajectoryTypeOK
  <2> QED
    BY <2>1, <2>2, WorkRests
<1>7. CASE UNCHANGED vars
  BY <1>7, Undisturbed, WorkRests DEF vars, workVars
<1> QED
  BY <1>1, <1>2, <1>3, <1>4, <1>5, <1>6, <1>7 DEF Next

(* Only a recovery gives a binding a recovery event: a version that predates   *)
(* them names none.                                                            *)
UnboundIsPlain == binding.version \notin RecoveryVersions => binding.recovery = 0

LEMMA UnboundKept ==
  ASSUME UnboundIsPlain, [Next]_vars
  PROVE  UnboundIsPlain'
<1>1. CASE UNCHANGED <<recoveries, binding>>
  BY <1>1 DEF UnboundIsPlain
<1>2. ASSUME NEW c \in {[from |-> 2, to |-> 3], [from |-> 3, to |-> 4], [from |-> 4, to |-> 5]},
             Follow(c)
      PROVE  UnboundIsPlain'
  <2>1. \/ UNCHANGED binding
        \/ binding' = [version |-> c.to, recovery |-> Len(recoveries) + 1]
    BY <1>2 DEF Follow, Activate, Transition, Newest
  <2>2. c.to \in RecoveryVersions
    BY DEF RecoveryVersions
  <2> QED
    BY <2>1, <2>2 DEF UnboundIsPlain
<1>3. CASE RecordCurrentReviewRecovery(Unpaid)
  BY <1>3 DEF RecordCurrentReviewRecovery, UnboundIsPlain
<1> QED
  BY <1>1, <1>2, <1>3, OnlyRecoverMovesBinding, RecoverFollows DEF vars, recoveryVars

--------------------------------------------------------------------------------
(*                     the invariants of every behaviour                      *)

AuthorityInv ==
  /\ ProfilesInv /\ ProfilesTypeOK
  /\ RecoveriesOK /\ UnboundIsPlain
  /\ WorkInv

LEMMA SingleTyped ==
  ASSUME NEW S, NEW x \in S
  PROVE  <<x>> \in Seq(S) /\ Len(<<x>>) = 1
OBVIOUS

LEMMA AuthorityStarts == Init => AuthorityInv
<1> SUFFICES ASSUME Init PROVE AuthorityInv
  OBVIOUS
<1>1. ProfilesInv /\ BindingInv
  BY ProfilesStart, BindingStarts
<1>2. ProfilesTypeOK
  <2>1. now = 0 /\ changes = <<>>
    BY DEF Init, ProfilesInit
  <2>2. \/ profiles = <<>>
        \/ \E c \in Caps :
             profiles = <<[from |-> 0, until |-> Always, cap |-> c, status |-> "ACTIVE"]>>
    BY DEF Init, ProfilesInit
  <2>3. \A c \in Caps : [from |-> 0, until |-> Always, cap |-> c, status |-> "ACTIVE"] \in Profile
    BY ProfileAssumptions DEF Profile, Times, Always
  <2>5. profiles \in Seq(Profile) /\ Len(profiles) \in {0, 1}
    <3>1. CASE profiles = <<>>
      BY <3>1
    <3>2. CASE profiles # <<>>
      <4>1. PICK c \in Caps :
              profiles = <<[from |-> 0, until |-> Always, cap |-> c, status |-> "ACTIVE"]>>
        BY <2>2, <3>2
      <4> DEFINE row == [from |-> 0, until |-> Always, cap |-> c, status |-> "ACTIVE"]
      <4>2. row \in Profile /\ profiles = <<row>>
        BY <2>3, <4>1
      <4> HIDE DEF row
      <4> QED
        BY <4>2, SingleTyped
    <3> QED
      BY <3>1, <3>2
  <2>6. Len(profiles) <= MaxProfiles
    <3>1. MaxProfiles \in Nat /\ MaxProfiles >= 1
      BY ProfileAssumptions
    <3>2. \A n \in {0, 1} : n <= MaxProfiles
      BY <3>1
    <3> QED
      BY <2>5, <3>2
  <2>7. changes \in Seq(Change) /\ DOMAIN changes = {}
    BY <2>1
  <2> QED
    BY <2>1, <2>5, <2>6, <2>7, ProfileAssumptions DEF ProfilesTypeOK, Times
<1>3. RecoveriesOK /\ UnboundIsPlain
  <2>1. PICK v \in FirstBindings :
          /\ binding = [version |-> v, recovery |-> IF v \in RecoveryVersions THEN 1 ELSE 0]
          /\ recoveries = IF v \in RecoveryVersions
                          THEN <<[version |-> v, under |-> 0]>> ELSE <<>>
    BY DEF Init, RecoveryInit
  <2>2. grants = <<>>
    BY DEF Init, RecoveryInit
  <2>3. v \in {0, 2, 3, 4}
    BY RecoveryAssumptions
  <2>4. CASE v \in RecoveryVersions
    <3>1. MaxRecoveries \in Nat \ {0}
      BY <2>4, RecoveryAssumptions
    <3>2. [version |-> v, under |-> 0] \in Recovery
      BY <2>4, ContractsTyped DEF Recovery
    <3>3. recoveries \in Seq(Recovery) /\ Len(recoveries) = 1 /\ DOMAIN recoveries = {1}
      BY <2>1, <2>4, <3>2
    <3>4. HasNewest
      BY <3>3 DEF HasNewest
    <3> QED
      BY <1>1, <2>1, <2>2, <2>3, <2>4, <3>1, <3>3, <3>4, RecoveryAssumptions
         DEF RecoveriesOK, RecoveryTypeOK, UnboundIsPlain
  <2>5. CASE v \notin RecoveryVersions
    <3>1. recoveries = <<>>
      BY <2>1, <2>5
    <3>2. HasNewest
      BY <3>1 DEF HasNewest
    <3> QED
      BY <1>1, <2>1, <2>2, <2>3, <2>5, <3>1, <3>2, RecoveryAssumptions
         DEF RecoveriesOK, RecoveryTypeOK, UnboundIsPlain
  <2> QED
    BY <2>4, <2>5
<1>4. WorkInv
  <2>1. /\ runs = <<>> /\ foreign = Never /\ job = Idle /\ observed = {} /\ identity = "ACTIVE"
        /\ flag = TRUE /\ policyOn = TRUE
    BY DEF Init
  <2>2. JobTyped /\ job.stage = "IDLE"
    BY <2>1, CommitmentAssumptions, ProfileAssumptions
       DEF JobTyped, Idle, JobFields, Stages, NoProfile, Results
  <2> QED
    BY <2>1, <2>2, TrajectoryAssumptions
       DEF WorkInv, WorkTyped, TrajectoryTypeOK, Instants, DenialsWithheld, OneProbePerRecovery
<1> QED
  BY <1>1, <1>2, <1>3, <1>4 DEF AuthorityInv

LEMMA AuthorityKept == AuthorityInv /\ [Next]_vars => AuthorityInv'
<1> SUFFICES ASSUME AuthorityInv, [Next]_vars PROVE AuthorityInv'
  OBVIOUS
<1>1. ProfilesInv' /\ ProfilesTypeOK' /\ RecoveriesOK'
  BY ProfilesKept, ProfilesTypeKept, RecoveriesKept DEF AuthorityInv
<1>2. UnboundIsPlain'
  BY UnboundKept DEF AuthorityInv, RecoveriesOK
<1>3. WorkInv'
  BY WorkStep DEF AuthorityInv
<1> QED
  BY <1>1, <1>2, <1>3 DEF AuthorityInv

(* The inductive invariant, at every state.                                    *)
LEMMA AuthorityAlways == Spec => []AuthorityInv
BY AuthorityStarts, AuthorityKept, PTL DEF Spec

(* Every grant, recovery, run and permit keeps its shape and its bounds, and   *)
(* work is in progress exactly while the last run is active (schedule_due,     *)
(* execute_claimed and execute_one together).                                  *)
THEOREM AuthorityTypeCorrect == Spec => []AuthorityTypeOK
<1>1. AuthorityInv => AuthorityTypeOK
  BY DEF AuthorityInv, WorkInv, WorkTyped, JobTyped, RecoveriesOK, AuthorityTypeOK
<1> QED
  BY <1>1, AuthorityAlways, PTL

(* A recovery authorizes one probe: no two of the agent's runs were requested  *)
(* as probes under the same newest recovery, whatever was refused, withheld or *)
(* abandoned in between (the attempt count of evaluate_current_g13).           *)
THEOREM OneProbePerRecoveryHolds == Spec => []OneProbePerRecovery
<1>1. AuthorityInv => OneProbePerRecovery
  BY DEF AuthorityInv, WorkInv
<1> QED
  BY <1>1, AuthorityAlways, PTL

--------------------------------------------------------------------------------
(*                         denials and reproducibility                        *)

(* A closed denial is of a run that the window has already left out.           *)
LEMMA DeniedIsLeftOut ==
  ASSUME AuthorityInv, NEW cutoff, NEW i \in Denied
  PROVE  i \notin Selected(cutoff)
<1>1. /\ i \in DOMAIN runs /\ runs[i].code \in DenialCodes
      /\ runs[i].call \in {"NONE", "NOT_EXECUTED"} /\ runs[i].decision = "NONE"
  BY DEF Denied, AuthorityInv, WorkInv, DenialsWithheld
<1>2. i \in Nat
  BY <1>1 DEF AuthorityInv, WorkInv, WorkTyped, TrajectoryTypeOK
<1>3. RunOf(2 * i - 1) = i /\ RunOf(2 * i) = i
  BY <1>2 DEF RunOf
<1>4. \A k \in Artifacts(i, cutoff) : ArtifactCode(k) \in DenialCodes
  <2>1. ASSUME NEW k \in {2 * i - 1, 2 * i} PROVE RunOf(k) = i
    BY <1>3
  <2>2. ASSUME NEW k, RunOf(k) = i PROVE ArtifactCode(k) = runs[i].code
    BY <1>1, <2>2, NoCodeAssumption DEF ArtifactCode
  <2> QED
    BY <1>1, <2>1, <2>2 DEF Artifacts
<1>5. Statuses(runs[i]) \subseteq {"NOT_EXECUTED", "REQUESTED"}
  BY <1>1 DEF Statuses
<1>6. DeniedOnly(i, cutoff)
  BY <1>1, <1>4, <1>5 DEF DeniedOnly
<1> QED
  BY <1>6 DEF Selected

(* G13 is never triggered by its own denials: with or without the runs that it *)
(* refused, the window, the verdict and its rules are the same.                *)
THEOREM DenialsLeaveNoTraceHolds == Spec => []DenialsLeaveNoTrace
<1>1. ASSUME AuthorityInv PROVE DenialsLeaveNoTrace
  <2>1. Selected(RecoveryOfBinding) \ Denied = Selected(RecoveryOfBinding)
    BY <1>1, DeniedIsLeftOut
  <2> QED
    BY <2>1 DEF DenialsLeaveNoTrace
<1> QED
  BY <1>1, AuthorityAlways, PTL

(* What is persisted of an evaluation's input is enough to compute it again:   *)
(* what a version leaves out of the core is not there to be used under it.     *)
THEOREM EvaluationsAreReproducibleHolds == Spec => []EvaluationsAreReproducible
<1>1. ASSUME AuthorityInv PROVE CanonicalCore(CurrentInput) = CurrentInput
  <2>1. CASE binding.version \in RecoveryVersions
    BY <2>1 DEF CanonicalCore, CurrentInput, InputOver, FromObservations
  <2>2. CASE binding.version \notin RecoveryVersions
    <3>1. RecoveryOfBinding = 0
      BY <1>1, <2>2 DEF AuthorityInv, UnboundIsPlain, RecoveryOfBinding
    <3> QED
      BY <2>2, <3>1 DEF CanonicalCore, CurrentInput, InputOver, FromObservations
  <2> QED
    BY <2>1, <2>2
<1>2. AuthorityInv => EvaluationsAreReproducible
  BY <1>1 DEF EvaluationsAreReproducible
<1> QED
  BY <1>2, AuthorityAlways, PTL

--------------------------------------------------------------------------------
(*                        the window that is evaluated                        *)

(* Observations that are numbered in the order of their ids.                   *)
Numbered(O) ==
  \A a \in O : a.id \in Nat /\ a.seq = a.id /\ \A b \in O : a.id = b.id => a = b

LEMMA LatestIs ==
  ASSUME NEW O, IsFiniteSet(O), Numbered(O), O # {}
  PROVE  Latest(O) \in O /\ \A b \in O : b.id <= Latest(O).id
<1> DEFINE F == {U \in SUBSET O : U # {} /\ ~ \E a \in U : \A b \in U : b.id <= a.id}
<1>1. ASSUME F # {} PROVE FALSE
  <2>0. F \subseteq SUBSET O
    OBVIOUS
  <2> HIDE DEF F
  <2>1. PICK T \in F : \A U \in SUBSET T : U # T => U \notin F
    BY <1>1, <2>0, SmallestSet
  <2>2. T \in SUBSET O /\ T # {} /\ ~ \E a \in T : \A b \in T : b.id <= a.id
    BY <2>1 DEF F
  <2>3. PICK x \in T : TRUE
    BY <2>2
  <2>4. CASE T \ {x} = {}
    BY <2>2, <2>3, <2>4 DEF Numbered
  <2>5. CASE T \ {x} # {}
    <3>1. T \ {x} \notin F
      BY <2>1, <2>3
    <3>2. PICK m \in T \ {x} : \A b \in T \ {x} : b.id <= m.id
      BY <2>2, <2>5, <3>1 DEF F
    <3>3. \A b \in T : b.id \in Nat
      BY <2>2 DEF Numbered
    <3>4. CASE x.id <= m.id
      BY <2>2, <3>2, <3>4
    <3>5. CASE ~(x.id <= m.id)
      <4>1. \A b \in T : b.id <= x.id
        BY <2>3, <3>2, <3>3, <3>5
      <4> QED
        BY <2>2, <2>3, <4>1
    <3> QED
      BY <3>4, <3>5
  <2> QED
    BY <2>4, <2>5
<1>2. PICK a \in O : \A b \in O : b.id <= a.id
  BY <1>1
<1>3. \A c \in O : (\A b \in O : Before(b, c)) <=> (\A b \in O : b.id <= c.id)
  BY DEF Before, Numbered
<1>4. Latest(O) \in O /\ \A b \in O : Before(b, Latest(O))
  BY <1>2, <1>3 DEF Latest
<1> QED
  BY <1>3, <1>4

LEMMA AppendTyped ==
  ASSUME NEW S, NEW seq \in Seq(S), NEW x \in S
  PROVE  /\ <<>> \in Seq(S) /\ Append(seq, x) \in Seq(S)
         /\ Append(seq, x) # <<>> /\ Last(Append(seq, x)) = x
BY DEF Last

LEMMA NothingListed == ToSet(<<>>) = {}
BY DEF ToSet

LEMMA AppendListed ==
  ASSUME NEW S, NEW seq \in Seq(S), NEW x \in S
  PROVE  ToSet(Append(seq, x)) = ToSet(seq) \cup {x}
<1>1. /\ Len(seq) \in Nat /\ DOMAIN seq = 1 .. Len(seq)
      /\ DOMAIN Append(seq, x) = 1 .. (Len(seq) + 1)
      /\ Append(seq, x)[Len(seq) + 1] = x
      /\ \A i \in DOMAIN seq : Append(seq, x)[i] = seq[i]
  OBVIOUS
<1>2. DOMAIN Append(seq, x) = DOMAIN seq \cup {Len(seq) + 1}
  BY <1>1
<1> QED
  BY <1>1, <1>2, Zenon DEF ToSet

(* t is the table of the windows over the subsets of O.                        *)
Windows(t, O) ==
  t = [s \in SUBSET O |-> IF s = {} THEN <<>> ELSE Append(t[s \ {Latest(s)}], Latest(s))]

LEMMA PartsNumbered ==
  ASSUME NEW O, IsFiniteSet(O), Numbered(O), NEW s \in SUBSET O
  PROVE  IsFiniteSet(s) /\ Numbered(s)
BY FS_Subset DEF Numbered

LEMMA WithoutLatest ==
  ASSUME NEW O, IsFiniteSet(O), Numbered(O), NEW s \in SUBSET O, s # {}
  PROVE  Latest(s) \in s /\ s \ {Latest(s)} \in SUBSET s /\ s \ {Latest(s)} # s
BY PartsNumbered, LatestIs

LEMMA WindowsAgree ==
  ASSUME NEW O, IsFiniteSet(O), Numbered(O), NEW S \in SUBSET O, NEW T \in SUBSET O,
         NEW g, NEW h, Windows(g, S), Windows(h, T), NEW s \in SUBSET S, s \in SUBSET T
  PROVE  g[s] = h[s]
<1> DEFINE F == {u \in SUBSET s : g[u] # h[u]}
<1> SUFFICES ASSUME F # {} PROVE FALSE
  OBVIOUS
<1>1. IsFiniteSet(s) /\ F \subseteq SUBSET s
  BY FS_Subset
<1> HIDE DEF F
<1>2. PICK u \in F : \A v \in SUBSET u : v # u => v \notin F
  BY <1>1, SmallestSet
<1>3. u \in SUBSET S /\ u \in SUBSET T /\ u \in SUBSET s /\ u \in SUBSET O /\ g[u] # h[u]
  BY <1>2 DEF F
<1>4. /\ g[u] = IF u = {} THEN <<>> ELSE Append(g[u \ {Latest(u)}], Latest(u))
      /\ h[u] = IF u = {} THEN <<>> ELSE Append(h[u \ {Latest(u)}], Latest(u))
  BY <1>3 DEF Windows
<1>5. u # {} /\ g[u \ {Latest(u)}] # h[u \ {Latest(u)}]
  BY <1>3, <1>4
<1>6. u \ {Latest(u)} \in SUBSET u /\ u \ {Latest(u)} # u
  BY <1>3, <1>5, WithoutLatest
<1>7. u \ {Latest(u)} \in F
  BY <1>3, <1>5, <1>6 DEF F
<1> QED
  BY <1>2, <1>6, <1>7

LEMMA WindowsExist ==
  ASSUME NEW O, IsFiniteSet(O), Numbered(O)
  PROVE  \E t : Windows(t, O)
<1> DEFINE F == {U \in SUBSET O : ~ \E t : Windows(t, U)}
           table(U) == CHOOSE t : Windows(t, U)
           rest(s) == s \ {Latest(s)}
<1> SUFFICES ASSUME F # {} PROVE FALSE
  OBVIOUS
<1>0. F \subseteq SUBSET O
  OBVIOUS
<1> HIDE DEF F
<1>1. PICK T \in F : \A U \in SUBSET T : U # T => U \notin F
  BY <1>0, SmallestSet
<1>2. ASSUME NEW U \in SUBSET T, U # T
      PROVE  Windows(table(U), U)
  BY <1>0, <1>1, <1>2 DEF F
<1>5. ASSUME NEW s \in SUBSET T, s # {}
      PROVE  Latest(s) \in s /\ rest(s) \in SUBSET s /\ rest(s) # s /\ rest(s) \in SUBSET T
             /\ rest(s) # T
  BY <1>0, <1>1, <1>5, WithoutLatest
<1> DEFINE t == [s \in SUBSET T |->
                   IF s = {} THEN <<>> ELSE Append(table(rest(s))[rest(s)], Latest(s))]
<1> HIDE DEF table
<1>3. ASSUME NEW s \in SUBSET T, s # {}
      PROVE  t[rest(s)] = table(rest(s))[rest(s)]
  <2> DEFINE r == rest(s)
  <2>1. r \in SUBSET T /\ r # T
    BY <1>3, <1>5
  <2>2. Windows(table(r), r)
    BY <1>2, <2>1
  <2>3. table(r)[r] = IF r = {} THEN <<>> ELSE Append(table(r)[rest(r)], Latest(r))
    BY <2>2 DEF Windows
  <2>4. t[r] = IF r = {} THEN <<>> ELSE Append(table(rest(r))[rest(r)], Latest(r))
    BY <2>1
  <2>5. CASE r = {}
    BY <2>3, <2>4, <2>5
  <2>6. CASE r # {}
    <3>1. rest(r) \in SUBSET r /\ rest(r) \in SUBSET T /\ rest(r) # T
      BY <1>5, <2>1, <2>6
    <3>2. Windows(table(rest(r)), rest(r))
      BY <1>2, <3>1
    <3>3. r \in SUBSET O /\ rest(r) \in SUBSET O
      BY <1>0, <1>1, <2>1, <3>1
    <3> HIDE DEF r, rest, t
    <3>4. table(r)[rest(r)] = table(rest(r))[rest(r)]
      BY <2>2, <3>1, <3>2, <3>3, WindowsAgree
    <3> QED
      BY <2>3, <2>4, <2>6, <3>4 DEF r
  <2> QED
    BY <2>5, <2>6
<1>4. Windows(t, T)
  <2>1. \A s \in SUBSET T :
           t[s] = IF s = {} THEN <<>> ELSE Append(t[rest(s)], Latest(s))
    BY <1>3
  <2> QED
    BY <2>1 DEF Windows
<1> QED
  BY <1>1, <1>4 DEF F

(* The window of numbered observations is made of all of them, the latest last. *)
LEMMA WindowContents ==
  ASSUME NEW O, IsFiniteSet(O), Numbered(O)
  PROVE  /\ Window(O) \in Seq(O) /\ ToSet(Window(O)) = O
         /\ O # {} => Window(O) # <<>> /\ Last(Window(O)) = Latest(O)
<1> DEFINE t == CHOOSE g : Windows(g, O)
           F == {s \in SUBSET O : ~(t[s] \in Seq(O) /\ ToSet(t[s]) = s)}
<1>1. Windows(t, O)
  BY WindowsExist
<1>2. {Earliest({b \in O : b.id = a.id}) : a \in O} = O
  <2>1. ASSUME NEW a \in O PROVE Earliest({b \in O : b.id = a.id}) = a
    <3>1. {b \in O : b.id = a.id} = {a} /\ Before(a, a)
      BY DEF Numbered, Before
    <3> QED
      BY <3>1 DEF Earliest
  <2> QED
    BY <2>1
<1>3. Window(O) = t[O]
  BY <1>2 DEF Window, MapThenFoldSet, Windows
<1> HIDE DEF t
<1>4. \A s \in SUBSET O : t[s] = IF s = {} THEN <<>> ELSE Append(t[s \ {Latest(s)}], Latest(s))
  BY <1>1 DEF Windows
<1>5. ASSUME F # {} PROVE FALSE
  <2>0. F \subseteq SUBSET O
    OBVIOUS
  <2> HIDE DEF F
  <2>1. PICK s \in F : \A u \in SUBSET s : u # s => u \notin F
    BY <1>5, <2>0, SmallestSet
  <2>2. s \in SUBSET O /\ ~(t[s] \in Seq(O) /\ ToSet(t[s]) = s)
    BY <2>1 DEF F
  <2>3. s # {}
    <3>1. t[{}] = <<>> /\ <<>> \in Seq(O)
      BY <1>4
    <3> QED
      BY <2>2, <3>1, NothingListed
  <2>4. Latest(s) \in s /\ s \ {Latest(s)} \in SUBSET s /\ s \ {Latest(s)} # s
    BY <2>2, <2>3, WithoutLatest
  <2>5. t[s \ {Latest(s)}] \in Seq(O) /\ ToSet(t[s \ {Latest(s)}]) = s \ {Latest(s)}
    BY <2>1, <2>2, <2>4 DEF F
  <2>6. t[s] = Append(t[s \ {Latest(s)}], Latest(s)) /\ Latest(s) \in O
    BY <1>4, <2>2, <2>3, <2>4
  <2> DEFINE rest == t[s \ {Latest(s)}]
             x == Latest(s)
  <2>7. rest \in Seq(O) /\ x \in O /\ t[s] = Append(rest, x)
    BY <2>5, <2>6
  <2> HIDE DEF rest, x
  <2>8. t[s] \in Seq(O) /\ ToSet(t[s]) = ToSet(rest) \cup {x}
    BY <2>7, AppendTyped, AppendListed
  <2> QED
    BY <2>2, <2>4, <2>5, <2>8 DEF rest, x
<1>6. \A s \in SUBSET O : t[s] \in Seq(O) /\ ToSet(t[s]) = s
  BY <1>5
<1>7. ASSUME O # {} PROVE t[O] # <<>> /\ Last(t[O]) = Latest(O)
  <2>1. t[O] = Append(t[O \ {Latest(O)}], Latest(O)) /\ t[O \ {Latest(O)}] \in Seq(O)
        /\ Latest(O) \in O
    BY <1>4, <1>6, <1>7, WithoutLatest
  <2> QED
    BY <2>1, AppendTyped
<1> QED
  BY <1>3, <1>6, <1>7

--------------------------------------------------------------------------------
(*                      what the window says of a run                         *)

LEMMA RunsTyped ==
  ASSUME AuthorityInv
  PROVE  /\ runs \in Seq(Run) /\ Len(runs) \in Nat /\ DOMAIN runs = 1 .. Len(runs)
         /\ \A i \in DOMAIN runs : runs[i] \in Run
<1>1. runs \in Seq(Run)
  BY DEF AuthorityInv, WorkInv, WorkTyped, TrajectoryTypeOK
<1> QED
  BY <1>1, EntryTyped

LEMMA ArtifactsOfRun ==
  ASSUME NEW i \in Nat, NEW cutoff, NEW k \in Artifacts(i, cutoff)
  PROVE  k \in {2 * i - 1, 2 * i} /\ RunOf(k) = i /\ ObservedSince(cutoff, k)
BY DEF Artifacts, RunOf

LEMMA StreamTyped ==
  ASSUME AuthorityInv, NEW S \in SUBSET DOMAIN runs, NEW cutoff
  PROVE  IsFiniteSet(Stream(S, cutoff)) /\ Numbered(Stream(S, cutoff))
<1> DEFINE ks == UNION {Artifacts(i, cutoff) : i \in S}
           f == [k \in ks |-> Observation(k, cutoff)]
           O == Stream(S, cutoff)
<1>1. DOMAIN runs = 1 .. Len(runs) /\ Len(runs) \in Nat
  BY RunsTyped
<1>2. ASSUME NEW k \in ks PROVE k \in 1 .. 2 * Len(runs)
  <2>1. PICK i \in S : k \in Artifacts(i, cutoff)
    OBVIOUS
  <2>2. i \in 1 .. Len(runs)
    BY <1>1
  <2>3. k \in {2 * i - 1, 2 * i}
    BY <2>1 DEF Artifacts
  <2> QED
    BY <1>1, <2>2, <2>3
<1>3. IsFiniteSet(ks)
  <2>1. ks \subseteq 1 .. 2 * Len(runs) /\ 2 * Len(runs) \in Nat
    BY <1>1, <1>2
  <2>2. 2 * Len(runs) \in Int /\ 1 \in Int
    BY <2>1
  <2>3. IsFiniteSet(1 .. 2 * Len(runs))
    BY <2>2, FS_Interval
  <2> HIDE DEF ks
  <2> QED
    BY <2>1, <2>3, FS_Subset
<1>4. \A k \in ks : Observation(k, cutoff).id = k /\ Observation(k, cutoff).seq = k
  BY DEF Observation
<1>5. O = {Observation(k, cutoff) : k \in ks}
  BY DEF Stream
<1>6. IsFiniteSet(O)
  <2> HIDE DEF ks
  <2>1. f \in Surjection(ks, O)
    BY <1>5 DEF Surjection
  <2> QED
    BY <1>3, <2>1, FS_Surjection
<1>7. Numbered(O)
  <2>0. 2 * Len(runs) \in Nat
    BY <1>1
  <2> HIDE DEF ks, O
  <2>1. \A k \in ks : k \in Nat
    BY <1>2, <2>0
  <2> QED
    BY <1>4, <1>5, <2>1 DEF Numbered
<1> QED
  BY <1>6, <1>7

LEMMA InputFields ==
  /\ CurrentInput.version = binding.version
  /\ CurrentInput.obs = Window(Stream(Selected(RecoveryOfBinding), RecoveryOfBinding))
  /\ CurrentInput.recovery = IF RecoveryOfBinding = 0 THEN NoRecovery
                             ELSE [id |-> RecoveryOfBinding, limit |-> CanaryLimit, valid |-> TRUE]
BY DEF CurrentInput, InputOver, FromObservations

(* What is evaluated is the recent artifacts of the agent's own runs.          *)
LEMMA SeenIsObserved ==
  ASSUME AuthorityInv, NEW o \in ToSet(CurrentInput.obs)
  PROVE  \E i \in DOMAIN runs : \E k \in Artifacts(i, RecoveryOfBinding) :
            o = Observation(k, RecoveryOfBinding)
<1> DEFINE cutoff == RecoveryOfBinding
           O == Stream(Selected(cutoff), cutoff)
<1>1. Selected(cutoff) \in SUBSET DOMAIN runs
  BY DEF Selected
<1>2. Window(O) \in Seq(O)
  BY <1>1, StreamTyped, WindowContents
<1>3. o \in O
  <2>1. PICK n \in DOMAIN Window(O) : o = Window(O)[n]
    BY InputFields DEF ToSet
  <2> HIDE DEF O
  <2> QED
    BY <1>2, <2>1, EntryTyped
<1> QED
  BY <1>1, <1>3 DEF Stream

--------------------------------------------------------------------------------
(*                  before a recovery, and before an answer                   *)

\* Instants of a run are in the order in which its steps are taken.
Timed ==
  \A i \in DOMAIN runs : /\ 0 <= runs[i].began /\ runs[i].began <= runs[i].ended
                         /\ runs[i].requested <= runs[i].ended /\ runs[i].ended <= Now

\* Nothing is recovered under a version that no recovery grants.
EarlyIsEmpty == binding.version \notin RecoveryVersions => recoveries = <<>>

\* A run is asked for only under a version that a recovery granted, on no
\* bootstrap grant, and has no event before its answer.
AskedIsRecovered ==
  /\ job.stage \in {"REQUESTED", "PERMITTED", "COMMITTED"} =>
        /\ binding.version \in RecoveryVersions /\ ~job.boot
        /\ Last(runs).began <= Last(runs).requested
  /\ job.stage \notin {"IDLE", "ANSWERED"} => Last(runs).event = NoCode

\* What a run says of its failure agrees with what became of its call, and only
\* a run that was asked for has an external failure.
FailsAsCalled(r) ==
  /\ r.event \in ExternalCodes => /\ r.call \in {"RECONCILED_NO_PAYMENT", "PAYMENT_UNCERTAIN"}
                                  /\ r.began <= r.requested
  /\ r.code = "STRICT_PROVENANCE_FAILED" => r.call = "SUCCEEDED" /\ r.decision = "NONE"
FailuresAreSent == \A i \in DOMAIN runs : FailsAsCalled(runs[i])

TrajectoryInv == Timed /\ EarlyIsEmpty /\ AskedIsRecovered /\ FailuresAreSent

(* The run that is being prepared is the latest thing that is evaluated.       *)
LEMMA LatestIsSeen ==
  ASSUME AuthorityInv, TrajectoryInv, job.stage \notin {"IDLE", "ANSWERED"},
         Last(runs).call = "NONE", RecoveryOfBinding = 0
  PROVE  /\ CurrentInput.obs # <<>>
         /\ Last(CurrentInput.obs).missing = Missing(Last(runs))
         /\ Last(CurrentInput.obs).code = NoCode
<1> DEFINE n == Len(runs)
           O == Stream(Selected(0), 0)
<1>1. /\ n \in Nat /\ n \in DOMAIN runs /\ DOMAIN runs = 1 .. n /\ Last(runs) = runs[n]
      /\ runs[n].event = NoCode /\ runs[n].code = NoCode /\ runs[n].call = "NONE"
      /\ 0 <= runs[n].began
  <2>1. runs # <<>> /\ Last(runs).code = NoCode /\ Last(runs).event = NoCode
    BY DEF AuthorityInv, WorkInv, WorkTyped, DenialsWithheld, TrajectoryInv, AskedIsRecovered
  <2>2. runs \in Seq(Run)
    BY RunsTyped
  <2> QED
    BY <2>1, <2>2, LastTyped DEF TrajectoryInv, Timed
<1>2. ASSUME NEW k, RunOf(k) = n PROVE ArtifactCode(k) = NoCode
  BY <1>1, <1>2 DEF ArtifactCode
<1> HIDE DEF n
<1>3. 2 * n - 1 \in Artifacts(n, 0) /\ RunOf(2 * n - 1) = n
  BY <1>1 DEF Artifacts, ObservedSince, RunOf
<1>4. n \in Selected(0)
  <2>1. Significant(n)
    BY <1>1 DEF Significant, Statuses
  <2>2. ~DeniedOnly(n, 0)
    BY <1>2, <1>3, NoCodeAssumption DEF DeniedOnly
  <2> DEFINE units == {i \in DOMAIN runs : /\ Artifacts(i, 0) # {}
                                           /\ Significant(i) /\ ~DeniedOnly(i, 0)}
  <2>3. n \in units
    BY <1>1, <1>3, <2>1, <2>2
  <2>4. {j \in units : j > n} = {}
    BY <1>1
  <2>5. Cardinality({j \in units : j > n}) < WindowSize
    BY <2>4, FS_EmptySet, TrajectoryAssumptions
  <2> QED
    BY <2>3, <2>5 DEF Selected
<1>5. Observation(2 * n - 1, 0) \in O /\ Observation(2 * n - 1, 0).id = 2 * n - 1
  BY <1>3, <1>4 DEF Stream, Observation
<1>6. Selected(0) \in SUBSET DOMAIN runs
  BY DEF Selected
<1>7. IsFiniteSet(O) /\ Numbered(O)
  BY <1>6, StreamTyped
<1>8. /\ Window(O) # <<>> /\ Last(Window(O)) = Latest(O)
      /\ Latest(O) \in O /\ 2 * n - 1 <= Latest(O).id
  <2> HIDE DEF O
  <2> QED
    BY <1>5, <1>7, WindowContents, LatestIs
<1>9. PICK i \in Selected(0) : \E k \in Artifacts(i, 0) : Latest(O) = Observation(k, 0)
  BY <1>8 DEF Stream
<1>10. PICK k \in Artifacts(i, 0) : Latest(O) = Observation(k, 0)
  BY <1>9
<1>11. RunOf(k) = n
  <2>1. i \in 1 .. n /\ k \in {2 * i - 1, 2 * i} /\ RunOf(k) = i
    BY <1>1, <1>6, ArtifactsOfRun
  <2>2. Observation(k, 0).id = k
    BY DEF Observation
  <2> QED
    BY <1>1, <1>8, <1>10, <2>1, <2>2
<1>12. Latest(O).missing = Missing(runs[n]) /\ Latest(O).code = NoCode
  BY <1>2, <1>10, <1>11 DEF Observation
<1> QED
  BY <1>1, <1>8, <1>12, InputFields

--------------------------------------------------------------------------------
(*                             rules and verdicts                             *)

(* No rule's output takes precedence over the verdict.                         *)
LEMMA VerdictIsHighest ==
  ASSUME NEW in, NEW rule \in Triggered(in)
  PROVE  /\ rule \in Evaluate(in).rules /\ Evaluate(in).result \in Results
         /\ RuleOutput[rule] = "HALT" => Evaluate(in).result = "HALT"
         /\ RuleOutput[rule] = "REVIEW" => Evaluate(in).result \in {"REVIEW", "HALT"}
         /\ RuleOutput[rule] = "THROTTLE" => Evaluate(in).result \in {"THROTTLE", "REVIEW", "HALT"}
<1> DEFINE rules == Triggered(in)
           outputs == {RuleOutput[r] : r \in rules} \cup {"CONTINUE"}
<1>1. rules \subseteq DOMAIN RuleOutput
  BY DEF Triggered
<1>2. outputs \subseteq Results /\ "CONTINUE" \in outputs /\ RuleOutput[rule] \in outputs
  BY <1>1 DEF RuleOutput, Results
<1>3. Evaluate(in).result = Outcome(rules) /\ Evaluate(in).rules = rules
  BY DEF Evaluate
<1>4. \E o \in outputs : \A p \in outputs : Precedence[p] <= Precedence[o]
  <2> HIDE DEF outputs
  <2>1. CASE "HALT" \in outputs
    BY <1>2, <2>1 DEF Precedence, Results
  <2>2. CASE "HALT" \notin outputs /\ "REVIEW" \in outputs
    BY <1>2, <2>2 DEF Precedence, Results
  <2>3. CASE "HALT" \notin outputs /\ "REVIEW" \notin outputs /\ "THROTTLE" \in outputs
    BY <1>2, <2>3 DEF Precedence, Results
  <2>4. CASE "HALT" \notin outputs /\ "REVIEW" \notin outputs /\ "THROTTLE" \notin outputs
    BY <1>2, <2>4 DEF Precedence, Results
  <2> QED
    BY <2>1, <2>2, <2>3, <2>4
<1>5. /\ Outcome(rules) \in outputs
      /\ Precedence[RuleOutput[rule]] <= Precedence[Outcome(rules)]
  BY <1>2, <1>4 DEF Outcome
<1> HIDE DEF rules, outputs
<1>6. Outcome(rules) \in Results
  BY <1>2, <1>5
<1> QED
  BY <1>3, <1>5, <1>6 DEF Precedence, Results, rules

(* Without a recovery, a run that is being prepared is held back by the call   *)
(* it has not made yet.                                                        *)
LEMMA UnrecoveredIsHeld ==
  ASSUME AuthorityInv, TrajectoryInv, job.stage \notin {"IDLE", "ANSWERED"},
         Last(runs).call = "NONE", binding.version \notin RecoveryVersions
  PROVE  CurrentG13.result \in {"REVIEW", "HALT"}
<1>1. CASE binding = NoBinding
  BY <1>1 DEF CurrentG13, WithBinding, BindingMissing
<1>2. CASE binding # NoBinding
  <2> DEFINE in == CurrentInput
             missing == "G13_CURRENT_CRITICAL_OBSERVATION_MISSING"
  <2>1. RecoveryOfBinding = 0
    BY DEF AuthorityInv, UnboundIsPlain, RecoveryOfBinding
  <2>2. /\ in.obs # <<>> /\ Last(in.obs).missing = Missing(Last(runs))
        /\ Last(in.obs).code = NoCode
    BY <2>1, LatestIsSeen
  <2>3. in.recovery = NoRecovery /\ in.version = binding.version
        /\ in.expected = ExpectedMissing
    BY <2>1, InputFields DEF CurrentInput, InputOver, FromObservations
  <2>4. "TELEGRAPH_CALL_NOT_PRESENT" \in Missing(Last(runs)) \ ExpectedMissing
    BY DEF Missing, ExpectedMissing
  <2> HIDE DEF in
  <2>5. Unexpected(in)
    BY <2>2, <2>3, <2>4 DEF Unexpected, CurrentMissing
  <2>6. ~Degraded(in) /\ ~LatestCodeIn(in, NonBlockingCodes)
    BY <2>2, <2>3, NoCodeAssumption DEF Degraded, LatestCodeIn, ExternalCodes
  <2>7. Fires(in)[missing] /\ missing \in DOMAIN RuleOutput /\ RuleOutput[missing] = "REVIEW"
    BY <2>5, <2>6 DEF Fires, RuleOutput
  <2>8. missing \in Triggered(in)
    BY <2>7 DEF Triggered
  <2>9. Evaluate(in).result \in {"REVIEW", "HALT"}
    BY <2>7, <2>8, VerdictIsHighest
  <2> QED
    BY <1>2, <2>9 DEF CurrentG13, WithBinding, in
<1> QED
  BY <1>1, <1>2

LEMMA AskedNeedsRecovery ==
  ASSUME AuthorityInv, TrajectoryInv, job.stage \notin {"IDLE", "ANSWERED"},
         Last(runs).call = "NONE", Preparation(CurrentG13) = NoCode
  PROVE  binding.version \in RecoveryVersions /\ ~Boots(CurrentG13)
<1>1. runs # <<>>
  BY DEF AuthorityInv, WorkInv, WorkTyped
<1>2. ~Boots(CurrentG13)
  BY <1>1 DEF Boots, BootstrapEligible
<1>3. ASSUME binding.version \notin RecoveryVersions PROVE FALSE
  <2>1. CurrentG13.result \in {"REVIEW", "HALT"}
    BY <1>3, UnrecoveredIsHeld
  <2>2. recoveries = <<>>
    BY <1>3 DEF TrajectoryInv, EarlyIsEmpty
  <2>3. ~ProbeV4(CurrentG13)
    BY <1>3, CurrentTyped DEF ProbeV4, RecoveryVersions
  <2>4. ~Exempt(CurrentG13)
    BY <1>2, <2>2, <2>3 DEF Exempt, Observes, ObservationAvailable
  <2>5. Preparation(CurrentG13) \in {"AUTHORITY_PROFILE_MISSING", "G13_HALT", "G13_REVIEW"}
    BY <2>1, <2>4 DEF Preparation
  <2> QED
    BY <2>5, CodesAssumption DEF FailureCodes, DenialCodes
<1> QED
  BY <1>2, <1>3

--------------------------------------------------------------------------------
(*                  before a recovery, and before an answer: one step         *)

LEMMA RecoveredStays ==
  ASSUME AuthorityInv, EarlyIsEmpty, [Next]_vars
  PROVE  /\ Now \in Nat /\ Now' \in Nat /\ Now <= Now' /\ EarlyIsEmpty'
         /\ binding.version \in RecoveryVersions => binding'.version \in RecoveryVersions
<1>0. recoveries \in Seq(Recovery) /\ Now \in Nat
  BY DEF AuthorityInv, RecoveriesOK, RecoveryTypeOK, Now
<1>1. CASE UNCHANGED <<recoveries, binding>>
  BY <1>0, <1>1 DEF EarlyIsEmpty, Now
<1>2. ASSUME NEW v \in RecoveryVersions, NEW u, Record(v, u)
      PROVE  Now' \in Nat /\ Now <= Now'
  <2>1. recoveries' = Append(recoveries, [version |-> v, under |-> u])
    BY <1>2 DEF Record
  <2>2. Len(recoveries') = Len(recoveries) + 1
    BY <1>0, <2>1
  <2> QED
    BY <1>0, <2>2 DEF Now
<1>3. ASSUME NEW c \in {[from |-> 2, to |-> 3], [from |-> 3, to |-> 4], [from |-> 4, to |-> 5]},
             Follow(c)
      PROVE  Now' \in Nat /\ Now <= Now' /\ binding'.version \in RecoveryVersions
  <2>1. binding'.version = c.to
    BY <1>3 DEF Follow, Activate, Transition
  <2>2. c.to \in RecoveryVersions
    BY DEF RecoveryVersions
  <2>3. Record(c.to, 0)
    BY <1>3 DEF Follow
  <2> QED
    BY <1>2, <2>1, <2>2, <2>3
<1>4. ASSUME RecordCurrentReviewRecovery(Unpaid)
      PROVE  Now' \in Nat /\ Now <= Now' /\ binding'.version \in RecoveryVersions
  <2>1. binding.version = 4 /\ UNCHANGED binding /\ Record(4, binding.recovery)
    BY <1>4 DEF RecordCurrentReviewRecovery
  <2>2. 4 \in RecoveryVersions
    BY DEF RecoveryVersions
  <2> QED
    BY <1>2, <2>1, <2>2
<1>5. CASE Recover
  BY <1>0, <1>3, <1>4, <1>5, RecoverFollows DEF EarlyIsEmpty
<1> QED
  BY <1>1, <1>5, OnlyRecoverMovesBinding DEF vars, recoveryVars

(* Nothing the environment does touches the runs.                              *)
LEMMA TrajectoryRests ==
  ASSUME AuthorityInv, TrajectoryInv, [Next]_vars, UNCHANGED <<runs, job>>
  PROVE  TrajectoryInv'
<1>1. /\ Now \in Nat /\ Now' \in Nat /\ Now <= Now' /\ EarlyIsEmpty'
      /\ binding.version \in RecoveryVersions => binding'.version \in RecoveryVersions
  BY RecoveredStays DEF TrajectoryInv
<1>2. \A i \in DOMAIN runs : runs[i].ended \in Int
  BY RunsTyped, RecoveryAssumptions DEF Run, Instants, Never
<1>3. Timed'
  BY <1>1, <1>2 DEF TrajectoryInv, Timed
<1>4. AskedIsRecovered' /\ FailuresAreSent'
  BY <1>1 DEF TrajectoryInv, AskedIsRecovered, FailuresAreSent, FailsAsCalled
<1> QED
  BY <1>1, <1>3, <1>4 DEF TrajectoryInv

LEMMA ActiveAgrees ==
  ASSUME AuthorityInv, TrajectoryInv, job.stage # "IDLE"
  PROVE  /\ Last(runs) \in Run /\ FailsAsCalled(Last(runs))
         /\ Last(runs).code = NoCode /\ NoCode # "STRICT_PROVENANCE_FAILED"
<1>1. runs \in Seq(Run) /\ runs # <<>>
  BY DEF AuthorityInv, WorkInv, WorkTyped, TrajectoryTypeOK
<1>2. Last(runs) = runs[Len(runs)] /\ Len(runs) \in DOMAIN runs
  BY <1>1, LastTyped
<1> QED
  BY <1>2, ActiveTyped, CodesAssumption
     DEF AuthorityInv, TrajectoryInv, FailuresAreSent, FailureCodes

LEMMA TrajectoryMoves ==
  ASSUME AuthorityInv, TrajectoryInv, UNCHANGED <<recoveries, binding>>, job.stage # "IDLE",
         NEW r \in Run, Update(r), r.began = Last(runs).began,
         r.requested \in {Last(runs).requested, Now},
         job'.stage \in {"REQUESTED", "PERMITTED", "COMMITTED"} =>
            binding.version \in RecoveryVersions /\ ~job'.boot /\ r.began <= r.requested,
         job'.stage \notin {"IDLE", "ANSWERED"} => r.event = NoCode,
         FailsAsCalled(r)
  PROVE  TrajectoryInv'
<1>1. runs \in Seq(Run) /\ runs # <<>>
  BY DEF AuthorityInv, WorkInv, WorkTyped, TrajectoryTypeOK
<1>2. /\ Last(runs) = runs[Len(runs)] /\ Last(runs) \in Run /\ Len(runs) \in DOMAIN runs
  BY <1>1, LastTyped
<1>3. Now \in 0 .. MaxRecoveries /\ MaxRecoveries \in Nat
  BY NowTyped DEF AuthorityInv
<1> DEFINE new == [r EXCEPT !.ended = Now]
<1>4. /\ DOMAIN runs' = DOMAIN runs /\ runs'[Len(runs)] = new /\ Last(runs)' = new
      /\ \A i \in DOMAIN runs : i # Len(runs) => runs'[i] = runs[i]
  BY <1>1, <1>3, UpdateTyped
<1>5. /\ new.began = r.began /\ new.requested = r.requested /\ new.event = r.event
      /\ new.call = r.call /\ new.code = r.code /\ new.decision = r.decision
      /\ new.ended = Now
  BY DEF Run
<1> HIDE DEF new
<1>6. Now' = Now
  BY DEF Now
<1>7. /\ Last(runs).began \in Int /\ Last(runs).requested \in Int /\ Last(runs).ended \in Int
      /\ Last(runs).began <= Last(runs).ended /\ Last(runs).requested <= Last(runs).ended
      /\ 0 <= Last(runs).began /\ Last(runs).ended <= Now
  BY <1>2, <1>3 DEF TrajectoryInv, Timed, Run, Instants, Never
<1>8. /\ 0 <= new.began /\ new.began <= new.ended /\ new.requested <= new.ended
      /\ new.ended <= Now
  BY <1>3, <1>5, <1>7
<1>9. Timed'
  BY <1>4, <1>6, <1>8 DEF TrajectoryInv, Timed
<1>10. AskedIsRecovered' /\ EarlyIsEmpty'
  BY <1>4, <1>5 DEF TrajectoryInv, AskedIsRecovered, EarlyIsEmpty
<1>11. FailuresAreSent'
  <2>1. FailsAsCalled(new)
    BY <1>5 DEF FailsAsCalled
  <2> QED
    BY <1>4, <2>1 DEF TrajectoryInv, FailuresAreSent, FailsAsCalled
<1> QED
  BY <1>9, <1>10, <1>11 DEF TrajectoryInv

LEMMA TrajectoryEnds ==
  ASSUME AuthorityInv, TrajectoryInv, UNCHANGED <<recoveries, binding>>, job.stage # "IDLE",
         NEW r \in Run, Update(r), r.began = Last(runs).began, r.requested = Last(runs).requested,
         job' = Idle \/ job' = [Idle EXCEPT !.stage = "ANSWERED"], FailsAsCalled(r)
  PROVE  TrajectoryInv'
<1>1. job'.stage \in {"IDLE", "ANSWERED"}
  BY DEF Idle
<1> QED
  BY <1>1, TrajectoryMoves

LEMMA TrajectoryCloses ==
  ASSUME AuthorityInv, TrajectoryInv, UNCHANGED <<recoveries, binding>>, job.stage # "IDLE",
         NEW s \in {"COMPLETED", "FAILED"}, NEW c \in Codes, NEW d \in {"NONE", "PERMIT", "BLOCK"},
         Close(s, c, d),
         c = "STRICT_PROVENANCE_FAILED" => Last(runs).call = "SUCCEEDED" /\ d = "NONE"
  PROVE  TrajectoryInv'
<1> DEFINE r == [Last(runs) EXCEPT !.state = s, !.code = c, !.decision = d]
<1>1. Last(runs) \in Run /\ FailsAsCalled(Last(runs))
  BY ActiveAgrees
<1>2. /\ r \in Run /\ r.began = Last(runs).began /\ r.requested = Last(runs).requested
      /\ FailsAsCalled(r)
  BY <1>1 DEF Run, FailsAsCalled
<1>3. Update(r) /\ job' = Idle
  BY DEF Close
<1> HIDE DEF r
<1> QED
  BY <1>2, <1>3, TrajectoryEnds

LEMMA TrajectoryRefuses ==
  ASSUME AuthorityInv, TrajectoryInv, UNCHANGED <<recoveries, binding>>, job.stage # "IDLE",
         NEW code \in Codes \ ExternalCodes, Refuse(code)
  PROVE  TrajectoryInv'
<1> DEFINE r == [Last(runs) EXCEPT !.event = code,
                    !.call = IF @ = "NONE" THEN "NONE" ELSE "NOT_EXECUTED"]
<1>1. Last(runs) \in Run /\ Last(runs).code # "STRICT_PROVENANCE_FAILED"
  BY ActiveAgrees
<1>2. /\ r \in Run /\ r.began = Last(runs).began /\ r.requested = Last(runs).requested
      /\ r.event = code /\ r.code = Last(runs).code
  BY <1>1 DEF Run
<1>3. Update(r) /\ job' = [Idle EXCEPT !.stage = "ANSWERED"]
  BY DEF Refuse
<1> HIDE DEF r
<1>4. FailsAsCalled(r)
  BY <1>1, <1>2 DEF FailsAsCalled
<1> QED
  BY <1>2, <1>3, <1>4, TrajectoryEnds

LEMMA ScheduleIsTimed ==
  ASSUME AuthorityInv, TrajectoryInv, ScheduleDue
  PROVE  TrajectoryInv'
<1> DEFINE state == IF Supersedes(CurrentG13) THEN "ACTIVE" ELSE identity
<1>0. UNCHANGED <<recoveries, binding>> /\ Now \in Nat /\ Now' = Now
  BY NowTyped DEF ScheduleDue, AuthorityInv, Now
<1>1. CASE UNCHANGED <<runs, job>>
  <2>1. Timed' /\ EarlyIsEmpty' /\ AskedIsRecovered' /\ FailuresAreSent'
    BY <1>0, <1>1 DEF TrajectoryInv, Timed, EarlyIsEmpty, AskedIsRecovered, FailuresAreSent,
                      FailsAsCalled
  <2> QED
    BY <2>1 DEF TrajectoryInv
<1>2. CASE Admitted(CurrentG13, state)
  <2>1. runs' = Append(runs, NewRun) /\ job' = [job EXCEPT !.stage = "SCHEDULED"]
    BY <1>2 DEF ScheduleDue
  <2>2. runs \in Seq(Run) /\ Len(runs) \in Nat /\ DOMAIN runs = 1 .. Len(runs)
    BY RunsTyped
  <2>3. NewRun \in Run
    BY <1>0, NowTyped DEF NewRun, Run, Codes, Instants, Never, AuthorityInv
  <2>4. /\ DOMAIN runs' = 1 .. (Len(runs) + 1) /\ Len(runs') = Len(runs) + 1
        /\ runs'[Len(runs) + 1] = NewRun
        /\ \A i \in DOMAIN runs : runs'[i] = runs[i]
    BY <2>1, <2>2, <2>3
  <2>5. Last(runs)' = NewRun
    BY <2>4 DEF Last
  <2>6. /\ NewRun.began = Now /\ NewRun.ended = Now /\ NewRun.requested = -1
        /\ NewRun.event = NoCode /\ FailsAsCalled(NewRun)
    BY NoCodeAssumption, CodesAssumption DEF NewRun, Never, FailsAsCalled, FailureCodes
  <2>7. Timed'
    BY <1>0, <2>2, <2>4, <2>6 DEF TrajectoryInv, Timed
  <2>8. job'.stage = "SCHEDULED"
    BY <2>1 DEF AuthorityInv, WorkInv, WorkTyped, JobTyped, JobFields
  <2>9. AskedIsRecovered' /\ EarlyIsEmpty'
    BY <1>0, <2>5, <2>6, <2>8 DEF TrajectoryInv, AskedIsRecovered, EarlyIsEmpty
  <2>10. FailuresAreSent'
    BY <2>2, <2>4, <2>6 DEF TrajectoryInv, FailuresAreSent, FailsAsCalled
  <2> QED
    BY <2>7, <2>9, <2>10 DEF TrajectoryInv
<1> QED
  BY <1>1, <1>2 DEF ScheduleDue

LEMMA ClaimIsTimed ==
  ASSUME AuthorityInv, TrajectoryInv, ExecuteClaimed
  PROVE  TrajectoryInv'
<1>0. UNCHANGED <<recoveries, binding>> /\ job.stage = "SCHEDULED"
  BY DEF ExecuteClaimed, recoveryVars
<1>1. CASE Claimable = NoCode
  <2> DEFINE r == [Last(runs) EXCEPT !.state = "RUNNING"]
  <2>1. Last(runs) \in Run /\ Last(runs).event = NoCode /\ FailsAsCalled(Last(runs))
    BY <1>0, ActiveAgrees DEF TrajectoryInv, AskedIsRecovered
  <2>2. /\ r \in Run /\ r.event = NoCode /\ FailsAsCalled(r)
        /\ r.began = Last(runs).began /\ r.requested = Last(runs).requested
    BY <2>1 DEF Run, FailsAsCalled
  <2>3. Update(r) /\ job' = [job EXCEPT !.stage = "CLAIMED"]
    BY <1>1 DEF ExecuteClaimed
  <2>4. job'.stage = "CLAIMED"
    BY <2>3 DEF AuthorityInv, WorkInv, WorkTyped, JobTyped, JobFields
  <2> HIDE DEF r
  <2> QED
    BY <1>0, <2>2, <2>3, <2>4, TrajectoryMoves
<1>2. CASE Claimable # NoCode
  <2>1. /\ Claimable \in Codes /\ Claimable # "STRICT_PROVENANCE_FAILED"
        /\ Close("FAILED", Claimable, "NONE")
    BY <1>2, CodesAssumption DEF ExecuteClaimed, Claimable, Codes, FailureCodes
  <2> QED
    BY <1>0, <2>1, TrajectoryCloses
<1> QED
  BY <1>1, <1>2

LEMMA AttemptIsTimed ==
  ASSUME AuthorityInv, TrajectoryInv, Attempt, job.stage \notin {"IDLE", "ANSWERED"}
  PROVE  TrajectoryInv'
<1>0. UNCHANGED <<recoveries, binding>>
  BY DEF Attempt, recoveryVars
<1>1. CASE Preparation(CurrentG13) # NoCode
  <2>1. Refuse(Preparation(CurrentG13))
    BY <1>1 DEF Attempt
  <2> QED
    BY <1>0, <2>1, PreparationTyped, TrajectoryRefuses
<1>2. CASE Preparation(CurrentG13) = NoCode /\ Last(runs).call # "NONE"
  <2>1. /\ Refuse("WORKER_INTERNAL_PRE_NETWORK")
        /\ "WORKER_INTERNAL_PRE_NETWORK" \in Codes \ ExternalCodes
    BY <1>2 DEF Attempt, Codes, FailureCodes, ExternalCodes, NonBlockingCodes
  <2> QED
    BY <1>0, <2>1, TrajectoryRefuses
<1>3. CASE Preparation(CurrentG13) = NoCode /\ Last(runs).call = "NONE"
  <2> DEFINE e == CurrentG13
             r == [Last(runs) EXCEPT !.call = "REQUESTED", !.requested = Now,
                                     !.flagged = ProbeV4(e)]
  <2>1. /\ Update(r)
        /\ job' = [stage |-> "REQUESTED", amount |-> Budget(e), seen |-> e,
                   ok |-> Budget(e) <= Limit(e, Cap), boot |-> Boots(e),
                   observe |-> Observes(e), profile |-> NoProfile]
    BY <1>3 DEF Attempt
  <2>2. /\ Last(runs) \in Run /\ Last(runs).event = NoCode
        /\ Last(runs).code # "STRICT_PROVENANCE_FAILED" /\ Last(runs).began <= Now
    <3>1. runs \in Seq(Run) /\ runs # <<>>
      BY DEF AuthorityInv, WorkInv, WorkTyped, TrajectoryTypeOK
    <3>2. Last(runs) = runs[Len(runs)] /\ Len(runs) \in DOMAIN runs
      BY <3>1, LastTyped
    <3>3. Last(runs) \in Run /\ Now \in Nat
      BY ActiveAgrees, NowTyped DEF AuthorityInv
    <3>4. Last(runs).began <= Now
      BY <3>2, <3>3, RecoveryAssumptions DEF TrajectoryInv, Timed, Run, Instants, Never
    <3> QED
      BY <3>4, ActiveAgrees DEF TrajectoryInv, AskedIsRecovered
  <2>3. /\ r \in Run /\ r.began = Last(runs).began /\ r.requested = Now /\ r.event = NoCode
        /\ r.code = Last(runs).code
    BY <2>2, NowTyped DEF Run, AuthorityInv, ProbeV4
  <2>5. FailsAsCalled(r)
    BY <2>2, <2>3, NoCodeAssumption DEF FailsAsCalled
  <2>4. binding.version \in RecoveryVersions /\ ~Boots(e)
    BY <1>3, AskedNeedsRecovery
  <2> HIDE DEF r, e
  <2> QED
    BY <1>0, <2>1, <2>2, <2>3, <2>4, <2>5, TrajectoryMoves
<1> QED
  BY <1>1, <1>2, <1>3

LEMMA PermitIsTimed ==
  ASSUME AuthorityInv, TrajectoryInv, [Next]_vars, IssuePermit
  PROVE  TrajectoryInv'
<1>0. UNCHANGED <<recoveries, binding>> /\ job.stage = "REQUESTED"
  BY DEF IssuePermit
<1>1. CASE Issued
  <2>1. UNCHANGED runs /\ job' = [job EXCEPT !.stage = "PERMITTED", !.profile = Resolve(now)]
    BY <1>1 DEF IssuePermit
  <2>2. job'.stage = "PERMITTED" /\ job'.boot = job.boot
    BY <2>1 DEF AuthorityInv, WorkInv, WorkTyped, JobTyped, JobFields
  <2>3. Timed' /\ EarlyIsEmpty'
    BY <1>0, <2>1 DEF TrajectoryInv, Timed, EarlyIsEmpty, Now
  <2>4. AskedIsRecovered' /\ FailuresAreSent'
    BY <1>0, <2>1, <2>2 DEF TrajectoryInv, AskedIsRecovered, FailuresAreSent, FailsAsCalled
  <2> QED
    BY <2>3, <2>4 DEF TrajectoryInv
<1>2. CASE ~Issued
  <2>1. /\ Refuse("WORKER_INTERNAL_PRE_NETWORK")
        /\ "WORKER_INTERNAL_PRE_NETWORK" \in Codes \ ExternalCodes
    BY <1>2 DEF IssuePermit, Codes, FailureCodes, ExternalCodes, NonBlockingCodes
  <2> QED
    BY <1>0, <2>1, TrajectoryRefuses
<1> QED
  BY <1>1, <1>2

LEMMA CommitIsTimed ==
  ASSUME AuthorityInv, TrajectoryInv, Commit
  PROVE  TrajectoryInv'
<1>0. UNCHANGED <<recoveries, binding>> /\ job.stage = "PERMITTED"
  BY DEF Commit
<1>1. CASE Fresh(CurrentG13)
  <2> DEFINE r == [Last(runs) EXCEPT !.spent = job.amount]
  <2>1. Update(r) /\ job' = [job EXCEPT !.stage = "COMMITTED"]
    BY <1>1 DEF Commit
  <2>2. /\ Last(runs) \in Run /\ Last(runs).event = NoCode /\ job.amount \in Nat
        /\ FailsAsCalled(Last(runs)) /\ Last(runs).began <= Last(runs).requested
    BY <1>0, ActiveAgrees, CommitmentAssumptions
       DEF AuthorityInv, TrajectoryInv, AskedIsRecovered, WorkInv, WorkTyped, JobTyped
  <2>3. /\ r \in Run /\ r.event = NoCode /\ FailsAsCalled(r)
        /\ r.began = Last(runs).began /\ r.requested = Last(runs).requested
    BY <2>2 DEF Run, FailsAsCalled
  <2>4. job'.stage = "COMMITTED" /\ job'.boot = job.boot
    BY <2>1 DEF AuthorityInv, WorkInv, WorkTyped, JobTyped, JobFields
  <2>5. binding.version \in RecoveryVersions /\ ~job.boot
    BY <1>0 DEF TrajectoryInv, AskedIsRecovered
  <2> HIDE DEF r
  <2> QED
    BY <1>0, <2>1, <2>2, <2>3, <2>4, <2>5, TrajectoryMoves
<1>2. CASE ~Fresh(CurrentG13)
  <2>1. /\ Refuse("WORKER_INTERNAL_PRE_NETWORK")
        /\ "WORKER_INTERNAL_PRE_NETWORK" \in Codes \ ExternalCodes
    BY <1>2 DEF Commit, Codes, FailureCodes, ExternalCodes, NonBlockingCodes
  <2> QED
    BY <1>0, <2>1, TrajectoryRefuses
<1> QED
  BY <1>1, <1>2

LEMMA AnswerIsTimed ==
  ASSUME AuthorityInv, TrajectoryInv, Answer
  PROVE  TrajectoryInv'
<1>0. /\ UNCHANGED <<recoveries, binding>> /\ job.stage = "COMMITTED"
      /\ job' = [Idle EXCEPT !.stage = "ANSWERED"]
  BY DEF Answer, recoveryVars
<1>1. PICK o \in Outcomes : Update([Last(runs) EXCEPT !.call = o[1], !.event = o[2]])
  BY DEF Answer
<1> DEFINE r == [Last(runs) EXCEPT !.call = o[1], !.event = o[2]]
<1>2. /\ o[1] \in {"SUCCEEDED", "RECONCILED_NO_PAYMENT", "PAYMENT_UNCERTAIN"}
      /\ o[2] \in Codes
      /\ o[2] \in ExternalCodes => o[1] \in {"RECONCILED_NO_PAYMENT", "PAYMENT_UNCERTAIN"}
  BY NoCodeAssumption DEF Outcomes, Codes, FailureCodes, ExternalCodes, NonBlockingCodes
<1>3. /\ Last(runs) \in Run /\ Last(runs).code # "STRICT_PROVENANCE_FAILED"
      /\ Last(runs).began <= Last(runs).requested
  BY <1>0, ActiveAgrees DEF TrajectoryInv, AskedIsRecovered
<1>4. /\ r \in Run /\ r.began = Last(runs).began /\ r.requested = Last(runs).requested
      /\ r.call = o[1] /\ r.event = o[2] /\ r.code = Last(runs).code
  BY <1>2, <1>3 DEF Run
<1>5. Update(r)
  BY <1>1
<1> HIDE DEF r
<1>6. FailsAsCalled(r)
  BY <1>2, <1>3, <1>4 DEF FailsAsCalled
<1> QED
  BY <1>0, <1>4, <1>5, <1>6, TrajectoryEnds

LEMMA ConcludeIsTimed ==
  ASSUME AuthorityInv, TrajectoryInv, Conclude
  PROVE  TrajectoryInv'
<1>0. UNCHANGED <<recoveries, binding>> /\ job.stage = "ANSWERED"
  BY DEF Conclude, recoveryVars
<1>1. /\ Last(runs).event \in Codes /\ NoCode \in Codes
      /\ "STRICT_PROVENANCE_FAILED" \in Codes /\ NoCode # "STRICT_PROVENANCE_FAILED"
  BY <1>0, ActiveAgrees DEF Run, Codes, FailureCodes
<1>2. \E s \in {"COMPLETED", "FAILED"}, c \in Codes, d \in {"NONE", "PERMIT", "BLOCK"} :
         /\ Close(s, c, d)
         /\ c = "STRICT_PROVENANCE_FAILED" => Last(runs).call = "SUCCEEDED" /\ d = "NONE"
  <2>1. CASE Last(runs).event \in {"G13_REVIEW", "G13_HALT"}
    BY <1>1, <2>1 DEF Conclude
  <2>2. CASE Last(runs).event \notin {"G13_REVIEW", "G13_HALT"} /\ Last(runs).call = "SUCCEEDED"
    BY <1>1, <2>2 DEF Conclude
  <2>3. CASE Last(runs).event \notin {"G13_REVIEW", "G13_HALT"} /\ Last(runs).call # "SUCCEEDED"
    BY <1>1, <2>3 DEF Conclude
  <2> QED
    BY <2>1, <2>2, <2>3
<1> QED
  BY <1>0, <1>2, TrajectoryCloses

LEMMA AbandonIsTimed ==
  ASSUME AuthorityInv, TrajectoryInv, Abandon
  PROVE  TrajectoryInv'
<1>1. /\ UNCHANGED <<recoveries, binding>> /\ job.stage # "IDLE"
      /\ Close("FAILED", "AUTONOMY_ORPHANED_MANDATE", "NONE")
      /\ "AUTONOMY_ORPHANED_MANDATE" \in Codes
  BY DEF Abandon, recoveryVars, Codes, FailureCodes, BookkeepingCodes
<1> QED
  BY <1>1, TrajectoryCloses

LEMMA TrajectoryStarts == Init => TrajectoryInv
<1> SUFFICES ASSUME Init PROVE TrajectoryInv
  OBVIOUS
<1>1. PICK v \in FirstBindings :
         /\ binding = [version |-> v, recovery |-> IF v \in RecoveryVersions THEN 1 ELSE 0]
         /\ recoveries = IF v \in RecoveryVersions
                         THEN <<[version |-> v, under |-> 0]>> ELSE <<>>
  BY DEF Init, RecoveryInit
<1>2. EarlyIsEmpty
  BY <1>1 DEF EarlyIsEmpty
<1>3. DOMAIN runs = {} /\ job.stage = "IDLE"
  BY DEF Init, Idle
<1> QED
  BY <1>2, <1>3 DEF TrajectoryInv, Timed, AskedIsRecovered, FailuresAreSent

LEMMA TrajectoryKept == AuthorityInv /\ TrajectoryInv /\ [Next]_vars => TrajectoryInv'
<1> SUFFICES ASSUME AuthorityInv, TrajectoryInv, [Next]_vars PROVE TrajectoryInv'
  OBVIOUS
<1>1. CASE ScheduleDue \/ ExecuteClaimed
  BY <1>1, ScheduleIsTimed, ClaimIsTimed
<1>2. CASE Work
  <2>1. CASE Prepare \/ Retry
    <3>1. Attempt /\ job.stage \notin {"IDLE", "ANSWERED"}
      BY <2>1 DEF Prepare, Retry
    <3> QED
      BY <3>1, AttemptIsTimed
  <2> QED
    BY <1>2, <2>1, PermitIsTimed, CommitIsTimed, AnswerIsTimed, ConcludeIsTimed, AbandonIsTimed
       DEF Work
<1>3. CASE Administer \/ Recover \/ ManageGrants
  <2>1. UNCHANGED <<runs, job>>
    BY <1>3 DEF Administer, Recover, ManageGrants, workVars
  <2> QED
    BY <2>1, TrajectoryRests
<1>4. CASE OtherAgentProbes \/ SwitchPolicy \/ SwitchFlag
  <2>1. UNCHANGED <<runs, job>>
    BY <1>4 DEF OtherAgentProbes, SwitchPolicy, SwitchFlag, workVars
  <2> QED
    BY <2>1, TrajectoryRests
<1>5. CASE UNCHANGED vars
  BY <1>5, TrajectoryRests DEF vars, workVars
<1> QED
  BY <1>1, <1>2, <1>3, <1>4, <1>5 DEF Next

LEMMA TrajectoryAlways == Spec => [](AuthorityInv /\ TrajectoryInv)
<1>1. Init => AuthorityInv /\ TrajectoryInv
  BY AuthorityStarts, TrajectoryStarts
<1>2. (AuthorityInv /\ TrajectoryInv) /\ [Next]_vars => (AuthorityInv /\ TrajectoryInv)'
  BY AuthorityKept, TrajectoryKept
<1> QED
  BY <1>1, <1>2, PTL DEF Spec

(* A cold start never dispatches: whatever the operator grants, a request is   *)
(* committed only under a version that a recorded recovery moved the agent to, *)
(* and never on a bootstrap grant.                                             *)
THEOREM NoDispatchWithoutRecoveryHolds == Spec => NoDispatchWithoutRecovery
<1>1. ASSUME AuthorityInv, TrajectoryInv, Dispatches
      PROVE  binding.version \in RecoveryVersions /\ ~job.boot
  BY <1>1 DEF TrajectoryInv, AskedIsRecovered, Dispatches
<1> QED
  BY <1>1, TrajectoryAlways, PTL DEF Spec, NoDispatchWithoutRecovery

--------------------------------------------------------------------------------
(*                      the canary of a replaced endpoint                     *)

(* Every artifact of a run is no later than the run's latest event.            *)
LEMMA NothingRan ==
  ASSUME AuthorityInv, TrajectoryInv, ExecutedSince = {}
  PROVE  Executed(ToSet(CurrentInput.obs)) = {}
<1> DEFINE cutoff == RecoveryOfBinding
<1>1. SUFFICES ASSUME NEW o \in ToSet(CurrentInput.obs), Ran(o) PROVE FALSE
  BY DEF Executed, Units
<1>2. PICK i \in DOMAIN runs : \E k \in Artifacts(i, cutoff) : o = Observation(k, cutoff)
  BY SeenIsObserved
<1>3. PICK k \in Artifacts(i, cutoff) : o = Observation(k, cutoff)
  BY <1>2
<1>4. i \in Nat /\ runs[i] \in Run
  BY RunsTyped
<1>5. RunOf(k) = i /\ ObservedSince(cutoff, k)
  BY <1>4, ArtifactsOfRun
<1>6. o.statuses = Statuses(runs[i])
  BY <1>3, <1>5 DEF Observation
<1>7. runs[i].call \in {"RECEIVED", "SUCCEEDED", "PAYMENT_UNCERTAIN"}
  BY <1>1, <1>4, <1>6 DEF Ran, Statuses, NonExecution, Run
<1>8. cutoff \in Int
  BY RecoveryOfBindingTyped DEF AuthorityInv
<1>9. /\ runs[i].began \in Int /\ runs[i].requested \in Int /\ runs[i].ended \in Int
      /\ runs[i].began <= runs[i].ended /\ runs[i].requested <= runs[i].ended
  BY <1>4, RecoveryAssumptions DEF TrajectoryInv, Timed, Run, Instants, Never
<1> HIDE DEF cutoff
<1>10. runs[i].ended >= cutoff
  BY <1>5, <1>8, <1>9 DEF ObservedSince
<1> QED
  BY <1>7, <1>10 DEF ExecutedSince, cutoff

(* A dispatch under v0.3 before anything ran is a canary.                      *)
LEMMA CanaryIsBounded ==
  ASSUME AuthorityInv, TrajectoryInv, Fresh(CurrentG13), job.stage = "PERMITTED",
         binding.version = 3, ExecutedSince = {}
  PROVE  job.amount <= CanaryBudget
<1> DEFINE e == CurrentG13
           in == CurrentInput
           cap == profiles[job.profile].cap
           canary == "G13_OPERATOR_RECOVERY_CANARY"
           broken == "G13_IDENTITY_OR_TRAJECTORY_INTEGRITY"
<1>1. /\ e.result = Evaluate(in).result /\ e.rules = Evaluate(in).rules
      /\ e.canary = CanaryAuthorized(in) /\ e.version = 3 /\ in.version = 3
  <2>1. binding # NoBinding
    BY DEF NoBinding
  <2> QED
    BY <2>1, InputFields DEF CurrentG13, WithBinding, Evaluate
<1>2. ~job.boot /\ ~ProbeOf(e)
  BY <1>1 DEF TrajectoryInv, AskedIsRecovered, ProbeOf, EpisodeVersions
<1> DEFINE ok == job.amount <= Limit(e, cap)
           exempt == ProbeOf(e) \/ (Starved(e) /\ ObservationAvailable)
<1>3. Gate(TRUE, TRUE, e.result, ok, exempt, job.boot) = "NEXT_ACTION_AUTHORIZED"
  BY DEF Fresh, Passes, Composed
<1>4. e.result # "HALT" /\ (e.result = "REVIEW" => Starved(e)) /\ (e.result = "THROTTLE" => ok)
  <2>1. exempt => Starved(e)
    BY <1>2
  <2> HIDE DEF e, in, ok, exempt
  <2>2. e.result # "HALT"
    BY <1>3 DEF Gate
  <2>3. e.result = "REVIEW" => exempt
    BY <1>2, <1>3 DEF Gate
  <2>4. e.result = "THROTTLE" => ok
    BY <1>3 DEF Gate
  <2> QED
    BY <2>1, <2>2, <2>3, <2>4
<1>5. ValidRecovery(in)
  <2>1. ASSUME ~ValidRecovery(in) PROVE FALSE
    <3> HIDE DEF in, e
    <3>0. in.version \in RecoveryVersions /\ ~ValidRecovery(in)
      BY <1>1, <2>1 DEF RecoveryVersions
    <3>1. Fires(in)[broken] /\ broken \in DOMAIN RuleOutput /\ RuleOutput[broken] = "HALT"
      BY <3>0 DEF Fires, RuleOutput
    <3>2. broken \in Triggered(in)
      BY <3>1 DEF Triggered
    <3> QED
      BY <1>1, <1>4, <3>1, <3>2, VerdictIsHighest
  <2> QED
    BY <2>1
<1>6. CanaryAuthorized(in)
  BY <1>1, <1>5, NothingRan, FS_EmptySet DEF CanaryAuthorized, ExecutedCount, EpisodeVersions
<1>7. e.result \in {"THROTTLE", "REVIEW", "HALT"} /\ canary \in e.rules
  <2>1. Fires(in)[canary] /\ canary \in DOMAIN RuleOutput /\ RuleOutput[canary] = "THROTTLE"
    BY <1>6 DEF Fires, RuleOutput
  <2> HIDE DEF in, e
  <2>2. canary \in Triggered(in)
    BY <2>1 DEF Triggered
  <2> QED
    BY <1>1, <2>1, <2>2, VerdictIsHighest
<1>8. job.amount <= Limit(e, cap)
  BY <1>4, <1>7 DEF Starved
<1>9. cap \in Nat
  <2>1. Resolve(now) = job.profile /\ job.profile # NoProfile
    BY DEF Fresh, Delegated
  <2> QED
    BY <2>1, CapTyped DEF AuthorityInv, Cap
<1>10. Limit(e, cap) <= CanaryBudget /\ Limit(e, cap) \in Nat
  <2> HIDE DEF e, in, cap
  <2> QED
    BY <1>1, <1>6, <1>9, CommitmentAssumptions DEF Limit, Lesser
<1>11. job.amount \in Nat
  BY CommitmentAssumptions DEF AuthorityInv, WorkInv, WorkTyped, JobTyped
<1> HIDE DEF e, cap
<1> QED
  BY <1>8, <1>10, <1>11, CommitmentAssumptions

(* After an endpoint was replaced nothing is dispatched beyond the canary's    *)
(* budget until one run has really executed, however many runs were refused,   *)
(* withheld or abandoned before, and whatever a cap the profile gives.         *)
THEOREM FirstIsCanaryHolds == Spec => FirstIsCanary
<1>1. ASSUME AuthorityInv, TrajectoryInv, [Next]_vars, Dispatches, binding.version = 3,
             ExecutedSince = {}
      PROVE  job.amount <= CanaryBudget
  <2>1. Next
    BY <1>1 DEF vars, workVars, Dispatches
  <2>2. Fresh(CurrentG13)
    BY <1>1, <2>1, DispatchIsFresh
  <2>3. job.stage = "PERMITTED"
    BY <1>1 DEF Dispatches
  <2> QED
    BY <1>1, <2>2, <2>3, CanaryIsBounded
<1> QED
  BY <1>1, TrajectoryAlways, PTL DEF Spec, FirstIsCanary

--------------------------------------------------------------------------------
(*                         failures that repeat                               *)

(* The window holds the failure of each of its latest runs.                    *)
LEMMA RecentIsSeen ==
  ASSUME AuthorityInv, TrajectoryInv, NEW i \in SinceRecovery,
         Significant(i), ArtifactCode(2 * i - 1) \notin DenialCodes
  PROVE  \A k \in Artifacts(i, RecoveryOfBinding) :
            Observation(k, RecoveryOfBinding) \in ToSet(CurrentInput.obs)
<1> DEFINE cutoff == RecoveryOfBinding
           n == Len(runs)
           O == Stream(Selected(cutoff), cutoff)
           units == {j \in DOMAIN runs : /\ Artifacts(j, cutoff) # {}
                                         /\ Significant(j) /\ ~DeniedOnly(j, cutoff)}
           later == {j \in units : j > i}
<1>1. /\ n \in Nat /\ DOMAIN runs = 1 .. n /\ i \in 1 .. n /\ n - i < WindowSize
      /\ runs[i].began >= cutoff
  BY RunsTyped DEF SinceRecovery
<1> HIDE DEF cutoff, n
<1>2. 2 * i - 1 \in Artifacts(i, cutoff)
  <2>1. (2 * i - 1) % 2 = 1 /\ RunOf(2 * i - 1) = i
    BY <1>1 DEF RunOf
  <2> QED
    BY <1>1, <2>1 DEF Artifacts, ObservedSince
<1>3. i \in units
  BY <1>1, <1>2 DEF DeniedOnly
<1>4. Cardinality(later) < WindowSize
  <2>1. later \subseteq (i + 1) .. n
    BY <1>1
  <2>2. /\ i + 1 \in Int /\ n \in Int
    BY <1>1
  <2>3. /\ IsFiniteSet((i + 1) .. n)
        /\ Cardinality((i + 1) .. n) = IF i + 1 > n THEN 0 ELSE n - (i + 1) + 1
    BY <2>2, FS_Interval
  <2> HIDE DEF later
  <2>4. Cardinality(later) <= Cardinality((i + 1) .. n) /\ Cardinality(later) \in Nat
    BY <2>1, <2>3, FS_Subset, FS_CardinalityType
  <2> QED
    BY <1>1, <2>3, <2>4, TrajectoryAssumptions
<1>5. i \in Selected(cutoff)
  BY <1>3, <1>4 DEF Selected
<1>6. ASSUME NEW k \in Artifacts(i, cutoff) PROVE Observation(k, cutoff) \in O
  BY <1>5 DEF Stream
<1>7. Selected(cutoff) \in SUBSET DOMAIN runs
  BY DEF Selected
<1>8. ToSet(CurrentInput.obs) = O
  BY <1>7, StreamTyped, WindowContents, InputFields DEF cutoff
<1> QED
  BY <1>6, <1>8 DEF cutoff

(* What is observed is of the agent's runs, of which there are finitely many.  *)
LEMMA SeenIsFinite ==
  ASSUME AuthorityInv
  PROVE  /\ IsFiniteSet(ToSet(CurrentInput.obs)) /\ IsFiniteSet(DOMAIN runs)
         /\ \A o \in ToSet(CurrentInput.obs) : o.run \in DOMAIN runs /\ o.episodes \subseteq DOMAIN runs
<1> DEFINE cutoff == RecoveryOfBinding
           O == Stream(Selected(cutoff), cutoff)
<1>1. Selected(cutoff) \in SUBSET DOMAIN runs
  BY DEF Selected
<1>2. IsFiniteSet(O) /\ ToSet(CurrentInput.obs) = O
  BY <1>1, StreamTyped, WindowContents, InputFields
<1>3. IsFiniteSet(DOMAIN runs)
  <2>1. 1 \in Int /\ Len(runs) \in Int /\ DOMAIN runs = 1 .. Len(runs)
    BY RunsTyped
  <2> QED
    BY <2>1, FS_Interval
<1>4. ASSUME NEW o \in ToSet(CurrentInput.obs)
      PROVE  o.run \in DOMAIN runs /\ o.episodes \subseteq DOMAIN runs
  <2>1. PICK i \in DOMAIN runs : \E k \in Artifacts(i, cutoff) : o = Observation(k, cutoff)
    BY <1>4, SeenIsObserved
  <2>2. PICK k \in Artifacts(i, cutoff) : o = Observation(k, cutoff)
    BY <2>1
  <2>3. i \in Nat
    BY RunsTyped
  <2>4. RunOf(k) = i
    BY <2>3, ArtifactsOfRun
  <2> HIDE DEF cutoff
  <2> QED
    BY <2>2, <2>4 DEF Observation
<1> QED
  BY <1>2, <1>3, <1>4

(* A dispatch that a rule asks to be reviewed, other than for what the run has *)
(* not observed yet, is the probe of a recovery that nothing has run under.    *)
LEMMA ReviewedIsProbe ==
  ASSUME AuthorityInv, TrajectoryInv, Fresh(CurrentG13), job.stage = "PERMITTED",
         NEW rule \in Triggered(CurrentInput), RuleOutput[rule] = "REVIEW",
         rule # "G13_CURRENT_CRITICAL_OBSERVATION_MISSING"
  PROVE  CanaryAuthorized(CurrentInput) /\ binding.version \in EpisodeVersions
<1> DEFINE e == CurrentG13
           in == CurrentInput
           ok == job.amount <= Limit(e, profiles[job.profile].cap)
           exempt == ProbeOf(e) \/ (Starved(e) /\ ObservationAvailable)
<1>1. binding.version \in RecoveryVersions /\ ~job.boot
  BY DEF TrajectoryInv, AskedIsRecovered
<1>2. /\ e.result = Evaluate(in).result /\ e.rules = Evaluate(in).rules
      /\ e.canary = CanaryAuthorized(in) /\ e.version = binding.version
  <2>1. binding # NoBinding
    BY <1>1 DEF NoBinding, RecoveryVersions
  <2> QED
    BY <2>1 DEF CurrentG13, WithBinding, Evaluate
<1>3. e.result \in {"REVIEW", "HALT"} /\ rule \in e.rules
  BY <1>2, VerdictIsHighest
<1>4. Gate(TRUE, TRUE, e.result, ok, exempt, job.boot) = "NEXT_ACTION_AUTHORIZED"
  BY DEF Fresh, Passes, Composed
<1>5. exempt
  <2> HIDE DEF e, in, ok, exempt
  <2> QED
    BY <1>1, <1>3, <1>4 DEF Gate
<1>6. ~Starved(e)
  <2> HIDE DEF e
  <2> QED
    BY <1>3 DEF Starved
<1>7. ProbeOf(e)
  BY <1>5, <1>6
<1> HIDE DEF e
<1> QED
  BY <1>2, <1>7 DEF ProbeOf

(* A run whose evidence failed its provenance was executed, and failed.        *)
LEMMA FailureIsCounted ==
  ASSUME AuthorityInv, TrajectoryInv, NEW i \in SinceRecovery,
         runs[i].code = "STRICT_PROVENANCE_FAILED"
  PROVE  i \in FailedUnits(ToSet(CurrentInput.obs)) /\ i \in Executed(ToSet(CurrentInput.obs))
<1> DEFINE cutoff == RecoveryOfBinding
           O == ToSet(CurrentInput.obs)
           o1 == Observation(2 * i - 1, cutoff)
<1>1. /\ i \in Nat /\ i \in DOMAIN runs /\ runs[i].call = "SUCCEEDED"
      /\ runs[i].decision = "NONE" /\ runs[i].began >= cutoff
      /\ NoCode # "STRICT_PROVENANCE_FAILED"
  BY RunsTyped, CodesAssumption
     DEF SinceRecovery, TrajectoryInv, FailuresAreSent, FailsAsCalled, FailureCodes
<1>2. RunOf(2 * i - 1) = i /\ (2 * i - 1) % 2 = 1
  BY <1>1 DEF RunOf
<1>3. \A k : RunOf(k) = i => ArtifactCode(k) = "STRICT_PROVENANCE_FAILED"
  BY <1>1 DEF ArtifactCode
<1>4. o1 \in O
  <2>1. 2 * i - 1 \in Artifacts(i, cutoff)
    BY <1>1, <1>2 DEF Artifacts, ObservedSince
  <2>2. Significant(i)
    BY <1>1 DEF Significant, Statuses
  <2>3. ArtifactCode(2 * i - 1) \notin DenialCodes
    BY <1>2, <1>3 DEF DenialCodes
  <2> QED
    BY <2>1, <2>2, <2>3, RecentIsSeen
<1>5. ASSUME NEW o \in O, o.run = i
      PROVE  /\ o.code = "STRICT_PROVENANCE_FAILED" /\ o.statuses = {"SUCCEEDED"}
             /\ o.complete = FALSE /\ o.recovered = FALSE
  <2>1. PICK j \in DOMAIN runs : \E k \in Artifacts(j, cutoff) : o = Observation(k, cutoff)
    BY SeenIsObserved
  <2>2. PICK k \in Artifacts(j, cutoff) : o = Observation(k, cutoff)
    BY <2>1
  <2>3. RunOf(k) = i
    BY <1>5, <2>2 DEF Observation
  <2> HIDE DEF cutoff
  <2>4. /\ o.code = ArtifactCode(k) /\ o.statuses = Statuses(runs[i])
        /\ o.complete = Succeeded(runs[i]) /\ o.recovered = FALSE
    BY <2>2, <2>3 DEF Observation
  <2> QED
    BY <1>1, <1>3, <2>3, <2>4 DEF Statuses, Succeeded
<1>6. o1.run = i
  <2> HIDE DEF cutoff
  <2> QED
    BY <1>2 DEF Observation
<1> HIDE DEF o1, O
<1>7. Ran(o1) /\ Fails(o1)
  BY <1>1, <1>4, <1>5, <1>6
     DEF Ran, Fails, NonExecution, ExternalCodes, NonBlockingCodes, BookkeepingCodes, DenialCodes
<1>8. ASSUME NEW o \in O, o.run = i PROVE ~Complete(o) /\ ~ExternalOutcome(o)
  BY <1>5, <1>8 DEF Complete, ExternalOutcome, NonBlockingCodes
<1>9. i \in Executed(O)
  BY <1>4, <1>6, <1>7 DEF Executed, Units
<1>10. i \in Units({o \in O : Fails(o)})
  BY <1>4, <1>6, <1>7 DEF Units
<1>11. i \notin Units({o \in O : Complete(o)}) /\ i \notin Excused(O)
  BY <1>8 DEF Units, Excused
<1> QED
  BY <1>9, <1>10, <1>11 DEF FailedUnits, Eligible, O

(* An external failure is in the window, with the request that met it.         *)
LEMMA ExternalIsSeen ==
  ASSUME AuthorityInv, TrajectoryInv, NEW i \in SinceRecovery,
         runs[i].code = NoCode, runs[i].event \in ExternalCodes
  PROVE  LET o == Observation(2 * i - 1, RecoveryOfBinding)
         IN  /\ o \in ExternalObs(ToSet(CurrentInput.obs))
             /\ o.run = i /\ o.id = 2 * i - 1 /\ o.episodes = {i}
             /\ i \in ProbeUnits(ToSet(CurrentInput.obs))
<1> DEFINE cutoff == RecoveryOfBinding
           O == ToSet(CurrentInput.obs)
           o1 == Observation(2 * i - 1, cutoff)
           o2 == Observation(2 * i, cutoff)
<1>1. /\ i \in Nat /\ i \in DOMAIN runs /\ runs[i].began >= cutoff
      /\ runs[i] \in Run /\ cutoff \in Nat
      /\ runs[i].call \in {"RECONCILED_NO_PAYMENT", "PAYMENT_UNCERTAIN"}
      /\ runs[i].began <= runs[i].requested /\ runs[i].began <= runs[i].ended
  BY RunsTyped, RecoveryOfBindingTyped
     DEF AuthorityInv, SinceRecovery, TrajectoryInv, Timed, FailuresAreSent, FailsAsCalled
<1>2. /\ runs[i].began \in Int /\ runs[i].requested \in Int /\ runs[i].ended \in Int
  BY <1>1, RecoveryAssumptions DEF Run, Instants, Never
<1> HIDE DEF cutoff
<1>3. /\ RunOf(2 * i - 1) = i /\ (2 * i - 1) % 2 = 1
      /\ RunOf(2 * i) = i /\ (2 * i) % 2 = 0
  BY <1>1 DEF RunOf
<1>4. 2 * i - 1 \in Artifacts(i, cutoff) /\ 2 * i \in Artifacts(i, cutoff)
  BY <1>1, <1>2, <1>3 DEF Artifacts, ObservedSince
<1>5. ArtifactCode(2 * i - 1) = runs[i].event
  BY <1>3 DEF ArtifactCode
<1>6. Significant(i)
  BY <1>1 DEF Significant, Statuses
<1>7. o1 \in O /\ o2 \in O
  <2>1. ArtifactCode(2 * i - 1) \notin DenialCodes
    BY <1>5 DEF DenialCodes, ExternalCodes, NonBlockingCodes
  <2> QED
    BY <1>4, <1>6, <2>1, RecentIsSeen DEF cutoff
<1>8. /\ o1.code \in ExternalCodes /\ o1.run = i /\ o1.id = 2 * i - 1 /\ o1.episodes = {i}
  BY <1>3, <1>5 DEF Observation
<1>9. o2.run = i /\ o2.probe
  <2>1. runs[i].requested >= cutoff /\ runs[i].requested # Never
    BY <1>1, <1>2 DEF Never
  <2>2. (2 * i) % 2 # 1
    BY <1>3
  <2> QED
    BY <1>3, <2>1, <2>2, Zenon DEF Observation
<1> HIDE DEF o1, o2, O
<1>10. o1 \in ExternalObs(O) /\ i \in ProbeUnits(O)
  BY <1>7, <1>8, <1>9 DEF ExternalObs, ProbeUnits
<1> QED
  BY <1>8, <1>10 DEF O, o1, cutoff

FailuresSince  == {i \in SinceRecovery : runs[i].code = "STRICT_PROVENANCE_FAILED"}
ExternalsSince == {i \in SinceRecovery : runs[i].code = NoCode /\ runs[i].event \in ExternalCodes}

(* The recurrence rule counts at least the runs that failed externally.        *)
LEMMA ExternalsAreCounted ==
  ASSUME AuthorityInv, TrajectoryInv, binding.version \in RecoveryVersions
  PROVE  /\ IsFiniteSet(ExternalsSince) /\ ExternalCount(CurrentInput) \in Nat
         /\ Cardinality(ExternalsSince) <= ExternalCount(CurrentInput)
<1> DEFINE cutoff == RecoveryOfBinding
           O == ToSet(CurrentInput.obs)
           S == ExternalsSince
<1>1. /\ IsFiniteSet(O) /\ IsFiniteSet(DOMAIN runs)
      /\ \A o \in O : o.run \in DOMAIN runs /\ o.episodes \subseteq DOMAIN runs
  BY SeenIsFinite
<1>2. S \subseteq DOMAIN runs /\ S \subseteq Nat
  BY RunsTyped DEF ExternalsSince, SinceRecovery
<1>3. \A i \in S : /\ Observation(2 * i - 1, cutoff) \in ExternalObs(O)
                   /\ Observation(2 * i - 1, cutoff).run = i
                   /\ Observation(2 * i - 1, cutoff).id = 2 * i - 1
                   /\ Observation(2 * i - 1, cutoff).episodes = {i}
  BY ExternalIsSeen DEF ExternalsSince
<1>4. CurrentInput.version = binding.version
  BY InputFields
<1> HIDE DEF O, S, cutoff
<1>5. IsFiniteSet(S) /\ IsFiniteSet(ExternalObs(O)) /\ ExternalObs(O) \subseteq O
  <2>1. ExternalObs(O) \subseteq O
    BY DEF ExternalObs
  <2> QED
    BY <1>1, <1>2, <2>1, FS_Subset
<1>6. CASE binding.version = 3
  <2> DEFINE U == Units(ExternalObs(O))
  <2>1. U \subseteq DOMAIN runs
    BY <1>1, <1>5 DEF Units
  <2>2. S \subseteq U
    BY <1>3 DEF Units
  <2> HIDE DEF U
  <2>3. Cardinality(S) <= Cardinality(U) /\ Cardinality(U) \in Nat
    BY <1>1, <2>1, <2>2, FS_Subset, FS_CardinalityType
  <2>4. ExternalCount(CurrentInput) = Cardinality(U)
    BY <1>4, <1>6 DEF ExternalCount, EpisodeVersions, U, O
  <2> QED
    BY <1>5, <2>3, <2>4 DEF S
<1>7. CASE binding.version \in EpisodeVersions
  <2> DEFINE E == Episodes(O)
             A == Anonymous(O)
             known == S \cap TrustedEpisodes
             rest == S \ known
             f == [i \in rest |-> Observation(2 * i - 1, cutoff)]
  <2>1. IsFiniteSet(E) /\ known \subseteq E
    <3>1. E \subseteq DOMAIN runs
      BY <1>1, <1>5 DEF Episodes
    <3>2. known \subseteq E
      BY <1>3 DEF Episodes
    <3> HIDE DEF E, known
    <3> QED
      BY <1>1, <3>1, <3>2, FS_Subset
  <2>2. IsFiniteSet(A)
    <3>1. A \subseteq ExternalObs(O)
      BY DEF Anonymous
    <3> HIDE DEF A
    <3> QED
      BY <1>5, <3>1, FS_Subset
  <2>3. f \in Injection(rest, A)
    <3>1. \A i \in rest : f[i] \in A
      BY <1>3 DEF Anonymous
    <3>2. \A i, j \in rest : f[i] = f[j] => i = j
      <4>1. \A i \in rest : f[i].run = i
        BY <1>3
      <4> QED
        BY <4>1
    <3>3. f \in [rest -> A]
      BY <3>1
    <3> HIDE DEF f, rest, A
    <3> QED
      BY <3>2, <3>3 DEF Injection, IsInjective
  <2>4. ExternalCount(CurrentInput) = Cardinality(E) + Cardinality(A)
    BY <1>4, <1>7 DEF ExternalCount, O, EpisodeVersions
  <2> HIDE DEF E, A, f
  <2>5. Cardinality(rest) <= Cardinality(A) /\ Cardinality(A) \in Nat
    BY <2>2, <2>3, FS_Injection, FS_CardinalityType
  <2>6. Cardinality(known) <= Cardinality(E) /\ Cardinality(E) \in Nat
    BY <2>1, FS_Subset, FS_CardinalityType
  <2>7. Cardinality(rest) = Cardinality(S) - Cardinality(known)
    <3>1. S \cap known = known
      OBVIOUS
    <3> QED
      BY <1>5, <3>1, FS_Difference
  <2>8. Cardinality(S) \in Nat /\ Cardinality(known) \in Nat
    <3>1. known \in SUBSET S
      OBVIOUS
    <3> HIDE DEF known
    <3> QED
      BY <1>5, <3>1, FS_Subset, FS_CardinalityType
  <2> HIDE DEF known, rest
  <2> QED
    BY <1>5, <2>4, <2>5, <2>6, <2>7, <2>8 DEF S
<1> QED
  BY <1>6, <1>7 DEF RecoveryVersions, EpisodeVersions

(* Two failures of the agent's own are counted, and a run that failed was      *)
(* executed: no recovery's probe is left to pass.                              *)
LEMMA FailuresAreFew ==
  ASSUME AuthorityInv, TrajectoryInv, Fresh(CurrentG13), job.stage = "PERMITTED"
  PROVE  Cardinality(FailuresSince) < 2
<1> DEFINE in == CurrentInput
           O == ToSet(in.obs)
           S == FailuresSince
           rule == "G13_REPEATED_EXECUTION_FAILURE"
<1>1. S \subseteq FailedUnits(O) /\ S \subseteq Executed(O)
  BY FailureIsCounted DEF FailuresSince
<1>2. /\ IsFiniteSet(DOMAIN runs)
      /\ \A o \in O : o.run \in DOMAIN runs
  BY SeenIsFinite
<1>3. binding.version \in RecoveryVersions /\ in.version = binding.version
  BY InputFields DEF TrajectoryInv, AskedIsRecovered
<1>4. FailedUnits(O) \subseteq DOMAIN runs /\ Executed(O) \subseteq DOMAIN runs
  <2> HIDE DEF O
  <2> QED
    BY <1>2 DEF FailedUnits, Executed, Eligible, Units
<1>5. FailureCount(in) = Cardinality(FailedUnits(O)) /\ ExecutedCount(in) = Cardinality(Executed(O))
  BY <1>3 DEF FailureCount, ExecutedCount, RecoveryVersions
<1> HIDE DEF in, O, S
<1>6. /\ IsFiniteSet(S) /\ IsFiniteSet(FailedUnits(O)) /\ IsFiniteSet(Executed(O))
  BY <1>1, <1>2, <1>4, FS_Subset
<1>7. /\ Cardinality(S) \in Nat /\ FailureCount(in) \in Nat
      /\ Cardinality(S) <= FailureCount(in)
  BY <1>1, <1>5, <1>6, FS_Subset, FS_CardinalityType
<1>8. ASSUME Cardinality(S) >= 2 PROVE FALSE
  <2>1. FailureCount(in) >= 2
    BY <1>7, <1>8
  <2>2. Fires(in)[rule] /\ rule \in DOMAIN RuleOutput /\ RuleOutput[rule] = "REVIEW"
    BY <2>1 DEF Fires, RuleOutput
  <2>3. rule \in Triggered(in)
    BY <2>2 DEF Triggered
  <2>4. CanaryAuthorized(in)
    BY <2>2, <2>3, ReviewedIsProbe DEF in
  <2>5. Executed(O) = {}
    BY <1>5, <1>6, <2>4, FS_EmptySet DEF CanaryAuthorized
  <2>6. S = {}
    BY <1>1, <2>5
  <2> QED
    BY <1>8, <2>6, FS_EmptySet
<1> QED
  BY <1>7, <1>8 DEF S

(* A recurrence of external failures is counted, and a run that met one is the *)
(* recovery's probe: none is left.                                             *)
LEMMA ExternalsAreFew ==
  ASSUME AuthorityInv, TrajectoryInv, Fresh(CurrentG13), job.stage = "PERMITTED"
  PROVE  Cardinality(ExternalsSince) < RecurrenceThreshold
<1> DEFINE in == CurrentInput
           O == ToSet(in.obs)
           S == ExternalsSince
           rule == "G13_EXTERNAL_ACQUISITION_RECURRENCE"
<1>1. binding.version \in RecoveryVersions /\ in.version = binding.version
  BY InputFields DEF TrajectoryInv, AskedIsRecovered
<1>2. /\ IsFiniteSet(S) /\ ExternalCount(in) \in Nat /\ Cardinality(S) <= ExternalCount(in)
  BY <1>1, ExternalsAreCounted
<1>3. S \subseteq ProbeUnits(O)
  BY ExternalIsSeen DEF ExternalsSince
<1>4. IsFiniteSet(ProbeUnits(O))
  <2>1. /\ IsFiniteSet(DOMAIN runs)
        /\ \A o \in O : o.run \in DOMAIN runs
    BY SeenIsFinite
  <2> HIDE DEF O
  <2>2. ProbeUnits(O) \subseteq DOMAIN runs
    BY <2>1 DEF ProbeUnits
  <2> QED
    BY <2>1, <2>2, FS_Subset
<1>5. in.recovery.limit \in {0, 1}
  BY InputFields DEF NoRecovery, CanaryLimit
<1> HIDE DEF in, O, S
<1>6. Cardinality(S) \in Nat /\ Cardinality(ProbeUnits(O)) \in Nat
  BY <1>2, <1>4, FS_CardinalityType
<1>7. ASSUME Cardinality(S) >= RecurrenceThreshold PROVE FALSE
  <2>1. ExternalCount(in) >= RecurrenceThreshold
    BY <1>2, <1>6, <1>7, ThresholdAssumption
  <2>2. Fires(in)[rule] /\ rule \in DOMAIN RuleOutput /\ RuleOutput[rule] = "REVIEW"
    BY <2>1 DEF Fires, RuleOutput
  <2>3. rule \in Triggered(in)
    BY <2>2 DEF Triggered
  <2>4. CanaryAuthorized(in) /\ in.version \in EpisodeVersions
    BY <1>1, <2>2, <2>3, ReviewedIsProbe DEF in
  <2>5. Cardinality(ProbeUnits(O)) < in.recovery.limit
    BY <2>4 DEF CanaryAuthorized, AttemptsBelow, O
  <2>6. Cardinality(ProbeUnits(O)) = 0
    BY <1>5, <1>6, <2>5
  <2>7. S = {}
    BY <1>3, <1>4, <2>6, FS_EmptySet
  <2> QED
    BY <1>7, <2>7, FS_EmptySet, ThresholdAssumption
<1> QED
  BY <1>6, <1>7, ThresholdAssumption DEF S

(* Failures that repeat since the recovery stop the agent before its next      *)
(* dispatch: whichever runs were retried, abandoned or cleared one another in  *)
(* between, two runs whose evidence failed its provenance, or as many external *)
(* failures as the policy reviews, among the runs a window reaches, leave no   *)
(* exemption under which a permit could still be committed.                    *)
THEOREM RepeatedFailuresStopHolds == Spec => RepeatedFailuresStop
<1>1. ASSUME AuthorityInv, TrajectoryInv, [Next]_vars, Dispatches
      PROVE  /\ Cardinality(FailuresSince) < 2
             /\ Cardinality(ExternalsSince) < RecurrenceThreshold
  <2>1. Next
    BY <1>1 DEF vars, workVars, Dispatches
  <2>2. Fresh(CurrentG13)
    BY <1>1, <2>1, DispatchIsFresh
  <2>3. job.stage = "PERMITTED"
    BY <1>1 DEF Dispatches
  <2> QED
    BY <1>1, <2>2, <2>3, FailuresAreFew, ExternalsAreFew
<1> QED
  BY <1>1, TrajectoryAlways, PTL DEF Spec, RepeatedFailuresStop, FailuresSince, ExternalsSince
================================================================================
