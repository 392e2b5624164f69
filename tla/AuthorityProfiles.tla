--------------------------- MODULE AuthorityProfiles ---------------------------
(*****************************************************************************)
(* The delegated authority of one agent (authority/profiles.py): versioned   *)
(* grants whose rows never change, and an append-only list of status changes *)
(* with effective times.  What an agent may do at an instant is resolved from*)
(* both.  Creation takes the identity's lock and a change the profile's, so  *)
(* each operation is one step; hashes are verified on every read and are     *)
(* left out.                                                                 *)
(*****************************************************************************)
EXTENDS Integers, Sequences, FiniteSets

CONSTANTS
    MaxTime,      \* BOUND: last instant
    MaxProfiles,  \* BOUND: profile versions
    MaxChanges,   \* BOUND: status changes
    Caps,         \* per-action budgets a grant may give
    FirstStatus,  \* statuses a grant may be created with
    NextStatus    \* statuses a change may give

Status   == {"ACTIVE", "SUSPENDED", "REVOKED", "EXPIRED"}
Terminal == {"REVOKED", "EXPIRED"}

ASSUME ProfileAssumptions ==
    /\ MaxTime \in Nat /\ MaxProfiles \in Nat \ {0} /\ MaxChanges \in Nat
    /\ Caps \subseteq Nat
    /\ FirstStatus \subseteq Status /\ "ACTIVE" \in FirstStatus
    /\ NextStatus \subseteq Status \ {"ACTIVE"} /\ "REVOKED" \in NextStatus

VARIABLES
    now,       \* the clock
    profiles,  \* agent_authority_profiles, in version order
    changes    \* authority_profile_events, in the order they were recorded

profileVars == <<now, profiles, changes>>

Times  == 0 .. MaxTime
Always == MaxTime + 1   \* "no valid_until"
Profile == [from : Times, until : 1 .. Always, cap : Caps, status : FirstStatus]
Change  == [profile : 1 .. MaxProfiles, status : NextStatus, at : Times]
NoProfile == 0

ProfilesTypeOK ==
    /\ now \in Times
    /\ profiles \in Seq(Profile) /\ Len(profiles) <= MaxProfiles
    /\ changes \in Seq(Change)
    /\ \A i \in DOMAIN changes : changes[i].profile <= Len(profiles)
--------------------------------------------------------------------------------
(*                                 resolution                                *)
Due(p, t) == {i \in DOMAIN changes : changes[i].profile = p /\ changes[i].at <= t}

\* The later effective time wins, then the later sequence number.
Later(i, j) ==
    changes[j].at < changes[i].at \/ (changes[j].at = changes[i].at /\ j <= i)

EffectiveStatus(p, t) ==
    IF Due(p, t) = {} THEN profiles[p].status
    ELSE changes[CHOOSE i \in Due(p, t) : \A j \in Due(p, t) : Later(i, j)].status

InForce(t) ==
    {p \in DOMAIN profiles : /\ profiles[p].from <= t /\ t < profiles[p].until
                             /\ EffectiveStatus(p, t) = "ACTIVE"}

\* No profile and several profiles are both refused.
Resolve(t) ==
    IF Cardinality(InForce(t)) = 1 THEN CHOOSE p \in InForce(t) : TRUE ELSE NoProfile
--------------------------------------------------------------------------------
(*                                 operations                                *)
ProfilesInit ==
    /\ now = 0
    /\ profiles \in {<<>>} \cup {<<[from |-> 0, until |-> Always, cap |-> c, status |-> "ACTIVE"]>> :
                                    c \in Caps}
    /\ changes = <<>>

NewProfile(from) ==
    /\ Len(profiles) < MaxProfiles
    /\ \E until \in (from + 1) .. Always, c \in Caps, s \in FirstStatus :
          profiles' = Append(profiles, [from |-> from, until |-> until, cap |-> c, status |-> s])

\* Nothing keeps a new grant from overlapping another one, or from starting in
\* the past.
CreateProfile ==
    /\ \E from \in Times : NewProfile(from)
    /\ UNCHANGED <<now, changes>>

ChangesOf(p) == {i \in DOMAIN changes : changes[i].profile = p}
LastOf(p)    == CHOOSE i \in ChangesOf(p) : \A j \in ChangesOf(p) : j <= i

\* Mutant of Changeable: the order of effective times is not checked.
Changeable_AnyOrder(p, at) ==
    /\ at >= now
    /\ IF ChangesOf(p) = {} THEN profiles[p].status \notin Terminal
       ELSE changes[LastOf(p)].status \notin Terminal
\* Mutant of Changeable: a change may take effect in the past.
Changeable_Retroactive(p, at) ==
    IF ChangesOf(p) = {}
    THEN profiles[p].status \notin Terminal
    ELSE /\ changes[LastOf(p)].status \notin Terminal
         /\ changes[LastOf(p)].at <= at
Changeable(p, at) ==
    /\ at >= now
    /\ IF ChangesOf(p) = {}
       THEN profiles[p].status \notin Terminal
       ELSE /\ changes[LastOf(p)].status \notin Terminal
            /\ changes[LastOf(p)].at <= at

RecordChange(p, status, at) ==
    /\ Len(changes) < MaxChanges
    /\ Changeable(p, at)
    /\ changes' = Append(changes, [profile |-> p, status |-> status, at |-> at])

SetStatus ==
    /\ \E p \in DOMAIN profiles, s \in NextStatus, at \in Times : RecordChange(p, s, at)
    /\ UNCHANGED <<now, profiles>>

\* One savepoint: the previous grant is revoked when its replacement starts.
VersionProfile ==
    /\ \E p \in DOMAIN profiles, from \in now .. MaxTime :
          RecordChange(p, "REVOKED", from) /\ NewProfile(from)
    /\ UNCHANGED now

Elapse ==
    /\ now < MaxTime
    /\ now' = now + 1
    /\ UNCHANGED <<profiles, changes>>

ProfilesNext == CreateProfile \/ SetStatus \/ VersionProfile \/ Elapse
ProfilesSpec == ProfilesInit /\ [][ProfilesNext]_profileVars
--------------------------------------------------------------------------------
(*                                 properties                                *)
\* The changes of a profile are recorded in the order of their effective times
\* and none follows a revocation or an expiry.
ChangesInOrder ==
    \A i, j \in DOMAIN changes :
        i < j /\ changes[i].profile = changes[j].profile =>
            changes[i].at <= changes[j].at /\ changes[i].status \notin Terminal

\* A profile that is revoked or expired at one instant has that status at every
\* later one, whatever other changes are scheduled (set_authority_profile_status).
RevocationIsFinal ==
    \A p \in DOMAIN profiles : \A t, u \in Times :
        t <= u /\ EffectiveStatus(p, t) \in Terminal =>
            EffectiveStatus(p, u) = EffectiveStatus(p, t)

\* No operation changes what the status of a recorded profile was at an instant
\* that has passed: an audit of a past action gives the same answer for ever.
PastIsFixed ==
    [][\A p \in DOMAIN profiles : \A t \in Times :
          t < now => EffectiveStatus(p, t)' = EffectiveStatus(p, t)]_profileVars
================================================================================
