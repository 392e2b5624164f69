-------------------------- MODULE CertifiedEvidence_proofs --------------------------
(* Theorems about the on-chain jobs and the tickets made of them, for any      *)
(* number of rows, workers, creations and anchors: whatever stale copies write *)
(* over each other, what a row or a ticket says of the chain is so, and every  *)
(* creation that was paid is owned by one row or its answer was lost.          *)
EXTENDS CertifiedEvidence, FiniteSetTheorems, TLAPS

JobRow == [state: JobState, chainState: {"NONE", "FUNDED", "TERMINAL", "CANCELLED"},
           create: Nat, id: Nat, verified: BOOLEAN]
Work == [step: Step, row: Nat, seen: JobRow]

LEMMA EntryTyped ==
  ASSUME NEW S, NEW s \in Seq(S), NEW i \in DOMAIN s
  PROVE  s[i] \in S
OBVIOUS

LEMMA Appended ==
  ASSUME NEW S, NEW s \in Seq(S), NEW e \in S
  PROVE  /\ Append(s, e) \in Seq(S)
         /\ DOMAIN Append(s, e) = DOMAIN s \union {Len(s) + 1}
         /\ \A i \in DOMAIN s : Append(s, e)[i] = s[i]
         /\ Append(s, e)[Len(s) + 1] = e
         /\ Len(s) + 1 \in DOMAIN Append(s, e) /\ Len(s) + 1 \notin DOMAIN s
         /\ Len(s) \in Nat
OBVIOUS
--------------------------------------------------------------------------------
(*                                 the chain                                   *)

\* A creation that was not mined has no state yet.
ChainInv ==
  /\ creates \in Seq(Creation)
  /\ \A k \in DOMAIN creates : creates[k].receipt = "PENDING" => creates[k].state = "NONE"

Closed == {"TERMINAL", "CANCELLED"}

\* The chain forgets nothing: closed jobs stay closed, and delivered ones delivered.
Grown ==
  /\ ChainInv'
  /\ DOMAIN creates \subseteq DOMAIN creates'
  /\ \A k \in DOMAIN creates :
       /\ creates[k].state \in Closed => creates'[k].state = creates[k].state
       /\ creates[k].delivered => creates'[k].delivered

LEMMA StillGrown ==
  ASSUME ChainInv, UNCHANGED creates
  PROVE  Grown
BY DEF ChainInv, Grown

LEMMA SubmitGrows ==
  ASSUME ChainInv, Submit
  PROVE  Grown /\ Len(creates) + 1 \in DOMAIN creates' /\ Len(creates) \in Nat
<1> DEFINE new == [receipt |-> "PENDING", state |-> "NONE", delivered |-> FALSE]
<1>1. creates \in Seq(Creation) /\ new \in Creation /\ creates' = Append(creates, new)
  BY DEF ChainInv, Creation, Submit
<1> HIDE DEF new
<1>2. /\ creates' \in Seq(Creation)
      /\ DOMAIN creates' = DOMAIN creates \union {Len(creates) + 1}
      /\ \A i \in DOMAIN creates : creates'[i] = creates[i]
      /\ creates'[Len(creates) + 1] = new
      /\ Len(creates) + 1 \in DOMAIN creates' /\ Len(creates) \in Nat
  BY <1>1, Appended
<1>3. new.state = "NONE"
  BY DEF new
<1> QED
  BY <1>2, <1>3 DEF ChainInv, Grown

\* One creation changes, and not from a closed state.
LEMMA ChangeGrows ==
  ASSUME ChainInv, NEW k \in DOMAIN creates, NEW c \in Creation,
         creates' = [creates EXCEPT ![k] = c],
         creates[k].state \notin Closed \/ c.state = creates[k].state,
         creates[k].delivered => c.delivered,
         c.receipt = "PENDING" => c.state = "NONE"
  PROVE  Grown
<1>1. creates' \in Seq(Creation) /\ DOMAIN creates' = DOMAIN creates
  BY DEF ChainInv
<1>2. \A i \in DOMAIN creates : creates'[i] = IF i = k THEN c ELSE creates[i]
  BY DEF ChainInv
<1> QED
  BY <1>1, <1>2 DEF ChainInv, Grown

LEMMA ChainGrows ==
  ASSUME ChainInv, ChainStep
  PROVE  Grown
<1>1. ASSUME NEW k \in DOMAIN creates, MineCreate(k)
      PROVE  Grown
  <2> DEFINE c == [creates[k] EXCEPT !.receipt = IF escrow THEN "CONFIRMED" ELSE "FAILED",
                                     !.state = IF escrow THEN "FUNDED" ELSE "NONE"]
  <2>1. creates[k] \in Creation
    BY EntryTyped DEF ChainInv
  <2>2. c \in Creation /\ c.receipt # "PENDING" /\ c.delivered = creates[k].delivered
    BY <2>1 DEF Creation
  <2>3. creates' = [creates EXCEPT ![k] = c]
    BY <1>1 DEF MineCreate
  <2>4. creates[k].state \notin Closed
    BY <1>1 DEF MineCreate, ChainInv, Closed
  <2> HIDE DEF c
  <2> QED
    BY <2>2, <2>3, <2>4, ChangeGrows
<1>2. ASSUME NEW k \in DOMAIN creates, Serve(k)
      PROVE  Grown
  <2> DEFINE c == [creates[k] EXCEPT !.state = "TERMINAL"]
  <2>1. creates[k] \in Creation
    BY EntryTyped DEF ChainInv
  <2>2. creates[k].state = "FUNDED" /\ creates[k].receipt # "PENDING"
    BY <1>2 DEF Serve, ChainInv
  <2>3. c \in Creation /\ c.receipt = creates[k].receipt /\ c.delivered = creates[k].delivered
    BY <2>1 DEF Creation
  <2>4. creates' = [creates EXCEPT ![k] = c]
    BY <1>2 DEF Serve
  <2> HIDE DEF c
  <2> QED
    BY <2>2, <2>3, <2>4, ChangeGrows DEF Closed
<1>3. ASSUME NEW k \in DOMAIN creates, DeliverCallback(k)
      PROVE  Grown
  <2> DEFINE c == [creates[k] EXCEPT !.delivered = TRUE]
  <2>1. creates[k] \in Creation
    BY EntryTyped DEF ChainInv
  <2>2. c \in Creation /\ c.receipt = creates[k].receipt /\ c.state = creates[k].state
        /\ c.delivered
    BY <2>1 DEF Creation
  <2>3. creates' = [creates EXCEPT ![k] = c]
    BY <1>3 DEF DeliverCallback
  <2>4. c.receipt = "PENDING" => c.state = "NONE"
    BY <2>2 DEF ChainInv
  <2> HIDE DEF c
  <2> QED
    BY <2>2, <2>3, <2>4, ChangeGrows
<1> QED
  BY <1>1, <1>2, <1>3 DEF ChainStep
--------------------------------------------------------------------------------
(*                            rows and their copies                            *)

\* What a row, or a copy of one, says of the chain.
Sound(r, chain) ==
  /\ r.id # 0 => r.id = r.create
  /\ r.create # 0 => r.create \in DOMAIN chain
  /\ r.state \in Closed => r.id # 0 /\ chain[r.id].state = r.state
  /\ r.verified => r.id # 0 /\ chain[r.id].delivered

\* A row still has the creation and the identity that an older copy knew.
Follows(old, r) ==
  /\ old.create # 0 => r.create = old.create
  /\ old.id # 0 => r.id = old.id

Same(a, b) == a.create = b.create /\ a.id = b.id

\* What a worker's copy knows at each step.
Knows(step, r) ==
  /\ step \in {"deposit", "create"} => Uncreated(r)
  /\ step = "receipt" => r.id = 0 /\ r.create # 0
  /\ step \in {"watch", "reconcile", "cancel"} => r.id # 0
  /\ step = "repair" => r.state = "TERMINAL"

Works(w) == working[w] # Resting
Executes(w) == working[w].step \in Executing
RowOf(w) == working[w].row

JobsTyped ==
  /\ jobs \in Seq(JobRow)
  /\ working \in [Workers -> Work \union {Resting}]
  /\ \A w \in Workers : Works(w) => RowOf(w) \in DOMAIN jobs

CopiesHold ==
  \A w \in Workers :
    Works(w) =>
      /\ Sound(Seen(w), creates) /\ Follows(Seen(w), jobs[RowOf(w)])
      /\ Executes(w) => Same(Seen(w), jobs[RowOf(w)])
      /\ Knows(working[w].step, Seen(w))

ExecutorsDiffer ==
  \A w, v \in Workers :
    Works(w) /\ Works(v) /\ Executes(w) /\ Executes(v) /\ w # v => RowOf(w) # RowOf(v)

JobInv ==
  /\ ChainInv /\ JobsTyped /\ CopiesHold /\ ExecutorsDiffer
  /\ \A i \in DOMAIN jobs : Sound(jobs[i], creates)

LEMMA JobStarts == JobInit => JobInv
BY DEF JobInit, JobInv, ChainInv, JobsTyped, CopiesHold, ExecutorsDiffer, Works

LEMMA JobMeans == JobInv => ClosedOnChain
BY DEF JobInv, Sound, Closed, ClosedOnChain

LEMMA SoundStays ==
  ASSUME ChainInv, Grown, NEW r \in JobRow, Sound(r, creates)
  PROVE  Sound(r, creates')
BY DEF Grown, Sound, Closed, JobRow

LEMMA WorkTyped ==
  ASSUME JobsTyped, NEW w \in Workers, Works(w)
  PROVE  /\ working[w] \in Work /\ Seen(w) \in JobRow
         /\ RowOf(w) \in DOMAIN jobs /\ jobs[RowOf(w)] \in JobRow
<1>1. working[w] \in Work /\ RowOf(w) \in DOMAIN jobs
  BY DEF JobsTyped, Works
<1>2. jobs[RowOf(w)] \in JobRow
  BY <1>1, EntryTyped DEF JobsTyped
<1> QED
  BY <1>1, <1>2 DEF Work, Seen

LEMMA Merges ==
  ASSUME NEW r \in JobRow, NEW s \in JobRow, NEW n \in JobRow
  PROVE  /\ Merge(r, s, n) \in JobRow
         /\ Merge(r, s, n).state = IF n.state # s.state THEN n.state ELSE r.state
         /\ Merge(r, s, n).create = IF n.create # s.create THEN n.create ELSE r.create
         /\ Merge(r, s, n).id = IF n.id # s.id THEN n.id ELSE r.id
         /\ Merge(r, s, n).verified = IF n.verified # s.verified THEN n.verified ELSE r.verified
<1>1. Merge(r, s, n) \in JobRow
  BY DEF JobRow, Merge
<1>2. /\ Merge(r, s, n).state = IF n.state # s.state THEN n.state ELSE r.state
      /\ Merge(r, s, n).create = IF n.create # s.create THEN n.create ELSE r.create
      /\ Merge(r, s, n).id = IF n.id # s.id THEN n.id ELSE r.id
  BY DEF JobRow, Merge
<1>3. Merge(r, s, n).verified = IF n.verified # s.verified THEN n.verified ELSE r.verified
  BY DEF JobRow, Merge
<1> QED
  BY <1>1, <1>2, <1>3

\* What a worker may write: a sound copy that moves the creation and the identity
\* only forward, and only when the worker executes the row.
Fair(w, new) ==
  /\ new \in JobRow /\ Sound(new, creates') /\ Follows(Seen(w), new)
  /\ ~Executes(w) => Same(Seen(w), new)

\* Merged into whatever the row has become, it leaves the row sound.
LEMMA MergeIsSound ==
  ASSUME JobInv, Grown, NEW w \in Workers, Works(w), NEW new, Fair(w, new),
         NEW row, row = jobs[RowOf(w)],
         NEW m, m = Merge(row, Seen(w), new)
  PROVE  /\ m \in JobRow /\ Sound(m, creates') /\ Follows(new, m) /\ Follows(row, m)
         /\ Executes(w) => Same(new, m)
         /\ ~Executes(w) => Same(row, m)
<1>1. Seen(w) \in JobRow /\ row \in JobRow /\ new \in JobRow
  BY WorkTyped DEF JobInv, Fair
<1> DEFINE s == Seen(w)
<1>2. /\ Sound(s, creates) /\ Follows(s, row) /\ Sound(row, creates)
      /\ Executes(w) => Same(s, row)
      /\ Sound(new, creates') /\ Follows(s, new)
      /\ ~Executes(w) => Same(s, new)
  BY WorkTyped DEF JobInv, CopiesHold, Fair
<1>3. s \in JobRow
  BY <1>1
<1> HIDE DEF s
<1>4. m = Merge(row, s, new)
  BY DEF s
<1>5. /\ m \in JobRow
      /\ m.state = IF new.state # s.state THEN new.state ELSE row.state
      /\ m.create = IF new.create # s.create THEN new.create ELSE row.create
      /\ m.id = IF new.id # s.id THEN new.id ELSE row.id
      /\ m.verified = IF new.verified # s.verified THEN new.verified ELSE row.verified
  BY <1>1, <1>3, <1>4, Merges
<1>6. /\ Executes(w) => Same(new, m)
      /\ ~Executes(w) => Same(row, m)
  BY <1>2, <1>5 DEF Same
<1>7. Follows(new, m) /\ Follows(row, m)
  BY <1>2, <1>5 DEF Same, Follows
<1>8. Sound(row, creates')
  BY <1>1, <1>2, SoundStays DEF JobInv
<1>9. Sound(m, creates')
  <2>1. /\ m.id # 0 => m.id = m.create
        /\ m.create # 0 => m.create \in DOMAIN creates'
    BY <1>2, <1>6, <1>8 DEF Sound, Same
  <2>2. m.state \in Closed => m.id # 0 /\ creates'[m.id].state = m.state
    BY <1>2, <1>5, <1>7, <1>8 DEF Sound, Follows
  <2>3. m.verified => m.id # 0 /\ creates'[m.id].delivered
    <3>1. CASE new.verified # s.verified
      BY <1>2, <1>5, <1>7, <3>1 DEF Sound, Follows
    <3>2. CASE new.verified = s.verified
      BY <1>5, <1>7, <1>8, <3>2 DEF Sound, Follows
    <3> QED
      BY <3>1, <3>2
  <2> QED
    BY <2>1, <2>2, <2>3 DEF Sound
<1> QED
  BY <1>5, <1>6, <1>7, <1>9
--------------------------------------------------------------------------------
(*                     every step keeps what rows and copies say               *)

\* A worker that is done, or goes on with the copy it wrote.
GoesOn(w, new, after) ==
  \/ after = Resting
  \/ /\ after \in Work /\ after.row = RowOf(w) /\ after.seen = new
     /\ after.step \in Executing /\ Executes(w) /\ Knows(after.step, new)

LEMMA CommitKeeps ==
  ASSUME JobInv, Grown, NEW w \in Workers, Works(w), NEW new, Fair(w, new), Commit(w, new),
         NEW after, GoesOn(w, new, after), working' = [working EXCEPT ![w] = after]
  PROVE  JobInv'
<1> DEFINE row == jobs[RowOf(w)]
           m == Merge(row, Seen(w), new)
<1>1. /\ m \in JobRow /\ Sound(m, creates') /\ Follows(new, m) /\ Follows(row, m)
      /\ Executes(w) => Same(new, m)
      /\ ~Executes(w) => Same(row, m)
  BY MergeIsSound
<1>2. jobs' = [jobs EXCEPT ![RowOf(w)] = m]
  BY DEF Commit, RowOf
<1>3. RowOf(w) \in DOMAIN jobs /\ jobs \in Seq(JobRow) /\ working[w] \in Work
  BY WorkTyped DEF JobInv, JobsTyped
<1> HIDE DEF m
<1>4. /\ jobs' \in Seq(JobRow) /\ DOMAIN jobs' = DOMAIN jobs
      /\ \A i \in DOMAIN jobs : jobs'[i] = IF i = RowOf(w) THEN m ELSE jobs[i]
  BY <1>1, <1>2, <1>3
<1>5. \A v \in Workers : working'[v] = IF v = w THEN after ELSE working[v]
  BY DEF JobInv, JobsTyped
<1>6. JobsTyped'
  <2>1. working' \in [Workers -> Work \union {Resting}]
    BY DEF JobInv, JobsTyped, GoesOn
  <2>2. \A v \in Workers : (Works(v) => RowOf(v) \in DOMAIN jobs)'
    BY <1>3, <1>4, <1>5 DEF JobInv, JobsTyped, Works, RowOf, GoesOn
  <2> QED
    BY <1>4, <2>1, <2>2 DEF JobsTyped
<1>7. \A i \in DOMAIN jobs' : Sound(jobs'[i], creates')
  <2> SUFFICES ASSUME NEW i \in DOMAIN jobs PROVE Sound(jobs'[i], creates')
    BY <1>4
  <2>1. CASE i = RowOf(w)
    BY <1>1, <1>4, <2>1 DEF Sound
  <2>2. CASE i # RowOf(w)
    <3>1. jobs[i] \in JobRow /\ Sound(jobs[i], creates)
      BY <1>3, EntryTyped DEF JobInv
    <3>2. \A r \in JobRow : Sound(r, creates) => Sound(r, creates')
      BY SoundStays DEF JobInv
    <3>3. jobs'[i] = jobs[i]
      BY <1>4, <2>2
    <3> QED
      BY <3>1, <3>2, <3>3 DEF Sound
  <2> QED
    BY <2>1, <2>2
<1>8. CopiesHold'
  <2> SUFFICES ASSUME NEW v \in Workers, Works(v)'
               PROVE  /\ Sound(Seen(v)', creates') /\ Follows(Seen(v), jobs[RowOf(v)])'
                      /\ (Executes(v) => Same(Seen(v), jobs[RowOf(v)]))'
                      /\ Knows(working[v].step, Seen(v))'
    BY DEF CopiesHold
  <2>1. CASE v = w
    <3>1. /\ Executes(w) /\ working'[v] = after /\ after # Resting
          /\ after.row = RowOf(w) /\ after.seen = new /\ Knows(after.step, new)
      BY <1>5, <2>1 DEF Works, GoesOn
    <3>2. Seen(v)' = new /\ RowOf(v)' = RowOf(w) /\ jobs'[RowOf(v)'] = m
      BY <1>3, <1>4, <3>1 DEF Seen, RowOf
    <3>3. Sound(Seen(v)', creates')
      BY <3>2 DEF Fair, Sound
    <3>4. Follows(Seen(v), jobs[RowOf(v)])' /\ Same(Seen(v), jobs[RowOf(v)])'
      BY <1>1, <3>1, <3>2 DEF Follows, Same
    <3>5. Knows(working[v].step, Seen(v))'
      BY <3>1, <3>2 DEF Knows, Uncreated
    <3> QED
      BY <3>3, <3>4, <3>5
  <2>2. CASE v # w
    <3>1. working'[v] = working[v] /\ Works(v) /\ Seen(v)' = Seen(v) /\ RowOf(v)' = RowOf(v)
      BY <1>5, <2>2 DEF Works, Seen, RowOf
    <3>2. /\ Sound(Seen(v), creates) /\ Follows(Seen(v), jobs[RowOf(v)])
          /\ Executes(v) => Same(Seen(v), jobs[RowOf(v)])
          /\ Knows(working[v].step, Seen(v))
      BY <3>1 DEF JobInv, CopiesHold
    <3>3. Seen(v) \in JobRow /\ RowOf(v) \in DOMAIN jobs
      BY <3>1, WorkTyped DEF JobInv
    <3>4. Sound(Seen(v)', creates')
      <4>1. \A r \in JobRow : Sound(r, creates) => Sound(r, creates')
        BY SoundStays DEF JobInv
      <4> QED
        BY <3>1, <3>2, <3>3, <4>1 DEF Sound
    <3>5. Knows(working[v].step, Seen(v))'
      BY <3>1, <3>2 DEF Knows, Uncreated
    <3>6. CASE RowOf(v) # RowOf(w)
      <4>1. jobs'[RowOf(v)] = jobs[RowOf(v)]
        BY <1>4, <3>3, <3>6
      <4>2. /\ Follows(Seen(v), jobs[RowOf(v)])'
            /\ (Executes(v) => Same(Seen(v), jobs[RowOf(v)]))'
        BY <3>1, <3>2, <4>1 DEF Follows, Same, Executes
      <4> QED
        BY <3>4, <3>5, <4>2
    <3>7. CASE RowOf(v) = RowOf(w)
      <4>1. jobs'[RowOf(v)] = m /\ jobs[RowOf(v)] = row
        BY <1>4, <3>3, <3>7
      <4>2. Executes(v) => Same(row, m)
        BY <1>1, <2>2, <3>1, <3>7 DEF JobInv, ExecutorsDiffer
      <4>3. Follows(Seen(v), jobs[RowOf(v)])'
        BY <1>1, <3>1, <3>2, <4>1 DEF Follows
      <4>4. (Executes(v) => Same(Seen(v), jobs[RowOf(v)]))'
        BY <3>1, <3>2, <4>1, <4>2 DEF Same, Executes
      <4> QED
        BY <3>4, <3>5, <4>3, <4>4
    <3> QED
      BY <3>6, <3>7
  <2> QED
    BY <2>1, <2>2
<1>9. ExecutorsDiffer'
  BY <1>5 DEF JobInv, ExecutorsDiffer, Works, Executes, RowOf, GoesOn
<1> QED
  BY <1>6, <1>7, <1>8, <1>9 DEF JobInv, Grown

LEMMA LeaveKeeps ==
  ASSUME JobInv, Grown, NEW w \in Workers, Works(w), NEW new, Fair(w, new), Leave(w, new)
  PROVE  JobInv'
BY CommitKeeps DEF Leave, GoesOn

LEMMA ProceedKeeps ==
  ASSUME JobInv, Grown, NEW w \in Workers, Works(w), NEW new, Fair(w, new),
         NEW step \in Executing, Executes(w), Knows(step, new), Proceed(w, step, new)
  PROVE  JobInv'
<1> DEFINE after == [working[w] EXCEPT !.step = step, !.seen = new]
<1>1. working[w] \in Work /\ new \in JobRow
  BY WorkTyped DEF JobInv, Fair
<1>2. working' = [working EXCEPT ![w] = after] /\ Commit(w, new)
  BY DEF Proceed
<1>3. /\ after \in Work /\ after.row = RowOf(w) /\ after.seen = new /\ after.step = step
  BY <1>1 DEF Work, RowOf, Executing, Step
<1> HIDE DEF after
<1>4. GoesOn(w, new, after)
  BY <1>3 DEF GoesOn
<1> QED
  BY <1>2, <1>4, CommitKeeps

\* Steps that write no row.
LEMMA RowsStay ==
  ASSUME JobInv, Grown, UNCHANGED jobs,
         \/ UNCHANGED working
         \/ \E w \in Workers : working' = [working EXCEPT ![w] = Resting]
  PROVE  JobInv'
<1>1. \A v \in Workers : working'[v] \in {working[v], Resting}
  BY DEF JobInv, JobsTyped
<1>2. \A r \in JobRow : Sound(r, creates) => Sound(r, creates')
  BY SoundStays DEF JobInv
<1>3. JobsTyped'
  BY <1>1 DEF JobInv, JobsTyped, Works, RowOf
<1>4. \A i \in DOMAIN jobs' : Sound(jobs'[i], creates')
  <2>1. ASSUME NEW i \in DOMAIN jobs PROVE jobs[i] \in JobRow /\ Sound(jobs[i], creates)
    BY EntryTyped DEF JobInv, JobsTyped
  <2> QED
    BY <1>2, <2>1 DEF Sound
<1>5. CopiesHold'
  <2> SUFFICES ASSUME NEW v \in Workers, Works(v)'
               PROVE  /\ Sound(Seen(v)', creates') /\ Follows(Seen(v), jobs[RowOf(v)])'
                      /\ (Executes(v) => Same(Seen(v), jobs[RowOf(v)]))'
                      /\ Knows(working[v].step, Seen(v))'
    BY DEF CopiesHold
  <2>1. working'[v] = working[v] /\ Works(v)
    BY <1>1 DEF Works
  <2>2. Seen(v) \in JobRow
    BY <2>1, WorkTyped DEF JobInv
  <2>3. /\ Sound(Seen(v), creates) /\ Follows(Seen(v), jobs[RowOf(v)])
        /\ Executes(v) => Same(Seen(v), jobs[RowOf(v)])
        /\ Knows(working[v].step, Seen(v))
    BY <2>1 DEF JobInv, CopiesHold
  <2>4. Seen(v)' = Seen(v) /\ RowOf(v)' = RowOf(v) /\ Executes(v)' = Executes(v)
    BY <2>1 DEF Seen, RowOf, Executes
  <2>5. Sound(Seen(v)', creates')
    BY <1>2, <2>2, <2>3, <2>4 DEF Sound
  <2> QED
    BY <2>1, <2>3, <2>4, <2>5 DEF Follows, Same, Knows, Uncreated
<1>6. ExecutorsDiffer'
  BY <1>1 DEF JobInv, ExecutorsDiffer, Works, Executes, RowOf
<1> QED
  BY <1>3, <1>4, <1>5, <1>6 DEF JobInv, Grown

LEMMA AtWork ==
  ASSUME JobInv, NEW w \in Workers, NEW step \in Step, At(w, step)
  PROVE  /\ Works(w) /\ Sound(Seen(w), creates) /\ Knows(step, Seen(w)) /\ Seen(w) \in JobRow
         /\ Executes(w) <=> step \in Executing
<1>1. Works(w)
  BY DEF At, Works, Resting, Step
<1>2. Seen(w) \in JobRow
  BY <1>1, WorkTyped DEF JobInv
<1> QED
  BY <1>1, <1>2 DEF JobInv, CopiesHold, At, Executes

\* What reading the chain lets a worker write.
LEMMA ObservationIsFair ==
  ASSUME JobInv, Grown, NEW w \in Workers, Works(w), NEW new \in JobRow, Same(Seen(w), new),
         new.state \in Closed => \/ new.state = Seen(w).state
                                 \/ Seen(w).id # 0 /\ creates'[Seen(w).id].state = new.state,
         new.verified => \/ Seen(w).verified
                         \/ Seen(w).id # 0 /\ creates'[Seen(w).id].delivered
  PROVE  Fair(w, new)
<1>1. Seen(w) \in JobRow /\ Sound(Seen(w), creates)
  BY WorkTyped DEF JobInv, CopiesHold
<1>2. Sound(Seen(w), creates')
  BY <1>1, SoundStays DEF JobInv
<1>3. Sound(new, creates')
  BY <1>2 DEF Sound, Same
<1> QED
  BY <1>1, <1>3 DEF Fair, Follows, Same

LEMMA CopyIsFair ==
  ASSUME JobInv, Grown, NEW w \in Workers, Works(w)
  PROVE  Fair(w, Seen(w))
<1>1. Seen(w) \in JobRow
  BY WorkTyped DEF JobInv
<1> QED
  BY <1>1, ObservationIsFair DEF Same

LEMMA StateIsFair ==
  ASSUME JobInv, Grown, NEW w \in Workers, Works(w), NEW state \in JobState \ Closed
  PROVE  Fair(w, [Seen(w) EXCEPT !.state = state])
<1> DEFINE new == [Seen(w) EXCEPT !.state = state]
<1>1. Seen(w) \in JobRow
  BY WorkTyped DEF JobInv
<1>2. /\ new \in JobRow /\ new.state = state /\ new.verified = Seen(w).verified
      /\ new.create = Seen(w).create /\ new.id = Seen(w).id
  BY <1>1 DEF JobRow
<1> HIDE DEF new
<1>3. Fair(w, new)
  BY <1>2, ObservationIsFair DEF Same
<1> QED
  BY <1>3 DEF new

LEMMA FundedIsFair ==
  ASSUME JobInv, Grown, NEW w \in Workers, Works(w)
  PROVE  Fair(w, Funded(Seen(w))) /\ Same(Seen(w), Funded(Seen(w)))
<1> DEFINE new == [Seen(w) EXCEPT !.state = "FUNDED", !.chainState = "FUNDED"]
<1>1. Seen(w) \in JobRow
  BY WorkTyped DEF JobInv
<1>2. /\ new \in JobRow /\ new.state = "FUNDED" /\ new.verified = Seen(w).verified
      /\ new.create = Seen(w).create /\ new.id = Seen(w).id
  BY <1>1 DEF JobRow, JobState
<1> HIDE DEF new
<1>3. Fair(w, new) /\ Same(Seen(w), new)
  BY <1>2, ObservationIsFair DEF Same, Closed
<1> QED
  BY <1>3 DEF new, Funded

\* A marked copy, its chain state overwritten with its state or not.
LEMMA MarkedIsFair ==
  ASSUME JobInv, UNCHANGED creates, NEW w \in Workers, Works(w),
         Seen(w).id # 0, creates[Seen(w).id].state = "TERMINAL", NEW new \in Marked(Seen(w))
  PROVE  Fair(w, new) /\ Fair(w, [new EXCEPT !.chainState = new.state])
<1>1. Seen(w) \in JobRow /\ Grown
  BY WorkTyped, StillGrown DEF JobInv
<1>2. PICK v \in Proofs(Seen(w)) :
        new = [Seen(w) EXCEPT !.state = "TERMINAL", !.chainState = "TERMINAL", !.verified = v]
  BY DEF Marked
<1>3. v \in BOOLEAN /\ (v => Seen(w).verified \/ creates'[Seen(w).id].delivered)
  BY <1>1, <1>2 DEF Proofs, JobRow
<1>4. /\ new \in JobRow /\ new.state = "TERMINAL" /\ new.verified = v
      /\ new.create = Seen(w).create /\ new.id = Seen(w).id
  BY <1>1, <1>2, <1>3 DEF JobRow, JobState
<1>5. [new EXCEPT !.chainState = new.state] = new
  BY <1>1, <1>2, <1>3 DEF JobRow
<1>6. Fair(w, new)
  BY <1>1, <1>3, <1>4, ObservationIsFair DEF Same
<1> QED
  BY <1>5, <1>6

LEMMA ObservedIsFair ==
  ASSUME JobInv, UNCHANGED creates, NEW w \in Workers, Works(w), Seen(w).id # 0,
         NEW new \in Observed(Seen(w))
  PROVE  Fair(w, new) /\ Fair(w, [new EXCEPT !.chainState = new.state])
<1>1. Seen(w) \in JobRow /\ Grown
  BY WorkTyped, StillGrown DEF JobInv
<1>2. CASE creates[Seen(w).id].state = "TERMINAL"
  <2>1. new \in Marked(Seen(w))
    BY <1>2 DEF Observed
  <2> QED
    BY <1>2, <2>1, MarkedIsFair
<1>3. CASE creates[Seen(w).id].state = "CANCELLED"
  <2> DEFINE full == [new EXCEPT !.chainState = new.state]
  <2>1. new = [Seen(w) EXCEPT !.state = "CANCELLED"]
    BY <1>3 DEF Observed
  <2>2. /\ new \in JobRow /\ new.state = "CANCELLED" /\ new.verified = Seen(w).verified
        /\ new.create = Seen(w).create /\ new.id = Seen(w).id
    BY <1>1, <2>1 DEF JobRow, JobState
  <2>3. /\ full \in JobRow /\ full.state = "CANCELLED" /\ full.verified = Seen(w).verified
        /\ full.create = Seen(w).create /\ full.id = Seen(w).id
    BY <2>2 DEF JobRow, JobState
  <2>4. Fair(w, new)
    BY <1>1, <1>3, <2>2, ObservationIsFair DEF Same
  <2> HIDE DEF full
  <2>5. Fair(w, full)
    BY <1>1, <1>3, <2>3, ObservationIsFair DEF Same
  <2> QED
    BY <2>4, <2>5 DEF full
<1>4. CASE creates[Seen(w).id].state \notin Closed
  BY <1>4 DEF Observed, Closed
<1> QED
  BY <1>2, <1>3, <1>4 DEF Closed

LEMMA FailKeeps ==
  ASSUME JobInv, Grown, NEW w \in Workers, Works(w), Fail(w)
  PROVE  JobInv'
<1>1. "FAILED" \in JobState \ Closed
  BY DEF JobState, Closed
<1> QED
  BY <1>1, StateIsFair, LeaveKeeps DEF Fail

LEMMA UnchangedKeeps ==
  ASSUME JobInv, Grown, NEW w \in Workers, Works(w), LeaveUnchanged(w)
  PROVE  JobInv'
BY CopyIsFair, LeaveKeeps DEF LeaveUnchanged
--------------------------------------------------------------------------------
(*                                the tasks                                    *)

LEMMA OutageKeeps ==
  ASSUME JobInv, NEW w \in Workers, Outage(w)
  PROVE  JobInv'
<1>1. Works(w) /\ UNCHANGED creates /\ Fail(w)
  BY DEF Outage, Works, Resting, Executing
<1> QED
  BY <1>1, StillGrown, FailKeeps DEF JobInv

LEMMA RepairKeeps ==
  ASSUME JobInv, NEW w \in Workers, Repair(w)
  PROVE  JobInv'
<1>1. /\ Works(w) /\ Sound(Seen(w), creates) /\ Seen(w).state = "TERMINAL"
      /\ UNCHANGED creates
  BY AtWork DEF Repair, Knows, Step
<1>2. Grown
  BY <1>1, StillGrown DEF JobInv
<1>3. CASE LeaveUnchanged(w)
  BY <1>1, <1>2, <1>3, UnchangedKeeps
<1>4. ASSUME NEW new \in Marked(Seen(w)), Leave(w, new)
      PROVE  JobInv'
  <2>1. Seen(w).id # 0 /\ creates[Seen(w).id].state = "TERMINAL"
    BY <1>1 DEF Sound, Closed
  <2>2. Fair(w, new)
    BY <1>1, <2>1, MarkedIsFair
  <2> QED
    BY <1>1, <1>2, <1>4, <2>2, LeaveKeeps
<1> QED
  BY <1>3, <1>4 DEF Repair

LEMMA PreflightKeeps ==
  ASSUME JobInv, NEW w \in Workers, Preflight(w)
  PROVE  JobInv'
<1>1. /\ Works(w) /\ Executes(w) /\ UNCHANGED creates /\ Seen(w) \in JobRow
  BY AtWork DEF Preflight, Step, Executing
<1>2. Grown
  BY <1>1, StillGrown DEF JobInv
<1>3. CASE LeaveUnchanged(w)
  BY <1>1, <1>2, <1>3, UnchangedKeeps
<1>4. CASE Uncreated(Seen(w)) /\ Proceed(w, "create", [Seen(w) EXCEPT !.state = "ESCROW_READY"])
  <2> DEFINE new == [Seen(w) EXCEPT !.state = "ESCROW_READY"]
  <2>1. "ESCROW_READY" \in JobState \ Closed
    BY DEF JobState, Closed
  <2>2. Fair(w, new)
    BY <1>1, <1>2, <2>1, StateIsFair
  <2>3. new.create = Seen(w).create /\ new.id = Seen(w).id
    BY <1>1 DEF JobRow
  <2>4. Proceed(w, "create", new) /\ "create" \in Executing
    BY <1>4 DEF Executing
  <2> HIDE DEF new
  <2>5. Knows("create", new)
    BY <1>4, <2>3 DEF Knows, Uncreated
  <2> QED
    BY <1>1, <1>2, <2>2, <2>4, <2>5, ProceedKeeps
<1>5. ASSUME NEW step \in {"deposit", "receipt", "watch"}, Knows(step, Seen(w)),
             Proceed(w, step, Seen(w))
      PROVE  JobInv'
  <2>1. step \in Executing
    BY DEF Executing
  <2> QED
    BY <1>1, <1>2, <1>5, <2>1, CopyIsFair, ProceedKeeps
<1>6. CASE Uncreated(Seen(w)) /\ Proceed(w, "deposit", Seen(w))
  BY <1>5, <1>6 DEF Knows
<1>7. CASE /\ ~Uncreated(Seen(w))
           /\ Proceed(w, IF Seen(w).id = 0 THEN "receipt" ELSE "watch", Seen(w))
  <2>1. CASE Seen(w).id = 0
    <3>1. Knows("receipt", Seen(w))
      BY <1>7, <2>1 DEF Knows, Uncreated
    <3> QED
      BY <1>5, <1>7, <2>1, <3>1
  <2>2. CASE Seen(w).id # 0
    <3>1. Knows("watch", Seen(w))
      BY <2>2 DEF Knows
    <3> QED
      BY <1>5, <1>7, <2>2, <3>1
  <2> QED
    BY <2>1, <2>2
<1> QED
  BY <1>3, <1>4, <1>6, <1>7 DEF Preflight

LEMMA DepositKeeps ==
  ASSUME JobInv, NEW w \in Workers, Deposit(w)
  PROVE  JobInv'
<1>1. /\ Works(w) /\ Executes(w) /\ UNCHANGED creates /\ Seen(w) \in JobRow
      /\ Uncreated(Seen(w))
  BY AtWork DEF Deposit, Step, Executing, Knows
<1>2. Grown
  BY <1>1, StillGrown DEF JobInv
<1>3. CASE Proceed(w, "create", [Seen(w) EXCEPT !.state = "ESCROW_READY"])
  <2> DEFINE new == [Seen(w) EXCEPT !.state = "ESCROW_READY"]
  <2>1. "ESCROW_READY" \in JobState \ Closed
    BY DEF JobState, Closed
  <2>2. Fair(w, new)
    BY <1>1, <1>2, <2>1, StateIsFair
  <2>3. new.create = Seen(w).create /\ new.id = Seen(w).id
    BY <1>1 DEF JobRow
  <2>4. Proceed(w, "create", new) /\ "create" \in Executing
    BY <1>3 DEF Executing
  <2> HIDE DEF new
  <2>5. Knows("create", new)
    BY <1>1, <2>3 DEF Knows, Uncreated
  <2> QED
    BY <1>1, <1>2, <2>2, <2>4, <2>5, ProceedKeeps
<1> QED
  BY <1>1, <1>2, <1>3, FailKeeps DEF Deposit

\* The creation is on record with the commit that follows its answer.
LEMMA CreateKeeps ==
  ASSUME JobInv, NEW w \in Workers, Create(w)
  PROVE  JobInv'
<1>1. /\ Works(w) /\ Executes(w) /\ Seen(w) \in JobRow /\ Sound(Seen(w), creates)
      /\ Uncreated(Seen(w)) /\ Submit
  BY AtWork DEF Create, Step, Executing, Knows
<1>2. Grown /\ Len(creates) + 1 \in DOMAIN creates' /\ Len(creates) \in Nat
  BY <1>1, SubmitGrows DEF JobInv
<1> DEFINE n == Len(creates) + 1
           new == [Seen(w) EXCEPT !.state = "SUBMITTED", !.create = n]
<1>4. Proceed(w, "receipt", new) /\ "receipt" \in Executing
  BY DEF Create, Executing
<1>0. n \in Nat /\ n # 0 /\ n \in DOMAIN creates'
  BY <1>2
<1> HIDE DEF n
<1>3. /\ new \in JobRow /\ new.state = "SUBMITTED" /\ new.create = n
      /\ new.id = 0 /\ new.verified = Seen(w).verified
  BY <1>0, <1>1 DEF JobRow, JobState, Uncreated
<1> HIDE DEF new
<1>5. Sound(new, creates')
  BY <1>0, <1>1, <1>3 DEF Sound, Closed, Uncreated
<1>6. Fair(w, new)
  BY <1>1, <1>3, <1>5 DEF Fair, Follows, Uncreated
<1>7. Knows("receipt", new)
  BY <1>0, <1>3 DEF Knows
<1> QED
  BY <1>1, <1>2, <1>4, <1>6, <1>7, ProceedKeeps

LEMMA CreateUnansweredKeeps ==
  ASSUME JobInv, NEW w \in Workers, CreateUnanswered(w)
  PROVE  JobInv'
<1>1. Works(w) /\ Submit
  BY AtWork DEF CreateUnanswered, Step
<1>2. Grown
  BY <1>1, SubmitGrows DEF JobInv
<1> QED
  BY <1>1, <1>2, FailKeeps, RowsStay DEF CreateUnanswered

LEMMA ReceiptKeeps ==
  ASSUME JobInv, NEW w \in Workers, Receipt(w)
  PROVE  JobInv'
<1>1. /\ Works(w) /\ Executes(w) /\ Seen(w) \in JobRow /\ Sound(Seen(w), creates)
      /\ Seen(w).id = 0 /\ Seen(w).create # 0 /\ UNCHANGED creates
  BY AtWork DEF Receipt, Step, Executing, Knows
<1>2. Grown
  BY <1>1, StillGrown DEF JobInv
<1>3. CASE Proceed(w, "watch", [Seen(w) EXCEPT !.state = "FUNDED", !.id = Seen(w).create])
  <2> DEFINE new == [Seen(w) EXCEPT !.state = "FUNDED", !.id = Seen(w).create]
  <2>1. /\ new \in JobRow /\ new.state = "FUNDED" /\ new.create = Seen(w).create
        /\ new.id = Seen(w).create /\ new.verified = Seen(w).verified
    BY <1>1 DEF JobRow, JobState
  <2>2. Proceed(w, "watch", new) /\ "watch" \in Executing
    BY <1>3 DEF Executing
  <2> HIDE DEF new
  <2>3. Sound(new, creates')
    BY <1>1, <2>1 DEF Sound, Closed
  <2>4. Fair(w, new)
    BY <1>1, <2>1, <2>3 DEF Fair, Follows
  <2>5. Knows("watch", new)
    BY <1>1, <2>1 DEF Knows
  <2> QED
    BY <1>1, <1>2, <2>2, <2>4, <2>5, ProceedKeeps
<1> QED
  BY <1>1, <1>2, <1>3, UnchangedKeeps, FailKeeps DEF Receipt

LEMMA WatchKeeps ==
  ASSUME JobInv, NEW w \in Workers, Watch(w)
  PROVE  JobInv'
<1>1. /\ Works(w) /\ Executes(w) /\ Seen(w).id # 0 /\ UNCHANGED creates
  BY AtWork DEF Watch, Step, Executing, Knows
<1>2. Grown
  BY <1>1, StillGrown DEF JobInv
<1>3. Fair(w, Funded(Seen(w))) /\ Same(Seen(w), Funded(Seen(w)))
  BY <1>1, <1>2, FundedIsFair
<1>4. CASE Proceed(w, "watch", Funded(Seen(w)))
  <2>1. Knows("watch", Funded(Seen(w))) /\ "watch" \in Executing
    BY <1>1, <1>3 DEF Knows, Same, Executing
  <2> QED
    BY <1>1, <1>2, <1>3, <1>4, <2>1, ProceedKeeps
<1>5. CASE Leave(w, Funded(Seen(w)))
  BY <1>1, <1>2, <1>3, <1>5, LeaveKeeps
<1>6. ASSUME NEW new \in Observed(Seen(w)), Leave(w, new)
      PROVE  JobInv'
  BY <1>1, <1>2, <1>6, ObservedIsFair, LeaveKeeps
<1> QED
  BY <1>4, <1>5, <1>6 DEF Watch

LEMMA ReconcileKeeps ==
  ASSUME JobInv, NEW w \in Workers, Reconcile(w)
  PROVE  JobInv'
<1>1. /\ Works(w) /\ Seen(w).id # 0 /\ UNCHANGED creates
  BY AtWork DEF Reconcile, Step, Knows
<1>2. Grown
  BY <1>1, StillGrown DEF JobInv
<1>3. CASE LeaveUnchanged(w)
  BY <1>1, <1>2, <1>3, UnchangedKeeps
<1>4. CASE Leave(w, Funded(Seen(w)))
  BY <1>1, <1>2, <1>4, FundedIsFair, LeaveKeeps
<1>5. ASSUME NEW new \in Observed(Seen(w)), Leave(w, [new EXCEPT !.chainState = new.state])
      PROVE  JobInv'
  BY <1>1, <1>2, <1>5, ObservedIsFair, LeaveKeeps
<1> QED
  BY <1>3, <1>4, <1>5 DEF Reconcile

LEMMA FundKeeps ==
  ASSUME JobInv, NEW w \in Workers, Fund(w)
  PROVE  JobInv'
<1>1. Works(w) /\ UNCHANGED creates
  BY AtWork DEF Fund, Step
<1>2. Grown /\ "ESCROW_READY" \in JobState \ Closed
  BY <1>1, StillGrown DEF JobInv, JobState, Closed
<1>3. CASE LeaveUnchanged(w)
  BY <1>1, <1>2, <1>3, UnchangedKeeps
<1>4. CASE Leave(w, [Seen(w) EXCEPT !.state = "ESCROW_READY"])
  BY <1>1, <1>2, <1>4, StateIsFair, LeaveKeeps
<1> QED
  BY <1>3, <1>4 DEF Fund

\* The diamond cancels only a funded job.
LEMMA CancelGrows ==
  ASSUME JobInv, NEW w \in Workers, Cancel(w)
  PROVE  /\ Grown /\ Works(w) /\ Seen(w).id # 0
         /\ ~LeaveUnchanged(w) => creates'[Seen(w).id].state = "CANCELLED"
<1>1. /\ Works(w) /\ Sound(Seen(w), creates) /\ Seen(w).id # 0
  BY AtWork DEF Cancel, Step, Knows
<1>2. CASE LeaveUnchanged(w) /\ UNCHANGED creates
  BY <1>1, <1>2, StillGrown DEF JobInv
<1>3. CASE /\ Chain(w).state = "FUNDED"
           /\ creates' = [creates EXCEPT ![Seen(w).id].state = "CANCELLED"]
  <2> DEFINE k == Seen(w).id
             c == [creates[k] EXCEPT !.state = "CANCELLED"]
  <2>1. k \in DOMAIN creates /\ creates[k] \in Creation /\ creates[k].state = "FUNDED"
    BY <1>1, <1>3, EntryTyped DEF Sound, JobInv, ChainInv, Chain
  <2>2. c \in Creation /\ c.state = "CANCELLED" /\ c.receipt = creates[k].receipt
        /\ c.delivered = creates[k].delivered
    BY <2>1 DEF Creation
  <2>3. creates' = [creates EXCEPT ![k] = c]
    BY <1>3
  <2>4. creates[k].receipt # "PENDING"
    BY <2>1 DEF JobInv, ChainInv
  <2> HIDE DEF c
  <2>5. Grown
    BY <2>1, <2>2, <2>3, <2>4, ChangeGrows DEF JobInv, Closed
  <2>6. creates'[k].state = "CANCELLED"
    BY <2>1, <2>2, <2>3 DEF JobInv, ChainInv
  <2> QED
    BY <1>1, <2>5, <2>6
<1> QED
  BY <1>2, <1>3 DEF Cancel

LEMMA CancelKeeps ==
  ASSUME JobInv, NEW w \in Workers, Cancel(w)
  PROVE  JobInv'
<1>1. Grown /\ Works(w) /\ Seen(w) \in JobRow /\ Seen(w).id # 0
  BY CancelGrows, WorkTyped DEF JobInv
<1>2. CASE LeaveUnchanged(w)
  BY <1>1, <1>2, UnchangedKeeps
<1>3. CASE /\ ~LeaveUnchanged(w)
           /\ Leave(w, [Seen(w) EXCEPT !.state = "CANCELLED", !.chainState = "CANCELLED"])
  <2> DEFINE new == [Seen(w) EXCEPT !.state = "CANCELLED", !.chainState = "CANCELLED"]
  <2>1. /\ new \in JobRow /\ new.state = "CANCELLED" /\ new.verified = Seen(w).verified
        /\ new.create = Seen(w).create /\ new.id = Seen(w).id
    BY <1>1 DEF JobRow, JobState
  <2>2. Leave(w, new) /\ creates'[Seen(w).id].state = "CANCELLED"
    BY <1>3, CancelGrows
  <2> HIDE DEF new
  <2>3. Fair(w, new)
    BY <1>1, <2>1, <2>2, ObservationIsFair DEF Same
  <2> QED
    BY <1>1, <2>2, <2>3, LeaveKeeps
<1> QED
  BY <1>2, <1>3 DEF Cancel

LEMMA WorkerKeeps ==
  ASSUME JobInv, NEW w \in Workers, WorkerStep(w)
  PROVE  JobInv'
<1>1. CASE CreateRefused(w)
  <2>1. Works(w) /\ UNCHANGED creates /\ Fail(w)
    BY <1>1, AtWork DEF CreateRefused, Step
  <2> QED
    BY <2>1, StillGrown, FailKeeps DEF JobInv
<1>2. CASE JobWorkerDies(w)
  BY <1>2, StillGrown, RowsStay DEF JobWorkerDies, JobInv
<1>3. CASE Execute(w) /\ ~CreateRefused(w)
  BY <1>3, OutageKeeps, RepairKeeps, PreflightKeeps, DepositKeeps, CreateKeeps,
     CreateUnansweredKeeps, ReceiptKeeps, WatchKeeps DEF Execute
<1> QED
  BY <1>1, <1>2, <1>3, ReconcileKeeps, FundKeeps, CancelKeeps DEF WorkerStep
--------------------------------------------------------------------------------
(*                         requests and deliveries                             *)

LEMMA RequestKeeps ==
  ASSUME JobInv, RequestFixture
  PROVE  JobInv'
<1>1. /\ jobs' = Append(jobs, NewJob) /\ UNCHANGED <<creates, working>>
      /\ jobs \in Seq(JobRow) /\ NewJob \in JobRow
  BY DEF RequestFixture, JobInv, JobsTyped, NewJob, JobRow, JobState
<1>2. /\ jobs' \in Seq(JobRow)
      /\ DOMAIN jobs' = DOMAIN jobs \union {Len(jobs) + 1}
      /\ \A i \in DOMAIN jobs : jobs'[i] = jobs[i]
      /\ jobs'[Len(jobs) + 1] = NewJob
  BY <1>1, Appended
<1>3. JobsTyped'
  BY <1>1, <1>2 DEF JobInv, JobsTyped, Works, RowOf
<1>4. Sound(NewJob, creates')
  BY DEF Sound, NewJob, Closed
<1>5. \A i \in DOMAIN jobs' : Sound(jobs'[i], creates')
  BY <1>1, <1>2, <1>4 DEF JobInv
<1>6. CopiesHold'
  <2> SUFFICES ASSUME NEW w \in Workers, Works(w)
               PROVE  /\ Sound(Seen(w), creates) /\ Follows(Seen(w), jobs'[RowOf(w)])
                      /\ Executes(w) => Same(Seen(w), jobs'[RowOf(w)])
                      /\ Knows(working[w].step, Seen(w))
    BY <1>1 DEF CopiesHold, Works, Seen, RowOf, Executes, Sound, Follows, Same, Knows, Uncreated
  <2>1. jobs'[RowOf(w)] = jobs[RowOf(w)]
    BY <1>2, WorkTyped DEF JobInv
  <2> QED
    BY <2>1 DEF JobInv, CopiesHold
<1> QED
  BY <1>1, <1>3, <1>5, <1>6 DEF JobInv, ChainInv, ExecutorsDiffer, Works, Executes, RowOf

\* The copy a worker loads is the row.
LEMMA DeliverKeeps ==
  ASSUME JobInv, NEW w \in Workers, NEW i \in DOMAIN jobs, NEW step \in Step, Deliver(w, i, step)
  PROVE  JobInv'
<1> DEFINE task == [step |-> step, row |-> i, seen |-> jobs[i]]
<1>1. /\ UNCHANGED <<jobs, creates>> /\ working' = [working EXCEPT ![w] = task]
      /\ step \in Executing => \A v \in Workers : working[v].step \in Executing => RowOf(v) # i
      /\ Knows(step, jobs[i])
  BY DEF Deliver, RowOf, Executing, Knows, Cancellable
<1>2. jobs[i] \in JobRow /\ i \in Nat /\ Sound(jobs[i], creates)
  BY EntryTyped DEF JobInv, JobsTyped
<1>3. /\ task \in Work /\ task # Resting /\ task.step = step /\ task.row = i
      /\ task.seen = jobs[i]
  BY <1>2 DEF Work, Resting, Step
<1> HIDE DEF task
<1>4. \A v \in Workers : working'[v] = IF v = w THEN task ELSE working[v]
  BY <1>1 DEF JobInv, JobsTyped
<1>5. JobsTyped'
  BY <1>1, <1>3, <1>4 DEF JobInv, JobsTyped, Works, RowOf
<1>6. CopiesHold'
  <2> SUFFICES ASSUME NEW v \in Workers, Works(v)'
               PROVE  /\ Sound(Seen(v)', creates) /\ Follows(Seen(v)', jobs[RowOf(v)'])
                      /\ Executes(v)' => Same(Seen(v)', jobs[RowOf(v)'])
                      /\ Knows(working'[v].step, Seen(v)')
    BY <1>1 DEF CopiesHold, Works, Seen, RowOf, Executes, Sound, Follows, Same, Knows, Uncreated
  <2>1. CASE v = w
    <3>1. Seen(v)' = jobs[i] /\ RowOf(v)' = i /\ working'[v].step = step
      BY <1>3, <1>4, <2>1 DEF Seen, RowOf
    <3> QED
      BY <1>1, <1>2, <3>1 DEF Follows, Same
  <2>2. CASE v # w
    <3>1. /\ Works(v) /\ Seen(v)' = Seen(v) /\ RowOf(v)' = RowOf(v)
          /\ working'[v].step = working[v].step /\ Executes(v)' = Executes(v)
      BY <1>4, <2>2 DEF Works, Seen, RowOf, Executes
    <3> QED
      BY <3>1 DEF JobInv, CopiesHold
  <2> QED
    BY <2>1, <2>2
<1>7. ExecutorsDiffer'
  BY <1>1, <1>3, <1>4 DEF JobInv, ExecutorsDiffer, Works, Executes, RowOf
<1> QED
  BY <1>1, <1>5, <1>6, <1>7 DEF JobInv, ChainInv

LEMMA WorkerGrows ==
  ASSUME JobInv, NEW w \in Workers, WorkerStep(w)
  PROVE  Grown
<1>1. CASE Create(w) \/ CreateUnanswered(w)
  BY <1>1, SubmitGrows DEF Create, CreateUnanswered, JobInv
<1>2. CASE Cancel(w)
  BY <1>2, CancelGrows
<1>3. CASE UNCHANGED creates
  BY <1>3, StillGrown DEF JobInv
<1>4. \/ Create(w) \/ CreateUnanswered(w) \/ Cancel(w)
      \/ UNCHANGED creates
  BY DEF WorkerStep, Execute, Outage, Repair, Preflight, Deposit, CreateRefused, Receipt, Watch,
         Reconcile, Fund, JobWorkerDies
<1> QED
  BY <1>1, <1>2, <1>3, <1>4

LEMMA JobNextKeeps ==
  ASSUME JobInv, JobNext \/ UNCHANGED jobVars
  PROVE  JobInv' /\ Grown
<1>1. CASE ChainStep
  <2>1. Grown /\ UNCHANGED <<jobs, working>>
    BY <1>1, ChainGrows DEF JobInv, ChainStep, MineCreate, Serve, DeliverCallback
  <2> QED
    BY <2>1, RowsStay
<1>2. CASE UNCHANGED jobVars
  <2>1. Grown /\ UNCHANGED <<jobs, working>>
    BY <1>2, StillGrown DEF JobInv, jobVars
  <2> QED
    BY <2>1, RowsStay
<1>3. CASE RequestFixture
  BY <1>3, RequestKeeps, StillGrown DEF RequestFixture, JobInv
<1>4. ASSUME NEW w \in Workers, WorkerStep(w)
      PROVE  JobInv' /\ Grown
  BY <1>4, WorkerKeeps, WorkerGrows
<1>5. ASSUME NEW w \in Workers, StartJob(w)
      PROVE  JobInv' /\ Grown
  <2>1. PICK i \in DOMAIN jobs, step \in Step : Deliver(w, i, step)
    BY <1>5 DEF StartJob
  <2> QED
    BY <2>1, DeliverKeeps, StillGrown DEF Deliver, JobInv
<1> QED
  BY <1>1, <1>2, <1>3, <1>4, <1>5 DEF JobNext

LEMMA StepOfJobs == [Next]_vars => JobNext \/ UNCHANGED jobVars
BY DEF Next, vars, jobVars, Reconstruct, Promote

(* Whatever stale copies of a row are written over each other, what the row    *)
(* says of its job - whose it is, how it was closed, what was delivered - is   *)
(* what the chain says.                                                        *)
THEOREM ClosedOnChainHolds == Spec => []ClosedOnChain
<1>1. Init => JobInv
  BY JobStarts DEF Init
<1>2. JobInv /\ [Next]_vars => JobInv'
  BY StepOfJobs, JobNextKeeps
<1> QED
  BY <1>1, <1>2, JobMeans, PTL DEF Spec
--------------------------------------------------------------------------------
(*                        every creation is accounted for                      *)

\* The rows that own a creation, and a pair for each answer that was lost.
Recorded == {i \in DOMAIN jobs : jobs[i].create # 0}
Lost == {u \in (1 .. MaxRows) \X (1 .. MaxCreates) : u[2] <= unanswered[u[1]]}

OwnersDiffer ==
  \A i, j \in DOMAIN jobs : i # j /\ jobs[i].create # 0 => jobs[i].create # jobs[j].create

CountTyped ==
  /\ Len(jobs) <= MaxRows /\ Len(creates) <= MaxCreates
  /\ unanswered \in [1 .. MaxRows -> Nat]
  /\ \A i \in 1 .. MaxRows : unanswered[i] <= Len(creates)

CountInv ==
  /\ CountTyped /\ OwnersDiffer
  /\ Len(creates) = Cardinality(Recorded) + Cardinality(Lost)

LEMMA CountStarts == JobInit => CountInv
<1> SUFFICES ASSUME JobInit PROVE CountInv
  OBVIOUS
<1>1. /\ jobs = <<>> /\ creates = <<>> /\ unanswered = [i \in 1 .. MaxRows |-> 0]
      /\ MaxRows \in Nat /\ MaxCreates \in Nat
  BY JobAssumption DEF JobInit
<1>2. CountTyped /\ OwnersDiffer
  BY <1>1 DEF CountTyped, OwnersDiffer
<1>3. Recorded = {}
  BY <1>1 DEF Recorded
<1>4. Lost = {}
  <2>1. ASSUME NEW u \in Lost PROVE FALSE
    <3>1. u[1] \in 1 .. MaxRows /\ u[2] \in 1 .. MaxCreates /\ u[2] <= unanswered[u[1]]
      BY DEF Lost
    <3> QED
      BY <1>1, <3>1
  <2> QED
    BY <2>1
<1>5. Len(creates) = 0
  BY <1>1
<1> QED
  BY <1>2, <1>3, <1>4, <1>5, FS_EmptySet DEF CountInv

LEMMA CountedFinitely ==
  ASSUME JobInv, CountTyped
  PROVE  /\ IsFiniteSet(Recorded) /\ Cardinality(Recorded) \in Nat
         /\ IsFiniteSet(Lost) /\ Cardinality(Lost) \in Nat
         /\ Len(jobs) \in Nat /\ DOMAIN jobs = 1 .. Len(jobs) /\ DOMAIN jobs \subseteq 1 .. MaxRows
         /\ Len(creates) \in Nat /\ DOMAIN creates = 1 .. Len(creates)
<1>1. /\ Len(jobs) \in Nat /\ DOMAIN jobs = 1 .. Len(jobs)
      /\ Len(creates) \in Nat /\ DOMAIN creates = 1 .. Len(creates)
  BY DEF JobInv, JobsTyped, ChainInv
<1>2. MaxRows \in Nat /\ MaxCreates \in Nat
  BY JobAssumption
<1>3. DOMAIN jobs \subseteq 1 .. MaxRows
  BY <1>1, <1>2 DEF CountTyped
<1>4. IsFiniteSet(1 .. MaxRows) /\ IsFiniteSet(1 .. MaxCreates)
  BY <1>2, FS_Interval
<1>5. Recorded \subseteq 1 .. MaxRows
  BY <1>3 DEF Recorded
<1>6. Lost \subseteq (1 .. MaxRows) \X (1 .. MaxCreates)
  BY DEF Lost
<1>7. IsFiniteSet((1 .. MaxRows) \X (1 .. MaxCreates))
  BY <1>4, FS_Product
<1>8. IsFiniteSet(Recorded) /\ IsFiniteSet(Lost)
  BY <1>4, <1>5, <1>6, <1>7, FS_Subset
<1> QED
  BY <1>1, <1>3, <1>8, FS_CardinalityType

\* What every step but a creation leaves alone.
CreatesNothing ==
  /\ Len(creates') = Len(creates) /\ UNCHANGED unanswered
  /\ DOMAIN jobs \subseteq DOMAIN jobs' /\ Len(jobs') <= MaxRows
  /\ \A i \in DOMAIN jobs' : jobs'[i].create = IF i \in DOMAIN jobs THEN jobs[i].create ELSE 0

LEMMA NothingIsCounted ==
  ASSUME JobInv, CountInv, CreatesNothing
  PROVE  CountInv'
<1>1. CountTyped' /\ OwnersDiffer'
  BY DEF CountInv, CountTyped, OwnersDiffer, CreatesNothing
<1>2. Recorded' = Recorded
  BY DEF Recorded, CreatesNothing
<1>3. Lost' = Lost
  BY DEF Lost, CreatesNothing
<1> QED
  BY <1>1, <1>2, <1>3 DEF CountInv, CreatesNothing

\* A creation whose hash the worker learns is recorded by its row, and by no other.
LEMMA RecordedIsCounted ==
  ASSUME JobInv, CountInv, NEW i \in DOMAIN jobs, jobs[i].create = 0,
         Len(creates') = Len(creates) + 1, Len(creates) < MaxCreates, UNCHANGED unanswered,
         DOMAIN jobs' = DOMAIN jobs, Len(jobs') = Len(jobs),
         \A j \in DOMAIN jobs :
           jobs'[j].create = IF j = i THEN Len(creates) + 1 ELSE jobs[j].create
  PROVE  CountInv'
<1>1. /\ IsFiniteSet(Recorded) /\ Cardinality(Recorded) \in Nat /\ Cardinality(Lost) \in Nat
      /\ Len(creates) \in Nat /\ DOMAIN creates = 1 .. Len(creates) /\ MaxCreates \in Nat
  BY CountedFinitely, JobAssumption DEF CountInv
<1>2. CountTyped'
  BY <1>1 DEF CountInv, CountTyped
<1>3. \A j \in DOMAIN jobs : jobs[j].create # Len(creates) + 1
  <2>1. ASSUME NEW j \in DOMAIN jobs PROVE jobs[j].create = 0 \/ jobs[j].create \in 1 .. Len(creates)
    BY <1>1 DEF JobInv, Sound
  <2> QED
    BY <1>1, <2>1
<1>4. OwnersDiffer'
  BY <1>1, <1>3 DEF CountInv, OwnersDiffer
<1>5. Recorded' = Recorded \cup {i} /\ i \notin Recorded
  BY <1>1 DEF Recorded
<1>6. Cardinality(Recorded') = Cardinality(Recorded) + 1
  BY <1>1, <1>5, FS_AddElement
<1>7. Lost' = Lost
  BY DEF Lost
<1> QED
  BY <1>1, <1>2, <1>4, <1>6, <1>7 DEF CountInv

\* One whose answer is lost is one more for its row.
LEMMA LostIsCounted ==
  ASSUME JobInv, CountInv, NEW i \in DOMAIN jobs,
         Len(creates') = Len(creates) + 1, Len(creates) < MaxCreates,
         unanswered' = [unanswered EXCEPT ![i] = @ + 1],
         DOMAIN jobs' = DOMAIN jobs, Len(jobs') = Len(jobs),
         \A j \in DOMAIN jobs : jobs'[j].create = jobs[j].create
  PROVE  CountInv'
<1>1. /\ IsFiniteSet(Lost) /\ Cardinality(Recorded) \in Nat /\ Cardinality(Lost) \in Nat
      /\ Len(creates) \in Nat /\ MaxCreates \in Nat /\ i \in 1 .. MaxRows
  BY CountedFinitely, JobAssumption DEF CountInv
<1> DEFINE n == unanswered[i] + 1
<1>2. /\ unanswered \in [1 .. MaxRows -> Nat] /\ unanswered[i] \in Nat
      /\ \A j \in 1 .. MaxRows : unanswered[j] <= Len(creates)
      /\ \A j \in 1 .. MaxRows : unanswered'[j] = IF j = i THEN n ELSE unanswered[j]
      /\ unanswered' \in [1 .. MaxRows -> Nat]
  BY <1>1 DEF CountInv, CountTyped
<1>3. n \in 1 .. MaxCreates /\ n = unanswered[i] + 1 /\ n <= Len(creates) + 1
  BY <1>1, <1>2
<1> HIDE DEF n
<1>4. CountTyped' /\ OwnersDiffer'
  <2>1. \A j \in 1 .. MaxRows : unanswered'[j] <= Len(creates')
    BY <1>1, <1>2, <1>3
  <2>2. Len(jobs') <= MaxRows /\ Len(creates') <= MaxCreates
    BY <1>1 DEF CountInv, CountTyped
  <2>3. OwnersDiffer'
    BY DEF CountInv, OwnersDiffer
  <2> QED
    BY <1>2, <2>1, <2>2, <2>3 DEF CountTyped
<1>5. Recorded' = Recorded
  BY DEF Recorded
<1>6. <<i, n>> \notin Lost
  BY <1>1, <1>2, <1>3 DEF Lost
<1>7. Lost' = Lost \cup {<<i, n>>}
  <2> DEFINE pairs == (1 .. MaxRows) \X (1 .. MaxCreates)
  <2>1. ASSUME NEW u \in pairs
        PROVE  u[2] <= unanswered'[u[1]] <=> u[2] <= unanswered[u[1]] \/ u = <<i, n>>
    <3>1. /\ u[1] \in 1 .. MaxRows /\ u[2] \in 1 .. MaxCreates /\ u = <<u[1], u[2]>>
      OBVIOUS
    <3>2. unanswered[u[1]] \in Nat
      BY <1>2, <3>1
    <3>3. CASE u[1] = i
      <4>1. unanswered'[u[1]] = unanswered[u[1]] + 1 /\ n = unanswered[u[1]] + 1
        BY <1>2, <1>3, <3>1, <3>3
      <4>2. u = <<i, n>> <=> u[2] = n
        BY <3>1, <3>3
      <4> QED
        BY <1>1, <3>1, <3>2, <4>1, <4>2
    <3>4. CASE u[1] # i
      BY <1>2, <3>1, <3>4
    <3> QED
      BY <3>3, <3>4
  <2>2. <<i, n>> \in pairs
    BY <1>1, <1>3
  <2>3. Lost = {u \in pairs : u[2] <= unanswered[u[1]]}
    BY DEF Lost
  <2>4. Lost' = {u \in pairs : u[2] <= unanswered'[u[1]]}
    BY DEF Lost
  <2> HIDE DEF pairs
  <2> QED
    BY <2>1, <2>2, <2>3, <2>4
<1>8. Cardinality(Lost') = Cardinality(Lost) + 1
  BY <1>1, <1>6, <1>7, FS_AddElement
<1> QED
  BY <1>1, <1>4, <1>5, <1>8 DEF CountInv

\* A write that does not touch the copy's creation leaves the row's.
LEMMA WriteKeepsCreation ==
  ASSUME JobInv, NEW w \in Workers, Works(w), NEW new \in JobRow,
         new.create = Seen(w).create, Commit(w, new)
  PROVE  /\ DOMAIN jobs' = DOMAIN jobs /\ Len(jobs') = Len(jobs)
         /\ \A j \in DOMAIN jobs : jobs'[j].create = jobs[j].create
<1> DEFINE row == jobs[RowOf(w)]
           m == Merge(row, Seen(w), new)
<1>1. Seen(w) \in JobRow /\ row \in JobRow /\ RowOf(w) \in DOMAIN jobs /\ jobs \in Seq(JobRow)
  BY WorkTyped DEF JobInv, JobsTyped
<1>2. m \in JobRow /\ m.create = row.create
  BY <1>1, Merges
<1>3. jobs' = [jobs EXCEPT ![RowOf(w)] = m]
  BY DEF Commit, RowOf
<1> HIDE DEF m
<1> QED
  BY <1>1, <1>2, <1>3

\* What the tasks write, but for the commit of a creation.
Writes(w, new) ==
  new \in JobRow /\ new.create = Seen(w).create /\ (Leave(w, new) \/ \E s \in Step : Proceed(w, s, new))

LEMMA WritesCreateNothing ==
  ASSUME JobInv, CountInv, NEW w \in Workers, Works(w), NEW new, Writes(w, new),
         Len(creates') = Len(creates), UNCHANGED unanswered
  PROVE  CountInv'
<1>1. Commit(w, new)
  BY DEF Writes, Leave, Proceed
<1>2. /\ DOMAIN jobs' = DOMAIN jobs /\ Len(jobs') = Len(jobs)
      /\ \A j \in DOMAIN jobs : jobs'[j].create = jobs[j].create
  BY <1>1, WriteKeepsCreation DEF Writes
<1> QED
  BY <1>2, NothingIsCounted DEF CreatesNothing, CountInv, CountTyped

LEMMA TasksWrite ==
  ASSUME JobInv, NEW w \in Workers, WorkerStep(w), ~Create(w), ~CreateUnanswered(w), ~JobWorkerDies(w)
  PROVE  /\ Works(w) /\ UNCHANGED unanswered /\ Len(creates') = Len(creates)
         /\ \E new : Writes(w, new)
<1>1. Works(w) /\ Seen(w) \in JobRow
  <2>1. \E s \in Step : At(w, s) \/ Outage(w)
    BY DEF WorkerStep, Execute, Repair, Preflight, Deposit, CreateRefused, Receipt, Watch,
           Reconcile, Fund, Cancel, Step
  <2>2. Outage(w) => Works(w)
    BY DEF Outage, Works, Resting, Executing
  <2>3. Works(w)
    BY <2>1, <2>2, AtWork
  <2> QED
    BY <2>3, WorkTyped DEF JobInv
<1>2. UNCHANGED unanswered /\ Len(creates') = Len(creates)
  <2>1. CASE Cancel(w)
    BY <2>1 DEF Cancel, JobInv, ChainInv
  <2>2. CASE ~Cancel(w)
    BY <2>2 DEF WorkerStep, Execute, Outage, Repair, Preflight, Deposit, CreateRefused, Receipt,
                Watch, Reconcile, Fund
  <2> QED
    BY <2>1, <2>2
<1> SUFFICES \E new : Writes(w, new)
  BY <1>1, <1>2
<1> DEFINE seen == Seen(w)
           Kept(new) == new \in JobRow /\ new.create = seen.create
           failed == [seen EXCEPT !.state = "FAILED"]
           ready == [seen EXCEPT !.state = "ESCROW_READY"]
           made == [seen EXCEPT !.state = "FUNDED", !.id = seen.create]
           cancelled == [seen EXCEPT !.state = "CANCELLED"]
           stopped == [seen EXCEPT !.state = "CANCELLED", !.chainState = "CANCELLED"]
<1>3. ASSUME NEW new, Kept(new), Leave(w, new) \/ \E s \in Step : Proceed(w, s, new)
      PROVE  \E n : Writes(w, n)
  BY <1>3 DEF Writes
<1>4. Kept(seen) /\ Kept(failed) /\ Kept(ready)
  BY <1>1 DEF JobRow, JobState
<1>5. Kept(made) /\ Kept(cancelled) /\ Kept(stopped)
  BY <1>1 DEF JobRow, JobState
<1>6. Kept(Funded(seen))
  BY <1>1 DEF JobRow, JobState, Funded
<1>7. ASSUME NEW new \in Marked(seen) PROVE Kept(new) /\ new.state = "TERMINAL"
  <2>1. PICK v \in Proofs(seen) :
          new = [seen EXCEPT !.state = "TERMINAL", !.chainState = "TERMINAL", !.verified = v]
    BY DEF Marked
  <2>2. v \in BOOLEAN
    BY <1>1 DEF JobRow, Proofs
  <2> QED
    BY <1>1, <2>1, <2>2 DEF JobRow, JobState
<1>8. ASSUME NEW new \in Observed(seen)
      PROVE  Kept(new) /\ Kept([new EXCEPT !.chainState = new.state])
  <2>1. Kept(new) /\ new.state \in {"CANCELLED", "TERMINAL"}
    <3>1. CASE creates[seen.id].state = "CANCELLED"
      <4>1. new = cancelled
        BY <3>1 DEF Observed
      <4> QED
        BY <1>1, <4>1 DEF JobRow, JobState
    <3>2. CASE creates[seen.id].state = "TERMINAL"
      <4>1. new \in Marked(seen)
        BY <3>2 DEF Observed
      <4> QED
        BY <1>7, <4>1
    <3>3. CASE creates[seen.id].state \notin {"CANCELLED", "TERMINAL"}
      BY <3>3 DEF Observed
    <3> QED
      BY <3>1, <3>2, <3>3
  <2> QED
    BY <2>1 DEF JobRow
<1>9. Fail(w) => Leave(w, failed)
  BY DEF Fail
<1>10. LeaveUnchanged(w) => Leave(w, seen)
  BY DEF LeaveUnchanged
<1>11. CASE Outage(w) \/ CreateRefused(w)
  BY <1>3, <1>4, <1>9, <1>11 DEF Outage, CreateRefused
<1>12. CASE Repair(w)
  <2>1. LeaveUnchanged(w) \/ \E new \in Marked(seen) : Leave(w, new)
    BY <1>12 DEF Repair
  <2> QED
    BY <1>3, <1>4, <1>7, <1>10, <2>1
<1>13. CASE Preflight(w) \/ Deposit(w)
  <2>1. \/ LeaveUnchanged(w) \/ Fail(w)
        \/ Proceed(w, "create", ready)
        \/ \E s \in {"deposit", "receipt", "watch"} : Proceed(w, s, seen)
    BY <1>13 DEF Preflight, Deposit
  <2>2. {"create", "deposit", "receipt", "watch"} \subseteq Step
    BY DEF Step
  <2> HIDE DEF seen, failed, ready
  <2> QED
    BY <1>3, <1>4, <1>9, <1>10, <2>1, <2>2
<1>14. CASE Receipt(w)
  <2>1. LeaveUnchanged(w) \/ Fail(w) \/ Proceed(w, "watch", made)
    BY <1>14 DEF Receipt
  <2>2. "watch" \in Step
    BY DEF Step
  <2> HIDE DEF seen, failed, made
  <2> QED
    BY <1>3, <1>4, <1>5, <1>9, <1>10, <2>1, <2>2
<1>15. CASE Watch(w)
  <2>1. \/ Proceed(w, "watch", Funded(seen)) \/ Leave(w, Funded(seen))
        \/ \E new \in Observed(seen) : Leave(w, new)
    BY <1>15 DEF Watch
  <2>2. "watch" \in Step
    BY DEF Step
  <2> QED
    BY <1>3, <1>6, <1>8, <2>1, <2>2
<1>16. CASE Reconcile(w)
  <2>1. \/ LeaveUnchanged(w) \/ Leave(w, Funded(seen))
        \/ \E new \in Observed(seen) : Leave(w, [new EXCEPT !.chainState = new.state])
    BY <1>16 DEF Reconcile
  <2>2. CASE \E new \in Observed(seen) : Leave(w, [new EXCEPT !.chainState = new.state])
    <3>1. PICK new \in Observed(seen) : Leave(w, [new EXCEPT !.chainState = new.state])
      BY <2>2
    <3> DEFINE full == [new EXCEPT !.chainState = new.state]
    <3>2. Kept(full) /\ Leave(w, full)
      BY <1>8, <3>1
    <3> HIDE DEF full
    <3> QED
      BY <1>3, <3>2
  <2> QED
    BY <1>3, <1>4, <1>6, <1>10, <2>1, <2>2
<1>17. CASE Fund(w)
  <2>1. LeaveUnchanged(w) \/ Leave(w, ready)
    BY <1>17 DEF Fund
  <2> HIDE DEF seen, ready
  <2> QED
    BY <1>3, <1>4, <1>10, <2>1
<1>18. CASE Cancel(w)
  <2>1. LeaveUnchanged(w) \/ Leave(w, stopped)
    BY <1>18 DEF Cancel
  <2> HIDE DEF seen, stopped
  <2> QED
    BY <1>3, <1>4, <1>5, <1>10, <2>1
<1> QED
  BY <1>11, <1>12, <1>13, <1>14, <1>15, <1>16, <1>17, <1>18 DEF WorkerStep, Execute

LEMMA CreateIsCounted ==
  ASSUME JobInv, CountInv, NEW w \in Workers, Create(w)
  PROVE  CountInv'
<1> DEFINE new == [Seen(w) EXCEPT !.state = "SUBMITTED", !.create = Len(creates) + 1]
           m == Merge(jobs[RowOf(w)], Seen(w), new)
<1>1. /\ Works(w) /\ Executes(w) /\ Seen(w) \in JobRow /\ Seen(w).create = 0
      /\ Commit(w, new) /\ UNCHANGED unanswered /\ Submit /\ Len(creates) < MaxCreates
  BY AtWork DEF Create, Step, Executing, Knows, Uncreated, Proceed
<1>2. /\ RowOf(w) \in DOMAIN jobs /\ jobs \in Seq(JobRow) /\ jobs[RowOf(w)] \in JobRow
      /\ jobs[RowOf(w)].create = 0
  BY <1>1, WorkTyped DEF JobInv, JobsTyped, CopiesHold, Same
<1>3. Len(creates) \in Nat /\ Len(creates') = Len(creates) + 1
  BY <1>1 DEF JobInv, ChainInv, Submit
<1>4. new \in JobRow /\ new.create = Len(creates) + 1
  <2>1. Len(creates) + 1 \in Nat
    BY <1>3
  <2> QED
    BY <1>1, <2>1 DEF JobRow, JobState
<1>5. m \in JobRow /\ m.create = Len(creates) + 1
  <2> HIDE DEF new
  <2> QED
    BY <1>1, <1>2, <1>3, <1>4, Merges
<1>6. jobs' = [jobs EXCEPT ![RowOf(w)] = m]
  BY <1>1 DEF Commit, RowOf
<1> HIDE DEF m, new
<1>7. /\ DOMAIN jobs' = DOMAIN jobs /\ Len(jobs') = Len(jobs)
      /\ \A j \in DOMAIN jobs :
           jobs'[j].create = IF j = RowOf(w) THEN Len(creates) + 1 ELSE jobs[j].create
  BY <1>2, <1>5, <1>6
<1> QED
  BY <1>1, <1>2, <1>3, <1>7, RecordedIsCounted

LEMMA CreateUnansweredIsCounted ==
  ASSUME JobInv, CountInv, NEW w \in Workers, CreateUnanswered(w)
  PROVE  CountInv'
<1>1. /\ Works(w) /\ Seen(w) \in JobRow /\ Submit /\ Len(creates) < MaxCreates
      /\ unanswered' = [unanswered EXCEPT ![RowOf(w)] = @ + 1]
      /\ Fail(w) \/ UNCHANGED jobs
  BY AtWork DEF CreateUnanswered, Step, RowOf
<1>2. RowOf(w) \in DOMAIN jobs
  BY <1>1, WorkTyped DEF JobInv
<1>3. Len(creates') = Len(creates) + 1
  BY <1>1 DEF JobInv, ChainInv, Submit
<1>4. /\ DOMAIN jobs' = DOMAIN jobs /\ Len(jobs') = Len(jobs)
      /\ \A j \in DOMAIN jobs : jobs'[j].create = jobs[j].create
  <2>1. CASE Fail(w)
    <3> DEFINE new == [Seen(w) EXCEPT !.state = "FAILED"]
    <3>1. new \in JobRow /\ new.create = Seen(w).create /\ Commit(w, new)
      BY <1>1, <2>1 DEF JobRow, JobState, Fail, Leave
    <3> HIDE DEF new
    <3> QED
      BY <1>1, <3>1, WriteKeepsCreation
  <2>2. CASE UNCHANGED jobs
    BY <2>2
  <2> QED
    BY <1>1, <2>1, <2>2
<1> QED
  BY <1>1, <1>2, <1>3, <1>4, LostIsCounted

LEMMA CountKept ==
  ASSUME JobInv, CountInv, JobNext \/ UNCHANGED jobVars
  PROVE  CountInv'
<1>1. ASSUME NEW w \in Workers, WorkerStep(w)
      PROVE  CountInv'
  <2>1. CASE JobWorkerDies(w)
    BY <2>1, NothingIsCounted DEF JobWorkerDies, CreatesNothing, CountInv, CountTyped
  <2>2. CASE ~Create(w) /\ ~CreateUnanswered(w) /\ ~JobWorkerDies(w)
    BY <1>1, <2>2, TasksWrite, WritesCreateNothing
  <2> QED
    BY <2>1, <2>2, CreateIsCounted, CreateUnansweredIsCounted
<1>2. CASE RequestFixture
  <2>1. /\ jobs' = Append(jobs, NewJob) /\ UNCHANGED <<creates, unanswered>>
        /\ Len(jobs) < MaxRows /\ jobs \in Seq(JobRow) /\ NewJob \in JobRow
    BY <1>2 DEF RequestFixture, JobInv, JobsTyped, NewJob, JobRow, JobState
  <2>2. NewJob.create = 0
    BY DEF NewJob
  <2> HIDE DEF JobRow
  <2>3. /\ DOMAIN jobs' = DOMAIN jobs \union {Len(jobs) + 1} /\ Len(jobs) + 1 \notin DOMAIN jobs
        /\ \A i \in DOMAIN jobs : jobs'[i] = jobs[i]
        /\ jobs'[Len(jobs) + 1] = NewJob /\ Len(jobs) \in Nat
    BY <2>1, Appended
  <2>4. Len(jobs') = Len(jobs) + 1 /\ MaxRows \in Nat
    BY <2>1, JobAssumption
  <2> QED
    BY <2>1, <2>2, <2>3, <2>4, NothingIsCounted DEF CreatesNothing
<1>3. CASE \/ ChainStep \/ UNCHANGED jobVars
           \/ \E w \in Workers : StartJob(w)
  <2>1. UNCHANGED <<jobs, unanswered>> /\ Len(creates') = Len(creates)
    <3>1. CASE ChainStep
      BY <3>1 DEF ChainStep, MineCreate, Serve, DeliverCallback, JobInv, ChainInv
    <3>2. CASE UNCHANGED jobVars \/ \E w \in Workers : StartJob(w)
      BY <3>2 DEF StartJob, Deliver, jobVars
    <3> QED
      BY <1>3, <3>1, <3>2
  <2> QED
    BY <2>1, NothingIsCounted DEF CreatesNothing, CountInv, CountTyped
<1> QED
  BY <1>1, <1>2, <1>3 DEF JobNext

(* Whatever is retried, redelivered, lost or cut short, the signer has paid    *)
(* for exactly one creation of every row that owns one, and one for every      *)
(* answer that was lost, and no two rows own the same.                         *)
THEOREM CreatedPerLostAnswerHolds == Spec => []CreatedPerLostAnswer
<1>1. Init => JobInv /\ CountInv
  BY JobStarts, CountStarts DEF Init
<1>2. (JobInv /\ CountInv) /\ [Next]_vars => (JobInv /\ CountInv)'
  BY StepOfJobs, JobNextKeeps, CountKept
<1>3. JobInv /\ CountInv => CreatedPerLostAnswer
  BY DEF CountInv, OwnersDiffer, Recorded, Lost, CreatedPerLostAnswer
<1> QED
  BY <1>1, <1>2, <1>3, PTL DEF Spec
--------------------------------------------------------------------------------
(*                                the anchors                                  *)

TicketRow == [anchor: AnchorStatus \union {"UNISSUED"}, tx: Nat]
AttemptRow == [status: {"NONE", "PENDING", "SUBMITTED", "CONFIRMED", "FAILED"}, tx: Nat]
Errand == [step: {"post", "poll"}, ticket: Tickets, seenTicket: TicketRow,
           seenAttempt: AttemptRow]

TicketTrue(t, r, chain) ==
  /\ r.tx # 0 => r.tx \in DOMAIN chain /\ chain[r.tx] = [ticket |-> t, receipt |-> "CONFIRMED"]
  /\ r.anchor = "ANCHORED" => r.tx # 0
AttemptTrue(t, r, chain) ==
  r.tx # 0 => r.tx \in DOMAIN chain /\ chain[r.tx].ticket = t

AnchorsTyped ==
  /\ anchors \in Seq(Anchor)
  /\ tickets \in [Tickets -> TicketRow]
  /\ attempts \in [Tickets -> AttemptRow]
  /\ anchoring \in [Anchorers -> Errand \union {Free}]

AnchorInv ==
  /\ AnchorsTyped
  /\ \A t \in Tickets : TicketTrue(t, tickets[t], anchors) /\ AttemptTrue(t, attempts[t], anchors)
  /\ \A w \in Anchorers :
       anchoring[w] # Free =>
         /\ TicketTrue(anchoring[w].ticket, anchoring[w].seenTicket, anchors)
         /\ AttemptTrue(anchoring[w].ticket, anchoring[w].seenAttempt, anchors)
         /\ anchoring[w].seenTicket.tx # 0 => tickets[anchoring[w].ticket].tx # 0
         /\ anchoring[w].step = "poll" => anchoring[w].seenAttempt.tx # 0

\* The contract keeps what it confirmed.
AnchorsGrown ==
  /\ anchors' \in Seq(Anchor)
  /\ DOMAIN anchors \subseteq DOMAIN anchors'
  /\ \A k \in DOMAIN anchors :
       /\ anchors'[k].ticket = anchors[k].ticket
       /\ anchors[k].receipt = "CONFIRMED" => anchors'[k] = anchors[k]

LEMMA AnchorsStay ==
  ASSUME anchors \in Seq(Anchor), UNCHANGED anchors
  PROVE  AnchorsGrown
BY DEF AnchorsGrown

LEMMA SendGrows ==
  ASSUME anchors \in Seq(Anchor), NEW t \in Tickets, Send(t)
  PROVE  /\ AnchorsGrown /\ Len(anchors) \in Nat
         /\ Len(anchors) + 1 \in DOMAIN anchors' /\ anchors'[Len(anchors) + 1].ticket = t
<1> DEFINE new == [ticket |-> t, receipt |-> "PENDING"]
<1>1. new \in Anchor /\ new.ticket = t /\ anchors' = Append(anchors, new)
  BY DEF Anchor, Send
<1> HIDE DEF new
<1> QED
  BY <1>1, Appended DEF AnchorsGrown

LEMMA MineGrows ==
  ASSUME anchors \in Seq(Anchor), NEW k \in DOMAIN anchors, MineAnchor(k)
  PROVE  AnchorsGrown
<1> DEFINE c == [anchors[k] EXCEPT !.receipt = IF AnchoredOnChain(anchors[k].ticket)
                                               THEN "FAILED" ELSE "CONFIRMED"]
<1>1. anchors[k] \in Anchor /\ anchors[k].receipt = "PENDING"
  BY EntryTyped DEF MineAnchor
<1>2. c \in Anchor /\ c.ticket = anchors[k].ticket
  BY <1>1 DEF Anchor
<1>3. anchors' = [anchors EXCEPT ![k] = c]
  BY DEF MineAnchor
<1> HIDE DEF c
<1> QED
  BY <1>1, <1>2, <1>3 DEF AnchorsGrown

LEMMA TrueStays ==
  ASSUME AnchorsGrown, NEW t
  PROVE  /\ \A r \in TicketRow : TicketTrue(t, r, anchors) => TicketTrue(t, r, anchors')
         /\ \A r \in AttemptRow : AttemptTrue(t, r, anchors) => AttemptTrue(t, r, anchors')
BY DEF AnchorsGrown, TicketTrue, AttemptTrue

LEMMA TicketsMerge ==
  ASSUME NEW r \in TicketRow, NEW s \in TicketRow, NEW n \in TicketRow
  PROVE  /\ Changed(r, s, n) \in TicketRow
         /\ Changed(r, s, n).anchor = IF n.anchor # s.anchor THEN n.anchor ELSE r.anchor
         /\ Changed(r, s, n).tx = IF n.tx # s.tx THEN n.tx ELSE r.tx
BY DEF TicketRow, Changed

LEMMA AttemptsMerge ==
  ASSUME NEW r \in AttemptRow, NEW s \in AttemptRow, NEW n \in AttemptRow
  PROVE  /\ Changed(r, s, n) \in AttemptRow
         /\ Changed(r, s, n).tx = IF n.tx # s.tx THEN n.tx ELSE r.tx
BY DEF AttemptRow, Changed

LEMMA ErrandTyped ==
  ASSUME AnchorInv, NEW w \in Anchorers, anchoring[w] # Free
  PROVE  /\ anchoring[w] \in Errand /\ anchoring[w].ticket \in Tickets
         /\ anchoring[w].seenTicket \in TicketRow /\ anchoring[w].seenAttempt \in AttemptRow
         /\ tickets[anchoring[w].ticket] \in TicketRow
         /\ attempts[anchoring[w].ticket] \in AttemptRow
<1>1. anchoring[w] \in Errand
  BY DEF AnchorInv, AnchorsTyped
<1>2. /\ anchoring[w].ticket \in Tickets /\ anchoring[w].seenTicket \in TicketRow
      /\ anchoring[w].seenAttempt \in AttemptRow
  BY <1>1 DEF Errand
<1> QED
  BY <1>1, <1>2 DEF AnchorInv, AnchorsTyped

\* What is merged into the ticket and its attempt is true of the chain.
LEMMA WriteKeeps ==
  ASSUME AnchorInv, AnchorsGrown, NEW w \in Anchorers, anchoring[w] # Free,
         NEW ticket \in TicketRow, NEW attempt \in AttemptRow, Write(w, ticket, attempt),
         TicketTrue(anchoring[w].ticket, ticket, anchors'),
         AttemptTrue(anchoring[w].ticket, attempt, anchors'),
         ticket.tx # 0 \/ ticket.tx = anchoring[w].seenTicket.tx
  PROVE  /\ tickets' \in [Tickets -> TicketRow] /\ attempts' \in [Tickets -> AttemptRow]
         /\ \A t \in Tickets : /\ TicketTrue(t, tickets'[t], anchors')
                               /\ AttemptTrue(t, attempts'[t], anchors')
                               /\ tickets[t].tx # 0 => tickets'[t].tx # 0
                               /\ t # anchoring[w].ticket => /\ tickets'[t] = tickets[t]
                                                             /\ attempts'[t] = attempts[t]
<1> DEFINE t == anchoring[w].ticket
           r == tickets[t]
           s == anchoring[w].seenTicket
           m == Changed(r, s, ticket)
           n == Changed(attempts[t], anchoring[w].seenAttempt, attempt)
<1>1. /\ t \in Tickets /\ r \in TicketRow /\ s \in TicketRow
      /\ attempts[t] \in AttemptRow /\ anchoring[w].seenAttempt \in AttemptRow
  BY ErrandTyped
<1>2. tickets' = [tickets EXCEPT ![t] = m] /\ attempts' = [attempts EXCEPT ![t] = n]
  BY DEF Write
<1>3. /\ m \in TicketRow
      /\ m.anchor = IF ticket.anchor # s.anchor THEN ticket.anchor ELSE r.anchor
      /\ m.tx = IF ticket.tx # s.tx THEN ticket.tx ELSE r.tx
  BY <1>1, TicketsMerge
<1>4. /\ n \in AttemptRow
      /\ n.tx = IF attempt.tx # anchoring[w].seenAttempt.tx THEN attempt.tx ELSE attempts[t].tx
  BY <1>1, AttemptsMerge
<1>5. /\ TicketTrue(t, r, anchors) /\ AttemptTrue(t, attempts[t], anchors)
      /\ s.tx # 0 => r.tx # 0
  BY <1>1 DEF AnchorInv
<1>6. TicketTrue(t, r, anchors') /\ AttemptTrue(t, attempts[t], anchors')
  BY <1>1, <1>5, TrueStays
<1>7. /\ TicketTrue(t, ticket, anchors') /\ AttemptTrue(t, attempt, anchors')
      /\ ticket.tx # 0 \/ ticket.tx = s.tx
  OBVIOUS
<1>8. /\ tickets \in [Tickets -> TicketRow] /\ attempts \in [Tickets -> AttemptRow]
      /\ \A u \in Tickets : TicketTrue(u, tickets[u], anchors) /\ AttemptTrue(u, attempts[u], anchors)
  BY DEF AnchorInv, AnchorsTyped
<1>9. r = tickets[t]
  OBVIOUS
<1> HIDE DEF t, r, s, m, n
<1>10. TicketTrue(t, m, anchors') /\ (r.tx # 0 => m.tx # 0)
  BY <1>3, <1>5, <1>6, <1>7 DEF TicketTrue
<1>11. AttemptTrue(t, n, anchors')
  BY <1>4, <1>6, <1>7 DEF AttemptTrue
<1>12. tickets' \in [Tickets -> TicketRow] /\ attempts' \in [Tickets -> AttemptRow]
  BY <1>2, <1>3, <1>4, <1>8
<1>13. ASSUME NEW u \in Tickets
       PROVE  /\ TicketTrue(u, tickets'[u], anchors') /\ AttemptTrue(u, attempts'[u], anchors')
              /\ tickets[u].tx # 0 => tickets'[u].tx # 0
              /\ u # t => tickets'[u] = tickets[u] /\ attempts'[u] = attempts[u]
  <2>1. CASE u = t
    <3>1. tickets'[u] = m /\ attempts'[u] = n
      BY <1>1, <1>2, <1>8, <2>1
    <3> QED
      BY <1>9, <1>10, <1>11, <2>1, <3>1
  <2>2. CASE u # t
    <3>1. tickets'[u] = tickets[u] /\ attempts'[u] = attempts[u]
      BY <1>2, <1>8, <2>2
    <3>2. tickets[u] \in TicketRow /\ attempts[u] \in AttemptRow
      BY <1>8
    <3> QED
      BY <1>8, <3>1, <3>2, TrueStays
  <2> QED
    BY <2>1, <2>2
<1> QED
  BY <1>12, <1>13 DEF t

\* What a worker holds when it has just read, or written, the ticket and its attempt.
Ready(e) ==
  /\ e \in Errand
  /\ TicketTrue(e.ticket, e.seenTicket, anchors') /\ AttemptTrue(e.ticket, e.seenAttempt, anchors')
  /\ e.seenTicket.tx # 0 => tickets'[e.ticket].tx # 0
  /\ e.step = "poll" => e.seenAttempt.tx # 0

LEMMA AnchorStepKeeps ==
  ASSUME AnchorInv, AnchorsGrown,
         tickets' \in [Tickets -> TicketRow], attempts' \in [Tickets -> AttemptRow],
         \A t \in Tickets : /\ TicketTrue(t, tickets'[t], anchors')
                            /\ AttemptTrue(t, attempts'[t], anchors')
                            /\ tickets[t].tx # 0 => tickets'[t].tx # 0,
         anchoring' \in [Anchorers -> Errand \union {Free}],
         \A w \in Anchorers : anchoring'[w] \in {anchoring[w], Free} \/ Ready(anchoring'[w])
  PROVE  AnchorInv'
<1>1. AnchorsTyped'
  BY DEF AnchorsTyped, AnchorsGrown
<1>2. ASSUME NEW w \in Anchorers, anchoring'[w] # Free
      PROVE  /\ TicketTrue(anchoring'[w].ticket, anchoring'[w].seenTicket, anchors')
             /\ AttemptTrue(anchoring'[w].ticket, anchoring'[w].seenAttempt, anchors')
             /\ anchoring'[w].seenTicket.tx # 0 => tickets'[anchoring'[w].ticket].tx # 0
             /\ anchoring'[w].step = "poll" => anchoring'[w].seenAttempt.tx # 0
  <2>1. CASE Ready(anchoring'[w])
    BY <2>1 DEF Ready
  <2>2. CASE anchoring'[w] = anchoring[w]
    <3>1. /\ anchoring[w] # Free /\ anchoring[w].ticket \in Tickets
          /\ anchoring[w].seenTicket \in TicketRow /\ anchoring[w].seenAttempt \in AttemptRow
      BY <1>2, <2>2, ErrandTyped
    <3>2. /\ TicketTrue(anchoring[w].ticket, anchoring[w].seenTicket, anchors)
          /\ AttemptTrue(anchoring[w].ticket, anchoring[w].seenAttempt, anchors)
          /\ anchoring[w].seenTicket.tx # 0 => tickets[anchoring[w].ticket].tx # 0
          /\ anchoring[w].step = "poll" => anchoring[w].seenAttempt.tx # 0
      BY <3>1 DEF AnchorInv
    <3>3. /\ TicketTrue(anchoring[w].ticket, anchoring[w].seenTicket, anchors')
          /\ AttemptTrue(anchoring[w].ticket, anchoring[w].seenAttempt, anchors')
      BY <3>1, <3>2, TrueStays
    <3> QED
      BY <2>2, <3>1, <3>2, <3>3
  <2> QED
    BY <1>2, <2>1, <2>2
<1> QED
  BY <1>1, <1>2 DEF AnchorInv

LEMMA FinishKeeps ==
  ASSUME AnchorInv, AnchorsGrown, NEW w \in Anchorers, anchoring[w] # Free,
         NEW ticket \in TicketRow, NEW attempt \in AttemptRow, Finish(w, ticket, attempt),
         TicketTrue(anchoring[w].ticket, ticket, anchors'),
         AttemptTrue(anchoring[w].ticket, attempt, anchors'),
         ticket.tx # 0 \/ ticket.tx = anchoring[w].seenTicket.tx
  PROVE  AnchorInv'
<1>1. Write(w, ticket, attempt) /\ anchoring' = [anchoring EXCEPT ![w] = Free]
  BY DEF Finish
<1>2. /\ anchoring' \in [Anchorers -> Errand \union {Free}]
      /\ \A v \in Anchorers : anchoring'[v] \in {anchoring[v], Free}
  BY <1>1 DEF AnchorInv, AnchorsTyped
<1> QED
  BY <1>1, <1>2, WriteKeeps, AnchorStepKeeps

LEMMA AnchorFailsKeeps ==
  ASSUME AnchorInv, AnchorsGrown, NEW w \in Anchorers, anchoring[w] # Free, AnchorFails(w)
  PROVE  AnchorInv'
<1> DEFINE ticket == [anchoring[w].seenTicket EXCEPT !.anchor = "ANCHOR_FAILED"]
           attempt == [anchoring[w].seenAttempt EXCEPT !.status = "FAILED"]
<1>1. anchoring[w].seenTicket \in TicketRow /\ anchoring[w].seenAttempt \in AttemptRow
  BY ErrandTyped
<1>2. /\ ticket \in TicketRow /\ ticket.tx = anchoring[w].seenTicket.tx
      /\ ticket.anchor = "ANCHOR_FAILED"
  BY <1>1 DEF TicketRow, AnchorStatus
<1>3. attempt \in AttemptRow /\ attempt.tx = anchoring[w].seenAttempt.tx
  BY <1>1 DEF AttemptRow
<1>4. Finish(w, ticket, attempt)
  BY DEF AnchorFails
<1> HIDE DEF ticket, attempt
<1>5. /\ TicketTrue(anchoring[w].ticket, anchoring[w].seenTicket, anchors')
      /\ AttemptTrue(anchoring[w].ticket, anchoring[w].seenAttempt, anchors')
  BY <1>1, TrueStays DEF AnchorInv
<1>6. /\ TicketTrue(anchoring[w].ticket, ticket, anchors')
      /\ AttemptTrue(anchoring[w].ticket, attempt, anchors')
  BY <1>2, <1>3, <1>5 DEF TicketTrue, AttemptTrue
<1> QED
  BY <1>2, <1>3, <1>4, <1>6, FinishKeeps

LEMMA PostKeeps ==
  ASSUME AnchorInv, NEW w \in Anchorers, Post(w)
  PROVE  AnchorInv'
<1> DEFINE n == Len(anchors) + 1
           submitted == [status |-> "SUBMITTED", tx |-> n]
           seen == anchoring[w].seenTicket
           t == anchoring[w].ticket
           after == [anchoring[w] EXCEPT !.step = "poll", !.seenAttempt = submitted]
<1>1. anchoring[w] # Free
  BY DEF Post, Free
<1>2. /\ anchoring[w] \in Errand /\ t \in Tickets /\ seen \in TicketRow
  BY <1>1, ErrandTyped
<1>3. AnchorsGrown /\ n \in Nat /\ n # 0 /\ n \in DOMAIN anchors' /\ anchors'[n].ticket = t
  BY <1>2, SendGrows DEF Post, AnchorInv, AnchorsTyped
<1>4. Write(w, seen, submitted) /\ anchoring' = [anchoring EXCEPT ![w] = after]
  BY DEF Post
<1> HIDE DEF n
<1>5. submitted \in AttemptRow /\ submitted.tx = n
  BY <1>3 DEF AttemptRow
<1> HIDE DEF submitted
<1>6. /\ after \in Errand /\ after.step = "poll" /\ after.ticket = t
      /\ after.seenTicket = seen /\ after.seenAttempt = submitted
  BY <1>2, <1>5 DEF Errand
<1>7. AttemptTrue(t, submitted, anchors')
  BY <1>3, <1>5 DEF AttemptTrue
<1>8. TicketTrue(t, seen, anchors')
  BY <1>1, <1>2, <1>3, TrueStays DEF AnchorInv
<1>9. seen.tx # 0 => tickets[t].tx # 0
  BY <1>1 DEF AnchorInv
<1>10. /\ tickets' \in [Tickets -> TicketRow] /\ attempts' \in [Tickets -> AttemptRow]
       /\ \A u \in Tickets : /\ TicketTrue(u, tickets'[u], anchors')
                             /\ AttemptTrue(u, attempts'[u], anchors')
                             /\ tickets[u].tx # 0 => tickets'[u].tx # 0
  BY <1>1, <1>2, <1>3, <1>4, <1>5, <1>7, <1>8, WriteKeeps
<1> HIDE DEF after
<1>11. Ready(after)
  BY <1>2, <1>3, <1>5, <1>6, <1>7, <1>8, <1>9, <1>10 DEF Ready
<1>12. /\ anchoring' \in [Anchorers -> Errand \union {Free}]
       /\ \A v \in Anchorers : anchoring'[v] = IF v = w THEN after ELSE anchoring[v]
  BY <1>4, <1>6 DEF AnchorInv, AnchorsTyped
<1>13. \A v \in Anchorers : anchoring'[v] \in {anchoring[v], Free} \/ Ready(anchoring'[v])
  BY <1>11, <1>12
<1> QED
  BY <1>3, <1>10, <1>12, <1>13, AnchorStepKeeps

LEMMA PollKeeps ==
  ASSUME AnchorInv, NEW w \in Anchorers, Poll(w)
  PROVE  AnchorInv'
<1> DEFINE k == anchoring[w].seenAttempt.tx
           t == anchoring[w].ticket
           ticket == [anchor |-> "ANCHORED", tx |-> k]
           attempt == [status |-> "CONFIRMED", tx |-> k]
<1>1. anchoring[w] # Free /\ anchoring[w].step = "poll"
  BY DEF Poll, Free
<1>2. /\ anchoring[w].seenTicket \in TicketRow /\ anchoring[w].seenAttempt \in AttemptRow
      /\ t \in Tickets /\ k \in Nat
  BY <1>1, ErrandTyped DEF AttemptRow
<1>3. k # 0 /\ k \in DOMAIN anchors /\ anchors[k].ticket = t
  BY <1>1 DEF AnchorInv, AttemptTrue
<1>4. AnchorsGrown /\ UNCHANGED anchors
  BY AnchorsStay DEF Poll, AnchorInv, AnchorsTyped
<1>5. CASE Confirmed(k) /\ Finish(w, ticket, attempt)
  <2>1. ticket \in TicketRow /\ ticket.tx = k /\ attempt \in AttemptRow /\ attempt.tx = k
    BY <1>2 DEF TicketRow, AttemptRow, AnchorStatus
  <2>2. anchors[k] \in Anchor
    BY <1>3, EntryTyped DEF AnchorInv, AnchorsTyped
  <2>3. anchors[k] = [ticket |-> t, receipt |-> "CONFIRMED"]
    BY <1>3, <1>5, <2>2 DEF Confirmed, Anchor
  <2> HIDE DEF ticket, attempt
  <2>4. TicketTrue(t, ticket, anchors') /\ AttemptTrue(t, attempt, anchors')
    BY <1>3, <1>4, <2>1, <2>3 DEF TicketTrue, AttemptTrue
  <2> QED
    BY <1>1, <1>3, <1>4, <1>5, <2>1, <2>4, FinishKeeps
<1>6. CASE Finish(w, anchoring[w].seenTicket, anchoring[w].seenAttempt)
  <2>1. /\ TicketTrue(t, anchoring[w].seenTicket, anchors')
        /\ AttemptTrue(t, anchoring[w].seenAttempt, anchors')
    BY <1>1, <1>2, <1>4, TrueStays DEF AnchorInv
  <2> QED
    BY <1>1, <1>2, <1>4, <1>6, <2>1, FinishKeeps
<1>7. CASE AnchorFails(w)
  BY <1>1, <1>4, <1>7, AnchorFailsKeeps
<1> QED
  BY <1>5, <1>6, <1>7 DEF Poll

\* Steps that write neither a ticket nor an attempt.
LEMMA AnchorRowsStay ==
  ASSUME AnchorInv, AnchorsGrown, UNCHANGED <<tickets, attempts>>,
         anchoring' \in [Anchorers -> Errand \union {Free}],
         \A w \in Anchorers : anchoring'[w] \in {anchoring[w], Free} \/ Ready(anchoring'[w])
  PROVE  AnchorInv'
<1>1. \A t \in Tickets : TicketTrue(t, tickets[t], anchors') /\ AttemptTrue(t, attempts[t], anchors')
  BY TrueStays DEF AnchorInv, AnchorsTyped
<1>2. tickets' = tickets /\ attempts' = attempts
  OBVIOUS
<1>3. tickets \in [Tickets -> TicketRow] /\ attempts \in [Tickets -> AttemptRow]
  BY DEF AnchorInv, AnchorsTyped
<1> QED
  BY <1>1, <1>2, <1>3, AnchorStepKeeps

LEMMA TakeKeeps ==
  ASSUME AnchorInv, NEW w \in Anchorers, NEW t \in Tickets, TakeAnchor(w, t)
  PROVE  AnchorInv'
<1> DEFINE after == [step |-> IF attempts[t].tx = 0 THEN "post" ELSE "poll", ticket |-> t,
                     seenTicket |-> tickets[t], seenAttempt |-> attempts[t]]
<1>1. anchoring' = [anchoring EXCEPT ![w] = after] /\ UNCHANGED <<tickets, attempts, anchors>>
  BY DEF TakeAnchor
<1>2. tickets[t] \in TicketRow /\ attempts[t] \in AttemptRow /\ AnchorsGrown
  BY <1>1, AnchorsStay DEF AnchorInv, AnchorsTyped
<1>3. /\ after \in Errand /\ after.ticket = t /\ after.seenTicket = tickets[t]
      /\ after.seenAttempt = attempts[t]
      /\ after.step = "poll" => attempts[t].tx # 0
  BY <1>2 DEF Errand
<1> HIDE DEF after
<1>4. TicketTrue(t, tickets[t], anchors) /\ AttemptTrue(t, attempts[t], anchors)
  BY DEF AnchorInv
<1>5. Ready(after)
  BY <1>1, <1>3, <1>4 DEF Ready
<1>6. /\ anchoring' \in [Anchorers -> Errand \union {Free}]
      /\ \A v \in Anchorers : anchoring'[v] = IF v = w THEN after ELSE anchoring[v]
  BY <1>1, <1>3 DEF AnchorInv, AnchorsTyped
<1>7. \A v \in Anchorers : anchoring'[v] \in {anchoring[v], Free} \/ Ready(anchoring'[v])
  BY <1>5, <1>6
<1> QED
  BY <1>1, <1>2, <1>6, <1>7, AnchorRowsStay

LEMMA RequestAnchorKeeps ==
  ASSUME AnchorInv, NEW t \in Tickets, RequestAnchor(t)
  PROVE  AnchorInv'
<1> DEFINE r == [tickets[t] EXCEPT !.anchor = "ANCHOR_PENDING"]
           a == [attempts[t] EXCEPT !.status = "PENDING"]
<1>1. /\ tickets' = [tickets EXCEPT ![t] = r] /\ attempts' = [attempts EXCEPT ![t] = a]
      /\ UNCHANGED <<anchors, anchoring>>
  BY DEF RequestAnchor
<1>2. tickets[t] \in TicketRow /\ attempts[t] \in AttemptRow /\ AnchorsGrown
  BY <1>1, AnchorsStay DEF AnchorInv, AnchorsTyped
<1>3. /\ r \in TicketRow /\ r.tx = tickets[t].tx /\ r.anchor = "ANCHOR_PENDING"
      /\ a \in AttemptRow /\ a.tx = attempts[t].tx
  BY <1>2 DEF TicketRow, AttemptRow, AnchorStatus
<1> HIDE DEF r, a
<1>4. /\ tickets \in [Tickets -> TicketRow] /\ attempts \in [Tickets -> AttemptRow]
      /\ anchoring \in [Anchorers -> Errand \union {Free}]
      /\ \A u \in Tickets : TicketTrue(u, tickets[u], anchors) /\ AttemptTrue(u, attempts[u], anchors)
  BY DEF AnchorInv, AnchorsTyped
<1>5. /\ tickets' \in [Tickets -> TicketRow] /\ attempts' \in [Tickets -> AttemptRow]
      /\ \A u \in Tickets : /\ tickets'[u] = IF u = t THEN r ELSE tickets[u]
                            /\ attempts'[u] = IF u = t THEN a ELSE attempts[u]
  BY <1>1, <1>3, <1>4
<1>6. \A u \in Tickets : /\ TicketTrue(u, tickets'[u], anchors')
                         /\ AttemptTrue(u, attempts'[u], anchors')
                         /\ tickets[u].tx # 0 => tickets'[u].tx # 0
  BY <1>1, <1>3, <1>4, <1>5 DEF TicketTrue, AttemptTrue
<1>7. anchoring' = anchoring
  BY <1>1
<1> QED
  BY <1>2, <1>4, <1>5, <1>6, <1>7, AnchorStepKeeps

LEMMA AnchorNextKeeps ==
  ASSUME AnchorInv, AnchorNext \/ UNCHANGED anchorVars
  PROVE  AnchorInv'
<1>1. ASSUME NEW w \in Anchorers, PostUnanswered(w)
      PROVE  AnchorInv'
  <2>1. anchoring[w] # Free /\ AnchorFails(w)
    BY <1>1 DEF PostUnanswered, Free
  <2>2. AnchorsGrown
    BY <1>1, <2>1, ErrandTyped, SendGrows, AnchorsStay DEF PostUnanswered, AnchorInv, AnchorsTyped
  <2> QED
    BY <2>1, <2>2, AnchorFailsKeeps
<1>2. ASSUME NEW w \in Anchorers, PollFails(w)
      PROVE  AnchorInv'
  <2>1. anchoring[w] # Free /\ AnchorFails(w) /\ AnchorsGrown
    BY <1>2, AnchorsStay DEF PollFails, Free, AnchorInv, AnchorsTyped
  <2> QED
    BY <2>1, AnchorFailsKeeps
<1>3. ASSUME NEW w \in Anchorers, AnchorWorkerDies(w)
      PROVE  AnchorInv'
  <2>1. AnchorsGrown /\ UNCHANGED <<tickets, attempts>>
    BY <1>3, ErrandTyped, SendGrows, AnchorsStay DEF AnchorWorkerDies, AnchorInv, AnchorsTyped
  <2>2. /\ anchoring' \in [Anchorers -> Errand \union {Free}]
        /\ \A v \in Anchorers : anchoring'[v] \in {anchoring[v], Free}
    BY <1>3 DEF AnchorWorkerDies, AnchorInv, AnchorsTyped
  <2> QED
    BY <2>1, <2>2, AnchorRowsStay
<1>4. ASSUME AnchorsGrown, UNCHANGED <<tickets, attempts, anchoring>>
      PROVE  AnchorInv'
  <2>1. anchoring' = anchoring /\ anchoring \in [Anchorers -> Errand \union {Free}]
    BY <1>4 DEF AnchorInv, AnchorsTyped
  <2> QED
    BY <1>4, <2>1, AnchorRowsStay
<1>5. ASSUME NEW k \in DOMAIN anchors, MineAnchor(k)
      PROVE  AnchorInv'
  BY <1>4, <1>5, MineGrows DEF MineAnchor, AnchorInv, AnchorsTyped
<1>6. CASE UNCHANGED anchorVars
  BY <1>4, <1>6, AnchorsStay DEF anchorVars, AnchorInv, AnchorsTyped
<1>7. CASE AnchorStep
  BY <1>1, <1>2, <1>3, <1>5, <1>7, RequestAnchorKeeps, PostKeeps, PollKeeps DEF AnchorStep
<1> QED
  <2>1. ASSUME NEW w \in Workers, StartAnchor(w)
        PROVE  AnchorInv'
    <3>1. PICK t \in Tickets : TakeAnchor(w, t)
      BY <2>1 DEF StartAnchor
    <3>2. CASE w \in Anchorers
      BY <3>1, <3>2, TakeKeeps
    <3>3. CASE w \notin Anchorers
      <4>1. anchoring' = anchoring /\ UNCHANGED <<tickets, attempts, anchors>>
        BY <3>1, <3>3 DEF TakeAnchor, AnchorInv, AnchorsTyped
      <4> QED
        BY <1>4, <4>1, AnchorsStay DEF AnchorInv, AnchorsTyped
    <3> QED
      BY <3>2, <3>3
  <2> QED
    BY <1>6, <1>7, <2>1 DEF AnchorNext
--------------------------------------------------------------------------------
(*                         from the job to the ticket                          *)

Proven(t) == t \in DOMAIN creates /\ creates[t].state = "TERMINAL" /\ creates[t].delivered

\* Nothing that leads to a ticket, or away from it, is about an unproven job.
CertifiedOnly ==
  /\ \A t \in Tickets : tickets[t] # Unissued \/ attempts[t].status # "NONE" => Proven(t)
  /\ \A w \in Anchorers : anchoring[w] # Free => Proven(anchoring[w].ticket)
  /\ promoting # Nobody => Proven(promoting)

EvidenceInv == JobInv /\ AnchorInv /\ CertifiedOnly

LEMMA EvidenceStarts == Init => EvidenceInv
<1> SUFFICES ASSUME Init PROVE AnchorInv /\ CertifiedOnly
  BY JobStarts DEF Init, EvidenceInv
<1>1. /\ tickets = [t \in Tickets |-> Unissued] /\ attempts = [t \in Tickets |-> NoAttempt]
      /\ anchors = <<>> /\ anchoring = [w \in Anchorers |-> Free] /\ promoting = Nobody
  BY DEF Init, AnchorInit
<1>2. /\ Unissued \in TicketRow /\ Unissued.tx = 0 /\ Unissued.anchor = "UNISSUED"
      /\ NoAttempt \in AttemptRow /\ NoAttempt.tx = 0 /\ NoAttempt.status = "NONE"
  BY DEF TicketRow, AttemptRow, Unissued, NoAttempt
<1>3. AnchorsTyped
  BY <1>1, <1>2 DEF AnchorsTyped
<1>4. AnchorInv
  BY <1>1, <1>2, <1>3 DEF AnchorInv, TicketTrue, AttemptTrue
<1> QED
  BY <1>1, <1>2, <1>4 DEF CertifiedOnly

LEMMA EvidenceMeans == EvidenceInv => CertifiedIsProven
<1> SUFFICES ASSUME EvidenceInv PROVE CertifiedIsProven
  OBVIOUS
<1>1. TicketsAreOnChain
  BY DEF EvidenceInv, AnchorInv, TicketTrue, TicketsAreOnChain
<1> QED
  BY <1>1 DEF EvidenceInv, CertifiedOnly, Proven, CertifiedIsProven

LEMMA ProvenStays ==
  ASSUME Grown, NEW t, Proven(t)
  PROVE  t \in DOMAIN creates' /\ creates'[t].state = "TERMINAL" /\ creates'[t].delivered
BY DEF Grown, Proven, Closed

\* A worker writes only the ticket it took.
LEMMA OnlyItsTicket ==
  ASSUME AnchorInv, NEW w \in Anchorers, NEW ticket, NEW attempt, Write(w, ticket, attempt),
         NEW t \in Tickets, t # anchoring[w].ticket
  PROVE  tickets'[t] = tickets[t] /\ attempts'[t] = attempts[t]
BY DEF Write, AnchorInv, AnchorsTyped

\* A step of an anchoring worker leaves its ticket's proof where it was.
LEMMA ErrandCertified ==
  ASSUME EvidenceInv, NEW w \in Anchorers, anchoring[w] # Free, UNCHANGED <<creates, promoting>>,
         \/ UNCHANGED <<tickets, attempts>>
         \/ \E ticket, attempt : Write(w, ticket, attempt),
         \A v \in Anchorers : \/ anchoring'[v] \in {anchoring[v], Free}
                              \/ anchoring'[v].ticket = anchoring[v].ticket /\ v = w
  PROVE  CertifiedOnly'
<1>1. Proven(anchoring[w].ticket)
  BY DEF EvidenceInv, CertifiedOnly
<1>2. \A t \in Tickets : t # anchoring[w].ticket => tickets'[t] = tickets[t] /\ attempts'[t] = attempts[t]
  BY OnlyItsTicket DEF EvidenceInv
<1>3. \A t : Proven(t)' = Proven(t)
  BY DEF Proven
<1>4. \A v \in Anchorers : anchoring'[v] # Free => Proven(anchoring'[v].ticket)
  BY <1>1 DEF EvidenceInv, CertifiedOnly
<1>5. \A t \in Tickets : tickets'[t] # Unissued \/ attempts'[t].status # "NONE" => Proven(t)
  BY <1>1, <1>2 DEF EvidenceInv, CertifiedOnly
<1> QED
  BY <1>3, <1>4, <1>5 DEF EvidenceInv, CertifiedOnly, Proven

LEMMA AnchorCertified ==
  ASSUME EvidenceInv, AnchorNext, UNCHANGED <<jobVars, promoting>>
  PROVE  CertifiedOnly'
<1>1. UNCHANGED <<creates, promoting>>
  BY DEF jobVars
<1>2. \A t : Proven(t)' = Proven(t)
  BY <1>1 DEF Proven
<1>3. anchoring \in [Anchorers -> Errand \union {Free}]
  BY DEF EvidenceInv, AnchorInv, AnchorsTyped
<1>4. CertifiedOnly
  BY DEF EvidenceInv
<1>5. ASSUME NEW w \in Anchorers, NEW ticket, NEW attempt, Finish(w, ticket, attempt),
             anchoring[w] # Free
      PROVE  CertifiedOnly'
  <2>1. /\ Write(w, ticket, attempt)
        /\ \A v \in Anchorers : anchoring'[v] \in {anchoring[v], Free}
    BY <1>3, <1>5 DEF Finish
  <2> QED
    BY <1>1, <1>5, <2>1, ErrandCertified
<1>6. ASSUME NEW w \in Anchorers, Post(w)
      PROVE  CertifiedOnly'
  <2> DEFINE submitted == [status |-> "SUBMITTED", tx |-> Len(anchors) + 1]
             after == [anchoring[w] EXCEPT !.step = "poll", !.seenAttempt = submitted]
  <2>1. anchoring[w] # Free /\ anchoring[w] \in Errand
    BY <1>3, <1>6 DEF Post, Free
  <2>2. anchoring' = [anchoring EXCEPT ![w] = after]
        /\ Write(w, anchoring[w].seenTicket, submitted)
    BY <1>6 DEF Post
  <2>3. after.ticket = anchoring[w].ticket
    BY <2>1 DEF Errand
  <2> HIDE DEF after
  <2>4. \A v \in Anchorers : anchoring'[v] = IF v = w THEN after ELSE anchoring[v]
    BY <1>3, <2>2
  <2>5. \A v \in Anchorers : \/ anchoring'[v] \in {anchoring[v], Free}
                             \/ anchoring'[v].ticket = anchoring[v].ticket /\ v = w
    BY <2>3, <2>4
  <2> QED
    BY <1>1, <2>1, <2>2, <2>5, ErrandCertified
<1>7. ASSUME NEW w \in Anchorers, PostUnanswered(w) \/ Poll(w) \/ PollFails(w)
      PROVE  CertifiedOnly'
  <2>1. anchoring[w] # Free
    BY <1>7 DEF PostUnanswered, Poll, PollFails, Free
  <2>2. \E ticket, attempt : Finish(w, ticket, attempt)
    BY <1>7 DEF PostUnanswered, Poll, PollFails, AnchorFails
  <2> QED
    BY <1>5, <2>1, <2>2
<1>8. ASSUME NEW w \in Anchorers, AnchorWorkerDies(w)
      PROVE  CertifiedOnly'
  <2>1. /\ anchoring[w] # Free /\ UNCHANGED <<tickets, attempts>>
        /\ \A v \in Anchorers : anchoring'[v] \in {anchoring[v], Free}
    BY <1>3, <1>8 DEF AnchorWorkerDies
  <2> QED
    BY <1>1, <2>1, ErrandCertified
<1>9. ASSUME NEW t \in Tickets, RequestAnchor(t)
      PROVE  CertifiedOnly'
  <2>1. Proven(t)
    <3>1. tickets[t].anchor = "LOCAL_ONLY"
      BY <1>9 DEF RequestAnchor
    <3> QED
      BY <1>4, <3>1 DEF CertifiedOnly, Unissued
  <2>2. anchoring' = anchoring
    BY <1>9 DEF RequestAnchor
  <2>3. \A u \in Tickets : u # t => tickets'[u] = tickets[u] /\ attempts'[u] = attempts[u]
    BY <1>9 DEF RequestAnchor, EvidenceInv, AnchorInv, AnchorsTyped
  <2>4. \A u \in Tickets : tickets'[u] # Unissued \/ attempts'[u].status # "NONE" => Proven(u)
    BY <1>4, <2>1, <2>3 DEF CertifiedOnly
  <2> QED
    BY <1>1, <1>2, <1>4, <2>2, <2>4 DEF CertifiedOnly
<1>10. ASSUME NEW w, NEW t \in Tickets, TakeAnchor(w, t)
       PROVE  CertifiedOnly'
  <2>1. Proven(t)
    BY <1>4, <1>10 DEF TakeAnchor, CertifiedOnly
  <2>2. UNCHANGED <<tickets, attempts>>
    BY <1>10 DEF TakeAnchor
  <2>3. \A v \in Anchorers : anchoring'[v] = anchoring[v] \/ anchoring'[v].ticket = t
    BY <1>3, <1>10 DEF TakeAnchor
  <2> QED
    BY <1>1, <1>2, <1>4, <2>1, <2>2, <2>3 DEF CertifiedOnly
<1>11. ASSUME NEW k \in DOMAIN anchors, MineAnchor(k)
       PROVE  CertifiedOnly'
  BY <1>1, <1>2, <1>4, <1>11 DEF MineAnchor, CertifiedOnly
<1> QED
  BY <1>6, <1>7, <1>8, <1>9, <1>10, <1>11 DEF AnchorNext, AnchorStep, StartAnchor

LEMMA ReconstructCertified ==
  ASSUME EvidenceInv, NEW i \in DOMAIN jobs, Reconstruct(i)
  PROVE  CertifiedOnly'
<1>1. /\ UNCHANGED <<creates, tickets, attempts, anchoring>>
      /\ promoting' = jobs[i].id
  BY DEF Reconstruct, jobVars, anchorVars
<1>2. Proven(jobs[i].id)
  <2>1. /\ jobs[i].id # 0 /\ creates[jobs[i].id].state = "TERMINAL"
        /\ creates[jobs[i].id].delivered
    BY DEF Reconstruct, CertifiedSource
  <2>2. jobs[i].id \in DOMAIN creates
    BY <2>1 DEF EvidenceInv, JobInv, Sound
  <2> QED
    BY <2>1, <2>2 DEF Proven
<1> QED
  BY <1>1, <1>2 DEF EvidenceInv, CertifiedOnly, Proven

LEMMA PromoteKeeps ==
  ASSUME EvidenceInv, Promote
  PROVE  AnchorInv' /\ CertifiedOnly'
<1>1. UNCHANGED <<creates, attempts, anchors, anchoring>> /\ promoting # Nobody /\ promoting' = Nobody
  BY DEF Promote, jobVars
<1>2. AnchorInv /\ CertifiedOnly /\ Proven(promoting)
  BY <1>1 DEF EvidenceInv, CertifiedOnly
<1>3. /\ tickets \in [Tickets -> TicketRow] /\ attempts \in [Tickets -> AttemptRow]
      /\ anchoring \in [Anchorers -> Errand \union {Free}] /\ AnchorsGrown
  BY <1>1, <1>2, AnchorsStay DEF AnchorInv, AnchorsTyped
<1>4. \A t \in Tickets : \/ tickets'[t] = tickets[t]
                         \/ t = promoting /\ tickets[t] = Unissued /\ tickets'[t] = Issued
  BY <1>3 DEF Promote
<1>5. /\ Issued \in TicketRow /\ Issued.tx = 0 /\ Issued.anchor = "LOCAL_ONLY"
      /\ Unissued.tx = 0
  BY DEF Issued, Unissued, TicketRow, AnchorStatus
<1>6. tickets' \in [Tickets -> TicketRow]
  <2>1. \/ tickets' = tickets
        \/ tickets' = [tickets EXCEPT ![promoting] = Issued]
    BY DEF Promote
  <2> QED
    BY <1>3, <1>5, <2>1
<1>7. ASSUME NEW t \in Tickets
      PROVE  /\ TicketTrue(t, tickets'[t], anchors') /\ AttemptTrue(t, attempts'[t], anchors')
             /\ tickets[t].tx # 0 => tickets'[t].tx # 0
  BY <1>1, <1>2, <1>4, <1>5 DEF AnchorInv, TicketTrue
<1>8. AnchorInv'
  <2>1. attempts' = attempts /\ anchoring' = anchoring
    BY <1>1
  <2> QED
    BY <1>2, <1>3, <1>6, <1>7, <2>1, AnchorStepKeeps
<1>9. CertifiedOnly'
  BY <1>1, <1>2, <1>4 DEF CertifiedOnly, Proven
<1> QED
  BY <1>8, <1>9

LEMMA EvidenceKept == EvidenceInv /\ [Next]_vars => EvidenceInv'
<1> SUFFICES ASSUME EvidenceInv, [Next]_vars PROVE EvidenceInv'
  OBVIOUS
<1>1. JobInv' /\ Grown
  BY StepOfJobs, JobNextKeeps DEF EvidenceInv
<1>2. CASE UNCHANGED <<anchorVars, promoting>>
  <2>1. AnchorInv'
    BY <1>2, AnchorNextKeeps DEF EvidenceInv
  <2>2. CertifiedOnly'
    BY <1>1, <1>2, ProvenStays DEF EvidenceInv, CertifiedOnly, Proven, anchorVars
  <2> QED
    BY <1>1, <2>1, <2>2 DEF EvidenceInv
<1>3. CASE AnchorNext /\ UNCHANGED <<jobVars, promoting>>
  BY <1>1, <1>3, AnchorNextKeeps, AnchorCertified DEF EvidenceInv
<1>4. ASSUME NEW i \in DOMAIN jobs, Reconstruct(i)
      PROVE  EvidenceInv'
  <2>1. UNCHANGED anchorVars
    BY <1>4 DEF Reconstruct
  <2> QED
    BY <1>1, <1>4, <2>1, AnchorNextKeeps, ReconstructCertified DEF EvidenceInv
<1>5. CASE Promote
  BY <1>1, <1>5, PromoteKeeps DEF EvidenceInv
<1> QED
  BY <1>2, <1>3, <1>4, <1>5 DEF Next, vars

(* A certified ticket exists only for a job the chain closed as served and     *)
(* whose answer was delivered, and it is ANCHORED only by the transaction that *)
(* anchored it, whatever stale copies of the job, of the ticket and of its     *)
(* attempt several workers write over each other.                              *)
THEOREM CertifiedIsProvenHolds == Spec => []CertifiedIsProven
BY EvidenceStarts, EvidenceKept, EvidenceMeans, PTL DEF Spec
================================================================================
