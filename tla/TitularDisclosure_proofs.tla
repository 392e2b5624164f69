------------------------ MODULE TitularDisclosure_proofs ------------------------
(* Theorems about the disclosure of a ticket, for any number of receipts,     *)
(* browsers and sessions: each recorded fact rests on the ones before it, a   *)
(* judged presentation is judged for good, and the limits of the receipt page *)
(* hold however long its requests wait for each other.                        *)
EXTENDS TitularDisclosure, FiniteSetTheorems, TLAPS

(* The facts of the agent's side have no session, those of the page have one.  *)
PageKinds == {"PRESENCE", "OPENED", "VERIFIED", "ACKNOWLEDGED"}

Sound(e) ==
  /\ e.at \in Nat /\ e.at <= clock
  /\ e.session \in Nat
  /\ e.type \in PageKinds <=> e.session # 0

OnePerKey(facts) == \A e, f \in facts : Key(e) = Key(f) => e = f

Request == [op: {"challenge", "read", "acknowledge"}, stage: {"waiting", "admitted"},
            receipt: Receipts, session: Nat, now: Nat]

StateTyped ==
  /\ clock \in Nat
  /\ sent \subseteq Receipts
  /\ grants \in Seq([receipt: Receipts, browser: Browsers, exp: Nat])
  /\ browsing \in [Browsers -> Request \union {NoRequest}]

FactsAreSound ==
  /\ \A e \in events : Sound(e)
  /\ OnePerKey(events)
  /\ \A e \in events : e.type = "PRESENCE" => e.session <= Len(grants)

(* A transaction in flight holds its keys: what has one of them was committed  *)
(* before the transaction stamped its own fact.                                *)
WritingIsSound ==
  /\ \A tx \in writing : OnePerKey(tx) /\ \A e \in tx : Sound(e) /\ e.session = 0
  /\ \A tx, ty \in writing : \A e \in tx, f \in ty : Key(e) = Key(f) => tx = ty
  /\ \A tx \in writing : \A f \in tx, g \in events : Key(f) = Key(g) => g.at <= f.at

(* What a fact of a given kind needs before it.                                *)
Needs ==
  [ACKNOWLEDGED |-> "OPENED", OPENED |-> "PRESENCE", VERIFIED |-> "PRESENCE",
   PRESENTED |-> "DELIVERED", DELIVERED |-> "ISSUED"]

Supported(e, facts) ==
  \A kind \in DOMAIN Needs :
    e.type = kind =>
      \E f \in facts : /\ f.type = Needs[kind] /\ f.receipt = e.receipt
                       /\ f.session = e.session /\ f.at <= e.at

GrantsAreProven ==
  \A s \in DOMAIN grants :
    \E f \in events : f.type = "PRESENCE" /\ f.receipt = grants[s].receipt /\ f.session = s

EarnedInv ==
  /\ StateTyped /\ FactsAreSound /\ WritingIsSound /\ GrantsAreProven
  /\ \A e \in events : Supported(e, events)
  /\ \A tx \in writing : \A e \in tx : Supported(e, events \union tx)

LEMMA EarnedStarts == DisclosureInit => EarnedInv
BY DEF DisclosureInit, EarnedInv, StateTyped, FactsAreSound, WritingIsSound, GrantsAreProven,
       OnePerKey, Request, NoRequest

LEMMA EarnedMeans == EarnedInv => DisclosureIsEarned
BY DEF EarnedInv, Supported, Needs, DisclosureIsEarned, RestsOn

LEMMA KeyMeans ==
  ASSUME NEW e, NEW f, Sound(e), Sound(f), Key(e) = Key(f)
  PROVE  /\ e.type = f.type
         /\ e.session = f.session
         /\ e.session = 0 => e.receipt = f.receipt
<1>1. e.type = f.type
  BY DEF Key
<1>2. e.session = 0 <=> f.session = 0
  BY <1>1 DEF Sound
<1> QED
  BY <1>1, <1>2 DEF Key

--------------------------------------------------------------------------------
(*                       the facts that are committed                         *)

(* Facts that are sound and supported, and whose keys are either free or were  *)
(* taken earlier, leave the record sound and supported.                        *)
LEMMA AddedKeeps ==
  ASSUME EarnedInv, NEW facts, UNCHANGED clock,
         OnePerKey(facts), \A e \in facts : Sound(e),
         \A e \in facts, g \in events : Key(e) = Key(g) => g.at <= e.at,
         \A e \in facts : Supported(e, events \union {f \in facts : f.session = 0}),
         \A e \in facts : e.type = "PRESENCE" => e.session <= Len(grants'),
         Len(grants) <= Len(grants'), Len(grants) \in Nat, Len(grants') \in Nat,
         events' = Added(facts)
  PROVE  /\ events \subseteq events'
         /\ FactsAreSound'
         /\ \A e \in events' : Supported(e, events')
<1>1. /\ events \subseteq events' /\ events' \subseteq events \union facts
      /\ \A e \in facts : e \in events' \/ \E g \in events : Key(e) = Key(g)
      /\ \A e \in events' : e \notin events => \A g \in events : Key(e) # Key(g)
  BY DEF Added
<1>2. \A e : Sound(e)' <=> Sound(e)
  BY DEF Sound
<1>3. \A e \in events' : Sound(e)
  BY <1>1 DEF EarnedInv, FactsAreSound
<1>4. OnePerKey(events')
  BY <1>1 DEF EarnedInv, FactsAreSound, OnePerKey
<1>5. \A e \in events' : e.type = "PRESENCE" => e.session <= Len(grants')
  BY <1>1, <1>3 DEF EarnedInv, FactsAreSound, Sound
<1>6. FactsAreSound'
  BY <1>2, <1>3, <1>4, <1>5 DEF FactsAreSound, OnePerKey, Key
<1>7. ASSUME NEW e \in events', NEW kind \in DOMAIN Needs, e.type = kind
      PROVE  \E f \in events' : /\ f.type = Needs[kind] /\ f.receipt = e.receipt
                                /\ f.session = e.session /\ f.at <= e.at
  <2>1. PICK f \in events \union {g \in facts : g.session = 0} : /\ f.type = Needs[kind] /\ f.receipt = e.receipt
                                         /\ f.session = e.session /\ f.at <= e.at
    BY <1>1, <1>7 DEF EarnedInv, Supported
  <2>2. CASE f \in events'
    BY <2>1, <2>2
  <2>3. CASE f \notin events'
    <3>1. f \in facts /\ f.session = 0 /\ f \notin events
      BY <1>1, <2>1, <2>3
    <3>2. PICK g \in events : Key(f) = Key(g)
      BY <1>1, <2>3, <3>1
    <3>3. Sound(f) /\ Sound(g) /\ Sound(e) /\ g.at <= f.at
      BY <1>3, <3>1, <3>2 DEF EarnedInv, FactsAreSound
    <3>4. g.type = f.type /\ g.session = f.session /\ (f.session = 0 => g.receipt = f.receipt)
      BY <3>2, <3>3, KeyMeans
    <3> QED
      BY <1>1, <2>1, <3>2, <3>3, <3>4 DEF Sound
  <2> QED
    BY <2>2, <2>3
<1>8. \A e \in events' : Supported(e, events')
  BY <1>7 DEF Supported
<1> QED
  BY <1>1, <1>6, <1>8
(* What an insert leaves of the other transactions: it had to wait for them.   *)
LEMMA UnblockedKeeps ==
  ASSUME EarnedInv, NEW facts, UNCHANGED <<clock, writing>>,
         Unblocked(facts), events' = Added(facts)
  PROVE  /\ WritingIsSound'
         /\ \A tx \in writing' : \A e \in tx : Supported(e, events' \union tx)
<1>1. /\ events \subseteq events' /\ events' \subseteq events \union facts
  BY DEF Added
<1>2. \A tx \in writing : \A f \in tx, g \in events' : Key(f) = Key(g) => g.at <= f.at
  BY <1>1 DEF Unblocked, EarnedInv, WritingIsSound
<1>3. WritingIsSound'
  BY <1>2 DEF EarnedInv, WritingIsSound, OnePerKey, Sound, Key
<1>4. \A tx \in writing : \A e \in tx : Supported(e, events' \union tx)
  BY <1>1 DEF EarnedInv, Supported
<1> QED
  BY <1>3, <1>4

(* An insert of facts of this instant, supported by what is on record.         *)
LEMMA InsertKeeps ==
  ASSUME EarnedInv, NEW facts, UNCHANGED <<clock, writing>>, Insert(facts),
         OnePerKey(facts), \A e \in facts : Sound(e) /\ e.at = clock,
         \A e \in facts : Supported(e, events \union {f \in facts : f.session = 0}),
         \A e \in facts : e.type = "PRESENCE" => e.session <= Len(grants'),
         Len(grants) <= Len(grants'), Len(grants) \in Nat, Len(grants') \in Nat,
         StateTyped', GrantsAreProven'
  PROVE  EarnedInv'
<1>1. \A e \in facts, g \in events : Key(e) = Key(g) => g.at <= e.at
  BY DEF EarnedInv, FactsAreSound, Sound
<1>2. FactsAreSound' /\ \A e \in events' : Supported(e, events')
  BY <1>1, AddedKeeps DEF Insert
<1>3. WritingIsSound' /\ \A tx \in writing' : \A e \in tx : Supported(e, events' \union tx)
  BY UnblockedKeeps DEF Insert
<1> QED
  BY <1>2, <1>3 DEF EarnedInv

(* A transaction stamps facts of this instant, whose keys no other one holds.  *)
LEMMA StampKeeps ==
  ASSUME EarnedInv, NEW facts, Stamp(facts), UNCHANGED <<clock, events, grants>>,
         OnePerKey(facts), \A e \in facts : Sound(e) /\ e.at = clock /\ e.session = 0,
         \A e \in facts : Supported(e, events \union facts), StateTyped'
  PROVE  EarnedInv'
<1>1. writing' = writing \union {facts}
  BY DEF Stamp
<1>2. FactsAreSound'
  BY DEF EarnedInv, FactsAreSound, Sound, OnePerKey, Key
<1>3. GrantsAreProven'
  BY DEF EarnedInv, GrantsAreProven
<1>4. \A f \in facts, g \in events : Key(f) = Key(g) => g.at <= f.at
  BY DEF EarnedInv, FactsAreSound, Sound
<1>5. \A tx \in writing : \A e \in facts, f \in tx : Key(e) # Key(f)
  BY DEF Stamp, Unblocked
<1>6. WritingIsSound'
  <2>1. \A e : Sound(e)' <=> Sound(e)
    BY DEF Sound
  <2>2. \A tx \in writing' : OnePerKey(tx) /\ \A e \in tx : Sound(e) /\ e.session = 0
    BY <1>1 DEF EarnedInv, WritingIsSound
  <2>3. \A tx, ty \in writing' : \A e \in tx, f \in ty : Key(e) = Key(f) => tx = ty
    BY <1>1, <1>5 DEF EarnedInv, WritingIsSound
  <2>4. \A tx \in writing' : \A f \in tx, g \in events : Key(f) = Key(g) => g.at <= f.at
    BY <1>1, <1>4 DEF EarnedInv, WritingIsSound
  <2> QED
    BY <2>1, <2>2, <2>3, <2>4 DEF WritingIsSound, OnePerKey, Key
<1> QED
  BY <1>1, <1>2, <1>3, <1>6 DEF EarnedInv

--------------------------------------------------------------------------------
(*                              the agent's side                              *)

LEMMA CommitKeeps ==
  ASSUME EarnedInv, NEW tx \in writing, CommitFacts(tx)
  PROVE  EarnedInv'
<1>1. /\ events' = Added(tx) /\ writing' = writing \ {tx}
      /\ UNCHANGED <<clock, sent, accesses, grants, browsing>>
  BY DEF CommitFacts
<1>2. Len(grants) \in Nat
  BY DEF EarnedInv, StateTyped
<1>3. /\ OnePerKey(tx) /\ \A e \in tx : Sound(e) /\ e.session = 0 /\ e.type # "PRESENCE"
      /\ \A e \in tx, g \in events : Key(e) = Key(g) => g.at <= e.at
      /\ {f \in tx : f.session = 0} = tx
  BY DEF EarnedInv, WritingIsSound, Sound, PageKinds
<1>4. \A e \in tx : Supported(e, events \union {f \in tx : f.session = 0})
  BY <1>3 DEF EarnedInv
<1>5. events \subseteq events' /\ FactsAreSound' /\ \A e \in events' : Supported(e, events')
  BY <1>1, <1>2, <1>3, <1>4, AddedKeeps
<1>6. events' \subseteq events \union tx
  BY <1>1 DEF Added
<1>7. WritingIsSound'
  <2>1. \A e : Sound(e)' <=> Sound(e)
    BY <1>1 DEF Sound
  <2>2. \A ty \in writing' : \A f \in ty, g \in events' : Key(f) = Key(g) => g.at <= f.at
    BY <1>1, <1>6 DEF EarnedInv, WritingIsSound
  <2> QED
    BY <1>1, <2>1, <2>2 DEF EarnedInv, WritingIsSound, OnePerKey, Key
<1>8. \A ty \in writing' : \A e \in ty : Supported(e, events' \union ty)
  BY <1>1, <1>5 DEF EarnedInv, Supported
<1>9. StateTyped' /\ GrantsAreProven'
  BY <1>1, <1>5 DEF EarnedInv, StateTyped, GrantsAreProven
<1> QED
  BY <1>5, <1>7, <1>8, <1>9 DEF EarnedInv

LEMMA RollBackKeeps ==
  ASSUME EarnedInv, NEW tx \in writing, RollBack(tx)
  PROVE  EarnedInv'
<1>1. writing' \subseteq writing /\ UNCHANGED <<clock, events, sent, accesses, grants, browsing>>
  BY DEF RollBack
<1>2. \A e : Sound(e)' <=> Sound(e)
  BY <1>1 DEF Sound
<1>3. StateTyped' /\ FactsAreSound' /\ GrantsAreProven'
  BY <1>1, <1>2 DEF EarnedInv, StateTyped, FactsAreSound, GrantsAreProven, OnePerKey, Key
<1>4. WritingIsSound'
  BY <1>1, <1>2 DEF EarnedInv, WritingIsSound, OnePerKey, Key
<1> QED
  BY <1>1, <1>3, <1>4 DEF EarnedInv

LEMMA FactMeans ==
  ASSUME EarnedInv, NEW type, NEW t, NEW s \in Nat, type \in PageKinds <=> s # 0
  PROVE  /\ Sound(FactOf(type, t, s)) /\ FactOf(type, t, s).at = clock
         /\ FactOf(type, t, s).type = type /\ FactOf(type, t, s).receipt = t
         /\ FactOf(type, t, s).session = s
BY DEF EarnedInv, StateTyped, FactOf, Sound

LEMMA DeliveryKeeps ==
  ASSUME EarnedInv, NEW t \in sent, RecordDelivery(t)
  PROVE  EarnedInv'
<1> DEFINE issued == FactOf("ISSUED", t, 0)
           delivered == FactOf("DELIVERED", t, 0)
<1>1. /\ Sound(issued) /\ issued.at = clock /\ issued.type = "ISSUED"
      /\ issued.receipt = t /\ issued.session = 0
  BY FactMeans DEF PageKinds
<1>2. /\ Sound(delivered) /\ delivered.at = clock /\ delivered.type = "DELIVERED"
      /\ delivered.receipt = t /\ delivered.session = 0
  BY FactMeans DEF PageKinds
<1>3. StateTyped'
  BY DEF RecordDelivery, EarnedInv, StateTyped
<1>4. OnePerKey({issued, delivered})
  BY <1>1, <1>2, KeyMeans DEF OnePerKey
<1>5. \A e \in {issued, delivered} : Supported(e, events \union {issued, delivered})
  <2> HIDE DEF issued, delivered
  <2>1. clock <= clock
    BY DEF EarnedInv, StateTyped
  <2> QED
    BY <1>1, <1>2, <2>1 DEF Supported, Needs
<1>6. CASE Stamp({issued, delivered})
  <2> HIDE DEF issued, delivered
  <2> QED
    BY <1>1, <1>2, <1>3, <1>4, <1>5, <1>6, StampKeeps DEF RecordDelivery
<1>7. CASE UNCHANGED writing
  BY <1>3, <1>7 DEF RecordDelivery, EarnedInv, FactsAreSound, WritingIsSound, GrantsAreProven,
                    OnePerKey, Sound, Key
<1> QED
  BY <1>6, <1>7 DEF RecordDelivery
LEMMA PresentKeeps ==
  ASSUME EarnedInv, NEW t \in Receipts, NEW sameURL \in BOOLEAN, Present(t, sameURL)
  PROVE  EarnedInv'
<1>0. /\ StateTyped' /\ UNCHANGED <<clock, grants>>
      /\ Len(grants) \in Nat /\ clock \in Nat
  BY DEF Present, EarnedInv, StateTyped
<1>1. CASE Rejected(t, sameURL) = {} /\ Stamp({FactOf("PRESENTED", t, 0)}) /\ UNCHANGED events
  <2> DEFINE presented == FactOf("PRESENTED", t, 0)
  <2>1. /\ Sound(presented) /\ presented.at = clock /\ presented.type = "PRESENTED"
        /\ presented.receipt = t /\ presented.session = 0
    BY FactMeans DEF PageKinds
  <2>2. PICK f \in events : f.type = "DELIVERED" /\ f.receipt = t
    BY <1>1 DEF Rejected
  <2>3. f.session = 0 /\ f.at <= clock
    <3>1. Sound(f) /\ f.type \notin PageKinds
      BY <2>2 DEF EarnedInv, FactsAreSound, PageKinds
    <3> QED
      BY <3>1 DEF Sound
  <2>4. Supported(presented, events \union {presented})
    BY <2>1, <2>2, <2>3 DEF Supported, Needs
  <2>5. OnePerKey({presented})
    BY DEF OnePerKey
  <2>6. Stamp({presented}) /\ UNCHANGED events
    BY <1>1
  <2> HIDE DEF presented
  <2> QED
    BY <1>0, <2>1, <2>4, <2>5, <2>6, StampKeeps
<1>2. CASE Insert({FactOf(reason, t, 0) : reason \in Rejected(t, sameURL)}) /\ UNCHANGED writing
  <2> DEFINE facts == {FactOf(reason, t, 0) : reason \in Rejected(t, sameURL)}
  <2>1. Rejected(t, sameURL) \subseteq Rejections
    BY DEF Rejected, Rejections
  <2>2. \A e \in facts : /\ Sound(e) /\ e.at = clock /\ e.session = 0
                         /\ e.type \in Rejections /\ e.receipt = t
    BY <2>1, FactMeans DEF PageKinds, Rejections
  <2>3. \A e, f \in facts : e.type = f.type => e = f
    BY DEF FactOf
  <2>4. OnePerKey(facts)
    BY <2>2, <2>3, KeyMeans DEF OnePerKey
  <2>5. \A e \in facts : Supported(e, events \union {f \in facts : f.session = 0})
    BY <2>2 DEF Supported, Needs, Rejections
  <2>6. GrantsAreProven'
    BY <1>0, <1>2 DEF EarnedInv, GrantsAreProven, Insert, Added
  <2>7. \A e \in facts : e.type # "PRESENCE"
    BY <2>2 DEF Rejections
  <2>8. Insert(facts) /\ UNCHANGED writing
    BY <1>2
  <2> HIDE DEF facts
  <2> QED
    BY <1>0, <2>2, <2>4, <2>5, <2>6, <2>7, <2>8, InsertKeeps
<1> QED
  BY <1>1, <1>2 DEF Present

--------------------------------------------------------------------------------
(*                              the receipt page                              *)

(* Steps that change no fact and no grant.                                     *)
LEMMA FactsStay ==
  ASSUME EarnedInv, StateTyped', UNCHANGED <<events, writing, grants>>, clock <= clock'
  PROVE  EarnedInv'
<1>1. \A e : Sound(e) => Sound(e)'
  BY DEF EarnedInv, StateTyped, Sound
<1>2. FactsAreSound' /\ WritingIsSound' /\ GrantsAreProven'
  BY <1>1 DEF EarnedInv, FactsAreSound, WritingIsSound, GrantsAreProven, OnePerKey, Key
<1> QED
  BY <1>2 DEF EarnedInv

LEMMA AskKeeps ==
  ASSUME EarnedInv, NEW b \in Browsers, NEW op \in {"challenge", "read", "acknowledge"},
         NEW t \in Receipts, NEW s \in 0 .. Len(grants), Ask(b, op, t, s)
  PROVE  EarnedInv'
<1>1. Len(grants) \in Nat /\ clock \in Nat
  BY DEF EarnedInv, StateTyped
<1>2. [op |-> op, stage |-> "waiting", receipt |-> t, session |-> s, now |-> clock] \in Request
  BY <1>1 DEF Request
<1>3. StateTyped'
  BY <1>2 DEF Ask, EarnedInv, StateTyped
<1> QED
  BY <1>1, <1>3, FactsStay DEF Ask

LEMMA LimitKeeps ==
  ASSUME EarnedInv, NEW b \in Browsers, LimitAccess(b)
  PROVE  EarnedInv'
<1>1. browsing[b] \in Request /\ clock \in Nat
  BY DEF LimitAccess, EarnedInv, StateTyped
<1>2. [browsing[b] EXCEPT !.stage = "admitted"] \in Request
  BY <1>1 DEF Request
<1>3. StateTyped'
  BY <1>2 DEF LimitAccess, Done, EarnedInv, StateTyped
<1> QED
  BY <1>1, <1>3, FactsStay DEF LimitAccess

LEMMA AdmittedMeans ==
  ASSUME EarnedInv, NEW b \in Browsers, NEW op, Admitted(b, op)
  PROVE  /\ browsing[b] \in Request
         /\ browsing[b].receipt \in Receipts /\ browsing[b].session \in Nat
         /\ browsing' \in [Browsers -> Request \union {NoRequest}]
         /\ UNCHANGED <<clock, writing, sent, accesses>>
<1>1. browsing[b] \in Request
  BY DEF Admitted, EarnedInv, StateTyped
<1> QED
  BY <1>1 DEF Admitted, Done, Request, EarnedInv, StateTyped

(* A request that ends without a fact and without a grant.                     *)
LEMMA DroppedKeeps ==
  ASSUME EarnedInv, NEW b \in Browsers, NEW op, Admitted(b, op), UNCHANGED <<events, grants>>
  PROVE  EarnedInv'
<1>1. StateTyped' /\ clock \in Nat
  BY AdmittedMeans DEF EarnedInv, StateTyped
<1> QED
  BY <1>1, AdmittedMeans, FactsStay

LEMMA ChallengeKeeps ==
  ASSUME EarnedInv, NEW b \in Browsers, Challenge(b)
  PROVE  EarnedInv'
<1> DEFINE t == browsing[b].receipt
           s == Len(grants) + 1
           issued == FactOf("ISSUED", t, 0)
           presence == FactOf("PRESENCE", t, s)
           grant == [receipt |-> t, browser |-> b, exp |-> clock + Lifetime]
<1>0. /\ Admitted(b, "challenge") /\ t \in Receipts
      /\ browsing' \in [Browsers -> Request \union {NoRequest}]
      /\ UNCHANGED <<clock, writing, sent, accesses>>
      /\ Len(grants) \in Nat /\ clock \in Nat
  BY AdmittedMeans DEF Challenge, EarnedInv, StateTyped
<1>1. CASE UNCHANGED <<events, grants>>
  BY <1>0, <1>1, DroppedKeeps
<1>2. CASE grants' = Append(grants, grant) /\ Insert({issued, presence})
  <2>1. grant \in [receipt: Receipts, browser: Browsers, exp: Nat]
    BY <1>0, DisclosureAssumption
  <2>2. /\ grants' \in Seq([receipt: Receipts, browser: Browsers, exp: Nat])
        /\ Len(grants') = s /\ DOMAIN grants' = DOMAIN grants \union {s}
        /\ \A i \in DOMAIN grants : grants'[i] = grants[i]
        /\ grants'[s] = grant
    BY <1>2, <2>1 DEF EarnedInv, StateTyped
  <2>3. StateTyped'
    BY <1>0, <2>2 DEF EarnedInv, StateTyped
  <2>4. /\ Sound(issued) /\ issued.at = clock /\ issued.type = "ISSUED"
        /\ issued.receipt = t /\ issued.session = 0
    BY FactMeans DEF PageKinds
  <2>5. /\ Sound(presence) /\ presence.at = clock /\ presence.type = "PRESENCE"
        /\ presence.receipt = t /\ presence.session = s
    BY <1>0, FactMeans DEF PageKinds
  <2> HIDE DEF issued, presence, grant
  <2>6. OnePerKey({issued, presence})
    BY <2>4, <2>5, KeyMeans DEF OnePerKey
  <2>7. \A e \in {issued, presence} :
          Supported(e, events \union {f \in {issued, presence} : f.session = 0})
    BY <2>4, <2>5 DEF Supported, Needs
  <2>8. presence \in events'
    <3>1. ASSUME NEW g \in events PROVE Key(presence) # Key(g)
      <4>1. SUFFICES ASSUME Key(presence) = Key(g) PROVE FALSE
        OBVIOUS
      <4>2. g.type = "PRESENCE" /\ g.session = s
        BY <2>5, <4>1, KeyMeans DEF EarnedInv, FactsAreSound
      <4> QED
        BY <1>0, <4>2 DEF EarnedInv, FactsAreSound
    <3> QED
      BY <1>2, <3>1 DEF Insert, Added
  <2>9. GrantsAreProven'
    <3>1. events \subseteq events'
      BY <1>2 DEF Insert, Added
    <3>2. ASSUME NEW i \in DOMAIN grants'
          PROVE  \E f \in events' : /\ f.type = "PRESENCE" /\ f.receipt = grants'[i].receipt
                                    /\ f.session = i
      <4>1. CASE i = s
        BY <2>2, <2>5, <2>8, <4>1 DEF grant
      <4>2. CASE i # s
        BY <2>2, <3>1, <4>2 DEF EarnedInv, GrantsAreProven
      <4> QED
        BY <4>1, <4>2
    <3> QED
      BY <3>2 DEF GrantsAreProven
  <2>10. \A e \in {issued, presence} : e.type = "PRESENCE" => e.session <= Len(grants')
    BY <1>0, <2>2, <2>4, <2>5
  <2>11. Len(grants) <= Len(grants') /\ Len(grants') \in Nat
    BY <1>0, <2>2
  <2> QED
    BY <1>0, <1>2, <2>3, <2>4, <2>5, <2>6, <2>7, <2>9, <2>10, <2>11, InsertKeeps
<1> QED
  BY <1>1, <1>2 DEF Challenge
LEMMA GrantsStay ==
  ASSUME EarnedInv, UNCHANGED grants, events \subseteq events'
  PROVE  GrantsAreProven'
BY DEF EarnedInv, GrantsAreProven

LEMMA ReadKeeps ==
  ASSUME EarnedInv, NEW b \in Browsers, Read(b)
  PROVE  EarnedInv'
<1> DEFINE t == browsing[b].receipt
           s == browsing[b].session
           opened == FactOf("OPENED", t, s)
           verified == FactOf("VERIFIED", t, s)
<1>0. /\ Admitted(b, "read") /\ t \in Receipts /\ s \in Nat
      /\ browsing' \in [Browsers -> Request \union {NoRequest}]
      /\ UNCHANGED <<clock, writing, sent, accesses, grants>>
      /\ Len(grants) \in Nat /\ clock \in Nat
  BY AdmittedMeans DEF Read, EarnedInv, StateTyped
<1>1. CASE UNCHANGED events
  BY <1>0, <1>1, DroppedKeeps
<1>2. ASSUME Bound(b, t, s), NEW more \in {{}, {verified}}, Insert({opened} \union more)
      PROVE  EarnedInv'
  <2> DEFINE facts == {opened} \union more
  <2>1. s \in DOMAIN grants /\ grants[s].receipt = t
    BY <1>2 DEF Bound
  <2>2. s # 0
    BY <2>1 DEF EarnedInv, StateTyped
  <2>3. PICK f \in events : f.type = "PRESENCE" /\ f.receipt = t /\ f.session = s
    BY <2>1 DEF EarnedInv, GrantsAreProven
  <2>4. f.at <= clock
    BY DEF EarnedInv, FactsAreSound, Sound
  <2>5. /\ Sound(opened) /\ opened.at = clock /\ opened.type = "OPENED"
        /\ opened.receipt = t /\ opened.session = s
    BY <1>0, <2>2, FactMeans DEF PageKinds
  <2>6. /\ Sound(verified) /\ verified.at = clock /\ verified.type = "VERIFIED"
        /\ verified.receipt = t /\ verified.session = s
    BY <1>0, <2>2, FactMeans DEF PageKinds
  <2>7. StateTyped'
    BY <1>0 DEF EarnedInv, StateTyped
  <2>8. Insert(facts)
    BY <1>2
  <2> HIDE DEF opened, verified
  <2>9. \A e \in facts : e \in {opened, verified}
    OBVIOUS
  <2>10. OnePerKey(facts)
    BY <2>5, <2>6, <2>9, KeyMeans DEF OnePerKey
  <2>11. \A e \in facts : Supported(e, events \union {g \in facts : g.session = 0})
    BY <2>3, <2>4, <2>5, <2>6, <2>9 DEF Supported, Needs
  <2>12. GrantsAreProven'
    BY <1>0, <2>8, GrantsStay DEF Insert, Added
  <2>13. \A e \in facts : Sound(e) /\ e.at = clock /\ e.type # "PRESENCE"
    BY <2>5, <2>6, <2>9
  <2> HIDE DEF facts
  <2> QED
    BY <1>0, <2>7, <2>8, <2>10, <2>11, <2>12, <2>13, InsertKeeps
<1> QED
  BY <1>1, <1>2 DEF Read

LEMMA AcknowledgeKeeps ==
  ASSUME EarnedInv, NEW b \in Browsers, Acknowledge(b)
  PROVE  EarnedInv'
<1> DEFINE t == browsing[b].receipt
           s == browsing[b].session
           acknowledged == FactOf("ACKNOWLEDGED", t, s)
<1>0. /\ Admitted(b, "acknowledge") /\ t \in Receipts /\ s \in Nat
      /\ browsing' \in [Browsers -> Request \union {NoRequest}]
      /\ UNCHANGED <<clock, writing, sent, accesses, grants>>
      /\ Len(grants) \in Nat /\ clock \in Nat
  BY AdmittedMeans DEF Acknowledge, EarnedInv, StateTyped
<1>1. CASE UNCHANGED events
  BY <1>0, <1>1, DroppedKeeps
<1>2. ASSUME NEW f \in events, f.type = "OPENED", f.session = s, f.receipt = t,
             Insert({acknowledged})
      PROVE  EarnedInv'
  <2>1. Sound(f)
    BY DEF EarnedInv, FactsAreSound
  <2>2. f.at <= clock /\ s # 0
    BY <1>2, <2>1 DEF Sound, PageKinds
  <2>3. /\ Sound(acknowledged) /\ acknowledged.at = clock
        /\ acknowledged.type = "ACKNOWLEDGED"
        /\ acknowledged.receipt = t /\ acknowledged.session = s
    BY <1>0, <2>2, FactMeans DEF PageKinds
  <2>4. StateTyped'
    BY <1>0 DEF EarnedInv, StateTyped
  <2>5. Insert({acknowledged})
    BY <1>2
  <2> HIDE DEF acknowledged
  <2>6. OnePerKey({acknowledged})
    BY DEF OnePerKey
  <2>7. Supported(acknowledged, events \union {g \in {acknowledged} : g.session = 0})
    BY <1>2, <2>2, <2>3 DEF Supported, Needs
  <2>8. GrantsAreProven'
    BY <1>0, <2>5, GrantsStay DEF Insert, Added
  <2> DEFINE facts == {acknowledged}
  <2>9. \A e \in facts : Sound(e) /\ e.at = clock /\ e.type # "PRESENCE"
    BY <2>3
  <2>11. \A e \in facts : Supported(e, events \union {g \in facts : g.session = 0})
    BY <2>7
  <2>10. Insert(facts) /\ OnePerKey(facts)
    BY <2>5, <2>6
  <2> HIDE DEF facts
  <2> QED
    BY <1>0, <2>4, <2>8, <2>9, <2>10, <2>11, InsertKeeps
<1> QED
  BY <1>1, <1>2 DEF Acknowledge

LEMMA EarnedKept == EarnedInv /\ [DisclosureNext]_disclosureVars => EarnedInv'
<1> SUFFICES ASSUME EarnedInv, [DisclosureNext]_disclosureVars PROVE EarnedInv'
  OBVIOUS
<1>0. clock \in Nat
  BY DEF EarnedInv, StateTyped
<1>1. ASSUME NEW t \in Receipts, SendResult(t) PROVE EarnedInv'
  <2>1. StateTyped'
    BY <1>1 DEF SendResult, EarnedInv, StateTyped
  <2> QED
    BY <1>0, <1>1, <2>1, FactsStay DEF SendResult
<1>2. CASE AgentStep
  BY <1>1, <1>2, DeliveryKeeps, PresentKeeps, CommitKeeps, RollBackKeeps DEF AgentStep
<1>3. ASSUME NEW b \in Browsers, BrowserStep(b) PROVE EarnedInv'
  BY <1>3, AskKeeps, LimitKeeps, ChallengeKeeps, ReadKeeps, AcknowledgeKeeps DEF BrowserStep
<1>4. CASE Tick
  <2>1. StateTyped'
    BY <1>0, <1>4 DEF Tick, EarnedInv, StateTyped
  <2> QED
    BY <1>0, <1>4, <2>1, FactsStay DEF Tick
<1>5. CASE UNCHANGED disclosureVars
  BY <1>0, <1>5, FactsStay DEF disclosureVars, EarnedInv, StateTyped
<1> QED
  BY <1>2, <1>3, <1>4, <1>5 DEF DisclosureNext

(* Whatever order transactions stamp, commit and roll back in, each recorded   *)
(* fact rests on an earlier one of the same receipt and session: reading on    *)
(* the challenge passed, acknowledging on reading, presenting on delivery.     *)
THEOREM DisclosureIsEarnedHolds == DisclosureSpec => []DisclosureIsEarned
BY EarnedStarts, EarnedKept, EarnedMeans, PTL DEF DisclosureSpec
--------------------------------------------------------------------------------
(*                                the verdict                                 *)

OfKind(type, t) == {e \in events : e.type = type /\ e.receipt = t}

(* There is one delivery and one presentation of a receipt, whatever was sent  *)
(* again, so the earliest of them is the one there is.                         *)
LEMMA OneOfKind ==
  ASSUME EarnedInv, NEW type \in {"DELIVERED", "PRESENTED"}, NEW t,
         NEW d \in OfKind(type, t)
  PROVE  OfKind(type, t) = {d} /\ d.at \in Nat /\ d.at <= clock
<1>1. ASSUME NEW e \in OfKind(type, t) PROVE e = d
  <2>1. e \in events /\ d \in events /\ Sound(e) /\ Sound(d)
    BY DEF OfKind, EarnedInv, FactsAreSound
  <2>2. e.type = type /\ d.type = type /\ e.receipt = t /\ d.receipt = t
    BY DEF OfKind
  <2>3. e.session = 0 /\ d.session = 0
    BY <2>1, <2>2 DEF Sound, PageKinds
  <2>4. Key(e) = Key(d)
    BY <2>2, <2>3 DEF Key
  <2> QED
    BY <2>1, <2>4 DEF EarnedInv, FactsAreSound, OnePerKey
<1>2. Sound(d)
  BY DEF OfKind, EarnedInv, FactsAreSound
<1> QED
  BY <1>1, <1>2 DEF Sound

JudgedBy(t, d, p) ==
  /\ d \in OfKind("DELIVERED", t)
  /\ p \in OfKind("PRESENTED", t)
  /\ p.at >= d.at

LEMMA VerdictOf ==
  ASSUME EarnedInv, NEW t, NEW d, NEW p, JudgedBy(t, d, p)
  PROVE  Verdict(t) = IF OnTime(d, p) THEN "COMPLIANT" ELSE "LATE"
<1>1. /\ OfKind("DELIVERED", t) = {d} /\ d.at \in Nat /\ d.at <= clock
      /\ OfKind("PRESENTED", t) = {p} /\ p.at \in Nat /\ p.at <= clock
  BY OneOfKind DEF JudgedBy
<1>2. Earliest({d}) = d /\ Earliest({p}) = p
  BY <1>1 DEF Earliest
<1>3. /\ {e \in events : e.type = "DELIVERED" /\ e.receipt = t /\ e.at <= clock} = {d}
      /\ {e \in events : e.type = "PRESENTED" /\ e.receipt = t /\ e.at <= clock} = {p}
  BY <1>1 DEF OfKind
<1>4. {e \in {p} : e.at >= d.at} = {p}
  BY DEF JudgedBy
<1> QED
  BY <1>2, <1>3, <1>4 DEF Verdict

LEMMA JudgedMeans ==
  ASSUME EarnedInv, NEW t, Verdict(t) \in {"COMPLIANT", "LATE"}
  PROVE  \E d, p : JudgedBy(t, d, p)
<1> DEFINE known(type) == {e \in events : e.type = type /\ e.receipt = t /\ e.at <= clock}
           delivery == Earliest(known("DELIVERED"))
           presented == {e \in known("PRESENTED") : e.at >= delivery.at}
<1>1. known("DELIVERED") # {} /\ presented # {}
  BY DEF Verdict
<1>2. PICK d : d \in known("DELIVERED")
  BY <1>1
<1>3. d \in OfKind("DELIVERED", t)
  BY <1>2 DEF OfKind
<1>4. known("DELIVERED") = {d}
  <2>1. OfKind("DELIVERED", t) = {d}
    BY <1>3, OneOfKind
  <2> QED
    BY <1>2, <2>1 DEF OfKind
<1>5. d.at \in Nat
  BY <1>3, OneOfKind
<1>6. delivery = d
  <2>1. Earliest({d}) = d
    BY <1>5 DEF Earliest
  <2> QED
    BY <1>4, <2>1
<1>7. PICK p : p \in presented
  BY <1>1
<1>8. p \in OfKind("PRESENTED", t) /\ p.at >= d.at
  BY <1>6, <1>7 DEF OfKind
<1> QED
  BY <1>3, <1>8 DEF JudgedBy

VerdictsFollow ==
  \A t, d, p : JudgedBy(t, d, p) =>
                 Verdict(t) = IF OnTime(d, p) THEN "COMPLIANT" ELSE "LATE"

(* The same before a step and after it.                                        *)
LEMMA AlwaysFollow == EarnedInv => VerdictsFollow
BY VerdictOf DEF VerdictsFollow

LEMMA FollowAfter == EarnedInv' => VerdictsFollow'
BY AlwaysFollow, PTL

LEMMA FactsOnlyGrow == [DisclosureNext]_disclosureVars => events \subseteq events'
<1> SUFFICES ASSUME [DisclosureNext]_disclosureVars PROVE events \subseteq events'
  OBVIOUS
<1>1. CASE AgentStep
  BY <1>1 DEF AgentStep, SendResult, RecordDelivery, Present, Stamp, Insert, CommitFacts,
              RollBack, Added
<1>2. ASSUME NEW b \in Browsers, BrowserStep(b) PROVE events \subseteq events'
  <2>1. \A facts : Insert(facts) => events \subseteq events'
    BY DEF Insert, Added
  <2>2. CASE Challenge(b) \/ Read(b) \/ Acknowledge(b)
    BY <2>1, <2>2 DEF Challenge, Read, Acknowledge
  <2>3. CASE LimitAccess(b) \/ \E op \in {"challenge", "read", "acknowledge"}, t \in Receipts,
                                  s \in 0 .. Len(grants) : Ask(b, op, t, s)
    BY <2>3 DEF LimitAccess, Ask
  <2> QED
    BY <1>2, <2>2, <2>3 DEF BrowserStep
<1> QED
  BY <1>1, <1>2 DEF DisclosureNext, Tick, disclosureVars

LEMMA VerdictKept ==
  ASSUME EarnedInv, EarnedInv', [DisclosureNext]_disclosureVars,
         NEW t, Verdict(t) \in {"COMPLIANT", "LATE"}
  PROVE  Verdict(t)' = Verdict(t)
<1>1. PICK d, p : JudgedBy(t, d, p)
  BY JudgedMeans
<1>2. JudgedBy(t, d, p)'
  BY <1>1, FactsOnlyGrow DEF JudgedBy, OfKind
<1>3. Verdict(t)' = IF OnTime(d, p) THEN "COMPLIANT" ELSE "LATE"
  BY <1>2, FollowAfter DEF VerdictsFollow, OnTime
<1> QED
  BY <1>1, <1>3, VerdictOf

(* No late commit, retried delivery or repeated presentation changes a verdict *)
(* of compliance or of lateness once it was given (replay_disclosure).         *)
THEOREM VerdictsAreFinalHolds == DisclosureSpec => VerdictsAreFinal
<1>1. EarnedInv /\ EarnedInv' /\ [DisclosureNext]_disclosureVars =>
        [\A t \in Receipts : Verdict(t) \in {"COMPLIANT", "LATE"} =>
                               Verdict(t)' = Verdict(t)]_disclosureVars
  BY VerdictKept
<1> QED
  BY <1>1, EarnedStarts, EarnedKept, PTL DEF DisclosureSpec, VerdictsAreFinal
--------------------------------------------------------------------------------
(*                                the limits                                  *)

Access == [address: {AddressOf[b] : b \in Browsers}, receipt: Receipts, at: Nat]

(* A waiting request read the clock in the past: it counts a longer window     *)
(* than the one that ends when it is admitted.                                 *)
AccessTyped ==
  /\ accesses \in Seq(Access)
  /\ \A b \in Browsers : browsing[b] # NoRequest => browsing[b].now <= clock

LimitInv == EarnedInv /\ AccessTyped /\ AccessIsLimited

LEMMA LimitStarts == DisclosureInit => LimitInv
<1> SUFFICES ASSUME DisclosureInit PROVE AccessTyped /\ AccessIsLimited
  BY EarnedStarts DEF LimitInv
<1> QED
  BY DEF DisclosureInit, AccessTyped, AccessIsLimited

(* One more than what was counted below a cap is within the cap.               *)
LEMMA OneMore ==
  ASSUME NEW m \in Nat, NEW R \in SUBSET (1 .. m), NEW cap \in Nat, ~(Cardinality(R) >= cap),
         NEW S \in SUBSET (R \union {m + 1})
  PROVE  Cardinality(S) <= cap
<1>1. IsFiniteSet(R)
  <2>1. IsFiniteSet(1 .. m)
    BY FS_Interval
  <2> QED
    BY <2>1, FS_Subset
<1>2. Cardinality(R) \in Nat
  BY <1>1, FS_CardinalityType
<1>3. /\ IsFiniteSet(R \union {m + 1})
      /\ Cardinality(R \union {m + 1}) <= Cardinality(R) + 1
      /\ Cardinality(R \union {m + 1}) \in Nat
  <2>1. m + 1 \notin R
    OBVIOUS
  <2>2. /\ IsFiniteSet(R \union {m + 1})
        /\ Cardinality(R \union {m + 1}) = Cardinality(R) + 1
    BY <1>1, <2>1, FS_AddElement, Zenon
  <2> QED
    BY <1>2, <2>2
<1>4. Cardinality(S) <= Cardinality(R \union {m + 1}) /\ IsFiniteSet(S)
  BY <1>3, FS_Subset
<1>5. Cardinality(S) \in Nat
  BY <1>4, FS_CardinalityType
<1> QED
  BY <1>2, <1>3, <1>4, <1>5

(* Without a new access nothing is counted anew.                               *)
LEMMA LimitStays ==
  ASSUME LimitInv, EarnedInv', UNCHANGED accesses, clock <= clock', clock \in Nat, clock' \in Nat,
         \A b \in Browsers : browsing'[b] # NoRequest =>
            \/ browsing'[b].now = clock
            \/ browsing[b] # NoRequest /\ browsing'[b].now = browsing[b].now
  PROVE  LimitInv'
<1>1. AccessIsLimited' /\ (accesses \in Seq(Access))'
  <2>1. AccessIsLimited /\ accesses \in Seq(Access)
    BY DEF LimitInv, AccessTyped
  <2>2. accesses' = accesses
    OBVIOUS
  <2>3. AccessIsLimited'
    BY <2>1, <2>2, Zenon DEF AccessIsLimited
  <2>4. (accesses \in Seq(Access))'
    BY <2>1, <2>2, Zenon DEF Access
  <2> QED
    BY <2>3, <2>4
<1>2. ASSUME NEW b \in Browsers, browsing'[b] # NoRequest PROVE browsing'[b].now <= clock'
  <2>1. CASE browsing'[b].now = clock
    BY <2>1
  <2>2. CASE browsing[b] # NoRequest /\ browsing'[b].now = browsing[b].now
    <3>1. browsing[b] \in Request
      BY <2>2 DEF LimitInv, EarnedInv, StateTyped
    <3>2. browsing[b].now \in Nat /\ browsing[b].now <= clock
      BY <2>2, <3>1 DEF LimitInv, AccessTyped, Request
    <3> QED
      BY <2>2, <3>2
  <2> QED
    BY <1>2, <2>1, <2>2
<1>3. AccessTyped'
  BY <1>1, <1>2 DEF AccessTyped
<1> QED
  BY <1>1, <1>3 DEF LimitInv

LEMMA AdmissionKeeps ==
  ASSUME LimitInv, EarnedInv', NEW b \in Browsers, LimitAccess(b)
  PROVE  LimitInv'
<1>0. /\ browsing[b] # NoRequest /\ clock \in Nat /\ UNCHANGED clock
      /\ browsing \in [Browsers -> Request \union {NoRequest}]
  BY DEF LimitAccess, LimitInv, EarnedInv, StateTyped
<1>1. CASE Done(b) /\ UNCHANGED accesses
  BY <1>0, <1>1, LimitStays DEF Done
<1> DEFINE now == browsing[b].now
           n == Len(accesses) + 1
           new == [address |-> AddressOf[b], at |-> clock, receipt |-> browsing[b].receipt]
<1>2. CASE /\ ~Limited(b)
           /\ accesses' = Append(accesses, new)
           /\ browsing' = [browsing EXCEPT ![b].stage = "admitted"]
  <2>1. /\ browsing[b] \in Request /\ now \in Nat /\ now <= clock
        /\ browsing[b].receipt \in Receipts
    BY <1>0 DEF LimitInv, AccessTyped, Request
  <2>2. new \in Access
    BY <1>0, <2>1 DEF Access
  <2>3. /\ accesses' \in Seq(Access)
        /\ Len(accesses) \in Nat /\ DOMAIN accesses = 1 .. Len(accesses)
        /\ DOMAIN accesses' = DOMAIN accesses \union {n}
        /\ \A k \in DOMAIN accesses : accesses'[k] = accesses[k]
        /\ accesses'[n] = new
    BY <1>2, <2>2 DEF LimitInv, AccessTyped
  <2>4. \A k \in DOMAIN accesses : accesses[k].at \in Nat
    <3>1. \A k \in DOMAIN accesses : accesses[k] \in Access
      BY DEF LimitInv, AccessTyped
    <3> QED
      BY <3>1 DEF Access
  <2>5. AccessTyped'
    BY <1>0, <1>2, <2>1, <2>3 DEF LimitInv, AccessTyped
  <2>6. AccessIsLimited'
    <3>1. SUFFICES ASSUME NEW k \in DOMAIN accesses'
          PROVE  LET inWindow == {j \in 1 .. k : accesses'[k].at <= accesses'[j].at + Window} IN
                 /\ Cardinality({j \in inWindow : accesses'[j].address = accesses'[k].address})
                      <= AddressCap
                 /\ Cardinality({j \in inWindow : accesses'[j].receipt = accesses'[k].receipt})
                      <= ReceiptCap
      BY DEF AccessIsLimited
    <3> DEFINE inWindow == {j \in 1 .. k : accesses'[k].at <= accesses'[j].at + Window}
               sameAddress == {j \in inWindow : accesses'[j].address = accesses'[k].address}
               sameReceipt == {j \in inWindow : accesses'[j].receipt = accesses'[k].receipt}
    <3>2. CASE k \in DOMAIN accesses
      <4>1. /\ \A j \in 1 .. k : j \in DOMAIN accesses
        BY <2>3, <3>2
      <4>2. inWindow = {j \in 1 .. k : accesses[k].at <= accesses[j].at + Window}
        BY <2>3, <3>2, <4>1
      <4>3. \A j \in inWindow : accesses'[j] = accesses[j]
        BY <2>3, <4>1
      <4> HIDE DEF inWindow
      <4>4. /\ sameAddress = {j \in inWindow : accesses[j].address = accesses[k].address}
            /\ sameReceipt = {j \in inWindow : accesses[j].receipt = accesses[k].receipt}
        BY <2>3, <3>2, <4>3
      <4> QED
        BY <3>2, <4>2, <4>4 DEF LimitInv, AccessIsLimited, inWindow
    <3>3. CASE k = n
      <4> DEFINE recent == Recent(now)
                 R1 == {j \in recent : accesses[j].address = AddressOf[b]}
                 R2 == {j \in recent : accesses[j].receipt = browsing[b].receipt}
      <4>1. ASSUME NEW j \in inWindow, j # n
            PROVE  j \in recent /\ accesses'[j] = accesses[j]
        <5>1. j \in DOMAIN accesses
          BY <2>3, <3>3, <4>1
        <5>2. clock <= accesses[j].at + Window
          BY <2>3, <3>3, <4>1, <5>1
        <5>3. now <= accesses[j].at + Window
          BY <1>0, <2>1, <2>4, <5>1, <5>2, DisclosureAssumption
        <5> QED
          BY <2>3, <5>1, <5>3 DEF Recent
      <4>2. ~(Cardinality(R1) >= AddressCap) /\ ~(Cardinality(R2) >= ReceiptCap)
        BY <1>2 DEF Limited
      <4>3. R1 \in SUBSET (1 .. Len(accesses)) /\ R2 \in SUBSET (1 .. Len(accesses))
        BY <2>3 DEF Recent
      <4>4. sameAddress \in SUBSET (R1 \union {n}) /\ sameReceipt \in SUBSET (R2 \union {n})
        BY <2>3, <3>3, <4>1
      <4> HIDE DEF R1, R2, sameAddress, sameReceipt
      <4> QED
        BY <2>3, <4>2, <4>3, <4>4, OneMore, DisclosureAssumption DEF sameAddress, sameReceipt
    <3> QED
      BY <2>3, <3>2, <3>3
  <2> QED
    BY <2>5, <2>6 DEF LimitInv
<1> QED
  BY <1>1, <1>2 DEF LimitAccess

LEMMA LimitKept == LimitInv /\ [DisclosureNext]_disclosureVars => LimitInv'
<1> SUFFICES ASSUME LimitInv, [DisclosureNext]_disclosureVars PROVE LimitInv'
  OBVIOUS
<1>0. /\ EarnedInv' /\ clock \in Nat /\ clock' \in Nat
      /\ browsing \in [Browsers -> Request \union {NoRequest}]
  BY EarnedKept DEF LimitInv, EarnedInv, StateTyped
<1>1. CASE UNCHANGED <<clock, accesses, browsing>>
  BY <1>0, <1>1, LimitStays
<1>2. CASE AgentStep
  BY <1>1, <1>2 DEF AgentStep, SendResult, RecordDelivery, Present, CommitFacts, RollBack
<1>3. ASSUME NEW b \in Browsers, BrowserStep(b) PROVE LimitInv'
  <2>1. CASE Challenge(b) \/ Read(b) \/ Acknowledge(b)
    <3>1. UNCHANGED <<clock, accesses>> /\ Done(b)
      BY <2>1 DEF Challenge, Read, Acknowledge, Admitted
    <3> QED
      BY <1>0, <3>1, LimitStays DEF Done
  <2>2. ASSUME NEW op \in {"challenge", "read", "acknowledge"}, NEW t \in Receipts,
               NEW s \in 0 .. Len(grants), Ask(b, op, t, s)
        PROVE  LimitInv'
    <3>1. /\ UNCHANGED <<clock, accesses>>
          /\ browsing' = [browsing EXCEPT ![b] = [op |-> op, stage |-> "waiting", receipt |-> t,
                                                  session |-> s, now |-> clock]]
      BY <2>2 DEF Ask
    <3> QED
      BY <1>0, <3>1, LimitStays
  <2>3. CASE LimitAccess(b)
    BY <1>0, <2>3, AdmissionKeeps
  <2> QED
    BY <1>3, <2>1, <2>2, <2>3 DEF BrowserStep
<1>4. CASE Tick
  BY <1>0, <1>4, LimitStays DEF Tick
<1> QED
  BY <1>1, <1>2, <1>3, <1>4 DEF DisclosureNext, disclosureVars

(* No address and no receipt gets more than its cap of admitted requests in    *)
(* one window, however long a request waited for the locks (limit_access).     *)
THEOREM AccessIsLimitedHolds == DisclosureSpec => []AccessIsLimited
<1>1. LimitInv => AccessIsLimited
  BY DEF LimitInv
<1> QED
  BY <1>1, LimitStarts, LimitKept, PTL DEF DisclosureSpec
================================================================================
