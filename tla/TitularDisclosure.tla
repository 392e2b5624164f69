------------------------- MODULE TitularDisclosure -------------------------
(***************************************************************************)
(* Who saw a ticket: the append-only disclosure facts of tickets/          *)
(* disclosure.py, the delivery that the M2M responses prove                *)
(* (tickets/delivery.py), the presentation the agent asserts               *)
(* (api/disclosure.py), the receipt page behind Turnstile                  *)
(* (tickets/human_presence.py, api/titular_check.py), and the compliance   *)
(* that agents/disclosure_memory.py reads out of the facts.                *)
(*                                                                         *)
(* Bounds: the clock stops at LastTime; MaxSessions grants.                *)
(* Abstractions: the receipts may all be shared publicly; a hash that no   *)
(* ticket has is left out; all clocks are one.                             *)
(***************************************************************************)
EXTENDS Naturals, Sequences, FiniteSets

CONSTANTS Receipts,           \* tickets, by their hash
          Owned,              \* those of the one agent behind the bearer token
          Browsers, AddressOf,
          Window, AddressCap, ReceiptCap,   \* limit_access
          Lifetime,           \* of a grant
          Deadline,           \* of a presentation
          LastTime, MaxSessions

ASSUME DisclosureAssumption ==
  /\ Owned \subseteq Receipts
  /\ Window \in Nat /\ AddressCap \in Nat /\ ReceiptCap \in Nat
  /\ Lifetime \in Nat /\ Deadline \in Nat
  /\ LastTime \in Nat /\ MaxSessions \in Nat

VARIABLES clock,
          events,             \* the committed facts
          writing,            \* transactions whose facts are stamped, not committed
          sent,               \* responses sent, their delivery not recorded
          accesses,           \* TITULAR_CHECK_ACCESS_ATTEMPT, in commit order
          grants,             \* access grants, by session
          browsing            \* the request of each browser

disclosureVars == <<clock, events, writing, sent, accesses, grants, browsing>>

Rejections == {"RESPONSE_HASH_MISMATCH", "URL_MISMATCH", "DISCLOSURE_NOT_DELIVERED"}
Fact == [type: {"ISSUED", "DELIVERED", "PRESENTED", "PRESENCE", "OPENED", "VERIFIED",
                "ACKNOWLEDGED"} \union Rejections,
         receipt: Receipts, session: 0 .. MaxSessions, at: 0 .. LastTime]
FactOf(type, t, s) == [type |-> type, receipt |-> t, session |-> s, at |-> clock]

Grant == [receipt: Receipts, browser: Browsers, exp: Nat]
Browse == [op: {"challenge", "read", "acknowledge"}, stage: {"waiting", "admitted"},
           receipt: Receipts, session: 0 .. MaxSessions, now: 0 .. LastTime]
NoRequest == [op |-> "none"]

DisclosureTypeOK ==
  /\ clock \in 0 .. LastTime
  /\ events \subseteq Fact
  /\ writing \subseteq SUBSET Fact
  /\ sent \subseteq Receipts
  /\ accesses \in Seq([address: {AddressOf[b] : b \in Browsers}, receipt: Receipts,
                       at: 0 .. LastTime])
  /\ grants \in Seq(Grant) /\ Len(grants) <= MaxSessions
  /\ browsing \in [Browsers -> Browse \union {NoRequest}]

DisclosureInit ==
  /\ clock = 0
  /\ events = {}
  /\ writing = {}
  /\ sent = {}
  /\ accesses = <<>>
  /\ grants = <<>>
  /\ browsing = [b \in Browsers |-> NoRequest]

-----------------------------------------------------------------------------
(* append_event: a deterministic identity and INSERT ... DO NOTHING.       *)

Key(e) == IF e.session = 0 THEN <<e.type, e.receipt>> ELSE <<e.type, e.session>>

\* An insert waits for the transaction that has the same key in flight.
Unblocked(facts) ==
  \A tx \in writing : \A e \in facts, f \in tx : Key(e) # Key(f)

Added_Overwrites(facts) ==
  {f \in events : \A e \in facts : Key(e) # Key(f)} \union facts
Added(facts) ==
  events \union {e \in facts : \A f \in events : Key(e) # Key(f)}

Insert(facts) ==
  /\ Unblocked(facts)
  /\ events' = Added(facts)

\* The facts carry the time of the insert, and count from the commit.
Stamp(facts) ==
  /\ Unblocked(facts)
  /\ writing' = writing \union {facts}

CommitFacts(tx) ==
  /\ events' = Added(tx)
  /\ writing' = writing \ {tx}
  /\ UNCHANGED <<clock, sent, accesses, grants, browsing>>

RollBack(tx) ==
  /\ writing' = writing \ {tx}
  /\ UNCHANGED <<clock, events, sent, accesses, grants, browsing>>

-----------------------------------------------------------------------------
(* The agent                                                               *)

\* A response that carries the ticket's contract has left the server.
SendResult(t) ==
  /\ sent' = sent \union {t}
  /\ UNCHANGED <<clock, events, writing, accesses, grants, browsing>>

\* record_delivery comes after the send, and may fail.
RecordDelivery(t) ==
  /\ sent' = sent \ {t}
  /\ \/ Stamp({FactOf("ISSUED", t, 0), FactOf("DELIVERED", t, 0)})
     \/ UNCHANGED writing
  /\ UNCHANGED <<clock, events, accesses, grants, browsing>>

\* Why POST /presented would be rejected.
Rejected(t, sameURL) ==
  IF t \notin Owned THEN {"RESPONSE_HASH_MISMATCH"}
  ELSE IF ~sameURL THEN {"URL_MISMATCH"}
  ELSE IF ~\E e \in events : e.type = "DELIVERED" /\ e.receipt = t
  THEN {"DISCLOSURE_NOT_DELIVERED"}
  ELSE {}

Present(t, sameURL) ==
  /\ \/ /\ Rejected(t, sameURL) = {}
        /\ Stamp({FactOf("PRESENTED", t, 0)})
        /\ UNCHANGED events
     \/ /\ Rejected(t, sameURL) # {}
        /\ Insert({FactOf(reason, t, 0) : reason \in Rejected(t, sameURL)})
        /\ UNCHANGED writing
  /\ UNCHANGED <<clock, sent, accesses, grants, browsing>>

-----------------------------------------------------------------------------
(* The receipt page                                                        *)

\* require_grant: signed, alive, for this receipt and this client.
Bound_AnyReceipt(b, t, s) ==
  /\ s \in DOMAIN grants
  /\ grants[s].browser = b
  /\ clock < grants[s].exp
Bound(b, t, s) ==
  /\ s \in DOMAIN grants
  /\ grants[s].receipt = t
  /\ grants[s].browser = b
  /\ clock < grants[s].exp

\* A request arrives; only the acknowledgement shows its grant before it is
\* counted.  limit_access reads the clock, then waits for its locks.
Ask(b, op, t, s) ==
  /\ browsing[b] = NoRequest
  /\ op = "challenge" => s = 0
  /\ op = "acknowledge" => Bound(b, t, s)
  /\ browsing' = [browsing EXCEPT ![b] = [op |-> op, stage |-> "waiting", receipt |-> t,
                                          session |-> s, now |-> clock]]
  /\ UNCHANGED <<clock, events, writing, sent, accesses, grants>>

Recent_UpToNow(now) == {k \in DOMAIN accesses : now <= accesses[k].at + Window
                                                /\ accesses[k].at <= now}
Recent(now) == {k \in DOMAIN accesses : now <= accesses[k].at + Window}

Limited(b) ==
  LET recent == Recent(browsing[b].now) IN
  \/ Cardinality({k \in recent : accesses[k].address = AddressOf[b]}) >= AddressCap
  \/ Cardinality({k \in recent : accesses[k].receipt = browsing[b].receipt}) >= ReceiptCap

Done(b) == browsing' = [browsing EXCEPT ![b] = NoRequest]

\* The count, the attempt and the commit, under the locks of the address and
\* of the receipt.
LimitAccess(b) ==
  /\ browsing[b] # NoRequest
  /\ browsing[b].stage = "waiting"
  /\ \/ Limited(b) /\ Done(b) /\ UNCHANGED accesses
     \/ /\ ~Limited(b)
        /\ accesses' = Append(accesses, [address |-> AddressOf[b], at |-> clock,
                                         receipt |-> browsing[b].receipt])
        /\ browsing' = [browsing EXCEPT ![b].stage = "admitted"]
  /\ UNCHANGED <<clock, events, writing, sent, grants>>

Admitted(b, op) ==
  /\ browsing[b] # NoRequest
  /\ browsing[b].stage = "admitted"
  /\ browsing[b].op = op
  /\ Done(b)
  /\ UNCHANGED <<clock, writing, sent, accesses>>

\* Turnstile accepts the challenge of this very receipt, or the request ends.
Challenge(b) ==
  /\ Admitted(b, "challenge")
  /\ LET t == browsing[b].receipt
         s == Len(grants) + 1 IN
     \/ UNCHANGED <<events, grants>>
     \/ /\ s <= MaxSessions
        /\ grants' = Append(grants, [receipt |-> t, browser |-> b,
                                     exp |-> clock + Lifetime])
        /\ Insert({FactOf("ISSUED", t, 0), FactOf("PRESENCE", t, s)})

\* get_titular_check: verified only when the reconstruction matches.
Read(b) ==
  /\ Admitted(b, "read")
  /\ LET t == browsing[b].receipt
         s == browsing[b].session IN
     \/ UNCHANGED events
     \/ /\ Bound(b, t, s)
        /\ \E verified \in {{}, {FactOf("VERIFIED", t, s)}} :
             Insert({FactOf("OPENED", t, s)} \union verified)
  /\ UNCHANGED grants

Acknowledge(b) ==
  /\ Admitted(b, "acknowledge")
  /\ LET t == browsing[b].receipt
         s == browsing[b].session IN
     \/ UNCHANGED events
     \/ /\ \E e \in events : e.type = "OPENED" /\ e.session = s /\ e.receipt = t
        /\ Insert({FactOf("ACKNOWLEDGED", t, s)})
  /\ UNCHANGED grants

Tick ==
  /\ clock < LastTime
  /\ clock' = clock + 1
  /\ UNCHANGED <<events, writing, sent, accesses, grants, browsing>>

-----------------------------------------------------------------------------
AgentStep ==
  \/ \E t \in Receipts : SendResult(t)
  \/ \E t \in sent : RecordDelivery(t)
  \/ \E t \in Receipts, sameURL \in BOOLEAN : Present(t, sameURL)
  \/ \E tx \in writing : CommitFacts(tx) \/ RollBack(tx)

BrowserStep(b) ==
  \/ \E op \in {"challenge", "read", "acknowledge"}, t \in Receipts, s \in 0 .. Len(grants) :
       Ask(b, op, t, s)
  \/ LimitAccess(b) \/ Challenge(b) \/ Read(b) \/ Acknowledge(b)

DisclosureNext == AgentStep \/ (\E b \in Browsers : BrowserStep(b)) \/ Tick

DisclosureSpec == DisclosureInit /\ [][DisclosureNext]_disclosureVars

-----------------------------------------------------------------------------
(* replay_disclosure                                                       *)

Earliest(facts) == CHOOSE e \in facts : \A f \in facts : e.at <= f.at

OnTime(delivery, presentation) == presentation.at <= delivery.at + Deadline

Verdict(t) ==
  LET known(type) == {e \in events : e.type = type /\ e.receipt = t /\ e.at <= clock}
      delivery == Earliest(known("DELIVERED"))
      presented == {e \in known("PRESENTED") : e.at >= delivery.at}
  IN IF known("DELIVERED") = {} THEN "NOT_ELIGIBLE"
     ELSE IF presented = {}
     THEN IF clock < delivery.at + Deadline THEN "AWAITING" ELSE "MISSING"
     ELSE IF OnTime(delivery, Earliest(presented)) THEN "COMPLIANT" ELSE "LATE"

(* A presentation, once judged on time or late, is judged so at every later *)
(* cutoff: no retried response restarts its deadline, and no fact that      *)
(* commits late or is delivered again changes the verdict (append_event,    *)
(* replay_disclosure).                                                      *)
VerdictsAreFinal ==
  [][\A t \in Receipts :
       Verdict(t) \in {"COMPLIANT", "LATE"} => Verdict(t)' = Verdict(t)]_disclosureVars

(* Each fact rests on the ones before it: an acknowledgement on that        *)
(* session's reading of that receipt, a reading on the challenge passed for *)
(* that receipt, a presentation on a delivery already on record (the grants *)
(* of get_titular_check and acknowledge, the order check of presented).     *)
RestsOn(e, type) ==
  \E f \in events : f.type = type /\ f.receipt = e.receipt /\ f.session = e.session
                    /\ f.at <= e.at
DisclosureIsEarned ==
  \A e \in events :
    /\ e.type = "ACKNOWLEDGED" => RestsOn(e, "OPENED")
    /\ e.type \in {"OPENED", "VERIFIED"} => RestsOn(e, "PRESENCE")
    /\ e.type = "PRESENTED" => RestsOn(e, "DELIVERED")
    /\ e.type = "DELIVERED" => RestsOn(e, "ISSUED")

(* However long requests wait for each other's locks, no address and no     *)
(* receipt gets more than its cap of admitted requests within one window    *)
(* (limit_access reads the time before it has the locks).                   *)
AccessIsLimited ==
  \A k \in DOMAIN accesses :
    LET inWindow == {j \in 1 .. k : accesses[k].at <= accesses[j].at + Window} IN
    /\ Cardinality({j \in inWindow : accesses[j].address = accesses[k].address})
         <= AddressCap
    /\ Cardinality({j \in inWindow : accesses[j].receipt = accesses[k].receipt})
         <= ReceiptCap
=============================================================================
