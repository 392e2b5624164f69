---------------------------- MODULE TicketAnchor ----------------------------
(***************************************************************************)
(* Anchoring a ticket's hash on Base Sepolia: request_anchor opens the one *)
(* attempt of a ticket, execute_ticket_anchor sends the transaction and    *)
(* waits for its receipt, and the contract keeps the first anchor of a     *)
(* hash.  As for the jobs, a worker commits the columns that differ from   *)
(* the copies it loaded.                                                   *)
(*                                                                         *)
(* Bound: MaxAnchors transactions.                                         *)
(***************************************************************************)
EXTENDS Naturals, Sequences

CONSTANTS Anchorers,          \* workers
          Tickets, MaxAnchors

ASSUME AnchorAssumption == MaxAnchors \in Nat

VARIABLES tickets,            \* the anchor columns of the tickets table
          attempts,           \* anchor_attempts, one row per ticket
          anchors,            \* the signer's anchor transactions
          anchoring           \* what each worker is doing

anchorVars == <<tickets, attempts, anchors, anchoring>>

AnchorStatus == {"LOCAL_ONLY", "ANCHOR_PENDING", "ANCHOR_FAILED", "ANCHORED"}
Unissued == [anchor |-> "UNISSUED", tx |-> 0]
Issued == [anchor |-> "LOCAL_ONLY", tx |-> 0]
Ticket == [anchor: AnchorStatus \union {"UNISSUED"}, tx: 0 .. MaxAnchors]

NoAttempt == [status |-> "NONE", tx |-> 0]
Attempt == [status: {"NONE", "PENDING", "SUBMITTED", "CONFIRMED", "FAILED"},
            tx: 0 .. MaxAnchors]
Anchor == [ticket: Tickets, receipt: {"PENDING", "CONFIRMED", "FAILED"}]

Free == [step |-> "rest"]
Anchoring == [step: {"post", "poll"}, ticket: Tickets,
              seenTicket: Ticket, seenAttempt: Attempt]

AnchorTypeOK ==
  /\ tickets \in [Tickets -> Ticket]
  /\ attempts \in [Tickets -> Attempt]
  /\ anchors \in Seq(Anchor) /\ Len(anchors) <= MaxAnchors
  /\ anchoring \in [Anchorers -> Anchoring \union {Free}]

AnchorInit ==
  /\ tickets = [t \in Tickets |-> Unissued]
  /\ attempts = [t \in Tickets |-> NoAttempt]
  /\ anchors = <<>>
  /\ anchoring = [w \in Anchorers |-> Free]

-----------------------------------------------------------------------------
Changed(row, seen, new) ==
  [f \in DOMAIN row |-> IF new[f] # seen[f] THEN new[f] ELSE row[f]]

\* One commit writes the ticket and its attempt.
Write(w, ticket, attempt) ==
  LET t == anchoring[w].ticket IN
  /\ tickets' = [tickets EXCEPT ![t] = Changed(@, anchoring[w].seenTicket, ticket)]
  /\ attempts' = [attempts EXCEPT ![t] = Changed(@, anchoring[w].seenAttempt, attempt)]

Finish(w, ticket, attempt) ==
  /\ Write(w, ticket, attempt)
  /\ anchoring' = [anchoring EXCEPT ![w] = Free]

AnchorFails(w) ==
  Finish(w, [anchoring[w].seenTicket EXCEPT !.anchor = "ANCHOR_FAILED"],
            [anchoring[w].seenAttempt EXCEPT !.status = "FAILED"])

AnchoredOnChain(t) ==
  \E k \in DOMAIN anchors : anchors[k].ticket = t /\ anchors[k].receipt = "CONFIRMED"

-----------------------------------------------------------------------------
\* request_anchor: the first request of a ticket that is only local.
RequestAnchor(t) ==
  /\ attempts[t].status = "NONE"
  /\ tickets[t].anchor = "LOCAL_ONLY"
  /\ attempts' = [attempts EXCEPT ![t].status = "PENDING"]
  /\ tickets' = [tickets EXCEPT ![t].anchor = "ANCHOR_PENDING"]
  /\ UNCHANGED <<anchors, anchoring>>

\* Every request publishes execute_ticket_anchor until the attempt is confirmed,
\* so two workers may hold one ticket.
TakeAnchor(w, t) ==
  /\ anchoring[w] = Free
  /\ attempts[t].status \notin {"NONE", "CONFIRMED"}
  /\ anchoring' = [anchoring EXCEPT ![w] =
       [step |-> IF attempts[t].tx = 0 THEN "post" ELSE "poll", ticket |-> t,
        seenTicket |-> tickets[t], seenAttempt |-> attempts[t]]]
  /\ UNCHANGED <<tickets, attempts, anchors>>

\* submitExactAnchor, whose preflight refuses a hash that is anchored.
Send(t) ==
  /\ ~AnchoredOnChain(t)
  /\ Len(anchors) < MaxAnchors
  /\ anchors' = Append(anchors, [ticket |-> t, receipt |-> "PENDING"])

Post(w) ==
  /\ anchoring[w].step = "post"
  /\ Send(anchoring[w].ticket)
  /\ LET submitted == [status |-> "SUBMITTED", tx |-> Len(anchors) + 1] IN
     /\ Write(w, anchoring[w].seenTicket, submitted)
     /\ anchoring' = [anchoring EXCEPT ![w].step = "poll", ![w].seenAttempt = submitted]

\* The transaction may have been sent; its hash is lost with the answer.
PostUnanswered(w) ==
  /\ anchoring[w].step = "post"
  /\ Send(anchoring[w].ticket) \/ UNCHANGED anchors
  /\ AnchorFails(w)

\* The receipt as the gateway reads it.
Confirmed(k) == anchors[k].receipt = "CONFIRMED"

Poll(w) ==
  /\ anchoring[w].step = "poll"
  /\ LET k == anchoring[w].seenAttempt.tx IN
     IF Confirmed(k)
     THEN Finish(w, [anchor |-> "ANCHORED", tx |-> k],
                    [status |-> "CONFIRMED", tx |-> k])
     ELSE IF anchors[k].receipt = "PENDING"
     THEN Finish(w, anchoring[w].seenTicket, anchoring[w].seenAttempt)
     ELSE AnchorFails(w)
  /\ UNCHANGED anchors

PollFails(w) ==
  /\ anchoring[w].step = "poll"
  /\ AnchorFails(w)
  /\ UNCHANGED anchors

AnchorWorkerDies(w) ==
  /\ anchoring[w] # Free
  /\ anchoring' = [anchoring EXCEPT ![w] = Free]
  /\ \/ UNCHANGED anchors
     \/ anchoring[w].step = "post" /\ Send(anchoring[w].ticket)
  /\ UNCHANGED <<tickets, attempts>>

\* The contract accepts the first anchor of a hash and reverts the others.
MineAnchor(k) ==
  /\ anchors[k].receipt = "PENDING"
  /\ anchors' = [anchors EXCEPT ![k].receipt =
                   IF AnchoredOnChain(anchors[k].ticket) THEN "FAILED" ELSE "CONFIRMED"]
  /\ UNCHANGED <<tickets, attempts, anchoring>>

AnchorStep ==
  \/ \E t \in Tickets : RequestAnchor(t)
  \/ \E w \in Anchorers : Post(w) \/ PostUnanswered(w) \/ Poll(w) \/ PollFails(w)
                          \/ AnchorWorkerDies(w)
  \/ \E k \in DOMAIN anchors : MineAnchor(k)

-----------------------------------------------------------------------------
(* A ticket that says ANCHORED names a transaction that anchored that very *)
(* ticket and no other, whichever of several workers, retries and          *)
(* receipts got there (execute_ticket_anchor writes the ticket and its     *)
(* attempt from copies that may be stale).                                 *)
TicketsAreOnChain ==
  \A t \in Tickets :
    tickets[t].anchor = "ANCHORED" =>
      /\ tickets[t].tx # 0
      /\ anchors[tickets[t].tx] = [ticket |-> t, receipt |-> "CONFIRMED"]
=============================================================================
