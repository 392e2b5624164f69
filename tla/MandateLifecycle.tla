---------------------------- MODULE MandateLifecycle ----------------------------
(***************************************************************************)
(* What the backend promises about one mandate, whoever works on it: it    *)
(* moves forward through the states of domain/state_machine.py, a decision *)
(* is recorded once and before the ticket, the ticket carries that         *)
(* decision, and a closed mandate never changes again.  This is the        *)
(* abstract specification MandatePipeline is checked to implement.  One    *)
(* database transaction may make several of the moves.                     *)
(***************************************************************************)
EXTENDS Naturals

CONSTANTS Mandates, Decisions, Undecided

VARIABLES status, decision, ticket

vars == <<status, decision, ticket>>

AllowedTransitions ==
  [RECEIVED   |-> {"PLANNED", "FAILED"},
   PLANNED    |-> {"ACQUIRING", "FAILED"},
   ACQUIRING  |-> {"EVALUATING", "FAILED"},
   EVALUATING |-> {"DECIDING", "FAILED"},
   DECIDING   |-> {"DECIDED", "FAILED"},
   DECIDED    |-> {"TICKETED", "FAILED"},
   TICKETED   |-> {},
   FAILED     |-> {}]

MandateStatus == DOMAIN AllowedTransitions

(* Where a transaction that makes several moves can end: the transitive      *)
(* closure of the table, which is a chain with an exit to FAILED.            *)
Rank ==
  [RECEIVED |-> 1, PLANNED |-> 2, ACQUIRING |-> 3, EVALUATING |-> 4,
   DECIDING |-> 5, DECIDED |-> 6, TICKETED |-> 7, FAILED |-> 7]

Closed == {"TICKETED", "FAILED"}

CanReach(s, t) == Rank[s] < Rank[t]

Init ==
  /\ status = [m \in Mandates |-> "NONE"]
  /\ decision = [m \in Mandates |-> Undecided]
  /\ ticket = [m \in Mandates |-> Undecided]

(* A mandate is created RECEIVED; the scheduler also records one whose spend *)
(* reservation was refused, FAILED from the start.                           *)
Open(m) ==
  /\ status[m] = "NONE"
  /\ \E s \in {"RECEIVED", "FAILED"} : status' = [status EXCEPT ![m] = s]
  /\ UNCHANGED <<decision, ticket>>

(* Moves that record nothing else; DECIDED cannot be passed this way.        *)
Move(m) ==
  /\ status[m] \in MandateStatus
  /\ \E s \in MandateStatus \ {"DECIDED", "TICKETED"} :
       /\ CanReach(status[m], s)
       /\ status' = [status EXCEPT ![m] = s]
  /\ UNCHANGED <<decision, ticket>>

Decide(m) ==
  /\ status[m] \in MandateStatus /\ CanReach(status[m], "DECIDED")
  /\ decision[m] = Undecided
  /\ status' = [status EXCEPT ![m] = "DECIDED"]
  /\ \E d \in Decisions : decision' = [decision EXCEPT ![m] = d]
  /\ UNCHANGED ticket

IssueTicket(m) ==
  /\ status[m] = "DECIDED"
  /\ ticket[m] = Undecided
  /\ status' = [status EXCEPT ![m] = "TICKETED"]
  /\ ticket' = [ticket EXCEPT ![m] = decision[m]]
  /\ UNCHANGED decision

Next == \E m \in Mandates : Open(m) \/ Move(m) \/ Decide(m) \/ IssueTicket(m)

Spec == Init /\ [][Next]_vars

=============================================================================
