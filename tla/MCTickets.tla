----------------------------- MODULE MCTickets -----------------------------
(* The instances of CertifiedEvidence and TitularDisclosure that TLC        *)
(* checks.  The two share no state, and neither do the agent's side and     *)
(* the public side of a disclosure but for the first ISSUED fact, so each   *)
(* behaviour runs one part: the sum of the state spaces, not their product. *)
(*                                                                          *)
(* Certified tickets are named by the creations they can come from, one     *)
(* pool of workers runs every task, and both browsers share an address.     *)
EXTENDS CertifiedEvidence, TitularDisclosure, TLC

CONSTANTS w1, w2, b1, b2

VARIABLE part

MCWorkers == {w1, w2}
MCTicketIds == 1 .. MaxCreates
MCBrowsers == {b1, b2}
OneAddress == [b \in Browsers |-> "address"]
Symmetry == Permutations(MCWorkers) \union Permutations(MCBrowsers)

TicketsInit ==
  /\ Init
  /\ DisclosureInit
  /\ part \in {"evidence", "agent", "page"}

TicketsNext ==
  /\ UNCHANGED part
  /\ \/ part = "evidence" /\ Next /\ UNCHANGED disclosureVars
     \/ part = "agent" /\ (AgentStep \/ Tick) /\ UNCHANGED vars
     \/ /\ part = "page"
        /\ (\E b \in Browsers : BrowserStep(b)) \/ Tick
        /\ UNCHANGED vars

TicketsSpec == TicketsInit /\ [][TicketsNext]_<<vars, disclosureVars, part>>
=============================================================================
