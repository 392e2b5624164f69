\* Two workers, one job row, two creations, two anchor transactions; two
\* receipts of which the agent owns one, two browsers, two sessions.
SPECIFICATION TicketsSpec
CONSTANTS
  w1 = w1
  w2 = w2
  b1 = b1
  b2 = b2
  Workers <- MCWorkers
  Anchorers <- MCWorkers
  Tickets <- MCTicketIds
  MaxRows = 1
  MaxCreates = 2
  MaxAnchors = 2
  Callback = TRUE
  Receipts = {1, 2}
  Owned = {1}
  Browsers <- MCBrowsers
  AddressOf <- OneAddress
  Window = 1
  AddressCap = 2
  ReceiptCap = 2
  Lifetime = 2
  Deadline = 1
  LastTime = 2
  MaxSessions = 2
SYMMETRY Symmetry
INVARIANT ClosedOnChain
INVARIANT CreatedPerLostAnswer
INVARIANT CertifiedIsProven
INVARIANT DisclosureIsEarned
INVARIANT AccessIsLimited
PROPERTY VerdictsAreFinal
CHECK_DEADLOCK FALSE
