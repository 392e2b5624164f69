SPECIFICATION IntakeSpec
CONSTANTS
  m1 = m1
  m2 = m2
  w1 = w1
  w2 = w2
  t1 = t1
  t2 = t2
  Nothing = Nothing
  Anonymous = "anonymous"
  Mandates <- TwoMandates
  Origins = {"M2M"}
  NoOrigin = "NONE"
  LastDay = 0
  Cap = 2
  Amounts = {1}
  Maxima = {1}
  Agents <- OneAgent
  Contexts <- Wallets
  Threads <- TwoThreads
  M2MKeys = {"k"}
  M2MRequests = {"q1", "q2"}
  AgentOf <- Agent
  BudgetOf <- CostsOne
  M2MContext = "token"
  M2MMaximum = 1
  Processes <- TwoProcesses
  PayKeys = {"K"}
  Payments <- TwoPayments
  PayerOf <- OneWallet
  AskRequests = {"a", "b"}
  Price = 1
  SellerMaximum = 1
  Asks <- FourAsks
  LongReceipts = TRUE
INVARIANTS
  ChargedIsOnRecord
  WorkIsPaid
  OneRequestPerReservation
PROPERTY ImplementsIntake
SYMMETRY Interchangeable
