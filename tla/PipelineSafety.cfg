SPECIFICATION Spec
CONSTANTS
  m1 = m1
  m2 = m2
  w1 = w1
  w2 = w2
  Mandates <- TwoMandates
  Workers <- TwoWorkers
  Origins <- AllOrigins
  NoOrigin = "NONE"
  OriginOf <- ManualOrAutonomous
  Users = {}
  UserOf <- NoUserMandates
  Welcome = 3
  Requests <- Amounts03
  Maximum <- HighProfile
  Amounts <- Amounts03
  Budgets <- Amounts03
  Maxima = {2, 3}
  Cap = 4
  LastDay = 0
  MaxTasks = 2
  PerActionCap <- PerAction
  Required = {1}
  StrictOrigins = {"AUTONOMOUS"}
  BrokerOutages = TRUE
  MaxCrashes = 2
  MaxCopies = 2
INVARIANTS
  TypeOK
  PaidIsCovered
  HoldIsKept
  ClosedBooks
  PermitIsEarned
  WithinBudget
PROPERTIES
  ImplementsLifecycle
  UsesLedger
SYMMETRY WorkerSymmetry
ACTION_CONSTRAINT OneAtATime
CHECK_DEADLOCK FALSE
