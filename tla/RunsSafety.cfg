SPECIFICATION RunsSpec
CONSTANTS
  m1 = m1
  w1 = w1
  w2 = w2
  Mandates <- OneMandate
  Workers <- TwoWorkers
  Origins <- AllOrigins
  NoOrigin = "NONE"
  OriginOf <- Autonomous
  Users <- NoUsers
  UserOf <- NoUserMandates
  Welcome = 1
  Requests <- Amounts02
  Maximum <- Ceilings
  Amounts <- Amounts02
  Budgets <- Budget2
  Maxima = {2}
  Cap = 4
  LastDay = 0
  MaxTasks = 1
  PerActionCap <- PerAction
  Required = {1}
  StrictOrigins = {"AUTONOMOUS"}
  BrokerOutages = FALSE
  MaxCrashes = 1
  MaxCopies = 1
  Planned = {2}
  MaxPerDay = 4
  AutoTasks = 1
  SlowWorkers = TRUE
INVARIANTS
  AtMostOnePayment
  CompletedIsTicketed
SYMMETRY WorkerSymmetry
