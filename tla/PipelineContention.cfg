SPECIFICATION ContentionSpec
CONSTANTS
  m1 = m1
  m2 = m2
  w1 = w1
  w2 = w2
  Mandates <- TwoMandates
  Workers <- TwoWorkers
  Origins <- AllOrigins
  NoOrigin = "NONE"
  OriginOf <- UserOrigins
  Users <- OneUser
  UserOf <- BothOfUser
  Welcome = 3
  Requests <- Amounts02
  Maximum <- Ceilings
  Amounts <- Amounts02
  Budgets = {1, 2}
  Maxima = {2}
  Cap = 2
  LastDay = 1
  MaxTasks = 1
  PerActionCap <- PerAction
  Required = {1}
  StrictOrigins = {"AUTONOMOUS"}
  BrokerOutages = FALSE
  MaxCrashes = 1
  MaxCopies = 1
INVARIANTS
  DailyCap
  CreditMatches
  NoOverdraft
  ReservedBacked
PROPERTIES
  SpentIsFinal
SYMMETRY ContentionSymmetry
CHECK_DEADLOCK FALSE
