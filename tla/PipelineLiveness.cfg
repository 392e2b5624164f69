SPECIFICATION FairSpec
CONSTANTS
  m1 = m1
  m2 = m2
  w1 = w1
  w2 = w2
  Mandates <- TwoMandates
  Workers <- TwoWorkers
  Origins <- AllOrigins
  NoOrigin = "NONE"
  OriginOf <- ManualOrUser
  Users <- OneUser
  UserOf <- M2OfUser
  Welcome = 3
  Requests <- Amounts03
  Maximum <- Ceilings
  Amounts <- Amounts03
  Budgets <- Budget3
  Maxima = {3}
  Cap = 4
  LastDay = 1
  MaxTasks = 2
  PerActionCap <- PerAction
  Required = {1, 2}
  StrictOrigins = {"AUTONOMOUS"}
  BrokerOutages = FALSE
  MaxCrashes = 0
  MaxCopies = 2
PROPERTY EveryMandateCloses
ACTION_CONSTRAINT OneAtATime
CHECK_DEADLOCK FALSE
