SPECIFICATION FairSpec
CONSTANTS
  m1 = m1
  m2 = m2
  w1 = w1
  w2 = w2
  Mandates <- OneMandate
  Workers <- TwoWorkers
  Origins <- AllOrigins
  NoOrigin = "NONE"
  OriginOf <- Manual
  Users <- OneUser
  UserOf <- NoUserMandates
  Welcome = 3
  Requests <- Amounts03
  Maximum <- Ceilings
  Amounts <- Amounts03
  Budgets <- Budget3
  Maxima = {3}
  Cap = 4
  LastDay = 0
  MaxTasks = 2
  PerActionCap <- PerAction
  Required = {1, 2}
  StrictOrigins = {"AUTONOMOUS"}
  BrokerOutages = FALSE
  MaxCrashes = 1
  MaxCopies = 2
PROPERTY ResumesOnRedelivery
CHECK_DEADLOCK FALSE
