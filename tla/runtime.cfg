\* Two runs over two leased tickets, providers failing in every way, operators
\* saving the configuration and resolving incidents meanwhile.
SPECIFICATION FairSpec
CONSTANTS
  a = a
  b = b
  t1 = t1
  w1 = w1
  w2 = w2
  Providers = {a, b}
  NoProvider = NoProvider
  CeoTarget = "ceo"
  Legacy <- McLegacy
  ModelOf <- McModelOf
  Parts = 2
  Drivers = {1, 2}
  Tickets = {t1}
  NoTicket = NoTicket
  Workers = {w1, w2}
  NoWorker = NoWorker
  Delivery = {t1}
  TargetOf <- McTargetOf
  PreferenceOf <- McPreference
  EmployeeProvider <- McEmployee
  Configs <- McConfigs
  MaxAttempts = 3
CHECK_DEADLOCK FALSE
INVARIANTS
  OneDriverPerTicket
  
  NoProviderCalledTwice
PROPERTIES
  EveryRunEnds
