SPECIFICATION GatewaySpec
CONSTANTS
  o1 = o1
  NoRow = NoRow
  NoOrder = NoOrder
  Orders = {o1}
  ReportWords = {"unreported", "submitted", "partial fill", "filling", "partially_canceled", "filled"}
  LastTs = 2
  MaxEvents = 3
  Redelivers = TRUE
  MaxStarts = 2
  MaxHostClients = 2
  Deployments = {"d1", "d2"}
  Processes = {"p1"}
  AlwaysOn = FALSE
  SubscribeFails = TRUE
  MaxClients = 2
INVARIANTS
  TypeOK
  ReportsAreReflected
  CancelStaysVisible
  FinalInBothViews
  ReadyClientIsOpen
  OwnersShareAHeardClient
PROPERTIES
  TerminalSticky
  ReconnectHappens
  SessionComesBack
  CallbacksAreRefreshed
CHECK_DEADLOCK FALSE
