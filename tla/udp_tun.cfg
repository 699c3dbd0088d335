CONSTANTS
  MailMax = 2
  Delayed = {"out"}
  MaxPackets = 2
  MaxSessions = 2
SPECIFICATION FairSpec
INVARIANTS ActorServes CountsAgree TotalIsSum
PROPERTIES LinkSpec ServedIsForwarded DisconnectReturns
CHECK_DEADLOCK FALSE
