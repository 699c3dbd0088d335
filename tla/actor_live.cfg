CONSTANTS
  Actors = {a1, a2}
  Names = {x}
  NameOf <- MCNameOf
  NoActor = NoActor
  Callers = {c1, c2}
  All = All
  Cancels = TRUE
  MailMax = 1
  MaxCalls = 1
SPECIFICATION FairSpec
PROPERTIES CloseReturns CallsReturn
CHECK_DEADLOCK FALSE
