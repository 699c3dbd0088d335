CONSTANTS
  Actors = {a1, a2}
  Names = {x}
  NameOf <- MCNameOf
  NoActor = NoActor
  Callers = {c1, c2}
  All = All
  Cancels = FALSE
  MailMax = 1
  MaxCalls = 2
SPECIFICATION FairSpec
PROPERTY AsyncReturns
CHECK_DEADLOCK FALSE
