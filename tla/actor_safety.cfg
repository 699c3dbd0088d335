CONSTANTS
  Actors = {a1, a2}
  Names = {x}
  NameOf <- MCNameOf
  NoActor = NoActor
  Callers = {c1, c2}
  All = All
  Cancels = TRUE
  MailMax = 2
  MaxCalls = 2
SPECIFICATION Spec
INVARIANTS TypeOK OneLoopPerName ClosedIsGone NoPanic
PROPERTY RequestsSpec
CHECK_DEADLOCK FALSE
