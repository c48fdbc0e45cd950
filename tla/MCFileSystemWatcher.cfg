SPECIFICATION FairSpec
CONSTANTS
  c1 = c1  c2 = c2
  Subscriber <- MCSubscriber
  QueueLimit = 2
  MaxEvents = 3
  MaxStarts = 1
CONSTRAINT MCDefined
INVARIANTS
  TypeOK
  NoEventSkipped
  NotifierDoesNotOversleep
PROPERTIES
  ChangeIsNoticed
  StopReturns
CHECK_DEADLOCK FALSE
