SPECIFICATION MCSpec
CONSTANTS
  CallKinds <- MCCallKinds
  Hooks = 2
  Last = 2
  Nothing = Nothing
  Sdks = {"s"}
  Calls = {"a", "b"}
  SdkOf <- MCOwner
  OperationOf <- MCOperation
  MaxTime = 1
  None = None
CHECK_DEADLOCK FALSE
INVARIANTS
  StreamTypeOK
  ConnectionsReleased
  OutcomesAreTrue
  UnsafeSentOnce
  TypeOK
  CountsAreKept
  WindowsAreSound
PROPERTIES
  EventsAreDelivered
  FailuresAreTrue
  FlushTriesAll
  ClientEnds
