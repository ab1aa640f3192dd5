SPECIFICATION FairSpec
CONSTANTS
  connect = connect
  satellite = satellite
  Nobody = Nobody
  Client = {connect, satellite}
  Shape <- MCShape
  IdCount = 3
  MaxCalls = 2
  MaxCrashes = 1
  MaxInbox = 1
INVARIANTS TypeOK ExclusiveExchange AnswersOwnAttempt IdsTellAttemptsApart NobodyStranded
PROPERTIES EveryCallEnds EveryStepCounts
\* The bound on calls stops the clients; EveryCallEnds is what rules out a call that hangs.
CHECK_DEADLOCK FALSE
