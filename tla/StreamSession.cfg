CONSTANTS
  Events = {e1}
  Interval = 2
  MaxWrites = 2
  MaxAttempts = 2
SPECIFICATION FairSpec
INVARIANTS
  TypeOK
  NeverMixJSONAndSSE
  FinalErrorIsLast
  OneAttemptInOrder
  PromotedEventsDelivered
  StopJoinsHeartbeat
  BoundedSilence
PROPERTIES
  ImplementsDownstream
  SilentOnceUnavailable
  HeartbeatEnds
