CONSTANT Setups <- SafetySetups
SPECIFICATION Spec
INVARIANTS TypeOK  CountersAgree NoHalfOpenLeft NothingAfterEnd ConcurrencyLimits GoawayCoversStreams ClosedRetention IdleRetention
PROPERTIES ClosureReported
CHECK_DEADLOCK FALSE
