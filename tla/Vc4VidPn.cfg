SPECIFICATION VidPnSpec
INVARIANT NothingHeldBetweenCalls
INVARIANT NegotiatedIsCommitted
PROPERTY PinsSurviveEnum
PROPERTY CommitIsAtomic
