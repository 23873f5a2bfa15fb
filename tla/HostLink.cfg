SPECIFICATION FairSpec
CONSTANT MaxEvents = 3
INVARIANTS TypeOK ClosedIsQuiet AtRestMeansUp ReceiverInSync
PROPERTIES LinkComesUp StopReturns ReaderReturns
CHECK_DEADLOCK FALSE
