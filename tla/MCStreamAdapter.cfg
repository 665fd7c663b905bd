SPECIFICATION LiveStreamSpec
CONSTANT Others = 1
INVARIANTS PartsCounted
PROPERTIES NoNeedlessReset SignalReleasesHalves
CHECK_DEADLOCK FALSE
