\* The sequencer process and its block builder.
CONSTANTS
    Builds = {1, 2}
    MaxBlocks = 4
    MaxLost = 1
    MaxSignals = 2
    MaxCrashes = 1
SPECIFICATION FairSequencerSpec
CONSTRAINT SequencerScope
INVARIANTS FinalityHolds HealthIsHonest
PROPERTIES StopsInTheEnd CleanExit
CHECK_DEADLOCK FALSE
