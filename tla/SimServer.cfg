SPECIFICATION Spec
CONSTANTS
    PREAMBLE = 2
    DATA = 3
    MaxLost = 1
    MaxBuffered = 5
INVARIANTS TypeOK OnlyWholeFrames
PROPERTIES Resyncs ServerStops
