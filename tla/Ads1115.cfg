SPECIFICATION Spec
INVARIANTS TypeOK SuccessIsSampled
PROPERTY PollEnds
