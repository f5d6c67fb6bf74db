SPECIFICATION Spec
CONSTANT MaxSignals = 2
INVARIANTS TypeOK JoinedBeforeDestroy CoilsOffAtReturn
PROPERTIES InterruptEnds SerialEnds
