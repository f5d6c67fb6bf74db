SPECIFICATION Spec
CONSTANT MaxSignals = 2
PROPERTY InterruptAlwaysEnds
