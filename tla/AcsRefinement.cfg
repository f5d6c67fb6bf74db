SPECIFICATION Spec
CONSTANT SH_BUFFER_SIZE = 64
INVARIANTS TypeOK DecisionWindow NewestCoherent FilterWindows SafeWithoutData SunModesSeeSun
PROPERTIES ImplementsModes Recovers SettledBecomesReady
