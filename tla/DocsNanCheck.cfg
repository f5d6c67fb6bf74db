SPECIFICATION Spec
CONSTANT SH_BUFFER_SIZE = 3
INVARIANT NanCheckReadsSamples
