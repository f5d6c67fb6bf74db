SPECIFICATION Spec
CONSTANTS
    CHANNELS = 3
    ADDRESSES = 2
    Counts = {0, 1, 612, 613, 1838, 3000, 4900, 4901, 65535}
INVARIANTS TypeOK InitFindsSensors OwnBrightness PoweredDown LuxExact
