SPECIFICATION BootSpec
CONSTANT MaxBoots = 4
INVARIANTS BootTypeOK OwnLog DurableCount
