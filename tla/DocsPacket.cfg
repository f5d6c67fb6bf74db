SPECIFICATION Spec
CONSTANTS
  MaxFrame = 2
  MaxCycle = 2
  Command = {0, 1}
  Off = 0
  PacketPieces = 2
INVARIANT PacketOfOneCycle
