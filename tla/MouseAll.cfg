\* Packets that overrun the radio, and a host that resets, reconfigures,
\* suspends and halts the mouse.
SPECIFICATION FairSpec
CONSTANTS
  FifoDepth = 3
  MaxPackets = 5
  MaxEvents = 4
INVARIANT TypeOK
INVARIANT BusyIsArmed
INVARIANT FifoAnnounced
INVARIANT JunkOnlyAfterLateArrival
PROPERTY MouseComesBack
PROPERTY InOrder
CHECK_DEADLOCK FALSE
