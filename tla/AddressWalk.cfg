SPECIFICATION Spec
CHECK_DEADLOCK FALSE
CONSTANTS
  Bytes = 2
  ByteBits = 2
  Invalid = Invalid
  Before <- MCBefore
  ServiceCIDRLists <- MCServiceCIDRLists
  Reservations <- MCReservations
INVARIANTS
  AllocatesHosts
  FailsOnlyWhenFull
  FirstFit
PROPERTIES
  WalkAdvances
  WalkEnds
