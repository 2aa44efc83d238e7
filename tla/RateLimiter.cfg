SPECIFICATION Spec
CONSTANTS
  alice = alice
  bob = bob
  Keys = {alice, bob}
  MaxRequests = 2
  Window = 2
  MaxNow = 7
  MaxCount = 4
  None = None
SYMMETRY Symmetry
INVARIANTS
  TypeOK
  SlidingBound
PROPERTIES
  RefusedOnlyWhenFull
  ImplementsFixedWindow
