SPECIFICATION Spec
CONSTANTS
  Thread = {t1, t2, t3}
  ParkEvent = {e1, e2, e3, e4, e5}
  NULL = null
  MaxHeld = 2
SYMMETRY Perms
INVARIANTS InOneHand
