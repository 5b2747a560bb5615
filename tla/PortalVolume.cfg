SPECIFICATION Spec
CONSTANTS
  p = p
  q = q
  Portals = {p, q}
  Forms <- Asking
  Absent = Absent
  Nobody = Nobody
  NoneItem = NoneItem
  MaxChanges = 2
  MaxSends = 1
INVARIANTS
  HighVolumeServed
CHECK_DEADLOCK FALSE
