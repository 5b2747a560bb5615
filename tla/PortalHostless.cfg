SPECIFICATION Spec
CONSTANTS
  p = p
  q = q
  Portals = {p, q}
  Forms <- Hosting
  Absent = Absent
  Nobody = Nobody
  NoneItem = NoneItem
  MaxChanges = 2
  MaxSends = 1
INVARIANTS
  NoNullClient
CHECK_DEADLOCK FALSE
