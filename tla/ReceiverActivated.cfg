SPECIFICATION Spec
CONSTANTS
  ada = ada
  ben = ben
  Participants = {ada, ben}
  Nobody = Nobody
  NoneItem = NoneItem
  MaxChanges = 1
  MaxCalls = 2
  MaxFaults = 2
PROPERTIES
  ActivatedIsCurrent
CHECK_DEADLOCK FALSE
