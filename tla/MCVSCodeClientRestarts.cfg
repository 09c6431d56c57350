SPECIFICATION Spec
CONSTANTS
  Settings = {offline, live}
  Unset = unset
  NoClient = none
  MaxTasks = 2
  MaxChanges = 2
INVARIANT RestartsReplaceTheServer
CHECK_DEADLOCK FALSE
