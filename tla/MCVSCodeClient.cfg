SPECIFICATION Spec
CONSTANTS
  Settings = {offline, live}
  Unset = unset
  NoClient = none
  MaxTasks = 4
  MaxChanges = 2
INVARIANTS TypeOK OneServerAtATime SettlesOnPresentSettings
CHECK_DEADLOCK FALSE
