SPECIFICATION ShellSpec
CONSTANTS
    None = None
    Sessions = {1, 2}
    Opened = {1}
    MaxActs = 3
    ProjectIds = {1, 2, 3}
    Founded = {2, 3}
    Typo = 9
    Nowhere = Nowhere
    Quiet = Quiet
    OnItsWay = OnItsWay
    Chat = "c"
    MaxSteps = 4
    MaxFailures = 1
INVARIANTS
  RailHonest
PROPERTIES
  RailConverges
  RouteSound
CHECK_DEADLOCK FALSE
