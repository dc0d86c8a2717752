SPECIFICATION SceneSpec
CONSTANTS
  Services = {"a", "b", "c"}
  Requires <- Simple
  Alias <- Grouped
  Fragile = {"a"}
  Nobody = "nobody"
  Requests <- Changes
  MaxPlans = 2
  Pings = 1
  ServiceNames = {"tty", "net", "mount", "point"}
  Listed = {"tty", "mount", "point"}
  Feedback = {"tty"}
  Modes = {"default", "boot", "local", "off", "halt"}
  Mode <- Configured
  Checkpoint <- Checkpoints
  MaxMade = 2
  Mods = {"gdm", "kdm", "xdm"}
  Kinds = {"dm", "kde"}
  Provides <- Provided3
  Deprecated = {"xdm"}
  Prefer <- XdmFirst
  Wishes <- Displays
  MayFail = {"gdm", "xdm"}
  MaxCommits = 2
INVARIANTS TypesOK AfterKept ChosenFirst
PROPERTIES DeclaredWhole PlanComplete WorkEnds
CHECK_DEADLOCK FALSE
