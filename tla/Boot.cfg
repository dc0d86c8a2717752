SPECIFICATION BootSpec
CONSTANTS
  Callers = {"t1", "t2"}
  Scheduler = "s"
  Modules = {"module"}
  Fragile = {"module"}
  Free = "free"
  Mountpoints <- UsrLocal
  Device <- SameDevice
  Options <- LocalCritical
  Ordered <- ByPath
  Swap = {}
  Keep = {}
  Commands <- UsrLocal
  MayFail <- JustLocal
  Unprovided = {}
  Overlap = FALSE
  Nobody <- NoThread
  MaxRequests = 2
  MaxUpdates = 1
  Interfaces <- EthAndBridge
  Wanted = {"eth0", "br0"}
  Controllers <- Links
  Managers <- Addresses
  Actions <- Scripts
  Bridge <- OverEth1
  CustomCommands = {"renew"}
  MaxStarts = 2
  MaxScans = 1
  DeviceManagers = {"edev", "udev", "mdev", "static"}
  Devices = {"null", "wlan"}
  Attribute <- Attributes
  EdevRules <- TwoRules
  Present = {"null"}
  Firmware = {"wlan"}
  OnDisk = {"wlan"}
  Impatient = TRUE
  Groups = {"generic", "audio", "bridge"}
  Services = {"bridge"}
  Background = {"audio"}
  Stubborn = {"wlan"}
  MaxPlugs = 2
  MaxQueue = 2
  MaxTime = 3
  SnoozeTime = 2
  Slack = 1
  MaxEvents = 2
  Rids = {"gentoo-xdm", "gentoo-localmount"}
  ModeNames = {"boot", "default"}
  Updaters = {"scan", "command"}
  ServiceIds <- Known
  Declared <- GentooServices
  Configurations <- GentooNodes
  MaxChanges = 1
  MaxNames = 1
INVARIANTS TypesOK FrontRuns DevicesReady TextsKept ConfigurationTaken RequirementsKept
INVARIANTS TickPending EventsReach
PROPERTIES NotHidden
CHECK_DEADLOCK FALSE
