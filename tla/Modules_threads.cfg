SPECIFICATION FairSpec
CONSTANTS
  t1 = t1
  t2 = t2
  syslogA = syslogA
  syslogB = syslogB
  sshd = sshd
  Threads = {t1, t2}
  Modules = {syslogA, sshd}
  NoThread = NoThread
  NoModule = NoModule
  Services <- MCServices
  Provides <- MCProvides
  Requires <- MCRequires
  CanEnable = {syslogA, sshd}
  CanDisable = {syslogA, sshd}
  HasCustom = {syslogA}
  Suspendable = {syslogA}
  Tasks <- AllTasks
  MaxCalls = 3
PROPERTIES CallsReturn
INVARIANTS TypeOK OneCallPerModule UsageMatchesStatus ActiveNotSuspended WorkingMeansBusy
CHECK_DEADLOCK FALSE
