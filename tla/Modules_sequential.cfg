SPECIFICATION Spec
CONSTANTS
  t1 = t1
  t2 = t2
  syslogA = syslogA
  syslogB = syslogB
  sshd = sshd
  Threads = {t1}
  Modules = {syslogA, syslogB, sshd}
  NoThread = NoThread
  NoModule = NoModule
  Services <- MCServices
  Provides <- MCProvides
  Requires <- MCRequires
  CanEnable = {syslogA, syslogB, sshd}
  CanDisable = {syslogA, syslogB, sshd}
  HasCustom = {syslogA}
  Suspendable = {syslogA}
  Tasks <- PlainTasks
  MaxCalls = 7
INVARIANTS DependenciesHold
CHECK_DEADLOCK FALSE
