----------------------------- MODULE MCModules -----------------------------
(***************************************************************************)
(* Small instances of Modules: two interchangeable providers of a service, *)
(* and a module that requires it.                                          *)
(***************************************************************************)
EXTENDS Modules

CONSTANTS t1, t2, syslogA, syslogB, sshd

MCServices == {"logger", "ssh"}
Loggers == {syslogA, syslogB}
MCProvides == [m \in Modules |-> IF m \in Loggers THEN {"logger"} ELSE {"ssh"}]
MCRequires == [m \in Modules |-> IF m \in Loggers THEN {} ELSE {"logger"}]
AllTasks == TaskNames
PlainTasks == {"enable", "disable"}
CheckedTasks == {"enable", "disable", "suspend", "resume"}
=============================================================================
