-------------------------------- MODULE MCIpc --------------------------------
(***************************************************************************)
(* A command to which another one is chained, for model-checking Ipc.      *)
(***************************************************************************)
EXTENDS Ipc

MCChain == [list |-> <<"log">>, log |-> << >>]
==============================================================================
