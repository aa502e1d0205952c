------------------------------- MODULE MCServers -------------------------------
(* The select server needs two sends before one of them is passed on: the  *)
(* first is a name.                                                        *)
EXTENDS Servers

Sends == [select |-> 4, poll |-> 2, echo |-> 2, file |-> 2]
=============================================================================
