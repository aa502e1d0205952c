---------------------------- MODULE MCThreadPool ----------------------------
(* Small instances of ThreadPool for TLC.                                  *)
EXTENDS ThreadPool, TLC

CONSTANTS c1, c2

OneClient == {c1}
TwoClients == {c1, c2}
ClientSymmetry == Permutations(TwoClients)
NoFaults == {}
NoPause == {"add", "wait", "destroy"}
OnlyWait == {"add", "wait"}
PauseResume == {"add", "pause", "resume"}

=============================================================================
