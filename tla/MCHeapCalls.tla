---------------------------- MODULE MCHeapCalls ----------------------------
(* Heaps of up to seven timers for TLC.                                    *)
EXTENDS HeapCalls

SevenTimers == 1..7
FourKeys == 0..3
=============================================================================
