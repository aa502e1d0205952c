------------------------------ MODULE MCTimers ------------------------------
(* Small instances of Timers for TLC.                                      *)
EXTENDS Timers, TLC

CONSTANTS t1, t2, t3, t4

ThreeTimers == {t1, t2, t3}
FourTimers == {t1, t2, t3, t4}
TimerSymmetry == Permutations(Timer)
UpTo3 == 0..3
ShortTicks == {0, 1}
OnlyList == {"list"}
OnlyWheel == {"wheel"}
=============================================================================
