---------------------------- MODULE MCTimerQueue ----------------------------
EXTENDS TimerQueue, TLC

CONSTANTS t1, t2

(* t1 comes from runEvery, t2 from runAt; each Timer object can be made     *)
(* again after it was deleted                                               *)
MCTimers == {t1, t2}
MCRepeating == {t1}
=============================================================================
