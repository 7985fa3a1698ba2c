---------------------------- MODULE MCServerRun ----------------------------
(* Main, one worker, the three intervals of the base plugin, one timeout. *)
EXTENDS ServerRun
CONSTANTS loopAlive, timeIncrease, timeUpdate, keepAlive, timeout
MCTimer == {loopAlive, timeIncrease, timeUpdate, keepAlive, timeout}
MCTimeout == {timeout}
MCCaller == {Main, Handler}
MCIntervals == <<timeIncrease, timeUpdate, keepAlive>>
MCWorldIntervals == {timeIncrease, timeUpdate}
(* Ids start close enough to -1 to pass it. *)
MCFirstId == -4
=============================================================================
