SPECIFICATION Spec
CONSTANTS
  loopAlive = loopAlive
  timeIncrease = timeIncrease
  timeUpdate = timeUpdate
  keepAlive = keepAlive
  timeout = timeout
  NoTimer = NoTimer
  Main = Main
  Handler = Handler
  Timer <- MCTimer
  Timeout <- MCTimeout
  KeepAlive = loopAlive
  Caller <- MCCaller
  Intervals <- MCIntervals
  WorldIntervals <- MCWorldIntervals
  FirstId <- MCFirstId
CHECK_DEADLOCK FALSE
INVARIANTS IdsNameTimers ClearedIsSilent UnloadedIsSilent ListedWorldsLive
PROPERTY ShutdownEnds
