SPECIFICATION FairSpec
CONSTANTS
    ev_stop = ev_stop
    ev_pause = ev_pause
    stop2 = stop2
    pause2 = pause2
    StopEvents <- MCStopEvents
    PauseEvents <- MCPauseEvents
INVARIANTS TypeOK LateLoops
PROPERTIES StopEnds FreeLoops
