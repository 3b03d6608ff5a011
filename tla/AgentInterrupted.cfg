SPECIFICATION FairSpec
CONSTANT MaxSignals = 3
INVARIANTS TypeOK ManagerOutlivesPoller
PROPERTIES InterruptEnds NoIdleProgram
