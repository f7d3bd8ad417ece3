SPECIFICATION AppFairSpec
CONSTANTS
    N = 1
    Silent = {}
    DefaultOn = {1}
    Requiring = {}
    Threads = {game}
    Typists = {game}
    MaxSessions = 1
    Callers = {"command"}
    Slow = TRUE
    Settled = TRUE
    Patient = TRUE
PROPERTY TrycmdReturns
CHECK_DEADLOCK FALSE
