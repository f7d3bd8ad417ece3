SPECIFICATION AppFairSpec
CONSTANTS
    N = 1
    Silent = {}
    DefaultOn = {}
    Requiring = {}
    Threads = {game, net}
    Typists = {game}
    MaxSessions = 2
    Callers = {"tick", "command", "task"}
    Slow = TRUE
    Settled = TRUE
    Patient = TRUE
INVARIANTS AppTypeOK ListenersDetached HooksAgree  NothingAfterFree
PROPERTY EjectEnds
CHECK_DEADLOCK FALSE
