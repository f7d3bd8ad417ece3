SPECIFICATION FairSpec
CONSTANTS
    Receivers = {net, srv}
    Senders = {}
    Packets = {p1}
    MaxResets = 0
    Patient = TRUE
INVARIANT FlushedByTrap
PROPERTIES EventuallyTaken UninstallEnds
CHECK_DEADLOCK FALSE
