SPECIFICATION Spec
CONSTANTS
    Receivers = {net}
    Senders = {out}
    Packets = {p1, p2}
    MaxResets = 1
    Patient = TRUE
INVARIANTS TypeOK NoneSwallowed Drained
PROPERTY Delivers
CHECK_DEADLOCK FALSE
