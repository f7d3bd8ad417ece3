SPECIFICATION FairSpec
CONSTANTS
    Threads = {net, out}
    Modules = {m1, m2}
    Services = {m2}
    Ids = {text}
    Any = Any
    MaxHandle = 2
    Senders = {net}
    Registrars = {net}
INVARIANTS NoneMissed NoneAfterOff
PROPERTY EverybodyGoesOn
CHECK_DEADLOCK FALSE
