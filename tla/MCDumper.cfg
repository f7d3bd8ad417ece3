SPECIFICATION FairSpec
CONSTANTS
    Threads = {net, render}
    Ids = {0, 1}
    MaxArms = 2
INVARIANT AsAsked
PROPERTIES EventuallyReleased
