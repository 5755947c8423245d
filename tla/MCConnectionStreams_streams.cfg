\* Three calls, two of which share a handle, and one or two streams at a time.
SPECIFICATION FairSpec
CONSTANTS
    c1 = c1
    c2 = c2
    c3 = c3
    h1 = h1
    h2 = h2
    Calls = {c1, c2, c3}
    Handles = {h1, h2}
    Via <- MCVia
    NoCall = NoCall
    Limits = {1, 2}
    Slow = {c1}
    Hung = {c2}
INVARIANTS
    IInv
    TasksBounded
PROPERTIES
    ImplementsStreamSlots
    OpensUnlessSaturated
    RequestsAreTaken
    ClosedIsOver
\* Calls are not obliged to start.
CHECK_DEADLOCK FALSE
