\* A call that may be cancelled and one that may not, to one peer.
SPECIFICATION FairSpec
CONSTANTS
    Calls = {c1, c2}
    Peers = {p1}
    Cancellable = {c1}
    NoFuture = NoFuture
    NoPeer = NoPeer
PROPERTIES
    EveryCallReturns
CHECK_DEADLOCK FALSE
