\* Three calls to two peers, two of which may be cancelled.
SPECIFICATION FairSpec
CONSTANTS
    Calls = {c1, c2, c3}
    Peers = {p1, p2}
    Cancellable = {c1, c2}
    NoFuture = NoFuture
    NoPeer = NoPeer
INVARIANTS
    IInv
    OneLinkPerPeer
    OpenIsCached
PROPERTIES
    EvictsOnlyTheDead
    NeverRejoinsAnnounced
    ImplementsPeerLink
    LinkForgotten
    CallsReturnUnlessPoisoned
    LostConnectionAnnounced
\* Calls are not obliged to start, and a call returns once.
CHECK_DEADLOCK FALSE
