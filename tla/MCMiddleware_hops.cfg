\* The jar above the redirects: one call, one redirect from one peer to the other.
SPECIFICATION Spec
CONSTANTS
    A = A
    B = B
    Calls = {c1}
    Peers = {A, B}
    NoPeer = NoPeer
    SamePeer = SamePeer
    CookieNames = {"sid"}
    Stacks <- JarAboveRedirects
    Requests <- PostToEither
    Answers <- JarAnswers
    MaxRetries = 0
    MaxRedirects = 1
    BaseDelay = 0
INVARIANTS
    CookiesStayHome
\* Calls return.
CHECK_DEADLOCK FALSE
