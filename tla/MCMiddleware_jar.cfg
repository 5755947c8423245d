\* Two concurrent calls that share a jar, with a redirect from one peer to the other.
SPECIFICATION Spec
CONSTANTS
    A = A
    B = B
    Calls = {c1, c2}
    Peers = {A, B}
    NoPeer = NoPeer
    SamePeer = SamePeer
    CookieNames = {"sid", "lang"}
    Stacks <- JarStacks
    Requests <- PostToEither
    Answers <- JarAnswers
    MaxRetries = 1
    MaxRedirects = 1
    BaseDelay = 0
INVARIANTS
    HomeInv
    CookiesStayHome
PROPERTIES
    CookiesAccumulate
\* Calls return.
CHECK_DEADLOCK FALSE
