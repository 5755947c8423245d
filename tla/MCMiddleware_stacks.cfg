\* One call through seven stacks; the base service need not answer.
SPECIFICATION FairSpec
CONSTANTS
    A = A
    B = B
    Calls = {c1}
    Peers = {A, B}
    NoPeer = NoPeer
    SamePeer = SamePeer
    CookieNames = {"sid"}
    Stacks <- MixedStacks
    Requests <- AllRequests
    Answers <- AllAnswers
    MaxRetries = 2
    MaxRedirects = 2
    BaseDelay = 1
INVARIANTS
    IInv
    SendsBounded
    BytesReachEveryHop
    BodyReplayedOnRedirectOnly
    NoBodyOnGet
    LimitsWereReached
PROPERTIES
    AnswerIsFinal
    RelativeStays
    HangsOnlyIfExempt
\* Calls return.
CHECK_DEADLOCK FALSE
