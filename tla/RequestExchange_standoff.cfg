\* One frame more than fits; nothing goes wrong.
SPECIFICATION FairSpec
CONSTANTS
    ReqFrames = 6
    RespFrames = 4
    Window = 2
    Handlers = {"echo"}
    Faults = {}
PROPERTIES
    EveryRequestCompletes
\* The exchange comes to an end.
CHECK_DEADLOCK FALSE
