\* Short texts and some long ones, cut into frames in every way.
SPECIFICATION FairSpec
CONSTANTS
    Formats = {"sse", "ndjson"}
    Bodies <- Texts
    MaxFrames = 3
INVARIANTS
    IInv
    FramingDoesNotMatter
    NothingHeldBack
PROPERTIES
    StreamEnds
\* Streams end, and a peer may stop sending.
CHECK_DEADLOCK FALSE
