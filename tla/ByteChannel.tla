---------------------------- MODULE ByteChannel ----------------------------
(***************************************************************************)
(* What one direction of a stream promises to HTTP/3: the reader gets a    *)
(* prefix of the bytes the writer was allowed to hand over, and is told of *)
(* their end only if it has all of them, unless the channel was cut.  A    *)
(* writer cuts it that closes after it abandoned a write and did not take  *)
(* it up again, or that is dropped in the middle of one; no other does.    *)
(***************************************************************************)
EXTENDS Naturals

CONSTANT Cutters  \* what writers here may do in the middle of a write: "write",
                  \* abandon it; "drop", be dropped

VARIABLES
    accepted,   \* bytes handed over
    delivered,  \* bytes the reader got
    end,        \* the writer's end: "open", "abandoned" (a write is), "closed",
                \* "cut", "broken"
    seen        \* what the reader knows of it: "nothing", "eof", "error"

vars == <<accepted, delivered, end, seen>>

Init == accepted = 0 /\ delivered = 0 /\ end = "open" /\ seen = "nothing"

Accept ==
    /\ end \in {"open", "broken"}
    /\ accepted' \in Nat /\ accepted' > accepted
    /\ UNCHANGED <<delivered, end, seen>>

Deliver ==
    /\ seen = "nothing"
    /\ delivered' \in Nat /\ delivered' > delivered /\ delivered' <= accepted
    /\ UNCHANGED <<accepted, end, seen>>

Close == end = "open" /\ end' = "closed" /\ UNCHANGED <<accepted, delivered, seen>>

Abandon ==
    /\ "write" \in Cutters
    /\ end = "open" /\ end' = "abandoned"
    /\ UNCHANGED <<accepted, delivered, seen>>

TakeUp ==
    /\ end = "abandoned" /\ end' = "open"
    /\ UNCHANGED <<accepted, delivered, seen>>

Cut ==
    /\ end = "abandoned" \/ (end = "open" /\ "drop" \in Cutters)
    /\ end' = "cut"
    /\ UNCHANGED <<accepted, delivered, seen>>

Break == end' = "broken" /\ UNCHANGED <<accepted, delivered, seen>>

SeeEof ==
    /\ \/ end = "closed" /\ delivered = accepted
       \/ end = "cut"
    /\ seen = "nothing"
    /\ seen' = "eof"
    /\ UNCHANGED <<accepted, delivered, end>>

SeeError ==
    /\ end = "broken"
    /\ seen = "nothing"
    /\ seen' = "error"
    /\ UNCHANGED <<accepted, delivered, end>>

Next ==
    \/ Accept \/ Deliver \/ Close \/ Abandon \/ TakeUp \/ Cut \/ Break
    \/ SeeEof \/ SeeError

Spec == Init /\ [][Next]_vars
=============================================================================
