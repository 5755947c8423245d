--------------------------- MODULE RequestExchange ---------------------------
(***************************************************************************)
(* One HTTP/3 request on one bidirectional stream, from both ends:         *)
(*   - the client's ConnectionManager::handle with send_body, and the      *)
(*     IrohH3ResponseBody through which the caller reads the response;     *)
(*   - the server's handle_request task with its RequestBody, and the      *)
(*     axum handler behind the router, which is external.                  *)
(*                                                                         *)
(* The client writes the whole request body before it looks for a          *)
(* response.  Each direction of the stream holds at most Window DATA       *)
(* frames that the other side has not read (QUIC flow control and          *)
(* buffers); frames are counted, not told apart, and trailers, which no    *)
(* reader here looks at, are left out.  A half of a stream that is dropped *)
(* is finished (the sending half) or stopped (the receiving half): this is *)
(* how iroh's streams are dropped.                                         *)
(***************************************************************************)
EXTENDS Naturals

CONSTANTS
    ReqFrames,   \* DATA frames of the request body
    RespFrames,  \* DATA frames of the response of a handler that does not echo
    Window,      \* unread frames one direction of the stream can hold
    Handlers,    \* what axum handlers do with the request body
    Faults       \* what may go wrong

ASSUME SizesAssumption ==
    /\ ReqFrames \in Nat
    /\ RespFrames \in Nat
    /\ Window \in Nat \ {0}

ASSUME KindsAssumption ==
    /\ Handlers \subseteq {"collect", "echo", "ignore"}
    /\ Faults \subseteq {"request body", "response body", "drop", "shutdown", "loss"}

VARIABLES
    client,    \* where handle, and then the reader of the response, is
    server,    \* where the handle_request task is
    handler,   \* the kind of handler the router called
    body,      \* the RequestBody: dropped early, it stops the client's half
    conn,      \* the QUIC connection
    (* the request's direction *)
    unsent,    \* frames the request body has still to yield
    up,        \* unread frames
    upEnd,     \* "fin" once the client's sending half is finished
    got,       \* frames the handler has read
    (* the response's direction *)
    hand,      \* chunks yielded by the handler's stream and not sent yet
    made,      \* frames sent
    head,      \* "sent" once the response's head is
    down,      \* unread frames
    downEnd,   \* "fin" once the server's sending half is finished
    received   \* frames the caller has read

request  == <<unsent, up, upEnd, got>>
response == <<hand, made, head, down, downEnd, received>>
vars == <<client, server, handler, body, conn, request, response>>

PlacesOK ==
    /\ client \in {"start", "sending", "finishing", "awaiting", "reading", "complete",
                   "failed", "body failed", "dropped"}
    /\ server \in {"waiting", "handling", "replying", "finished", "broken off", "aborted"}
    /\ handler \in Handlers \cup {"none"}
    /\ body \in {"held", "eof", "error", "dropped"}
    /\ conn \in {"open", "closed", "lost"}
    /\ upEnd \in {"open", "fin"} /\ downEnd \in {"open", "fin"} /\ head \in {"none", "sent"}

CountsOK ==
    /\ unsent \in 0..ReqFrames /\ up \in 0..Window /\ got \in 0..ReqFrames
    /\ hand \in 0..1 /\ made \in Nat /\ down \in 0..Window /\ received \in Nat

TypeOK == PlacesOK /\ CountsOK

Init ==
    /\ client = "start" /\ server = "waiting" /\ handler = "none" /\ body = "held"
    /\ conn = "open"
    /\ unsent = ReqFrames /\ up = 0 /\ upEnd = "open" /\ got = 0
    /\ hand = 0 /\ made = 0 /\ head = "none" /\ down = 0 /\ downEnd = "open" /\ received = 0

\* What becomes of a sending half that is finished: once the connection is
\* gone the other side does not hear of it.
Fin(end) == IF conn = "open" THEN "fin" ELSE end

\* The client ended without a whole response: its halves of the stream are dropped.
GaveUp == client \in {"failed", "body failed", "dropped"}

-----------------------------------------------------------------------------
(* The client. *)

\* A step of the client that touches neither direction.
ClientMoves(from, to) ==
    /\ client = from
    /\ client' = to
    /\ UNCHANGED <<server, handler, body, conn, request, response>>

\* handle, or the reader of the response, ends and drops the stream.
Leave(outcome) ==
    /\ client' = outcome
    /\ upEnd' = Fin(upEnd)
    /\ UNCHANGED <<server, handler, body, conn, unsent, up, got, response>>

\* sender.send_request(req): the stream is open and the head on its way.
SendRequest == conn = "open" /\ ClientMoves("start", "sending")

\* send_body: one frame of the body, once there is room for it.  The client may
\* go on for a while after the server dropped the body.
SendBodyFrame ==
    /\ client = "sending"
    /\ unsent > 0
    /\ up < Window
    /\ conn = "open"
    /\ unsent' = unsent - 1
    /\ up' = up + 1
    /\ UNCHANGED <<client, server, handler, body, conn, upEnd, got, response>>

\* Mutant: send_body stops at the first frame it does not expect.
BodyEndsEarly == ClientMoves("sending", "finishing")

\* The body has no more frames: send_body returns.
BodyEnds == unsent = 0 /\ ClientMoves("sending", "finishing")

\* The streaming body yields an error: send_body and handle return it.
BodyFails ==
    /\ "request body" \in Faults
    /\ client = "sending"
    /\ Leave("body failed")

\* stream.finish(), which may have a last write of h3's to make.
Finish == client = "finishing" /\ Leave("awaiting")

\* Mutant: the writer does not hear that the server dropped the body.
WriteErrorIfConnectionGone ==
    /\ client \in {"start", "sending", "finishing"}
    /\ conn # "open"
    /\ Leave("failed")

\* A write fails: the server dropped the body, or the connection is gone.
WriteError ==
    /\ \/ client = "start" /\ conn # "open"
       \/ client = "sending" /\ unsent > 0 /\ (body = "dropped" \/ conn # "open")
       \/ client = "finishing" /\ (body = "dropped" \/ conn # "open")
    /\ Leave("failed")

\* stream.recv_response() returned the head: handle returns the response.
RecvResponse == head = "sent" /\ ClientMoves("awaiting", "reading")

\* ... or failed: the stream ended without a head, or the connection did, and
\* with it the head that had not arrived yet.
RecvResponseError ==
    /\ client = "awaiting"
    /\ conn # "open" \/ (head = "none" /\ downEnd = "fin")
    /\ Leave("failed")

\* IrohH3ResponseBody::poll_frame: a frame of the response.
RecvFrame ==
    /\ client = "reading"
    /\ down > 0
    /\ down' = down - 1
    /\ received' = received + 1
    /\ UNCHANGED <<client, server, handler, body, conn, request, hand, made, head, downEnd>>

\* ... or the end of the stream.
RecvEnd == down = 0 /\ downEnd = "fin" /\ ClientMoves("reading", "complete")

\* Mutant: every end of the connection is taken for an end of body.
AnyConnectionEnd == conn # "open" /\ ClientMoves("reading", "complete")

\* ... or the end of the connection, whatever had not arrived by then: an end
\* of body if the server closed it with H3_NO_ERROR, an error otherwise.
RecvConnectionEnd ==
    /\ conn # "open"
    /\ ClientMoves("reading", IF conn = "closed" THEN "complete" ELSE "failed")

\* The caller drops the request's future or its response (a timeout, say).
Drop ==
    /\ "drop" \in Faults
    /\ client \in {"sending", "finishing", "awaiting", "reading"}
    /\ Leave("dropped")

-----------------------------------------------------------------------------
(* The handle_request task. *)

\* Mutant: the receiving half is dropped after the split.
CallRouterWithoutBody(h) ==
    /\ server = "waiting"
    /\ client # "start"
    /\ conn = "open"
    /\ server' = "handling"
    /\ handler' = h
    /\ body' = "dropped"
    /\ UNCHANGED <<client, conn, request, response>>

\* The call of the router, which picks a handler.  A resolve_request() that
\* fails while the connection is open has met a stream without a head; here
\* the client has sent one (ConnectionStreams!ResolveFails is the other case).
CallRouter(h) ==
    /\ server = "waiting"
    /\ client # "start"
    /\ conn = "open"
    /\ server' = "handling"
    /\ handler' = h
    /\ UNCHANGED <<client, body, conn, request, response>>

\* The handler polls RequestBody: to collect it before it responds, or because
\* the response stream it returned is asked for the next chunk to echo.
Reads ==
    /\ body = "held"
    /\ \/ handler = "collect" /\ server = "handling"
       \/ handler = "echo" /\ server = "replying" /\ hand = 0

ReadFrame ==
    /\ Reads
    /\ up > 0
    /\ up' = up - 1
    /\ got' = got + 1
    /\ hand' = IF handler = "echo" THEN 1 ELSE 0
    /\ UNCHANGED <<client, server, handler, body, conn, unsent, upEnd, made, head, down,
                   downEnd, received>>

ReadEnd ==
    /\ Reads
    /\ \/ up = 0 /\ upEnd = "fin" /\ body' = "eof"
       \/ conn # "open" /\ body' = "error"
    /\ UNCHANGED <<client, server, handler, conn, request, response>>

\* A handler that does not want the body drops it.
IgnoreBody ==
    /\ server = "handling"
    /\ handler = "ignore"
    /\ body = "held"
    /\ body' = "dropped"
    /\ UNCHANGED <<client, server, handler, conn, request, response>>

\* The handler has returned a response, its body if any is a stream.
Responds == server = "handling" /\ (handler = "echo" \/ body # "held")

\* The task ends and drops what it holds of the stream.
TaskEnds(outcome) ==
    /\ server' = outcome
    /\ downEnd' = Fin(downEnd)
    /\ body' = IF body = "held" THEN "dropped" ELSE body
    /\ UNCHANGED <<client, handler, conn, request, hand, made, head, down, received>>

\* A write fails, and `?` ends the task.
Abort ==
    /\ GaveUp \/ conn # "open"
    /\ Responds \/ (server = "replying" /\ hand = 1)
    /\ TaskEnds("aborted")

\* send_response.
SendResponse ==
    /\ Responds
    /\ conn = "open"
    /\ server' = "replying"
    /\ head' = "sent"
    /\ UNCHANGED <<client, handler, body, conn, request, hand, made, down, downEnd, received>>

\* response_stream.next() yields a chunk of a response that is not an echo.
NextChunk ==
    /\ server = "replying"
    /\ handler # "echo"
    /\ hand = 0
    /\ made < RespFrames
    /\ hand' = 1
    /\ UNCHANGED <<client, server, handler, body, conn, request, made, head, down, downEnd,
                   received>>

\* Mutant: the chunk is kept after it was sent.
SendChunkAgain ==
    /\ server = "replying"
    /\ hand = 1
    /\ down < Window
    /\ conn = "open"
    /\ made' = made + 1
    /\ down' = down + 1
    /\ UNCHANGED <<client, server, handler, body, conn, request, hand, head, downEnd, received>>

\* send_data(chunk), once there is room for it.
SendChunk ==
    /\ server = "replying"
    /\ hand = 1
    /\ down < Window
    /\ conn = "open"
    /\ hand' = 0
    /\ made' = made + 1
    /\ down' = down + 1
    /\ UNCHANGED <<client, server, handler, body, conn, request, head, downEnd, received>>

\* The response stream has no more chunks.
StreamEnds ==
    IF handler = "echo" THEN body = "eof" ELSE made = RespFrames

\* The response stream yields an error: an echo passes on the body's.
StreamFails ==
    \/ "response body" \in Faults
    \/ handler = "echo" /\ body = "error"

\* `while let Some(Ok(chunk))` ends on the end of the stream and on an error
\* alike, and the response is finished gracefully.
FinishResponse ==
    /\ server = "replying"
    /\ hand = 0
    /\ \/ StreamEnds /\ TaskEnds("finished")
       \/ StreamFails /\ TaskEnds("broken off")

-----------------------------------------------------------------------------
(* The connection. *)

ConnectionEnds(how) ==
    /\ conn = "open"
    /\ conn' = how
    /\ UNCHANGED <<client, server, handler, body, request, response>>

\* accept() ended or was aborted (a router shut down): dropping h3's server
\* connection closes the QUIC connection with H3_NO_ERROR, whatever the tasks
\* it spawned are doing.
ServerShutdown == "shutdown" \in Faults /\ ConnectionEnds("closed")

ConnectionLost == "loss" \in Faults /\ ConnectionEnds("lost")

-----------------------------------------------------------------------------

ClientStep ==
    \/ SendRequest \/ SendBodyFrame \/ BodyEnds \/ Finish \/ WriteError
    \/ RecvResponse \/ RecvResponseError \/ RecvFrame \/ RecvEnd \/ RecvConnectionEnd

ServerStep ==
    \/ \E h \in Handlers : CallRouter(h)
    \/ ReadFrame \/ ReadEnd \/ IgnoreBody
    \/ SendResponse \/ NextChunk \/ SendChunk \/ FinishResponse \/ Abort

Fault == BodyFails \/ Drop \/ ServerShutdown \/ ConnectionLost

Next == ClientStep \/ ServerStep \/ Fault

Spec == Init /\ [][Next]_vars

(***************************************************************************)
(* Both tasks are polled again whenever they are woken, and a handler does *)
(* not sit on a body that has frames for it.  Faults need not happen.      *)
(***************************************************************************)
Fairness == WF_vars(ClientStep) /\ WF_vars(ServerStep)

FairSpec == Spec /\ Fairness

-----------------------------------------------------------------------------
(* Safety. *)

(***************************************************************************)
(* No frame is lost or duplicated on the way from the request body to the  *)
(* handler, through the handler of an echo, and back to the caller; and    *)
(* what is known of each half's end agrees with where its owner is.        *)
(***************************************************************************)
FrameInv ==
    /\ unsent + up + got = ReqFrames
    /\ made = down + received
    /\ handler = "echo" => got = made + hand
    /\ handler # "echo" => made + hand <= RespFrames

ClientInv ==
    /\ client \in {"start", "sending", "finishing"} => upEnd = "open"
    /\ upEnd = "open" /\ conn = "open" => client \in {"start", "sending", "finishing"}
    /\ client \in {"finishing", "awaiting", "reading", "complete"} => unsent = 0
    /\ client \in {"reading", "complete"} => head = "sent"
    /\ client = "complete" => conn = "closed" \/ (down = 0 /\ downEnd = "fin")
    /\ client = "failed" /\ conn = "open" => handler = "ignore" \/ server = "broken off"

ServerInv ==
    /\ server = "waiting" => body = "held" /\ handler = "none" /\ got = 0
    /\ server # "waiting" => handler # "none" /\ client # "start"
    /\ server \in {"waiting", "handling"} =>
           made = 0 /\ hand = 0 /\ head = "none" /\ downEnd = "open"
    /\ server \in {"replying", "finished", "broken off"} => head = "sent"
    /\ server = "replying" => downEnd = "open" /\ (handler = "echo" \/ body # "held")
    /\ server = "finished" => hand = 0 /\ StreamEnds
    /\ server = "aborted" => GaveUp \/ conn # "open"
    /\ downEnd = "fin" => server \in {"finished", "broken off"} \/ GaveUp
    /\ body = "eof" => up = 0 /\ upEnd = "fin"
    /\ body = "error" => conn # "open"
    /\ body = "dropped" => handler = "ignore" \/ server = "broken off"
                              \/ GaveUp \/ conn # "open"

IInv == TypeOK /\ FrameInv /\ ClientInv /\ ServerInv

(***************************************************************************)
(* A handler that reads to the end of the request body has read all of it, *)
(* unless the client gave up in the middle of the upload: then the         *)
(* dropped half is finished, and the handler takes what it got for the     *)
(* whole.                                                                  *)
(***************************************************************************)
WholeRequest == body = "eof" => got = ReqFrames \/ GaveUp

\* All of the response that the handler has to give.
Whole == received = IF handler = "echo" THEN ReqFrames ELSE RespFrames

(***************************************************************************)
(* A caller that reads to the end of the response has read all of it,      *)
(* unless the handler's response stream broke off or the server closed the *)
(* connection with H3_NO_ERROR.                                            *)
(***************************************************************************)
WholeResponse == client = "complete" => Whole \/ server = "broken off" \/ conn = "closed"

(***************************************************************************)
(* What Response::bytes documents (response.rs:66): "A `Bytes` object      *)
(* containing the entire response body", as long as the connection is up.  *)
(* A response stream that yields an error is finished as if it had ended.  *)
(***************************************************************************)
EntireResponse == client = "complete" /\ conn = "open" => Whole

(***************************************************************************)
(* The client reports a transport error only if the connection is gone, or *)
(* the handler did not want the request body, or its response stream broke *)
(* off: an exchange with a handler that reads its body to the end never    *)
(* fails by itself.                                                        *)
(***************************************************************************)
FailsOnlyForCause ==
    client = "failed" => conn # "open" \/ handler = "ignore" \/ server = "broken off"

-----------------------------------------------------------------------------
(* Liveness. *)

ClientEnded == client \in {"start", "complete", "failed", "body failed", "dropped"}
ServerEnded == server \in {"waiting", "finished", "broken off", "aborted"}

(***************************************************************************)
(* "Supports streaming request and response bodies" (lib.rs:59): when      *)
(* nothing goes wrong, a request that was sent gets its whole response,    *)
(* also from a handler that streams it while it reads the request.         *)
(***************************************************************************)
EveryRequestCompletes == client = "sending" ~> client = "complete" /\ Whole

\* The client writes and the server writes, and neither reads.
Standoff ==
    /\ client = "sending" /\ unsent > 0 /\ up = Window
    /\ server = "replying" /\ handler = "echo" /\ hand = 1 /\ down = Window

(***************************************************************************)
(* Both ends of an exchange come to an end whatever goes wrong in between; *)
(* with any body, the only thing that keeps them from it is a standoff     *)
(* with a handler that streams its response.                               *)
(***************************************************************************)
EndsUnlessStandoff ==
    /\ ~ClientEnded ~> ClientEnded \/ Standoff
    /\ ~ServerEnded ~> ServerEnded \/ Standoff

=============================================================================
