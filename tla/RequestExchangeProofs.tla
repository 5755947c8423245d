------------------------ MODULE RequestExchangeProofs ------------------------
(***************************************************************************)
(* Proofs of the safety properties of RequestExchange, for bodies of any   *)
(* length, any window, any mix of handlers and any faults.                 *)
(*                                                                         *)
(* IInv counts the frames of both directions (FrameInv) and relates the    *)
(* ends of the stream's halves, which are facts about the past, to where   *)
(* the client (ClientInv) and the server's task (ServerInv) are now.       *)
(***************************************************************************)
EXTENDS RequestExchange, TLAPS

-----------------------------------------------------------------------------

\* Nothing has been sent, and the request body is whole.
LEMMA InitIInv ==
    ASSUME Init
    PROVE  IInv
BY SizesAssumption
   DEF Init, IInv, TypeOK, PlacesOK, CountsOK, FrameInv, ClientInv, ServerInv, GaveUp, StreamEnds

\* The steps of handle and of the reader of the response.
LEMMA ClientIInv ==
    ASSUME IInv, ClientStep
    PROVE  IInv'
<1> USE DEF request, response
<1>0. TypeOK /\ PlacesOK /\ CountsOK /\ FrameInv /\ ClientInv /\ ServerInv
    BY DEF IInv, TypeOK
<1>1. CASE SendRequest
    <2>1. CountsOK' /\ FrameInv'
        BY <1>0, <1>1, SizesAssumption
        DEF CountsOK, FrameInv, SendRequest, ClientMoves
    <2>2. PlacesOK' /\ ClientInv'
        BY <1>0, <1>1
        DEF PlacesOK, ClientInv, ServerInv, GaveUp, SendRequest, ClientMoves
    <2>3. ServerInv'
        BY <1>0, <1>1
        DEF PlacesOK, ClientInv, ServerInv, GaveUp, StreamEnds, SendRequest,
            ClientMoves
    <2> QED BY <2>1, <2>2, <2>3 DEF IInv, TypeOK
<1>2. CASE SendBodyFrame
    <2>1. CountsOK' /\ FrameInv'
        BY <1>0, <1>2, SizesAssumption
        DEF CountsOK, FrameInv, SendBodyFrame
    <2>2. PlacesOK' /\ ClientInv'
        BY <1>0, <1>2, SizesAssumption
        DEF PlacesOK, ClientInv, ServerInv, GaveUp, CountsOK, SendBodyFrame
    <2>3. ServerInv'
        BY <1>0, <1>2, SizesAssumption
        DEF PlacesOK, ClientInv, ServerInv, GaveUp, StreamEnds, CountsOK,
            SendBodyFrame
    <2> QED BY <2>1, <2>2, <2>3 DEF IInv, TypeOK
<1>3. CASE BodyEnds
    <2>1. CountsOK' /\ FrameInv'
        BY <1>0, <1>3, SizesAssumption
        DEF CountsOK, FrameInv, BodyEnds, ClientMoves
    <2>2. PlacesOK' /\ ClientInv'
        BY <1>0, <1>3
        DEF PlacesOK, ClientInv, ServerInv, GaveUp, BodyEnds, ClientMoves
    <2>3. ServerInv'
        BY <1>0, <1>3
        DEF PlacesOK, ClientInv, ServerInv, GaveUp, StreamEnds, BodyEnds,
            ClientMoves
    <2> QED BY <2>1, <2>2, <2>3 DEF IInv, TypeOK
<1>4. CASE Finish
    <2>1. CountsOK' /\ FrameInv'
        BY <1>0, <1>4, SizesAssumption
        DEF CountsOK, FrameInv, Finish, Leave, Fin
    <2>2. PlacesOK' /\ ClientInv'
        BY <1>0, <1>4
        DEF PlacesOK, ClientInv, ServerInv, GaveUp, Finish, Leave, Fin
    <2>3. ServerInv'
        BY <1>0, <1>4
        DEF PlacesOK, ClientInv, ServerInv, GaveUp, StreamEnds, Finish, Leave, Fin
    <2> QED BY <2>1, <2>2, <2>3 DEF IInv, TypeOK
<1>5. CASE WriteError
    <2>1. CountsOK' /\ FrameInv'
        BY <1>0, <1>5, SizesAssumption
        DEF CountsOK, FrameInv, WriteError, Leave, Fin
    <2>2. PlacesOK' /\ ClientInv'
        BY <1>0, <1>5
        DEF PlacesOK, ClientInv, ServerInv, GaveUp, WriteError, Leave, Fin
    <2>3. ServerInv'
        BY <1>0, <1>5
        DEF PlacesOK, ClientInv, ServerInv, GaveUp, StreamEnds, WriteError, Leave,
            Fin
    <2> QED BY <2>1, <2>2, <2>3 DEF IInv, TypeOK
<1>6. CASE RecvResponse
    <2>1. CountsOK' /\ FrameInv'
        BY <1>0, <1>6, SizesAssumption
        DEF CountsOK, FrameInv, RecvResponse, ClientMoves
    <2>2. PlacesOK' /\ ClientInv'
        BY <1>0, <1>6
        DEF PlacesOK, ClientInv, ServerInv, GaveUp, RecvResponse, ClientMoves
    <2>3. ServerInv'
        BY <1>0, <1>6
        DEF PlacesOK, ClientInv, ServerInv, GaveUp, StreamEnds, RecvResponse,
            ClientMoves
    <2> QED BY <2>1, <2>2, <2>3 DEF IInv, TypeOK
<1>7. CASE RecvResponseError
    <2>1. CountsOK' /\ FrameInv'
        BY <1>0, <1>7, SizesAssumption
        DEF CountsOK, FrameInv, RecvResponseError, Leave, Fin
    <2>2. PlacesOK' /\ ClientInv'
        BY <1>0, <1>7
        DEF PlacesOK, ClientInv, ServerInv, GaveUp, RecvResponseError, Leave, Fin
    <2>3. ServerInv'
        BY <1>0, <1>7
        DEF PlacesOK, ClientInv, ServerInv, GaveUp, StreamEnds, RecvResponseError,
            Leave, Fin
    <2> QED BY <2>1, <2>2, <2>3 DEF IInv, TypeOK
<1>8. CASE RecvFrame
    <2>1. CountsOK' /\ FrameInv'
        BY <1>0, <1>8, SizesAssumption
        DEF CountsOK, FrameInv, RecvFrame
    <2>2. PlacesOK' /\ ClientInv'
        BY <1>0, <1>8, SizesAssumption
        DEF PlacesOK, ClientInv, ServerInv, GaveUp, CountsOK, RecvFrame
    <2>3. ServerInv'
        BY <1>0, <1>8, SizesAssumption
        DEF PlacesOK, ClientInv, ServerInv, GaveUp, StreamEnds, CountsOK,
            RecvFrame
    <2> QED BY <2>1, <2>2, <2>3 DEF IInv, TypeOK
<1>9. CASE RecvEnd
    <2>1. CountsOK' /\ FrameInv'
        BY <1>0, <1>9, SizesAssumption
        DEF CountsOK, FrameInv, RecvEnd, ClientMoves
    <2>2. PlacesOK' /\ ClientInv'
        BY <1>0, <1>9
        DEF PlacesOK, ClientInv, ServerInv, GaveUp, RecvEnd, ClientMoves
    <2>3. ServerInv'
        BY <1>0, <1>9
        DEF PlacesOK, ClientInv, ServerInv, GaveUp, StreamEnds, RecvEnd,
            ClientMoves
    <2> QED BY <2>1, <2>2, <2>3 DEF IInv, TypeOK
<1>10. CASE RecvConnectionEnd
    <2>1. CountsOK' /\ FrameInv'
        BY <1>0, <1>10, SizesAssumption
        DEF CountsOK, FrameInv, RecvConnectionEnd, ClientMoves
    <2>2. PlacesOK' /\ ClientInv'
        BY <1>0, <1>10
        DEF PlacesOK, ClientInv, ServerInv, GaveUp, RecvConnectionEnd, ClientMoves
    <2>3. ServerInv'
        BY <1>0, <1>10
        DEF PlacesOK, ClientInv, ServerInv, GaveUp, StreamEnds, RecvConnectionEnd,
            ClientMoves
    <2> QED BY <2>1, <2>2, <2>3 DEF IInv, TypeOK
<1> QED
    BY <1>1, <1>2, <1>3, <1>4, <1>5, <1>6, <1>7, <1>8, <1>9, <1>10 DEF ClientStep

\* The steps of the handle_request task and of the handler.
LEMMA ServerIInv ==
    ASSUME IInv, ServerStep
    PROVE  IInv'
<1> USE DEF request, response
<1>0. TypeOK /\ PlacesOK /\ CountsOK /\ FrameInv /\ ClientInv /\ ServerInv
    BY DEF IInv, TypeOK
<1>1. ASSUME NEW h \in Handlers, CallRouter(h)
      PROVE  IInv'
    <2>1. CountsOK' /\ FrameInv'
        BY <1>0, <1>1, SizesAssumption
        DEF CountsOK, FrameInv, ServerInv, CallRouter
    <2>2. PlacesOK' /\ ClientInv'
        BY <1>0, <1>1
        DEF PlacesOK, ClientInv, ServerInv, GaveUp, CallRouter
    <2>3. ServerInv'
        BY <1>0, <1>1, KindsAssumption
        DEF PlacesOK, ClientInv, ServerInv, GaveUp, StreamEnds, CallRouter
    <2> QED BY <2>1, <2>2, <2>3 DEF IInv, TypeOK
<1>2. CASE ReadFrame
    <2>1. CountsOK' /\ FrameInv'
        BY <1>0, <1>2, SizesAssumption
        DEF CountsOK, FrameInv, ReadFrame, Reads
    <2>2. PlacesOK' /\ ClientInv'
        BY <1>0, <1>2, SizesAssumption
        DEF PlacesOK, ClientInv, ServerInv, GaveUp, CountsOK, ReadFrame, Reads
    <2>3. ServerInv'
        BY <1>0, <1>2, SizesAssumption
        DEF PlacesOK, ClientInv, ServerInv, GaveUp, StreamEnds, CountsOK,
            ReadFrame, Reads
    <2> QED BY <2>1, <2>2, <2>3 DEF IInv, TypeOK
<1>3. CASE ReadEnd
    <2>1. CountsOK' /\ FrameInv'
        BY <1>0, <1>3, SizesAssumption
        DEF CountsOK, FrameInv, ReadEnd, Reads
    <2>2. PlacesOK' /\ ClientInv'
        BY <1>0, <1>3
        DEF PlacesOK, ClientInv, ServerInv, GaveUp, ReadEnd, Reads
    <2>3. ServerInv'
        BY <1>0, <1>3
        DEF PlacesOK, ClientInv, ServerInv, GaveUp, StreamEnds, ReadEnd, Reads
    <2> QED BY <2>1, <2>2, <2>3 DEF IInv, TypeOK
<1>4. CASE IgnoreBody
    <2>1. CountsOK' /\ FrameInv'
        BY <1>0, <1>4, SizesAssumption
        DEF CountsOK, FrameInv, IgnoreBody
    <2>2. PlacesOK' /\ ClientInv'
        BY <1>0, <1>4
        DEF PlacesOK, ClientInv, ServerInv, GaveUp, IgnoreBody
    <2>3. ServerInv'
        BY <1>0, <1>4
        DEF PlacesOK, ClientInv, ServerInv, GaveUp, StreamEnds, IgnoreBody
    <2> QED BY <2>1, <2>2, <2>3 DEF IInv, TypeOK
<1>5. CASE SendResponse
    <2>1. CountsOK' /\ FrameInv'
        BY <1>0, <1>5, SizesAssumption
        DEF CountsOK, FrameInv, SendResponse, Responds
    <2>2. PlacesOK' /\ ClientInv'
        BY <1>0, <1>5
        DEF PlacesOK, ClientInv, ServerInv, GaveUp, SendResponse, Responds
    <2>3. ServerInv'
        BY <1>0, <1>5
        DEF PlacesOK, ClientInv, ServerInv, GaveUp, StreamEnds, SendResponse,
            Responds
    <2> QED BY <2>1, <2>2, <2>3 DEF IInv, TypeOK
<1>6. CASE NextChunk
    <2>1. CountsOK' /\ FrameInv'
        BY <1>0, <1>6, SizesAssumption
        DEF CountsOK, FrameInv, NextChunk
    <2>2. PlacesOK' /\ ClientInv'
        BY <1>0, <1>6, SizesAssumption
        DEF PlacesOK, ClientInv, ServerInv, GaveUp, CountsOK, NextChunk
    <2>3. ServerInv'
        BY <1>0, <1>6, SizesAssumption
        DEF PlacesOK, ClientInv, ServerInv, GaveUp, StreamEnds, CountsOK,
            NextChunk
    <2> QED BY <2>1, <2>2, <2>3 DEF IInv, TypeOK
<1>7. CASE SendChunk
    <2>1. CountsOK' /\ FrameInv'
        BY <1>0, <1>7, SizesAssumption
        DEF CountsOK, FrameInv, SendChunk
    <2>2. PlacesOK' /\ ClientInv'
        BY <1>0, <1>7, SizesAssumption
        DEF PlacesOK, ClientInv, ServerInv, GaveUp, CountsOK, SendChunk
    <2>3. ServerInv'
        BY <1>0, <1>7, SizesAssumption
        DEF PlacesOK, ClientInv, ServerInv, GaveUp, StreamEnds, CountsOK,
            SendChunk
    <2> QED BY <2>1, <2>2, <2>3 DEF IInv, TypeOK
<1>8. CASE FinishResponse
    <2>1. CountsOK' /\ FrameInv'
        BY <1>0, <1>8, SizesAssumption
        DEF CountsOK, FrameInv, FinishResponse, TaskEnds, StreamFails, Fin
    <2>2. PlacesOK' /\ ClientInv'
        BY <1>0, <1>8
        DEF PlacesOK, ClientInv, ServerInv, GaveUp, FinishResponse, TaskEnds,
            StreamFails, Fin
    <2>3. ServerInv'
        BY <1>0, <1>8
        DEF PlacesOK, ClientInv, ServerInv, GaveUp, StreamEnds, FinishResponse,
            TaskEnds, StreamFails, Fin
    <2> QED BY <2>1, <2>2, <2>3 DEF IInv, TypeOK
<1>9. CASE Abort
    <2>1. CountsOK' /\ FrameInv'
        BY <1>0, <1>9, SizesAssumption
        DEF CountsOK, FrameInv, Abort, Responds, TaskEnds, Fin
    <2>2. PlacesOK'
        BY <1>0, <1>9 DEF PlacesOK, Abort, TaskEnds, Fin
    <2>4. ClientInv'
        BY <1>0, <1>9
        DEF PlacesOK, ClientInv, ServerInv, GaveUp, Abort, Responds, TaskEnds, Fin
    <2>3. ServerInv'
        BY <1>0, <1>9
        DEF PlacesOK, ClientInv, ServerInv, GaveUp, StreamEnds, Abort, Responds,
            TaskEnds, Fin
    <2> QED BY <2>1, <2>2, <2>3, <2>4 DEF IInv, TypeOK
<1> QED
    BY <1>1, <1>2, <1>3, <1>4, <1>5, <1>6, <1>7, <1>8, <1>9 DEF ServerStep

\* Bodies that fail, callers that leave, connections that end.
LEMMA FaultIInv ==
    ASSUME IInv, Fault
    PROVE  IInv'
<1> USE DEF request, response
<1>0. TypeOK /\ PlacesOK /\ CountsOK /\ FrameInv /\ ClientInv /\ ServerInv
    BY DEF IInv, TypeOK
<1>1. CASE BodyFails
    <2>1. CountsOK' /\ FrameInv'
        BY <1>0, <1>1, SizesAssumption
        DEF CountsOK, FrameInv, BodyFails, Leave, Fin
    <2>2. PlacesOK' /\ ClientInv'
        BY <1>0, <1>1
        DEF PlacesOK, ClientInv, ServerInv, GaveUp, BodyFails, Leave, Fin
    <2>3. ServerInv'
        BY <1>0, <1>1
        DEF PlacesOK, ClientInv, ServerInv, GaveUp, StreamEnds, BodyFails, Leave,
            Fin
    <2> QED BY <2>1, <2>2, <2>3 DEF IInv, TypeOK
<1>2. CASE Drop
    <2>1. CountsOK' /\ FrameInv'
        BY <1>0, <1>2, SizesAssumption
        DEF CountsOK, FrameInv, Drop, Leave, Fin
    <2>2. PlacesOK' /\ ClientInv'
        BY <1>0, <1>2
        DEF PlacesOK, ClientInv, ServerInv, GaveUp, Drop, Leave, Fin
    <2>3. ServerInv'
        BY <1>0, <1>2
        DEF PlacesOK, ClientInv, ServerInv, GaveUp, StreamEnds, Drop, Leave, Fin
    <2> QED BY <2>1, <2>2, <2>3 DEF IInv, TypeOK
<1>3. CASE ServerShutdown
    <2>1. CountsOK' /\ FrameInv'
        BY <1>0, <1>3, SizesAssumption
        DEF CountsOK, FrameInv, ServerShutdown, ConnectionEnds
    <2>2. PlacesOK' /\ ClientInv'
        BY <1>0, <1>3
        DEF PlacesOK, ClientInv, ServerInv, GaveUp, ServerShutdown, ConnectionEnds
    <2>3. ServerInv'
        BY <1>0, <1>3
        DEF PlacesOK, ClientInv, ServerInv, GaveUp, StreamEnds, ServerShutdown,
            ConnectionEnds
    <2> QED BY <2>1, <2>2, <2>3 DEF IInv, TypeOK
<1>4. CASE ConnectionLost
    <2>1. CountsOK' /\ FrameInv'
        BY <1>0, <1>4, SizesAssumption
        DEF CountsOK, FrameInv, ConnectionLost, ConnectionEnds
    <2>2. PlacesOK' /\ ClientInv'
        BY <1>0, <1>4
        DEF PlacesOK, ClientInv, ServerInv, GaveUp, ConnectionLost, ConnectionEnds
    <2>3. ServerInv'
        BY <1>0, <1>4
        DEF PlacesOK, ClientInv, ServerInv, GaveUp, StreamEnds, ConnectionLost,
            ConnectionEnds
    <2> QED BY <2>1, <2>2, <2>3 DEF IInv, TypeOK
<1> QED
    BY <1>1, <1>2, <1>3, <1>4 DEF Fault

\* Every reachable state satisfies the invariant.
THEOREM ExchangeInvariance == Spec => []IInv
<1>1. Init => IInv
    BY InitIInv
<1>2. ASSUME IInv, UNCHANGED vars
      PROVE  IInv'
    <2>1. /\ client' = client /\ server' = server /\ handler' = handler /\ body' = body
          /\ conn' = conn /\ unsent' = unsent /\ up' = up /\ upEnd' = upEnd /\ got' = got
          /\ hand' = hand /\ made' = made /\ head' = head /\ down' = down
          /\ downEnd' = downEnd /\ received' = received
        BY <1>2 DEF vars, request, response
    <2>2. TypeOK'
        <3>1. PlacesOK'
            <4>1. PlacesOK
                BY <1>2 DEF IInv, TypeOK
            <4>2. /\ client' \in {"start", "sending", "finishing", "awaiting", "reading",
                                 "complete", "failed", "body failed", "dropped"}
                  /\ server' \in {"waiting", "handling", "replying", "finished",
                                  "broken off", "aborted"}
                BY <2>1, <4>1 DEF PlacesOK
            <4>3. handler' \in Handlers \cup {"none"}
                BY <2>1, <4>1 DEF PlacesOK
            <4>4. /\ body' \in {"held", "eof", "error", "dropped"}
                  /\ conn' \in {"open", "closed", "lost"}
                  /\ upEnd' \in {"open", "fin"}
                  /\ downEnd' \in {"open", "fin"}
                  /\ head' \in {"none", "sent"}
                BY <2>1, <4>1 DEF PlacesOK
            <4> QED BY <4>2, <4>3, <4>4 DEF PlacesOK
        <3>2. CountsOK'
            BY <1>2, <2>1 DEF IInv, TypeOK, CountsOK
        <3> QED BY <3>1, <3>2 DEF TypeOK
    <2>3. FrameInv'
        BY <1>2, <2>1 DEF IInv, FrameInv
    <2>4. (GaveUp' <=> GaveUp) /\ (StreamEnds' <=> StreamEnds)
        BY <2>1 DEF GaveUp, StreamEnds
    <2>5. ClientInv'
        BY <1>2, <2>1 DEF IInv, ClientInv
    <2>6. ServerInv'
        BY <1>2, <2>1, <2>4 DEF IInv, ServerInv
    <2> QED BY <2>2, <2>3, <2>5, <2>6 DEF IInv
<1>3. IInv /\ [Next]_vars => IInv'
    BY <1>2, ClientIInv, ServerIInv, FaultIInv DEF Next
<1> QED BY <1>1, <1>3, PTL DEF Spec

\* The type invariant: counters stay within the windows and the bodies.
THEOREM TypeCorrectness == Spec => []TypeOK
<1>1. IInv => TypeOK
    BY DEF IInv
<1> QED BY <1>1, ExchangeInvariance, PTL

\* A handler that sees the end of the request body has seen all of the body,
\* unless the client gave up during the upload: a half that is finished
\* belongs to a client that is past its last frame, or left.
THEOREM RequestsArriveWhole == Spec => []WholeRequest
<1>1. ASSUME IInv, body = "eof", ~GaveUp
      PROVE  got = ReqFrames
    <2>1. up = 0 /\ upEnd = "fin"
        BY <1>1 DEF IInv, ServerInv
    <2>2. unsent = 0
        BY <1>1, <2>1 DEF IInv, TypeOK, PlacesOK, ClientInv, GaveUp
    <2> QED BY <1>1, <2>1, <2>2 DEF IInv, TypeOK, CountsOK, FrameInv
<1>2. IInv => WholeRequest
    BY <1>1 DEF WholeRequest
<1> QED BY <1>2, ExchangeInvariance, PTL

\* A caller that sees the end of the response has all of it, unless the
\* handler's stream broke off or the server closed the connection.
THEOREM ResponsesArriveWhole == Spec => []WholeResponse
<1>1. ASSUME IInv, client = "complete", conn # "closed", server # "broken off"
      PROVE  Whole
    <2>1. down = 0 /\ server = "finished" /\ unsent = 0
        BY <1>1 DEF IInv, ClientInv, ServerInv, GaveUp
    <2>2. hand = 0 /\ StreamEnds
        BY <1>1, <2>1 DEF IInv, ServerInv
    <2>3. received = made
        BY <1>1, <2>1 DEF IInv, TypeOK, CountsOK, FrameInv
    <2>4. CASE handler = "echo"
        <3>1. up = 0
            BY <1>1, <2>2, <2>4 DEF IInv, ServerInv, StreamEnds
        <3>2. got = ReqFrames /\ got = made
            BY <1>1, <2>1, <2>2, <2>4, <3>1 DEF IInv, TypeOK, CountsOK, FrameInv
        <3> QED BY <2>3, <2>4, <3>2 DEF Whole
    <2>5. CASE handler # "echo"
        BY <2>2, <2>3, <2>5 DEF StreamEnds, Whole
    <2> QED BY <2>4, <2>5
<1>2. IInv => WholeResponse
    BY <1>1 DEF WholeResponse
<1> QED BY <1>2, ExchangeInvariance, PTL

\* A transport error has a cause outside the client.
THEOREM FailuresHaveCauses == Spec => []FailsOnlyForCause
<1>1. IInv => FailsOnlyForCause
    BY DEF IInv, ClientInv, FailsOnlyForCause
<1> QED BY <1>1, ExchangeInvariance, PTL

(***************************************************************************)
(* A standoff takes a request body of more than two windows and the frame  *)
(* in the handler's hands: with EndsUnlessStandoff, a request with a       *)
(* shorter body ends, whatever the handler.                                *)
(***************************************************************************)
THEOREM NoStandoffWithShortBodies ==
    ASSUME ReqFrames <= 2 * Window + 1
    PROVE  Spec => []~Standoff
<1>1. ASSUME IInv, Standoff
      PROVE  FALSE
    <2>1. /\ unsent \in Nat /\ unsent > 0 /\ up = Window /\ hand = 1 /\ down = Window
          /\ received \in Nat /\ made \in Nat /\ got \in Nat
        BY <1>1, SizesAssumption DEF IInv, TypeOK, CountsOK, Standoff
    <2>2. unsent + up + got = ReqFrames /\ made = down + received /\ got = made + hand
        BY <1>1 DEF IInv, FrameInv, Standoff
    <2> QED BY <2>1, <2>2, SizesAssumption
<1>2. IInv => ~Standoff
    BY <1>1
<1> QED BY <1>2, ExchangeInvariance, PTL

-----------------------------------------------------------------------------
(* What EndsUnlessStandoff rests on, without fairness. *)

\* What is ahead of the client, of the server's task, and of the frames: a frame
\* of an echo is still to be sent, read, sent back and read again.
ClientLeft ==
    IF client = "start" THEN 5 ELSE IF client = "sending" THEN 4
    ELSE IF client = "finishing" THEN 3 ELSE IF client = "awaiting" THEN 2
    ELSE IF client = "reading" THEN 1 ELSE 0

ServerLeft ==
    IF server = "waiting" THEN 3 ELSE IF server = "handling" THEN 2
    ELSE IF server = "replying" THEN 1 ELSE 0

FramesLeft ==
    4 * unsent + 3 * up + 2 * hand + down
      + IF handler = "echo" THEN 0 ELSE 3 * (RespFrames - made - hand)

BodyLeft == IF body = "held" THEN 1 ELSE 0
ConnLeft == IF conn = "open" THEN 1 ELSE 0

Effort == FramesLeft + ClientLeft + ServerLeft + BodyLeft + ConnLeft

EffortOK ==
    /\ FramesLeft \in Nat /\ ClientLeft \in Nat /\ ServerLeft \in Nat
    /\ BodyLeft \in Nat /\ ConnLeft \in Nat

\* What is left is a number.
LEMMA EffortType ==
    ASSUME IInv
    PROVE  EffortOK
<1>1. FramesLeft \in Nat
  <2>1. /\ unsent \in Nat /\ up \in Nat /\ hand \in Nat /\ down \in Nat /\ made \in Nat
        /\ RespFrames \in Nat
      BY SizesAssumption DEF IInv, TypeOK, CountsOK
  <2>2. handler # "echo" => RespFrames - made - hand \in Nat
      BY <2>1 DEF IInv, FrameInv
  <2> QED BY <2>1, <2>2 DEF FramesLeft
<1>2. ClientLeft \in Nat /\ ServerLeft \in Nat
    BY DEF ClientLeft, ServerLeft
<1>3. BodyLeft \in Nat /\ ConnLeft \in Nat
    BY DEF BodyLeft, ConnLeft
<1> QED BY <1>1, <1>2, <1>3 DEF EffortOK

\* A step that leaves the frames where they are takes one of the tasks, the
\* request body or the connection further.
LEMMA FramesStay ==
    ASSUME IInv, UNCHANGED <<unsent, up, hand, down, made>>,
           handler' = handler \/ handler # "echo"
    PROVE  FramesLeft' <= FramesLeft
<1>1. /\ unsent \in Nat /\ up \in Nat /\ hand \in Nat /\ down \in Nat /\ made \in Nat
      /\ RespFrames \in Nat
    BY SizesAssumption DEF IInv, TypeOK, CountsOK
<1>2. handler # "echo" => RespFrames - made - hand \in Nat
    BY <1>1 DEF IInv, FrameInv
<1> QED BY <1>1, <1>2 DEF FramesLeft

\* Effort shrinks if one part of it does and none grows.
LEMMA EffortShrinks ==
    ASSUME EffortOK, EffortOK',
           FramesLeft' <= FramesLeft, ClientLeft' <= ClientLeft, ServerLeft' <= ServerLeft,
           BodyLeft' <= BodyLeft, ConnLeft' <= ConnLeft,
           \/ FramesLeft' < FramesLeft \/ ClientLeft' < ClientLeft
           \/ ServerLeft' < ServerLeft \/ BodyLeft' < BodyLeft \/ ConnLeft' < ConnLeft
    PROVE  Effort' < Effort
<1>1. PICK f1 \in Nat, f2 \in Nat, c1 \in Nat, c2 \in Nat, s1 \in Nat, s2 \in Nat :
          /\ f1 = FramesLeft /\ f2 = FramesLeft' /\ c1 = ClientLeft /\ c2 = ClientLeft'
          /\ s1 = ServerLeft /\ s2 = ServerLeft'
    BY DEF EffortOK
<1>2. PICK b1 \in Nat, b2 \in Nat, n1 \in Nat, n2 \in Nat :
          b1 = BodyLeft /\ b2 = BodyLeft' /\ n1 = ConnLeft /\ n2 = ConnLeft'
    BY DEF EffortOK
<1>3. /\ f2 <= f1 /\ c2 <= c1 /\ s2 <= s1 /\ b2 <= b1 /\ n2 <= n1
      /\ f2 < f1 \/ c2 < c1 \/ s2 < s1 \/ b2 < b1 \/ n2 < n1
    BY <1>1, <1>2
<1>4. f2 + c2 + s2 + b2 + n2 < f1 + c1 + s1 + b1 + n1
    BY <1>3
<1> QED BY <1>1, <1>2, <1>4 DEF Effort

\* What is left of one does not depend on the others.
LEMMA PartsStay ==
    /\ EffortOK /\ client' = client => ClientLeft' <= ClientLeft
    /\ EffortOK /\ server' = server => ServerLeft' <= ServerLeft
    /\ EffortOK /\ (body' = "held" => body = "held") => BodyLeft' <= BodyLeft
    /\ EffortOK /\ conn' = conn => ConnLeft' <= ConnLeft
BY DEF EffortOK, ClientLeft, ServerLeft, BodyLeft, ConnLeft

\* A frame moves on, or the client does.
LEMMA ClientEffort ==
    ASSUME IInv, EffortOK, EffortOK', ClientStep
    PROVE  Effort' < Effort
<1> USE DEF request, response
<1>1. CASE SendBodyFrame \/ RecvFrame
  <2>1. FramesLeft' < FramesLeft
    <3>1. /\ unsent \in Nat /\ up \in Nat /\ hand \in Nat /\ down \in Nat /\ made \in Nat
          /\ RespFrames \in Nat
        BY SizesAssumption DEF IInv, TypeOK, CountsOK
    <3>2. handler # "echo" => RespFrames - made - hand \in Nat
        BY <3>1 DEF IInv, FrameInv
    <3> QED BY <1>1, <3>1, <3>2 DEF SendBodyFrame, RecvFrame, FramesLeft
  <2>2. UNCHANGED <<client, server, body, conn>>
      BY <1>1 DEF SendBodyFrame, RecvFrame
  <2>3. FramesLeft' <= FramesLeft
      BY <2>1 DEF EffortOK
  <2> QED BY <2>1, <2>2, <2>3, PartsStay, EffortShrinks
<1>2. CASE ~(SendBodyFrame \/ RecvFrame)
  <2>1. /\ UNCHANGED <<server, handler, body, conn, unsent, up, hand, down, made>>
        /\ ClientLeft' < ClientLeft
      BY <1>2 DEF ClientStep, SendRequest, BodyEnds, Finish, WriteError, RecvResponse,
                  RecvResponseError, RecvEnd, RecvConnectionEnd, ClientMoves, Leave, ClientLeft
  <2>2. FramesLeft' <= FramesLeft /\ ClientLeft' <= ClientLeft
      BY <2>1, FramesStay DEF EffortOK
  <2> QED BY <2>1, <2>2, PartsStay, EffortShrinks
<1> QED BY <1>1, <1>2

\* A frame moves on, or the body comes to its end, or the task moves on.
LEMMA ServerEffort ==
    ASSUME IInv, EffortOK, EffortOK', ServerStep
    PROVE  Effort' < Effort
<1> USE DEF request, response
<1>1. CASE ReadFrame \/ NextChunk \/ SendChunk
  <2>1. FramesLeft' < FramesLeft
    <3>1. /\ unsent \in Nat /\ up \in Nat /\ hand \in 0..1 /\ down \in Nat /\ made \in Nat
          /\ RespFrames \in Nat
        BY SizesAssumption DEF IInv, TypeOK, CountsOK
    <3>2. handler # "echo" => RespFrames - made - hand \in Nat
        BY <3>1 DEF IInv, FrameInv
    <3>3. CASE ReadFrame
      <4>1. hand = 0
          BY <3>3 DEF IInv, ServerInv, ReadFrame, Reads
      <4> QED BY <3>1, <3>2, <3>3, <4>1 DEF ReadFrame, FramesLeft
    <3>4. CASE NextChunk
        BY <3>1, <3>2, <3>4 DEF NextChunk, FramesLeft
    <3>5. CASE SendChunk
        BY <3>1, <3>2, <3>5 DEF SendChunk, FramesLeft
    <3> QED BY <1>1, <3>3, <3>4, <3>5
  <2>2. UNCHANGED <<client, server, body, conn>>
      BY <1>1 DEF ReadFrame, NextChunk, SendChunk
  <2>3. FramesLeft' <= FramesLeft
      BY <2>1 DEF EffortOK
  <2> QED BY <2>1, <2>2, <2>3, PartsStay, EffortShrinks
<1>2. CASE ReadEnd \/ IgnoreBody
  <2>1. /\ UNCHANGED <<client, server, handler, conn, unsent, up, hand, down, made>>
        /\ body = "held" /\ body' # "held"
      BY <1>2 DEF ReadEnd, Reads, IgnoreBody
  <2>2. FramesLeft' <= FramesLeft
      BY <2>1, FramesStay
  <2>3. BodyLeft' < BodyLeft
      BY <2>1 DEF BodyLeft
  <2> QED BY <2>1, <2>2, <2>3, PartsStay, EffortShrinks
<1>3. CASE (\E h \in Handlers : CallRouter(h)) \/ SendResponse \/ FinishResponse \/ Abort
  <2>1. /\ UNCHANGED <<client, conn, unsent, up, hand, down, made>>
        /\ body' = "held" => body = "held"
      BY <1>3 DEF CallRouter, SendResponse, FinishResponse, Abort, TaskEnds
  <2>2. handler' = handler \/ handler # "echo"
    <3>1. server = "waiting" => handler = "none"
        BY DEF IInv, ServerInv
    <3> QED BY <1>3, <3>1 DEF CallRouter, SendResponse, FinishResponse, Abort, TaskEnds
  <2>3. ServerLeft' < ServerLeft
    <3>1. CASE \E h \in Handlers : CallRouter(h)
        BY <3>1 DEF CallRouter, ServerLeft
    <3>2. CASE SendResponse
        BY <3>2 DEF SendResponse, Responds, ServerLeft
    <3>3. CASE FinishResponse
      <4>1. server = "replying" /\ server' \in {"finished", "broken off"}
          BY <3>3 DEF FinishResponse, TaskEnds
      <4>2. ServerLeft = 1
          BY <4>1 DEF ServerLeft
      <4>3. ServerLeft' = 0
          BY <4>1 DEF ServerLeft
      <4> QED BY <4>2, <4>3
    <3>4. CASE Abort
        BY <3>4 DEF Abort, Responds, TaskEnds, ServerLeft
    <3> QED BY <1>3, <3>1, <3>2, <3>3, <3>4
  <2>4. FramesLeft' <= FramesLeft /\ ServerLeft' <= ServerLeft
      BY <2>1, <2>2, <2>3, FramesStay DEF EffortOK
  <2> QED BY <2>1, <2>3, <2>4, PartsStay, EffortShrinks
<1> QED BY <1>1, <1>2, <1>3 DEF ServerStep

\* A fault is the end of the client or of the connection.
LEMMA FaultEffort ==
    ASSUME IInv, EffortOK, EffortOK', Fault
    PROVE  Effort' < Effort
<1> USE DEF request, response
<1>1. UNCHANGED <<server, handler, body, unsent, up, hand, down, made>>
    BY DEF Fault, BodyFails, Drop, Leave, ServerShutdown, ConnectionLost, ConnectionEnds
<1>2. FramesLeft' <= FramesLeft
    BY <1>1, FramesStay
<1>3. CASE BodyFails \/ Drop
  <2>1. conn' = conn
      BY <1>3 DEF BodyFails, Drop, Leave
  <2>2. ClientLeft' < ClientLeft
    <3>1. CASE BodyFails
      <4>1. client = "sending" /\ client' = "body failed"
          BY <3>1 DEF BodyFails, Leave
      <4>2. ClientLeft = 4
          BY <4>1 DEF ClientLeft
      <4>3. ClientLeft' = 0
          BY <4>1 DEF ClientLeft
      <4> QED BY <4>2, <4>3
    <3>2. CASE Drop
        BY <3>2 DEF Drop, Leave, ClientLeft
    <3> QED BY <1>3, <3>1, <3>2
  <2>3. ClientLeft' <= ClientLeft
      BY <2>2 DEF EffortOK
  <2> QED BY <1>1, <1>2, <2>1, <2>2, <2>3, PartsStay, EffortShrinks
<1>4. CASE ServerShutdown \/ ConnectionLost
  <2>1. conn = "open" /\ conn' # "open" /\ client' = client
      BY <1>4 DEF ServerShutdown, ConnectionLost, ConnectionEnds
  <2>2. ConnLeft' < ConnLeft
      BY <2>1 DEF ConnLeft
  <2>3. ConnLeft' <= ConnLeft
      BY <2>2 DEF EffortOK
  <2> QED BY <1>1, <1>2, <2>1, <2>2, <2>3, PartsStay, EffortShrinks
<1> QED BY <1>3, <1>4 DEF Fault

\* Nothing is done twice: every step, of either end or a fault, leaves less to do.
\* An exchange ends after at most 4 * ReqFrames + 3 * RespFrames + 10 steps, or
\* stops before.
THEOREM ExchangesAreFinite ==
    Spec => /\ Effort = 4 * ReqFrames + 3 * RespFrames + 10
            /\ [](Effort \in Nat)
            /\ [][Effort' < Effort]_vars
<1>1. Init => Effort = 4 * ReqFrames + 3 * RespFrames + 10
    BY SizesAssumption
       DEF Init, Effort, FramesLeft, ClientLeft, ServerLeft, BodyLeft, ConnLeft
<1>2. IInv => EffortOK
    BY EffortType
<1>3. EffortOK => Effort \in Nat
    BY DEF EffortOK, Effort
<1>4. IInv /\ EffortOK /\ EffortOK' /\ [Next]_vars => [Effort' < Effort]_vars
    BY ClientEffort, ServerEffort, FaultEffort DEF Next
<1> QED BY <1>1, <1>2, <1>3, <1>4, ExchangeInvariance, PTL DEF Spec

\* Where the server's task is through, it has let go of its halves; a handler
\* that dropped the body did not want it.
Over == {"finished", "broken off", "aborted"}

TaskInv ==
    /\ server \in Over => body # "held" /\ (downEnd = "fin" \/ conn # "open")
    /\ body = "dropped" => handler = "ignore" \/ server \in Over

\* Ending, the task lets go of both halves; nothing is taken up again.
LEMMA StepTask ==
    ASSUME IInv, TaskInv, [Next]_vars
    PROVE  TaskInv'
<1> USE DEF request, response
<1>0. server = "waiting" => body = "held"
    BY DEF IInv, ServerInv
<1>1. CASE UNCHANGED vars
    BY <1>1 DEF vars, TaskInv
<1>2. CASE ClientStep
    BY <1>2 DEF TaskInv, ClientStep, SendRequest, SendBodyFrame, BodyEnds, Finish, WriteError,
                RecvResponse, RecvResponseError, RecvFrame, RecvEnd, RecvConnectionEnd,
                ClientMoves, Leave
<1>3. CASE Fault
    BY <1>3 DEF TaskInv, Fault, BodyFails, Drop, Leave, ServerShutdown, ConnectionLost,
                ConnectionEnds
<1>4. CASE ServerStep
  <2>1. CASE \E h \in Handlers : CallRouter(h)
      BY <1>0, <2>1 DEF TaskInv, Over, CallRouter
  <2>2. CASE ReadFrame \/ NextChunk \/ SendChunk
      BY <2>2 DEF TaskInv, ReadFrame, NextChunk, SendChunk
  <2>3. CASE ReadEnd
      BY <2>3 DEF TaskInv, Over, ReadEnd, Reads
  <2>4. CASE IgnoreBody
      BY <2>4 DEF TaskInv, Over, IgnoreBody
  <2>5. CASE SendResponse
      BY <2>5 DEF TaskInv, Over, SendResponse, Responds
  <2>6. ASSUME NEW outcome \in Over, TaskEnds(outcome)
        PROVE  TaskInv'
      BY <2>6 DEF TaskInv, TaskEnds, Fin
  <2>7. CASE FinishResponse \/ Abort
      BY <2>6, <2>7 DEF FinishResponse, Abort, Over
  <2> QED BY <1>4, <2>1, <2>2, <2>3, <2>4, <2>5, <2>7 DEF ServerStep
<1> QED BY <1>1, <1>2, <1>3, <1>4 DEF Next

\* The guards of ClientStep and of ServerStep: what each end waits for.
ClientMay ==
    \/ client \in {"start", "finishing"}
    \/ client = "sending" /\ \/ unsent = 0 \/ up < Window
                             \/ body = "dropped" \/ conn # "open"
    \/ client = "awaiting" /\ (head = "sent" \/ downEnd = "fin" \/ conn # "open")
    \/ client = "reading" /\ (down > 0 \/ downEnd = "fin" \/ conn # "open")

ServerMay ==
    \/ server = "waiting" /\ client # "start" /\ conn = "open" /\ Handlers # {}
    \/ Reads /\ (up > 0 \/ upEnd = "fin" \/ conn # "open")
    \/ server = "handling" /\ handler = "ignore" /\ body = "held"
    \/ Responds
    \/ /\ server = "replying" /\ hand = 0
       /\ (handler # "echo" /\ made < RespFrames) \/ StreamEnds \/ StreamFails
    \/ server = "replying" /\ hand = 1 /\ (down < Window \/ GaveUp \/ conn # "open")

\* A client that is blocked while the server's task is not, or is through.
LEMMA ClientBlocked ==
    ASSUME IInv, TaskInv, ~ClientMay
    PROVE  \/ ClientEnded
           \/ /\ client = "sending" /\ unsent > 0 /\ up = Window /\ body = "held"
              /\ conn = "open"
           \/ client = "awaiting" /\ head = "none" /\ downEnd = "open" /\ conn = "open"
           \/ client = "reading" /\ down = 0 /\ downEnd = "open" /\ conn = "open"
<1>0. PlacesOK /\ CountsOK /\ ClientInv /\ ServerInv
    BY DEF IInv, TypeOK
<1>1. CASE client = "sending"
  <2>1. unsent > 0 /\ up = Window /\ body # "dropped" /\ conn = "open" /\ up > 0
      BY <1>0, <1>1, SizesAssumption DEF ClientMay, CountsOK
  <2>2. body # "eof" /\ body # "error"
      BY <1>0, <1>1, <2>1 DEF ClientInv, ServerInv
  <2> QED BY <1>0, <1>1, <2>1, <2>2 DEF PlacesOK
<1>2. CASE client \in {"awaiting", "reading"}
  <2>1. /\ downEnd # "fin" /\ conn = "open"
        /\ client = "awaiting" => head # "sent"
        /\ client = "reading" => ~(down > 0)
      BY <1>2 DEF ClientMay
  <2>2. down \in Nat
      BY <1>0, SizesAssumption DEF CountsOK
  <2>3. client = "reading" => down = 0
      BY <2>1, <2>2
  <2> QED BY <1>0, <1>2, <2>1, <2>3 DEF PlacesOK
<1> QED BY <1>0, <1>1, <1>2 DEF ClientMay, ClientEnded, PlacesOK

\* A blocked task reads where nothing is, or writes where there is no room.
LEMMA ServerBlocked ==
    ASSUME IInv, TaskInv, ~ServerMay
    PROVE  \/ ServerEnded
           \/ Reads /\ up = 0 /\ upEnd = "open" /\ conn = "open"
           \/ server = "replying" /\ hand = 1 /\ down = Window /\ ~GaveUp /\ conn = "open"
<1>0. /\ PlacesOK /\ CountsOK /\ FrameInv /\ ServerInv
      /\ server # "waiting" => handler \in {"collect", "echo", "ignore"}
    BY KindsAssumption DEF IInv, TypeOK, PlacesOK, ServerInv
<1>1. Reads => up = 0 /\ upEnd = "open" /\ conn = "open"
  <2>1. Reads => ~(up > 0) /\ upEnd # "fin" /\ conn = "open"
      BY DEF ServerMay
  <2>2. up \in Nat
      BY <1>0, SizesAssumption DEF CountsOK
  <2>3. Reads => up = 0
      BY <2>1, <2>2
  <2> QED BY <1>0, <2>1, <2>3 DEF PlacesOK
<1>2. CASE server = "handling"
  <2>1. handler # "echo" /\ body = "held"
      BY <1>2 DEF ServerMay, Responds
  <2>2. handler = "collect"
      BY <1>0, <1>2, <2>1 DEF ServerMay
  <2> QED BY <1>1, <1>2, <2>1, <2>2 DEF Reads
<1>3. CASE server = "replying" /\ hand = 0
  <2>1. ~StreamEnds /\ ~StreamFails
      BY <1>3 DEF ServerMay
  <2>2. CASE handler = "echo"
    <3>1. body # "eof" /\ body # "error"
        BY <2>1, <2>2 DEF StreamEnds, StreamFails
    <3>2. body # "dropped"
        BY <1>3, <2>2 DEF TaskInv, Over
    <3>3. Reads
        BY <1>0, <1>3, <2>2, <3>1, <3>2 DEF Reads, PlacesOK
    <3> QED BY <1>1, <3>3
  <2>3. CASE handler # "echo"
    <3>1. made # RespFrames
        BY <2>1, <2>3 DEF StreamEnds
    <3>2. made < RespFrames
        BY <1>0, <1>3, <2>3, <3>1, SizesAssumption DEF FrameInv, CountsOK
    <3> QED BY <1>3, <2>3, <3>2 DEF ServerMay
  <2> QED BY <2>2, <2>3
<1>4. CASE server = "replying" /\ hand = 1
    BY <1>0, <1>4, SizesAssumption DEF ServerMay, CountsOK
<1>5. CASE server \notin {"handling", "replying"}
    BY <1>0, <1>5 DEF PlacesOK, ServerEnded
<1> QED BY <1>0, <1>2, <1>3, <1>4, <1>5 DEF CountsOK

(***************************************************************************)
(* If neither end can move, both are through, or they are in a standoff:   *)
(* with every step leaving less to do, this is what EndsUnlessStandoff     *)
(* takes but for the polls.  There is no other deadlock between writer,    *)
(* reader, handler and the two windows, whatever faults went before.       *)
(***************************************************************************)
THEOREM OnlyStandoffsBlock ==
    ASSUME Handlers # {}
    PROVE  Spec => [](ClientMay \/ ServerMay \/ Standoff \/ (ClientEnded /\ ServerEnded))
<1>1. Init => TaskInv
    BY DEF Init, TaskInv, Over
<1>2. IInv /\ TaskInv /\ [Next]_vars => TaskInv'
    BY StepTask
<1>3. ASSUME IInv, TaskInv, ~ClientMay, ~ServerMay
      PROVE  Standoff \/ (ClientEnded /\ ServerEnded)
  <2>0. /\ PlacesOK /\ CountsOK /\ ClientInv /\ ServerInv
        /\ Window > 0
      BY <1>3, SizesAssumption DEF IInv, TypeOK
  <2>1. CASE client = "sending"
    <3>1. unsent > 0 /\ up = Window /\ body = "held" /\ conn = "open"
        BY <1>3, <2>1, ClientBlocked DEF ClientEnded
    <3>2. server \notin Over /\ server # "waiting"
        BY <1>3, <2>1, <3>1 DEF TaskInv, ServerMay
    <3>3. ~ServerEnded
        BY <3>2 DEF ServerEnded, Over
    <3>4. up # 0
        BY <2>0, <3>1, SizesAssumption
    <3>5. server = "replying" /\ hand = 1 /\ down = Window
        BY <1>3, <3>3, <3>4, ServerBlocked
    <3>6. handler = "echo"
        BY <2>0, <3>1, <3>5 DEF ServerInv
    <3> QED BY <2>1, <3>1, <3>5, <3>6 DEF Standoff
  <2>2. CASE client \in {"awaiting", "reading"}
    <3>1. /\ downEnd = "open" /\ conn = "open"
          /\ client = "awaiting" => head = "none"
          /\ client = "reading" => down = 0
        BY <1>3, <2>2, ClientBlocked DEF ClientEnded
    <3>2. upEnd = "fin" /\ server \notin Over /\ server # "waiting"
        BY <1>3, <2>0, <2>2, <3>1 DEF TaskInv, ServerMay, ClientInv, PlacesOK
    <3>3. server = "replying" /\ down = Window
        BY <1>3, <3>2, ServerBlocked DEF ServerEnded, Over
    <3> QED BY <2>0, <2>2, <3>1, <3>3 DEF ServerInv
  <2>3. CASE ClientEnded
    <3>1. ServerEnded
      <4>1. CASE Reads /\ up = 0 /\ upEnd = "open" /\ conn = "open"
          BY <1>3, <2>0, <2>3, <4>1 DEF ClientInv, ClientMay, ClientEnded
      <4>2. CASE server = "replying" /\ down = Window /\ ~GaveUp /\ conn = "open"
          BY <1>3, <2>0, <2>3, <4>2
             DEF ClientInv, ServerInv, ClientMay, ClientEnded, GaveUp
      <4> QED BY <1>3, <4>1, <4>2, ServerBlocked
    <3> QED BY <2>3, <3>1
  <2> QED BY <1>3, <2>1, <2>2, <2>3, ClientBlocked
<1>4. IInv /\ TaskInv
        => ClientMay \/ ServerMay \/ Standoff \/ (ClientEnded /\ ServerEnded)
    BY <1>3
<1> QED BY <1>1, <1>2, <1>4, ExchangeInvariance, PTL DEF Spec

=============================================================================
