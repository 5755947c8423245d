-------------------------- MODULE ConnectionStreams --------------------------
(***************************************************************************)
(* The streams of one connection, client and server.                       *)
(*                                                                         *)
(* Client: calls open a stream each, through handles of the connection     *)
(* (OpenStreams, its clones, or the Connection itself) whose opening_bi    *)
(* keeps the future of an open from poll to poll: one that is dropped      *)
(* leaves it, with its waker, to the next call of the handle.              *)
(* Server: the accept loop of IrohAxum takes one stream after the other    *)
(* (incoming_bi) and spawns a task for each.                               *)
(* Between them the peer's limit on open streams: a stream counts until    *)
(* both ends are through with both of its halves.                          *)
(*                                                                         *)
(* What a call and its task say to one another is RequestExchange's; here  *)
(* a call that is Slow may stop producing its body, or reading the         *)
(* response, and a handler that is Hung may wait for ever.                 *)
(***************************************************************************)
EXTENDS Integers, FiniteSets

CONSTANTS
    Calls,        \* requests sent on this connection
    Handles,      \* openers: SendRequest clones of h3, each with an OpenStreams
    Via,          \* the handle each call goes through
    NoCall,       \* a stored future that has no waker
    Limits,       \* numbers of open streams a server's transport may allow
    Slow,         \* calls whose caller may stall, in mid-body or in mid-response
    Hung          \* calls whose handler may never end

ASSUME ConstantsAssumption ==
    /\ IsFiniteSet(Calls) /\ NoCall \notin Calls
    /\ Via \in [Calls -> Handles]
    /\ Limits \subseteq Nat \ {0}

VARIABLES
    pc,           \* where each call is
    opening_bi,   \* the call whose waker the future stored in a handle has
    woken,        \* calls that are going to be polled
    stream,       \* the stream of each call, as far as the server knows it
    max_streams,  \* open streams the server allows
    limit,        \* streams the client may open, all told
    conn,         \* the connection, as both ends see it
    loop,         \* IrohAxum::accept
    task          \* the task of each request

vars == <<pc, opening_bi, woken, stream, max_streams, limit, conn, loop, task>>

TypeOK ==
    /\ pc \in [Calls -> {"start", "opening", "opened", "sending", "waiting", "done",
                         "failed", "aborted"}]
    /\ opening_bi \in [Handles -> Calls \cup {NoCall}]
    /\ woken \subseteq Calls
    /\ stream \in [Calls -> {"none", "opened", "arrived"}]
    /\ max_streams \in Limits
    /\ limit \in Nat
    /\ conn \in {"open", "closed"}
    /\ loop \in {"setup", "awake", "asleep", "ended"}
    /\ task \in [Calls -> {"none", "resolving", "handling", "ended"}]

\* Every handle starts without a future, a clone of a handle that has one included.
ClientInit ==
    /\ pc = [c \in Calls |-> "start"]
    /\ opening_bi = [h \in Handles |-> NoCall]
    /\ woken = {}
    /\ max_streams \in Limits
    /\ limit = max_streams

ServerInit ==
    /\ stream = [c \in Calls |-> "none"]
    /\ conn = "open"
    /\ loop = "setup"
    /\ task = [c \in Calls |-> "none"]

Init == ClientInit /\ ServerInit

Goto(c, label) == pc' = [pc EXCEPT ![c] = label]

Opened == {c \in Calls : stream[c] # "none"}

\* Mutant: the response is finished before the task is through.
OverEarly(c) ==
    /\ stream[c] # "none" /\ pc[c] \notin {"opened", "sending"}
    /\ task[c] \in {"handling", "ended"}

\* A task keeps its stream until it ends, a call finishes it or drops it.
Over(c) ==
    /\ stream[c] # "none" /\ pc[c] \notin {"opened", "sending"}
    /\ task[c] = "ended"

OverStreams == {c \in Calls : Over(c)}

Credit == Cardinality(Opened) < limit

\* notify_waiters: every stored future wakes the call that polled it last.
WakeOpeners ==
    /\ woken' = woken \cup ({opening_bi[h] : h \in Handles} \ {NoCall})
    /\ opening_bi' = [h \in Handles |-> NoCall]

-----------------------------------------------------------------------------
(* A call. *)

\* send_request borrows its handle (&mut) until the head is sent.
Start(c) ==
    /\ pc[c] = "start"
    /\ \A d \in Calls : Via[d] = Via[c] => pc[d] \notin {"opening", "opened"}
    /\ Goto(c, "opening")
    /\ woken' = woken \cup {c}
    /\ UNCHANGED <<opening_bi, stream, max_streams, limit, conn, loop, task>>

\* A poll ends the stored future, with a stream or an error ...
PollReady(c, label) ==
    /\ pc[c] = "opening" /\ c \in woken
    /\ Goto(c, label)
    /\ woken' = woken \ {c}
    /\ opening_bi' = [opening_bi EXCEPT ![Via[c]] = NoCall]
    /\ UNCHANGED <<max_streams, limit, conn, loop, task>>

PollOpens(c) ==
    /\ conn = "open" /\ Credit
    /\ PollReady(c, "opened")
    /\ stream' = [stream EXCEPT ![c] = "opened"]

PollFails(c) ==
    /\ conn = "closed"
    /\ PollReady(c, "failed")
    /\ UNCHANGED stream

\* Mutant: a stored future that waits already is not polled again.
PollPendingOnce(c) ==
    /\ pc[c] = "opening" /\ c \in woken
    /\ conn = "open" /\ ~Credit
    /\ opening_bi' = [opening_bi EXCEPT ![Via[c]] = IF @ = NoCall THEN c ELSE @]
    /\ woken' = woken \ {c}
    /\ UNCHANGED <<pc, stream, max_streams, limit, conn, loop, task>>

\* ... or leaves it waiting, with the waker of this poll.
PollPending(c) ==
    /\ pc[c] = "opening" /\ c \in woken
    /\ conn = "open" /\ ~Credit
    /\ opening_bi' = [opening_bi EXCEPT ![Via[c]] = c]
    /\ woken' = woken \ {c}
    /\ UNCHANGED <<pc, stream, max_streams, limit, conn, loop, task>>

Poll(c) == PollOpens(c) \/ PollFails(c) \/ PollPending(c)

SendHead(c) ==
    /\ pc[c] = "opened" /\ conn = "open"
    /\ Goto(c, "sending")
    /\ UNCHANGED <<opening_bi, woken, stream, max_streams, limit, conn, loop, task>>

Finish(c) ==
    /\ pc[c] = "sending"
    /\ Goto(c, "waiting")
    /\ UNCHANGED <<opening_bi, woken, stream, max_streams, limit, conn, loop, task>>

\* The handler does not read the body, or its task has ended.
WriteError(c) ==
    /\ pc[c] = "sending" /\ task[c] \in {"handling", "ended"}
    /\ Goto(c, "failed")
    /\ UNCHANGED <<opening_bi, woken, stream, max_streams, limit, conn, loop, task>>

\* The response was read to its end, or broke off.
Receive(c) ==
    /\ pc[c] = "waiting" /\ task[c] = "ended"
    /\ Goto(c, "done")
    /\ UNCHANGED <<opening_bi, woken, stream, max_streams, limit, conn, loop, task>>

FailOnClosed(c) ==
    /\ pc[c] \in {"opened", "sending", "waiting"} /\ conn = "closed"
    /\ Goto(c, IF pc[c] = "opened" THEN "aborted" ELSE "failed")
    /\ UNCHANGED <<opening_bi, woken, stream, max_streams, limit, conn, loop, task>>

\* The caller drops the future, or the response; a stored future stays.
Cancel(c) ==
    /\ pc[c] \in {"opening", "opened", "sending", "waiting"}
    /\ Goto(c, IF pc[c] = "opened" THEN "aborted" ELSE "failed")
    /\ woken' = woken \ {c}
    /\ UNCHANGED <<opening_bi, stream, max_streams, limit, conn, loop, task>>

-----------------------------------------------------------------------------
(* The transport. *)

Rouse == loop' = IF loop = "asleep" THEN "awake" ELSE loop

\* A stream is known by its first frame, or by one of a stream opened later.
Arrive(c) ==
    /\ conn = "open" /\ stream[c] = "opened"
    /\ pc[c] # "opened" \/ \E d \in Calls \ {c} : stream[d] = "arrived"
    /\ stream' = [stream EXCEPT ![c] = "arrived"]
    /\ Rouse
    /\ UNCHANGED <<pc, opening_bi, woken, max_streams, limit, conn, task>>

\* MAX_STREAMS: as many streams more as are over.
MaxStreamsArrives ==
    /\ conn = "open" /\ limit < max_streams + Cardinality(OverStreams)
    /\ limit' = max_streams + Cardinality(OverStreams)
    /\ WakeOpeners
    /\ UNCHANGED <<pc, stream, max_streams, conn, loop, task>>

Close == conn = "open" /\ conn' = "closed" /\ WakeOpeners

\* It times out, or the client closes it.
ConnectionLost ==
    /\ Close
    /\ Rouse
    /\ UNCHANGED <<pc, stream, max_streams, limit, task>>

-----------------------------------------------------------------------------
(* The accept loop and its tasks. *)

\* h3 opens the server's control streams; the transport has room for them.
SetUp ==
    /\ loop = "setup" /\ conn = "open"
    /\ loop' = "awake"
    /\ UNCHANGED <<pc, opening_bi, woken, stream, max_streams, limit, conn, task>>

Unaccepted(c) == stream[c] = "arrived" /\ task[c] = "none"

\* A control stream of the client arrives (incoming_uni): the loop polls again.
AcceptRecv ==
    /\ loop = "asleep" /\ conn = "open"
    /\ Rouse
    /\ UNCHANGED <<pc, opening_bi, woken, stream, max_streams, limit, conn, task>>

\* Mutant: the request is handled before the next one is accepted.
AcceptSerially(c) ==
    /\ loop = "awake" /\ Unaccepted(c)
    /\ \A d \in Calls : task[d] \notin {"resolving", "handling"}
    /\ task' = [task EXCEPT ![c] = "resolving"]
    /\ UNCHANGED <<pc, opening_bi, woken, stream, max_streams, limit, conn, loop>>

\* Mutant: the loop waits for news after every request.
AcceptAndSleep(c) ==
    /\ loop = "awake" /\ Unaccepted(c)
    /\ task' = [task EXCEPT ![c] = "resolving"]
    /\ loop' = "asleep"
    /\ UNCHANGED <<pc, opening_bi, woken, stream, max_streams, limit, conn>>

Accept(c) ==
    /\ loop = "awake" /\ Unaccepted(c)
    /\ task' = [task EXCEPT ![c] = "resolving"]
    /\ UNCHANGED <<pc, opening_bi, woken, stream, max_streams, limit, conn, loop>>

AcceptPending ==
    /\ loop = "awake" /\ conn = "open"
    /\ \A c \in Calls : ~Unaccepted(c)
    /\ loop' = "asleep"
    /\ UNCHANGED <<pc, opening_bi, woken, stream, max_streams, limit, conn, task>>

\* Mutant: only an error of the set-up ends accept.
AcceptIgnoresEnd ==
    /\ loop = "setup" /\ conn = "closed"
    /\ loop' = "ended"
    /\ UNCHANGED <<pc, opening_bi, woken, stream, max_streams, limit, conn, task>>

\* No more requests, or an error: accept returns.
AcceptEnds ==
    /\ loop \in {"setup", "awake"} /\ conn = "closed"
    /\ loop' = "ended"
    /\ UNCHANGED <<pc, opening_bi, woken, stream, max_streams, limit, conn, task>>

\* accept is aborted, or fails: the connection it drops is closed.
ServerShutdown ==
    /\ loop # "ended" /\ Close
    /\ loop' = "ended"
    /\ UNCHANGED <<pc, stream, max_streams, limit, task>>

SetTask(c, label) ==
    /\ task' = [task EXCEPT ![c] = label]
    /\ UNCHANGED <<pc, opening_bi, woken, stream, max_streams, limit, conn, loop>>

\* resolve_request has the head ...
Resolve(c) ==
    /\ task[c] = "resolving" /\ pc[c] \notin {"opened", "aborted"}
    /\ SetTask(c, "handling")

\* ... or fails: the stream ends before there is one.
ResolveFails(c) ==
    /\ task[c] = "resolving" /\ (pc[c] = "aborted" \/ conn = "closed")
    /\ SetTask(c, "ended")

\* The response is finished, or the stream or the router fails.
HandlerEnds(c) == task[c] = "handling" /\ SetTask(c, "ended")

-----------------------------------------------------------------------------

ClientStep(c) ==
    \/ Poll(c) \/ SendHead(c) \/ Finish(c) \/ WriteError(c) \/ Receive(c) \/ FailOnClosed(c)

LoopStep == SetUp \/ AcceptPending \/ AcceptEnds \/ \E c \in Calls : Accept(c)

TaskStep(c) == Resolve(c) \/ ResolveFails(c) \/ HandlerEnds(c)

Next ==
    \/ \E c \in Calls : Start(c) \/ ClientStep(c) \/ Cancel(c) \/ Arrive(c) \/ TaskStep(c)
    \/ MaxStreamsArrives \/ ConnectionLost \/ AcceptRecv \/ ServerShutdown \/ LoopStep

Spec == Init /\ [][Next]_vars

\* The caller produces no body, or reads no response.
CallStalls(c) == c \in Slow /\ pc[c] \in {"sending", "waiting"}

\* The handler waits for its caller, or for something else.
TaskStalls(c) ==
    task[c] = "handling" /\ (c \in Hung \/ (CallStalls(c) /\ conn = "open"))

(***************************************************************************)
(* Woken tasks are polled, and do what they can, but for those that stall; *)
(* frames of an open connection arrive.  Nobody has to start or to drop a  *)
(* call, or to close the connection.                                       *)
(***************************************************************************)
Fairness ==
    /\ \A c \in Calls : /\ WF_vars(~CallStalls(c) /\ ClientStep(c))
                        /\ WF_vars(~TaskStalls(c) /\ TaskStep(c))
                        /\ WF_vars(Arrive(c))
    /\ WF_vars(MaxStreamsArrives)
    /\ WF_vars(LoopStep)

FairSpec == Spec /\ Fairness

-----------------------------------------------------------------------------
(* Safety. *)

CallInv ==
    \A c \in Calls :
        /\ pc[c] \in {"start", "opening"} => stream[c] = "none"
        /\ pc[c] \in {"opened", "sending", "waiting", "done", "aborted"} => stream[c] # "none"
        /\ task[c] # "none" => stream[c] = "arrived"
        /\ task[c] = "handling" => pc[c] \notin {"opened", "aborted"}
        /\ pc[c] = "done" => task[c] = "ended"

\* A handle is borrowed by one call at a time.
HandleInv ==
    \A c, d \in Calls :
        Via[c] = Via[d] /\ {pc[c], pc[d]} \subseteq {"opening", "opened"} => c = d

LimitInv ==
    /\ Cardinality(Opened) <= limit
    /\ limit <= max_streams + Cardinality(OverStreams)

(***************************************************************************)
(* No wake-up is lost: a call that sleeps has nothing to do, and the       *)
(* future that waits for it, perhaps begun by a call that was dropped, has *)
(* its waker; a loop that sleeps has accepted all there is.                *)
(***************************************************************************)
WakeInv ==
    /\ \A c \in Calls : pc[c] = "opening" /\ c \notin woken =>
           opening_bi[Via[c]] = c /\ conn = "open" /\ ~Credit
    /\ loop = "asleep" =>
           conn = "open" /\ \A c \in Calls : ~Unaccepted(c)

IInv == TypeOK /\ CallInv /\ HandleInv /\ LimitInv /\ WakeInv

(***************************************************************************)
(* Nothing in handle_request bounds the tasks it spawns (axum lib.rs:82),  *)
(* but each has the sending half of its stream until it ends: however      *)
(* calls are dropped, there are at most as many as streams are allowed.    *)
(***************************************************************************)
Running == {c \in Calls : task[c] \in {"resolving", "handling"}}

TasksBounded == Cardinality(Running) <= max_streams

-----------------------------------------------------------------------------
(* The connection implements StreamSlots. *)

\* The call writes, or the task has not come to its end.
InUse(c) == pc[c] \in {"opened", "sending"} \/ task[c] # "ended"

slot == [c \in Calls |-> IF stream[c] = "none" THEN "none"
                         ELSE IF InUse(c) THEN "held" ELSE "back"]

Slots == INSTANCE StreamSlots WITH slots <- max_streams

(***************************************************************************)
(* Behind stored futures, wakers, the transport's limit and the tasks of   *)
(* both ends, a request has a slot from the opening of its stream until    *)
(* its call and its task are through, whoever of them is first, and the    *)
(* next one gets the slot only then.                                       *)
(***************************************************************************)
ImplementsStreamSlots == Slots!Spec

-----------------------------------------------------------------------------
(* Liveness. *)

\* Streams that a stalling caller or handler may keep for ever fill the limit.
Saturated == Cardinality({c \in Opened \ OverStreams : c \in Slow \cup Hung}) >= max_streams

(***************************************************************************)
(* A call that waits for a stream gets one, or an error, unless callers    *)
(* and handlers that stall have them all, also when it takes over the      *)
(* future of a call that was dropped (iroh-h3 lib.rs:228).                 *)
(***************************************************************************)
OpensUnlessSaturated == \A c \in Calls : pc[c] = "opening" ~> pc[c] # "opening" \/ Saturated

(***************************************************************************)
(* A request whose head was sent gets to the router while the connection   *)
(* is open, whatever other handlers do (axum lib.rs:137-140).              *)
(***************************************************************************)
RequestsAreTaken ==
    \A c \in Calls : pc[c] = "sending" ~> task[c] \in {"handling", "ended"} \/ conn = "closed"

\* Somebody has still to hear that the connection is closed.
Unaware(c) ==
    \/ pc[c] \in {"opening", "opened"}
    \/ pc[c] \in {"sending", "waiting"} /\ c \notin Slow
    \/ task[c] = "resolving"
    \/ task[c] = "handling" /\ c \notin Hung

(***************************************************************************)
(* The end of a connection reaches everybody: calls that wait for a stream *)
(* or an answer, tasks, and the accept loop.  A handler that waits for     *)
(* something else outlives it, and so does a caller that does not look.    *)
(***************************************************************************)
ClosedIsOver == conn = "closed" ~> loop = "ended" /\ \A c \in Calls : ~Unaware(c)

=============================================================================
