----------------------------- MODULE Middleware -----------------------------
(***************************************************************************)
(* Requests on their way through a stack of middleware layers to the       *)
(* connection manager (the base service), and results on their way back:   *)
(*   "retry"     RetryFailures       "redirect"  FollowRedirects           *)
(*   "jar"       CookieJar           "timeout"   Timeout                   *)
(*   "smart"     SmartTimeout                                              *)
(* A layer is a function that awaits the next one, any number of times.    *)
(* Layer i of a call is entered with a request when the call is "down" at  *)
(* i, and gets a result when it is "up" at i; what its local variables     *)
(* hold in between is its frame.  Calls run concurrently and share the     *)
(* cookie jar.                                                             *)
(*                                                                         *)
(* The base service answers as it likes, or never.  URIs are a peer and a  *)
(* path, "long" if it has a prefix exempt from SmartTimeout, "bare" if the *)
(* URI is an authority alone, without scheme and path; a cookie is a name  *)
(* and the peer that set it; durations are left out, and so is             *)
(* OverrideTimeout, which changes one.                                     *)
(***************************************************************************)
EXTENDS Naturals, Sequences

CONSTANTS
    Calls,
    Peers,
    NoPeer,        \* the authority of a URI that is missing or not a peer id
    SamePeer,      \* the authority of a Location that names none
    CookieNames,
    Stacks,        \* the stacks of layers considered, outermost first
    Requests,      \* what callers ask for
    Answers,       \* what the base service answers
    MaxRetries,
    MaxRedirects,
    BaseDelay      \* of the retries' backoff

Kinds == {"retry", "redirect", "jar", "timeout", "smart"}
Absolute == [peer : Peers \cup {NoPeer}, path : {"plain", "long"}]
Relative == [peer : {SamePeer}, path : {"plain", "long"}]
Uris == Absolute \cup [peer : Peers \cup {NoPeer}, path : {"bare"}]
Cookies == [name : CookieNames, from : Peers]

Request == [to : Uris, method : {"GET", "POST"}, body : {"empty", "bytes", "stream"},
            retry : {"allowed", "disabled"}, cookies : SUBSET Cookies]

\* A response's status, or the variant of an error.
Statuses == {"ok", "gone", "failure", "see other", "temporary redirect"}
Errors == {"transport", "validation", "timeout", "retry limit", "redirect limit", "other"}
Invalid == [peer |-> NoPeer, path |-> "none"]  \* a Location that is missing or no URI
Locations == Absolute \cup Relative \cup {Invalid}
Result == [what : Statuses \cup Errors, location : Locations, cookies : SUBSET Cookies]

ASSUME ConstantsAssumption ==
    /\ NoPeer \notin Peers /\ SamePeer \notin Peers \cup {NoPeer}
    /\ Stacks \subseteq Seq(Kinds)
    /\ Requests \subseteq [to : Uris, method : {"GET", "POST"},
                           body : {"empty", "bytes", "stream"},
                           retry : {"allowed", "disabled"}, cookies : {{}}]
    /\ Answers \subseteq [what : Statuses \cup {"transport"},
                          location : Locations, sets : SUBSET CookieNames]
    /\ MaxRetries \in Nat /\ MaxRedirects \in Nat /\ BaseDelay \in Nat

VARIABLES
    stack,   \* the layers of this client, fixed when it was built
    pc,      \* whether a call goes down, up, waits for the base service, ...
    at,      \* ... and the layer that is to move next
    req,     \* the request going down, then the last one sent
    res,     \* the result going up, in the end the caller's
    frame,   \* per layer: its request with its body slot, and its counter
    jar,     \* CookieJar.cookies
    sends,   \* history: requests sent to the base service,
    streams, \* those with a streaming body,
    bodies,  \* and those with any body at all;
    kept     \* redirects followed with the body still in the slot

history == <<sends, streams, bodies, kept>>
vars == <<stack, pc, at, req, res, frame, jar, history>>

Frames == [req : Request, count : Nat]
NoResult == [what |-> "other", location |-> Invalid, cookies |-> {}]
Error(what) == [NoResult EXCEPT !.what = what]

\* Requests and results are well formed wherever a call is; in particular a
\* request always goes to a URI.
TypeOK ==
    /\ stack \in Stacks
    /\ pc \in [Calls -> {"down", "up", "sent", "sleeping", "returned"}]
    /\ at \in [Calls -> 0..(Len(stack) + 1)]
    /\ req \in [Calls -> Request] /\ res \in [Calls -> Result]
    /\ frame \in [Calls -> [1..Len(stack) -> Frames]]
    /\ jar \in [Peers -> SUBSET Cookies]
    /\ sends \in [Calls -> Nat] /\ streams \in [Calls -> Nat]
    /\ bodies \in [Calls -> Nat] /\ kept \in [Calls -> Nat]

\* Mutant: take() leaves nothing of any body.
TakenAlways(body) == "empty"

\* What Body::take leaves behind: bytes are cloned, a stream can only move.
Taken(body) == IF body = "bytes" THEN "bytes" ELSE "empty"

Slot(r, n) == [req |-> [r EXCEPT !.body = Taken(r.body)], count |-> n]

Init ==
    /\ stack \in Stacks
    /\ req \in [Calls -> Requests]
    /\ pc = [c \in Calls |-> "down"] /\ at = [c \in Calls |-> 1]
    /\ res = [c \in Calls |-> NoResult]
    /\ frame = [c \in Calls |-> [i \in 1..Len(stack) |-> Slot(req[c], 0)]]
    /\ jar = [p \in Peers |-> {}]
    /\ sends = [c \in Calls |-> 0] /\ streams = [c \in Calls |-> 0]
    /\ bodies = [c \in Calls |-> 0] /\ kept = [c \in Calls |-> 0]

-----------------------------------------------------------------------------

Layer(c) == IF at[c] \in 1..Len(stack) THEN stack[at[c]] ELSE "base"
Entered(c, kind) == pc[c] = "down" /\ Layer(c) = kind
Resumed(c, kind) == pc[c] = "up" /\ Layer(c) = kind
Own(c) == frame[c][at[c]]  \* the frame of the layer that moves

\* The layer awaits the next one with r, and keeps a frame.
Await(c, r, own) ==
    /\ frame' = [frame EXCEPT ![c][at[c]] = own]
    /\ req' = [req EXCEPT ![c] = r]
    /\ at' = [at EXCEPT ![c] = @ + 1]
    /\ pc' = [pc EXCEPT ![c] = "down"]
    /\ UNCHANGED <<stack, res>>

\* Layer i of the call (the layer that moves, or a timeout) returns a result.
Return(c, i, result) ==
    /\ res' = [res EXCEPT ![c] = result]
    /\ at' = [at EXCEPT ![c] = i - 1]
    /\ pc' = [pc EXCEPT ![c] = IF i = 1 THEN "returned" ELSE "up"]
    /\ UNCHANGED <<stack, req, frame>>

\* A layer that does nothing to a result but to return it.
PassOn(c) ==
    /\ Return(c, at[c], res[c])
    /\ UNCHANGED <<jar, history>>

-----------------------------------------------------------------------------
(* The base service. *)

\* The request is not for a peer: the connection manager, and the cookie jar
\* before it, return the error of peer_id.
BadPeer(c) ==
    /\ Entered(c, "base") \/ Entered(c, "jar")
    /\ req[c].to.peer = NoPeer
    /\ Return(c, at[c], Error("validation"))
    /\ UNCHANGED <<jar, history>>

Send(c) ==
    /\ Entered(c, "base")
    /\ req[c].to.peer # NoPeer
    /\ pc' = [pc EXCEPT ![c] = "sent"]
    /\ sends' = [sends EXCEPT ![c] = @ + 1]
    /\ streams' = [streams EXCEPT ![c] = @ + IF req[c].body = "stream" THEN 1 ELSE 0]
    /\ bodies' = [bodies EXCEPT ![c] = @ + IF req[c].body # "empty" THEN 1 ELSE 0]
    /\ UNCHANGED <<stack, at, req, res, frame, jar, kept>>

Answer(c) ==
    /\ pc[c] = "sent"
    /\ \E a \in Answers :
           Return(c, at[c], [what |-> a.what, location |-> a.location,
                             cookies |-> [name : a.sets, from : {req[c].to.peer}]])
    /\ UNCHANGED <<jar, history>>

-----------------------------------------------------------------------------
(* Timeout and SmartTimeout. *)

\* Mutant: SmartTimeout looks at where the request goes now.
ArmedByTarget(c, i) ==
    stack[i] = "timeout" \/ (stack[i] = "smart" /\ req[c].to.path # "long")

\* SmartTimeout looks at the path of the request it was given.
Armed(c, i) ==
    stack[i] = "timeout" \/ (stack[i] = "smart" /\ frame[c][i].req.to.path # "long")

\* The timer of layer i fires while something below it is pending; the
\* futures below are dropped wherever they are.
TimerFires(c, i) ==
    /\ pc[c] = "sent" \/ (pc[c] = "sleeping" /\ BaseDelay > 0)
    /\ i < at[c]
    /\ Armed(c, i)
    /\ Return(c, i, Error("timeout"))
    /\ UNCHANGED <<jar, history>>

-----------------------------------------------------------------------------
(* RetryFailures. *)

\* The layer is called: nothing is awaited before the next layer is.
EnterLayer(c) ==
    /\ \E kind \in Kinds \ {"jar"} : Entered(c, kind)
    /\ Await(c, req[c], Slot(req[c], 0))
    /\ UNCHANGED <<jar, history>>

\* Mutant: 410 Gone is retried like any other status.
FinalIfSuccess(result) == result.what = "ok"

\* 2xx and 410 Gone are not retried.
Final(result) == result.what \in {"ok", "gone"}

Budget(r) == IF r.retry = "disabled" THEN 0 ELSE MaxRetries

\* Mutant: every error is wrapped.
WrapAlways(c) ==
    /\ Resumed(c, "retry")
    /\ ~Final(res[c])
    /\ Own(c).count + 1 > Budget(Own(c).req)
    /\ Return(c, at[c], IF res[c].what \in Errors THEN Error("retry limit") ELSE res[c])
    /\ UNCHANGED <<jar, history>>

\* No retries are left.  A layer that may not retry passes an error on as it is.
GiveUp(c) ==
    /\ Resumed(c, "retry")
    /\ ~Final(res[c])
    /\ Own(c).count + 1 > Budget(Own(c).req)
    /\ Return(c, at[c], IF res[c].what \in Errors /\ Budget(Own(c).req) > 0
                        THEN Error("retry limit") ELSE res[c])
    /\ UNCHANGED <<jar, history>>

\* Mutant: the body slot is left as it is.
RetryWithBody(c) ==
    /\ Resumed(c, "retry")
    /\ ~Final(res[c])
    /\ Own(c).count + 1 <= Budget(Own(c).req)
    /\ frame' = [frame EXCEPT ![c][at[c]].count = @ + 1]
    /\ pc' = [pc EXCEPT ![c] = "sleeping"]
    /\ UNCHANGED <<stack, at, req, res, jar, history>>

\* Mutant: only responses are counted.
RetryErrorsFreely(c) ==
    /\ Resumed(c, "retry")
    /\ ~Final(res[c])
    /\ Own(c).count + 1 <= Budget(Own(c).req)
    /\ frame' = [frame EXCEPT
           ![c][at[c]].count = IF res[c].what \in Statuses THEN @ + 1 ELSE @,
           ![c][at[c]].req.body = "empty"]
    /\ pc' = [pc EXCEPT ![c] = "sleeping"]
    /\ UNCHANGED <<stack, at, req, res, jar, history>>

\* Any error and any other status is: without the body, after the backoff.
PlanRetry(c) ==
    /\ Resumed(c, "retry")
    /\ ~Final(res[c])
    /\ Own(c).count + 1 <= Budget(Own(c).req)
    /\ frame' = [frame EXCEPT ![c][at[c]] =
                     [req |-> [@.req EXCEPT !.body = "empty"], count |-> @.count + 1]]
    /\ pc' = [pc EXCEPT ![c] = "sleeping"]
    /\ UNCHANGED <<stack, at, req, res, jar, history>>

\* The backoff is over: the layer's parts are sent once more.
Retry(c) ==
    /\ pc[c] = "sleeping"
    /\ Await(c, Own(c).req, Own(c))
    /\ UNCHANGED <<jar, history>>

-----------------------------------------------------------------------------
(* FollowRedirects. *)

IsRedirect(result) == result.what \in {"see other", "temporary redirect"}

\* A location that is not absolute is a path at the authority of the request
\* it answers, "//authority/path" included; that request must have a scheme.
Resolve(base, location) ==
    IF location \notin Relative THEN location
    ELSE IF base.path = "bare" THEN Invalid ELSE [location EXCEPT !.peer = base.peer]

\* Where the answer leads from the layer's own URI, or Invalid.
Target(c) == Resolve(Own(c).req.to, res[c].location)

RefuseRedirect(c) ==
    /\ Resumed(c, "redirect")
    /\ IsRedirect(res[c])
    /\ \/ Own(c).count + 1 > MaxRedirects /\ Return(c, at[c], Error("redirect limit"))
       \/ /\ Own(c).count + 1 <= MaxRedirects
          /\ Target(c) = Invalid
          /\ Return(c, at[c], Error("other"))
    /\ UNCHANGED <<jar, history>>

\* Mutant: 303 changes the method only.
RedirectedWithBody(r, result) ==
    [r EXCEPT !.to = Resolve(r.to, result.location),
              !.method = IF result.what = "see other" THEN "GET" ELSE @]

\* 301, 302 and 303: a GET without a body; 307 and 308: what is in the slot.
Redirected(r, result) ==
    IF result.what = "see other"
    THEN [r EXCEPT !.to = Resolve(r.to, result.location), !.method = "GET", !.body = "empty"]
    ELSE [r EXCEPT !.to = Resolve(r.to, result.location)]

\* Mutant: the request as it was sent is redirected, headers and all.
FollowSent(c) ==
    /\ Resumed(c, "redirect")
    /\ IsRedirect(res[c])
    /\ Own(c).count + 1 <= MaxRedirects
    /\ Target(c) # Invalid
    /\ LET next == Redirected([req[c] EXCEPT !.body = Own(c).req.body], res[c])
       IN /\ Await(c, next, Slot(next, Own(c).count + 1))
          /\ kept' = [kept EXCEPT ![c] = @ + IF next.body = "empty" THEN 0 ELSE 1]
    /\ UNCHANGED <<jar, sends, streams, bodies>>

\* Mutant: the layer's parts keep the first URI.
FollowFromFirst(c) ==
    /\ Resumed(c, "redirect")
    /\ IsRedirect(res[c])
    /\ Own(c).count + 1 <= MaxRedirects
    /\ Target(c) # Invalid
    /\ LET next == Redirected(Own(c).req, res[c])
       IN /\ Await(c, next, Slot([next EXCEPT !.to = Own(c).req.to], Own(c).count + 1))
          /\ kept' = [kept EXCEPT ![c] = @ + IF next.body = "empty" THEN 0 ELSE 1]
    /\ UNCHANGED <<jar, sends, streams, bodies>>

\* The next hop starts from the layer's own parts and body slot.
Follow(c) ==
    /\ Resumed(c, "redirect")
    /\ IsRedirect(res[c])
    /\ Own(c).count + 1 <= MaxRedirects
    /\ Target(c) # Invalid
    /\ LET next == Redirected(Own(c).req, res[c])
       IN /\ Await(c, next, Slot(next, Own(c).count + 1))
          /\ kept' = [kept EXCEPT ![c] = @ + IF next.body = "empty" THEN 0 ELSE 1]
    /\ UNCHANGED <<jar, sends, streams, bodies>>

-----------------------------------------------------------------------------
(* CookieJar. *)

\* A Cookie header already there is replaced, and left alone if there is
\* nothing to replace it by.
AttachCookies(c) ==
    /\ Entered(c, "jar")
    /\ req[c].to.peer # NoPeer
    /\ LET stored == jar[req[c].to.peer]
       IN Await(c, [req[c] EXCEPT !.cookies = IF stored = {} THEN @ ELSE stored],
                Slot(req[c], 0))
    /\ UNCHANGED <<jar, history>>

\* Mutant: the response's cookies become the jar's.
StoreOnlyNew(c) ==
    /\ Resumed(c, "jar")
    /\ jar' = [jar EXCEPT ![Own(c).req.to.peer] = IF res[c].cookies = {} THEN @ ELSE res[c].cookies]
    /\ Return(c, at[c], res[c])
    /\ UNCHANGED history

\* Cookies of the same name are overwritten.
StoreCookies(c) ==
    /\ Resumed(c, "jar")
    /\ LET new == res[c].cookies
       IN jar' = [jar EXCEPT ![Own(c).req.to.peer] =
                      new \cup {k \in @ : \A n \in new : n.name # k.name}]
    /\ Return(c, at[c], res[c])
    /\ UNCHANGED history

-----------------------------------------------------------------------------

\* The layer has nothing to do about this result.
PassUp(c) ==
    /\ \/ \E kind \in {"timeout", "smart"} : Resumed(c, kind)
       \/ Resumed(c, "retry") /\ Final(res[c])
       \/ Resumed(c, "redirect") /\ ~IsRedirect(res[c])
    /\ PassOn(c)

Step(c) ==
    \/ EnterLayer(c) \/ BadPeer(c) \/ Send(c) \/ PassUp(c)
    \/ GiveUp(c) \/ PlanRetry(c) \/ Retry(c)
    \/ RefuseRedirect(c) \/ Follow(c)
    \/ AttachCookies(c) \/ StoreCookies(c)

Next == \E c \in Calls :
    Step(c) \/ Answer(c) \/ \E i \in 1..Len(stack) : TimerFires(c, i)

Spec == Init /\ [][Next]_vars

\* Futures are polled when they can move, timers fire; the base service need
\* not answer.
Fairness == \A c \in Calls :
    /\ WF_vars(Step(c))
    /\ WF_vars(\E i \in 1..Len(stack) : TimerFires(c, i))

FairSpec == Spec /\ Fairness
-----------------------------------------------------------------------------
(* Safety. *)

\* A call is at a layer, or below the last one.
PlaceInv == \A c \in Calls :
    /\ pc[c] = "down" => at[c] \in 1..(Len(stack) + 1)
    /\ pc[c] \in {"up", "sleeping"} => at[c] \in 1..Len(stack)
    /\ pc[c] = "sent" => at[c] = Len(stack) + 1 /\ req[c].to.peer # NoPeer

\* A streaming body is on its way down or was sent, and no slot holds it; a
\* body that goes down once more does so for one more redirect.
BodyInv == \A c \in Calls :
    /\ streams[c] <= 1 /\ bodies[c] <= 1 + kept[c]
    /\ pc[c] = "down" /\ req[c].body = "stream" => streams[c] = 0
    /\ pc[c] = "down" /\ req[c].body # "empty" => bodies[c] <= kept[c]
    /\ pc[c] = "sleeping" => Own(c).req.body = "empty"
    /\ \A i \in 1..Len(stack) : frame[c][i].req.body # "stream"

(***************************************************************************)
(* A body is in one place: on its way down, or sent, or (bytes) in the     *)
(* slots of the layers that may send it again (body.rs:54).                *)
(***************************************************************************)
IInv == TypeOK /\ PlaceInv /\ BodyInv

\* Layers that have not returned have live frames, which know what they sent
\* or will send again.
Live(c) == {i \in 1..Len(stack) :
                i < at[c] \/ (i = at[c] /\ pc[c] \in {"up", "sleeping"})}

Home(cookies, p) == \A k \in cookies : k.from = p

NoJarAbove(i) == \A j \in 1..(i - 1) : stack[j] # "jar"

\* While no redirect is below a jar, a jar's request, the requests of the
\* layers below it and the one that is sent all go to the same place.
JarCall(c) ==
    /\ pc[c] \in {"down", "sent"} =>
           /\ Home(req[c].cookies, req[c].to.peer)
           /\ NoJarAbove(at[c]) => req[c].cookies = {}
           /\ \A i \in 1..(at[c] - 1) : stack[i] = "jar" => frame[c][i].req.to = req[c].to
    /\ \A i \in 1..Len(stack) :
           /\ Home(frame[c][i].req.cookies, frame[c][i].req.to.peer)
           /\ NoJarAbove(i) => frame[c][i].req.cookies = {}
    /\ \A i, j \in Live(c) :
           i < j /\ stack[i] = "jar" => frame[c][i].req.to = frame[c][j].req.to
    /\ pc[c] = "up" => \A i \in 1..at[c] :
           stack[i] = "jar" => Home(res[c].cookies, frame[c][i].req.to.peer)

JarInv == \A c \in Calls : JarCall(c)

(***************************************************************************)
(* What a jar stores and attaches under its request's peer is that peer's, *)
(* as long as every redirect is above every jar.                           *)
(***************************************************************************)
HomeInv == JarInv /\ \A p \in Peers : Home(jar[p], p)

\* How often a layer may send again what it was given once.
Again(kind, budget) ==
    IF kind = "retry" THEN budget ELSE IF kind = "redirect" THEN MaxRedirects ELSE 0

\* What the last n layers multiply one request up to.
MostSends(layers, budget) ==
    LET most[n \in 0..Len(layers)] ==
            IF n = 0 THEN 1
            ELSE (1 + Again(layers[Len(layers) - n + 1], budget)) * most[n - 1]
    IN  most

(***************************************************************************)
(* A call sends no more requests than its limits multiply up to, whatever  *)
(* the order of the layers and whatever the answers: a retried call starts *)
(* its redirects again, and a redirected one its retries.                  *)
(***************************************************************************)
SendsBounded == \A c \in Calls : sends[c] <= MostSends(stack, Budget(req[c]))[Len(stack)]

(***************************************************************************)
(* "The request body is replaced with Body::empty() for retries to avoid   *)
(* replay issues" (retry_failures.rs:16): a body is sent again only where  *)
(* a 307 or 308 was followed with it.                                      *)
(***************************************************************************)
BodyReplayedOnRedirectOnly == \A c \in Calls : bodies[c] <= 1 + kept[c]

\* No retry layer has begun to send again what it was given.
FirstTry(c) == \A i \in 1..Len(stack) : stack[i] = "retry" => frame[c][i].count = 0

(***************************************************************************)
(* "307/308 -> keep method", "keeping body" (follow_redirects.rs:151):     *)
(* where no retry dropped it on purpose, a body of bytes goes along on     *)
(* every hop of a request that has not become a GET, through any layers.   *)
(* A stream can go along on the first hop only.                            *)
(***************************************************************************)
BytesReachEveryHop == \A c \in Calls :
    /\ pc[c] = "sent" /\ FirstTry(c) /\ req[c].method # "GET"
    /\ bodies[c] > 0 /\ streams[c] = 0
    => req[c].body = "bytes"

(***************************************************************************)
(* A request that became a GET has no body, in this hop and all later      *)
(* ones, retried or not.                                                   *)
(***************************************************************************)
NoBodyOnGet == \A c \in Calls :
    pc[c] = "sent" /\ req[c].method = "GET" => req[c].body = "empty"

(***************************************************************************)
(* "Stores cookies _per peer_" (cookie_jar.rs:14): a cookie is kept for    *)
(* the peer that set it and sent to no other, across redirects, retries    *)
(* and concurrent calls.                                                   *)
(***************************************************************************)
CookiesStayHome ==
    /\ \A p \in Peers : \A k \in jar[p] : k.from = p
    /\ \A c \in Calls : pc[c] = "sent" => \A k \in req[c].cookies : k.from = req[c].to.peer

(***************************************************************************)
(* A cookie once stored stays until one of the same name replaces it: no   *)
(* response of a concurrent call makes it disappear.                       *)
(***************************************************************************)
CookiesAccumulate ==
    [][\A p \in Peers : \A k \in jar[p] : \E n \in jar'[p] : n.name = k.name]_vars

(***************************************************************************)
(* An exhausted limit was really exhausted: "retry limit" is no error of a *)
(* call that may not retry (the test at retry_failures.rs:288), and        *)
(* "redirect limit" takes more sends than MaxRedirects.                    *)
(***************************************************************************)
LimitsWereReached == \A c \in Calls :
    pc[c] = "returned" =>
        /\ res[c].what = "retry limit" => Budget(req[c]) > 0
        /\ res[c].what = "redirect limit" => sends[c] > MaxRedirects

(***************************************************************************)
(* Once the base service answered 2xx or 410 nothing more is sent, and the *)
(* caller gets this answer.                                                *)
(***************************************************************************)
AnswerIsFinal ==
    [][\A c \in Calls : pc[c] = "up" /\ res[c].what \in {"ok", "gone"} =>
           /\ res'[c] = res[c] /\ sends'[c] = sends[c]
           /\ pc'[c] \in {"up", "returned"}]_vars

(***************************************************************************)
(* A relative location leads to the peer that answered with it, in every   *)
(* hop and whatever layers are between the redirects and the peer, not to  *)
(* the one the call was for (follow_redirects.rs:137).                     *)
(***************************************************************************)
RelativeStays ==
    [][\A c \in Calls :
           Resumed(c, "redirect") /\ res[c].location \in Relative /\ pc'[c] = "down" =>
               req'[c].to.peer = req[c].to.peer]_vars

-----------------------------------------------------------------------------
(* Liveness. *)

\* Every timeout above the pending request let it through.
Unguarded(c) == \A i \in 1..Len(stack) :
    /\ stack[i] # "timeout"
    /\ stack[i] = "smart" => frame[c][i].req.to.path = "long"

(***************************************************************************)
(* Even if peers never answer, a call returns: retries and redirects come  *)
(* to an end, and below a timeout only a request SmartTimeout was told to  *)
(* exempt hangs.                                                           *)
(***************************************************************************)
HangsOnlyIfExempt == \A c \in Calls :
    pc[c] # "returned" ~> pc[c] = "returned" \/ (pc[c] = "sent" /\ Unguarded(c))

=============================================================================
