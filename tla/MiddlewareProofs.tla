-------------------------- MODULE MiddlewareProofs --------------------------
(***************************************************************************)
(* Proofs about Middleware.  A step of a call enters a layer (Await),      *)
(* returns from one (Return), sends, or plans a retry; the first lemmas    *)
(* say what each of these does, and the invariants follow from them        *)
(* action by action: first where bodies are, then the cookie jar.          *)
(***************************************************************************)
EXTENDS Middleware, TLAPS

-----------------------------------------------------------------------------
(* Types. *)

\* The layers of a stack are counted by natural numbers.
LEMMA StackFacts ==
    ASSUME TypeOK
    PROVE  /\ Len(stack) \in Nat
           /\ \A i \in 1..Len(stack) : stack[i] \in Kinds
BY ConstantsAssumption DEF TypeOK

\* What Await does to the call that moves, and to no other.
LEMMA AwaitFacts ==
    ASSUME TypeOK, NEW c \in Calls, NEW r \in Request, NEW own \in Frames,
           at[c] \in 1..Len(stack), Await(c, r, own)
    PROVE  /\ frame' \in [Calls -> [1..Len(stack) -> Frames]]
           /\ req' \in [Calls -> Request]
           /\ at' \in [Calls -> 0..(Len(stack) + 1)]
           /\ pc' \in [Calls -> {"down", "up", "sent", "sleeping", "returned"}]
           /\ stack' = stack /\ res' = res
           /\ pc'[c] = "down" /\ at'[c] = at[c] + 1 /\ req'[c] = r
           /\ frame'[c][at[c]] = own
           /\ \A i \in 1..Len(stack) : i # at[c] => frame'[c][i] = frame[c][i]
           /\ \A d \in Calls : d # c =>
                  /\ pc'[d] = pc[d] /\ at'[d] = at[d]
                  /\ req'[d] = req[d] /\ frame'[d] = frame[d]
<1>1. /\ frame \in [Calls -> [1..Len(stack) -> Frames]] /\ req \in [Calls -> Request]
      /\ at \in [Calls -> 0..(Len(stack) + 1)] /\ Len(stack) \in Nat
      /\ pc \in [Calls -> {"down", "up", "sent", "sleeping", "returned"}]
    BY StackFacts DEF TypeOK
<1>2. /\ frame' = [frame EXCEPT ![c][at[c]] = own]
      /\ req' = [req EXCEPT ![c] = r]
      /\ at' = [at EXCEPT ![c] = @ + 1]
      /\ pc' = [pc EXCEPT ![c] = "down"]
      /\ stack' = stack /\ res' = res
    BY DEF Await
<1>3. /\ frame' \in [Calls -> [1..Len(stack) -> Frames]]
      /\ frame'[c][at[c]] = own
      /\ \A i \in 1..Len(stack) : i # at[c] => frame'[c][i] = frame[c][i]
      /\ \A d \in Calls : d # c => frame'[d] = frame[d]
    BY <1>1, <1>2
<1>4. /\ req' \in [Calls -> Request] /\ req'[c] = r
      /\ \A d \in Calls : d # c => req'[d] = req[d]
    BY <1>1, <1>2
<1>5. /\ at' \in [Calls -> 0..(Len(stack) + 1)] /\ at'[c] = at[c] + 1
      /\ \A d \in Calls : d # c => at'[d] = at[d]
    BY <1>1, <1>2
<1>6. /\ pc' \in [Calls -> {"down", "up", "sent", "sleeping", "returned"}]
      /\ pc'[c] = "down"
      /\ \A d \in Calls : d # c => pc'[d] = pc[d]
    BY <1>1, <1>2
<1> QED BY <1>2, <1>3, <1>4, <1>5, <1>6

\* What Return does to the call that moves, and to no other.
LEMMA ReturnFacts ==
    ASSUME TypeOK, NEW c \in Calls, NEW i \in 1..(Len(stack) + 1), NEW result \in Result,
           Return(c, i, result)
    PROVE  /\ res' \in [Calls -> Result]
           /\ at' \in [Calls -> 0..(Len(stack) + 1)]
           /\ pc' \in [Calls -> {"down", "up", "sent", "sleeping", "returned"}]
           /\ stack' = stack /\ req' = req /\ frame' = frame
           /\ res'[c] = result /\ at'[c] = i - 1
           /\ pc'[c] \in {"up", "returned"}
           /\ pc'[c] = "up" => at'[c] \in 1..Len(stack)
           /\ pc'[c] = "returned" => at'[c] = 0
           /\ \A d \in Calls : d # c =>
                  pc'[d] = pc[d] /\ at'[d] = at[d] /\ res'[d] = res[d]
<1>1. /\ res \in [Calls -> Result]
      /\ at \in [Calls -> 0..(Len(stack) + 1)] /\ Len(stack) \in Nat
      /\ pc \in [Calls -> {"down", "up", "sent", "sleeping", "returned"}]
    BY StackFacts DEF TypeOK
<1>2. /\ res' = [res EXCEPT ![c] = result]
      /\ at' = [at EXCEPT ![c] = i - 1]
      /\ pc' = [pc EXCEPT ![c] = IF i = 1 THEN "returned" ELSE "up"]
      /\ stack' = stack /\ req' = req /\ frame' = frame
    BY DEF Return
<1> QED BY <1>1, <1>2

\* What a layer makes of a request is a request, and keeps what it should.
LEMMA SlotFacts ==
    ASSUME NEW r \in Request, NEW n \in Nat
    PROVE  /\ Slot(r, n) \in Frames /\ Slot(r, n).req.body # "stream"
           /\ Slot(r, n).req.to = r.to /\ Slot(r, n).req.cookies = r.cookies
           /\ Slot(r, n).req.retry = r.retry /\ Slot(r, n).req.method = r.method
           /\ r.body = "empty" => Slot(r, n).req.body = "empty"
           /\ Slot(r, n).req.body = "bytes" <=> r.body = "bytes"
           /\ Slot(r, n).count = n
BY DEF Slot, Taken, Frames, Request

LEMMA ResolveFacts ==
    ASSUME NEW base \in Uris, NEW location \in Locations, Resolve(base, location) # Invalid
    PROVE  /\ Resolve(base, location) \in Uris
           /\ location \in Relative => Resolve(base, location).peer = base.peer
BY ConstantsAssumption DEF Resolve, Locations, Relative, Absolute, Uris, Invalid

LEMMA RedirectedFacts ==
    ASSUME NEW r \in Request, NEW result \in Result,
           Resolve(r.to, result.location) # Invalid
    PROVE  /\ Redirected(r, result) \in Request
           /\ Redirected(r, result).cookies = r.cookies
           /\ Redirected(r, result).body # "empty" =>
                  r.body = Redirected(r, result).body /\ result.what # "see other"
           /\ Redirected(r, result).to = Resolve(r.to, result.location)
           /\ Redirected(r, result).retry = r.retry
           /\ \/ Redirected(r, result).method = "GET" /\ Redirected(r, result).body = "empty"
              \/ Redirected(r, result).method = r.method /\ Redirected(r, result).body = r.body
<1>1. Resolve(r.to, result.location) \in Uris
    BY ResolveFacts DEF Request, Result
<1> DEFINE to == Resolve(r.to, result.location)
<1>2. \/ Redirected(r, result) = [r EXCEPT !.to = to, !.method = "GET", !.body = "empty"]
         /\ result.what = "see other"
      \/ Redirected(r, result) = [r EXCEPT !.to = to] /\ result.what # "see other"
    BY DEF Redirected
<1> HIDE DEF to
<1> QED BY <1>1, <1>2 DEF Request, to

LEMMA ErrorFacts ==
    ASSUME NEW what \in Errors
    PROVE  /\ Error(what) \in Result /\ Error(what).cookies = {}
           /\ Error(what).what = what
BY DEF Error, NoResult, Errors, Result, Locations

\* A history counter of one call goes up.
LEMMA CountFacts ==
    ASSUME NEW k \in [Calls -> Nat], NEW c \in Calls, NEW n \in Nat
    PROVE  /\ [k EXCEPT ![c] = @ + n] \in [Calls -> Nat]
           /\ [k EXCEPT ![c] = @ + n][c] = n + k[c]
           /\ \A d \in Calls : d # c => [k EXCEPT ![c] = @ + n][d] = k[d]
           /\ \A d \in Calls : [k EXCEPT ![c] = @ + n][d] >= k[d]
OBVIOUS

\* The frame of the layer that moves.
LEMMA OwnFacts ==
    ASSUME TypeOK, NEW c \in Calls, at[c] \in 1..Len(stack)
    PROVE  /\ Own(c) = frame[c][at[c]] /\ Own(c) \in Frames
           /\ Own(c).req \in Request /\ Own(c).count \in Nat
BY DEF TypeOK, Own, Frames

\* Only a layer has a kind.
LEMMA LayerFacts ==
    ASSUME TypeOK, NEW c \in Calls, Layer(c) \in Kinds
    PROVE  at[c] \in 1..Len(stack) /\ stack[at[c]] = Layer(c)
BY DEF Layer, Kinds

\* The base service is below the last layer.
LEMMA BaseFacts ==
    ASSUME TypeOK, PlaceInv, NEW c \in Calls, Entered(c, "base")
    PROVE  at[c] = Len(stack) + 1
<1>1. Len(stack) \in Nat /\ pc[c] = "down" /\ Layer(c) = "base"
    BY StackFacts DEF Entered
<1>2. at[c] \in 1..(Len(stack) + 1)
    BY <1>1 DEF PlaceInv
<1>3. CASE at[c] \in 1..Len(stack)
    BY <1>1, <1>3, StackFacts DEF Layer, Kinds
<1> QED BY <1>1, <1>2, <1>3

-----------------------------------------------------------------------------
(* IInv: what is needed of the request that goes down. *)

\* A layer may send r and keep own.
LEMMA AwaitIInv ==
    ASSUME IInv, NEW c \in Calls, NEW r \in Request, NEW own \in Frames,
           at[c] \in 1..Len(stack), Await(c, r, own),
           own.req.body # "stream",
           r.body = "stream" => streams[c] = 0,
           r.body # "empty" => bodies[c] <= kept'[c],
           kept' \in [Calls -> Nat], \A d \in Calls : kept'[d] >= kept[d],
           UNCHANGED <<jar, sends, streams, bodies>>
    PROVE  IInv'
<1>1. TypeOK /\ PlaceInv /\ BodyInv /\ Len(stack) \in Nat
    BY StackFacts DEF IInv
<1>2. /\ frame' \in [Calls -> [1..Len(stack) -> Frames]]
      /\ req' \in [Calls -> Request]
      /\ at' \in [Calls -> 0..(Len(stack) + 1)]
      /\ pc' \in [Calls -> {"down", "up", "sent", "sleeping", "returned"}]
      /\ stack' = stack /\ res' = res
    BY <1>1, AwaitFacts
<1>3. /\ pc'[c] = "down" /\ at'[c] = at[c] + 1 /\ req'[c] = r
      /\ frame'[c][at[c]] = own
      /\ \A i \in 1..Len(stack) : i # at[c] => frame'[c][i] = frame[c][i]
    BY <1>1, AwaitFacts
<1>4. \A d \in Calls : d # c =>
          /\ pc'[d] = pc[d] /\ at'[d] = at[d]
          /\ req'[d] = req[d] /\ frame'[d] = frame[d]
    BY <1>1, AwaitFacts
<1>5. TypeOK'
    BY <1>1, <1>2 DEF TypeOK
<1>6. PlaceInv'
    <2> SUFFICES ASSUME NEW d \in Calls
                 PROVE  /\ pc'[d] = "down" => at'[d] \in 1..(Len(stack) + 1)
                        /\ pc'[d] \in {"up", "sleeping"} => at'[d] \in 1..Len(stack)
                        /\ pc'[d] = "sent" =>
                               at'[d] = Len(stack) + 1 /\ req'[d].to.peer # NoPeer
        BY <1>2 DEF PlaceInv
    <2>1. CASE d = c
        BY <2>1, <1>1, <1>3
    <2>2. CASE d # c
        BY <2>2, <1>1, <1>4 DEF PlaceInv
    <2> QED BY <2>1, <2>2
<1>7. BodyInv'
    <2> SUFFICES ASSUME NEW d \in Calls
                 PROVE  /\ streams[d] <= 1 /\ bodies[d] <= 1 + kept'[d]
                        /\ pc'[d] = "down" /\ req'[d].body = "stream" => streams[d] = 0
                        /\ pc'[d] = "down" /\ req'[d].body # "empty" => bodies[d] <= kept'[d]
                        /\ pc'[d] = "sleeping" => frame'[d][at'[d]].req.body = "empty"
                        /\ \A i \in 1..Len(stack) : frame'[d][i].req.body # "stream"
        BY <1>2 DEF BodyInv, Own
    <2>0. /\ streams[d] <= 1 /\ bodies[d] <= 1 + kept[d] /\ kept'[d] >= kept[d]
          /\ bodies[d] \in Nat /\ kept[d] \in Nat /\ kept'[d] \in Nat
          /\ \A i \in 1..Len(stack) : frame[d][i].req.body # "stream"
        BY <1>1 DEF BodyInv, TypeOK
    <2>3. streams[d] <= 1 /\ bodies[d] <= 1 + kept'[d]
        BY <2>0
    <2>4. \A i \in 1..Len(stack) : frame'[c][i].req.body # "stream"
        BY <1>1, <1>3 DEF BodyInv
    <2>1. CASE d = c
        BY <2>1, <2>3, <2>4, <1>3
    <2>2. CASE d # c
      <3>1. pc'[d] = pc[d] /\ at'[d] = at[d] /\ req'[d] = req[d] /\ frame'[d] = frame[d]
          BY <1>4, <2>2
      <3>2. /\ pc[d] = "down" /\ req[d].body = "stream" => streams[d] = 0
            /\ pc[d] = "down" /\ req[d].body # "empty" => bodies[d] <= kept[d]
            /\ pc[d] = "sleeping" => frame[d][at[d]].req.body = "empty"
          BY <1>1 DEF BodyInv, Own
      <3>3. bodies[d] <= kept[d] => bodies[d] <= kept'[d]
          BY <2>0
      <3> QED BY <2>0, <2>3, <3>1, <3>2, <3>3
    <2> QED BY <2>1, <2>2
<1> QED BY <1>5, <1>6, <1>7 DEF IInv

\* Any result may be returned.
LEMMA ReturnIInv ==
    ASSUME IInv, NEW c \in Calls, NEW i \in 1..(Len(stack) + 1), NEW result \in Result,
           Return(c, i, result), jar' \in [Peers -> SUBSET Cookies], UNCHANGED history
    PROVE  IInv'
<1>1. TypeOK /\ PlaceInv /\ BodyInv /\ Len(stack) \in Nat
    BY StackFacts DEF IInv
<1>2. /\ res' \in [Calls -> Result]
      /\ at' \in [Calls -> 0..(Len(stack) + 1)]
      /\ pc' \in [Calls -> {"down", "up", "sent", "sleeping", "returned"}]
      /\ stack' = stack /\ req' = req /\ frame' = frame
    BY <1>1, ReturnFacts
<1>3. /\ pc'[c] \in {"up", "returned"}
      /\ pc'[c] = "up" => at'[c] \in 1..Len(stack)
      /\ \A d \in Calls : d # c => pc'[d] = pc[d] /\ at'[d] = at[d]
    BY <1>1, ReturnFacts
<1>4. sends' = sends /\ streams' = streams /\ bodies' = bodies /\ kept' = kept
    BY DEF history
<1>5. TypeOK'
    BY <1>1, <1>2, <1>4 DEF TypeOK
<1>6. PlaceInv'
    BY <1>1, <1>2, <1>3 DEF PlaceInv
<1>7. BodyInv'
    <2> SUFFICES ASSUME NEW d \in Calls
                 PROVE  /\ streams[d] <= 1 /\ bodies[d] <= 1 + kept[d]
                        /\ pc'[d] = "down" /\ req[d].body = "stream" => streams[d] = 0
                        /\ pc'[d] = "down" /\ req[d].body # "empty" => bodies[d] <= kept[d]
                        /\ pc'[d] = "sleeping" => frame[d][at'[d]].req.body = "empty"
                        /\ \A k \in 1..Len(stack) : frame[d][k].req.body # "stream"
        BY <1>2, <1>4 DEF BodyInv, Own
    <2>1. CASE d = c
        BY <2>1, <1>1, <1>3 DEF BodyInv
    <2>2. CASE d # c
        BY <2>2, <1>1, <1>3 DEF BodyInv, Own
    <2> QED BY <2>1, <2>2
<1> QED BY <1>5, <1>6, <1>7 DEF IInv

LEMMA InitIInv ==
    ASSUME Init
    PROVE  IInv
<1>1. /\ stack \in Seq(Kinds) /\ stack \in Stacks /\ Len(stack) \in Nat
    BY ConstantsAssumption DEF Init
<1>2. \A r \in Requests : r \in Request
    BY ConstantsAssumption DEF Request
<1>3. /\ req \in [Calls -> Requests] /\ req \in [Calls -> Request]
      /\ pc = [c \in Calls |-> "down"] /\ at = [c \in Calls |-> 1]
      /\ res = [c \in Calls |-> NoResult] /\ jar = [p \in Peers |-> {}]
      /\ frame = [c \in Calls |-> [i \in 1..Len(stack) |-> Slot(req[c], 0)]]
      /\ sends = [c \in Calls |-> 0] /\ streams = [c \in Calls |-> 0]
      /\ bodies = [c \in Calls |-> 0] /\ kept = [c \in Calls |-> 0]
    BY <1>2 DEF Init
<1>4. NoResult \in Result
    BY DEF NoResult, Result, Errors, Locations
<1>5. \A c \in Calls : Slot(req[c], 0) \in Frames /\ Slot(req[c], 0).req.body # "stream"
    BY <1>3, SlotFacts
<1>6. TypeOK
    BY <1>1, <1>3, <1>4, <1>5 DEF TypeOK
<1>7. \A c \in Calls :
          /\ pc[c] = "down" /\ at[c] = 1
          /\ streams[c] = 0 /\ bodies[c] = 0 /\ kept[c] = 0
          /\ \A i \in 1..Len(stack) : frame[c][i] = Slot(req[c], 0)
    BY <1>3
<1>8. 1 \in 1..(Len(stack) + 1)
    BY <1>1
<1>9. PlaceInv
    BY <1>7, <1>8 DEF PlaceInv
<1>10. BodyInv
  <2> SUFFICES ASSUME NEW c \in Calls
               PROVE  /\ streams[c] <= 1 /\ bodies[c] <= 1 + kept[c]
                      /\ streams[c] = 0 /\ bodies[c] <= kept[c] /\ pc[c] # "sleeping"
                      /\ \A i \in 1..Len(stack) : frame[c][i].req.body # "stream"
      BY DEF BodyInv
  <2>1. /\ streams[c] <= 1 /\ bodies[c] <= 1 + kept[c]
        /\ streams[c] = 0 /\ bodies[c] <= kept[c] /\ pc[c] # "sleeping"
      BY <1>7
  <2>2. \A i \in 1..Len(stack) : frame[c][i].req.body # "stream"
      BY <1>5, <1>7
  <2> QED BY <2>1, <2>2
<1> QED BY <1>6, <1>9, <1>10 DEF IInv

\* The steps that enter a layer.
LEMMA EnterIInv ==
    ASSUME IInv, NEW c \in Calls, EnterLayer(c) \/ AttachCookies(c)
    PROVE  IInv'
<1>0. TypeOK /\ PlaceInv /\ BodyInv /\ Len(stack) \in Nat
    BY StackFacts DEF IInv
<1>1. /\ pc[c] = "down" /\ Layer(c) \in Kinds
    BY DEF EnterLayer, AttachCookies, Entered, Kinds
<1>2. at[c] \in 1..Len(stack) /\ req[c] \in Request /\ kept \in [Calls -> Nat]
    BY <1>0, <1>1, LayerFacts DEF TypeOK
<1>3. /\ Slot(req[c], 0) \in Frames /\ Slot(req[c], 0).req.body # "stream"
    BY <1>2, SlotFacts
<1>4. /\ req[c].body = "stream" => streams[c] = 0
      /\ req[c].body # "empty" => bodies[c] <= kept[c]
    BY <1>0, <1>1 DEF BodyInv
<1>5. \A d \in Calls : kept[d] >= kept[d]
    BY <1>2
<1>6. CASE EnterLayer(c)
    <2>1. Await(c, req[c], Slot(req[c], 0)) /\ UNCHANGED <<jar, sends, streams, bodies>>
          /\ kept' = kept
        BY <1>6 DEF EnterLayer, history
    <2> QED BY <1>2, <1>3, <1>4, <1>5, <2>1, AwaitIInv
<1>7. CASE AttachCookies(c)
    <2> DEFINE stored == jar[req[c].to.peer]
               r == [req[c] EXCEPT !.cookies = IF stored = {} THEN @ ELSE stored]
    <2>1. Await(c, r, Slot(req[c], 0)) /\ UNCHANGED <<jar, sends, streams, bodies>>
          /\ kept' = kept
        BY <1>7 DEF AttachCookies, history
    <2>2. req[c].to.peer \in Peers
        BY <1>2, <1>7 DEF AttachCookies, Request, Uris, Absolute
    <2>3. stored \in SUBSET Cookies
        BY <1>0, <2>2 DEF TypeOK
    <2>4. r \in Request /\ r.body = req[c].body
        BY <1>2, <2>3 DEF Request
    <2> HIDE DEF r
    <2> QED BY <1>2, <1>3, <1>4, <1>5, <2>1, <2>4, AwaitIInv
<1> QED BY <1>6, <1>7

\* The steps of layers that start again.
LEMMA AgainIInv ==
    ASSUME IInv, NEW c \in Calls, Retry(c) \/ Follow(c)
    PROVE  IInv'
<1>0. TypeOK /\ PlaceInv /\ BodyInv /\ Len(stack) \in Nat /\ kept \in [Calls -> Nat]
    BY StackFacts DEF IInv, TypeOK
<1>1. CASE Retry(c)
    <2>1. pc[c] = "sleeping" /\ at[c] \in 1..Len(stack)
        BY <1>0, <1>1 DEF Retry, PlaceInv
    <2>2. Own(c) \in Frames /\ Own(c).req \in Request /\ Own(c).req.body = "empty"
        BY <1>0, <2>1, OwnFacts DEF BodyInv
    <2>3. Await(c, Own(c).req, Own(c)) /\ UNCHANGED <<jar, sends, streams, bodies>>
          /\ kept' = kept
        BY <1>1 DEF Retry, history
    <2>4. \A d \in Calls : kept[d] >= kept[d]
        BY <1>0
    <2> QED BY <1>0, <2>1, <2>2, <2>3, <2>4, AwaitIInv
<1>2. CASE Follow(c)
    <2> DEFINE next == Redirected(Own(c).req, res[c])
               n == Own(c).count + 1
    <2>1. pc[c] = "up" /\ at[c] \in 1..Len(stack)
        BY <1>0, <1>2 DEF Follow, Resumed, PlaceInv
    <2>2. /\ Own(c) \in Frames /\ Own(c).req \in Request /\ n \in Nat
          /\ Own(c).req.body # "stream" /\ res[c] \in Result
          /\ Resolve(Own(c).req.to, res[c].location) # Invalid
        <3>1. Own(c) = frame[c][at[c]] /\ Own(c) \in Frames
              /\ Own(c).req \in Request /\ Own(c).count \in Nat
            BY <1>0, <2>1, OwnFacts
        <3>2. Own(c).req.body # "stream"
            BY <1>0, <2>1, <3>1 DEF BodyInv
        <3>3. res[c] \in Result
            BY <1>0 DEF TypeOK
        <3>4. Resolve(Own(c).req.to, res[c].location) # Invalid
            BY <1>2 DEF Follow, Target
        <3> QED BY <3>1, <3>2, <3>3, <3>4
    <2>3. next \in Request /\ (next.body # "empty" => Own(c).req.body = next.body)
        BY <2>2, RedirectedFacts
    <2>4. Slot(next, n) \in Frames /\ Slot(next, n).req.body # "stream"
        BY <2>2, <2>3, SlotFacts
    <2>5. /\ Await(c, next, Slot(next, n)) /\ UNCHANGED <<jar, sends, streams, bodies>>
          /\ kept' = [kept EXCEPT ![c] = @ + IF next.body = "empty" THEN 0 ELSE 1]
        BY <1>2 DEF Follow
    <2>6. /\ kept' \in [Calls -> Nat] /\ \A d \in Calls : kept'[d] >= kept[d]
          /\ next.body # "empty" => kept'[c] = 1 + kept[c]
        <3> HIDE DEF next
        <3>1. CASE next.body = "empty"
            <4>1. kept' = [kept EXCEPT ![c] = @ + 0]
                BY <2>5, <3>1
            <4> QED BY <1>0, <3>1, <4>1, CountFacts
        <3>2. CASE next.body # "empty"
            <4>1. kept' = [kept EXCEPT ![c] = @ + 1]
                BY <2>5, <3>2
            <4> QED BY <1>0, <4>1, CountFacts
        <3> QED BY <3>1, <3>2
    <2>7. bodies[c] <= 1 + kept[c]
        BY <1>0 DEF BodyInv
    <2>8. next.body # "stream" /\ (next.body # "empty" => bodies[c] <= kept'[c])
        <3> HIDE DEF next
        <3>1. next.body = "stream" => FALSE
            BY <2>2, <2>3
        <3>2. ASSUME next.body # "empty" PROVE bodies[c] <= kept'[c]
            BY <2>6, <2>7, <3>2
        <3> QED BY <3>1, <3>2
    <2> HIDE DEF next, n
    <2> QED BY <2>1, <2>3, <2>4, <2>5, <2>6, <2>8, AwaitIInv
<1> QED BY <1>1, <1>2

\* A layer that returns is one of the call's, and what it returns is a result.
\* All steps that return have these facts in common.
LEMMA Returning ==
    ASSUME TypeOK, PlaceInv, NEW c \in Calls,
           \/ BadPeer(c) \/ Answer(c) \/ PassUp(c) \/ GiveUp(c) \/ RefuseRedirect(c)
           \/ \E i \in 1..Len(stack) : TimerFires(c, i)
    PROVE  \E i \in 1..at[c], result \in Result :
               /\ i \in 1..(Len(stack) + 1)
               /\ Return(c, i, result)
               /\ UNCHANGED <<jar, history>>
               /\ \/ result.cookies = {}
                  \/ pc[c] = "up" /\ i = at[c] /\ result = res[c]
                  \/ pc[c] = "sent" /\ Home(result.cookies, req[c].to.peer)
<1>0. /\ Len(stack) \in Nat /\ res[c] \in Result /\ req[c] \in Request
      /\ at[c] \in 0..(Len(stack) + 1)
    BY StackFacts DEF TypeOK
<1>1. pc[c] \in {"up", "sleeping"} => at[c] \in 1..at[c] /\ at[c] \in 1..(Len(stack) + 1)
    BY <1>0 DEF PlaceInv
<1>2. pc[c] \in {"down", "sent"} => at[c] \in 1..at[c] /\ at[c] \in 1..(Len(stack) + 1)
    BY <1>0 DEF PlaceInv
<1>3. CASE BadPeer(c)
    <2>1. pc[c] = "down" /\ Return(c, at[c], Error("validation")) /\ UNCHANGED <<jar, history>>
        BY <1>3 DEF BadPeer, Entered
    <2>2. Error("validation") \in Result /\ Error("validation").cookies = {}
        BY ErrorFacts DEF Errors
    <2> QED BY <1>2, <2>1, <2>2
<1>4. CASE Answer(c)
    <2>1. PICK a \in Answers :
              Return(c, at[c], [what |-> a.what, location |-> a.location,
                                cookies |-> [name : a.sets, from : {req[c].to.peer}]])
        BY <1>4 DEF Answer
    <2> DEFINE cookies == [name : a.sets, from : {req[c].to.peer}]
               result == [what |-> a.what, location |-> a.location, cookies |-> cookies]
    <2>2. pc[c] = "sent" /\ UNCHANGED <<jar, history>> /\ req[c].to.peer # NoPeer
        BY <1>4 DEF Answer, PlaceInv
    <2>3. a \in [what : Statuses \cup {"transport"}, location : Locations,
                 sets : SUBSET CookieNames]
        BY ConstantsAssumption
    <2>4. req[c].to.peer \in Peers
        BY <1>0, <2>2 DEF Request, Uris, Absolute
    <2>5. cookies \subseteq Cookies /\ \A k \in cookies : k.from = req[c].to.peer
        BY <2>3, <2>4 DEF Cookies
    <2>6. result \in Result /\ result.cookies = cookies
        BY <2>3, <2>5 DEF Result, Errors
    <2>7. Home(result.cookies, req[c].to.peer)
        BY <2>5, <2>6 DEF Home
    <2>8. Return(c, at[c], result)
        BY <2>1
    <2> HIDE DEF result
    <2> QED BY <1>2, <2>2, <2>6, <2>7, <2>8
<1>5. CASE PassUp(c)
    <2>1. pc[c] = "up" /\ Return(c, at[c], res[c]) /\ UNCHANGED <<jar, history>>
        BY <1>5 DEF PassUp, PassOn, Resumed
    <2> QED BY <1>0, <1>1, <2>1
<1>6. CASE GiveUp(c)
    <2> DEFINE result == IF res[c].what \in Errors /\ Budget(Own(c).req) > 0
                         THEN Error("retry limit") ELSE res[c]
    <2>1. pc[c] = "up" /\ Return(c, at[c], result) /\ UNCHANGED <<jar, history>>
        BY <1>6 DEF GiveUp, Resumed
    <2>2. result \in Result /\ (result.cookies = {} \/ result = res[c])
        BY <1>0, ErrorFacts DEF Errors
    <2> HIDE DEF result
    <2> QED BY <1>1, <2>1, <2>2
<1>7. CASE RefuseRedirect(c)
    <2>1. PICK what \in {"redirect limit", "other"} : Return(c, at[c], Error(what))
        BY <1>7 DEF RefuseRedirect
    <2>2. pc[c] = "up" /\ UNCHANGED <<jar, history>>
        BY <1>7 DEF RefuseRedirect, Resumed
    <2>3. Error(what) \in Result /\ Error(what).cookies = {}
        BY ErrorFacts DEF Errors
    <2> QED BY <1>1, <2>1, <2>2, <2>3
<1>8. ASSUME NEW i \in 1..Len(stack), TimerFires(c, i)
      PROVE  \E k \in 1..at[c], result \in Result :
                 /\ k \in 1..(Len(stack) + 1)
                 /\ Return(c, k, result) /\ UNCHANGED <<jar, history>> /\ result.cookies = {}
    <2>1. i < at[c] /\ Return(c, i, Error("timeout")) /\ UNCHANGED <<jar, history>>
        BY <1>8 DEF TimerFires
    <2>2. Error("timeout") \in Result /\ Error("timeout").cookies = {}
        BY ErrorFacts DEF Errors
    <2>3. i \in 1..at[c] /\ i \in 1..(Len(stack) + 1)
        BY <1>0, <2>1
    <2> QED BY <2>1, <2>2, <2>3
<1> QED BY <1>3, <1>4, <1>5, <1>6, <1>7, <1>8

\* What a jar stores are cookies, and it returns the result it got.
LEMMA StoreFacts ==
    ASSUME TypeOK, PlaceInv, NEW c \in Calls, StoreCookies(c)
    PROVE  /\ pc[c] = "up" /\ at[c] \in 1..Len(stack) /\ stack[at[c]] = "jar"
           /\ at[c] \in 1..(Len(stack) + 1)
           /\ res[c] \in Result /\ Return(c, at[c], res[c]) /\ UNCHANGED history
           /\ jar' \in [Peers -> SUBSET Cookies]
           /\ \A p \in Peers :
                  \/ jar'[p] = jar[p]
                  \/ p = Own(c).req.to.peer /\ jar'[p] \subseteq jar[p] \cup res[c].cookies
<1>1. /\ pc[c] = "up" /\ Layer(c) = "jar" /\ Return(c, at[c], res[c]) /\ UNCHANGED history
    BY DEF StoreCookies, Resumed
<1>2. /\ Len(stack) \in Nat /\ res[c] \in Result /\ at[c] \in 1..Len(stack)
      /\ stack[at[c]] = "jar"
    BY <1>1, StackFacts, LayerFacts DEF TypeOK, PlaceInv, Kinds
<1>3. res[c].cookies \subseteq Cookies /\ jar \in [Peers -> SUBSET Cookies]
    BY <1>2 DEF TypeOK, Result
<1> DEFINE new == res[c].cookies
           p0 == Own(c).req.to.peer
           stored == new \cup {k \in jar[p0] : \A n \in new : n.name # k.name}
<1>4. jar' = [jar EXCEPT ![p0] = stored]
    BY DEF StoreCookies
<1>5. p0 \in Peers => stored \subseteq Cookies /\ stored \subseteq jar[p0] \cup new
    BY <1>3
<1> HIDE DEF stored, p0
<1>6. jar' \in [Peers -> SUBSET Cookies]
    BY <1>3, <1>4, <1>5
<1>7. \A p \in Peers : jar'[p] = jar[p] \/ (p = p0 /\ jar'[p] \subseteq jar[p] \cup new)
    BY <1>3, <1>4, <1>5
<1> QED BY <1>1, <1>2, <1>6, <1>7 DEF p0

LEMMA SendIInv ==
    ASSUME IInv, NEW c \in Calls, Send(c)
    PROVE  IInv'
<1>0. /\ TypeOK /\ PlaceInv /\ BodyInv /\ Len(stack) \in Nat
      /\ sends \in [Calls -> Nat] /\ streams \in [Calls -> Nat] /\ bodies \in [Calls -> Nat]
      /\ pc \in [Calls -> {"down", "up", "sent", "sleeping", "returned"}]
    BY StackFacts DEF IInv, TypeOK
<1> DEFINE s == IF req[c].body = "stream" THEN 1 ELSE 0
           b == IF req[c].body # "empty" THEN 1 ELSE 0
<1>1. s \in Nat /\ b \in Nat
    OBVIOUS
<1>2. /\ Entered(c, "base") /\ req[c].to.peer # NoPeer
      /\ pc' = [pc EXCEPT ![c] = "sent"]
      /\ sends' = [sends EXCEPT ![c] = @ + 1]
      /\ streams' = [streams EXCEPT ![c] = @ + s]
      /\ bodies' = [bodies EXCEPT ![c] = @ + b]
      /\ stack' = stack /\ at' = at /\ req' = req /\ res' = res /\ frame' = frame
      /\ jar' = jar /\ kept' = kept
    BY DEF Send
<1>3. pc[c] = "down" /\ at[c] = Len(stack) + 1
    BY <1>0, <1>2, BaseFacts DEF Entered
<1>4. /\ (req[c].body = "stream" => streams[c] = 0) /\ streams[c] <= 1
      /\ (req[c].body # "empty" => bodies[c] <= kept[c]) /\ bodies[c] <= 1 + kept[c]
    BY <1>0, <1>3 DEF BodyInv
<1>5. s + streams[c] <= 1
    BY <1>0, <1>4
<1>6. b + bodies[c] <= 1 + kept[c]
    BY <1>0, <1>4 DEF TypeOK
<1> HIDE DEF s, b
<1>7. /\ sends' \in [Calls -> Nat] /\ streams' \in [Calls -> Nat] /\ bodies' \in [Calls -> Nat]
      /\ streams'[c] = s + streams[c] /\ bodies'[c] = b + bodies[c]
      /\ \A d \in Calls : d # c => streams'[d] = streams[d] /\ bodies'[d] = bodies[d]
    BY <1>0, <1>1, <1>2, CountFacts
<1>8. /\ pc' \in [Calls -> {"down", "up", "sent", "sleeping", "returned"}] /\ pc'[c] = "sent"
      /\ \A d \in Calls : d # c => pc'[d] = pc[d]
    BY <1>0, <1>2
<1>9. TypeOK'
    BY <1>0, <1>2, <1>7, <1>8 DEF TypeOK
<1>10. PlaceInv'
    BY <1>0, <1>2, <1>3, <1>8 DEF PlaceInv
<1>11. BodyInv'
    <2> SUFFICES ASSUME NEW d \in Calls
                 PROVE  /\ streams'[d] <= 1 /\ bodies'[d] <= 1 + kept[d]
                        /\ pc'[d] = "down" /\ req[d].body = "stream" => streams'[d] = 0
                        /\ pc'[d] = "down" /\ req[d].body # "empty" => bodies'[d] <= kept[d]
                        /\ pc'[d] = "sleeping" => frame[d][at[d]].req.body = "empty"
                        /\ \A k \in 1..Len(stack) : frame[d][k].req.body # "stream"
        BY <1>2 DEF BodyInv, Own
    <2>1. CASE d = c
        BY <2>1, <1>0, <1>5, <1>6, <1>7, <1>8 DEF BodyInv
    <2>2. CASE d # c
        BY <2>2, <1>0, <1>7, <1>8 DEF BodyInv, Own
    <2> QED BY <2>1, <2>2
<1> QED BY <1>9, <1>10, <1>11 DEF IInv

\* A retry is planned in the frame of its layer, and nowhere else.
LEMMA PlanFacts ==
    ASSUME TypeOK, PlaceInv, NEW c \in Calls, PlanRetry(c)
    PROVE  /\ pc[c] = "up" /\ at[c] \in 1..Len(stack) /\ stack[at[c]] = "retry"
           /\ frame' \in [Calls -> [1..Len(stack) -> Frames]]
           /\ frame'[c][at[c]].req.body = "empty"
           /\ frame'[c][at[c]].req.to = frame[c][at[c]].req.to
           /\ frame'[c][at[c]].req.cookies = frame[c][at[c]].req.cookies
           /\ frame'[c][at[c]].req.retry = frame[c][at[c]].req.retry
           /\ frame'[c][at[c]].count = frame[c][at[c]].count + 1
           /\ \A i \in 1..Len(stack) : i # at[c] => frame'[c][i] = frame[c][i]
           /\ \A d \in Calls : d # c => frame'[d] = frame[d]
           /\ pc' \in [Calls -> {"down", "up", "sent", "sleeping", "returned"}]
           /\ pc'[c] = "sleeping" /\ \A d \in Calls : d # c => pc'[d] = pc[d]
           /\ UNCHANGED <<stack, at, req, res, jar, history>>
<1>1. /\ pc[c] = "up" /\ at[c] \in 1..Len(stack) /\ Len(stack) \in Nat
      /\ stack[at[c]] = "retry"
      /\ frame \in [Calls -> [1..Len(stack) -> Frames]]
      /\ pc \in [Calls -> {"down", "up", "sent", "sleeping", "returned"}]
    BY StackFacts DEF PlanRetry, Resumed, Layer, PlaceInv, TypeOK
<1>2. /\ frame' = [frame EXCEPT ![c][at[c]] =
                       [req |-> [@.req EXCEPT !.body = "empty"], count |-> @.count + 1]]
      /\ pc' = [pc EXCEPT ![c] = "sleeping"]
      /\ UNCHANGED <<stack, at, req, res, jar, history>>
    BY DEF PlanRetry
<1> DEFINE old == frame[c][at[c]]
           own == [req |-> [old.req EXCEPT !.body = "empty"], count |-> old.count + 1]
<1>3. old \in Frames
    BY <1>1
<1>4. /\ own \in Frames /\ own.req.body = "empty"
      /\ own.req.to = old.req.to /\ own.req.cookies = old.req.cookies
      /\ own.req.retry = old.req.retry /\ own.count = old.count + 1
    BY <1>3 DEF Frames, Request
<1>5. frame' = [frame EXCEPT ![c][at[c]] = own]
    BY <1>2
<1> HIDE DEF own
<1>6. /\ frame' \in [Calls -> [1..Len(stack) -> Frames]]
      /\ frame'[c][at[c]] = own
      /\ \A i \in 1..Len(stack) : i # at[c] => frame'[c][i] = frame[c][i]
      /\ \A d \in Calls : d # c => frame'[d] = frame[d]
    BY <1>1, <1>4, <1>5
<1>7. /\ pc' \in [Calls -> {"down", "up", "sent", "sleeping", "returned"}]
      /\ pc'[c] = "sleeping" /\ \A d \in Calls : d # c => pc'[d] = pc[d]
    BY <1>1, <1>2
<1> QED BY <1>1, <1>2, <1>4, <1>6, <1>7

LEMMA PlanIInv ==
    ASSUME IInv, NEW c \in Calls, PlanRetry(c)
    PROVE  IInv'
<1>0. TypeOK /\ PlaceInv /\ BodyInv /\ Len(stack) \in Nat
    BY StackFacts DEF IInv
<1>1. /\ frame' \in [Calls -> [1..Len(stack) -> Frames]]
      /\ pc' \in [Calls -> {"down", "up", "sent", "sleeping", "returned"}]
      /\ stack' = stack /\ at' = at /\ req' = req /\ res' = res /\ jar' = jar
      /\ sends' = sends /\ streams' = streams /\ bodies' = bodies /\ kept' = kept
    BY <1>0, PlanFacts DEF history
<1>2. /\ at[c] \in 1..Len(stack) /\ frame'[c][at[c]].req.body = "empty"
      /\ \A i \in 1..Len(stack) : i # at[c] => frame'[c][i] = frame[c][i]
      /\ pc'[c] = "sleeping"
      /\ \A d \in Calls : d # c => pc'[d] = pc[d] /\ frame'[d] = frame[d]
    BY <1>0, PlanFacts
<1>3. TypeOK'
    BY <1>0, <1>1 DEF TypeOK
<1>4. PlaceInv'
    BY <1>0, <1>1, <1>2 DEF PlaceInv
<1>5. BodyInv'
    <2> SUFFICES ASSUME NEW d \in Calls
                 PROVE  /\ streams[d] <= 1 /\ bodies[d] <= 1 + kept[d]
                        /\ pc'[d] = "down" /\ req[d].body = "stream" => streams[d] = 0
                        /\ pc'[d] = "down" /\ req[d].body # "empty" => bodies[d] <= kept[d]
                        /\ pc'[d] = "sleeping" => frame'[d][at[d]].req.body = "empty"
                        /\ \A k \in 1..Len(stack) : frame'[d][k].req.body # "stream"
        BY <1>1 DEF BodyInv, Own
    <2>1. CASE d = c
        <3>1. \A k \in 1..Len(stack) : frame'[c][k].req.body # "stream"
            BY <1>0, <1>2 DEF BodyInv
        <3> QED BY <2>1, <3>1, <1>0, <1>2 DEF BodyInv
    <2>2. CASE d # c
        BY <2>2, <1>0, <1>2 DEF BodyInv, Own
    <2> QED BY <2>1, <2>2
<1> QED BY <1>3, <1>4, <1>5 DEF IInv

\* Bodies stay in their places, in calls through any stack of layers.
THEOREM BodyInvariance == Spec => []IInv
<1>1. Init => IInv
    BY InitIInv
<1>2. IInv /\ [Next]_vars => IInv'
    <2> SUFFICES ASSUME IInv, [Next]_vars PROVE IInv'
        OBVIOUS
    <2>0. TypeOK /\ PlaceInv /\ BodyInv /\ jar \in [Peers -> SUBSET Cookies]
        BY DEF IInv, TypeOK
    <2>1. CASE UNCHANGED vars
        <3>1. /\ stack' = stack /\ pc' = pc /\ at' = at /\ req' = req /\ res' = res
              /\ frame' = frame /\ jar' = jar /\ sends' = sends /\ streams' = streams
              /\ bodies' = bodies /\ kept' = kept
            BY <2>1 DEF vars, history
        <3>2. TypeOK'
            BY <2>0, <3>1 DEF TypeOK
        <3>3. PlaceInv' /\ BodyInv'
            BY <2>0, <3>1 DEF PlaceInv, BodyInv, Own
        <3> QED BY <3>2, <3>3 DEF IInv
    <2>2. ASSUME NEW c \in Calls,
                 \/ BadPeer(c) \/ Answer(c) \/ PassUp(c) \/ GiveUp(c) \/ RefuseRedirect(c)
                 \/ \E i \in 1..Len(stack) : TimerFires(c, i)
          PROVE  IInv'
        <3>1. PICK i \in 1..at[c], result \in Result :
                  /\ i \in 1..(Len(stack) + 1)
                  /\ Return(c, i, result) /\ UNCHANGED <<jar, history>>
            BY <2>0, <2>2, Returning
        <3> QED BY <2>0, <3>1, ReturnIInv
    <2>3. ASSUME NEW c \in Calls, StoreCookies(c)
          PROVE  IInv'
        BY <2>0, <2>3, StoreFacts, ReturnIInv
    <2>4. ASSUME NEW c \in Calls,
                 EnterLayer(c) \/ AttachCookies(c) \/ Retry(c) \/ Follow(c) \/ Send(c) \/ PlanRetry(c)
          PROVE  IInv'
        BY <2>4, EnterIInv, AgainIInv, SendIInv, PlanIInv
    <2> QED BY <2>1, <2>2, <2>3, <2>4 DEF Next, Step
<1> QED BY <1>1, <1>2, PTL DEF Spec

\* A body is sent again only where a 307 or 308 was followed; no retry does it.
THEOREM RetriesDoNotReplay == Spec => []BodyReplayedOnRedirectOnly
<1>1. IInv => BodyReplayedOnRedirectOnly
    BY DEF IInv, BodyInv, BodyReplayedOnRedirectOnly
<1> QED BY <1>1, BodyInvariance, PTL

-----------------------------------------------------------------------------
(***************************************************************************)
(* The cookie jar: in clients whose redirects are all above their jars,    *)
(* cookies stay with the peer that set them.                               *)
(***************************************************************************)
\* No layer below a jar follows redirects.
RedirectsAboveJars == \A s \in Stacks : \A i, j \in 1..Len(s) :
    i < j /\ s[i] = "jar" => s[j] # "redirect"

\* A call that does not move keeps what is true of it.
LEMMA OtherCall ==
    ASSUME NEW d \in Calls, JarCall(d), stack' = stack,
           pc'[d] = pc[d], at'[d] = at[d], frame'[d] = frame[d], res'[d] = res[d],
           req'[d] = req[d]
    PROVE  JarCall(d)'
BY DEF JarCall, Live, NoJarAbove, Home

-----------------------------------------------------------------------------
(* The steps by what they do to JarInv. *)

\* A layer may send r if it goes where the request of every jar above does.
LEMMA AwaitJar ==
    ASSUME TypeOK, JarInv, NEW c \in Calls, NEW r \in Request, NEW own \in Frames,
           at[c] \in 1..Len(stack), Await(c, r, own),
           Home(r.cookies, r.to.peer), own.req.to = r.to,
           Home(own.req.cookies, own.req.to.peer),
           NoJarAbove(at[c] + 1) => r.cookies = {},
           NoJarAbove(at[c]) => own.req.cookies = {},
           \A i \in 1..(at[c] - 1) : stack[i] = "jar" => frame[c][i].req.to = r.to
    PROVE  JarInv'
<1>1. Len(stack) \in Nat /\ at[c] \in 1..Len(stack) /\ JarCall(c)
    BY StackFacts DEF JarInv
<1>2. /\ stack' = stack /\ res' = res
      /\ pc'[c] = "down" /\ at'[c] = at[c] + 1 /\ req'[c] = r
      /\ frame'[c][at[c]] = own
      /\ \A i \in 1..Len(stack) : i # at[c] => frame'[c][i] = frame[c][i]
      /\ \A d \in Calls : d # c =>
             pc'[d] = pc[d] /\ at'[d] = at[d] /\ req'[d] = req[d] /\ frame'[d] = frame[d]
    BY AwaitFacts
<1>3. ASSUME NEW d \in Calls, d # c PROVE JarCall(d)'
    BY <1>2, <1>3, OtherCall DEF JarInv
<1>4. \A i \in 1..at[c] : stack[i] = "jar" => frame'[c][i].req.to = r.to
    BY <1>1, <1>2
<1>5. /\ Home(r.cookies, r.to.peer)
      /\ NoJarAbove(at[c])' => r.cookies = {}
    BY <1>2 DEF NoJarAbove
<1>6. ASSUME NEW i \in 1..Len(stack)
      PROVE  /\ Home(frame'[c][i].req.cookies, frame'[c][i].req.to.peer)
             /\ NoJarAbove(i)' => frame'[c][i].req.cookies = {}
    <2>1. CASE i = at[c]
        BY <2>1, <1>2 DEF NoJarAbove
    <2>2. CASE i # at[c]
        BY <2>2, <1>1, <1>2, <1>6 DEF JarCall, NoJarAbove
    <2> QED BY <2>1, <2>2
<1>7. ASSUME NEW i \in Live(c)', NEW j \in Live(c)', i < j, stack[i] = "jar"
      PROVE  frame'[c][i].req.to = frame'[c][j].req.to
    <2>1. i \in 1..Len(stack) /\ j \in 1..Len(stack) /\ j <= at[c] /\ i < at[c]
        BY <1>1, <1>2, <1>7 DEF Live
    <2>2. frame'[c][i] = frame[c][i] /\ i \in Live(c)
        BY <1>1, <1>2, <2>1 DEF Live
    <2>3. CASE j = at[c]
        BY <1>2, <1>4, <1>7, <2>1, <2>3
    <2>4. CASE j # at[c]
        <3>1. j \in Live(c) /\ frame'[c][j] = frame[c][j]
            BY <1>1, <1>2, <2>1, <2>4 DEF Live
        <3> QED BY <1>1, <1>7, <2>2, <3>1 DEF JarCall
    <2> QED BY <2>3, <2>4
<1>8. JarCall(c)'
    <2>1. \A i \in 1..(at'[c] - 1) : stack[i] = "jar" => frame'[c][i].req.to = r.to
        BY <1>1, <1>2, <1>4
    <2>2. pc'[c] = "down" /\ req'[c] = r /\ stack' = stack
        BY <1>2
    <2>3. \A i, j \in Live(c)' :
              i < j /\ stack'[i] = "jar" => frame'[c][i].req.to = frame'[c][j].req.to
        BY <1>7, <2>2
    <2>4. \A i \in 1..Len(stack') : Home(frame[c][i].req.cookies, frame[c][i].req.to.peer)'
        BY <1>6, <2>2 DEF Home
    <2>5. \A i \in 1..Len(stack') : NoJarAbove(i)' => frame'[c][i].req.cookies = {}
        BY <1>6, <2>2
    <2>6. Home(req[c].cookies, req[c].to.peer)'
        BY <1>5, <2>2 DEF Home
    <2> QED BY <1>5, <2>1, <2>2, <2>3, <2>4, <2>5, <2>6 DEF JarCall
<1> QED BY <1>3, <1>8 DEF JarInv

\* A layer may return what it got, nothing, or cookies of the peer that was
\* asked last.
LEMMA ReturnJar ==
    ASSUME TypeOK, PlaceInv, JarInv, NEW c \in Calls, NEW i \in 1..at[c], NEW result \in Result,
           i \in 1..(Len(stack) + 1), Return(c, i, result),
           \/ result.cookies = {}
           \/ pc[c] = "up" /\ i = at[c] /\ result = res[c]
           \/ pc[c] = "sent" /\ Home(result.cookies, req[c].to.peer)
    PROVE  JarInv'
<1>1. Len(stack) \in Nat /\ at[c] \in 0..(Len(stack) + 1) /\ JarCall(c)
    BY StackFacts DEF JarInv, TypeOK
<1>2. /\ stack' = stack /\ req' = req /\ frame' = frame
      /\ res'[c] = result /\ at'[c] = i - 1 /\ pc'[c] \in {"up", "returned"}
      /\ \A d \in Calls : d # c => pc'[d] = pc[d] /\ at'[d] = at[d] /\ res'[d] = res[d]
    BY ReturnFacts
<1>3. ASSUME NEW d \in Calls, d # c PROVE JarCall(d)'
    BY <1>2, <1>3, OtherCall DEF JarInv
<1>4. \A j \in Live(c)' : j \in Live(c)
    BY <1>1, <1>2 DEF Live
<1>5. ASSUME NEW k \in 1..at'[c], stack[k] = "jar"
      PROVE  Home(result.cookies, frame[c][k].req.to.peer)
    <2>1. k \in 1..at[c] /\ k \in 1..(at[c] - 1)
        BY <1>1, <1>2, <1>5
    <2>2. CASE result.cookies = {}
        BY <2>2 DEF Home
    <2>3. CASE pc[c] = "up" /\ result = res[c]
        BY <1>1, <1>5, <2>1, <2>3 DEF JarCall
    <2>4. CASE pc[c] = "sent" /\ Home(result.cookies, req[c].to.peer)
        <3>1. frame[c][k].req.to = req[c].to
            BY <1>1, <1>5, <2>1, <2>4 DEF JarCall
        <3> QED BY <2>4, <3>1
    <2> QED BY <2>2, <2>3, <2>4
<1>6. JarCall(c)'
    BY <1>1, <1>2, <1>4, <1>5 DEF JarCall, NoJarAbove, Home
<1> QED BY <1>3, <1>6 DEF JarInv

-----------------------------------------------------------------------------
(* The actions. *)

\* Everything JarInv speaks about is in a call's hands before it has moved.
LEMMA InitHome ==
    ASSUME Init
    PROVE  HomeInv
<1>1. stack \in Seq(Kinds) /\ Len(stack) \in Nat
    BY ConstantsAssumption DEF Init
<1>2. \A r \in Requests : r \in Request /\ r.cookies = {}
    BY ConstantsAssumption DEF Request
<1>3. /\ req \in [Calls -> Requests] /\ pc = [c \in Calls |-> "down"] /\ at = [c \in Calls |-> 1]
      /\ frame = [c \in Calls |-> [i \in 1..Len(stack) |-> Slot(req[c], 0)]]
      /\ jar = [p \in Peers |-> {}]
    BY DEF Init
<1>4. ASSUME NEW c \in Calls PROVE JarCall(c)
    <2>1. /\ req[c] \in Request /\ req[c].cookies = {}
          /\ pc[c] = "down" /\ at[c] = 1
          /\ frame[c] = [i \in 1..Len(stack) |-> Slot(req[c], 0)]
        BY <1>2, <1>3
    <2>2. Slot(req[c], 0).req.cookies = {}
        BY <2>1, SlotFacts
    <2>3. Live(c) = {}
        BY <1>1, <2>1 DEF Live
    <2> QED BY <1>1, <2>1, <2>2, <2>3 DEF JarCall, Home
<1> QED BY <1>3, <1>4 DEF HomeInv, JarInv, Home

\* A layer that is entered passes the request on to where it goes.
LEMMA EnterJar ==
    ASSUME IInv, HomeInv, NEW c \in Calls, EnterLayer(c) \/ AttachCookies(c)
    PROVE  JarInv' /\ jar' = jar
<1>1. TypeOK /\ JarInv /\ JarCall(c)
    BY DEF IInv, HomeInv, JarInv
<1>2. pc[c] = "down" /\ Layer(c) \in Kinds
    BY DEF EnterLayer, AttachCookies, Entered, Kinds
<1>3. at[c] \in 1..Len(stack) /\ stack[at[c]] = Layer(c) /\ req[c] \in Request
    BY <1>1, <1>2, LayerFacts DEF TypeOK
<1>4. /\ Slot(req[c], 0) \in Frames /\ Slot(req[c], 0).req.to = req[c].to
      /\ Slot(req[c], 0).req.cookies = req[c].cookies
    BY <1>3, SlotFacts
<1>5. /\ Home(req[c].cookies, req[c].to.peer)
      /\ NoJarAbove(at[c]) => req[c].cookies = {}
      /\ \A i \in 1..(at[c] - 1) : stack[i] = "jar" => frame[c][i].req.to = req[c].to
    BY <1>1, <1>2 DEF JarCall
<1>6. CASE EnterLayer(c)
    <2>1. Await(c, req[c], Slot(req[c], 0)) /\ jar' = jar
        BY <1>6 DEF EnterLayer
    <2>2. NoJarAbove(at[c] + 1) => req[c].cookies = {}
        BY <1>3, <1>5 DEF NoJarAbove
    <2> QED BY <1>1, <1>3, <1>4, <1>5, <2>1, <2>2, AwaitJar
<1>7. CASE AttachCookies(c)
    <2> DEFINE stored == jar[req[c].to.peer]
               r == [req[c] EXCEPT !.cookies = IF stored = {} THEN @ ELSE stored]
    <2>1. Await(c, r, Slot(req[c], 0)) /\ jar' = jar
        BY <1>7 DEF AttachCookies
    <2>2. req[c].to.peer \in Peers
        BY <1>3, <1>7 DEF AttachCookies, Request, Uris, Absolute
    <2>3. stored \in SUBSET Cookies /\ Home(stored, req[c].to.peer)
        BY <1>1, <2>2 DEF TypeOK, HomeInv
    <2>4. r \in Request /\ r.to = req[c].to /\ (r.cookies = req[c].cookies \/ r.cookies = stored)
        BY <1>3, <2>3 DEF Request
    <2>5. ~NoJarAbove(at[c] + 1)
        BY <1>3, <1>7 DEF NoJarAbove, AttachCookies, Entered
    <2> HIDE DEF r
    <2> QED BY <1>1, <1>3, <1>4, <1>5, <2>1, <2>3, <2>4, <2>5, AwaitJar
<1> QED BY <1>6, <1>7

\* A retry goes where the request went; a redirect has no jar above it.
LEMMA AgainJar ==
    ASSUME RedirectsAboveJars, IInv, HomeInv, NEW c \in Calls, Retry(c) \/ Follow(c)
    PROVE  JarInv' /\ jar' = jar
<1>1. TypeOK /\ PlaceInv /\ JarInv /\ JarCall(c) /\ Len(stack) \in Nat
    BY StackFacts DEF IInv, HomeInv, JarInv
<1>2. pc[c] \in {"up", "sleeping"} /\ at[c] \in 1..Len(stack)
    BY <1>1 DEF Retry, Follow, Resumed, PlaceInv
<1>3. /\ Own(c) = frame[c][at[c]] /\ Own(c) \in Frames
      /\ Own(c).req \in Request /\ Own(c).count \in Nat
    BY <1>1, <1>2, OwnFacts
<1>4. /\ Home(Own(c).req.cookies, Own(c).req.to.peer)
      /\ NoJarAbove(at[c]) => Own(c).req.cookies = {}
    BY <1>1, <1>2, <1>3 DEF JarCall
<1>5. NoJarAbove(at[c] + 1) => NoJarAbove(at[c])
    BY <1>2 DEF NoJarAbove
<1>6. CASE Retry(c)
    <2>1. Await(c, Own(c).req, Own(c)) /\ jar' = jar
        BY <1>6 DEF Retry
    <2>2. ASSUME NEW i \in 1..(at[c] - 1), stack[i] = "jar"
          PROVE  frame[c][i].req.to = Own(c).req.to
        <3>1. i \in Live(c) /\ at[c] \in Live(c) /\ i < at[c]
            BY <1>1, <1>2 DEF Live
        <3> QED BY <1>1, <1>3, <2>2, <3>1 DEF JarCall
    <2> QED BY <1>1, <1>2, <1>3, <1>4, <1>5, <2>1, <2>2, AwaitJar
<1>7. CASE Follow(c)
    <2> DEFINE next == Redirected(Own(c).req, res[c])
               n == Own(c).count + 1
    <2>1. stack[at[c]] = "redirect"
        BY <1>1, <1>2, <1>7 DEF Follow, Resumed, Layer
    <2>2. NoJarAbove(at[c])
        <3>1. stack \in Stacks
            BY <1>1 DEF TypeOK
        <3>2. ASSUME NEW j \in 1..(at[c] - 1) PROVE stack[j] # "jar"
            BY <1>1, <1>2, <2>1, <3>1 DEF RedirectsAboveJars
        <3> QED BY <3>2 DEF NoJarAbove
    <2>3. res[c] \in Result /\ Resolve(Own(c).req.to, res[c].location) # Invalid /\ n \in Nat
        <3>1. Resolve(Own(c).req.to, res[c].location) # Invalid
            BY <1>7 DEF Follow, Target
        <3>2. res[c] \in Result
            BY <1>1 DEF TypeOK
        <3> QED BY <1>3, <3>1, <3>2
    <2>4. next \in Request /\ next.cookies = {}
        BY <1>3, <1>4, <2>2, <2>3, RedirectedFacts
    <2>5. Await(c, next, Slot(next, n)) /\ jar' = jar
        BY <1>7 DEF Follow
    <2> HIDE DEF next, n
    <2>6. /\ Slot(next, n) \in Frames /\ Slot(next, n).req.to = next.to
          /\ Slot(next, n).req.cookies = {}
        BY <2>3, <2>4, SlotFacts
    <2>7. Home(next.cookies, next.to.peer)
        BY <2>4 DEF Home
    <2>8. Home(Slot(next, n).req.cookies, Slot(next, n).req.to.peer)
        BY <2>6 DEF Home
    <2>9. \A i \in 1..(at[c] - 1) : stack[i] = "jar" => frame[c][i].req.to = next.to
        BY <2>2 DEF NoJarAbove
    <2> QED BY <1>1, <1>2, <2>4, <2>5, <2>6, <2>7, <2>8, <2>9, AwaitJar
<1> QED BY <1>6, <1>7

\* Sending moves nothing; a planned retry keeps where its request went.
LEMMA StayJar ==
    ASSUME IInv, HomeInv, NEW c \in Calls, Send(c) \/ PlanRetry(c)
    PROVE  JarInv' /\ jar' = jar
<1>1. TypeOK /\ PlaceInv /\ JarInv /\ JarCall(c) /\ Len(stack) \in Nat
    BY StackFacts DEF IInv, HomeInv, JarInv
<1>2. CASE Send(c)
    <2>1. /\ pc[c] = "down" /\ pc'[c] = "sent" /\ \A d \in Calls : d # c => pc'[d] = pc[d]
          /\ stack' = stack /\ at' = at /\ req' = req /\ res' = res /\ frame' = frame
          /\ jar' = jar
        BY <1>1, <1>2 DEF Send, Entered, TypeOK
    <2>2. Live(c)' = Live(c)
        BY <2>1 DEF Live
    <2>3. JarCall(c)'
        BY <1>1, <2>1, <2>2 DEF JarCall, NoJarAbove, Home
    <2>4. \A d \in Calls : d # c => JarCall(d)'
        BY <1>1, <2>1, OtherCall DEF JarInv
    <2> QED BY <2>1, <2>3, <2>4 DEF JarInv
<1>3. CASE PlanRetry(c)
    <2>1. /\ pc[c] = "up" /\ pc'[c] = "sleeping"
          /\ \A d \in Calls : d # c => pc'[d] = pc[d] /\ frame'[d] = frame[d]
          /\ stack' = stack /\ at' = at /\ req' = req /\ res' = res /\ jar' = jar
        BY <1>1, <1>3, PlanFacts
    <2>2. \A i \in 1..Len(stack) :
              /\ frame'[c][i].req.to = frame[c][i].req.to
              /\ frame'[c][i].req.cookies = frame[c][i].req.cookies
        BY <1>1, <1>3, PlanFacts
    <2>3. Live(c)' = Live(c) /\ Live(c) \subseteq 1..Len(stack)
        BY <2>1 DEF Live
    <2>4. JarCall(c)'
        <3>1. /\ pc'[c] = "sleeping" /\ stack' = stack
              /\ \A i \in 1..Len(stack) :
                     /\ Home(frame[c][i].req.cookies, frame[c][i].req.to.peer)
                     /\ NoJarAbove(i) => frame[c][i].req.cookies = {}
              /\ \A i, j \in Live(c) :
                     i < j /\ stack[i] = "jar" => frame[c][i].req.to = frame[c][j].req.to
            BY <1>1, <2>1 DEF JarCall
        <3>2. \A i \in 1..Len(stack) :
                  /\ Home(frame'[c][i].req.cookies, frame'[c][i].req.to.peer)
                  /\ NoJarAbove(i)' => frame'[c][i].req.cookies = {}
            BY <2>2, <3>1 DEF NoJarAbove
        <3>3. \A i, j \in Live(c) :
                  i < j /\ stack[i] = "jar" => frame'[c][i].req.to = frame'[c][j].req.to
            <4> SUFFICES ASSUME NEW i \in Live(c), NEW j \in Live(c), i < j, stack[i] = "jar"
                         PROVE  frame'[c][i].req.to = frame'[c][j].req.to
                OBVIOUS
            <4>1. i \in 1..Len(stack) /\ j \in 1..Len(stack)
                BY <2>3
            <4>2. frame[c][i].req.to = frame[c][j].req.to
                BY <3>1
            <4> QED BY <2>2, <4>1, <4>2
        <3>4. \A i, j \in Live(c)' :
                  i < j /\ stack'[i] = "jar" => frame'[c][i].req.to = frame'[c][j].req.to
            <4> SUFFICES ASSUME NEW i \in Live(c)', NEW j \in Live(c)', i < j, stack'[i] = "jar"
                         PROVE  frame'[c][i].req.to = frame'[c][j].req.to
                OBVIOUS
            <4>1. i \in Live(c) /\ j \in Live(c) /\ stack[i] = "jar"
                BY <2>3, <3>1
            <4> QED BY <3>3, <4>1
        <3>5. \A i \in 1..Len(stack') :
                  /\ Home(frame[c][i].req.cookies, frame[c][i].req.to.peer)'
                  /\ NoJarAbove(i)' => frame'[c][i].req.cookies = {}
            BY <3>1, <3>2 DEF Home
        <3> QED BY <3>1, <3>4, <3>5 DEF JarCall
    <2>5. \A d \in Calls : d # c => JarCall(d)'
        BY <1>1, <2>1, OtherCall DEF JarInv
    <2> QED BY <2>1, <2>4, <2>5 DEF JarInv
<1> QED BY <1>2, <1>3

\* A jar stores what its result has, and that is of the peer it stores it for.
LEMMA StoreHome ==
    ASSUME IInv, HomeInv, NEW c \in Calls, StoreCookies(c)
    PROVE  HomeInv'
<1>1. TypeOK /\ PlaceInv /\ JarInv /\ JarCall(c) /\ Len(stack) \in Nat
    BY StackFacts DEF IInv, HomeInv, JarInv
<1>2. /\ pc[c] = "up" /\ at[c] \in 1..Len(stack) /\ stack[at[c]] = "jar"
      /\ at[c] \in 1..(Len(stack) + 1) /\ at[c] \in 1..at[c]
      /\ res[c] \in Result /\ Return(c, at[c], res[c])
      /\ \A p \in Peers :
             \/ jar'[p] = jar[p]
             \/ p = Own(c).req.to.peer /\ jar'[p] \subseteq jar[p] \cup res[c].cookies
    BY <1>1, StoreFacts
<1>3. Home(res[c].cookies, Own(c).req.to.peer)
    BY <1>1, <1>2 DEF JarCall, Own
<1>4. ASSUME NEW p \in Peers PROVE \A k \in jar'[p] : k.from = p
    BY <1>2, <1>3 DEF HomeInv, Home
<1>5. JarInv'
    BY <1>1, <1>2, ReturnJar
<1> QED BY <1>4, <1>5 DEF HomeInv, Home

-----------------------------------------------------------------------------

\* In a client whose redirects are above its jars, a jar's cookies, and those
\* of every request and result on its way, are the right peer's.
THEOREM CookiesHaveAHome ==
    ASSUME RedirectsAboveJars
    PROVE  Spec => []HomeInv
<1>1. Init => HomeInv
    BY InitHome
<1>2. IInv /\ HomeInv /\ [Next]_vars => HomeInv'
    <2> SUFFICES ASSUME IInv, HomeInv, [Next]_vars PROVE HomeInv'
        OBVIOUS
    <2>0. TypeOK /\ PlaceInv /\ JarInv /\ \A p \in Peers : \A k \in jar[p] : k.from = p
        BY DEF IInv, HomeInv, Home
    <2>1. CASE UNCHANGED vars
        <3>1. /\ stack' = stack /\ pc' = pc /\ at' = at /\ req' = req /\ res' = res
              /\ frame' = frame /\ jar' = jar
            BY <2>1 DEF vars
        <3>2. JarInv'
            BY <2>0, <3>1, OtherCall DEF JarInv
        <3> QED BY <2>0, <3>1, <3>2 DEF HomeInv, Home
    <2>2. ASSUME NEW c \in Calls,
                 \/ BadPeer(c) \/ Answer(c) \/ PassUp(c) \/ GiveUp(c) \/ RefuseRedirect(c)
                 \/ \E i \in 1..Len(stack) : TimerFires(c, i)
          PROVE  HomeInv'
        <3>1. PICK i \in 1..at[c], result \in Result :
                  /\ i \in 1..(Len(stack) + 1)
                  /\ Return(c, i, result) /\ UNCHANGED <<jar, history>>
                  /\ \/ result.cookies = {}
                     \/ pc[c] = "up" /\ i = at[c] /\ result = res[c]
                     \/ pc[c] = "sent" /\ Home(result.cookies, req[c].to.peer)
            BY <2>0, <2>2, Returning
        <3>2. JarInv' /\ jar' = jar
            BY <2>0, <3>1, ReturnJar
        <3> QED BY <2>0, <3>2 DEF HomeInv, Home
    <2>3. ASSUME NEW c \in Calls, StoreCookies(c)
          PROVE  HomeInv'
        BY <2>3, StoreHome
    <2>4. ASSUME NEW c \in Calls,
                 EnterLayer(c) \/ AttachCookies(c) \/ Retry(c) \/ Follow(c) \/ Send(c) \/ PlanRetry(c)
          PROVE  HomeInv'
        <3>1. JarInv' /\ jar' = jar
            BY <2>4, EnterJar, AgainJar, StayJar
        <3> QED BY <2>0, <3>1 DEF HomeInv, Home
    <2> QED BY <2>1, <2>2, <2>3, <2>4 DEF Next, Step
<1> QED BY <1>1, <1>2, BodyInvariance, PTL DEF Spec

\* Such a client keeps every cookie for the peer that set it, and sends it to
\* no other.
THEOREM CookiesAreKeptPerPeer ==
    ASSUME RedirectsAboveJars
    PROVE  Spec => []CookiesStayHome
<1>1. HomeInv => CookiesStayHome
    BY DEF HomeInv, JarInv, JarCall, Home, CookiesStayHome
<1> QED BY <1>1, CookiesHaveAHome, PTL

\* A cookie leaves the jar only for a newer one of its name, whatever the
\* stack and however calls interleave.
THEOREM CookiesAreNotLost == Spec => CookiesAccumulate
<1>1. IInv /\ [Next]_vars => \A p \in Peers : \A k \in jar[p] : \E n \in jar'[p] : n.name = k.name
    <2> SUFFICES ASSUME IInv, [Next]_vars, NEW p \in Peers, NEW k \in jar[p]
                 PROVE  \E n \in jar'[p] : n.name = k.name
        OBVIOUS
    <2>1. CASE jar' = jar
        BY <2>1
    <2>2. ASSUME NEW c \in Calls, StoreCookies(c)
          PROVE  \E n \in jar'[p] : n.name = k.name
        <3> DEFINE new == res[c].cookies
                   p0 == Own(c).req.to.peer
        <3>1. jar' = [jar EXCEPT ![p0] = new \cup {m \in @ : \A n \in new : n.name # m.name}]
            BY <2>2 DEF StoreCookies
        <3>2. jar \in [Peers -> SUBSET Cookies]
            BY DEF IInv, TypeOK
        <3>3. CASE p = p0
            <4>1. jar'[p] = new \cup {m \in jar[p] : \A n \in new : n.name # m.name}
                BY <3>1, <3>2, <3>3
            <4> HIDE DEF new
            <4>2. CASE \A n \in new : n.name # k.name
                BY <4>1, <4>2
            <4>3. CASE \E n \in new : n.name = k.name
                BY <4>1, <4>3
            <4> QED BY <4>2, <4>3
        <3>4. CASE p # p0
            <4>1. jar'[p] = jar[p]
                BY <3>1, <3>2, <3>4
            <4> QED BY <4>1
        <3> QED BY <3>3, <3>4
    <2>3. jar' = jar \/ \E c \in Calls : StoreCookies(c)
        BY DEF Next, Step, vars, EnterLayer, BadPeer, Send, Answer, PassUp, PassOn, GiveUp,
               PlanRetry, Retry, RefuseRedirect, Follow, AttachCookies, TimerFires
    <2> QED BY <2>1, <2>2, <2>3
<1> QED BY <1>1, BodyInvariance, PTL DEF CookiesAccumulate, Spec

=============================================================================
