------------------------ MODULE MiddlewareHopsProofs ------------------------
(***************************************************************************)
(* Proofs about what Middleware makes of answers: where redirects lead,    *)
(* which errors of limits reach the caller, that a final answer is the     *)
(* last, that a GET has no body, and how often a call sends.               *)
(***************************************************************************)
EXTENDS MiddlewareProofs, Recursion

\* None of the layers below i, down to j, follows redirects.
NoRedirectIn(i, j) == \A k \in (i + 1)..j : stack[k] # "redirect"

\* Layers with no redirect between them sent their requests to one place, the
\* last of them that of the request on its way, or answered by a redirect.
ToCall(c) ==
    /\ pc[c] \in {"down", "sent"} => \A i \in 1..(at[c] - 1) :
           NoRedirectIn(i, at[c] - 1) => frame[c][i].req.to = req[c].to
    /\ \A i, j \in Live(c) :
           i < j /\ NoRedirectIn(i, j) => frame[c][i].req.to = frame[c][j].req.to
    /\ pc[c] = "up" /\ IsRedirect(res[c]) => \A i \in 1..at[c] :
           NoRedirectIn(i, at[c]) => frame[c][i].req.to = req[c].to

\* A redirect layer counts no more redirects than requests were sent, one less
\* while an answer is awaited or a redirect is on its way up.
CountCall(c) ==
    \A i \in Live(c) : stack[i] = "redirect" =>
        /\ frame[c][i].count <= sends[c]
        /\ pc[c] = "sent" \/ (pc[c] = "up" /\ IsRedirect(res[c])) =>
               frame[c][i].count + 1 <= sends[c]

\* The error of a limit is true.
LimitReached(c, result) ==
    /\ result.what = "retry limit" => Budget(req[c]) > 0
    /\ result.what = "redirect limit" => sends[c] > MaxRedirects

\* The errors of limits are true, and whether to retry is known everywhere.
LimitCall(c) ==
    /\ \A i \in 1..Len(stack) : frame[c][i].req.retry = req[c].retry
    /\ LimitReached(c, res[c])

HopCall(c) == ToCall(c) /\ CountCall(c) /\ LimitCall(c)

HopInv == \A c \in Calls : HopCall(c)

\* A call that does not move keeps what is true of it.
LEMMA OtherHop ==
    ASSUME NEW d \in Calls, HopCall(d), stack' = stack,
           pc'[d] = pc[d], at'[d] = at[d], frame'[d] = frame[d], res'[d] = res[d],
           req'[d] = req[d], sends'[d] = sends[d]
    PROVE  HopCall(d)'
<1>1. Live(d)' = Live(d) /\ IsRedirect(res[d])' = IsRedirect(res[d])
    BY DEF Live, IsRedirect
<1>2. ASSUME NEW i, NEW j PROVE NoRedirectIn(i, j)' <=> NoRedirectIn(i, j)
    BY DEF NoRedirectIn
<1>3. ToCall(d)'
    BY <1>1, <1>2 DEF HopCall, ToCall
<1>4. CountCall(d)'
    BY <1>1 DEF HopCall, CountCall
<1>5. LimitCall(d)'
    BY DEF HopCall, LimitCall, LimitReached, Budget
<1> QED BY <1>3, <1>4, <1>5 DEF HopCall

-----------------------------------------------------------------------------
(* The steps by what they do to HopInv. *)

\* A layer may send r if it goes where the layers above sent theirs, down to
\* the last redirect.
LEMMA AwaitHop ==
    ASSUME TypeOK, HopInv, NEW c \in Calls, NEW r \in Request, NEW own \in Frames,
           at[c] \in 1..Len(stack), Await(c, r, own), sends' = sends,
           own.req.to = r.to, own.req.retry = r.retry, r.retry = req[c].retry,
           \A i \in 1..(at[c] - 1) : NoRedirectIn(i, at[c]) => frame[c][i].req.to = r.to,
           \A i \in 1..(at[c] - 1) : i \in Live(c),
           stack[at[c]] = "redirect" => own.count <= sends[c]
    PROVE  HopInv'
<1>1. Len(stack) \in Nat /\ at[c] \in 1..Len(stack) /\ HopCall(c)
    BY StackFacts DEF HopInv
<1>2. /\ stack' = stack /\ res' = res
      /\ pc'[c] = "down" /\ at'[c] = at[c] + 1 /\ req'[c] = r
      /\ frame'[c][at[c]] = own
      /\ \A i \in 1..Len(stack) : i # at[c] => frame'[c][i] = frame[c][i]
      /\ \A d \in Calls : d # c =>
             pc'[d] = pc[d] /\ at'[d] = at[d] /\ req'[d] = req[d] /\ frame'[d] = frame[d]
    BY AwaitFacts
<1>3. ASSUME NEW d \in Calls, d # c PROVE HopCall(d)'
    BY <1>2, <1>3, OtherHop DEF HopInv
<1>4. ASSUME NEW i \in Live(c)' PROVE i \in 1..at[c]
    BY <1>1, <1>2 DEF Live
<1>5. ASSUME NEW i, NEW j PROVE NoRedirectIn(i, j)' <=> NoRedirectIn(i, j)
    BY <1>2 DEF NoRedirectIn
<1>6. ASSUME NEW i \in 1..at[c], NoRedirectIn(i, at[c])
      PROVE  frame'[c][i].req.to = r.to
  <2>1. CASE i = at[c]
      BY <1>2, <2>1
  <2>2. CASE i # at[c]
    <3>1. i \in 1..(at[c] - 1) /\ i \in 1..Len(stack)
        BY <1>1, <2>2
    <3> QED BY <1>2, <1>6, <2>2, <3>1
  <2> QED BY <2>1, <2>2
<1>7. ToCall(c)'
  <2>1. at'[c] - 1 = at[c]
      BY <1>1, <1>2
  <2>2. ASSUME NEW i \in 1..at[c], NEW j \in 1..at[c], i < j, NoRedirectIn(i, j)
        PROVE  frame'[c][i].req.to = frame'[c][j].req.to
    <3>1. CASE j = at[c]
        BY <1>2, <1>6, <2>2, <3>1
    <3>2. CASE j # at[c]
      <4>1. i \in Live(c) /\ j \in Live(c)
          BY <1>1, <2>2, <3>2
      <4>2. frame[c][i].req.to = frame[c][j].req.to
          BY <1>1, <2>2, <4>1 DEF HopCall, ToCall
      <4>3. i # at[c] /\ i \in 1..Len(stack) /\ j \in 1..Len(stack)
          BY <1>1, <2>2, <3>2
      <4>4. frame'[c][i] = frame[c][i] /\ frame'[c][j] = frame[c][j]
          BY <1>2, <3>2, <4>3
      <4> QED BY <4>2, <4>4
    <3> QED BY <3>1, <3>2
  <2>3. ASSUME NEW i \in 1..(at'[c] - 1), NoRedirectIn(i, at'[c] - 1)
        PROVE  frame'[c][i].req.to = req'[c].to
      BY <1>2, <1>6, <2>1, <2>3
  <2>4. ASSUME NEW i \in Live(c)', NEW j \in Live(c)', i < j, NoRedirectIn(i, j)
        PROVE  frame'[c][i].req.to = frame'[c][j].req.to
      BY <1>4, <2>2, <2>4
  <2>5. pc'[c] # "up"
      BY <1>2
  <2> QED BY <1>5, <2>3, <2>4, <2>5 DEF ToCall
<1>8. CountCall(c)'
  <2> SUFFICES ASSUME NEW i \in 1..at[c], stack[i] = "redirect"
               PROVE  frame'[c][i].count <= sends[c]
      BY <1>2, <1>4 DEF CountCall
  <2>1. CASE i = at[c]
      BY <1>2, <2>1
  <2>2. CASE i # at[c]
      BY <1>1, <1>2, <2>2 DEF HopCall, CountCall
  <2> QED BY <2>1, <2>2
<1>9. LimitCall(c)'
  <2>1. ASSUME NEW i \in 1..Len(stack) PROVE frame'[c][i].req.retry = r.retry
      BY <1>1, <1>2 DEF HopCall, LimitCall
  <2> QED BY <1>1, <1>2, <2>1 DEF HopCall, LimitCall, LimitReached, Budget
<1> QED BY <1>3, <1>7, <1>8, <1>9 DEF HopInv, HopCall

\* A layer may return a redirect if it is not one that follows it, and the
\* error of a limit that was reached.
LEMMA ReturnHop ==
    ASSUME TypeOK, PlaceInv, HopInv, NEW c \in Calls,
           NEW i \in 1..(Len(stack) + 1), i <= at[c], NEW result \in Result,
           Return(c, i, result), sends' = sends,
           IsRedirect(result) =>
               \/ pc[c] = "sent" /\ i = at[c]
               \/ pc[c] = "up" /\ i = at[c] /\ result = res[c] /\ stack[i] # "redirect",
           LimitReached(c, result)
    PROVE  HopInv'
<1>0. at[c] \in 0..(Len(stack) + 1) /\ Len(stack) \in Nat
    BY StackFacts DEF TypeOK
<1>1. /\ Len(stack) \in Nat /\ HopCall(c) /\ at[c] \in Nat /\ i \in Nat
      /\ 1 <= i /\ i <= at[c] /\ i <= Len(stack) + 1 /\ at[c] <= Len(stack) + 1
    BY <1>0 DEF HopInv
<1>2. /\ stack' = stack /\ req' = req /\ frame' = frame
      /\ res'[c] = result /\ at'[c] = i - 1
      /\ pc'[c] \in {"up", "returned"}
      /\ pc'[c] = "up" => at'[c] \in 1..Len(stack)
      /\ \A d \in Calls : d # c =>
             pc'[d] = pc[d] /\ at'[d] = at[d] /\ res'[d] = res[d]
    BY ReturnFacts
<1>3. ASSUME NEW d \in Calls, d # c PROVE HopCall(d)'
    BY <1>2, <1>3, OtherHop DEF HopInv
<1>4. Live(c)' \subseteq Live(c)
  <2> SUFFICES ASSUME NEW k \in Live(c)' PROVE k \in Live(c)
      OBVIOUS
  <2>1. k \in 1..Len(stack) /\ k <= i - 1
      BY <1>1, <1>2 DEF Live
  <2>2. k < at[c]
      BY <1>1, <2>1
  <2> QED BY <2>1, <2>2 DEF Live
<1>5. ASSUME pc'[c] = "up", IsRedirect(result)
      PROVE  /\ i = at[c]
             /\ \A k \in 1..(i - 1) : stack[k] = "redirect" => frame[c][k].count + 1 <= sends[c]
             /\ \A k \in 1..(i - 1) :
                    NoRedirectIn(k, i - 1) => frame[c][k].req.to = req[c].to
  <2>1. i = at[c]
      BY <1>5
  <2>2. ASSUME NEW k \in 1..(i - 1) PROVE k \in Live(c)
    <3>1. k \in 1..Len(stack) /\ k < at[c]
        BY <1>1, <2>1
    <3> QED BY <3>1 DEF Live
  <2>3. pc[c] = "sent" \/ (pc[c] = "up" /\ IsRedirect(res[c]))
      BY <1>5
  <2>4. \A k \in 1..(i - 1) : stack[k] = "redirect" => frame[c][k].count + 1 <= sends[c]
      BY <1>1, <2>2, <2>3 DEF HopCall, CountCall
  <2>5. CASE pc[c] = "sent"
      BY <1>1, <2>1, <2>4, <2>5 DEF HopCall, ToCall
  <2>6. CASE pc[c] = "up" /\ stack[i] # "redirect"
    <3>1. ASSUME NEW k \in 1..(i - 1), NoRedirectIn(k, i - 1)
          PROVE  NoRedirectIn(k, i)
        BY <2>6, <3>1 DEF NoRedirectIn
    <3>2. \A k \in 1..at[c] : NoRedirectIn(k, at[c]) => frame[c][k].req.to = req[c].to
        BY <1>1, <2>3, <2>6 DEF HopCall, ToCall
    <3> QED BY <1>1, <2>1, <2>4, <3>1, <3>2
  <2> QED BY <1>5, <2>5, <2>6
<1>6. ToCall(c)'
  <2>1. \A k, l \in Live(c)' :
            k < l /\ NoRedirectIn(k, l) => frame[c][k].req.to = frame[c][l].req.to
      BY <1>1, <1>4 DEF HopCall, ToCall
  <2>2. ASSUME NEW k, NEW l PROVE NoRedirectIn(k, l)' <=> NoRedirectIn(k, l)
      BY <1>2 DEF NoRedirectIn
  <2>3. IsRedirect(res[c])' <=> IsRedirect(result)
      BY <1>2 DEF IsRedirect
  <2> QED BY <1>2, <1>5, <2>1, <2>2, <2>3 DEF ToCall
<1>7. CountCall(c)'
  <2> SUFFICES ASSUME NEW k \in Live(c)', stack[k] = "redirect"
               PROVE  /\ frame[c][k].count <= sends[c]
                      /\ pc'[c] = "up" /\ IsRedirect(result) =>
                             frame[c][k].count + 1 <= sends[c]
      BY <1>2 DEF CountCall, IsRedirect
  <2>1. k \in Live(c)
      BY <1>4
  <2>2. k \in 1..(i - 1)
      BY <1>1, <1>2 DEF Live
  <2> QED BY <1>1, <1>5, <2>1, <2>2 DEF HopCall, CountCall
<1>8. LimitCall(c)'
    BY <1>1, <1>2 DEF HopCall, LimitCall, LimitReached, Budget
<1> QED BY <1>3, <1>6, <1>7, <1>8 DEF HopInv, HopCall

-----------------------------------------------------------------------------
(* The actions. *)

LEMMA InitHop ==
    ASSUME Init
    PROVE  HopInv
<1>0. IInv /\ TypeOK /\ Len(stack) \in Nat
    BY InitIInv, StackFacts DEF IInv
<1>1. ASSUME NEW c \in Calls PROVE HopCall(c)
  <2>1. /\ pc[c] = "down" /\ at[c] = 1 /\ res[c] = NoResult /\ req[c] \in Request
        /\ frame[c] = [i \in 1..Len(stack) |-> Slot(req[c], 0)]
      BY <1>0 DEF Init, TypeOK
  <2>2. Live(c) = {}
      BY <1>0, <2>1 DEF Live
  <2>3. ToCall(c)
      BY <2>1, <2>2 DEF ToCall
  <2>4. CountCall(c)
      BY <2>2 DEF CountCall
  <2>5. Slot(req[c], 0).req.retry = req[c].retry
      BY <2>1, SlotFacts
  <2>6. LimitReached(c, res[c])
      BY <2>1 DEF LimitReached, NoResult
  <2> QED BY <2>1, <2>3, <2>4, <2>5, <2>6 DEF HopCall, LimitCall
<1> QED BY <1>1 DEF HopInv

\* Layers above the one that is entered are live.
LEMMA AboveIsLive ==
    ASSUME TypeOK, NEW c \in Calls, at[c] \in 1..Len(stack), NEW i \in 1..(at[c] - 1)
    PROVE  i \in Live(c) /\ i \in 1..Len(stack) /\ i < at[c]
<1>1. Len(stack) \in Nat
    BY StackFacts
<1>2. i \in 1..Len(stack) /\ i < at[c]
    BY <1>1
<1> QED BY <1>2 DEF Live

\* A layer that is entered passes the request on to where it goes.
LEMMA EnterHop ==
    ASSUME IInv, HopInv, NEW c \in Calls, EnterLayer(c) \/ AttachCookies(c)
    PROVE  HopInv'
<1>1. TypeOK /\ HopCall(c) /\ Len(stack) \in Nat /\ sends[c] \in Nat
    BY StackFacts DEF IInv, HopInv, TypeOK
<1>2. pc[c] = "down" /\ Layer(c) \in Kinds
    BY DEF EnterLayer, AttachCookies, Entered, Kinds
<1>3. at[c] \in 1..Len(stack) /\ req[c] \in Request
    BY <1>1, <1>2, LayerFacts DEF TypeOK
<1>4. /\ Slot(req[c], 0) \in Frames /\ Slot(req[c], 0).req.to = req[c].to
      /\ Slot(req[c], 0).req.retry = req[c].retry /\ Slot(req[c], 0).count = 0
    BY <1>3, SlotFacts
<1>5. ASSUME NEW i \in 1..(at[c] - 1), NoRedirectIn(i, at[c])
      PROVE  frame[c][i].req.to = req[c].to
  <2>1. NoRedirectIn(i, at[c] - 1)
      BY <1>1, <1>3, <1>5 DEF NoRedirectIn
  <2> QED BY <1>1, <1>2, <2>1 DEF HopCall, ToCall
<1>6. \A i \in 1..(at[c] - 1) : i \in Live(c)
    BY <1>1, <1>3, AboveIsLive
<1>7. CASE EnterLayer(c)
  <2>1. Await(c, req[c], Slot(req[c], 0)) /\ sends' = sends
      BY <1>7 DEF EnterLayer, history
  <2> QED BY <1>1, <1>3, <1>4, <1>5, <1>6, <2>1, AwaitHop
<1>8. CASE AttachCookies(c)
  <2> DEFINE stored == jar[req[c].to.peer]
             r == [req[c] EXCEPT !.cookies = IF stored = {} THEN @ ELSE stored]
  <2>1. Await(c, r, Slot(req[c], 0)) /\ sends' = sends
      BY <1>8 DEF AttachCookies, history
  <2>2. req[c].to.peer \in Peers
      BY <1>3, <1>8 DEF AttachCookies, Request, Uris, Absolute
  <2>3. stored \in SUBSET Cookies
      BY <1>1, <2>2 DEF TypeOK
  <2>4. r \in Request /\ r.to = req[c].to /\ r.retry = req[c].retry
      BY <1>3, <2>3 DEF Request
  <2> HIDE DEF r
  <2> QED BY <1>1, <1>3, <1>4, <1>5, <1>6, <2>1, <2>4, AwaitHop
<1> QED BY <1>7, <1>8

\* A retry goes where the request went; a redirect is counted, and was answered.
LEMMA AgainHop ==
    ASSUME IInv, HopInv, NEW c \in Calls, Retry(c) \/ Follow(c)
    PROVE  HopInv'
<1>1. TypeOK /\ PlaceInv /\ HopCall(c) /\ Len(stack) \in Nat
    BY StackFacts DEF IInv, HopInv
<1>2. pc[c] \in {"up", "sleeping"} /\ at[c] \in 1..Len(stack)
    BY <1>1 DEF Retry, Follow, Resumed, PlaceInv
<1>3. /\ Own(c) = frame[c][at[c]] /\ Own(c) \in Frames
      /\ Own(c).req \in Request /\ Own(c).count \in Nat
      /\ Own(c).req.retry = req[c].retry
    BY <1>1, <1>2, OwnFacts DEF HopCall, LimitCall
<1>4. \A i \in 1..(at[c] - 1) : i \in Live(c) /\ i < at[c]
    BY <1>1, <1>2, AboveIsLive
<1>5. at[c] \in Live(c)
    BY <1>2 DEF Live
<1>6. CASE Retry(c)
  <2>1. Await(c, Own(c).req, Own(c)) /\ sends' = sends
      BY <1>6 DEF Retry, history
  <2>2. ASSUME NEW i \in 1..(at[c] - 1), NoRedirectIn(i, at[c])
        PROVE  frame[c][i].req.to = Own(c).req.to
      BY <1>1, <1>3, <1>4, <1>5, <2>2 DEF HopCall, ToCall
  <2>3. stack[at[c]] = "redirect" => Own(c).count <= sends[c]
      BY <1>1, <1>3, <1>5 DEF HopCall, CountCall
  <2> QED BY <1>1, <1>2, <1>3, <1>4, <2>1, <2>2, <2>3, AwaitHop
<1>7. CASE Follow(c)
  <2> DEFINE next == Redirected(Own(c).req, res[c])
             n == Own(c).count + 1
  <2>1. stack[at[c]] = "redirect" /\ pc[c] = "up" /\ IsRedirect(res[c])
      BY <1>1, <1>2, <1>7 DEF Follow, Resumed, Layer
  <2>2. res[c] \in Result /\ Resolve(Own(c).req.to, res[c].location) # Invalid /\ n \in Nat
    <3>1. Resolve(Own(c).req.to, res[c].location) # Invalid
        BY <1>7 DEF Follow, Target
    <3>2. res[c] \in Result
        BY <1>1 DEF TypeOK
    <3> QED BY <1>3, <3>1, <3>2
  <2>3. next \in Request /\ next.retry = req[c].retry
      BY <1>3, <2>2, RedirectedFacts
  <2>4. Await(c, next, Slot(next, n)) /\ sends' = sends
      BY <1>7 DEF Follow
  <2>5. n <= sends[c]
      BY <1>1, <1>3, <1>5, <2>1 DEF HopCall, CountCall
  <2> HIDE DEF next, n
  <2>6. /\ Slot(next, n) \in Frames /\ Slot(next, n).req.to = next.to
        /\ Slot(next, n).req.retry = next.retry /\ Slot(next, n).count = n
      BY <2>2, <2>3, SlotFacts
  <2>7. ASSUME NEW i \in 1..(at[c] - 1) PROVE ~NoRedirectIn(i, at[c])
    <3>1. at[c] \in (i + 1)..at[c]
        BY <1>1, <1>2
    <3> QED BY <2>1, <3>1 DEF NoRedirectIn
  <2> QED BY <1>1, <1>2, <1>4, <2>3, <2>4, <2>5, <2>6, <2>7, AwaitHop
<1> QED BY <1>6, <1>7

\* Sending is counted.
LEMMA SendHop ==
    ASSUME IInv, HopInv, NEW c \in Calls, Send(c)
    PROVE  HopInv'
<1>1. /\ TypeOK /\ PlaceInv /\ HopCall(c) /\ Len(stack) \in Nat
      /\ sends \in [Calls -> Nat] /\ MaxRedirects \in Nat
    BY StackFacts, ConstantsAssumption DEF IInv, HopInv, TypeOK
<1>2. /\ pc[c] = "down" /\ pc'[c] = "sent" /\ \A d \in Calls : d # c => pc'[d] = pc[d]
      /\ stack' = stack /\ at' = at /\ req' = req /\ res' = res /\ frame' = frame
      /\ sends' = [sends EXCEPT ![c] = @ + 1]
    BY <1>1 DEF Send, Entered, TypeOK
<1>3. sends'[c] = sends[c] + 1 /\ \A d \in Calls : d # c => sends'[d] = sends[d]
    BY <1>1, <1>2
<1>4. ASSUME NEW d \in Calls, d # c PROVE HopCall(d)'
    BY <1>2, <1>3, <1>4, OtherHop DEF HopInv
<1>5. Live(c)' = Live(c) /\ Live(c) \subseteq 1..Len(stack)
    BY <1>2 DEF Live
<1>6. ToCall(c)'
    BY <1>1, <1>2, <1>5 DEF HopCall, ToCall, NoRedirectIn
<1>7. CountCall(c)'
  <2> SUFFICES ASSUME NEW i \in Live(c), stack[i] = "redirect"
               PROVE  frame[c][i].count <= sends[c] + 1 /\ frame[c][i].count + 1 <= sends[c] + 1
      BY <1>2, <1>3, <1>5 DEF CountCall
  <2>1. frame[c][i].count <= sends[c] /\ sends[c] \in Nat
      BY <1>1 DEF HopCall, CountCall
  <2>2. frame[c][i].count \in Nat
      BY <1>1, <1>5 DEF TypeOK, Frames
  <2> QED BY <2>1, <2>2
<1>8. LimitCall(c)'
  <2>1. sends[c] > MaxRedirects => sends'[c] > MaxRedirects
      BY <1>1, <1>3
  <2> QED BY <1>1, <1>2, <2>1 DEF HopCall, LimitCall, LimitReached, Budget
<1> QED BY <1>4, <1>6, <1>7, <1>8 DEF HopInv, HopCall

\* A retry is counted by its layer, and not by those that count redirects.
LEMMA PlanHop ==
    ASSUME IInv, HopInv, NEW c \in Calls, PlanRetry(c)
    PROVE  HopInv'
<1>1. TypeOK /\ PlaceInv /\ HopCall(c) /\ Len(stack) \in Nat
    BY StackFacts DEF IInv, HopInv
<1>2. /\ pc[c] = "up" /\ pc'[c] = "sleeping" /\ at[c] \in 1..Len(stack)
      /\ \A d \in Calls : d # c => pc'[d] = pc[d] /\ frame'[d] = frame[d]
      /\ stack' = stack /\ at' = at /\ req' = req /\ res' = res /\ sends' = sends
    BY <1>1, PlanFacts DEF history
<1>3. \A i \in 1..Len(stack) :
          /\ frame'[c][i].req.to = frame[c][i].req.to
          /\ frame'[c][i].req.retry = frame[c][i].req.retry
          /\ i # at[c] => frame'[c][i] = frame[c][i]
    BY <1>1, PlanFacts
<1>4. stack[at[c]] = "retry"
    BY <1>2 DEF PlanRetry, Resumed, Layer
<1>5. ASSUME NEW d \in Calls, d # c PROVE HopCall(d)'
    BY <1>2, <1>5, OtherHop DEF HopInv
<1>6. Live(c)' = Live(c) /\ Live(c) \subseteq 1..Len(stack)
    BY <1>2 DEF Live
<1>7. ToCall(c)'
  <2>1. ASSUME NEW i \in Live(c), NEW j \in Live(c), i < j, NoRedirectIn(i, j)
        PROVE  frame'[c][i].req.to = frame'[c][j].req.to
    <3>1. i \in 1..Len(stack) /\ j \in 1..Len(stack)
        BY <1>6
    <3>2. frame[c][i].req.to = frame[c][j].req.to
        BY <1>1, <2>1 DEF HopCall, ToCall
    <3> QED BY <1>3, <3>1, <3>2
  <2>2. ASSUME NEW i, NEW j PROVE NoRedirectIn(i, j)' <=> NoRedirectIn(i, j)
      BY <1>2 DEF NoRedirectIn
  <2> QED BY <1>2, <1>6, <2>1, <2>2 DEF ToCall
<1>8. CountCall(c)'
  <2> SUFFICES ASSUME NEW i \in Live(c), stack[i] = "redirect"
               PROVE  frame'[c][i].count <= sends[c]
      BY <1>2, <1>6 DEF CountCall
  <2>1. frame'[c][i] = frame[c][i]
      BY <1>3, <1>4, <1>6
  <2> QED BY <1>1, <2>1 DEF HopCall, CountCall
<1>9. LimitCall(c)'
    BY <1>1, <1>2, <1>3 DEF HopCall, LimitCall, LimitReached, Budget
<1> QED BY <1>5, <1>7, <1>8, <1>9 DEF HopInv, HopCall

\* What is returned is an error with its cause, what came up, or an answer.
LEMMA ReturningHop ==
    ASSUME IInv, HopInv, NEW c \in Calls,
           \/ BadPeer(c) \/ Answer(c) \/ PassUp(c) \/ GiveUp(c) \/ RefuseRedirect(c)
           \/ \E i \in 1..Len(stack) : TimerFires(c, i)
    PROVE  \E i \in 1..(Len(stack) + 1), result \in Result :
               /\ i <= at[c]
               /\ Return(c, i, result)
               /\ UNCHANGED <<jar, history>>
               /\ IsRedirect(result) =>
                      \/ pc[c] = "sent" /\ i = at[c]
                      \/ pc[c] = "up" /\ i = at[c] /\ result = res[c] /\ stack[i] # "redirect"
               /\ LimitReached(c, result)
<1>0. /\ TypeOK /\ PlaceInv /\ HopCall(c) /\ Len(stack) \in Nat
      /\ res[c] \in Result /\ req[c] \in Request /\ at[c] \in 0..(Len(stack) + 1)
      /\ LimitReached(c, res[c])
    BY StackFacts DEF IInv, TypeOK, HopInv, HopCall, LimitCall
<1>1. pc[c] \in {"up", "down", "sent"} => at[c] \in 1..(Len(stack) + 1) /\ at[c] <= at[c]
    BY <1>0 DEF PlaceInv
<1>2. pc[c] = "up" => at[c] \in 1..Len(stack) /\ at[c] \in Live(c) /\ stack[at[c]] = Layer(c)
    BY <1>0 DEF PlaceInv, Live, Layer
<1>3. ASSUME NEW what \in {"validation", "timeout", "other"}
      PROVE  /\ Error(what) \in Result /\ ~IsRedirect(Error(what))
             /\ LimitReached(c, Error(what))
  <2>1. Error(what) \in Result /\ Error(what).what = what
      BY ErrorFacts DEF Errors
  <2> QED BY <2>1 DEF IsRedirect, LimitReached
<1>4. CASE BadPeer(c)
  <2>1. pc[c] = "down" /\ Return(c, at[c], Error("validation")) /\ UNCHANGED <<jar, history>>
      BY <1>4 DEF BadPeer, Entered
  <2> QED BY <1>1, <1>3, <2>1
<1>5. CASE Answer(c)
  <2>1. PICK i \in 1..at[c], result \in Result :
            i \in 1..(Len(stack) + 1) /\ Return(c, i, result) /\ UNCHANGED <<jar, history>>
      BY <1>0, <1>5, Returning
  <2>2. PICK a \in Answers :
            Return(c, at[c], [what |-> a.what, location |-> a.location,
                              cookies |-> [name : a.sets, from : {req[c].to.peer}]])
      BY <1>5 DEF Answer
  <2> DEFINE cookies == [name : a.sets, from : {req[c].to.peer}]
             answer == [what |-> a.what, location |-> a.location, cookies |-> cookies]
  <2>3. pc[c] = "sent" /\ UNCHANGED <<jar, history>> /\ req[c].to.peer \in Peers
    <3>1. pc[c] = "sent" /\ UNCHANGED <<jar, history>>
        BY <1>5 DEF Answer
    <3>2. req[c].to.peer # NoPeer
        BY <1>0, <3>1 DEF PlaceInv
    <3> QED BY <1>0, <3>1, <3>2 DEF Request, Uris, Absolute
  <2>4. a \in [what : Statuses \cup {"transport"}, location : Locations,
               sets : SUBSET CookieNames]
      BY ConstantsAssumption
  <2>5. cookies \subseteq Cookies
      BY <2>3, <2>4 DEF Cookies
  <2>6. answer \in Result /\ answer.what \in Statuses \cup {"transport"}
      BY <2>4, <2>5 DEF Result, Errors
  <2>7. LimitReached(c, answer)
      BY <2>6 DEF LimitReached, Statuses
  <2>8. Return(c, at[c], answer)
      BY <2>2
  <2> HIDE DEF answer
  <2> QED BY <1>1, <2>3, <2>6, <2>7, <2>8
<1>6. CASE PassUp(c)
  <2>1. pc[c] = "up" /\ Return(c, at[c], res[c]) /\ UNCHANGED <<jar, history>>
      BY <1>6 DEF PassUp, PassOn, Resumed
  <2>2. IsRedirect(res[c]) => stack[at[c]] # "redirect"
      BY <1>2, <1>6, <2>1 DEF PassUp, Resumed
  <2> QED BY <1>0, <1>1, <2>1, <2>2
<1>7. CASE GiveUp(c)
  <2>1. /\ pc[c] = "up" /\ stack[at[c]] = "retry" /\ UNCHANGED <<jar, history>>
        /\ Own(c).req.retry = req[c].retry
      BY <1>0, <1>2, <1>7 DEF GiveUp, Resumed, Own, HopCall, LimitCall
  <2>2. CASE res[c].what \in Errors /\ Budget(Own(c).req) > 0
    <3>1. Return(c, at[c], Error("retry limit"))
        BY <1>7, <2>2 DEF GiveUp
    <3>2. Error("retry limit") \in Result /\ Error("retry limit").what = "retry limit"
        BY ErrorFacts DEF Errors
    <3>3. Budget(req[c]) > 0
        BY <2>1, <2>2 DEF Budget
    <3>4. LimitReached(c, Error("retry limit")) /\ ~IsRedirect(Error("retry limit"))
        BY <3>2, <3>3 DEF LimitReached, IsRedirect
    <3> QED BY <1>1, <2>1, <3>1, <3>2, <3>4
  <2>3. CASE ~(res[c].what \in Errors /\ Budget(Own(c).req) > 0)
    <3>1. Return(c, at[c], res[c])
        BY <1>7, <2>3 DEF GiveUp
    <3> QED BY <1>0, <1>1, <2>1, <3>1
  <2> QED BY <2>2, <2>3
<1>8. CASE RefuseRedirect(c)
  <2>1. /\ pc[c] = "up" /\ stack[at[c]] = "redirect" /\ IsRedirect(res[c])
        /\ UNCHANGED <<jar, history>> /\ Own(c) = frame[c][at[c]]
      BY <1>2, <1>8 DEF RefuseRedirect, Resumed, Own
  <2>2. CASE Own(c).count + 1 > MaxRedirects /\ Return(c, at[c], Error("redirect limit"))
    <3>1. /\ Error("redirect limit") \in Result
          /\ Error("redirect limit").what = "redirect limit"
        BY ErrorFacts DEF Errors
    <3>2. Own(c).count + 1 <= sends[c]
        BY <1>0, <1>2, <2>1 DEF HopCall, CountCall
    <3>3. Own(c).count \in Nat /\ sends[c] \in Nat /\ MaxRedirects \in Nat
        BY <1>0, <1>2, <2>1, OwnFacts, ConstantsAssumption DEF TypeOK
    <3>4. sends[c] > MaxRedirects
      <4> DEFINE n == Own(c).count
      <4>1. n + 1 > MaxRedirects
          BY <2>2
      <4>2. n \in Nat /\ n + 1 <= sends[c]
          BY <3>2, <3>3
      <4> HIDE DEF n
      <4> QED BY <3>3, <4>1, <4>2
    <3>5. LimitReached(c, Error("redirect limit")) /\ ~IsRedirect(Error("redirect limit"))
        BY <3>1, <3>4 DEF LimitReached, IsRedirect
    <3> QED BY <1>1, <2>1, <2>2, <3>1, <3>5
  <2>3. CASE Return(c, at[c], Error("other"))
      BY <1>1, <1>3, <2>1, <2>3
  <2> QED BY <1>8, <2>2, <2>3 DEF RefuseRedirect
<1>9. ASSUME NEW i \in 1..Len(stack), TimerFires(c, i)
      PROVE  /\ i \in 1..(Len(stack) + 1) /\ i <= at[c]
             /\ Return(c, i, Error("timeout")) /\ UNCHANGED <<jar, history>>
  <2>1. i < at[c] /\ Return(c, i, Error("timeout")) /\ UNCHANGED <<jar, history>>
      BY <1>9 DEF TimerFires
  <2>2. i \in 1..(Len(stack) + 1) /\ i <= at[c]
      BY <1>0, <2>1
  <2> QED BY <2>1, <2>2
<1>10. CASE \E i \in 1..Len(stack) : TimerFires(c, i)
    BY <1>3, <1>9, <1>10
<1> QED BY <1>4, <1>5, <1>6, <1>7, <1>8, <1>10

\* A step of a call.
LEMMA NextSteps ==
    ASSUME [Next]_vars
    PROVE  \/ UNCHANGED vars
           \/ \E c \in Calls :
                  \/ \/ BadPeer(c) \/ Answer(c) \/ PassUp(c) \/ GiveUp(c) \/ RefuseRedirect(c)
                     \/ \E i \in 1..Len(stack) : TimerFires(c, i)
                  \/ StoreCookies(c)
                  \/ EnterLayer(c) \/ AttachCookies(c)
                  \/ Retry(c) \/ Follow(c)
                  \/ Send(c)
                  \/ PlanRetry(c)
BY DEF Next, Step

LEMMA StepHop ==
    ASSUME IInv, HopInv, [Next]_vars
    PROVE  HopInv'
<1>0. TypeOK /\ PlaceInv /\ Len(stack) \in Nat
    BY StackFacts DEF IInv
<1>1. CASE UNCHANGED vars
  <2>1. /\ stack' = stack /\ pc' = pc /\ at' = at /\ req' = req /\ res' = res
        /\ frame' = frame /\ sends' = sends
      BY <1>1 DEF vars, history
  <2> QED BY <2>1, OtherHop DEF HopInv
<1>2. ASSUME NEW c \in Calls,
             \/ BadPeer(c) \/ Answer(c) \/ PassUp(c) \/ GiveUp(c) \/ RefuseRedirect(c)
             \/ \E i \in 1..Len(stack) : TimerFires(c, i)
      PROVE  HopInv'
  <2>1. PICK i \in 1..(Len(stack) + 1), result \in Result :
            /\ i <= at[c]
            /\ Return(c, i, result)
            /\ UNCHANGED <<jar, history>>
            /\ IsRedirect(result) =>
                   \/ pc[c] = "sent" /\ i = at[c]
                   \/ pc[c] = "up" /\ i = at[c] /\ result = res[c] /\ stack[i] # "redirect"
            /\ LimitReached(c, result)
      BY <1>2, ReturningHop
  <2>2. sends' = sends
      BY <2>1 DEF history
  <2> QED BY <1>0, <2>1, <2>2, ReturnHop
<1>3. ASSUME NEW c \in Calls, StoreCookies(c)
      PROVE  HopInv'
  <2>1. /\ pc[c] = "up" /\ at[c] \in 1..Len(stack) /\ stack[at[c]] = "jar"
        /\ at[c] \in 1..(Len(stack) + 1)
        /\ res[c] \in Result /\ Return(c, at[c], res[c]) /\ sends' = sends
      BY <1>0, <1>3, StoreFacts DEF history
  <2>2. LimitReached(c, res[c])
      BY DEF HopInv, HopCall, LimitCall
  <2>3. at[c] <= at[c]
      BY <1>0, <2>1
  <2> QED BY <1>0, <2>1, <2>2, <2>3, ReturnHop
<1> QED BY <1>1, <1>2, <1>3, EnterHop, AgainHop, SendHop, PlanHop, NextSteps

\* Redirects lead on from where they were answered, and limits are reached
\* before they are reported.
THEOREM HopsInvariance == Spec => []HopInv
<1>1. Init => HopInv
    BY InitHop
<1>2. IInv /\ HopInv /\ [Next]_vars => HopInv'
    BY StepHop
<1> QED BY <1>1, <1>2, BodyInvariance, PTL DEF Spec

\* "retry limit" is an error of calls that may retry, "redirect limit" takes
\* more sends than MaxRedirects.
THEOREM LimitsAreReal == Spec => []LimitsWereReached
<1>1. HopInv => LimitsWereReached
    BY DEF HopInv, HopCall, LimitCall, LimitReached, LimitsWereReached
<1> QED BY <1>1, HopsInvariance, PTL

\* A step of another call.
LEMMA OthersStay ==
    ASSUME TypeOK, PlaceInv, NEW d \in Calls, NEW c \in Calls, c # d,
           \/ \/ BadPeer(d) \/ Answer(d) \/ PassUp(d) \/ GiveUp(d) \/ RefuseRedirect(d)
              \/ \E i \in 1..Len(stack) : TimerFires(d, i)
           \/ StoreCookies(d)
           \/ EnterLayer(d) \/ AttachCookies(d)
           \/ Retry(d) \/ Follow(d)
           \/ Send(d)
           \/ PlanRetry(d)
    PROVE  /\ stack' = stack /\ pc'[c] = pc[c] /\ at'[c] = at[c] /\ req'[c] = req[c]
           /\ res'[c] = res[c] /\ frame'[c] = frame[c] /\ sends'[c] = sends[c]
<1>1. CASE \/ BadPeer(d) \/ Answer(d) \/ PassUp(d) \/ GiveUp(d) \/ RefuseRedirect(d)
           \/ \E i \in 1..Len(stack) : TimerFires(d, i)
  <2>1. PICK i \in 1..at[d], result \in Result :
            i \in 1..(Len(stack) + 1) /\ Return(d, i, result) /\ UNCHANGED <<jar, history>>
      BY <1>1, Returning
  <2> QED BY <2>1, ReturnFacts DEF history
<1>2. CASE StoreCookies(d)
    BY <1>2, StoreFacts, ReturnFacts DEF history
<1>0. /\ pc \in [Calls -> {"down", "up", "sent", "sleeping", "returned"}]
      /\ at \in [Calls -> 0..(Len(stack) + 1)] /\ req \in [Calls -> Request]
      /\ frame \in [Calls -> [1..Len(stack) -> Frames]] /\ sends \in [Calls -> Nat]
    BY DEF TypeOK
<1>3. CASE EnterLayer(d) \/ AttachCookies(d) \/ Retry(d) \/ Follow(d)
  <2>1. PICK r, own : Await(d, r, own) /\ sends' = sends
    <3>1. CASE EnterLayer(d)
        BY <3>1 DEF EnterLayer, history
    <3>2. CASE AttachCookies(d)
        BY <3>2 DEF AttachCookies, history
    <3>3. CASE Retry(d)
        BY <3>3 DEF Retry, history
    <3>4. CASE Follow(d)
        BY <3>4 DEF Follow
    <3> QED BY <1>3, <3>1, <3>2, <3>3, <3>4
  <2>2. /\ stack' = stack /\ res' = res
        /\ pc' = [pc EXCEPT ![d] = "down"] /\ at' = [at EXCEPT ![d] = @ + 1]
        /\ req' = [req EXCEPT ![d] = r] /\ frame' = [frame EXCEPT ![d][at[d]] = own]
      BY <2>1 DEF Await
  <2> QED BY <1>0, <2>1, <2>2
<1>4. CASE Send(d)
  <2>1. /\ pc' = [pc EXCEPT ![d] = "sent"] /\ sends' = [sends EXCEPT ![d] = @ + 1]
        /\ UNCHANGED <<stack, at, req, res, frame>>
      BY <1>4 DEF Send
  <2> QED BY <1>0, <2>1
<1>5. CASE PlanRetry(d)
    BY <1>5, PlanFacts DEF history
<1> QED BY <1>1, <1>2, <1>3, <1>4, <1>5

\* What can become of a result on its way up.
LEMMA UpSteps ==
    ASSUME TypeOK, PlaceInv, [Next]_vars, NEW c \in Calls, pc[c] = "up"
    PROVE  \/ pc'[c] = pc[c] /\ res'[c] = res[c] /\ sends'[c] = sends[c]
           \/ PassUp(c) \/ GiveUp(c) \/ RefuseRedirect(c) \/ StoreCookies(c)
           \/ Follow(c) \/ PlanRetry(c)
<1>1. CASE UNCHANGED vars
    BY <1>1 DEF vars, history
<1>2. ASSUME NEW d \in Calls,
             \/ \/ BadPeer(d) \/ Answer(d) \/ PassUp(d) \/ GiveUp(d) \/ RefuseRedirect(d)
                \/ \E i \in 1..Len(stack) : TimerFires(d, i)
             \/ StoreCookies(d)
             \/ EnterLayer(d) \/ AttachCookies(d)
             \/ Retry(d) \/ Follow(d)
             \/ Send(d)
             \/ PlanRetry(d)
      PROVE  \/ pc'[c] = pc[c] /\ res'[c] = res[c] /\ sends'[c] = sends[c]
             \/ PassUp(c) \/ GiveUp(c) \/ RefuseRedirect(c) \/ StoreCookies(c)
             \/ Follow(c) \/ PlanRetry(c)
  <2>1. CASE d # c
      BY <1>2, <2>1, OthersStay
  <2>2. ~BadPeer(c) /\ ~Answer(c) /\ ~EnterLayer(c) /\ ~AttachCookies(c) /\ ~Retry(c) /\ ~Send(c)
      BY DEF BadPeer, Answer, EnterLayer, AttachCookies, Retry, Send, Entered
  <2>3. \A i \in 1..Len(stack) : ~TimerFires(c, i)
      BY DEF TimerFires
  <2> QED BY <1>2, <2>1, <2>2, <2>3
<1> QED BY <1>1, <1>2, NextSteps

\* A layer that returns a result says so.
LEMMA ReturnedSteps ==
    ASSUME TypeOK, NEW c \in Calls, NEW result, Return(c, at[c], result)
    PROVE  pc'[c] \in {"up", "returned"} /\ res'[c] = result
BY DEF Return, TypeOK

\* A relative location leads to the peer that answered with it, through any
\* stack of layers.
THEOREM RelativeLocationsStay == Spec => RelativeStays
<1>1. ASSUME IInv, HopInv, [Next]_vars, NEW c \in Calls,
             Resumed(c, "redirect"), res[c].location \in Relative, pc'[c] = "down"
      PROVE  req'[c].to.peer = req[c].to.peer
  <2>0. TypeOK /\ PlaceInv /\ HopCall(c) /\ Len(stack) \in Nat
      BY <1>1, StackFacts DEF IInv, HopInv
  <2>1. pc[c] = "up" /\ at[c] \in 1..Len(stack) /\ Layer(c) = "redirect"
      BY <1>1, <2>0 DEF Resumed, PlaceInv
  <2>2. Follow(c)
    <3>1. ~GiveUp(c) /\ ~StoreCookies(c) /\ ~PlanRetry(c)
        BY <2>1 DEF GiveUp, StoreCookies, PlanRetry, Resumed
    <3>2. ~PassUp(c) /\ ~RefuseRedirect(c)
        BY <1>1, <2>0, ReturnedSteps DEF PassUp, PassOn, RefuseRedirect
    <3> QED BY <1>1, <2>0, <2>1, <3>1, <3>2, UpSteps
  <2>3. IsRedirect(res[c]) /\ Resolve(Own(c).req.to, res[c].location) # Invalid
      BY <2>2 DEF Follow, Target
  <2> DEFINE next == Redirected(Own(c).req, res[c])
             n == Own(c).count + 1
  <2>4. Await(c, next, Slot(next, n))
      BY <2>2 DEF Follow
  <2>5. Own(c) = frame[c][at[c]] /\ Own(c).req \in Request /\ n \in Nat /\ res[c] \in Result
      BY <2>0, <2>1, OwnFacts DEF TypeOK
  <2> HIDE DEF n
  <2>6. next \in Request /\ next.to = Resolve(Own(c).req.to, res[c].location)
      BY <2>3, <2>5, RedirectedFacts
  <2> HIDE DEF next
  <2>7. req'[c] = next
      BY <2>0, <2>1, <2>4, <2>5, <2>6, SlotFacts, AwaitFacts
  <2>8. Own(c).req.to = req[c].to
    <3>1. NoRedirectIn(at[c], at[c]) /\ at[c] \in 1..at[c]
        BY <2>0, <2>1 DEF NoRedirectIn
    <3> QED BY <2>0, <2>1, <2>3, <2>5, <3>1 DEF HopCall, ToCall
  <2>9. next.to.peer = req[c].to.peer
    <3>1. Own(c).req.to \in Uris /\ res[c].location \in Locations
        BY <2>5 DEF Request, Result
    <3> QED BY <1>1, <2>3, <2>6, <2>8, <3>1, ResolveFacts
  <2> QED BY <2>7, <2>9
<1>2. IInv /\ HopInv /\ [Next]_vars =>
          [\A c \in Calls :
               Resumed(c, "redirect") /\ res[c].location \in Relative /\ pc'[c] = "down" =>
                   req'[c].to.peer = req[c].to.peer]_vars
    BY <1>1
<1> QED BY <1>2, BodyInvariance, HopsInvariance, PTL DEF Spec, RelativeStays

\* After a final answer nothing more is sent, and the caller gets it.
THEOREM FinalAnswers == Spec => AnswerIsFinal
<1>1. ASSUME IInv, [Next]_vars, NEW c \in Calls, pc[c] = "up", res[c].what \in {"ok", "gone"}
      PROVE  /\ res'[c] = res[c] /\ sends'[c] = sends[c]
             /\ pc'[c] \in {"up", "returned"}
  <2>0. TypeOK /\ PlaceInv
      BY <1>1 DEF IInv
  <2>1. Final(res[c]) /\ ~IsRedirect(res[c])
      BY <1>1 DEF Final, IsRedirect
  <2>2. ~GiveUp(c) /\ ~PlanRetry(c) /\ ~RefuseRedirect(c) /\ ~Follow(c)
      BY <2>1 DEF GiveUp, PlanRetry, RefuseRedirect, Follow
  <2>3. CASE PassUp(c)
      BY <2>0, <2>3, ReturnedSteps DEF PassUp, PassOn, history
  <2>4. CASE StoreCookies(c)
      BY <2>0, <2>4, ReturnedSteps DEF StoreCookies, history
  <2> QED BY <1>1, <2>0, <2>2, <2>3, <2>4, UpSteps
<1>2. IInv /\ [Next]_vars =>
          [\A c \in Calls : pc[c] = "up" /\ res[c].what \in {"ok", "gone"} =>
               /\ res'[c] = res[c] /\ sends'[c] = sends[c]
               /\ pc'[c] \in {"up", "returned"}]_vars
    BY <1>1
<1> QED BY <1>2, BodyInvariance, PTL DEF Spec, AnswerIsFinal

-----------------------------------------------------------------------------
(* GET requests and bodies. *)

\* Callers send no GET with a body.
GetsAreEmpty == \A r \in Requests : r.method = "GET" => r.body = "empty"

EmptyIfGet(r) == r.method = "GET" => r.body = "empty"

\* Neither do layers, nor will they.
GetInv == \A c \in Calls :
    EmptyIfGet(req[c]) /\ \A i \in 1..Len(stack) : EmptyIfGet(frame[c][i].req)

LEMMA AwaitGet ==
    ASSUME TypeOK, GetInv, NEW c \in Calls, NEW r \in Request,
           at[c] \in 1..Len(stack), EmptyIfGet(r),
           NEW own \in Frames, EmptyIfGet(own.req), Await(c, r, own)
    PROVE  GetInv'
<1>1. /\ stack' = stack /\ req'[c] = r /\ frame'[c][at[c]] = own
      /\ \A i \in 1..Len(stack) : i # at[c] => frame'[c][i] = frame[c][i]
      /\ \A d \in Calls : d # c => req'[d] = req[d] /\ frame'[d] = frame[d]
    BY AwaitFacts
<1> SUFFICES ASSUME NEW d \in Calls
             PROVE  /\ EmptyIfGet(req'[d])
                    /\ \A i \in 1..Len(stack) : EmptyIfGet(frame'[d][i].req)
    BY <1>1 DEF GetInv, EmptyIfGet
<1>2. CASE d = c
  <2>1. ASSUME NEW i \in 1..Len(stack) PROVE EmptyIfGet(frame'[c][i].req)
    <3>1. CASE i = at[c]
        BY <1>1, <3>1
    <3>2. CASE i # at[c]
        BY <1>1, <3>2 DEF GetInv
    <3> QED BY <3>1, <3>2
  <2> QED BY <1>1, <1>2, <2>1
<1>3. CASE d # c
    BY <1>1, <1>3 DEF GetInv
<1> QED BY <1>2, <1>3

LEMMA StepGet ==
    ASSUME IInv, GetInv, [Next]_vars
    PROVE  GetInv'
<1>0. TypeOK /\ PlaceInv /\ Len(stack) \in Nat
    BY StackFacts DEF IInv
<1>1. CASE UNCHANGED <<stack, req, frame>>
    BY <1>1 DEF GetInv, EmptyIfGet
<1>2. CASE UNCHANGED vars
    BY <1>1, <1>2 DEF vars
<1>3. ASSUME NEW c \in Calls,
             \/ BadPeer(c) \/ Answer(c) \/ PassUp(c) \/ GiveUp(c) \/ RefuseRedirect(c)
             \/ \E i \in 1..Len(stack) : TimerFires(c, i)
      PROVE  GetInv'
  <2>1. PICK i \in 1..at[c], result \in Result : Return(c, i, result)
      BY <1>0, <1>3, Returning
  <2> QED BY <1>1, <2>1 DEF Return
<1>4. ASSUME NEW c \in Calls, StoreCookies(c) \/ Send(c)
      PROVE  GetInv'
    BY <1>1, <1>4 DEF StoreCookies, Return, Send
<1>5. ASSUME NEW c \in Calls, EnterLayer(c) \/ AttachCookies(c)
      PROVE  GetInv'
  <2>1. pc[c] = "down" /\ Layer(c) \in Kinds
      BY <1>5 DEF EnterLayer, AttachCookies, Entered, Kinds
  <2>2. at[c] \in 1..Len(stack) /\ req[c] \in Request /\ EmptyIfGet(req[c])
      BY <1>0, <2>1, LayerFacts DEF TypeOK, GetInv
  <2>3. Slot(req[c], 0) \in Frames /\ EmptyIfGet(Slot(req[c], 0).req)
      BY <2>2, SlotFacts DEF EmptyIfGet
  <2>4. CASE EnterLayer(c)
      BY <1>0, <2>2, <2>3, <2>4, AwaitGet DEF EnterLayer
  <2>5. CASE AttachCookies(c)
    <3> DEFINE stored == jar[req[c].to.peer]
               r == [req[c] EXCEPT !.cookies = IF stored = {} THEN @ ELSE stored]
    <3>1. Await(c, r, Slot(req[c], 0)) /\ req[c].to.peer \in Peers
        BY <2>2, <2>5 DEF AttachCookies, Request, Uris, Absolute
    <3>2. stored \in SUBSET Cookies
        BY <1>0, <3>1 DEF TypeOK
    <3>3. r \in Request /\ r.method = req[c].method /\ r.body = req[c].body
        BY <2>2, <3>2 DEF Request
    <3> HIDE DEF r
    <3>4. EmptyIfGet(r)
        BY <2>2, <3>3 DEF EmptyIfGet
    <3> QED BY <1>0, <2>2, <2>3, <3>1, <3>3, <3>4, AwaitGet
  <2> QED BY <1>5, <2>4, <2>5
<1>6. ASSUME NEW c \in Calls, Retry(c) \/ Follow(c)
      PROVE  GetInv'
  <2>1. at[c] \in 1..Len(stack)
      BY <1>0, <1>6 DEF Retry, Follow, Resumed, PlaceInv
  <2>2. /\ Own(c) = frame[c][at[c]] /\ Own(c) \in Frames
        /\ Own(c).req \in Request /\ Own(c).count \in Nat
      BY <1>0, <2>1, OwnFacts
  <2>3. EmptyIfGet(Own(c).req)
      BY <2>1, <2>2 DEF GetInv
  <2>4. CASE Retry(c)
      BY <1>0, <2>1, <2>2, <2>3, <2>4, AwaitGet DEF Retry
  <2>5. CASE Follow(c)
    <3> DEFINE next == Redirected(Own(c).req, res[c])
               n == Own(c).count + 1
    <3>1. /\ Await(c, next, Slot(next, n))
          /\ Resolve(Own(c).req.to, res[c].location) # Invalid
        BY <2>5 DEF Follow, Target
    <3>2. res[c] \in Result /\ n \in Nat
        BY <1>0, <2>2 DEF TypeOK
    <3>3. /\ next \in Request
          /\ next.method = Own(c).req.method \/ next.body = "empty"
          /\ next.body # "empty" => Own(c).req.body = next.body
        BY <2>2, <3>1, <3>2, RedirectedFacts
    <3> HIDE DEF next, n
    <3>4. EmptyIfGet(next)
        BY <2>3, <3>3 DEF EmptyIfGet
    <3>5. Slot(next, n) \in Frames /\ EmptyIfGet(Slot(next, n).req)
        BY <3>2, <3>3, <3>4, SlotFacts DEF EmptyIfGet
    <3> QED BY <1>0, <2>1, <3>1, <3>3, <3>4, <3>5, AwaitGet
  <2> QED BY <1>6, <2>4, <2>5
<1>7. ASSUME NEW c \in Calls, PlanRetry(c)
      PROVE  GetInv'
  <2>1. /\ at[c] \in 1..Len(stack) /\ frame'[c][at[c]].req.body = "empty"
        /\ \A i \in 1..Len(stack) : i # at[c] => frame'[c][i] = frame[c][i]
        /\ \A d \in Calls : d # c => frame'[d] = frame[d]
        /\ stack' = stack /\ req' = req
      BY <1>0, <1>7, PlanFacts
  <2>2. ASSUME NEW i \in 1..Len(stack) PROVE EmptyIfGet(frame'[c][i].req)
    <3>1. CASE i = at[c]
        BY <2>1, <3>1 DEF EmptyIfGet
    <3>2. CASE i # at[c]
        BY <2>1, <3>2 DEF GetInv
    <3> QED BY <3>1, <3>2
  <2>3. ASSUME NEW d \in Calls, d # c, NEW i \in 1..Len(stack) PROVE EmptyIfGet(frame'[d][i].req)
      BY <2>1, <2>3 DEF GetInv
  <2> QED BY <2>1, <2>2, <2>3 DEF GetInv, EmptyIfGet
<1> QED BY <1>2, <1>3, <1>4, <1>5, <1>6, <1>7, NextSteps

\* If callers send no GET with a body, no request that is a GET, or became one
\* by a redirect, has a body in any hop or retry.
THEOREM GetsHaveNoBody ==
    ASSUME GetsAreEmpty
    PROVE  Spec => []NoBodyOnGet
<1>1. Init => GetInv
  <2> SUFFICES ASSUME Init, NEW c \in Calls
               PROVE  EmptyIfGet(req[c]) /\ \A i \in 1..Len(stack) : EmptyIfGet(frame[c][i].req)
      BY DEF GetInv
  <2>1. req[c] \in Requests /\ frame[c] = [i \in 1..Len(stack) |-> Slot(req[c], 0)]
      BY DEF Init
  <2>2. req[c] \in Request /\ EmptyIfGet(req[c])
      BY <2>1, InitIInv DEF IInv, TypeOK, GetsAreEmpty, EmptyIfGet
  <2>3. EmptyIfGet(Slot(req[c], 0).req)
      BY <2>2, SlotFacts DEF EmptyIfGet
  <2> QED BY <2>1, <2>2, <2>3
<1>2. IInv /\ GetInv /\ [Next]_vars => GetInv'
    BY StepGet
<1>3. GetInv => NoBodyOnGet
    BY DEF GetInv, EmptyIfGet, NoBodyOnGet
<1> QED BY <1>1, <1>2, <1>3, BodyInvariance, PTL DEF Spec

-----------------------------------------------------------------------------
(***************************************************************************)
(* Bodies of bytes.  A call either never had one, or every request of it   *)
(* that no retry has touched still has it, or has become a GET.            *)
(***************************************************************************)
\* None of the first n layers is a retry that has begun again.
Fresh(c, n) == \A i \in 1..n : stack[i] = "retry" => frame[c][i].count = 0

HasBytes(r) == r.method = "GET" \/ r.body = "bytes"

NeverBytes(c) ==
    /\ req[c].body # "bytes" /\ \A i \in 1..Len(stack) : frame[c][i].req.body # "bytes"
    /\ bodies[c] > 0 => streams[c] > 0

KeepsBytes(c) ==
    /\ pc[c] \in {"down", "sent"} /\ Fresh(c, at[c] - 1) => HasBytes(req[c])
    /\ \A i \in Live(c) : Fresh(c, i) => HasBytes(frame[c][i].req)

BytesInv == \A c \in Calls : NeverBytes(c) \/ KeepsBytes(c)

\* A call that does not move keeps what is true of it.
LEMMA OtherBytes ==
    ASSUME NEW d \in Calls, NeverBytes(d) \/ KeepsBytes(d), stack' = stack,
           pc'[d] = pc[d], at'[d] = at[d], req'[d] = req[d], frame'[d] = frame[d],
           bodies'[d] = bodies[d], streams'[d] = streams[d]
    PROVE  (NeverBytes(d) \/ KeepsBytes(d))'
<1>1. ASSUME NeverBytes(d) PROVE NeverBytes(d)'
    BY <1>1 DEF NeverBytes
<1>2. ASSUME KeepsBytes(d) PROVE KeepsBytes(d)'
    BY <1>2 DEF KeepsBytes, Fresh, HasBytes, Live
<1> QED BY <1>1, <1>2

\* A layer may send r and keep own if neither has bytes where the call had
\* none, and both have them where no retry above has begun again.
LEMMA AwaitBytes ==
    ASSUME TypeOK, BytesInv, NEW c \in Calls, NEW r \in Request, NEW own \in Frames,
           at[c] \in 1..Len(stack), Await(c, r, own), UNCHANGED <<bodies, streams>>,
           NeverBytes(c) => r.body # "bytes" /\ own.req.body # "bytes",
           KeepsBytes(c) /\ Fresh(c, at[c] - 1) /\ (stack[at[c]] = "retry" => own.count = 0) =>
               HasBytes(r) /\ HasBytes(own.req)
    PROVE  BytesInv'
<1>1. Len(stack) \in Nat /\ (NeverBytes(c) \/ KeepsBytes(c))
    BY StackFacts DEF BytesInv
<1>2. /\ stack' = stack /\ bodies' = bodies /\ streams' = streams
      /\ pc'[c] = "down" /\ at'[c] = at[c] + 1 /\ req'[c] = r
      /\ frame'[c][at[c]] = own
      /\ \A i \in 1..Len(stack) : i # at[c] => frame'[c][i] = frame[c][i]
      /\ \A d \in Calls : d # c =>
             pc'[d] = pc[d] /\ at'[d] = at[d] /\ req'[d] = req[d] /\ frame'[d] = frame[d]
    BY AwaitFacts
<1>3. ASSUME NEW d \in Calls, d # c PROVE (NeverBytes(d) \/ KeepsBytes(d))'
    BY <1>2, <1>3, OtherBytes DEF BytesInv
<1>4. ASSUME NeverBytes(c) PROVE NeverBytes(c)'
  <2>1. ASSUME NEW i \in 1..Len(stack) PROVE frame'[c][i].req.body # "bytes"
    <3>1. CASE i = at[c]
        BY <1>2, <1>4, <3>1
    <3>2. CASE i # at[c]
        BY <1>2, <1>4, <3>2 DEF NeverBytes
    <3> QED BY <3>1, <3>2
  <2> QED BY <1>2, <1>4, <2>1 DEF NeverBytes
<1>5. ASSUME KeepsBytes(c) PROVE KeepsBytes(c)'
  <2>0. PICK l \in 1..Len(stack) : l = at[c]
      OBVIOUS
  <2>1. ASSUME NEW n \in 0..(l - 1), Fresh(c, n)' PROVE Fresh(c, n)
    <3> SUFFICES ASSUME NEW i \in 1..n, stack[i] = "retry" PROVE frame[c][i].count = 0
        BY DEF Fresh
    <3>1. i \in 1..Len(stack) /\ i # l
        BY <1>1
    <3> QED BY <1>2, <2>0, <2>1, <3>1 DEF Fresh
  <2>2. ASSUME Fresh(c, l)' PROVE HasBytes(r) /\ HasBytes(own.req)
    <3>1. Fresh(c, l - 1)' /\ (stack[l] = "retry" => own.count = 0)
        BY <1>1, <1>2, <2>0, <2>2 DEF Fresh
    <3>2. Fresh(c, l - 1)
        BY <1>1, <2>1, <3>1
    <3> QED BY <1>5, <2>0, <3>1, <3>2
  <2>3. ASSUME NEW i \in Live(c)', Fresh(c, i)' PROVE HasBytes(frame'[c][i].req)
    <3>1. i \in 1..Len(stack) /\ i <= l
        BY <1>1, <1>2, <2>0 DEF Live
    <3>2. CASE i = l
        BY <1>2, <2>0, <2>2, <2>3, <3>2
    <3>3. CASE i # l
      <4>1. i \in Live(c) /\ i \in 0..(l - 1) /\ frame'[c][i] = frame[c][i]
          BY <1>1, <1>2, <2>0, <3>1, <3>3 DEF Live
      <4>2. Fresh(c, i)
          BY <2>1, <2>3, <4>1
      <4> QED BY <1>5, <4>1, <4>2 DEF KeepsBytes
    <3> QED BY <3>2, <3>3
  <2>4. Fresh(c, l)' => HasBytes(req'[c])
      BY <1>2, <2>2
  <2>5. (Fresh(c, at[c] - 1) => HasBytes(req[c]))'
    <3>1. at'[c] - 1 = l
        BY <1>1, <1>2, <2>0
    <3> QED BY <2>4, <3>1 DEF Fresh, HasBytes
  <2>6. (\A i \in Live(c) : Fresh(c, i) => HasBytes(frame[c][i].req))'
      BY <2>3 DEF HasBytes
  <2> QED BY <2>5, <2>6 DEF KeepsBytes
<1> QED BY <1>1, <1>3, <1>4, <1>5 DEF BytesInv

\* Returning a result leaves requests as they are.
LEMMA ReturnBytes ==
    ASSUME TypeOK, PlaceInv, BytesInv, NEW c \in Calls, NEW i \in 1..at[c], NEW result \in Result,
           i \in 1..(Len(stack) + 1), Return(c, i, result), UNCHANGED history
    PROVE  BytesInv'
<1>1. Len(stack) \in Nat /\ at[c] \in 0..(Len(stack) + 1) /\ (NeverBytes(c) \/ KeepsBytes(c))
    BY StackFacts DEF TypeOK, BytesInv
<1>2. /\ stack' = stack /\ req' = req /\ frame' = frame /\ bodies' = bodies /\ streams' = streams
      /\ at'[c] = i - 1 /\ pc'[c] \in {"up", "returned"}
      /\ \A d \in Calls : d # c => pc'[d] = pc[d] /\ at'[d] = at[d]
    BY ReturnFacts DEF history
<1>3. ASSUME NEW d \in Calls, d # c PROVE (NeverBytes(d) \/ KeepsBytes(d))'
    BY <1>2, <1>3, OtherBytes DEF BytesInv
<1>4. ASSUME NeverBytes(c) PROVE NeverBytes(c)'
    BY <1>2, <1>4 DEF NeverBytes
<1>5. ASSUME KeepsBytes(c) PROVE KeepsBytes(c)'
  <2>1. \A j \in Live(c)' : j \in Live(c)
      BY <1>1, <1>2 DEF Live
  <2>2. \A j \in Live(c) : Fresh(c, j) => HasBytes(frame[c][j].req)
      BY <1>5 DEF KeepsBytes
  <2>3. \A j \in Live(c)' : Fresh(c, j)' => HasBytes(frame[c][j].req)'
      BY <1>2, <2>1, <2>2 DEF Fresh, HasBytes
  <2> QED BY <1>2, <2>3 DEF KeepsBytes
<1> QED BY <1>1, <1>3, <1>4, <1>5 DEF BytesInv

\* The layer that moves knows whether the call has bytes.
LEMMA OwnBytes ==
    ASSUME TypeOK, NEW c \in Calls, at[c] \in 1..Len(stack), pc[c] \in {"up", "sleeping"}
    PROVE  /\ NeverBytes(c) => Own(c).req.body # "bytes"
           /\ KeepsBytes(c) /\ Fresh(c, at[c]) => HasBytes(Own(c).req)
<1>1. Own(c) = frame[c][at[c]] /\ at[c] \in Live(c)
    BY DEF Own, Live
<1> QED BY <1>1 DEF NeverBytes, KeepsBytes

\* Sending counts a body, and a stream where it is one.
LEMMA SendBytes ==
    ASSUME IInv, BytesInv, NEW c \in Calls, Send(c)
    PROVE  BytesInv'
<1>0. TypeOK /\ PlaceInv /\ Len(stack) \in Nat /\ (NeverBytes(c) \/ KeepsBytes(c))
    BY StackFacts DEF IInv, BytesInv
<1>1. /\ pc[c] = "down" /\ req[c] \in Request
      /\ pc \in [Calls -> {"down", "up", "sent", "sleeping", "returned"}]
      /\ bodies \in [Calls -> Nat] /\ streams \in [Calls -> Nat]
    BY <1>0 DEF Send, Entered, TypeOK
<1> DEFINE s == IF req[c].body = "stream" THEN 1 ELSE 0
           b == IF req[c].body # "empty" THEN 1 ELSE 0
<1>2. /\ stack' = stack /\ at' = at /\ req' = req /\ frame' = frame
      /\ pc' = [pc EXCEPT ![c] = "sent"]
      /\ streams' = [streams EXCEPT ![c] = @ + s] /\ bodies' = [bodies EXCEPT ![c] = @ + b]
    BY DEF Send
<1>3. s \in Nat /\ b \in Nat /\ (req[c].body # "bytes" => s = b)
    BY <1>1 DEF Request
<1> HIDE DEF s, b
<1>4. /\ pc'[c] = "sent" /\ streams'[c] = s + streams[c] /\ bodies'[c] = b + bodies[c]
      /\ \A d \in Calls : d # c =>
             pc'[d] = pc[d] /\ streams'[d] = streams[d] /\ bodies'[d] = bodies[d]
    BY <1>1, <1>2, <1>3, CountFacts
<1>5. ASSUME NEW d \in Calls, d # c PROVE (NeverBytes(d) \/ KeepsBytes(d))'
    BY <1>2, <1>4, <1>5, OtherBytes DEF BytesInv
<1>6. ASSUME NeverBytes(c) PROVE NeverBytes(c)'
  <2>1. bodies[c] > 0 => streams[c] > 0
      BY <1>6 DEF NeverBytes
  <2>2. s = b
      BY <1>3, <1>6 DEF NeverBytes
  <2>3. bodies'[c] > 0 => streams'[c] > 0
      BY <1>1, <1>3, <1>4, <2>1, <2>2
  <2> QED BY <1>2, <1>6, <2>3 DEF NeverBytes
<1>7. ASSUME KeepsBytes(c) PROVE KeepsBytes(c)'
  <2>1. Live(c)' = Live(c)
      BY <1>1, <1>2, <1>4 DEF Live
  <2> QED BY <1>1, <1>2, <1>7, <2>1 DEF KeepsBytes, Fresh, HasBytes
<1> QED BY <1>0, <1>5, <1>6, <1>7 DEF BytesInv

\* A retry takes the body of its layer's frame, which is no longer fresh.
LEMMA PlanBytes ==
    ASSUME IInv, BytesInv, NEW c \in Calls, PlanRetry(c)
    PROVE  BytesInv'
<1>0. TypeOK /\ PlaceInv /\ Len(stack) \in Nat /\ (NeverBytes(c) \/ KeepsBytes(c))
    BY StackFacts DEF IInv, BytesInv
<1>1. PICK l \in 1..Len(stack) : l = at[c]
    BY <1>0, PlanFacts
<1>2. /\ pc[c] = "up" /\ pc'[c] = "sleeping" /\ stack[l] = "retry"
      /\ frame'[c][l].req.body = "empty" /\ frame'[c][l].count = frame[c][l].count + 1
      /\ \A i \in 1..Len(stack) : i # l => frame'[c][i] = frame[c][i]
      /\ \A d \in Calls : d # c => pc'[d] = pc[d] /\ frame'[d] = frame[d]
      /\ stack' = stack /\ at' = at /\ req' = req /\ bodies' = bodies /\ streams' = streams
    BY <1>0, <1>1, PlanFacts DEF history
<1>3. ASSUME NEW d \in Calls, d # c PROVE (NeverBytes(d) \/ KeepsBytes(d))'
    BY <1>2, <1>3, OtherBytes DEF BytesInv
<1>4. ASSUME NeverBytes(c) PROVE NeverBytes(c)'
  <2>1. ASSUME NEW i \in 1..Len(stack) PROVE frame'[c][i].req.body # "bytes"
      BY <1>2, <1>4 DEF NeverBytes
  <2> QED BY <1>2, <1>4, <2>1 DEF NeverBytes
<1>5. ASSUME KeepsBytes(c) PROVE KeepsBytes(c)'
  <2>1. frame[c][l].count \in Nat
      BY <1>0 DEF TypeOK, Frames
  <2>2. frame'[c][l].count # 0
      BY <1>2, <2>1
  <2>3. ASSUME NEW i \in Live(c)', Fresh(c, i)' PROVE HasBytes(frame'[c][i].req)
    <3>1. i \in Live(c) /\ i \in 1..Len(stack) /\ i <= l
        BY <1>0, <1>1, <1>2 DEF Live
    <3>2. i # l
        BY <1>2, <2>2, <2>3, <3>1 DEF Fresh
    <3>3. Fresh(c, i)
      <4> SUFFICES ASSUME NEW k \in 1..i, stack[k] = "retry" PROVE frame[c][k].count = 0
          BY DEF Fresh
      <4>1. k \in 1..Len(stack) /\ k # l
          BY <1>0, <3>1, <3>2
      <4> QED BY <1>2, <2>3, <4>1 DEF Fresh
    <3>4. frame'[c][i] = frame[c][i]
        BY <1>2, <3>1, <3>2
    <3> QED BY <1>5, <3>1, <3>3, <3>4 DEF KeepsBytes
  <2>4. (\A i \in Live(c) : Fresh(c, i) => HasBytes(frame[c][i].req))'
      BY <2>3 DEF HasBytes
  <2> QED BY <1>2, <2>4 DEF KeepsBytes
<1> QED BY <1>0, <1>3, <1>4, <1>5 DEF BytesInv

LEMMA StepBytes ==
    ASSUME IInv, BytesInv, [Next]_vars
    PROVE  BytesInv'
<1>0. TypeOK /\ PlaceInv /\ Len(stack) \in Nat
    BY StackFacts DEF IInv
<1>1. CASE UNCHANGED vars
  <2>1. ASSUME NEW d \in Calls PROVE (NeverBytes(d) \/ KeepsBytes(d))'
      BY <1>1, OtherBytes DEF vars, history, BytesInv
  <2> QED BY <2>1 DEF BytesInv
<1>2. ASSUME NEW c \in Calls,
             \/ BadPeer(c) \/ Answer(c) \/ PassUp(c) \/ GiveUp(c) \/ RefuseRedirect(c)
             \/ \E i \in 1..Len(stack) : TimerFires(c, i)
      PROVE  BytesInv'
  <2>1. PICK i \in 1..at[c], result \in Result :
            i \in 1..(Len(stack) + 1) /\ Return(c, i, result) /\ UNCHANGED history
      BY <1>0, <1>2, Returning
  <2> QED BY <1>0, <2>1, ReturnBytes
<1>3. ASSUME NEW c \in Calls, StoreCookies(c)
      PROVE  BytesInv'
  <2>1. /\ at[c] \in 1..Len(stack) /\ at[c] \in 1..(Len(stack) + 1) /\ res[c] \in Result
        /\ Return(c, at[c], res[c]) /\ UNCHANGED history
      BY <1>0, <1>3, StoreFacts
  <2>2. at[c] \in 1..at[c]
      BY <1>0, <2>1
  <2> QED BY <1>0, <2>1, <2>2, ReturnBytes
<1>4. ASSUME NEW c \in Calls, EnterLayer(c) \/ AttachCookies(c)
      PROVE  BytesInv'
  <2>1. pc[c] = "down" /\ Layer(c) \in Kinds
      BY <1>4 DEF EnterLayer, AttachCookies, Entered, Kinds
  <2>2. at[c] \in 1..Len(stack) /\ req[c] \in Request
      BY <1>0, <2>1, LayerFacts DEF TypeOK
  <2>3. /\ Slot(req[c], 0) \in Frames /\ Slot(req[c], 0).req.method = req[c].method
        /\ Slot(req[c], 0).req.body = "bytes" <=> req[c].body = "bytes"
      BY <2>2, SlotFacts
  <2>4. /\ NeverBytes(c) => req[c].body # "bytes"
        /\ KeepsBytes(c) /\ Fresh(c, at[c] - 1) => HasBytes(req[c])
      BY <2>1 DEF NeverBytes, KeepsBytes
  <2>5. PICK r \in Request :
            /\ Await(c, r, Slot(req[c], 0)) /\ UNCHANGED history
            /\ r.method = req[c].method /\ r.body = req[c].body
    <3>1. CASE EnterLayer(c)
        BY <2>2, <3>1 DEF EnterLayer
    <3>2. CASE AttachCookies(c)
      <4> DEFINE stored == jar[req[c].to.peer]
                 r == [req[c] EXCEPT !.cookies = IF stored = {} THEN @ ELSE stored]
      <4>1. /\ Await(c, r, Slot(req[c], 0)) /\ UNCHANGED history /\ req[c].to.peer \in Peers
          BY <2>2, <3>2 DEF AttachCookies, Request, Uris, Absolute
      <4>2. stored \in SUBSET Cookies
          BY <1>0, <4>1 DEF TypeOK
      <4>3. r \in Request /\ r.method = req[c].method /\ r.body = req[c].body
          BY <2>2, <4>2 DEF Request
      <4> HIDE DEF r
      <4> QED BY <4>1, <4>3
    <3> QED BY <1>4, <3>1, <3>2
  <2>6. /\ NeverBytes(c) => r.body # "bytes" /\ Slot(req[c], 0).req.body # "bytes"
        /\ KeepsBytes(c) /\ Fresh(c, at[c] - 1) => HasBytes(r) /\ HasBytes(Slot(req[c], 0).req)
      BY <2>3, <2>4, <2>5 DEF HasBytes
  <2>7. UNCHANGED <<bodies, streams>>
      BY <2>5 DEF history
  <2> QED BY <1>0, <2>2, <2>3, <2>5, <2>6, <2>7, AwaitBytes
<1>5. ASSUME NEW c \in Calls, Retry(c)
      PROVE  BytesInv'
  <2>1. at[c] \in 1..Len(stack) /\ pc[c] = "sleeping"
      BY <1>0, <1>5 DEF Retry, PlaceInv
  <2>2. /\ Own(c) = frame[c][at[c]] /\ Own(c) \in Frames /\ Own(c).req \in Request
        /\ Await(c, Own(c).req, Own(c)) /\ UNCHANGED <<bodies, streams>>
      BY <1>0, <1>5, <2>1, OwnFacts DEF Retry, history
  <2>3. Fresh(c, at[c] - 1) /\ (stack[at[c]] = "retry" => Own(c).count = 0) => Fresh(c, at[c])
      BY <2>1, <2>2 DEF Fresh
  <2> QED BY <1>0, <2>1, <2>2, <2>3, OwnBytes, AwaitBytes
<1>6. ASSUME NEW c \in Calls, Follow(c)
      PROVE  BytesInv'
  <2>1. at[c] \in 1..Len(stack) /\ pc[c] = "up" /\ stack[at[c]] = "redirect"
      BY <1>0, <1>6 DEF Follow, Resumed, Layer, PlaceInv
  <2>2. /\ Own(c) = frame[c][at[c]] /\ Own(c) \in Frames
        /\ Own(c).req \in Request /\ Own(c).count \in Nat /\ res[c] \in Result
      BY <1>0, <2>1, OwnFacts DEF TypeOK
  <2>3. Fresh(c, at[c] - 1) => Fresh(c, at[c])
      BY <2>1 DEF Fresh
  <2> DEFINE next == Redirected(Own(c).req, res[c])
             n == Own(c).count + 1
  <2>4. /\ Await(c, next, Slot(next, n)) /\ UNCHANGED <<bodies, streams>>
        /\ Resolve(Own(c).req.to, res[c].location) # Invalid
      BY <1>6 DEF Follow, Target
  <2>5. /\ next \in Request /\ n \in Nat
        /\ \/ next.method = "GET" /\ next.body = "empty"
           \/ next.method = Own(c).req.method /\ next.body = Own(c).req.body
    <3>1. n \in Nat
        BY <2>2
    <3> HIDE DEF n
    <3> QED BY <2>2, <2>4, <3>1, RedirectedFacts
  <2> HIDE DEF next, n
  <2>6. /\ Slot(next, n) \in Frames /\ Slot(next, n).req.method = next.method
        /\ Slot(next, n).req.body = "bytes" <=> next.body = "bytes"
      BY <2>5, SlotFacts
  <2>7. NeverBytes(c) => next.body # "bytes" /\ Slot(next, n).req.body # "bytes"
      BY <1>0, <2>1, <2>5, <2>6, OwnBytes
  <2>8. KeepsBytes(c) /\ Fresh(c, at[c] - 1) => HasBytes(next) /\ HasBytes(Slot(next, n).req)
    <3>1. KeepsBytes(c) /\ Fresh(c, at[c] - 1) => HasBytes(Own(c).req)
        BY <1>0, <2>1, <2>3, OwnBytes
    <3> QED BY <2>5, <2>6, <3>1 DEF HasBytes
  <2> QED BY <1>0, <2>1, <2>4, <2>5, <2>6, <2>7, <2>8, AwaitBytes
<1> QED BY <1>1, <1>2, <1>3, <1>4, <1>5, <1>6, SendBytes, PlanBytes, NextSteps

\* Unless a retry dropped it, a body of bytes is sent on every hop of a request
\* that has not become a GET, through any stack of layers.
THEOREM BytesAreKept == Spec => []BytesReachEveryHop
<1>1. Init => BytesInv
  <2> SUFFICES ASSUME Init, NEW c \in Calls PROVE NeverBytes(c) \/ KeepsBytes(c)
      BY DEF BytesInv
  <2>1. /\ req[c] \in Request /\ frame[c] = [i \in 1..Len(stack) |-> Slot(req[c], 0)]
        /\ bodies[c] = 0 /\ at[c] = 1 /\ pc[c] = "down"
      BY InitIInv DEF Init, IInv, TypeOK
  <2>2. Slot(req[c], 0).req.body = "bytes" <=> req[c].body = "bytes"
      BY <2>1, SlotFacts
  <2>3. CASE req[c].body = "bytes"
    <3>1. Live(c) = {}
        BY <2>1 DEF Live
    <3> QED BY <2>1, <2>3, <3>1 DEF KeepsBytes, HasBytes
  <2>4. CASE req[c].body # "bytes"
      BY <2>1, <2>2, <2>4 DEF NeverBytes
  <2> QED BY <2>3, <2>4
<1>2. IInv /\ BytesInv /\ [Next]_vars => BytesInv'
    BY StepBytes
<1>3. IInv /\ BytesInv => BytesReachEveryHop
  <2> SUFFICES ASSUME IInv, BytesInv, NEW c \in Calls,
                      pc[c] = "sent", FirstTry(c), req[c].method # "GET",
                      bodies[c] > 0, streams[c] = 0
               PROVE  req[c].body = "bytes"
      BY DEF BytesReachEveryHop
  <2>1. Len(stack) \in Nat /\ at[c] = Len(stack) + 1
      BY StackFacts DEF IInv, PlaceInv
  <2>2. Fresh(c, at[c] - 1)
      BY <2>1 DEF FirstTry, Fresh
  <2>3. KeepsBytes(c)
      BY DEF BytesInv, NeverBytes
  <2> QED BY <2>2, <2>3 DEF KeepsBytes, HasBytes
<1> QED BY <1>1, <1>2, <1>3, BodyInvariance, PTL DEF Spec

-----------------------------------------------------------------------------
(***************************************************************************)
(* How often a call sends.  Every layer gets an allowance: when it returns *)
(* the call has sent no more than that.  A layer hands its allowance down, *)
(* less what it may still spend on calling the next layer again.           *)
(***************************************************************************)

\* MostSends is the product it recurs to.
LEMMA MostSendsFacts ==
    ASSUME NEW layers \in Seq(Kinds), NEW budget \in Nat
    PROVE  /\ MostSends(layers, budget) \in [0..Len(layers) -> Nat]
           /\ MostSends(layers, budget)[0] = 1
           /\ \A n \in 1..Len(layers) : MostSends(layers, budget)[n] =
                  (1 + Again(layers[Len(layers) - n + 1], budget))
                      * MostSends(layers, budget)[n - 1]
<1> DEFINE Factor(n) == 1 + Again(layers[Len(layers) - n + 1], budget)
           most == MostSends(layers, budget)
<1>1. PICK m \in Nat : m = Len(layers)
    OBVIOUS
<1> DEFINE factor == [n \in 1..m |-> Factor(n)]
<1>2. \A n \in 1..m : Factor(n) \in Nat /\ factor[n] = Factor(n)
    BY ConstantsAssumption DEF Again
<1>3. factor \in [1..m -> Nat]
    BY <1>2
<1>4. most = CHOOSE g : g = [n \in 0..m |-> IF n = 0 THEN 1 ELSE Factor(n) * g[n - 1]]
    BY <1>1 DEF MostSends
<1> HIDE DEF Factor, factor, most
<1>5. PICK f : f \in [0..m -> Nat] /\ Multiplies(f, m, factor)
    BY <1>3, ProductsExist
<1>6. f = [n \in 0..m |-> IF n = 0 THEN 1 ELSE Factor(n) * f[n - 1]]
  <2>1. f[0] = 1 /\ \A n \in 1..m : f[n] = Factor(n) * f[n - 1]
      BY <1>2, <1>5 DEF Multiplies
  <2>2. \A n \in 0..m : f[n] = IF n = 0 THEN 1 ELSE Factor(n) * f[n - 1]
      BY <2>1
  <2> QED BY <1>5, <2>2
<1>7. most = [n \in 0..m |-> IF n = 0 THEN 1 ELSE Factor(n) * most[n - 1]]
    BY <1>4, <1>6
<1>8. most[0] = 1 /\ \A n \in 1..m : most[n] = Factor(n) * most[n - 1]
    BY <1>7
<1>9. Multiplies(most, m, factor)
    BY <1>2, <1>8 DEF Multiplies
<1>10. \A n \in 0..m : most[n] \in Nat
    BY <1>3, <1>9, ProductsAreNumbers
<1>11. most \in [0..m -> Nat]
  <2> DEFINE body(n) == IF n = 0 THEN 1 ELSE Factor(n) * most[n - 1]
  <2>1. most = [n \in 0..m |-> body(n)]
      BY <1>7
  <2> HIDE DEF body
  <2> QED BY <1>10, <2>1
<1> QED BY <1>1, <1>8, <1>11 DEF most, Factor

\* How often layer i of a call may start again, and what every call of the
\* layers below it may send.
May(c, i) == Again(stack[i], Budget(req[c]))
Below(c, i) == MostSends(stack, Budget(req[c]))[Len(stack) - i]

\* e is an allowance per layer, the last one that of the base service.
Allowed(c, e) ==
    /\ e \in [1..(Len(stack) + 1) -> Int]
    /\ e[1] = Below(c, 0)
    /\ \A i \in Live(c) :
           /\ frame[c][i].count <= May(c, i)
           /\ e[i + 1] + (May(c, i) - frame[c][i].count) * Below(c, i) <= e[i]
    /\ \A j \in Live(c) : \A i \in 1..j : e[j + 1] <= e[i]
    /\ pc[c] = "down" => sends[c] + Below(c, at[c] - 1) <= e[at[c]]
    /\ pc[c] = "sent" => sends[c] <= e[at[c]]
    /\ pc[c] = "up" => sends[c] <= e[at[c] + 1]
    /\ pc[c] = "sleeping" => sends[c] + Below(c, at[c]) <= e[at[c] + 1]
    /\ pc[c] = "returned" => at[c] = 0 /\ sends[c] <= e[1]

AllowanceInv == \A c \in Calls : \E e : Allowed(c, e)

LEMMA BelowFacts ==
    ASSUME TypeOK, NEW c \in Calls
    PROVE  /\ \A i \in 0..Len(stack) : Below(c, i) \in Nat
           /\ Below(c, Len(stack)) = 1
           /\ \A i \in 1..Len(stack) :
                  /\ May(c, i) \in Nat
                  /\ Below(c, i - 1) = (1 + May(c, i)) * Below(c, i)
<1>1. stack \in Seq(Kinds) /\ Len(stack) \in Nat /\ Budget(req[c]) \in Nat
    BY ConstantsAssumption DEF TypeOK, Budget
<1> DEFINE most == MostSends(stack, Budget(req[c]))
           L == Len(stack)
<1>2. /\ most \in [0..L -> Nat] /\ most[0] = 1
      /\ \A n \in 1..L : most[n] =
             (1 + Again(stack[L - n + 1], Budget(req[c]))) * most[n - 1]
    BY <1>1, MostSendsFacts
<1> HIDE DEF most
<1>3. \A i \in 0..L : L - i \in 0..L /\ Below(c, i) = most[L - i]
    BY <1>1 DEF Below, most
<1>4. ASSUME NEW i \in 1..L
      PROVE  Below(c, i - 1) = (1 + May(c, i)) * Below(c, i)
  <2>1. /\ i \in 0..L /\ i - 1 \in 0..L /\ L - i + 1 \in 1..L
        /\ L - (i - 1) = L - i + 1 /\ L - (L - i + 1) + 1 = i /\ L - i + 1 - 1 = L - i
      BY <1>1
  <2>2. most[L - i + 1] = (1 + Again(stack[i], Budget(req[c]))) * most[L - i]
      BY <1>2, <2>1
  <2> QED BY <1>3, <2>1, <2>2 DEF May
<1>5. \A i \in 1..L : May(c, i) \in Nat
    BY <1>1, ConstantsAssumption DEF May, Again
<1>6. L - L = 0 /\ L \in 0..L
    BY <1>1
<1>7. \A i \in 0..L : Below(c, i) \in Nat
    BY <1>2, <1>3
<1>8. Below(c, L) = 1
    BY <1>2, <1>3, <1>6
<1> QED BY <1>4, <1>5, <1>7, <1>8

\* What was sent is within the allowance of every layer that is still waiting.
LEMMA SpentFacts ==
    ASSUME TypeOK, PlaceInv, NEW c \in Calls, NEW e, Allowed(c, e),
           NEW i \in 1..at[c]
    PROVE  sends[c] <= e[i]
<1>1. /\ Len(stack) \in Nat /\ at[c] \in 0..(Len(stack) + 1) /\ sends[c] \in Nat
      /\ at[c] \in 1..(Len(stack) + 1)
      /\ pc[c] \in {"down", "up", "sent", "sleeping", "returned"}
    BY StackFacts DEF TypeOK
<1>2. e \in [1..(Len(stack) + 1) -> Int] /\ e[i] \in Int /\ e[at[c]] \in Int
    BY <1>1 DEF Allowed
<1>3. \A j \in 1..at[c] : j < at[c] => j \in Live(c)
    BY <1>1 DEF Live
<1>4. e[at[c]] <= e[i]
  <2>1. CASE i = at[c]
      BY <1>2, <2>1
  <2>2. CASE i < at[c]
    <3>1. at[c] - 1 \in Live(c) /\ i \in 1..(at[c] - 1) /\ at[c] - 1 + 1 = at[c]
        BY <1>1, <1>3, <2>2
    <3> QED BY <3>1 DEF Allowed
  <2> QED BY <1>1, <2>1, <2>2
<1>5. CASE pc[c] = "down"
  <2>1. at[c] - 1 \in 0..Len(stack) /\ sends[c] + Below(c, at[c] - 1) <= e[at[c]]
      BY <1>1, <1>5 DEF Allowed
  <2>2. Below(c, at[c] - 1) \in Nat
      BY <2>1, BelowFacts
  <2> QED BY <1>1, <1>2, <1>4, <2>1, <2>2
<1>6. CASE pc[c] = "sent"
    BY <1>1, <1>2, <1>4, <1>6 DEF Allowed
<1>7. CASE pc[c] \in {"up", "sleeping"}
  <2>1. at[c] \in 1..Len(stack) /\ at[c] \in Live(c)
      BY <1>7 DEF PlaceInv, Live
  <2>2. e[at[c] + 1] <= e[i] /\ e[at[c] + 1] \in Int /\ Below(c, at[c]) \in Nat
    <3>1. e[at[c] + 1] <= e[i]
        BY <2>1 DEF Allowed
    <3>2. at[c] \in 0..Len(stack) /\ at[c] + 1 \in 1..(Len(stack) + 1)
        BY <1>1, <2>1
    <3>3. Below(c, at[c]) \in Nat
        BY <3>2, BelowFacts
    <3> QED BY <1>2, <3>1, <3>2, <3>3
  <2>3. sends[c] <= e[at[c] + 1]
    <3>1. CASE pc[c] = "up"
        BY <3>1 DEF Allowed
    <3>2. CASE pc[c] = "sleeping"
      <4>1. sends[c] + Below(c, at[c]) <= e[at[c] + 1]
          BY <3>2 DEF Allowed
      <4> QED BY <1>1, <2>2, <4>1
    <3> QED BY <1>7, <3>1, <3>2
  <2> QED BY <1>1, <1>2, <2>2, <2>3
<1>8. CASE pc[c] = "returned"
    BY <1>1, <1>8 DEF Allowed
<1> QED BY <1>1, <1>5, <1>6, <1>7, <1>8

\* What layers may still do only depends on the stack and on who may retry.
LEMMA BelowStays ==
    ASSUME NEW c \in Calls, stack' = stack, req'[c].retry = req[c].retry
    PROVE  /\ \A i : Below(c, i)' = Below(c, i)
           /\ \A i : May(c, i)' = May(c, i)
BY DEF Below, May, Budget

\* A call that does not move keeps its allowances.
LEMMA OtherAllowed ==
    ASSUME NEW d \in Calls, NEW e, Allowed(d, e), stack' = stack,
           pc'[d] = pc[d], at'[d] = at[d], frame'[d] = frame[d],
           req'[d].retry = req[d].retry, sends'[d] = sends[d]
    PROVE  Allowed(d, e)'
<1>1. Live(d)' = Live(d)
    BY DEF Live
<1>2. /\ \A i : Below(d, i)' = Below(d, i)
      /\ \A i : May(d, i)' = May(d, i)
    BY BelowStays
<1> QED BY <1>1, <1>2 DEF Allowed

\* A layer that returns leaves the allowances above it as they are.
LEMMA ReturnAllowed ==
    ASSUME TypeOK, PlaceInv, NEW c \in Calls, NEW e, Allowed(c, e),
           NEW i \in 1..(Len(stack) + 1), i <= at[c], NEW result \in Result,
           Return(c, i, result), sends' = sends
    PROVE  Allowed(c, e)'
<1>1. /\ stack' = stack /\ req' = req /\ frame' = frame
      /\ at'[c] = i - 1 /\ pc'[c] \in {"up", "returned"}
      /\ pc'[c] = "returned" => at'[c] = 0
    BY ReturnFacts
<1>2. /\ Len(stack) \in Nat /\ at[c] \in 0..(Len(stack) + 1) /\ 1 \in 1..at[c] /\ i \in 1..at[c]
    BY StackFacts DEF TypeOK
<1>3. sends[c] <= e[i] /\ sends[c] <= e[1]
    BY <1>2, SpentFacts
<1>4. Live(c)' \subseteq Live(c)
    BY <1>1, <1>2 DEF Live
<1>5. /\ \A j : Below(c, j)' = Below(c, j)
      /\ \A j : May(c, j)' = May(c, j)
    BY <1>1, BelowStays
<1>6. at'[c] + 1 = i
    BY <1>1
<1> QED BY <1>1, <1>3, <1>4, <1>5, <1>6 DEF Allowed

\* A layer that calls the next one, or plans to, hands an allowance x down.
LEMMA SpendAllowed ==
    ASSUME TypeOK, NEW c \in Calls, NEW e, Allowed(c, e),
           at[c] \in 1..Len(stack), pc[c] \in {"down", "up", "sleeping"},
           stack' = stack, req'[c].retry = req[c].retry, sends' = sends,
           \/ pc'[c] = "down" /\ at'[c] = at[c] + 1
           \/ pc'[c] = "sleeping" /\ at'[c] = at[c],
           \A i \in 1..Len(stack) : i # at[c] => frame'[c][i] = frame[c][i],
           NEW x \in Int, NEW n \in Nat, frame'[c][at[c]].count = n, n <= May(c, at[c]),
           x + (May(c, at[c]) - n) * Below(c, at[c]) <= e[at[c]],
           sends[c] + Below(c, at[c]) <= x
    PROVE  \E g : Allowed(c, g)'
<1>0. PICK g : g = [e EXCEPT ![at[c] + 1] = x]
    OBVIOUS
<1>1. Len(stack) \in Nat /\ e \in [1..(Len(stack) + 1) -> Int]
    BY StackFacts DEF TypeOK, Allowed
<1>2. /\ g \in [1..(Len(stack) + 1) -> Int] /\ g[at[c] + 1] = x
      /\ \A i \in 1..at[c] : g[i] = e[i]
    BY <1>0, <1>1
<1>3. /\ \A i : Below(c, i)' = Below(c, i)
      /\ \A i : May(c, i)' = May(c, i)
    BY BelowStays
<1>4. /\ Live(c)' = 1..at[c]
      /\ \A i \in 1..at[c] : i < at[c] => i \in Live(c)
    BY <1>1 DEF Live
<1>5. /\ May(c, at[c]) \in Nat /\ Below(c, at[c]) \in Nat
      /\ Below(c, 0)' = Below(c, 0)
    BY <1>1, <1>3, BelowFacts
<1>6. x <= e[at[c]]
  <2>1. \A m, b \in Nat : m - n >= 0 => (m - n) * b >= 0
      OBVIOUS
  <2>2. (May(c, at[c]) - n) * Below(c, at[c]) >= 0
      BY <1>5, <2>1
  <2>3. e[at[c]] \in Int /\ (May(c, at[c]) - n) * Below(c, at[c]) \in Int
      BY <1>1, <1>5
  <2> QED BY <2>2, <2>3
<1>7. ASSUME NEW i \in Live(c)'
      PROVE  /\ frame'[c][i].count <= May(c, i)
             /\ g[i + 1] + (May(c, i) - frame'[c][i].count) * Below(c, i) <= g[i]
  <2>1. CASE i = at[c]
      BY <1>2, <2>1
  <2>2. CASE i # at[c]
    <3>1. i \in Live(c) /\ i \in 1..at[c] /\ i + 1 \in 1..at[c] /\ frame'[c][i] = frame[c][i]
        BY <1>1, <1>4, <2>2
    <3> QED BY <1>2, <3>1 DEF Allowed
  <2> QED BY <2>1, <2>2
<1>8. ASSUME NEW j \in Live(c)', NEW i \in 1..j
      PROVE  g[j + 1] <= g[i]
  <2>1. j \in 1..at[c]
      BY <1>4
  <2>2. i \in 1..at[c] /\ i \in 1..(Len(stack) + 1) /\ at[c] \in 1..(Len(stack) + 1)
      BY <1>1, <2>1
  <2>3. g[i] = e[i] /\ e[i] \in Int /\ e[at[c]] \in Int
      BY <1>1, <1>2, <2>2
  <2>4. CASE j # at[c]
    <3>1. j \in Live(c) /\ j + 1 \in 1..at[c]
        BY <1>1, <1>4, <2>1, <2>4
    <3> QED BY <1>2, <2>2, <2>3, <3>1 DEF Allowed
  <2>5. CASE j = at[c] /\ i = at[c]
      BY <1>2, <1>6, <2>3, <2>5
  <2>6. CASE j = at[c] /\ i < at[c]
    <3>1. at[c] - 1 \in Live(c) /\ i \in 1..(at[c] - 1) /\ at[c] - 1 + 1 = at[c]
        BY <1>1, <1>4, <2>2, <2>6
    <3>2. e[at[c]] <= e[i]
        BY <3>1 DEF Allowed
    <3> QED BY <1>2, <1>6, <2>3, <2>6, <3>2
  <2> QED BY <1>1, <2>1, <2>2, <2>4, <2>5, <2>6
<1>9. g[1] = e[1] /\ e[1] = Below(c, 0)
    BY <1>2 DEF Allowed
<1>10. /\ pc'[c] = "down" => sends'[c] + Below(c, at'[c] - 1) <= g[at'[c]]
       /\ pc'[c] = "sleeping" => sends'[c] + Below(c, at'[c]) <= g[at'[c] + 1]
  <2>1. at[c] + 1 - 1 = at[c]
      OBVIOUS
  <2> QED BY <1>2, <2>1
<1>11. pc'[c] \notin {"sent", "up", "returned"}
    OBVIOUS
<1>12. /\ g \in [1..(Len(stack') + 1) -> Int]
       /\ g[1] = Below(c, 0)'
    BY <1>2, <1>5, <1>9
<1>13. \A i \in Live(c)' :
           /\ frame'[c][i].count <= May(c, i)'
           /\ g[i + 1] + (May(c, i)' - frame'[c][i].count) * Below(c, i)' <= g[i]
    BY <1>3, <1>7
<1>14. /\ pc'[c] = "down" => sends'[c] + Below(c, at[c] - 1)' <= g[at'[c]]
       /\ pc'[c] = "sleeping" => sends'[c] + Below(c, at[c])' <= g[at'[c] + 1]
  <2>1. /\ Below(c, at[c] - 1)' = Below(c, at'[c] - 1)
        /\ Below(c, at[c])' = Below(c, at'[c])
      BY DEF Below, Budget
  <2> QED BY <1>10, <2>1
<1>15. Allowed(c, g)'
    BY <1>8, <1>11, <1>12, <1>13, <1>14 DEF Allowed
<1> QED BY <1>15

\* The request goes out, as the last layer was allowed to.
LEMMA SendAllowed ==
    ASSUME TypeOK, PlaceInv, NEW c \in Calls, NEW e, Allowed(c, e), Send(c)
    PROVE  Allowed(c, e)'
<1>1. /\ pc[c] = "down" /\ at[c] = Len(stack) + 1 /\ pc'[c] = "sent" /\ sends'[c] = sends[c] + 1
      /\ stack' = stack /\ at' = at /\ req' = req /\ frame' = frame
    BY BaseFacts DEF Send, Entered, TypeOK
<1>2. /\ Len(stack) \in Nat /\ at[c] - 1 = Len(stack)
    BY <1>1, StackFacts DEF TypeOK
<1>3. Live(c)' = Live(c)
    BY <1>1 DEF Live
<1>4. /\ \A j : Below(c, j)' = Below(c, j)
      /\ \A j : May(c, j)' = May(c, j)
    BY <1>1, BelowStays
<1>5. sends'[c] <= e[at[c]]
    BY <1>1, <1>2, BelowFacts DEF Allowed
<1> QED BY <1>1, <1>3, <1>4, <1>5 DEF Allowed

\* A layer that is called may call the next one as often as its kind allows.
LEMMA EnterAllowed ==
    ASSUME TypeOK, PlaceInv, NEW c \in Calls, NEW e, Allowed(c, e),
           EnterLayer(c) \/ AttachCookies(c)
    PROVE  \E g : Allowed(c, g)'
<1> DEFINE i == at[c]
           x == e[i] - May(c, i) * Below(c, i)
<1>1. /\ pc[c] = "down" /\ i \in 1..Len(stack) /\ sends' = sends
      /\ \E r \in Request : Await(c, r, Slot(req[c], 0)) /\ r.retry = req[c].retry
  <2>1. req[c] \in Request /\ Len(stack) \in Nat /\ Layer(c) \in Kinds /\ pc[c] = "down"
        /\ sends' = sends
      BY StackFacts DEF TypeOK, EnterLayer, AttachCookies, Entered, Kinds, history
  <2>2. CASE EnterLayer(c)
      BY <2>1, <2>2, LayerFacts DEF EnterLayer
  <2>3. CASE AttachCookies(c)
    <3> DEFINE stored == jar[req[c].to.peer]
               r == [req[c] EXCEPT !.cookies = IF stored = {} THEN @ ELSE stored]
    <3>1. Await(c, r, Slot(req[c], 0)) /\ req[c].to.peer \in Peers
        BY <2>1, <2>3 DEF AttachCookies, Request, Uris, Absolute
    <3>2. stored \in SUBSET Cookies
        BY <3>1 DEF TypeOK
    <3>3. r \in Request /\ r.retry = req[c].retry
        BY <2>1, <3>2 DEF Request
    <3> HIDE DEF r
    <3> QED BY <2>1, <3>1, <3>3, LayerFacts
  <2> QED BY <2>2, <2>3
<1>2. PICK r \in Request : Await(c, r, Slot(req[c], 0)) /\ r.retry = req[c].retry
    BY <1>1
<1>3. Slot(req[c], 0) \in Frames /\ Slot(req[c], 0).count = 0
    BY SlotFacts DEF TypeOK
<1>4. /\ stack' = stack /\ pc'[c] = "down" /\ at'[c] = i + 1 /\ req'[c] = r
      /\ frame'[c][i] = Slot(req[c], 0)
      /\ \A j \in 1..Len(stack) : j # i => frame'[c][j] = frame[c][j]
    BY <1>1, <1>2, <1>3, AwaitFacts
<1>5. /\ Len(stack) \in Nat /\ May(c, i) \in Nat /\ Below(c, i) \in Nat
      /\ Below(c, i - 1) = (1 + May(c, i)) * Below(c, i)
      /\ e[i] \in Int /\ sends[c] \in Nat
  <2>1. Len(stack) \in Nat /\ i \in 0..Len(stack) /\ sends[c] \in Nat
      BY <1>1, StackFacts DEF TypeOK
  <2>2. e[i] \in Int
      BY <1>1, <2>1 DEF Allowed
  <2> HIDE DEF i
  <2> QED BY <1>1, <2>1, <2>2, BelowFacts
<1>6. sends[c] + Below(c, i - 1) <= e[i]
    BY <1>1 DEF Allowed
<1>7. \A m, b, s, t \in Int : s + (1 + m) * b <= t =>
          s + b <= t - m * b /\ t - m * b + (m - 0) * b <= t /\ t - m * b \in Int
    OBVIOUS
<1>8. x \in Int /\ x + (May(c, i) - 0) * Below(c, i) <= e[i] /\ sends[c] + Below(c, i) <= x
    BY <1>5, <1>6, <1>7
<1> DEFINE n == 0
<1>9. /\ n \in Nat /\ frame'[c][i].count = n /\ n <= May(c, i)
      /\ x + (May(c, i) - n) * Below(c, i) <= e[i]
    BY <1>3, <1>4, <1>5, <1>8
<1> HIDE DEF x, n
<1> QED BY <1>1, <1>2, <1>4, <1>8, <1>9, SpendAllowed

\* One that calls it again has one call less to spend.
LEMMA FollowAllowed ==
    ASSUME TypeOK, PlaceInv, HopInv, NEW c \in Calls, NEW e, Allowed(c, e), Follow(c)
    PROVE  \E g : Allowed(c, g)'
<1> DEFINE i == at[c]
           next == Redirected(Own(c).req, res[c])
           n == Own(c).count + 1
           x == e[i + 1] + Below(c, i)
<1>1. /\ pc[c] = "up" /\ i \in 1..Len(stack) /\ stack[i] = "redirect" /\ sends' = sends
      /\ n <= MaxRedirects /\ Await(c, next, Slot(next, n))
      /\ Resolve(Own(c).req.to, res[c].location) # Invalid
    BY LayerFacts DEF Follow, Target, Resumed, Kinds
<1>2. /\ Own(c) = frame[c][i] /\ Own(c).req \in Request /\ Own(c).count \in Nat
      /\ n \in Nat /\ res[c] \in Result /\ Own(c).req.retry = req[c].retry
  <2>1. Own(c) = frame[c][i] /\ Own(c).req \in Request /\ Own(c).count \in Nat
      BY <1>1, OwnFacts
  <2>2. frame[c][i].req.retry = req[c].retry
      BY <1>1 DEF HopInv, HopCall, LimitCall
  <2>3. res[c] \in Result
      BY DEF TypeOK
  <2> QED BY <2>1, <2>2, <2>3
<1>3. next \in Request /\ next.retry = req[c].retry
    BY <1>1, <1>2, RedirectedFacts
<1> HIDE DEF next, n
<1>4. Slot(next, n) \in Frames /\ Slot(next, n).count = n
    BY <1>2, <1>3, SlotFacts
<1>5. /\ stack' = stack /\ pc'[c] = "down" /\ at'[c] = i + 1 /\ req'[c] = next
      /\ frame'[c][i] = Slot(next, n)
      /\ \A j \in 1..Len(stack) : j # i => frame'[c][j] = frame[c][j]
    BY <1>1, <1>3, <1>4, AwaitFacts
<1>6. /\ May(c, i) = MaxRedirects /\ May(c, i) \in Nat /\ Below(c, i) \in Nat
      /\ e[i] \in Int /\ e[i + 1] \in Int /\ sends[c] \in Nat
  <2>1. Len(stack) \in Nat /\ i \in 0..Len(stack) /\ sends[c] \in Nat
      BY <1>1, StackFacts DEF TypeOK
  <2>2. e[i] \in Int /\ e[i + 1] \in Int
      BY <1>1, <2>1 DEF Allowed
  <2>3. May(c, i) = MaxRedirects
      BY <1>1 DEF May, Again
  <2> HIDE DEF i
  <2> QED BY <1>1, <2>1, <2>2, <2>3, BelowFacts
<1>7. /\ sends[c] <= e[i + 1]
      /\ e[i + 1] + (May(c, i) - Own(c).count) * Below(c, i) <= e[i]
  <2>1. i \in Live(c)
      BY <1>1 DEF Live
  <2> QED BY <1>1, <1>2, <2>1 DEF Allowed
<1>8. \A k, m, b, s, t, u \in Int : s <= t /\ t + (m - k) * b <= u =>
          s + b <= t + b /\ t + b + (m - (k + 1)) * b <= u /\ t + b \in Int
    OBVIOUS
<1>9. x \in Int /\ x + (May(c, i) - n) * Below(c, i) <= e[i] /\ sends[c] + Below(c, i) <= x
    BY <1>2, <1>6, <1>7, <1>8 DEF n
<1> HIDE DEF x
<1> QED BY <1>1, <1>2, <1>3, <1>4, <1>5, <1>6, <1>9, SpendAllowed

\* So has one that will.
LEMMA PlanAllowed ==
    ASSUME TypeOK, PlaceInv, HopInv, NEW c \in Calls, NEW e, Allowed(c, e), PlanRetry(c)
    PROVE  \E g : Allowed(c, g)'
<1> DEFINE i == at[c]
           n == Own(c).count + 1
           x == e[i + 1] + Below(c, i)
<1>1. /\ pc[c] = "up" /\ i \in 1..Len(stack) /\ stack[i] = "retry" /\ sends' = sends
      /\ n <= Budget(Own(c).req)
      /\ stack' = stack /\ req' = req /\ pc'[c] = "sleeping" /\ at'[c] = i
      /\ \A j \in 1..Len(stack) : j # i => frame'[c][j] = frame[c][j]
    BY LayerFacts, PlanFacts DEF PlanRetry, Resumed, Kinds, history
<1>2. /\ Own(c) = frame[c][i] /\ Own(c).req \in Request /\ Own(c).count \in Nat
      /\ n \in Nat /\ Own(c).req.retry = req[c].retry
    BY <1>1, OwnFacts DEF HopInv, HopCall, LimitCall
<1>3. frame'[c][i].count = n
    BY <1>1, <1>2 DEF PlanRetry, TypeOK
<1> HIDE DEF n
<1>4. /\ May(c, i) = Budget(Own(c).req) /\ May(c, i) \in Nat /\ Below(c, i) \in Nat
      /\ e[i] \in Int /\ e[i + 1] \in Int /\ sends[c] \in Nat
  <2>1. Len(stack) \in Nat /\ i \in 0..Len(stack) /\ sends[c] \in Nat
      BY <1>1, StackFacts DEF TypeOK
  <2>2. e[i] \in Int /\ e[i + 1] \in Int
      BY <1>1, <2>1 DEF Allowed
  <2>3. May(c, i) = Budget(Own(c).req)
      BY <1>1, <1>2 DEF May, Again, Budget
  <2> HIDE DEF i
  <2> QED BY <1>1, <2>1, <2>2, <2>3, BelowFacts
<1>5. /\ sends[c] <= e[i + 1]
      /\ e[i + 1] + (May(c, i) - Own(c).count) * Below(c, i) <= e[i]
  <2>1. i \in Live(c)
      BY <1>1 DEF Live
  <2> QED BY <1>1, <1>2, <2>1 DEF Allowed
<1>6. \A k, m, b, s, t, u \in Int : s <= t /\ t + (m - k) * b <= u =>
          s + b <= t + b /\ t + b + (m - (k + 1)) * b <= u /\ t + b \in Int
    OBVIOUS
<1>7. x \in Int /\ x + (May(c, i) - n) * Below(c, i) <= e[i] /\ sends[c] + Below(c, i) <= x
    BY <1>2, <1>4, <1>5, <1>6 DEF n
<1> HIDE DEF x
<1> QED BY <1>1, <1>2, <1>3, <1>4, <1>7, SpendAllowed

\* The retry it planned was paid for.
LEMMA RetryAllowed ==
    ASSUME TypeOK, PlaceInv, HopInv, NEW c \in Calls, NEW e, Allowed(c, e), Retry(c)
    PROVE  \E g : Allowed(c, g)'
<1> DEFINE i == at[c]
<1>1. /\ pc[c] = "sleeping" /\ i \in 1..Len(stack) /\ sends' = sends
      /\ Await(c, Own(c).req, Own(c))
    BY DEF Retry, PlaceInv, history
<1>2. /\ Own(c) = frame[c][i] /\ Own(c) \in Frames /\ Own(c).req \in Request
      /\ Own(c).count \in Nat /\ Own(c).req.retry = req[c].retry
    BY <1>1, OwnFacts DEF HopInv, HopCall, LimitCall
<1>3. /\ stack' = stack /\ pc'[c] = "down" /\ at'[c] = i + 1 /\ req'[c] = Own(c).req
      /\ frame'[c][i] = Own(c)
      /\ \A j \in 1..Len(stack) : j # i => frame'[c][j] = frame[c][j]
    BY <1>1, <1>2, AwaitFacts
<1>4. i \in Live(c) /\ e[i + 1] \in Int
    BY <1>1, StackFacts DEF Live, Allowed
<1>5. /\ Own(c).count <= May(c, i) /\ sends[c] + Below(c, i) <= e[i + 1]
      /\ e[i + 1] + (May(c, i) - Own(c).count) * Below(c, i) <= e[i]
    BY <1>1, <1>2, <1>4 DEF Allowed
<1> QED BY <1>1, <1>2, <1>3, <1>4, <1>5, SpendAllowed

\* The other calls keep their allowances, whatever one call does.
LEMMA StepAllowed ==
    ASSUME IInv, HopInv, AllowanceInv, [Next]_vars
    PROVE  AllowanceInv'
<1>0. TypeOK /\ PlaceInv /\ Len(stack) \in Nat
    BY StackFacts DEF IInv
<1>1. CASE UNCHANGED vars
  <2>1. /\ stack' = stack /\ pc' = pc /\ at' = at /\ req' = req /\ frame' = frame
        /\ sends' = sends
      BY <1>1 DEF vars, history
  <2> QED BY <2>1, OtherAllowed DEF AllowanceInv
<1>2. ASSUME NEW c \in Calls, NEW e, Allowed(c, e),
             \/ BadPeer(c) \/ Answer(c) \/ PassUp(c) \/ GiveUp(c) \/ RefuseRedirect(c)
             \/ \E i \in 1..Len(stack) : TimerFires(c, i)
      PROVE  Allowed(c, e)'
  <2>1. PICK i \in 1..at[c], result \in Result :
            i \in 1..(Len(stack) + 1) /\ Return(c, i, result) /\ UNCHANGED <<jar, history>>
      BY <1>0, <1>2, Returning
  <2>2. sends' = sends /\ i <= at[c]
      BY <1>0, <2>1 DEF history, TypeOK
  <2> QED BY <1>0, <1>2, <2>1, <2>2, ReturnAllowed
<1>3. ASSUME NEW c \in Calls, NEW e, Allowed(c, e), StoreCookies(c)
      PROVE  Allowed(c, e)'
  <2>1. /\ at[c] \in 1..(Len(stack) + 1) /\ at[c] <= at[c]
        /\ res[c] \in Result /\ Return(c, at[c], res[c]) /\ sends' = sends
      BY <1>0, <1>3, StoreFacts DEF history
  <2> QED BY <1>0, <1>3, <2>1, ReturnAllowed
<1>4. ASSUME NEW c \in Calls,
             \A d \in Calls : d # c =>
                 /\ stack' = stack /\ pc'[d] = pc[d] /\ at'[d] = at[d] /\ frame'[d] = frame[d]
                 /\ req'[d].retry = req[d].retry /\ sends'[d] = sends[d],
             \A e : Allowed(c, e) => \E g : Allowed(c, g)'
      PROVE  AllowanceInv'
  <2> SUFFICES ASSUME NEW d \in Calls PROVE \E g : Allowed(d, g)'
      BY DEF AllowanceInv
  <2>1. PICK e : Allowed(d, e)
      BY DEF AllowanceInv
  <2>2. CASE d = c
      BY <1>4, <2>1, <2>2
  <2>3. CASE d # c
      BY <1>4, <2>1, <2>3, OtherAllowed
  <2> QED BY <2>2, <2>3
<1>5. ASSUME NEW c \in Calls,
             \/ \/ BadPeer(c) \/ Answer(c) \/ PassUp(c) \/ GiveUp(c) \/ RefuseRedirect(c)
                \/ \E i \in 1..Len(stack) : TimerFires(c, i)
             \/ StoreCookies(c)
             \/ EnterLayer(c) \/ AttachCookies(c)
             \/ Retry(c) \/ Follow(c)
             \/ Send(c)
             \/ PlanRetry(c)
      PROVE  AllowanceInv'
  <2>1. \A d \in Calls : d # c =>
            /\ stack' = stack /\ pc'[d] = pc[d] /\ at'[d] = at[d] /\ frame'[d] = frame[d]
            /\ req'[d].retry = req[d].retry /\ sends'[d] = sends[d]
      BY <1>0, <1>5, OthersStay
  <2>2. \A e : Allowed(c, e) => \E g : Allowed(c, g)'
      BY <1>0, <1>2, <1>3, <1>5, EnterAllowed, FollowAllowed, RetryAllowed, SendAllowed, PlanAllowed
  <2> QED BY <1>4, <2>1, <2>2
<1> QED BY <1>1, <1>5, NextSteps

\* Every call keeps within the allowances of its layers.
THEOREM AllowancesInvariance == Spec => []AllowanceInv
<1>1. Init => AllowanceInv
  <2> SUFFICES ASSUME Init, NEW c \in Calls PROVE \E e : Allowed(c, e)
      BY DEF AllowanceInv
  <2>1. /\ TypeOK /\ Len(stack) \in Nat
        /\ pc[c] = "down" /\ at[c] = 1 /\ sends[c] = 0
      BY InitIInv, StackFacts DEF IInv, Init
  <2>2. Below(c, 0) \in Nat
      BY <2>1, BelowFacts
  <2> DEFINE e == [i \in 1..(Len(stack) + 1) |-> Below(c, 0)]
  <2>3. Live(c) = {}
      BY <2>1 DEF Live
  <2>4. /\ e \in [1..(Len(stack) + 1) -> Int] /\ e[1] = Below(c, 0) /\ 1 - 1 = 0
      BY <2>1, <2>2
  <2> HIDE DEF e
  <2>5. Allowed(c, e)
      BY <2>1, <2>2, <2>3, <2>4 DEF Allowed
  <2> QED BY <2>5
<1>2. IInv /\ HopInv /\ AllowanceInv /\ [Next]_vars => AllowanceInv'
    BY StepAllowed
<1> QED BY <1>1, <1>2, BodyInvariance, HopsInvariance, PTL DEF Spec

\* A call sends no more requests than the limits of its layers multiply up to,
\* in every stack.
THEOREM SendsAreBounded == Spec => []SendsBounded
<1>1. IInv /\ AllowanceInv => SendsBounded
  <2> SUFFICES ASSUME IInv, AllowanceInv, NEW c \in Calls
               PROVE  sends[c] <= Below(c, 0)
    <3>1. Len(stack) - 0 = Len(stack)
        BY StackFacts DEF IInv
    <3> QED BY <3>1 DEF SendsBounded, Below
  <2>1. TypeOK /\ PlaceInv /\ Len(stack) \in Nat
      BY StackFacts DEF IInv
  <2>2. PICK e : Allowed(c, e)
      BY DEF AllowanceInv
  <2>3. e[1] = Below(c, 0) /\ (pc[c] = "returned" => sends[c] <= e[1])
      BY <2>2 DEF Allowed
  <2>4. pc[c] # "returned" => 1 \in 1..at[c]
      BY <2>1 DEF TypeOK, PlaceInv
  <2> QED BY <2>1, <2>2, <2>3, <2>4, SpentFacts
<1> QED BY <1>1, BodyInvariance, AllowancesInvariance, PTL

=============================================================================
