----------------------- MODULE ConnectionManagerProofs -----------------------
(***************************************************************************)
(* Proofs of the safety properties of ConnectionManager, for any number of *)
(* calls and peers.                                                        *)
(*                                                                         *)
(* Everything rests on IInv, and IInv on EvictionInv: an entry is in the   *)
(* cache for exactly as long as somebody still has to evict it.  TypeOK is *)
(* not inductive alone: that a call past its start has a peer in Peers is  *)
(* part of CallInv.                                                        *)
(***************************************************************************)
EXTENDS ConnectionManager, TLAPS

-----------------------------------------------------------------------------

\* The empty cache, no call started.
LEMMA InitIInv ==
    ASSUME Init
    PROVE  IInv
BY ConstantsAssumption
   DEF Init, IInv, TypeOK, CacheInv, CallInv, ConnectionInv, EvictionInv,
       Cached, EvictionDue, Pending, Futures

\* The steps of get_sender, among them the creator's eviction of its own entry.
LEMMA CallIInv ==
    ASSUME IInv, NEW c \in Calls,
           (\E p \in Peers : TryGetCachedSender(c, p)) \/ CallStep(c) \/ Cancel(c)
    PROVE  IInv'
<1> USE ConstantsAssumption
    DEF IInv, TypeOK, CacheInv, CallInv, ConnectionInv, EvictionInv,
              Cached, EvictionDue, Pending, Futures
<1>1. ASSUME NEW p \in Peers, TryGetCachedSender(c, p)
      PROVE  IInv'
    BY <1>1 DEF TryGetCachedSender, Goto
<1>2. CASE JoinExisting(c)
    BY <1>2 DEF JoinExisting, Goto
<1>3. CASE CreateConnection(c)
    BY <1>3 DEF CreateConnection, Goto
<1>4. CASE TakeSender(c)
    BY <1>4 DEF TakeSender, Awaits, Goto
<1>5. CASE SeeError(c)
    BY <1>5 DEF SeeError, Awaits, AfterError, Goto
<1>6. CASE WakeUp(c)
    BY <1>6 DEF WakeUp, Goto
<1>7. CASE EvictFailed(c)
    BY <1>7 DEF EvictFailed, Goto
<1>8. CASE Cancel(c)
    BY <1>8 DEF Cancel, Goto
<1> QED
    BY <1>1, <1>2, <1>3, <1>4, <1>5, <1>6, <1>7, <1>8 DEF CallStep

\* Progress of a connection future inside the poll of one of its awaiters.
LEMMA PollIInv ==
    ASSUME IInv, NEW c \in Calls, NEW f \in Futures, PollFuture(c, f)
    PROVE  IInv'
<1> USE ConstantsAssumption
    DEF IInv, TypeOK, CacheInv, CallInv, ConnectionInv, EvictionInv,
              Cached, EvictionDue, Pending, Futures
<1>1. CASE ConnectOk(c, f)
    BY <1>1 DEF ConnectOk, Awaits
<1>2. CASE ConnectErr(c, f)
    BY <1>2 DEF ConnectErr, Awaits, ResolveErr
<1>3. CASE H3SetupErr(c, f)
    BY <1>3 DEF H3SetupErr, Awaits, ResolveErr
<1>4. CASE H3SetupOk(c, f)
    BY <1>4 DEF H3SetupOk, Awaits
<1> QED
    BY <1>1, <1>2, <1>3, <1>4 DEF PollFuture

\* The loss of a connection, and the run_connection task that sees it.
LEMMA ConnectionIInv ==
    ASSUME IInv, NEW f \in Futures, ConnectionLost(f) \/ RunConnection(f)
    PROVE  IInv'
<1> USE ConstantsAssumption
    DEF IInv, TypeOK, CacheInv, CallInv, ConnectionInv, EvictionInv,
              Cached, EvictionDue, Pending, Futures
<1>1. CASE ConnectionLost(f)
    BY <1>1 DEF ConnectionLost
<1>2. CASE EvictClosed(f)
    BY <1>2 DEF EvictClosed
<1>3. CASE AnnounceDisconnect(f)
    BY <1>3 DEF AnnounceDisconnect
<1> QED
    BY <1>1, <1>2, <1>3 DEF RunConnection

\* IInv is inductive.
LEMMA StepIInv ==
    ASSUME IInv, [Next]_vars
    PROVE  IInv'
<1>1. CASE UNCHANGED vars
    BY <1>1 DEF vars, IInv, TypeOK, CacheInv, CallInv, ConnectionInv, EvictionInv,
                Cached, EvictionDue, Pending, Futures
<1>2. CASE Next
    BY <1>2, CallIInv, PollIInv, ConnectionIInv DEF Next
<1> QED BY <1>1, <1>2

\* Every reachable state satisfies the invariant of the sender cache: an entry
\* stays in place as long as somebody has still to evict it.
THEOREM CacheInvariance == Spec => []IInv
<1>1. Init => IInv
    BY InitIInv
<1>2. IInv /\ [Next]_vars => IInv'
    BY StepIInv
<1> QED BY <1>1, <1>2, PTL DEF Spec

\* Every variable stays in its type.
THEOREM TypeCorrectness == Spec => []TypeOK
<1>1. IInv => TypeOK
    BY DEF IInv
<1> QED BY <1>1, CacheInvariance, PTL

-----------------------------------------------------------------------------
(* What the invariant is for. *)

\* A connection that is being set up, or is open, is the cached one.
LEMMA LinkedIsCached ==
    ASSUME IInv, NEW f \in Futures, Linked(f)
    PROVE  Cached(f)
BY DEF IInv, TypeOK, ConnectionInv, EvictionInv, EvictionDue, Linked, Pending, Futures

\* At most one connection to a peer exists or is being set up: connection reuse.
THEOREM ConnectionReuse == Spec => []OneLinkPerPeer
<1>1. IInv => OneLinkPerPeer
    BY LinkedIsCached DEF OneLinkPerPeer, Cached
<1> QED BY <1>1, CacheInvariance, PTL

\* The cache never lets go of the handle of an open connection.
THEOREM OpenConnectionsStayCached == Spec => []OpenIsCached
<1>1. IInv => OpenIsCached
    BY LinkedIsCached DEF OpenIsCached, Linked
<1> QED BY <1>1, CacheInvariance, PTL

-----------------------------------------------------------------------------
(* What a step may never do. *)

\* The only steps that touch the cache: an insertion into a vacant entry, the
\* creator's eviction of its failed future, and the eviction of a closed
\* connection.
LEMMA CacheSteps ==
    ASSUME [Next]_vars, sender_cache' # sender_cache
    PROVE  \/ \E c \in Calls : CreateConnection(c) \/ EvictFailed(c)
           \/ \E f \in Futures : EvictClosed(f)
<1>1. ASSUME NEW c \in Calls, NEW p \in Peers
      PROVE  ~TryGetCachedSender(c, p)
    BY DEF TryGetCachedSender
<1>2. ASSUME NEW c \in Calls
      PROVE  ~(JoinExisting(c) \/ TakeSender(c) \/ SeeError(c) \/ WakeUp(c) \/ Cancel(c))
    BY DEF JoinExisting, TakeSender, SeeError, WakeUp, Cancel
<1>3. ASSUME NEW c \in Calls, NEW f \in Futures
      PROVE  ~PollFuture(c, f)
    BY DEF PollFuture, ConnectOk, ConnectErr, H3SetupErr, H3SetupOk, ResolveErr
<1>4. ASSUME NEW f \in Futures
      PROVE  ~(ConnectionLost(f) \/ AnnounceDisconnect(f))
    BY DEF ConnectionLost, AnnounceDisconnect
<1> QED BY <1>1, <1>2, <1>3, <1>4 DEF Next, CallStep, RunConnection, vars

\* Both evictions by key remove a failed future or a closed connection only.
THEOREM EvictionIsSafe == Spec => EvictsOnlyTheDead
<1> DEFINE Safe == \A p \in Peers :
        sender_cache'[p] # sender_cache[p] /\ sender_cache[p] # NoFuture =>
            /\ sender_cache'[p] = NoFuture
            /\ \/ future[sender_cache[p]] = "err"
               \/ future[sender_cache[p]] = "ok" /\ quic[sender_cache[p]] = "closed"
<1>1. IInv /\ [Next]_vars => [Safe]_vars
  <2> SUFFICES ASSUME IInv, [Next]_vars, sender_cache' # sender_cache
               PROVE  Safe
      BY DEF vars
  <2> USE DEF IInv, TypeOK, CallInv, ConnectionInv, EvictionInv, EvictionDue, Cached,
              Pending, Futures
  <2>1. ASSUME NEW c \in Calls, CreateConnection(c)
        PROVE  Safe
      BY <2>1 DEF CreateConnection
  <2>2. ASSUME NEW c \in Calls, EvictFailed(c)
        PROVE  Safe
      BY <2>2 DEF EvictFailed
  <2>3. ASSUME NEW f \in Futures, EvictClosed(f)
        PROVE  Safe
      BY <2>3 DEF EvictClosed
  <2> QED BY <2>1, <2>2, <2>3, CacheSteps
<1> QED BY <1>1, CacheInvariance, PTL DEF Spec, EvictsOnlyTheDead

\* No call clones a future whose connection has already been announced as closed.
THEOREM AnnouncedIsGone == Spec => NeverRejoinsAnnounced
<1> DEFINE Fresh == \A c \in Calls : shared'[c] # shared[c] => shared'[c] \notin disconnects
<1>1. IInv /\ [Next]_vars => [Fresh]_vars
  <2> SUFFICES ASSUME IInv, Next
               PROVE  Fresh
      BY DEF vars
  <2> USE ConstantsAssumption
      DEF IInv, TypeOK, CacheInv, CallInv, ConnectionInv, EvictionInv, Cached, Futures
  <2>1. ASSUME NEW c \in Calls, NEW p \in Peers, TryGetCachedSender(c, p)
        PROVE  Fresh
      BY <2>1 DEF TryGetCachedSender
  <2>2. ASSUME NEW c \in Calls, JoinExisting(c) \/ CreateConnection(c)
        PROVE  Fresh
      BY <2>2 DEF JoinExisting, CreateConnection
  <2>3. ASSUME NEW c \in Calls,
               TakeSender(c) \/ SeeError(c) \/ WakeUp(c) \/ EvictFailed(c) \/ Cancel(c)
        PROVE  Fresh
      BY <2>3 DEF TakeSender, SeeError, WakeUp, EvictFailed, Cancel
  <2>4. ASSUME NEW c \in Calls, NEW f \in Futures, PollFuture(c, f)
        PROVE  Fresh
      BY <2>4 DEF PollFuture, ConnectOk, ConnectErr, H3SetupErr, H3SetupOk, ResolveErr
  <2>5. ASSUME NEW f \in Futures, ConnectionLost(f) \/ RunConnection(f)
        PROVE  Fresh
      BY <2>5 DEF ConnectionLost, RunConnection, EvictClosed, AnnounceDisconnect
  <2> QED BY <2>1, <2>2, <2>3, <2>4, <2>5 DEF Next, CallStep
<1> QED BY <1>1, CacheInvariance, PTL DEF Spec, NeverRejoinsAnnounced

-----------------------------------------------------------------------------
(* Poisoned entries: what CallsReturnUnlessPoisoned leaves out. *)

\* Only the calls that may be dropped are.
DroppedInv == \A c \in Calls : pc[c] = "cancelled" => c \in Cancellable

\* A call that starts, moves on or is dropped is at one place; the others stay.
LEMMA StepDropped ==
    ASSUME IInv, DroppedInv, [Next]_vars
    PROVE  DroppedInv'
<1> USE DEF IInv, TypeOK, DroppedInv, Futures, Goto
<1>1. CASE UNCHANGED vars
    BY <1>1 DEF vars
<1>2. ASSUME NEW c \in Calls, NEW p \in Peers, TryGetCachedSender(c, p)
      PROVE  DroppedInv'
    BY <1>2 DEF TryGetCachedSender
<1>3. ASSUME NEW c \in Calls, CallStep(c)
      PROVE  DroppedInv'
    BY <1>3 DEF CallStep, JoinExisting, CreateConnection, TakeSender, SeeError, AfterError,
                Awaits, WakeUp, EvictFailed
<1>4. ASSUME NEW c \in Calls, Cancel(c)
      PROVE  DroppedInv'
    BY <1>4 DEF Cancel
<1>5. ASSUME NEW c \in Calls, NEW f \in Futures, PollFuture(c, f)
      PROVE  DroppedInv'
    BY <1>5 DEF PollFuture, ConnectOk, ConnectErr, H3SetupErr, H3SetupOk, ResolveErr
<1>6. ASSUME NEW f \in Futures, ConnectionLost(f) \/ RunConnection(f)
      PROVE  DroppedInv'
    BY <1>6 DEF ConnectionLost, RunConnection, EvictClosed, AnnounceDisconnect
<1> QED BY <1>1, <1>2, <1>3, <1>4, <1>5, <1>6 DEF Next

\* A link that is down has somebody who will forget it, or is poisoned by a
\* creator that was dropped.
DownHasEvictor == \A p \in Peers : LinkState(p) = "down" =>
    \/ EvictionDue(sender_cache[p])
    \/ Poisoned(p) /\ sender_cache[p] \in Cancellable

\* Whenever a failed future or a closed connection is in the cache, its creator
\* or its clean-up task has still to evict it, however many calls await it and
\* however many of those were dropped (lines 114-118, 161-163).  The one
\* exception is a failed future whose creator was dropped: without a timeout, a
\* select! or an aborted task above get_sender no link stays down unattended.
THEOREM DeadEntriesHaveEvictors == Spec => []DownHasEvictor
<1>1. Init => DroppedInv
    BY DEF Init, DroppedInv
<1>2. IInv /\ DroppedInv /\ [Next]_vars => DroppedInv'
    BY StepDropped
<1>3. IInv /\ DroppedInv => DownHasEvictor
  <2> SUFFICES ASSUME IInv, DroppedInv, NEW p \in Peers, LinkState(p) = "down"
               PROVE  \/ EvictionDue(sender_cache[p])
                      \/ Poisoned(p) /\ sender_cache[p] \in Cancellable
      BY DEF DownHasEvictor
  <2>1. PICK f \in Futures : f = sender_cache[p] /\ Cached(f)
      BY DEF LinkState, IInv, TypeOK, CacheInv, Cached
  <2>2. \/ future[f] = "err"
        \/ future[f] = "ok" /\ quic[f] # "open"
      BY <2>1 DEF LinkState, Pending, IInv, TypeOK, CacheInv
  <2>3. CASE future[f] = "ok"
    <3>1. task[f] = "waiting"
        BY <2>1, <2>3 DEF IInv, TypeOK, ConnectionInv, EvictionInv
    <3> QED BY <2>1, <3>1 DEF EvictionDue
  <2>4. CASE future[f] = "err"
    <3>1. pc[f] \in {"owner", "evicting", "cancelled"}
        BY <2>1, <2>4 DEF IInv, TypeOK, CallInv, EvictionInv, Futures
    <3>2. CASE pc[f] = "cancelled"
        BY <2>1, <2>4, <3>2 DEF Poisoned, DroppedInv, Futures
    <3> QED BY <2>1, <2>4, <3>1, <3>2 DEF EvictionDue
  <2> QED BY <2>2, <2>3, <2>4
<1> QED BY <1>1, <1>2, <1>3, CacheInvariance, PTL DEF Spec

\* Nobody has still to evict a poisoned entry, so nobody does.
LEMMA PoisonedForGood ==
    ASSUME IInv, [Next]_vars, NEW p \in Peers, Poisoned(p)
    PROVE  Poisoned(p)' /\ sender_cache'[p] = sender_cache[p]
<1>1. PICK f \in Futures : sender_cache[p] = f /\ future[f] = "err" /\ pc[f] = "cancelled"
    BY DEF Poisoned
<1> USE <1>1 DEF IInv, TypeOK, Futures, Goto
<1>2. sender_cache'[p] = f
  <2> USE DEF CallInv, EvictionInv, EvictionDue, Cached, ConnectionInv
  <2>1. ASSUME NEW c \in Calls, CreateConnection(c)
        PROVE  sender_cache'[p] = f
      BY <2>1, ConstantsAssumption DEF CreateConnection
  <2>2. ASSUME NEW c \in Calls, EvictFailed(c)
        PROVE  sender_cache'[p] = f
      BY <2>2 DEF EvictFailed
  <2>3. ASSUME NEW g \in Futures, EvictClosed(g)
        PROVE  sender_cache'[p] = f
      BY <2>3 DEF EvictClosed
  <2> QED BY <2>1, <2>2, <2>3, CacheSteps
<1>3. future'[f] = "err" /\ pc'[f] = "cancelled"
  <2>1. CASE UNCHANGED vars
      BY <2>1 DEF vars
  <2>2. ASSUME NEW c \in Calls, NEW q \in Peers, TryGetCachedSender(c, q)
        PROVE  future'[f] = "err" /\ pc'[f] = "cancelled"
      BY <2>2 DEF TryGetCachedSender
  <2>3. ASSUME NEW c \in Calls, CallStep(c) \/ Cancel(c)
        PROVE  future'[f] = "err" /\ pc'[f] = "cancelled"
      BY <2>3 DEF CallStep, Cancel, JoinExisting, CreateConnection, TakeSender, SeeError,
                  Awaits, WakeUp, EvictFailed
  <2>4. ASSUME NEW c \in Calls, NEW g \in Futures, PollFuture(c, g)
        PROVE  future'[f] = "err" /\ pc'[f] = "cancelled"
      BY <2>4 DEF PollFuture, ConnectOk, ConnectErr, H3SetupErr, H3SetupOk, ResolveErr, Awaits
  <2>5. ASSUME NEW g \in Futures, ConnectionLost(g) \/ RunConnection(g)
        PROVE  future'[f] = "err" /\ pc'[f] = "cancelled"
      BY <2>5 DEF ConnectionLost, RunConnection, EvictClosed, AnnounceDisconnect
  <2> QED BY <2>1, <2>2, <2>3, <2>4, <2>5 DEF Next
<1> QED BY <1>2, <1>3 DEF Poisoned

\* A call that waits for a poisoned entry, or is about to find it.
Stuck(c) ==
    /\ peer[c] \in Peers /\ Poisoned(peer[c])
    /\ \/ pc[c] \in {"setup", "sleeping"}
       \/ pc[c] \in {"cached", "joined"} /\ shared[c] = sender_cache[peer[c]]

\* A poisoned entry is never evicted, and whoever asks for its peer from then on
\* joins it, sees the old error, sleeps and joins it again (lines 94-113), for
\* any number of calls: such a call never returns, it can only be dropped.
\* cache_poisoned shows how an entry gets there.
THEOREM PoisonedPeersAreLost ==
    Spec => /\ [][\A p \in Peers : Poisoned(p) => Poisoned(p)']_vars
            /\ [][\A c \in Calls :
                    \/ Stuck(c)
                    \/ pc[c] = "start" /\ pc'[c] # "start" /\ Poisoned(peer'[c])
                  => Stuck(c)' \/ pc'[c] = "cancelled"]_vars
<1> DEFINE Stays == \A p \in Peers : Poisoned(p) => Poisoned(p)'
           Caught(c) == \/ Stuck(c)
                        \/ pc[c] = "start" /\ pc'[c] # "start" /\ Poisoned(peer'[c])
           Trapped == \A c \in Calls : Caught(c) => Stuck(c)' \/ pc'[c] = "cancelled"
<1>1. IInv /\ [Next]_vars => [Stays]_vars
    BY PoisonedForGood
<1>2. IInv /\ [Next]_vars => [Trapped]_vars
  <2> SUFFICES ASSUME IInv, Next, NEW c \in Calls, Caught(c), pc'[c] # "cancelled"
               PROVE  Stuck(c)'
      BY DEF vars
  <2> USE DEF IInv, TypeOK, Futures, Goto
  <2>1. CASE pc[c] = "start"
    <3>1. ASSUME NEW d \in Calls, NEW p \in Peers, TryGetCachedSender(d, p)
          PROVE  Stuck(c)'
        BY <2>1, <3>1, ConstantsAssumption DEF TryGetCachedSender, Stuck, Poisoned
    <3>2. ASSUME NEW d \in Calls, CallStep(d) \/ Cancel(d)
          PROVE  pc'[c] = "start"
        BY <2>1, <3>2 DEF CallStep, Cancel, JoinExisting, CreateConnection, TakeSender,
                          SeeError, Awaits, WakeUp, EvictFailed
    <3>3. ASSUME NEW d \in Calls, NEW g \in Futures, PollFuture(d, g)
          PROVE  pc'[c] = "start"
        BY <2>1, <3>3 DEF PollFuture, ConnectOk, ConnectErr, H3SetupErr, H3SetupOk,
                          ResolveErr, Awaits
    <3>4. ASSUME NEW g \in Futures, ConnectionLost(g) \/ RunConnection(g)
          PROVE  pc'[c] = "start"
        BY <2>1, <3>4 DEF ConnectionLost, RunConnection, EvictClosed, AnnounceDisconnect
    <3>5. pc'[c] # "start"
        BY <2>1 DEF Stuck
    <3> QED BY <3>1, <3>2, <3>3, <3>4, <3>5 DEF Next
  <2>2. CASE pc[c] # "start"
    <3>1. PICK p \in Peers, f \in Futures :
              /\ peer[c] = p /\ Poisoned(p) /\ sender_cache[p] = f /\ future[f] = "err"
              /\ \/ pc[c] \in {"setup", "sleeping"}
                 \/ pc[c] \in {"cached", "joined"} /\ shared[c] = f
        BY <2>2 DEF Stuck, Poisoned
    <3>2. Poisoned(p)' /\ sender_cache'[p] = f
        BY <3>1, PoisonedForGood
    <3> DEFINE Still == /\ peer'[c] = p
                        /\ \/ pc'[c] \in {"setup", "sleeping"}
                           \/ pc'[c] \in {"cached", "joined"} /\ shared'[c] = f
    <3>3. ASSUME NEW d \in Calls, NEW q \in Peers, TryGetCachedSender(d, q)
          PROVE  Still
        BY <2>2, <3>1, <3>3 DEF TryGetCachedSender
    <3>4. ASSUME NEW d \in Calls, JoinExisting(d) \/ CreateConnection(d)
          PROVE  Still
        BY <3>1, <3>4, ConstantsAssumption DEF JoinExisting, CreateConnection
    <3>5. ASSUME NEW d \in Calls, TakeSender(d) \/ SeeError(d)
          PROVE  Still
        BY <3>1, <3>5 DEF TakeSender, SeeError, AfterError, Awaits
    <3>6. ASSUME NEW d \in Calls, WakeUp(d) \/ EvictFailed(d) \/ Cancel(d)
          PROVE  Still
        BY <3>1, <3>6 DEF WakeUp, EvictFailed, Cancel
    <3>7. ASSUME NEW d \in Calls, NEW g \in Futures, PollFuture(d, g)
          PROVE  Still
        BY <3>1, <3>7
           DEF CallInv, PollFuture, ConnectOk, ConnectErr, H3SetupErr, H3SetupOk, ResolveErr,
               Awaits
    <3>8. ASSUME NEW g \in Futures, ConnectionLost(g) \/ RunConnection(g)
          PROVE  Still
        BY <3>1, <3>8 DEF ConnectionLost, RunConnection, EvictClosed, AnnounceDisconnect
    <3>9. Still
        BY <3>3, <3>4, <3>5, <3>6, <3>7, <3>8 DEF Next, CallStep
    <3> QED BY <3>1, <3>2, <3>9 DEF Stuck
  <2> QED BY <2>1, <2>2
<1> QED BY <1>1, <1>2, CacheInvariance, PTL DEF Spec

-----------------------------------------------------------------------------
(* The cache implements PeerLink. *)

\* The moves of a link; a step of the cache that makes one of them on a single
\* peer is a step of PeerLink.
MoveOf(p) ==
    \/ LinkState(p) = "absent"  /\ LinkState(p)' = "dialing"
    \/ LinkState(p) = "dialing" /\ LinkState(p)' = "up"
    \/ LinkState(p) = "dialing" /\ LinkState(p)' = "down"
    \/ LinkState(p) = "up"      /\ LinkState(p)' = "down"
    \/ LinkState(p) = "down"    /\ LinkState(p)' = "absent"

LinkKept(p) == LinkState(p)' = LinkState(p)

\* Exactly the link of p moves.
Moves(p) == p \in Peers /\ MoveOf(p) /\ \A q \in Peers \ {p} : LinkKept(q)

\* One peer's link makes a move, the others stay: a step of PeerLink.
LEMMA OneMove ==
    ASSUME NEW p, Moves(p)
    PROVE  Link!Next
<1>1. links' = [links EXCEPT ![p] = LinkState(p)']
    BY DEF links, LinkKept, Moves
<1>2. links[p] = LinkState(p) /\ p \in Peers
    BY DEF links, Moves
<1> QED
    BY <1>1, <1>2 DEF Moves, MoveOf, Link!Next, Link!Dial, Link!Answer, Link!Fail, Link!Lose,
                      Link!Forget, Link!Move

\* No peer's link moves: a stuttering step of PeerLink.
LEMMA NoMove ==
    ASSUME \A q \in Peers : LinkKept(q)
    PROVE  UNCHANGED links
BY DEF LinkKept, links

\* An insertion dials, and both evictions forget a link that is down.
LEMMA CacheMoves ==
    ASSUME IInv
    PROVE  /\ \A c \in Calls : CreateConnection(c) \/ EvictFailed(c) => Moves(peer[c])
           /\ \A f \in Futures : EvictClosed(f) => Moves(peer[f])
<1> USE ConstantsAssumption
    DEF IInv, TypeOK, CacheInv, CallInv, ConnectionInv, EvictionInv, EvictionDue, Cached,
        Pending, Futures, LinkState, LinkKept, MoveOf, Moves
<1>1. ASSUME NEW c \in Calls, CreateConnection(c)
      PROVE  Moves(peer[c])
    BY <1>1 DEF CreateConnection
<1>2. ASSUME NEW c \in Calls, EvictFailed(c)
      PROVE  Moves(peer[c])
    BY <1>2 DEF EvictFailed
<1>3. ASSUME NEW f \in Futures, EvictClosed(f)
      PROVE  Moves(peer[f])
    BY <1>3 DEF EvictClosed
<1> HIDE DEF Moves
<1> QED BY <1>1, <1>2, <1>3

\* A future that resolves takes its link from dialing to up or down.
LEMMA ResolutionMoves ==
    ASSUME IInv, NEW c \in Calls, NEW f \in Futures,
           ConnectErr(c, f) \/ H3SetupErr(c, f) \/ H3SetupOk(c, f)
    PROVE  Moves(peer[f])
<1> USE ConstantsAssumption
    DEF IInv, TypeOK, CacheInv, ConnectionInv, EvictionInv, Cached, Pending, Futures,
        LinkState, ResolveErr
<1>1. peer[f] \in Peers /\ MoveOf(peer[f])
    BY DEF ConnectErr, H3SetupErr, H3SetupOk, MoveOf
<1>2. ASSUME NEW q \in Peers \ {peer[f]}
      PROVE  LinkKept(q)
    BY <1>2 DEF ConnectErr, H3SetupErr, H3SetupOk, LinkKept
<1> QED BY <1>1, <1>2 DEF Moves

\* A connection that comes up is not a link yet.
LEMMA ConnectMovesNothing ==
    ASSUME IInv, NEW c \in Calls, NEW f \in Futures, ConnectOk(c, f)
    PROVE  \A q \in Peers : LinkKept(q)
BY DEF IInv, TypeOK, CacheInv, Pending, Futures, LinkState, LinkKept, ConnectOk

\* A loss takes the link down, unless h3 was still being set up.
LEMMA LossMoves ==
    ASSUME IInv, NEW f \in Futures, ConnectionLost(f)
    PROVE  Moves(peer[f]) \/ \A q \in Peers : LinkKept(q)
<1> USE DEF ConnectionLost
<1>1. peer[f] \in Peers /\ sender_cache[peer[f]] = f
    BY LinkedIsCached DEF Linked, Cached
<1>2. ASSUME NEW q \in Peers \ {peer[f]}
      PROVE  LinkKept(q)
    BY <1>2 DEF IInv, TypeOK, CacheInv, Pending, Futures, LinkState, LinkKept
<1>3. LinkKept(peer[f]) \/ MoveOf(peer[f])
    BY <1>1, ConstantsAssumption
       DEF IInv, TypeOK, ConnectionInv, Pending, Futures, LinkState, LinkKept, MoveOf
<1> QED BY <1>1, <1>2, <1>3 DEF Moves

\* Every step of the cache moves one link, or none.
LEMMA StepLink ==
    ASSUME IInv, [Next]_vars
    PROVE  (\E p \in Peers : Moves(p)) \/ \A q \in Peers : LinkKept(q)
<1>1. CASE UNCHANGED <<sender_cache, future, quic>>
    BY <1>1 DEF LinkKept, LinkState, Pending
<1>2. ASSUME NEW c \in Calls,
             \/ \E p \in Peers : TryGetCachedSender(c, p)
             \/ JoinExisting(c) \/ TakeSender(c) \/ SeeError(c) \/ WakeUp(c) \/ Cancel(c)
      PROVE  UNCHANGED <<sender_cache, future, quic>>
    BY <1>2 DEF TryGetCachedSender, JoinExisting, TakeSender, SeeError, WakeUp, Cancel
<1>3. ASSUME NEW f \in Futures, AnnounceDisconnect(f)
      PROVE  UNCHANGED <<sender_cache, future, quic>>
    BY <1>3 DEF AnnounceDisconnect
<1>4. \A p : Moves(p) => p \in Peers
    BY DEF Moves
<1> QED
    BY <1>1, <1>2, <1>3, <1>4, CacheMoves, ResolutionMoves, ConnectMovesNothing, LossMoves
       DEF Next, CallStep, PollFuture, RunConnection, vars

\* The sender cache, its shared futures and its evictions by key implement
\* PeerLink: one link per peer, forgotten only once it is down.
THEOREM Refinement == Spec => ImplementsPeerLink
<1>1. Init => Link!Init
    BY DEF Init, links, Link!Init, LinkState
<1>2. IInv /\ [Next]_vars => [Link!Next]_links
    BY StepLink, OneMove, NoMove
<1> QED BY <1>1, <1>2, CacheInvariance, PTL DEF Spec, ImplementsPeerLink, Link!Spec

=============================================================================
