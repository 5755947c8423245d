------------------------- MODULE ConnectionManager -------------------------
(***************************************************************************)
(* The sender cache of iroh-h3-client/src/connection_manager.rs.           *)
(*                                                                         *)
(* Every request calls get_sender(peer).  A call first awaits a future it  *)
(* finds in the cache (try_get_cached_sender), then enters the loop of     *)
(* coordinate_connection_setup, where it either joins the future of        *)
(* another call or inserts one of its own (create_connection).  Cached     *)
(* futures are `Shared`: each is polled by whichever calls await it, and   *)
(* makes no progress while nobody does.  A future that succeeds has        *)
(* spawned run_connection, which waits for the connection to close, evicts *)
(* the peer's cache entry BY KEY and then announces the disconnect.        *)
(*                                                                         *)
(* A call creates at most one future (line 115 returns), so a future and   *)
(* the QUIC connection it opens are named by the call that created them.   *)
(***************************************************************************)

CONSTANTS
    Calls,         \* invocations of get_sender
    Peers,         \* EndpointIds
    Cancellable,   \* calls whose future may be dropped at an await (a Timeout
                   \* middleware above, select!, an aborted task)
    NoFuture,      \* no cache entry, or a call that awaits nothing
    NoPeer         \* the peer of a call that has not started

ASSUME ConstantsAssumption ==
    /\ Cancellable \subseteq Calls
    /\ NoFuture \notin Calls
    /\ NoPeer \notin Peers

VARIABLES
    pc,            \* where each call is inside get_sender
    peer,          \* the peer_id argument of each call
    shared,        \* the future each call last cloned from the cache
    sender_cache,  \* DashMap<EndpointId, CachedSender>
    future,        \* the progress of the future each call created
    quic,          \* the QUIC connection that future opened
    task,          \* run_connection of that connection
    disconnects    \* connections whose close was sent on disconnect_tx

vars == <<pc, peer, shared, sender_cache, future, quic, task, disconnects>>

Futures == Calls

TypeOK ==
    /\ pc \in [Calls -> {"start", "cached", "setup", "joined", "sleeping", "owner",
                         "evicting", "sender", "failed", "cancelled"}]
    /\ peer \in [Calls -> Peers \cup {NoPeer}]
    /\ shared \in [Calls -> Futures \cup {NoFuture}]
    /\ sender_cache \in [Peers -> Futures \cup {NoFuture}]
    /\ future \in [Futures -> {"none", "connecting", "handshake", "ok", "err"}]
    /\ quic \in [Futures -> {"none", "open", "closed"}]
    /\ task \in [Futures -> {"none", "waiting", "evicted", "done"}]
    /\ disconnects \subseteq Futures

Init ==
    /\ pc = [c \in Calls |-> "start"]
    /\ peer = [c \in Calls |-> NoPeer]
    /\ shared = [c \in Calls |-> NoFuture]
    /\ sender_cache = [p \in Peers |-> NoFuture]
    /\ future = [f \in Futures |-> "none"]
    /\ quic = [f \in Futures |-> "none"]
    /\ task = [f \in Futures |-> "none"]
    /\ disconnects = {}

Pending(f) == future[f] \in {"connecting", "handshake"}

\* c is suspended at `shared.await`.
Awaits(c, f) == pc[c] \in {"cached", "joined", "owner"} /\ shared[c] = f

Goto(c, label) == pc' = [pc EXCEPT ![c] = label]

-----------------------------------------------------------------------------
(* The steps of get_sender. *)

\* try_get_cached_sender: clone the cached future, if there is one.
TryGetCachedSender(c, p) ==
    /\ pc[c] = "start"
    /\ peer' = [peer EXCEPT ![c] = p]
    /\ shared' = [shared EXCEPT ![c] = sender_cache[p]]
    /\ Goto(c, IF sender_cache[p] = NoFuture THEN "setup" ELSE "cached")
    /\ UNCHANGED <<sender_cache, future, quic, task, disconnects>>

\* Entry::Occupied: join the future that is there, whatever its state.
JoinExisting(c) ==
    /\ pc[c] = "setup"
    /\ sender_cache[peer[c]] # NoFuture
    /\ shared' = [shared EXCEPT ![c] = sender_cache[peer[c]]]
    /\ Goto(c, "joined")
    /\ UNCHANGED <<peer, sender_cache, future, quic, task, disconnects>>

\* Mutant: the vacancy is not checked again under the entry's lock.
CreateUnchecked(c) ==
    /\ pc[c] = "setup"
    /\ future' = [future EXCEPT ![c] = "connecting"]
    /\ sender_cache' = [sender_cache EXCEPT ![peer[c]] = c]
    /\ shared' = [shared EXCEPT ![c] = c]
    /\ Goto(c, "owner")
    /\ UNCHANGED <<peer, quic, task, disconnects>>

\* Entry::Vacant: create a future and insert it under the entry's lock.
CreateConnection(c) ==
    /\ pc[c] = "setup"
    /\ sender_cache[peer[c]] = NoFuture
    /\ future' = [future EXCEPT ![c] = "connecting"]
    /\ sender_cache' = [sender_cache EXCEPT ![peer[c]] = c]
    /\ shared' = [shared EXCEPT ![c] = c]
    /\ Goto(c, "owner")
    /\ UNCHANGED <<peer, quic, task, disconnects>>

\* shared.await returned Ok(sender): get_sender returns it.
TakeSender(c) ==
    /\ \E f \in Futures : Awaits(c, f) /\ future[f] = "ok"
    /\ Goto(c, "sender")
    /\ UNCHANGED <<peer, shared, sender_cache, future, quic, task, disconnects>>

\* shared.await returned Err: what follows depends on where the call awaited.
AfterError(label) ==
    CASE label = "cached" -> "setup"
      [] label = "joined" -> "sleeping"
      [] label = "owner"  -> "evicting"

\* Mutant: whoever sees the error removes the entry of its peer.
SeeErrorEvicts(c) ==
    /\ \E f \in Futures : Awaits(c, f) /\ future[f] = "err"
    /\ sender_cache' = [sender_cache EXCEPT ![peer[c]] = NoFuture]
    /\ Goto(c, AfterError(pc[c]))
    /\ UNCHANGED <<peer, shared, future, quic, task, disconnects>>


SeeError(c) ==
    /\ \E f \in Futures : Awaits(c, f) /\ future[f] = "err"
    /\ Goto(c, AfterError(pc[c]))
    /\ UNCHANGED <<peer, shared, sender_cache, future, quic, task, disconnects>>

\* Mutant: a joiner removes the entry it saw fail, after its sleep.
WakeUpEvicts(c) ==
    /\ pc[c] = "sleeping"
    /\ sender_cache' = [sender_cache EXCEPT ![peer[c]] = NoFuture]
    /\ Goto(c, "setup")
    /\ UNCHANGED <<peer, shared, future, quic, task, disconnects>>

\* time::sleep(1 ms) is over: back to the top of the loop.
WakeUp(c) ==
    /\ pc[c] = "sleeping"
    /\ Goto(c, "setup")
    /\ UNCHANGED <<peer, shared, sender_cache, future, quic, task, disconnects>>

\* Mutant: the error is returned and the failed future stays cached.
KeepFailed(c) ==
    /\ pc[c] = "evicting"
    /\ Goto(c, "failed")
    /\ UNCHANGED <<peer, shared, sender_cache, future, quic, task, disconnects>>

\* The creator removes the entry of its peer, by key, and returns the error.
EvictFailed(c) ==
    /\ pc[c] = "evicting"
    /\ sender_cache' = [sender_cache EXCEPT ![peer[c]] = NoFuture]
    /\ Goto(c, "failed")
    /\ UNCHANGED <<peer, shared, future, quic, task, disconnects>>

\* Mutant: a guard in the dropped call removes the entry of its peer.
CancelEvicts(c) ==
    /\ c \in Cancellable
    /\ pc[c] \in {"cached", "joined", "owner", "sleeping"}
    /\ sender_cache' = [sender_cache EXCEPT ![peer[c]] = NoFuture]
    /\ Goto(c, "cancelled")
    /\ UNCHANGED <<peer, shared, future, quic, task, disconnects>>

\* The caller drops the call's future while it is suspended.
Cancel(c) ==
    /\ c \in Cancellable
    /\ pc[c] \in {"cached", "joined", "owner", "sleeping"}
    /\ Goto(c, "cancelled")
    /\ UNCHANGED <<peer, shared, sender_cache, future, quic, task, disconnects>>

-----------------------------------------------------------------------------
(* The steps of a SenderFuture, taken inside the poll of a call that       *)
(* awaits it.  When the creator's own poll resolves the future with an     *)
(* error, that poll goes on to the eviction: nothing can cancel it there.  *)

ConnectOk(c, f) ==
    /\ Awaits(c, f)
    /\ future[f] = "connecting"
    /\ future' = [future EXCEPT ![f] = "handshake"]
    /\ quic' = [quic EXCEPT ![f] = "open"]
    /\ UNCHANGED <<pc, peer, shared, sender_cache, task, disconnects>>

ResolveErr(c, f) ==
    /\ future' = [future EXCEPT ![f] = "err"]
    /\ pc' = IF c = f THEN [pc EXCEPT ![c] = "evicting"] ELSE pc
    /\ UNCHANGED <<peer, shared, sender_cache, task, disconnects>>

ConnectErr(c, f) ==
    /\ Awaits(c, f)
    /\ future[f] = "connecting"
    /\ ResolveErr(c, f)
    /\ UNCHANGED quic

\* h3::client::new failed: the connection is dropped, which closes it.
H3SetupErr(c, f) ==
    /\ Awaits(c, f)
    /\ future[f] = "handshake"
    /\ ResolveErr(c, f)
    /\ quic' = [quic EXCEPT ![f] = "closed"]

\* h3::client::new succeeded: run_connection is spawned, the sender is ready.
H3SetupOk(c, f) ==
    /\ Awaits(c, f)
    /\ future[f] = "handshake"
    /\ future' = [future EXCEPT ![f] = "ok"]
    /\ task' = [task EXCEPT ![f] = "waiting"]
    /\ UNCHANGED <<pc, peer, shared, sender_cache, quic, disconnects>>

-----------------------------------------------------------------------------
(* The connection and its run_connection task. *)

\* The peer closes the connection, or it times out.
ConnectionLost(f) ==
    /\ quic[f] = "open"
    /\ quic' = [quic EXCEPT ![f] = "closed"]
    /\ UNCHANGED <<pc, peer, shared, sender_cache, future, task, disconnects>>

\* Mutant: the entry is removed without waiting for the connection to close.
EvictEarly(f) ==
    /\ task[f] = "waiting"
    /\ sender_cache' = [sender_cache EXCEPT ![peer[f]] = NoFuture]
    /\ task' = [task EXCEPT ![f] = "evicted"]
    /\ UNCHANGED <<pc, peer, shared, future, quic, disconnects>>

\* Mutant: the task leaves the closed connection in the cache.
KeepClosed(f) ==
    /\ task[f] = "waiting"
    /\ quic[f] = "closed"
    /\ task' = [task EXCEPT ![f] = "evicted"]
    /\ UNCHANGED <<pc, peer, shared, sender_cache, future, quic, disconnects>>

\* wait_idle returned: the task evicts whatever the peer's entry holds.
EvictClosed(f) ==
    /\ task[f] = "waiting"
    /\ quic[f] = "closed"
    /\ sender_cache' = [sender_cache EXCEPT ![peer[f]] = NoFuture]
    /\ task' = [task EXCEPT ![f] = "evicted"]
    /\ UNCHANGED <<pc, peer, shared, future, quic, disconnects>>

\* Mutant: nothing is sent once the peer has been dialled again.
AnnounceIfVacant(f) ==
    /\ task[f] = "evicted"
    /\ disconnects' = IF sender_cache[peer[f]] = NoFuture THEN disconnects \cup {f} ELSE disconnects
    /\ task' = [task EXCEPT ![f] = "done"]
    /\ UNCHANGED <<pc, peer, shared, sender_cache, future, quic>>


AnnounceDisconnect(f) ==
    /\ task[f] = "evicted"
    /\ disconnects' = disconnects \cup {f}
    /\ task' = [task EXCEPT ![f] = "done"]
    /\ UNCHANGED <<pc, peer, shared, sender_cache, future, quic>>

-----------------------------------------------------------------------------

CallStep(c) ==
    \/ JoinExisting(c) \/ CreateConnection(c)
    \/ TakeSender(c) \/ SeeError(c) \/ WakeUp(c) \/ EvictFailed(c)

PollFuture(c, f) ==
    ConnectOk(c, f) \/ ConnectErr(c, f) \/ H3SetupErr(c, f) \/ H3SetupOk(c, f)

RunConnection(f) == EvictClosed(f) \/ AnnounceDisconnect(f)

Next ==
    \/ \E c \in Calls, p \in Peers : TryGetCachedSender(c, p)
    \/ \E c \in Calls : CallStep(c) \/ Cancel(c)
    \/ \E c \in Calls, f \in Futures : PollFuture(c, f)
    \/ \E f \in Futures : ConnectionLost(f) \/ RunConnection(f)

Spec == Init /\ [][Next]_vars

(***************************************************************************)
(* The executor polls every woken task again, the 1 ms timer fires, an     *)
(* awaited connect or handshake ends one way or the other (iroh times it   *)
(* out), and a spawned task runs.  Nothing obliges a caller to start or to *)
(* cancel a call, nor a connection to be lost.                             *)
(***************************************************************************)
Fairness ==
    /\ \A c \in Calls : WF_vars(CallStep(c))
    /\ \A f \in Futures : WF_vars(\E c \in Calls : PollFuture(c, f))
    /\ \A f \in Futures : WF_vars(RunConnection(f))

FairSpec == Spec /\ Fairness

-----------------------------------------------------------------------------
(* Safety. *)

\* The owner of f, or the task of f, has still to evict f's entry.
EvictionDue(f) ==
    \/ future[f] = "err" /\ pc[f] \in {"owner", "evicting"}
    \/ task[f] = "waiting"

\* A connection to the peer is being set up, or is up.
Linked(f) == Pending(f) \/ quic[f] = "open"

Cached(f) == peer[f] \in Peers /\ sender_cache[peer[f]] = f

(***************************************************************************)
(* Both evictions remove BY KEY, long after the entry was inserted.  They  *)
(* are right because an entry stays in place exactly as long as somebody   *)
(* still has to evict it: this is the inductive invariant behind every     *)
(* safety property below.                                                  *)
(***************************************************************************)
CacheInv ==
    \A p \in Peers : sender_cache[p] # NoFuture =>
        /\ peer[sender_cache[p]] = p
        /\ future[sender_cache[p]] # "none"

CallInv ==
    \A c \in Calls :
        /\ peer[c] = NoPeer <=> pc[c] = "start"
        /\ pc[c] \in {"start", "cached", "setup", "joined", "sleeping"} => future[c] = "none"
        /\ pc[c] \in {"owner", "evicting"} => shared[c] = c /\ future[c] # "none"
        /\ pc[c] = "evicting" => future[c] = "err"
        /\ pc[c] = "failed" => future[c] = "err"
        /\ pc[c] \in {"cached", "joined", "owner", "sender"} =>
               /\ shared[c] \in Futures
               /\ future[shared[c]] # "none"
               /\ peer[shared[c]] = peer[c]
        /\ pc[c] = "sender" => future[shared[c]] = "ok" /\ future[c] \in {"none", "ok"}

ConnectionInv ==
    \A f \in Futures :
        /\ future[f] = "ok" <=> task[f] # "none"
        /\ future[f] \in {"none", "connecting"} => quic[f] = "none"
        /\ future[f] \in {"handshake", "ok"} => quic[f] # "none"
        /\ future[f] = "err" => quic[f] # "open"
        /\ task[f] \in {"evicted", "done"} => quic[f] = "closed"
        /\ f \in disconnects <=> task[f] = "done"

EvictionInv ==
    \A f \in Futures :
        /\ Pending(f) \/ EvictionDue(f) => Cached(f)
        /\ pc[f] = "failed" \/ task[f] \in {"evicted", "done"} => ~Cached(f)

IInv == TypeOK /\ CacheInv /\ CallInv /\ ConnectionInv /\ EvictionInv

(***************************************************************************)
(* "Connections are automatically reused across multiple requests to the   *)
(* same server": whatever the interleaving of calls, failures, losses and  *)
(* cancellations, there is at most one connection per peer, counting those *)
(* being set up.                                                           *)
(***************************************************************************)
OneLinkPerPeer ==
    \A f, g \in Futures : Linked(f) /\ Linked(g) /\ peer[f] = peer[g] => f = g

(***************************************************************************)
(* An open connection is never lost from the cache.  The cached future     *)
(* holds a SendRequest handle, and h3 closes a connection whose last       *)
(* handle is dropped: an early eviction would close it under its streams.  *)
(***************************************************************************)
OpenIsCached == \A f \in Futures : quic[f] = "open" => Cached(f)

(***************************************************************************)
(* sender_cache.remove(&peer_id) at lines 118 and 163 removes whatever is  *)
(* there; it never removes the entry of a later attempt: what goes is      *)
(* either a failed future or a closed connection.                          *)
(***************************************************************************)
EvictsOnlyTheDead ==
    [][\A p \in Peers : sender_cache'[p] # sender_cache[p] /\ sender_cache[p] # NoFuture =>
         /\ sender_cache'[p] = NoFuture
         /\ \/ future[sender_cache[p]] = "err"
            \/ future[sender_cache[p]] = "ok" /\ quic[sender_cache[p]] = "closed"]_vars

(***************************************************************************)
(* run_connection evicts before it announces (lines 163-166): a listener   *)
(* that reacts to the notification by sending to the same peer is never    *)
(* given the connection that was just announced as closed.                 *)
(***************************************************************************)
NeverRejoinsAnnounced ==
    [][\A c \in Calls : shared'[c] # shared[c] => shared'[c] \notin disconnects]_vars

-----------------------------------------------------------------------------
(* Liveness. *)

Running(c)  == pc[c] \notin {"start", "sender", "failed", "cancelled"}
Returned(c) == pc[c] \in {"sender", "failed"}

(***************************************************************************)
(* A call that starts returns a sender or an error.  True when no call is  *)
(* cancelled; with a cancellation only CallsReturnUnlessPoisoned is.       *)
(***************************************************************************)
EveryCallReturns == \A c \in Calls : Running(c) ~> Returned(c) \/ pc[c] = "cancelled"

\* The cached future failed, and the call that was to evict it is gone.
Poisoned(p) ==
    \E f \in Futures :
        sender_cache[p] = f /\ future[f] = "err" /\ pc[f] = "cancelled"

(***************************************************************************)
(* With cancellations: a call returns, or is cancelled, or its peer's      *)
(* entry is poisoned.  In particular an attempt whose creator was dropped  *)
(* in mid-connect is driven on by any other call that joined it.           *)
(***************************************************************************)
CallsReturnUnlessPoisoned ==
    \A c \in Calls :
        Running(c) ~> \/ Returned(c)
                      \/ pc[c] = "cancelled"
                      \/ peer[c] \in Peers /\ Poisoned(peer[c])

(***************************************************************************)
(* A connection that was handed to callers and closes is announced on      *)
(* disconnect_tx, whatever became of the call that created it.             *)
(***************************************************************************)
LostConnectionAnnounced ==
    \A f \in Futures : future[f] = "ok" /\ quic[f] = "closed" ~> f \in disconnects

-----------------------------------------------------------------------------
(* The cache implements PeerLink. *)

\* The state of the link to p, seen through the cache.
LinkState(p) ==
    LET f == sender_cache[p]
    IN  CASE f = NoFuture                            -> "absent"
          [] f # NoFuture /\ Pending(f)              -> "dialing"
          [] f # NoFuture /\ ~Pending(f)             ->
                 IF future[f] = "ok" /\ quic[f] = "open" THEN "up" ELSE "down"

links == [p \in Peers |-> LinkState(p)]

Link == INSTANCE PeerLink WITH link <- links

(***************************************************************************)
(* Behind the locks, the shared futures and the two evictions by key, each *)
(* peer has one link that is dialled, comes up or fails, is lost, and is   *)
(* forgotten before it is dialled again.                                   *)
(***************************************************************************)
ImplementsPeerLink == Link!Spec

(***************************************************************************)
(* A link that failed or was lost is forgotten, so that the peer can be    *)
(* dialled again, unless its entry is poisoned; an attempt ends as long as *)
(* some call awaits it, the one that began it or any other.                *)
(***************************************************************************)
LinkForgotten ==
    \A p \in Peers :
        /\ LinkState(p) = "down" ~> LinkState(p) = "absent" \/ Poisoned(p)
        /\ LinkState(p) = "dialing" ~>
               LinkState(p) # "dialing" \/ \A c \in Calls : ~Awaits(c, sender_cache[p])

=============================================================================
