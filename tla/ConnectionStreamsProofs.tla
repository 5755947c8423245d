----------------------- MODULE ConnectionStreamsProofs -----------------------
(***************************************************************************)
(* Proofs of the safety properties of ConnectionStreams, for any number of *)
(* calls and handles, however calls share them, and any limit.             *)
(*                                                                         *)
(* The limit bounds the tasks because credit is given for streams that are *)
(* over only (LimitInv), and a stream that is over stays so.  That no      *)
(* wake-up is lost (WakeInv) needs that a handle is borrowed by one call   *)
(* at a time (HandleInv): nobody else's poll replaces its waker.           *)
(***************************************************************************)
EXTENDS ConnectionStreams, FiniteSetTheorems, TLAPS

-----------------------------------------------------------------------------

\* Sets of calls have sizes, and larger sets are at least as large.
LEMMA Sizes ==
    /\ \A S \in SUBSET Calls : IsFiniteSet(S) /\ Cardinality(S) \in Nat
    /\ \A S \in SUBSET Calls : \A T \in SUBSET S : Cardinality(T) <= Cardinality(S)
<1>1. ASSUME NEW S \in SUBSET Calls
      PROVE  IsFiniteSet(S) /\ Cardinality(S) \in Nat
    BY ConstantsAssumption, FS_Subset, FS_CardinalityType
<1>2. ASSUME NEW S \in SUBSET Calls, NEW T \in SUBSET S
      PROVE  Cardinality(T) <= Cardinality(S)
    BY <1>1, FS_Subset
<1> QED BY <1>1, <1>2

\* No call started, and a loop that has yet to set up.
LEMMA InitIInv ==
    ASSUME Init
    PROVE  IInv
<1> USE ConstantsAssumption DEF Init, ClientInit, ServerInit
<1>1. TypeOK /\ CallInv /\ HandleInv /\ WakeInv
    BY DEF TypeOK, CallInv, HandleInv, WakeInv
<1>2. Opened = {} /\ OverStreams = {}
    BY DEF Opened, OverStreams, Over
<1>3. LimitInv
    BY <1>2, FS_EmptySet DEF LimitInv
<1> QED BY <1>1, <1>3 DEF IInv

-----------------------------------------------------------------------------
(* Types, and what the places of a call say of one another. *)

LocalInv == TypeOK /\ CallInv /\ HandleInv

\* The steps of a call.
LEMMA CallLocalInv ==
    ASSUME IInv, NEW c \in Calls, Start(c) \/ ClientStep(c) \/ Cancel(c)
    PROVE  LocalInv'
<1> USE ConstantsAssumption DEF IInv, TypeOK, CallInv, HandleInv, LocalInv
<1>1. CASE Start(c)
    BY <1>1 DEF Start, Goto
<1>2. CASE PollOpens(c)
    BY <1>2 DEF PollOpens, PollReady, Goto
<1>3. CASE PollFails(c)
    BY <1>3 DEF PollFails, PollReady, Goto
<1>4. CASE PollPending(c)
    BY <1>4 DEF PollPending
<1>5. CASE SendHead(c)
    BY <1>5 DEF SendHead, Goto
<1>6. CASE Finish(c)
    BY <1>6 DEF Finish, Goto
<1>7. CASE WriteError(c)
    BY <1>7 DEF WriteError, Goto
<1>8. CASE Receive(c)
    BY <1>8 DEF Receive, Goto
<1>9. CASE FailOnClosed(c)
    BY <1>9 DEF FailOnClosed, Goto
<1>10. CASE Cancel(c)
    BY <1>10 DEF Cancel, Goto
<1> QED
    BY <1>1, <1>2, <1>3, <1>4, <1>5, <1>6, <1>7, <1>8, <1>9, <1>10 DEF ClientStep, Poll

\* A stream arrives or is accepted, a task moves on.
LEMMA ServedLocalInv ==
    ASSUME IInv, NEW c \in Calls, Arrive(c) \/ Accept(c) \/ TaskStep(c)
    PROVE  LocalInv'
<1> USE ConstantsAssumption DEF IInv, TypeOK, CallInv, HandleInv, LocalInv
<1>1. CASE Arrive(c)
    BY <1>1 DEF Arrive, Rouse
<1>2. CASE Accept(c)
    BY <1>2 DEF Accept, Unaccepted
<1>3. CASE TaskStep(c)
    BY <1>3 DEF TaskStep, Resolve, ResolveFails, HandlerEnds, SetTask
<1> QED BY <1>1, <1>2, <1>3

\* The steps of the connection and of the loop that are about no call.
ConnectionStep ==
    \/ MaxStreamsArrives \/ ConnectionLost \/ AcceptRecv \/ ServerShutdown
    \/ SetUp \/ AcceptPending \/ AcceptEnds

LEMMA ConnectionLocalInv ==
    ASSUME IInv, ConnectionStep
    PROVE  LocalInv'
<1> USE ConstantsAssumption DEF IInv, TypeOK, CallInv, HandleInv, LocalInv
<1>1. CASE MaxStreamsArrives
  <2>1. Cardinality(OverStreams) \in Nat
      BY Sizes DEF OverStreams
  <2> QED BY <1>1, <2>1 DEF MaxStreamsArrives, WakeOpeners
<1>2. CASE ConnectionLost \/ AcceptRecv \/ ServerShutdown
    BY <1>2 DEF ConnectionLost, AcceptRecv, ServerShutdown, Close, WakeOpeners, Rouse
<1>3. CASE SetUp \/ AcceptPending \/ AcceptEnds
    BY <1>3 DEF SetUp, AcceptPending, AcceptEnds
<1> QED BY <1>1, <1>2, <1>3 DEF ConnectionStep

\* Next, sorted for the proofs.
LEMMA NextCases ==
    ASSUME Next
    PROVE  \/ \E c \in Calls : Start(c) \/ ClientStep(c) \/ Cancel(c)
           \/ \E c \in Calls : Arrive(c) \/ Accept(c) \/ TaskStep(c)
           \/ ConnectionStep
BY DEF Next, LoopStep, ConnectionStep

-----------------------------------------------------------------------------
(* The limit. *)

\* A stream that was opened stays opened, and one that is over stays over.
LEMMA StreamsStay ==
    ASSUME IInv, [Next]_vars
    PROVE  Opened \subseteq Opened' /\ OverStreams \subseteq OverStreams'
<1> USE DEF IInv, TypeOK, CallInv, Opened, OverStreams, Over
<1>1. CASE UNCHANGED vars
    BY <1>1 DEF vars
<1>2. ASSUME NEW c \in Calls, Start(c) \/ ClientStep(c) \/ Cancel(c)
      PROVE  Opened \subseteq Opened' /\ OverStreams \subseteq OverStreams'
    BY <1>2 DEF Start, ClientStep, Poll, PollOpens, PollFails, PollReady, PollPending, SendHead,
                Finish, WriteError, Receive, FailOnClosed, Cancel, Goto
<1>3. ASSUME NEW c \in Calls, Arrive(c) \/ Accept(c) \/ TaskStep(c)
      PROVE  Opened \subseteq Opened' /\ OverStreams \subseteq OverStreams'
    BY <1>3 DEF Arrive, Accept, Unaccepted, TaskStep, Resolve, ResolveFails, HandlerEnds, SetTask
<1>4. CASE ConnectionStep
    BY <1>4 DEF ConnectionStep, MaxStreamsArrives, ConnectionLost, AcceptRecv, ServerShutdown,
                Close, SetUp, AcceptPending, AcceptEnds
<1> QED BY <1>1, <1>2, <1>3, <1>4, NextCases

\* Only an open adds to the streams, and it has credit for one.
LEMMA OpenedSteps ==
    ASSUME IInv, [Next]_vars
    PROVE  \/ Opened' = Opened
           \/ Credit /\ limit' = limit /\ \E c \in Calls : Opened' = Opened \cup {c}
<1> USE DEF IInv, TypeOK, Opened
<1>1. ASSUME NEW c \in Calls, PollOpens(c)
      PROVE  Credit /\ limit' = limit /\ Opened' = Opened \cup {c}
    BY <1>1 DEF PollOpens, PollReady
<1>2. ASSUME NEW c \in Calls, Arrive(c)
      PROVE  Opened' = Opened
    BY <1>2 DEF Arrive
<1>3. ASSUME NEW c \in Calls,
             \/ Start(c) \/ Cancel(c) \/ Accept(c) \/ TaskStep(c)
             \/ PollFails(c) \/ PollPending(c) \/ SendHead(c) \/ Finish(c) \/ WriteError(c)
             \/ Receive(c) \/ FailOnClosed(c)
      PROVE  stream' = stream
    BY <1>3 DEF Start, Cancel, Accept, TaskStep, Resolve, ResolveFails, HandlerEnds, SetTask,
                PollFails, PollPending, SendHead, Finish, WriteError, Receive, FailOnClosed
<1>4. CASE ConnectionStep \/ UNCHANGED vars
  <2>1. stream' = stream
      BY <1>4 DEF ConnectionStep, MaxStreamsArrives, ConnectionLost, AcceptRecv, ServerShutdown,
                SetUp, AcceptPending, AcceptEnds, vars
  <2> QED BY <2>1
<1>5. stream' = stream => Opened' = Opened
    OBVIOUS
<1> HIDE DEF IInv, TypeOK, Opened
<1> QED BY <1>1, <1>2, <1>3, <1>4, <1>5, NextCases DEF ClientStep, Poll

\* The limit grows only with MAX_STREAMS, to what is over.
LEMMA LimitSteps ==
    ASSUME [Next]_vars
    PROVE  /\ max_streams' = max_streams
           /\ limit' = limit \/ MaxStreamsArrives
<1>1. CASE UNCHANGED vars
    BY <1>1 DEF vars
<1>2. ASSUME NEW c \in Calls, Start(c) \/ ClientStep(c) \/ Cancel(c)
      PROVE  max_streams' = max_streams /\ limit' = limit
    BY <1>2 DEF Start, ClientStep, Poll, PollOpens, PollFails, PollReady, PollPending, SendHead,
                Finish, WriteError, Receive, FailOnClosed, Cancel
<1>3. ASSUME NEW c \in Calls, Arrive(c) \/ Accept(c) \/ TaskStep(c)
      PROVE  max_streams' = max_streams /\ limit' = limit
    BY <1>3 DEF Arrive, Accept, TaskStep, Resolve, ResolveFails, HandlerEnds, SetTask
<1>4. CASE ConnectionStep
    BY <1>4 DEF ConnectionStep, MaxStreamsArrives, ConnectionLost, AcceptRecv, ServerShutdown,
                SetUp, AcceptPending, AcceptEnds
<1> QED BY <1>1, <1>2, <1>3, <1>4, NextCases

\* Credit is given for streams that are over, and used by those that are opened.
LEMMA StepLimitInv ==
    ASSUME IInv, [Next]_vars
    PROVE  LimitInv'
<1> DEFINE opened == Cardinality(Opened)
           over == Cardinality(OverStreams)
           opened1 == Cardinality(Opened')
           over1 == Cardinality(OverStreams')
<1>1. /\ opened \in Nat /\ over \in Nat /\ opened1 \in Nat /\ over1 \in Nat
      /\ over <= over1
  <2>1. /\ Opened \in SUBSET Calls /\ OverStreams \in SUBSET Calls
        /\ Opened' \in SUBSET Calls /\ OverStreams' \in SUBSET Calls
      BY DEF Opened, OverStreams
  <2> QED BY <2>1, StreamsStay, Sizes
<1>2. opened <= limit /\ limit <= max_streams + over /\ limit \in Nat /\ max_streams \in Nat
    BY ConstantsAssumption DEF IInv, LimitInv, TypeOK
<1>3. limit' \in Nat /\ limit <= limit' /\ limit' <= max_streams + over1
  <2>1. CASE limit' = limit
      BY <2>1, <1>1, <1>2
  <2>2. CASE MaxStreamsArrives
    <3>1. limit' = max_streams + over /\ limit < max_streams + over
        BY <2>2 DEF MaxStreamsArrives
    <3> QED BY <3>1, <1>1, <1>2
  <2> QED BY <2>1, <2>2, LimitSteps
<1>4. opened1 <= limit'
  <2>1. CASE Opened' = Opened
    <3>1. opened1 = opened
        BY <2>1
    <3> QED BY <3>1, <1>1, <1>2, <1>3
  <2>2. ASSUME NEW c \in Calls, Credit, limit' = limit, Opened' = Opened \cup {c}
        PROVE  opened1 <= limit'
    <3>1. IsFiniteSet(Opened)
        BY Sizes DEF Opened
    <3>2. opened1 = opened \/ opened1 = opened + 1
        BY <2>2, <3>1, FS_AddElement
    <3>3. opened < limit
        BY <2>2 DEF Credit
    <3> QED BY <2>2, <3>2, <3>3, <1>1, <1>2
  <2> QED BY <2>1, <2>2, OpenedSteps
<1>5. max_streams' = max_streams
    BY LimitSteps
<1> QED BY <1>3, <1>4, <1>5 DEF LimitInv

-----------------------------------------------------------------------------
(* Wake-ups. *)

\* A call that sleeps until a stream can be opened.
Asleep(c) == pc[c] = "opening" /\ c \notin woken

Guarded(c) == opening_bi[Via[c]] = c /\ conn = "open" /\ ~Credit

\* Where nothing is opened and no limit raised there is no new credit.
LEMMA NoNewCredit ==
    ASSUME IInv, [Next]_vars, limit' = limit, ~Credit
    PROVE  ~Credit'
<1> DEFINE opened == Cardinality(Opened)
           opened1 == Cardinality(Opened')
<1>1. opened \in Nat /\ opened1 \in Nat /\ opened <= opened1
  <2>1. Opened \in SUBSET Calls /\ Opened' \in SUBSET Calls
      BY DEF Opened
  <2> QED BY <2>1, StreamsStay, Sizes
<1>2. limit \in Nat /\ ~(opened < limit)
    BY DEF IInv, TypeOK, Credit
<1>3. ~(opened1 < limit)
    BY <1>1, <1>2
<1> QED BY <1>3 DEF Credit

\* Nobody but a call itself, and those that wake it, touches its waker.
LEMMA SleepersStayGuarded ==
    ASSUME IInv, Next, NEW c \in Calls, Asleep(c)'
    PROVE  Guarded(c)'
<1> USE DEF IInv, TypeOK
<1>1. Asleep(c) => Guarded(c)
    BY DEF WakeInv, Asleep, Guarded
<1>2. Via[c] \in Handles /\ c # NoCall
    BY ConstantsAssumption
<1>3. ASSUME NEW d \in Calls, Start(d)
      PROVE  Guarded(c)'
  <2>1. Asleep(c) /\ UNCHANGED <<opening_bi, conn, limit>>
      BY <1>3 DEF Start, Goto, Asleep
  <2> QED BY <1>1, <2>1, NoNewCredit DEF Guarded
<1>4. ASSUME NEW d \in Calls, PollOpens(d) \/ PollFails(d)
      PROVE  Guarded(c)'
  <2>1. pc[d] = "opening" /\ Asleep(c) /\ d # c /\ UNCHANGED <<conn, limit>>
        /\ opening_bi' = [opening_bi EXCEPT ![Via[d]] = NoCall]
      BY <1>4 DEF PollOpens, PollFails, PollReady, Goto, Asleep
  <2>2. Via[d] # Via[c]
      BY <2>1 DEF HandleInv, Asleep
  <2>3. opening_bi'[Via[c]] = opening_bi[Via[c]]
      BY <2>1, <2>2, <1>2
  <2> QED BY <1>1, <2>1, <2>3, NoNewCredit DEF Guarded
<1>5. ASSUME NEW d \in Calls, PollPending(d)
      PROVE  Guarded(c)'
  <2>1. /\ pc[d] = "opening" /\ pc' = pc /\ UNCHANGED <<conn, limit>>
        /\ conn = "open" /\ ~Credit
        /\ opening_bi' = [opening_bi EXCEPT ![Via[d]] = d]
        /\ woken' = woken \ {d}
      BY <1>5 DEF PollPending
  <2>2. CASE c = d
    <3>1. opening_bi'[Via[c]] = c
        BY <2>1, <2>2, <1>2
    <3> QED BY <3>1, <2>1, NoNewCredit DEF Guarded
  <2>3. CASE c # d
    <3>1. Asleep(c)
        BY <2>1, <2>3 DEF Asleep
    <3>2. Via[d] # Via[c]
        BY <2>1, <2>3, <3>1 DEF HandleInv, Asleep
    <3>3. opening_bi'[Via[c]] = opening_bi[Via[c]]
        BY <2>1, <3>2, <1>2
    <3> QED BY <1>1, <2>1, <3>1, <3>3, NoNewCredit DEF Guarded
  <2> QED BY <2>2, <2>3
<1>6. ASSUME NEW d \in Calls,
             \/ SendHead(d) \/ Finish(d) \/ WriteError(d) \/ Receive(d) \/ FailOnClosed(d)
             \/ Cancel(d) \/ Arrive(d) \/ Accept(d) \/ TaskStep(d)
      PROVE  Guarded(c)'
  <2>1. Asleep(c) /\ UNCHANGED <<opening_bi, conn, limit>>
      BY <1>6 DEF SendHead, Finish, WriteError, Receive, FailOnClosed, Cancel, Goto,
                  Arrive, Accept, TaskStep, Resolve, ResolveFails, HandlerEnds, SetTask, Asleep
  <2> QED BY <1>1, <2>1, NoNewCredit DEF Guarded
<1>7. CASE MaxStreamsArrives \/ ConnectionLost \/ ServerShutdown
  <2>1. WakeOpeners /\ pc' = pc
      BY <1>7 DEF MaxStreamsArrives, ConnectionLost, ServerShutdown, Close
  <2>2. Asleep(c)
      BY <2>1 DEF WakeOpeners, Asleep
  <2>3. c \in woken'
      BY <2>1, <2>2, <1>1, <1>2 DEF WakeOpeners, Guarded
  <2> QED BY <2>3 DEF Asleep
<1>8. CASE AcceptRecv \/ SetUp \/ AcceptPending \/ AcceptEnds
  <2>1. Asleep(c) /\ UNCHANGED <<opening_bi, conn, limit>>
      BY <1>8 DEF AcceptRecv, SetUp, AcceptPending, AcceptEnds, Asleep
  <2> QED BY <1>1, <2>1, NoNewCredit DEF Guarded
<1> HIDE DEF IInv, TypeOK
<1> QED
    BY <1>3, <1>4, <1>5, <1>6, <1>7, <1>8, NextCases DEF ClientStep, Poll, ConnectionStep

AllAccepted == conn = "open" /\ \A c \in Calls : ~Unaccepted(c)

\* The loop sleeps only after it looked, and what arrives wakes it.
LEMMA LoopSleepsWell ==
    ASSUME IInv, Next, loop' = "asleep"
    PROVE  AllAccepted'
<1> USE DEF IInv, TypeOK, AllAccepted, Unaccepted
<1>1. loop = "asleep" => AllAccepted
    BY DEF WakeInv
<1>2. ASSUME NEW c \in Calls, Start(c) \/ ClientStep(c) \/ Cancel(c)
      PROVE  AllAccepted'
    BY <1>1, <1>2 DEF Start, ClientStep, Poll, PollOpens, PollFails, PollReady, PollPending, SendHead,
                Finish, WriteError, Receive, FailOnClosed, Cancel, Goto
<1>3. ASSUME NEW c \in Calls, Arrive(c) \/ Accept(c) \/ TaskStep(c)
      PROVE  AllAccepted'
    BY <1>1, <1>3 DEF Arrive, Rouse, Accept, TaskStep, Resolve, ResolveFails, HandlerEnds, SetTask
<1>4. CASE ConnectionStep
    BY <1>1, <1>4 DEF ConnectionStep, MaxStreamsArrives, ConnectionLost, AcceptRecv, ServerShutdown,
                Close, Rouse, SetUp, AcceptPending, AcceptEnds
<1> QED BY <1>2, <1>3, <1>4, NextCases

\* IInv is inductive.
LEMMA StepIInv ==
    ASSUME IInv, [Next]_vars
    PROVE  IInv'
<1>1. LocalInv'
  <2>1. CASE UNCHANGED vars
      BY <2>1 DEF vars, IInv, LocalInv, TypeOK, CallInv, HandleInv
  <2> QED BY <2>1, NextCases, CallLocalInv, ServedLocalInv, ConnectionLocalInv
<1>2. WakeInv'
  <2>1. CASE UNCHANGED vars
    <3>1. Opened' = Opened
        BY <2>1 DEF vars, Opened
    <3> QED BY <2>1, <3>1 DEF vars, IInv, WakeInv, Credit, Unaccepted
  <2>2. CASE Next
      BY <2>2, SleepersStayGuarded, LoopSleepsWell DEF WakeInv, Asleep, Guarded, AllAccepted
  <2> QED BY <2>1, <2>2
<1> QED BY <1>1, <1>2, StepLimitInv DEF IInv, LocalInv

\* Every reachable state satisfies the invariant: in particular no call and no
\* accept loop sleeps over something it could do.
THEOREM StreamsInvariance == Spec => []IInv
<1>1. Init => IInv
    BY InitIInv
<1>2. IInv /\ [Next]_vars => IInv'
    BY StepIInv
<1> QED BY <1>1, <1>2, PTL DEF Spec

\* However many calls there are and however they end, a connection has at most
\* as many tasks as the server allows streams.
THEOREM TasksAreBounded == Spec => []TasksBounded
<1>1. ASSUME IInv
      PROVE  TasksBounded
  <2> DEFINE opened == Cardinality(Opened)
             over == Cardinality(OverStreams)
             left == Cardinality(Opened \ OverStreams)
             running == Cardinality(Running)
  <2>1. /\ Running \subseteq Opened \ OverStreams
        /\ OverStreams \subseteq Opened
        /\ Opened \in SUBSET Calls /\ Opened \ OverStreams \in SUBSET Calls
      BY <1>1 DEF IInv, CallInv, Running, Opened, OverStreams, Over
  <2>2. Running \in SUBSET Calls /\ OverStreams \in SUBSET Calls
      BY DEF Running, OverStreams
  <2>3. /\ opened \in Nat /\ over \in Nat /\ left \in Nat /\ running \in Nat
        /\ running <= left
      BY <2>1, <2>2, Sizes
  <2>4. left = opened - over
    <3>1. IsFiniteSet(Opened)
        BY <2>1, Sizes
    <3>2. Opened \cap OverStreams = OverStreams
        BY <2>1
    <3> QED BY <3>1, <3>2, FS_Difference
  <2>5. /\ max_streams \in Nat /\ limit \in Nat
        /\ opened <= limit /\ limit <= max_streams + over
      BY <1>1, ConstantsAssumption DEF IInv, TypeOK, LimitInv
  <2>6. running <= max_streams
      BY <2>3, <2>4, <2>5
  <2> QED BY <2>6 DEF TasksBounded
<1> QED BY <1>1, StreamsInvariance, PTL

-----------------------------------------------------------------------------
(* The refinement of StreamSlots. *)

SlotOf(c) == IF stream[c] = "none" THEN "none" ELSE IF Over(c) THEN "back" ELSE "held"

\* A stream is in use until it is over.
LEMMA SlotIs == slot = [c \in Calls |-> SlotOf(c)] /\ slot' = [c \in Calls |-> SlotOf(c)']
BY DEF slot, SlotOf, InUse, Over

\* Sizes in StreamSlots are sizes here.
LEMMA SameCardinality ==
    ASSUME NEW S
    PROVE  Slots!Cardinality(S) = Cardinality(S)
BY DEF Slots!Cardinality, Cardinality, Slots!IsFiniteSet, IsFiniteSet

\* Calls with a slot are those with a stream that is not over; there is a slot
\* for each of them, and with credit for one more.
LEMMA HeldSlots ==
    ASSUME IInv
    PROVE  Credit => Slots!Cardinality(Slots!Held) < max_streams
<1> DEFINE opened == Cardinality(Opened)
           over == Cardinality(OverStreams)
           held == Cardinality(Opened \ OverStreams)
<1>1. Slots!Held = Opened \ OverStreams
    BY SlotIs DEF Slots!Held, SlotOf, Opened, OverStreams, Over
<1>2. OverStreams \subseteq Opened /\ Opened \in SUBSET Calls
    BY DEF Opened, OverStreams, Over
<1>3. held = opened - over
  <2>1. Opened \cap OverStreams = OverStreams /\ IsFiniteSet(Opened)
      BY <1>2, Sizes
  <2> QED BY <2>1, FS_Difference
<1>4. opened \in Nat /\ over \in Nat
    BY <1>2, Sizes DEF OverStreams
<1>5. max_streams \in Nat /\ limit \in Nat /\ limit <= max_streams + over
    BY ConstantsAssumption DEF IInv, TypeOK, LimitInv
<1>6. Credit => opened < limit
    BY DEF Credit
<1>7. Credit => held < max_streams
    BY <1>3, <1>4, <1>5, <1>6
<1> QED BY <1>1, <1>7, SameCardinality

\* A step of a call, its stream or its task leaves the others alone.
LEMMA OthersKeepSlots ==
    ASSUME IInv, NEW c \in Calls,
           Start(c) \/ ClientStep(c) \/ Cancel(c) \/ Arrive(c) \/ Accept(c) \/ TaskStep(c),
           NEW d \in Calls, d # c
    PROVE  SlotOf(d)' = SlotOf(d)
<1> USE DEF IInv, TypeOK
<1>1. pc'[d] = pc[d]
    BY DEF Start, ClientStep, Poll, PollOpens, PollFails, PollReady, PollPending, SendHead, Finish,
           WriteError, Receive, FailOnClosed, Cancel, Goto, Arrive, Accept, TaskStep, Resolve,
           ResolveFails, HandlerEnds, SetTask
<1>2. stream'[d] = stream[d]
    BY DEF Start, ClientStep, Poll, PollOpens, PollFails, PollReady, PollPending, SendHead, Finish,
           WriteError, Receive, FailOnClosed, Cancel, Arrive, Accept, TaskStep, Resolve,
           ResolveFails, HandlerEnds, SetTask
<1>3. task'[d] = task[d]
    BY DEF Start, ClientStep, Poll, PollOpens, PollFails, PollReady, PollPending, SendHead, Finish,
           WriteError, Receive, FailOnClosed, Cancel, Arrive, Accept, TaskStep, Resolve,
           ResolveFails, HandlerEnds, SetTask
<1> HIDE DEF IInv, TypeOK
<1> QED BY <1>1, <1>2, <1>3 DEF SlotOf, Over

\* A slot is taken by an open only, and given back once.
LEMMA OwnSlotMoves ==
    ASSUME IInv, [Next]_vars, NEW c \in Calls
    PROVE  /\ SlotOf(c) = "none" => SlotOf(c)' # "back"
           /\ SlotOf(c) = "held" => SlotOf(c)' # "none"
           /\ SlotOf(c) = "back" => SlotOf(c)' = "back"
           /\ SlotOf(c) = "none" /\ SlotOf(c)' = "held" => Credit
<1>1. /\ SlotOf(c) = "none" <=> c \notin Opened
      /\ SlotOf(c) = "back" <=> c \in OverStreams
    BY DEF SlotOf, Opened, OverStreams, Over
<1>2. /\ SlotOf(c)' = "none" <=> c \notin Opened'
      /\ SlotOf(c)' = "back" <=> c \in OverStreams'
    BY DEF SlotOf, Opened, OverStreams, Over
<1>3. Opened \subseteq Opened' /\ OverStreams \subseteq OverStreams'
    BY StreamsStay
<1>4. c \in Opened' \ Opened => Credit
    BY OpenedSteps
<1>5. SlotOf(c) = "none" => SlotOf(c)' # "back"
  <2>1. task[c] # "none" => stream[c] # "none"
      BY DEF IInv, CallInv
  <2>2. stream[c] = "none" => task'[c] # "ended"
      BY <2>1 DEF IInv, TypeOK, Next, vars, Start, ClientStep, Poll, PollOpens, PollFails, PollReady,
             PollPending, SendHead, Finish, WriteError, Receive, FailOnClosed, Cancel, Arrive, Accept,
             TaskStep, Resolve, ResolveFails, HandlerEnds, SetTask, LoopStep, MaxStreamsArrives,
             ConnectionLost, AcceptRecv, ServerShutdown, SetUp, AcceptPending, AcceptEnds
  <2> QED BY <2>2 DEF SlotOf, Over
<1> QED BY <1>1, <1>2, <1>3, <1>4, <1>5

\* Every step takes a slot, gives one back, or does neither.
LEMMA StepSlots ==
    ASSUME IInv, [Next]_vars
    PROVE  [Slots!Next]_(Slots!vars)
<1>1. slot = [c \in Calls |-> SlotOf(c)] /\ slot' = [c \in Calls |-> SlotOf(c)']
    BY SlotIs
<1>2. max_streams' = max_streams
    BY LimitSteps
<1>3. ASSUME NEW c \in Calls, \A d \in Calls : d # c => SlotOf(d)' = SlotOf(d)
      PROVE  Slots!Next \/ slot' = slot
  <2>1. CASE SlotOf(c)' = SlotOf(c)
      BY <1>1, <1>3, <2>1
  <2>2. CASE SlotOf(c)' # SlotOf(c)
    <3>1. slot' = [slot EXCEPT ![c] = SlotOf(c)'] /\ slot[c] = SlotOf(c)
        BY <1>1, <1>3
    <3>2. SlotOf(c) \in {"none", "held", "back"} /\ SlotOf(c)' \in {"none", "held", "back"}
        BY DEF SlotOf
    <3>3. \/ SlotOf(c) = "none" /\ SlotOf(c)' = "held" /\ Credit
          \/ SlotOf(c) = "held" /\ SlotOf(c)' = "back"
        BY <2>2, <3>2, OwnSlotMoves
    <3>4. CASE SlotOf(c) = "none" /\ SlotOf(c)' = "held" /\ Credit
        BY <1>2, <3>1, <3>4, HeldSlots DEF Slots!Next, Slots!Take
    <3>5. CASE SlotOf(c) = "held" /\ SlotOf(c)' = "back"
        BY <1>2, <3>1, <3>5 DEF Slots!Next, Slots!GiveBack
    <3> QED BY <3>3, <3>4, <3>5
  <2> QED BY <2>1, <2>2
<1>4. CASE ConnectionStep \/ UNCHANGED vars
  <2>1. UNCHANGED <<pc, stream, task>>
      BY <1>4 DEF ConnectionStep, MaxStreamsArrives, ConnectionLost, AcceptRecv, ServerShutdown,
                SetUp, AcceptPending, AcceptEnds, vars
  <2>2. slot' = slot
      BY <2>1 DEF slot, InUse
  <2> QED BY <1>2, <2>2 DEF Slots!vars
<1>5. ASSUME NEW c \in Calls,
             Start(c) \/ ClientStep(c) \/ Cancel(c) \/ Arrive(c) \/ Accept(c) \/ TaskStep(c)
      PROVE  Slots!Next \/ slot' = slot
    BY <1>3, <1>5, OthersKeepSlots
<1> QED BY <1>2, <1>4, <1>5, NextCases DEF Slots!vars

\* The streams of a connection implement StreamSlots: each request has one slot,
\* once, until both ends are through with it.
THEOREM SlotsRefinement == Spec => ImplementsStreamSlots
<1>1. Init => Slots!Init
    BY DEF Init, ClientInit, ServerInit, Slots!Init, slot
<1>2. IInv /\ [Next]_vars => [Slots!Next]_(Slots!vars)
    BY StepSlots
<1> QED BY <1>1, <1>2, StreamsInvariance, PTL DEF Spec, ImplementsStreamSlots, Slots!Spec

=============================================================================
