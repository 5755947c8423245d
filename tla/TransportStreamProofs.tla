------------------------ MODULE TransportStreamProofs ------------------------
(***************************************************************************)
(* Proofs about TransportStream, for buffers and windows of any size.      *)
(***************************************************************************)
EXTENDS TransportStream, TLAPS

-----------------------------------------------------------------------------

\* Nothing is handed over, written or read yet.
LEMMA InitIInv == Init => IInv
BY SizesAssumption DEF Init, IInv, TypeOK, BytesInv, CallersInv

\* The calls of the writer.
LEMMA SendIInv ==
    ASSUME IInv, SendStep
    PROVE  IInv'
<1> USE DEF send, recv
<1>0. TypeOK /\ BytesInv /\ CallersInv
    BY DEF IInv
<1>1. ASSUME NEW n \in 1..MaxBuffer, SendData(n)
      PROVE  IInv'
    <2>1. TypeOK' /\ BytesInv'
        BY <1>0, <1>1, SizesAssumption DEF TypeOK, BytesInv, CallersInv, SendData
    <2>2. CallersInv'
        BY <1>0, <1>1, SizesAssumption DEF TypeOK, BytesInv, CallersInv, SendData
    <2> QED BY <2>1, <2>2 DEF IInv
<1>2. ASSUME NEW n \in 1..MaxBuffer, Write(n)
      PROVE  IInv'
    <2>1. TypeOK' /\ BytesInv'
        BY <1>0, <1>2, SizesAssumption DEF TypeOK, BytesInv, CallersInv, Write
    <2>2. CallersInv'
        BY <1>0, <1>2, SizesAssumption DEF TypeOK, BytesInv, CallersInv, Write
    <2> QED BY <2>1, <2>2 DEF IInv
<1>3. CASE SendDataRefused
    <2>1. TypeOK' /\ BytesInv'
        BY <1>0, <1>3, SizesAssumption DEF TypeOK, BytesInv, CallersInv, SendDataRefused
    <2>2. CallersInv'
        BY <1>0, <1>3, SizesAssumption DEF TypeOK, BytesInv, CallersInv, SendDataRefused
    <2> QED BY <2>1, <2>2 DEF IInv
<1>4. CASE PollReady
    <2>1. TypeOK' /\ BytesInv'
        BY <1>0, <1>4, SizesAssumption DEF TypeOK, BytesInv, CallersInv, PollReady
    <2>2. CallersInv'
        BY <1>0, <1>4, SizesAssumption DEF TypeOK, BytesInv, CallersInv, PollReady
    <2> QED BY <2>1, <2>2 DEF IInv
<1>5. CASE WriteFails
    <2>1. TypeOK' /\ BytesInv'
        BY <1>0, <1>5, SizesAssumption DEF TypeOK, BytesInv, CallersInv, WriteFails
    <2>2. CallersInv'
        BY <1>0, <1>5, SizesAssumption DEF TypeOK, BytesInv, CallersInv, WriteFails
    <2> QED BY <2>1, <2>2 DEF IInv
<1>6. CASE Flushed
    <2>1. TypeOK' /\ BytesInv'
        BY <1>0, <1>6, SizesAssumption DEF TypeOK, BytesInv, CallersInv, Flushed
    <2>2. CallersInv'
        BY <1>0, <1>6, SizesAssumption DEF TypeOK, BytesInv, CallersInv, Flushed
    <2> QED BY <2>1, <2>2 DEF IInv
<1>7. CASE PollFinish
    <2>1. TypeOK' /\ BytesInv'
        BY <1>0, <1>7, SizesAssumption DEF TypeOK, BytesInv, CallersInv, PollFinish, Leave
    <2>2. CallersInv'
        BY <1>0, <1>7, SizesAssumption DEF TypeOK, BytesInv, CallersInv, PollFinish, Leave
    <2> QED BY <2>1, <2>2 DEF IInv
<1>8. CASE DropSend
    <2>1. TypeOK' /\ BytesInv'
        BY <1>0, <1>8, SizesAssumption DEF TypeOK, BytesInv, CallersInv, DropSend, Leave
    <2>2. CallersInv'
        BY <1>0, <1>8, SizesAssumption DEF TypeOK, BytesInv, CallersInv, DropSend, Leave
    <2> QED BY <2>1, <2>2 DEF IInv
<1> QED
    BY <1>1, <1>2, <1>3, <1>4, <1>5, <1>6, <1>7, <1>8 DEF SendStep

\* The calls of the reader.
LEMMA RecvIInv ==
    ASSUME IInv, RecvStep
    PROVE  IInv'
<1> USE DEF send, recv
<1>0. TypeOK /\ BytesInv /\ CallersInv
    BY DEF IInv
<1>1. CASE PollData
    <2>1. TypeOK' /\ BytesInv'
        BY <1>0, <1>1, SizesAssumption DEF TypeOK, BytesInv, CallersInv, PollData
    <2>2. CallersInv'
        BY <1>0, <1>1, SizesAssumption DEF TypeOK, BytesInv, CallersInv, PollData
    <2> QED BY <2>1, <2>2 DEF IInv
<1>2. ASSUME NEW n \in 1..Window, Read(n)
      PROVE  IInv'
    <2>1. TypeOK' /\ BytesInv'
        BY <1>0, <1>2, SizesAssumption DEF TypeOK, BytesInv, CallersInv, Read
    <2>2. CallersInv'
        BY <1>0, <1>2, SizesAssumption DEF TypeOK, BytesInv, CallersInv, Read
    <2> QED BY <2>1, <2>2 DEF IInv
<1>3. CASE ReadEof
    <2>1. TypeOK' /\ BytesInv'
        BY <1>0, <1>3, SizesAssumption DEF TypeOK, BytesInv, CallersInv, ReadEof
    <2>2. CallersInv'
        BY <1>0, <1>3, SizesAssumption DEF TypeOK, BytesInv, CallersInv, ReadEof
    <2> QED BY <2>1, <2>2 DEF IInv
<1>4. CASE ReadFails
    <2>1. TypeOK' /\ BytesInv'
        BY <1>0, <1>4, SizesAssumption DEF TypeOK, BytesInv, CallersInv, ReadFails
    <2>2. CallersInv'
        BY <1>0, <1>4, SizesAssumption DEF TypeOK, BytesInv, CallersInv, ReadFails
    <2> QED BY <2>1, <2>2 DEF IInv
<1> QED
    BY <1>1, <1>2, <1>3, <1>4 DEF RecvStep

\* Dropped futures, streams stopped or reset, lost connections.
LEMMA FaultIInv ==
    ASSUME IInv, Disturbance
    PROVE  IInv'
<1> USE DEF send, recv
<1>0. TypeOK /\ BytesInv /\ CallersInv
    BY DEF IInv
<1>1. CASE AbandonWrite
    <2>1. TypeOK' /\ BytesInv'
        BY <1>0, <1>1, SizesAssumption DEF TypeOK, BytesInv, CallersInv, AbandonWrite
    <2>2. CallersInv'
        BY <1>0, <1>1, SizesAssumption DEF TypeOK, BytesInv, CallersInv, AbandonWrite
    <2> QED BY <2>1, <2>2 DEF IInv
<1>2. CASE AbandonRead
    <2>1. TypeOK' /\ BytesInv'
        BY <1>0, <1>2, SizesAssumption DEF TypeOK, BytesInv, CallersInv, AbandonRead
    <2>2. CallersInv'
        BY <1>0, <1>2, SizesAssumption DEF TypeOK, BytesInv, CallersInv, AbandonRead
    <2> QED BY <2>1, <2>2 DEF IInv
<1>3. CASE Reset
    <2>1. TypeOK' /\ BytesInv'
        BY <1>0, <1>3, SizesAssumption DEF TypeOK, BytesInv, CallersInv, Reset, Leave
    <2>2. CallersInv'
        BY <1>0, <1>3, SizesAssumption DEF TypeOK, BytesInv, CallersInv, Reset, Leave
    <2> QED BY <2>1, <2>2 DEF IInv
<1>4. CASE StopSending
    <2>1. TypeOK' /\ BytesInv'
        BY <1>0, <1>4, SizesAssumption DEF TypeOK, BytesInv, CallersInv, StopSending
    <2>2. CallersInv'
        BY <1>0, <1>4, SizesAssumption DEF TypeOK, BytesInv, CallersInv, StopSending
    <2> QED BY <2>1, <2>2 DEF IInv
<1>5. CASE ConnectionLost
    <2>1. TypeOK' /\ BytesInv'
        BY <1>0, <1>5, SizesAssumption DEF TypeOK, BytesInv, CallersInv, ConnectionLost
    <2>2. CallersInv'
        BY <1>0, <1>5, SizesAssumption DEF TypeOK, BytesInv, CallersInv, ConnectionLost
    <2> QED BY <2>1, <2>2 DEF IInv
<1> QED
    BY <1>1, <1>2, <1>3, <1>4, <1>5 DEF Disturbance

\* Every reachable state satisfies the invariant.
THEOREM StreamInvariance == Spec => []IInv
<1>1. Init => IInv
    BY InitIInv
<1>2. ASSUME IInv, UNCHANGED vars
      PROVE  IInv'
    <2>1. /\ writer' = writer /\ writing' = writing /\ left' = left /\ queued' = queued
          /\ wrote' = wrote /\ sending' = sending /\ wanted' = wanted /\ conn' = conn
          /\ stream' = stream /\ reader' = reader /\ got' = got
        BY <1>2 DEF vars, send, recv
    <2> QED BY <1>2, <2>1 DEF IInv, TypeOK, BytesInv, CallersInv
<1>3. IInv /\ [Next]_vars => IInv'
    BY <1>2, SendIInv, RecvIInv, FaultIInv DEF Next
<1> QED BY <1>1, <1>3, PTL DEF Spec

\* No finish overtakes the buffer: what a reader takes for all the bytes are all
\* the bytes, unless the writer left in the middle of a write.
THEOREM EndsAreEnds == Spec => []EndIsEnd
<1>1. IInv => EndIsEnd
    BY DEF IInv, TypeOK, BytesInv, CallersInv, EndIsEnd
<1> QED BY <1>1, StreamInvariance, PTL

\* A reader that does not drop its futures is never without its stream.
THEOREM StreamIsBack ==
    ASSUME "read" \notin Abandons
    PROVE  Spec => []NoPanic
<1>1. IInv => NoPanic
    BY DEF IInv, CallersInv, NoPanic
<1> QED BY <1>1, StreamInvariance, PTL

(***************************************************************************)
(* A direction of a stream is a byte channel, which only a writer cuts     *)
(* that abandoned a write for good or was dropped in one.  Every call and  *)
(* every event is one step of the channel, or none.                        *)
(***************************************************************************)
THEOREM Refinement == Spec => ImplementsByteChannel
<1>1. Init => channel!Init
    BY DEF Init, channel!Init, End, Seen
<1>2. ASSUME IInv, [Next]_vars
      PROVE  [channel!Next]_channel!vars
    <2> USE DEF send, recv, End, Seen
    <2>0. TypeOK /\ BytesInv /\ CallersInv
        BY <1>2 DEF IInv
    <2>1. ASSUME NEW n \in 1..MaxBuffer, SendData(n)
          PROVE  channel!Accept
        BY <2>0, <2>1, SizesAssumption
        DEF TypeOK, BytesInv, CallersInv, SendData, channel!Accept
    <2>2. ASSUME NEW n \in 1..MaxBuffer, Write(n)
          PROVE  UNCHANGED channel!vars
        BY <2>0, <2>2, SizesAssumption
        DEF TypeOK, BytesInv, CallersInv, Write, channel!vars
    <2>3. ASSUME SendDataRefused
          PROVE  UNCHANGED channel!vars
        BY <2>0, <2>3, SizesAssumption
        DEF TypeOK, BytesInv, CallersInv, SendDataRefused, channel!vars
    <2>4. ASSUME PollReady
          PROVE  channel!TakeUp \/ UNCHANGED channel!vars
        BY <2>0, <2>4, SizesAssumption
        DEF TypeOK, BytesInv, CallersInv, PollReady, channel!TakeUp, channel!vars
    <2>5. ASSUME WriteFails
          PROVE  UNCHANGED channel!vars
        BY <2>0, <2>5, SizesAssumption
        DEF TypeOK, BytesInv, CallersInv, WriteFails, channel!vars
    <2>6. ASSUME Flushed
          PROVE  UNCHANGED channel!vars
        BY <2>0, <2>6, SizesAssumption
        DEF TypeOK, BytesInv, CallersInv, Flushed, channel!vars
    <2>7. ASSUME PollFinish
          PROVE  channel!Close \/ channel!Cut \/ UNCHANGED channel!vars
        BY <2>0, <2>7, SizesAssumption
        DEF TypeOK, BytesInv, CallersInv, PollFinish, Leave, channel!Close, channel!Cut,
            channel!vars
    <2>8. ASSUME DropSend
          PROVE  channel!Close \/ channel!Cut \/ UNCHANGED channel!vars
        BY <2>0, <2>8, SizesAssumption
        DEF TypeOK, BytesInv, CallersInv, DropSend, Leave, channel!Close, channel!Cut,
            channel!vars
    <2>9. ASSUME PollData
          PROVE  UNCHANGED channel!vars
        BY <2>0, <2>9, SizesAssumption
        DEF TypeOK, BytesInv, CallersInv, PollData, channel!vars
    <2>10. ASSUME NEW n \in 1..Window, Read(n)
          PROVE  channel!Deliver
        BY <2>0, <2>10, SizesAssumption
        DEF TypeOK, BytesInv, CallersInv, Read, channel!Deliver
    <2>11. ASSUME ReadEof
          PROVE  channel!SeeEof
        BY <2>0, <2>11, SizesAssumption
        DEF TypeOK, BytesInv, CallersInv, ReadEof, channel!SeeEof
    <2>12. ASSUME ReadFails
          PROVE  channel!SeeError
        BY <2>0, <2>12, SizesAssumption
        DEF TypeOK, BytesInv, CallersInv, ReadFails, channel!SeeError
    <2>13. ASSUME AbandonWrite
          PROVE  channel!Abandon \/ UNCHANGED channel!vars
        BY <2>0, <2>13, SizesAssumption
        DEF TypeOK, BytesInv, CallersInv, AbandonWrite, channel!Abandon, channel!vars
    <2>14. ASSUME AbandonRead
          PROVE  UNCHANGED channel!vars
        BY <2>0, <2>14, SizesAssumption
        DEF TypeOK, BytesInv, CallersInv, AbandonRead, channel!vars
    <2>15. ASSUME Reset
          PROVE  channel!Break
        BY <2>0, <2>15, SizesAssumption
        DEF TypeOK, BytesInv, CallersInv, Reset, Leave, channel!Break
    <2>16. ASSUME StopSending
          PROVE  channel!Break \/ UNCHANGED channel!vars
        BY <2>0, <2>16, SizesAssumption
        DEF TypeOK, BytesInv, CallersInv, StopSending, channel!Break, channel!vars
    <2>17. ASSUME ConnectionLost
          PROVE  channel!Break
        BY <2>0, <2>17, SizesAssumption
        DEF TypeOK, BytesInv, CallersInv, ConnectionLost, channel!Break
    <2>18. CASE UNCHANGED vars
        BY <2>18 DEF vars, channel!vars
    <2> QED
        BY <1>2, <2>1, <2>2, <2>3, <2>4, <2>5, <2>6, <2>7, <2>8, <2>9, <2>10, <2>11,
           <2>12, <2>13, <2>14, <2>15, <2>16, <2>17, <2>18
        DEF Next, SendStep, RecvStep, Disturbance, channel!Next
<1> QED BY <1>1, <1>2, StreamInvariance, PTL DEF Spec, ImplementsByteChannel, channel!Spec
=============================================================================
