--------------------------- MODULE TransportStream ---------------------------
(***************************************************************************)
(* One direction of a QUIC stream between the adapters of iroh-h3: a       *)
(* SendStream with its buffer being written, and at the other end a        *)
(* RecvStream that lends its QUIC stream to a future while it reads.       *)
(*                                                                         *)
(* The callers are h3's: a writer hands over a buffer (send_data) and      *)
(* polls until it is written (poll_ready), a reader polls for chunks       *)
(* (poll_data).  Both do so in futures that may be dropped at any poll,    *)
(* and use the stream again after that.  Bytes are counted; QUIC keeps     *)
(* their order.                                                            *)
(***************************************************************************)
EXTENDS Naturals

CONSTANTS
    MaxBytes,  \* bound on the bytes a writer hands over
    MaxBuffer, \* the longest buffer
    Window,    \* QUIC's flow control window
    Abandons,  \* futures that may be dropped: "write", "read"
    Faults     \* "stop", "reset", "drop", "loss"

ASSUME SizesAssumption ==
    /\ MaxBytes \in Nat
    /\ MaxBuffer \in Nat \ {0}
    /\ Window \in Nat \ {0}

VARIABLES
    (* SendStream and its caller *)
    writer,   \* "idle", "flushing" (in poll_ready), "abandoned" (it dropped that
              \* future), "failed", "done", or "cut" (left with a write unfinished)
    writing,  \* whether there is a buffer: "none", "some"
    left,     \* what remains of it
    queued,   \* bytes handed over
    wrote,    \* bytes written to QUIC
    sending,  \* QUIC's sending half: "open", "finished", "reset"
    (* QUIC *)
    wanted,   \* "no" once the reader stopped the stream
    conn,     \* "open", "lost"
    (* RecvStream and its caller *)
    stream,   \* "here", or "lent" to the future that reads a chunk
    reader,   \* "idle", "polling", "eof", "failed", "stopped", "panicked"
    got       \* bytes read

send == <<writer, writing, left, queued, wrote, sending>>
recv == <<stream, reader, got>>
vars == <<send, wanted, conn, recv>>

\* The adapters and their callers are in one of these states.
TypeOK ==
    /\ writer \in {"idle", "flushing", "abandoned", "failed", "done", "cut"}
    /\ writing \in {"none", "some"}
    /\ left \in 0..MaxBuffer /\ queued \in Nat /\ wrote \in Nat /\ got \in Nat
    /\ sending \in {"open", "finished", "reset"}
    /\ wanted \in {"yes", "no"} /\ conn \in {"open", "lost"}
    /\ stream \in {"here", "lent"}
    /\ reader \in {"idle", "polling", "eof", "failed", "stopped", "panicked"}

Init ==
    /\ writer = "idle" /\ writing = "none" /\ left = 0 /\ queued = 0 /\ wrote = 0
    /\ sending = "open" /\ wanted = "yes" /\ conn = "open"
    /\ stream = "here" /\ reader = "idle" /\ got = 0

-----------------------------------------------------------------------------
(* SendStream. *)

\* Mutant: a buffer being written is replaced.
SendDataAnyway(n) ==
    /\ writer \in {"idle", "abandoned"}
    /\ queued + n <= MaxBytes
    /\ writing' = "some" /\ left' = n /\ queued' = queued + n
    /\ writer' = "flushing"
    /\ UNCHANGED <<wrote, sending, wanted, conn, recv>>

\* send_data, and the caller goes on to poll_ready.
SendData(n) ==
    /\ writer \in {"idle", "abandoned"}
    /\ writing = "none"
    /\ queued + n <= MaxBytes
    /\ writing' = "some" /\ left' = n /\ queued' = queued + n
    /\ writer' = "flushing"
    /\ UNCHANGED <<wrote, sending, wanted, conn, recv>>

\* send_data while a buffer is being written, because the future that was
\* writing it is gone: an error.
SendDataRefused ==
    /\ writer \in {"idle", "abandoned"}
    /\ writing = "some"
    /\ writer' = "failed"
    /\ UNCHANGED <<writing, left, queued, wrote, sending, wanted, conn, recv>>

\* poll_ready without new data.
PollReady ==
    /\ writer \in {"idle", "abandoned"}
    /\ writing = "some"
    /\ writer' = "flushing"
    /\ UNCHANGED <<writing, left, queued, wrote, sending, wanted, conn, recv>>

\* One poll_write of poll_ready's loop takes part of what remains.
Write(n) ==
    /\ writer = "flushing"
    /\ n <= left
    /\ wrote + n <= got + Window
    /\ wanted = "yes" /\ conn = "open" /\ sending = "open"
    /\ wrote' = wrote + n /\ left' = left - n
    /\ UNCHANGED <<writer, writing, queued, sending, wanted, conn, recv>>

\* poll_write fails: poll_ready returns, the buffer stays.
WriteFails ==
    /\ writer = "flushing"
    /\ left > 0
    /\ wanted = "no" \/ conn = "lost"
    /\ writer' = "failed"
    /\ UNCHANGED <<writing, left, queued, wrote, sending, wanted, conn, recv>>

\* Mutant: poll_ready is ready after one write, and the rest stays in the buffer.
FlushedOnce ==
    /\ writer = "flushing"
    /\ wrote > 0
    /\ writing' = (IF left = 0 THEN "none" ELSE "some") /\ writer' = "idle"
    /\ UNCHANGED <<left, queued, wrote, sending, wanted, conn, recv>>

\* Nothing remains: poll_ready is ready.
Flushed ==
    /\ writer = "flushing"
    /\ left = 0
    /\ writing' = "none" /\ writer' = "idle"
    /\ UNCHANGED <<left, queued, wrote, sending, wanted, conn, recv>>

AbandonWrite ==
    /\ "write" \in Abandons
    /\ writer = "flushing"
    /\ writer' = "abandoned"
    /\ UNCHANGED <<writing, left, queued, wrote, sending, wanted, conn, recv>>

\* A caller that is told that its writes are finished has done all it wanted.
Leave == writer' = IF writer = "idle" THEN "done" ELSE "cut"

\* poll_finish finishes the QUIC stream whatever is still in the buffer.
PollFinish ==
    /\ writer \in {"idle", "abandoned"}
    /\ sending' = "finished" /\ Leave
    /\ UNCHANGED <<writing, left, queued, wrote, wanted, conn, recv>>

Reset ==
    /\ "reset" \in Faults
    /\ writer \in {"idle", "abandoned"}
    /\ sending' = "reset" /\ Leave
    /\ UNCHANGED <<writing, left, queued, wrote, wanted, conn, recv>>

\* The SendStream is dropped: QUIC finishes a stream that was left open.
DropSend ==
    /\ \/ writer = "failed"
       \/ "drop" \in Faults /\ writer \in {"idle", "flushing", "abandoned"}
    /\ sending' = "finished" /\ Leave
    /\ UNCHANGED <<writing, left, queued, wrote, wanted, conn, recv>>

-----------------------------------------------------------------------------
(* RecvStream. *)

\* Mutant: every poll_data wants the stream.
PollIfHere ==
    /\ reader = "idle"
    /\ stream = "here"
    /\ reader' = "polling" /\ stream' = "lent"
    /\ UNCHANGED <<got, send, wanted, conn>>

\* poll_data takes the stream, or goes on with the future that has it.
PollData ==
    /\ reader = "idle"
    /\ reader' = "polling" /\ stream' = "lent"
    /\ UNCHANGED <<got, send, wanted, conn>>

\* read_chunk returned a chunk, and the stream.
Read(n) ==
    /\ reader = "polling"
    /\ got + n <= wrote
    /\ got' = got + n
    /\ reader' = "idle" /\ stream' = "here"
    /\ UNCHANGED <<send, wanted, conn>>

\* Mutant: what has not been read yet is forgotten at the end.
ReadEofEarly ==
    /\ reader = "polling"
    /\ sending = "finished"
    /\ conn = "open"
    /\ reader' = "eof" /\ stream' = "here"
    /\ UNCHANGED <<got, send, wanted, conn>>

ReadEof ==
    /\ reader = "polling"
    /\ got = wrote
    /\ sending = "finished"
    /\ conn = "open"
    /\ reader' = "eof" /\ stream' = "here"
    /\ UNCHANGED <<got, send, wanted, conn>>

\* The stream was reset or the connection lost, whatever was on its way.
ReadFails ==
    /\ reader = "polling"
    /\ sending = "reset" \/ conn = "lost"
    /\ reader' = "failed" /\ stream' = "here"
    /\ UNCHANGED <<got, send, wanted, conn>>

AbandonRead ==
    /\ "read" \in Abandons
    /\ reader = "polling"
    /\ reader' = "idle"
    /\ UNCHANGED <<stream, got, send, wanted, conn>>

\* stop_sending unwraps the stream, which is away while a read is pending: the
\* panic drops the RecvStream, and that stops the stream as well.  (recv_id
\* unwraps it, too.)
StopSending ==
    /\ "stop" \in Faults
    /\ reader = "idle"
    /\ reader' = IF stream = "here" THEN "stopped" ELSE "panicked"
    /\ wanted' = "no"
    /\ UNCHANGED <<stream, got, send, conn>>

ConnectionLost ==
    /\ "loss" \in Faults
    /\ conn' = "lost"
    /\ UNCHANGED <<send, wanted, recv>>

-----------------------------------------------------------------------------

SendStep ==
    \/ \E n \in 1..MaxBuffer : SendData(n) \/ Write(n)
    \/ SendDataRefused \/ PollReady \/ WriteFails \/ Flushed \/ PollFinish \/ DropSend

Flush == (\E n \in 1..MaxBuffer : Write(n)) \/ WriteFails \/ Flushed

RecvStep == PollData \/ (\E n \in 1..Window : Read(n)) \/ ReadEof \/ ReadFails

Disturbance == AbandonWrite \/ AbandonRead \/ Reset \/ StopSending \/ ConnectionLost

Next == SendStep \/ RecvStep \/ Disturbance

Spec == Init /\ [][Next]_vars

\* A reader goes on reading, also after it dropped a future, and what is being
\* polled makes progress.  Reads need strong fairness: AbandonRead may disable
\* them again and again, but a poll of a stream that has something to read
\* completes in the same call, so that no reader can drop every one of them.
Fairness ==
    /\ WF_vars(Flush)
    /\ WF_vars(PollData)
    /\ SF_vars((\E n \in 1..Window : Read(n)) \/ ReadEof \/ ReadFails)

FairSpec == Spec /\ Fairness

-----------------------------------------------------------------------------
(* Safety. *)

\* Every byte handed over is in the buffer or in QUIC, none twice, within the
\* window.
BytesInv ==
    /\ queued = wrote + left
    /\ got <= wrote /\ wrote <= got + Window
    /\ writing = "none" => left = 0

\* A half is left with a buffer, closed or without its stream only by those who
\* may do so.
CallersInv ==
    /\ writer = "flushing" => writing = "some" /\ sending = "open"
    /\ writer \in {"idle", "abandoned", "failed"} => sending = "open"
    /\ writer \in {"idle", "done"} => writing = "none"
    /\ writer = "abandoned" => writing = "some" /\ "write" \in Abandons
    /\ writer = "failed" => wanted = "no" \/ conn = "lost" \/ "write" \in Abandons
    /\ sending = "finished" => writer \in {"done", "cut"}
    /\ sending = "finished" /\ writer = "cut" =>
           wanted = "no" \/ conn = "lost" \/ "write" \in Abandons \/ "drop" \in Faults
    /\ wanted = "no" => reader \in {"stopped", "panicked"}
    /\ reader = "polling" => stream = "lent"
    /\ stream = "lent" => reader = "polling" \/ "read" \in Abandons
    /\ reader = "panicked" => "read" \in Abandons
    /\ reader = "eof" => sending = "finished" /\ got = wrote
    /\ reader = "failed" => sending = "reset" \/ conn = "lost"

(***************************************************************************)
(* No byte is lost or written twice however writes are split, dropped and  *)
(* taken up again (poll_ready's loop, lib.rs:518), a half is closed only   *)
(* by its writer, and the QUIC stream is away (lib.rs:427) only while      *)
(* somebody reads, or left a read.                                         *)
(***************************************************************************)
IInv == TypeOK /\ BytesInv /\ CallersInv

(***************************************************************************)
(* A finish does not overtake the buffer (poll_finish does not look at     *)
(* it, lib.rs:535): a writer whose writes were all reported as finished,   *)
(* in this or in a later future, leaves a reader that is told of the end   *)
(* with every byte handed over.                                            *)
(***************************************************************************)
EndIsEnd == reader = "eof" /\ writer = "done" => got = queued

(***************************************************************************)
(* "Cancels further reception on this stream" (lib.rs:439), whatever the   *)
(* state of the reader.                                                    *)
(***************************************************************************)
NoPanic == reader # "panicked"

\* How the writer ended, in the eyes of the abstract channel.
End ==
    IF wanted = "no" \/ conn = "lost" \/ sending = "reset" THEN "broken"
    ELSE IF sending = "open"
    THEN IF writer \in {"abandoned", "failed"} THEN "abandoned" ELSE "open"
    ELSE IF writer = "done" THEN "closed" ELSE "cut"

\* What the reader knows of it.
Seen == IF reader = "eof" THEN "eof" ELSE IF reader = "failed" THEN "error" ELSE "nothing"

channel == INSTANCE ByteChannel WITH
    Cutters <- (Abandons \cap {"write"}) \cup (Faults \cap {"drop"}),
    accepted <- queued, delivered <- got, end <- End, seen <- Seen

(***************************************************************************)
(* "Finishes sending data on this stream and closes it gracefully"         *)
(* (lib.rs:530): a direction of a stream is a byte channel, whose end is   *)
(* the end of all data, and is cut only by a writer that abandoned a write *)
(* and did not take it up again, or was dropped in the middle of one.      *)
(***************************************************************************)
ImplementsByteChannel == channel!Spec

-----------------------------------------------------------------------------
(* Liveness. *)

ReaderEnded == reader \in {"eof", "failed", "stopped", "panicked"}

(***************************************************************************)
(* A finished stream is read to its end and a flush comes to an end,       *)
(* although reads are dropped and taken up again.                          *)
(***************************************************************************)
StreamDrains ==
    /\ sending = "finished" ~> ReaderEnded
    /\ writer = "flushing" ~> writer # "flushing"

=============================================================================
