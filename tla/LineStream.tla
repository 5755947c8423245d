----------------------------- MODULE LineStream -----------------------------
(***************************************************************************)
(* The streams of a response body: SseStream (response/sse.rs) and         *)
(* NdjsonStream (response/ndjson.rs).  Both buffer the frames of the body  *)
(* until a line is complete, and differ in what they make of a line.       *)
(*                                                                         *)
(* A body is a sequence of pieces: "nl" is a newline, "sp" whitespace of   *)
(* any other kind, "data:", "id:" and "event:" are the names of fields,    *)
(* and "x" is anything else (for JSON, a digit).  A line that is a name    *)
(* without its colon is not told from the name with an empty value, which  *)
(* process_line takes it for.  The peer sends a body in frames of any      *)
(* length; the body may also fail, or end in trailers.  The caller polls   *)
(* from a task that sleeps until its waker is called.  A string with       *)
(* newlines in it, the data of an event, is the sequence of its lines,     *)
(* <<>> if it is empty.                                                    *)
(***************************************************************************)
EXTENDS Naturals, Sequences, SequencesExt

CONSTANTS
    Formats,  \* the streams considered: "sse", "ndjson"
    Bodies,   \* the texts considered
    MaxFrames \* bound on the frames that wait to be polled

Fields == {"data:", "id:", "event:"}
Pieces == {"nl", "sp", "x"} \cup Fields

ASSUME ConstantsAssumption ==
    /\ Formats \subseteq {"sse", "ndjson"}
    /\ Bodies \subseteq Seq(Pieces)
    /\ MaxFrames \in Nat \ {0}

VARIABLES
    format, text, \* which stream this is, and the body it reads
    peer,         \* "sending", "trailed" or "done"
    arrived,      \* pieces of text that have arrived,
    frames,       \* ... and the frames from and to which they were cut,
                  \*     those not yet polled
    task,         \* the caller: "awake", "asleep", or done: "ended", "failed"
    buffer,       \* the pieces of the last, incomplete line
    pending,      \* SseStream.pending_event
    ready,        \* ready_events, or NdjsonStream's queue
    lastId,       \* last_event_id, <<>> for None
    returned      \* history: the items the caller got

body == <<format, text>>
vars == <<body, peer, arrived, frames, task, buffer, pending, ready, lastId, returned>>

\* id and event are <<>> or <<value>>.
NoEvent == [id |-> <<>>, event |-> <<>>, data |-> <<>>]

\* Lines are complete when they leave the buffer, and whoever has trailers has
\* the whole text.
TypeOK ==
    /\ format \in Formats /\ text \in Bodies
    /\ peer \in {"sending", "trailed", "done"}
    /\ arrived \in 0..Len(text)
    /\ frames \in Seq([kind : {"data", "trailers", "end", "error"},
                        from : 0..Len(text), to : 0..Len(text)])
    /\ task \in {"awake", "asleep", "ended", "failed"}
    /\ buffer \in Seq(Pieces \ {"nl"})
    /\ format = "ndjson" => pending = NoEvent /\ lastId = <<>>
    /\ peer = "trailed" => arrived = Len(text)

Init ==
    /\ format \in Formats /\ text \in Bodies
    /\ peer = "sending" /\ arrived = 0 /\ frames = <<>> /\ task = "awake"
    /\ buffer = <<>> /\ pending = NoEvent /\ ready = <<>> /\ lastId = <<>>
    /\ returned = <<>>

-----------------------------------------------------------------------------
(* Lines. *)

\* The members of T up to n, in ascending order.
InOrder(T) ==
    LET upTo[n \in Nat] ==
            IF n = 0 THEN <<>>
            ELSE IF n \in T THEN Append(upTo[n - 1], n) ELSE upTo[n - 1]
    IN  upTo

\* Mutant: a line that wraps around loses its second part.
SliceOfFirst(b, wrap, start, end) == SubSeq(b, start + 1, IF end <= wrap THEN end ELSE wrap)

\* b[start..end] of a ring buffer whose slices are b[..wrap] and b[wrap..].
Slice(b, wrap, start, end) ==
    LET s1 == SubSeq(b, 1, wrap)
        s2 == SubSeq(b, wrap + 1, Len(b))
    IN  IF end <= wrap THEN SubSeq(s1, start + 1, end)
        ELSE IF start >= wrap THEN SubSeq(s2, start - wrap + 1, end - wrap)
        ELSE SubSeq(s1, start + 1, wrap) \o SubSeq(s2, 1, end - wrap)

\* append_frame looks for newlines behind the old pieces of the buffer only, ...
NewEnds(b, old) == InOrder({i \in (old + 1)..Len(b) : b[i] = "nl"})[Len(b)]

\* ... each of which ends the line that began after the one before it, ...
Lines(b, old, wrap) ==
    LET ends == NewEnds(b, old)
    IN  [k \in DOMAIN ends |-> Slice(b, wrap, IF k = 1 THEN 0 ELSE ends[k - 1], ends[k] - 1)]

\* Mutant: the newline itself is left in the buffer.
RestFromNewline(b, old) ==
    LET ends == NewEnds(b, old)
    IN  IF ends = <<>> THEN b ELSE SubSeq(b, Last(ends), Len(b))

\* ... and what is behind the last one stays in the buffer.
Rest(b, old) ==
    LET ends == NewEnds(b, old)
    IN  IF ends = <<>> THEN b ELSE SubSeq(b, Last(ends) + 1, Len(b))

\* str::trim_start and str::trim_end.
TrimStart(s) ==
    LET solid == {i \in DOMAIN s : s[i] # "sp"}
    IN  IF solid = {} THEN <<>> ELSE SubSeq(s, Min(solid), Len(s))

TrimEnd(s) ==
    LET solid == {i \in DOMAIN s : s[i] # "sp"}
    IN  IF solid = {} THEN <<>> ELSE SubSeq(s, 1, Max(solid))

\* SseStream::process_line of a line without the whitespace at its end.
ProcessLine(st, line) ==
    IF line = <<>> THEN [st EXCEPT !.ready = Append(@, st.pending), !.pending = NoEvent]
    ELSE LET value == TrimStart(Tail(line)) IN
         CASE Head(line) = "data:" ->
                  [st EXCEPT !.pending.data =
                       IF @ = <<>> /\ value = <<>> THEN @ ELSE Append(@, value)]
           [] Head(line) = "id:" -> [st EXCEPT !.pending.id = <<value>>, !.lastId = <<value>>]
           [] Head(line) = "event:" -> [st EXCEPT !.pending.event = <<value>>]
           [] Head(line) \notin Fields -> st

\* serde_json::from_slice: a value, or an error that is an item like any other.
Deserialize(line) ==
    LET json == TrimEnd(TrimStart(line))
    IN  IF json # <<>> /\ \A i \in DOMAIN json : json[i] = "x" THEN <<"Ok", json>>
        ELSE <<"Err">>

\* What one line does to an NdjsonStream.
PushValue(st, line) == [st EXCEPT !.ready = Append(@, Deserialize(line))]

\* append_frame: what becomes of a stream's state.
Appended(lines) ==
    LET after[k \in 0..Len(lines)] ==
            IF k = 0 THEN [pending |-> pending, ready |-> ready, lastId |-> lastId]
            ELSE IF format = "sse" THEN ProcessLine(after[k - 1], TrimEnd(lines[k]))
            ELSE PushValue(after[k - 1], lines[k])
    IN  after[Len(lines)]

-----------------------------------------------------------------------------
(* The body: frames arrive, and wake the task. *)

Push(kind, to) ==
    /\ Len(frames) < MaxFrames
    /\ frames' = Append(frames, [kind |-> kind, from |-> arrived, to |-> to])
    /\ arrived' = to
    /\ task' = IF task = "asleep" THEN "awake" ELSE task
    /\ UNCHANGED <<body, buffer, pending, ready, lastId, returned>>

Data(n) ==
    /\ peer = "sending"
    /\ arrived + n <= Len(text)
    /\ Push("data", arrived + n)
    /\ UNCHANGED peer

Trailers ==
    /\ peer = "sending"
    /\ arrived = Len(text)
    /\ Push("trailers", arrived)
    /\ peer' = "trailed"

\* The end of the body after all of it, or an error at any time.
LastFrame ==
    /\ peer # "done"
    /\ \/ arrived = Len(text) /\ Push("end", arrived)
       \/ Push("error", arrived)
    /\ peer' = "done"

-----------------------------------------------------------------------------
(* poll_next. *)

\* Mutant: a poll that has nothing to return asks to be woken by the body.
PollPendingUnwoken == task' = "asleep" /\ UNCHANGED <<ready, returned>>

\* Poll::Pending after wake_by_ref: the task polls again.
PollPending == task' = "awake" /\ UNCHANGED <<ready, returned>>

\* A queued item is returned before the body is polled.
PollQueued ==
    /\ task = "awake"
    /\ ready # <<>>
    /\ returned' = Append(returned, Head(ready))
    /\ ready' = Tail(ready)
    /\ UNCHANGED <<body, peer, arrived, frames, task, buffer, pending, lastId>>

\* Mutant: the body is polled whatever is queued.
PollsAnyway == task = "awake"

PollsBody == task = "awake" /\ ready = <<>>

Polls(kind) ==
    /\ PollsBody
    /\ frames # <<>> /\ Head(frames).kind = kind
    /\ frames' = Tail(frames)
    /\ UNCHANGED <<body, peer, arrived>>

\* A DATA frame; the first item it completes is returned by the same poll.
PollData ==
    /\ Polls("data")
    /\ \E b \in {buffer \o SubSeq(text, Head(frames).from + 1, Head(frames).to)} :
       \E wrap \in 1..Len(b) :
       \E lines \in {Lines(b, Len(buffer), wrap)} : \E st \in {Appended(lines)} :
        /\ buffer' = Rest(b, Len(buffer))
        /\ pending' = st.pending /\ lastId' = st.lastId
        /\ \/ /\ st.ready # <<>>
              /\ returned' = Append(returned, Head(st.ready))
              /\ ready' = Tail(st.ready)
              /\ UNCHANGED task
           \/ /\ st.ready = <<>>
              /\ PollPending

PollTrailers ==
    /\ Polls("trailers")
    /\ PollPending
    /\ UNCHANGED <<buffer, pending, lastId>>

\* None or an error is returned; an incomplete line or event is left where it is.
PollLast ==
    /\ \/ Polls("end") /\ task' = "ended"
       \/ Polls("error") /\ task' = "failed"
    /\ UNCHANGED <<buffer, pending, ready, lastId, returned>>

\* There is no frame: the body keeps the waker.
PollNothing ==
    /\ PollsBody
    /\ frames = <<>>
    /\ task' = "asleep"
    /\ UNCHANGED <<body, peer, arrived, frames, buffer, pending, ready, lastId, returned>>

PollNext == PollQueued \/ PollData \/ PollTrailers \/ PollLast \/ PollNothing

Arrive == (\E n \in 1..(Len(text) - arrived) : Data(n)) \/ Trailers \/ LastFrame

Next == PollNext \/ Arrive

Spec == Init /\ [][Next]_vars

\* A task that is awake is polled; the peer need not send anything.
FairSpec == Spec /\ WF_vars(PollNext)

-----------------------------------------------------------------------------
(* What a text means, without frames, buffers and queues. *)

\* The parts of s that end at the places in T, and the one that is left open.
Parts(s, T) ==
    LET ends == InOrder(T)[Len(s)]
    IN  [k \in DOMAIN ends |-> SubSeq(s, IF k = 1 THEN 1 ELSE ends[k - 1] + 1, ends[k] - 1)]

Open(s, T) ==
    LET ends == InOrder(T)[Len(s)]
    IN  SubSeq(s, IF ends = <<>> THEN 1 ELSE Last(ends) + 1, Len(s))

Newlines(s) == {i \in DOMAIN s : s[i] = "nl"}
LinesOf(s) == Parts(s, Newlines(s))

\* The values that a sequence of lines gives to a field.
ValuesOf(lines, field) ==
    LET named == {k \in DOMAIN lines :
                      TrimEnd(lines[k]) # <<>> /\ Head(TrimEnd(lines[k])) = field}
        mine == InOrder(named)[Len(lines)]
    IN  [k \in DOMAIN mine |-> TrimStart(Tail(TrimEnd(lines[mine[k]])))]

LastOf(values) == IF values = <<>> THEN <<>> ELSE <<Last(values)>>

\* Values are joined by newlines; empty ones at the beginning do not count.
Joined(values) ==
    LET solid == {k \in DOMAIN values : values[k] # <<>>}
    IN  IF solid = {} THEN <<>> ELSE SubSeq(values, Min(solid), Len(values))

EventOf(lines) ==
    [id |-> LastOf(ValuesOf(lines, "id:")), event |-> LastOf(ValuesOf(lines, "event:")),
     data |-> Joined(ValuesOf(lines, "data:"))]

\* The events of a text end at its blank lines.
Blank(lines) == {k \in DOMAIN lines : TrimEnd(lines[k]) = <<>>}

EventsOf(lines) ==
    LET parts == Parts(lines, Blank(lines))
    IN  [k \in DOMAIN parts |-> EventOf(parts[k])]

Items(lines) ==
    IF format = "sse" THEN EventsOf(lines) ELSE [k \in DOMAIN lines |-> Deserialize(lines[k])]

-----------------------------------------------------------------------------
(* Properties. *)

\* How much of the text has been polled.
Polled == IF frames = <<>> THEN arrived ELSE Head(frames).from

\* The frames that wait are cut from the rest of the text, one after the
\* other, and the end or an error is the last.
FramesInv ==
    /\ \A k \in DOMAIN frames :
           /\ frames[k].from <= frames[k].to
           /\ frames[k].to = IF k = Len(frames) THEN arrived ELSE frames[k + 1].from
           /\ frames[k].kind = "data" <=> frames[k].from < frames[k].to
           /\ frames[k].kind \in {"end", "error"} => k = Len(frames) /\ peer = "done"
    /\ task = "asleep" => frames = <<>> /\ ready = <<>>
    /\ task \in {"ended", "failed"} => frames = <<>> /\ ready = <<>> /\ peer = "done"

(***************************************************************************)
(* What is kept between two frames is what the text polled so far leaves   *)
(* open: the pieces of its last line, and the fields of its last event     *)
(* (sse.rs:173-176, 186).                                                  *)
(***************************************************************************)
IInv ==
    /\ TypeOK
    /\ FramesInv
    /\ LET polled == SubSeq(text, 1, Polled)
           lines == LinesOf(polled)
       IN  /\ buffer = Open(polled, Newlines(polled))
           /\ format = "sse" => pending = EventOf(Open(lines, Blank(lines)))

(***************************************************************************)
(* "Handles arbitrary frame boundaries" (sse.rs:37, ndjson.rs:20): what is *)
(* returned and queued are the items of the text polled so far, in order,  *)
(* none lost, split or merged, however the text was cut into frames; and   *)
(* last_event_id is "the most recent `id:` field received" (sse.rs:77).    *)
(***************************************************************************)
FramingDoesNotMatter ==
    LET lines == LinesOf(SubSeq(text, 1, Polled))
    IN  /\ returned \o ready = Items(lines)
        /\ format = "sse" => lastId = LastOf(ValuesOf(lines, "id:"))

(***************************************************************************)
(* "Emits values as soon as they are complete" (ndjson.rs:23): a task that *)
(* sleeps, or was told of the end or of an error, has got every item that  *)
(* was complete in what had arrived.  No wake-up is lost, and no error or  *)
(* end overtakes an item.                                                  *)
(***************************************************************************)
NothingHeldBack == task # "awake" => returned = Items(LinesOf(SubSeq(text, 1, arrived)))

(***************************************************************************)
(* A body that came to its end is read to it: no poll of a frame that      *)
(* completes nothing (sse.rs:260, ndjson.rs:245) is the last.              *)
(***************************************************************************)
StreamEnds == peer = "done" ~> task \in {"ended", "failed"}
=============================================================================
