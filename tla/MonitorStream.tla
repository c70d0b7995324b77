----------------------------- MODULE MonitorStream -----------------------------
(***************************************************************************)
(* MonitorStream of src/src/sys.rs: server log lines cut out of the chunks   *)
(* of an HTTP body.  poll_next is a loop that looks for a newline in the     *)
(* retained chunk, buffers what has none, and fetches the next chunk, up to   *)
(* a budget of chunks per poll.                                              *)
(*                                                                          *)
(* A byte is named by its position in the whole body, so that a buffer says   *)
(* which bytes it holds; text tells which of them are newlines.  One turn of  *)
(* the loop is two actions, the look at the retained chunk and the look at    *)
(* the body, because the network may deliver in between.  The HTTP body and   *)
(* the executor are external.                                                *)
(***************************************************************************)
EXTENDS Integers, Sequences

CONSTANTS
  MaxFrame,      \* MonitorOptions::max_frame_bytes
  MaxTransport,  \* MAX_MONITOR_TRANSPORT_CHUNK_BYTES
  Budget,        \* MAX_MONITOR_CHUNKS_PER_POLL
  MaxText,       \* bound: bytes the body delivers
  MaxChunk       \* bound: bytes of one chunk

ASSUME LimitAssumption ==
  /\ MaxFrame \in Nat \ {0} /\ MaxTransport \in Nat \ {0} /\ Budget \in Nat \ {0}
  /\ MaxText \in Nat /\ MaxChunk \in Nat

VARIABLES
  chunk, chunk_offset, pending, terminal,  \* the fields of MonitorStream
  chunks_polled, \* the local counter of the poll under way
  pc,            \* "idle": not being polled; "scan", "fetch": in the loop;
                 \* "asleep": the last poll returned Pending
  net,           \* what the body would answer next
  registered,    \* the body holds the consumer's waker
  woken,         \* the consumer's task is scheduled
  text,          \* history: the bytes taken from the body, TRUE for a newline
  out,           \* history: the frames returned, each with the place of its end
  result         \* history: how the stream ended

vars == <<chunk, chunk_offset, pending, terminal, chunks_polled, pc, net, registered,
          woken, text, out, result>>

NoItem == [kind |-> "none", bytes |-> <<>>]

\* The positions a, a + 1, ..., b - 1.
Interval(a, b) == [i \in 1 .. b - a |-> a + i - 1]

-----------------------------------------------------------------------------
Init ==
  /\ chunk = <<>> /\ chunk_offset = 0 /\ pending = <<>> /\ terminal = FALSE
  /\ chunks_polled = 0
  /\ pc = "idle"
  /\ net = NoItem /\ registered = FALSE /\ woken = FALSE
  /\ text = <<>> /\ out = <<>> /\ result = "none"

(* The body: a chunk, possibly empty, an error, or the end.  It keeps one     *)
(* item until it is polled, and wakes whoever was told to wait.               *)

Arrive(item) ==
  /\ net = NoItem /\ result = "none"
  /\ net' = item
  /\ woken' = (woken \/ registered)
  /\ registered' = FALSE
  /\ UNCHANGED <<chunk, chunk_offset, pending, terminal, chunks_polled, pc, text, out, result>>

ArriveSome ==
  \/ \E n \in 0 .. MaxChunk :
       /\ Len(text) + n <= MaxText
       /\ \E b \in [1 .. n -> BOOLEAN] : Arrive([kind |-> "chunk", bytes |-> b])
  \/ Arrive([kind |-> "error", bytes |-> <<>>])
  \/ Arrive([kind |-> "end", bytes |-> <<>>])

-----------------------------------------------------------------------------
(* poll_next.  A poll is due at first, after a frame, and after a wake-up;    *)
(* it may also happen for no reason.                                         *)

Poll ==
  /\ pc \in {"idle", "asleep"}
  /\ IF terminal THEN pc' = "idle" ELSE pc' = "scan"
  /\ chunks_polled' = 0
  /\ woken' = FALSE
  /\ UNCHANGED <<chunk, chunk_offset, pending, terminal, net, registered, text, out, result>>

remaining == SubSeq(chunk, chunk_offset + 1, Len(chunk))

\* k is the place of the first newline of s.
FirstNewline(s, k) ==
  /\ k \in DOMAIN s
  /\ text[s[k]]
  /\ \A j \in 1 .. k - 1 : ~text[s[j]]

HasNewline == \E k \in DOMAIN remaining : text[remaining[k]]

\* The stream is over: what is buffered is wiped, the reason reported once.
Stop(reason) ==
  /\ terminal' = TRUE
  /\ pending' = <<>>
  /\ result' = reason
  /\ pc' = "idle"

\* frame_too_large
TooLarge ==
  /\ Stop("TooLarge")
  /\ chunk' = <<>>
  /\ UNCHANGED <<chunk_offset, chunks_polled, net, registered, woken, text, out>>

\* finish_frame and the return of its result; the line ended at position e.
finish_frame(suffix, e) ==
  /\ out' = Append(out, [bytes |-> pending \o suffix, end |-> e])
  /\ pending' = <<>>
  /\ pc' = "idle"

\* Mutant of ScanLine: the offset of a used-up chunk is kept for the next one.
ScanLineKeepingOffset ==
  /\ pc = "scan" /\ chunk # <<>>
  /\ \E k \in DOMAIN remaining :
       /\ FirstNewline(remaining, k)
       /\ IF Len(pending) + (k - 1) > MaxFrame THEN TooLarge
          ELSE /\ finish_frame(SubSeq(remaining, 1, k - 1), remaining[k])
               /\ chunk_offset' = chunk_offset + k
               /\ chunk' = IF chunk_offset' < Len(chunk) THEN chunk ELSE <<>>
               /\ UNCHANGED <<terminal, chunks_polled, net, registered, woken, text, result>>

\* The retained chunk holds a newline: a frame, or one that is too long.
ScanLine ==
  /\ pc = "scan" /\ chunk # <<>>
  /\ \E k \in DOMAIN remaining :
       /\ FirstNewline(remaining, k)
       /\ IF Len(pending) + (k - 1) > MaxFrame THEN TooLarge
          ELSE /\ finish_frame(SubSeq(remaining, 1, k - 1), remaining[k])
               /\ IF chunk_offset + k < Len(chunk)
                  THEN chunk_offset' = chunk_offset + k /\ UNCHANGED chunk
                  ELSE chunk_offset' = 0 /\ chunk' = <<>>
               /\ UNCHANGED <<terminal, chunks_polled, net, registered, woken, text, result>>

\* Mutant of ScanRest: the limit is applied to the chunk instead of the frame.
ScanRestPerChunk ==
  /\ pc = "scan" /\ chunk # <<>> /\ ~HasNewline
  /\ IF Len(remaining) > MaxFrame THEN TooLarge
     ELSE /\ pending' = pending \o remaining
          /\ chunk' = <<>> /\ chunk_offset' = 0
          /\ pc' = "fetch"
          /\ UNCHANGED <<terminal, chunks_polled, net, registered, woken, text, out, result>>

\* It holds none: all of it is buffered, up to the limit.
ScanRest ==
  /\ pc = "scan" /\ chunk # <<>> /\ ~HasNewline
  /\ IF Len(pending) + Len(remaining) > MaxFrame THEN TooLarge
     ELSE /\ pending' = pending \o remaining
          /\ chunk' = <<>> /\ chunk_offset' = 0
          /\ pc' = "fetch"
          /\ UNCHANGED <<terminal, chunks_polled, net, registered, woken, text, out, result>>

ScanNothing ==
  /\ pc = "scan" /\ chunk = <<>>
  /\ pc' = "fetch"
  /\ UNCHANGED <<chunk, chunk_offset, pending, terminal, chunks_polled, net, registered,
                 woken, text, out, result>>

\* Mutant of Yield: the task does not schedule itself again.
YieldSilently ==
  /\ pc = "fetch" /\ chunks_polled >= Budget
  /\ pc' = "asleep"
  /\ UNCHANGED <<chunk, chunk_offset, pending, terminal, chunks_polled, net, registered,
                 woken, text, out, result>>

\* The budget is used up: let other tasks run, and ask to be polled again.
Yield ==
  /\ pc = "fetch" /\ chunks_polled >= Budget
  /\ woken' = TRUE
  /\ pc' = "asleep"
  /\ UNCHANGED <<chunk, chunk_offset, pending, terminal, chunks_polled, net, registered,
                 text, out, result>>

Fetching(kind) ==
  /\ pc = "fetch" /\ chunks_polled < Budget
  /\ net.kind = kind
  /\ chunks_polled' = chunks_polled + 1

FetchPending ==
  /\ Fetching("none")
  /\ registered' = TRUE
  /\ pc' = "asleep"
  /\ UNCHANGED <<chunk, chunk_offset, pending, terminal, net, woken, text, out, result>>

\* An empty chunk is dropped and counts towards the budget; one that is too
\* large ends the stream; any other is retained.
FetchChunk ==
  /\ Fetching("chunk")
  /\ net' = NoItem
  /\ LET n == Len(net.bytes) IN
     IF n > MaxTransport
     THEN Stop("ChunkTooLarge") /\ UNCHANGED <<chunk, text>>
     ELSE /\ chunk' = Interval(Len(text) + 1, Len(text) + n + 1)
          /\ text' = text \o net.bytes
          /\ pc' = "scan"
          /\ UNCHANGED <<pending, terminal, result>>
  /\ UNCHANGED <<chunk_offset, registered, woken, out>>

FetchError ==
  /\ Fetching("error")
  /\ net' = NoItem
  /\ Stop("Transport")
  /\ UNCHANGED <<chunk, chunk_offset, registered, woken, text, out>>

\* The end of the body ends the last line too, if anything of it was there.
FetchEnd ==
  /\ Fetching("end")
  /\ net' = NoItem
  /\ terminal' = TRUE
  /\ result' = "End"
  /\ IF pending = <<>> THEN pc' = "idle" /\ UNCHANGED <<pending, out>>
     ELSE finish_frame(<<>>, Len(text) + 1)
  /\ UNCHANGED <<chunk, chunk_offset, registered, woken, text>>

-----------------------------------------------------------------------------
Loop ==
  \/ ScanLine \/ ScanRest \/ ScanNothing \/ Yield
  \/ FetchPending \/ FetchChunk \/ FetchError \/ FetchEnd

Next == ArriveSome \/ Poll \/ Loop

\* The consumer asks for the next frame, and its executor polls it when it was
\* woken; a poll under way runs on.  Nothing obliges the server to send, or the
\* executor to poll a task that nobody woke.
Fairness ==
  /\ WF_vars((pc = "idle" \/ woken) /\ Poll)
  /\ WF_vars(Loop)

Spec == Init /\ [][Next]_vars

FairSpec == Spec /\ Fairness

-----------------------------------------------------------------------------
(* Properties *)

Items ==
  {NoItem} \cup [kind : {"chunk"}, bytes : Seq(BOOLEAN)]
           \cup [kind : {"error", "end"}, bytes : {<<>>}]

TypeOK ==
  /\ chunk \in Seq(Nat) /\ chunk_offset \in Nat /\ pending \in Seq(Nat)
  /\ terminal \in BOOLEAN
  /\ chunks_polled \in 0 .. Budget
  /\ pc \in {"idle", "scan", "fetch", "asleep"}
  /\ net \in Items
  /\ registered \in BOOLEAN /\ woken \in BOOLEAN
  /\ text \in Seq(BOOLEAN)
  /\ out \in Seq([bytes : Seq(Nat), end : Nat])
  /\ result \in {"none", "TooLarge", "ChunkTooLarge", "Transport", "End"}

\* The first byte of the i-th line, when the lines before it were returned.
LineStart(i) == IF i = 1 THEN 1 ELSE out[i - 1].end + 1

\* The i-th frame is the i-th line of the text, which its newline ends, or the
\* end of the body.
IsLine(i) ==
  LET e == out[i].end IN
  /\ out[i].bytes = Interval(LineStart(i), e)
  /\ \A p \in LineStart(i) .. e - 1 : p \in DOMAIN text /\ ~text[p]
  /\ \/ e \in DOMAIN text /\ text[e]
     \/ i = Len(out) /\ e = Len(text) + 1 /\ result = "End"

\* However the body is cut into chunks, the frames returned are its lines, in
\* order, none lost, joined, split or mixed with bytes of another.  Only the
\* last one may lack its newline, when the body is over; and when it has ended
\* without an error the frames hold all of it.
FramesAreLines ==
  /\ \A i \in DOMAIN out : IsLine(i)
  /\ result = "End" => Len(text) < LineStart(Len(out) + 1)

\* The limit is one on whole lines and exact: no frame or buffer exceeds it,
\* and a line is refused only when so much of it is there that it does.
LimitIsExact ==
  /\ Len(pending) <= MaxFrame
  /\ \A i \in DOMAIN out : Len(out[i].bytes) <= MaxFrame
  /\ result = "TooLarge" =>
       LET s == LineStart(Len(out) + 1) IN
       /\ s + MaxFrame \in DOMAIN text
       /\ \A p \in s .. s + MaxFrame : ~text[p]

\* Whenever the stream has returned Pending, it is woken or the body is empty
\* and holds its waker: it never sleeps on data.
NeverSleepsOnData ==
  pc = "asleep" => woken \/ (registered /\ net = NoItem)

\* What the body has to offer is taken or ends the stream, whatever arrived
\* before it and however often the budget ran out.
ArrivalsAreTaken == net # NoItem ~> (net = NoItem \/ terminal)
=============================================================================
