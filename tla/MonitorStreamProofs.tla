-------------------------- MODULE MonitorStreamProofs --------------------------
(***************************************************************************)
(* Proofs about MonitorStream, for every limit, budget and body.              *)
(***************************************************************************)
EXTENDS MonitorStream, SequenceTheorems, TLAPS

(* Facts about intervals of positions.                                       *)

\* An interval is a sequence of naturals with the expected length and members.
LEMMA IntervalType ==
  ASSUME NEW a \in Nat, NEW b \in Nat, a <= b
  PROVE  /\ Interval(a, b) \in Seq(Nat)
         /\ Len(Interval(a, b)) = b - a
         /\ DOMAIN Interval(a, b) = 1 .. b - a
         /\ \A i \in 1 .. b - a : Interval(a, b)[i] = a + i - 1
<1>1. b - a \in Nat
  OBVIOUS
<1>2. \A i \in 1 .. b - a : a + i - 1 \in Nat
  OBVIOUS
<1>3. Interval(a, b) \in [1 .. b - a -> Nat]
  BY <1>2 DEF Interval
<1>4. Interval(a, b) \in Seq(Nat)
  BY <1>1, <1>3
<1>5. Len(Interval(a, b)) = b - a
  BY <1>1, <1>3, <1>4
<1> QED
  BY <1>3, <1>4, <1>5 DEF Interval

\* The second half of a concatenation.
LEMMA ConcatSecond ==
  ASSUME NEW S, NEW s \in Seq(S), NEW t \in Seq(S),
         NEW i \in 1 .. Len(s) + Len(t), ~(i <= Len(s))
  PROVE  (s \o t)[i] = t[i - Len(s)]
  BY SMTT(60)

\* Two adjacent intervals make one.
LEMMA IntervalConcat ==
  ASSUME NEW a \in Nat, NEW b \in Nat, NEW c \in Nat, a <= b, b <= c
  PROVE  Interval(a, b) \o Interval(b, c) = Interval(a, c)
<1> DEFINE s == Interval(a, b)
           t == Interval(b, c)
           u == Interval(a, c)
<1>1. /\ s \in Seq(Nat) /\ Len(s) = b - a /\ \A i \in 1 .. b - a : s[i] = a + i - 1
      /\ t \in Seq(Nat) /\ Len(t) = c - b /\ \A i \in 1 .. c - b : t[i] = b + i - 1
      /\ u \in Seq(Nat) /\ Len(u) = c - a /\ \A i \in 1 .. c - a : u[i] = a + i - 1
  <2>1. a <= c
    OBVIOUS
  <2> QED
    BY <2>1, IntervalType
<1> HIDE DEF s, t, u
<1>2. s \o t \in Seq(Nat) /\ Len(s \o t) = c - a
  BY <1>1, ConcatProperties
<1>3. \A i \in 1 .. c - a : (s \o t)[i] = u[i]
  <2> TAKE i \in 1 .. c - a
  <2>1. CASE i <= b - a
    <3>1. i \in 1 .. Len(s)
      BY <1>1, <2>1
    <3>2. (s \o t)[i] = s[i]
      BY <1>1, <3>1, ConcatProperties
    <3> QED
      BY <1>1, <2>1, <3>2
  <2>2. CASE i > b - a
    <3>0. i - (b - a) \in 1 .. c - b
      BY <2>2
    <3>1. i \in 1 .. Len(s) + Len(t) /\ ~(i <= Len(s))
      BY <1>1, <2>2
    <3>2. (s \o t)[i] = t[i - Len(s)]
      BY <1>1, <3>1, ConcatSecond
    <3>3. t[i - (b - a)] = b + (i - (b - a)) - 1
      BY <1>1, <3>0
    <3> QED
      BY <1>1, <3>2, <3>3
  <2>3. i <= b - a \/ i > b - a
    OBVIOUS
  <2> QED
    BY <2>1, <2>2, <2>3
<1>4. s \o t = u
  BY <1>1, <1>2, <1>3, SeqEqual
<1> QED
  BY <1>4 DEF s, t, u

\* A part of an interval is one.
LEMMA IntervalSub ==
  ASSUME NEW a \in Nat, NEW b \in Nat, a <= b,
         NEW i \in Nat \ {0}, NEW j \in Nat, i <= j + 1, j <= b - a
  PROVE  SubSeq(Interval(a, b), i, j) = Interval(a + i - 1, a + j)
<1> DEFINE s == Interval(a, b)
           t == Interval(a + i - 1, a + j)
<1>0. a + i - 1 \in Nat /\ a + j \in Nat /\ a + i - 1 <= a + j
  OBVIOUS
<1>1. /\ s \in Seq(Nat) /\ Len(s) = b - a /\ \A k \in 1 .. b - a : s[k] = a + k - 1
      /\ DOMAIN s = 1 .. b - a
  BY IntervalType
<1>2. t = [k \in 1 .. j - i + 1 |-> a + i - 1 + k - 1]
  BY <1>0 DEF Interval
<1>3. SubSeq(s, i, j) = [k \in 1 .. j - i + 1 |-> s[i + k - 1]]
  BY <1>1
<1>4. \A k \in 1 .. j - i + 1 : s[i + k - 1] = a + i - 1 + k - 1
  BY <1>1
<1>5. SubSeq(s, i, j) = t
  BY <1>2, <1>3, <1>4
<1> QED
  BY <1>5

\* So is a prefix of it.
LEMMA IntervalPrefix ==
  ASSUME NEW a \in Nat, NEW b \in Nat, a <= b, NEW j \in Nat, j <= b - a
  PROVE  SubSeq(Interval(a, b), 1, j) = Interval(a, a + j)
<1>0. \A i \in Nat \ {0} :
        i <= j + 1 => SubSeq(Interval(a, b), i, j) = Interval(a + i - 1, a + j)
  BY IntervalSub
<1>1. SubSeq(Interval(a, b), 1, j) = Interval(a + 1 - 1, a + j)
  <2>1. 1 \in Nat \ {0} /\ 1 <= j + 1
    OBVIOUS
  <2> QED
    BY <1>0, <2>1, Zenon
<1>2. a + 1 - 1 = a
  OBVIOUS
<1> QED
  BY <1>1, <1>2

\* An empty interval is the empty sequence.
LEMMA IntervalEmpty ==
  ASSUME NEW a \in Nat
  PROVE  Interval(a, a) = <<>>
<1>1. Interval(a, a) \in Seq(Nat) /\ Len(Interval(a, a)) = 0
  BY IntervalType
<1> QED
  BY <1>1, EmptySeq

-----------------------------------------------------------------------------
(* The inductive invariant.  What is buffered and what is left of the chunk   *)
(* are the two halves of the text after the last frame.                       *)

Last == LineStart(Len(out) + 1)

Cut == Last + Len(pending)

BufferInv ==
  /\ chunk_offset <= Len(chunk)
  /\ chunk # <<>> => chunk_offset < Len(chunk)
  /\ Len(chunk) <= Len(text)
  /\ chunk = Interval(Len(text) + 1 - Len(chunk), Len(text) + 1)
  /\ Cut = Len(text) + 1 - Len(chunk) + chunk_offset
  /\ pending = Interval(Last, Cut)
  /\ \A p \in Last .. Cut - 1 : ~text[p]

StageInv ==
  /\ ~terminal => BufferInv
  /\ terminal <=> result # "none"
  /\ terminal => pc = "idle"
  /\ pc \in {"fetch", "asleep"} => chunk = <<>>

IInv == TypeOK /\ FramesAreLines /\ LimitIsExact /\ NeverSleepsOnData /\ StageInv

\* Line starts are positions.
LEMMA LastType ==
  ASSUME TypeOK
  PROVE  Last \in Nat \ {0} /\ \A i \in DOMAIN out : LineStart(i) \in Nat \ {0}
<1>1. out \in Seq([bytes : Seq(Nat), end : Nat])
  BY DEF TypeOK
<1>2. \A i \in 1 .. Len(out) : out[i].end \in Nat
  <2>1. \A i \in 1 .. Len(out) : out[i] \in [bytes : Seq(Nat), end : Nat]
    BY <1>1, ElementOfSeq
  <2> QED
    BY <2>1
<1>3. Len(out) \in Nat /\ DOMAIN out = 1 .. Len(out)
  BY <1>1
<1>4. \A i \in 1 .. Len(out) + 1 : LineStart(i) \in Nat \ {0}
  BY <1>2, <1>3 DEF LineStart
<1> QED
  BY <1>3, <1>4 DEF Last

\* What the scan looks at is the text from Cut to its end.
LEMMA RemainingIsRest ==
  ASSUME TypeOK, BufferInv
  PROVE  /\ Cut \in Nat \ {0} /\ Cut <= Len(text) + 1
         /\ remaining = Interval(Cut, Len(text) + 1)
         /\ Len(remaining) = Len(text) + 1 - Cut
         /\ DOMAIN remaining = 1 .. Len(text) + 1 - Cut
         /\ Len(remaining) = Len(chunk) - chunk_offset
         /\ \A k \in DOMAIN remaining : remaining[k] = Cut + k - 1
<1>1. /\ Last \in Nat \ {0} /\ Len(pending) \in Nat /\ Len(text) \in Nat
      /\ Len(chunk) \in Nat /\ chunk_offset \in Nat
  BY LastType DEF TypeOK
<1> DEFINE a == Len(text) + 1 - Len(chunk)
           b == Len(text) + 1
<1>2. a \in Nat /\ b \in Nat /\ a <= b /\ b - a = Len(chunk) /\ Cut = a + chunk_offset
  BY <1>1 DEF BufferInv
<1>3. chunk_offset + 1 \in Nat \ {0} /\ chunk_offset + 1 <= Len(chunk) + 1
  BY <1>1 DEF BufferInv
<1>5. chunk = Interval(a, b)
  BY DEF BufferInv
<1>9. b = Len(text) + 1
  OBVIOUS
<1> HIDE DEF a, b
<1>4. SubSeq(Interval(a, b), chunk_offset + 1, Len(chunk))
        = Interval(a + (chunk_offset + 1) - 1, a + Len(chunk))
  <2>1. Len(chunk) <= b - a /\ chunk_offset + 1 <= Len(chunk) + 1
    BY <1>1, <1>2, <1>3
  <2> DEFINE i == chunk_offset + 1
             j == Len(chunk)
  <2>2. a \in Nat /\ b \in Nat /\ a <= b /\ i \in Nat \ {0} /\ j \in Nat
    BY <1>1, <1>2, <1>3
  <2>3. i <= j + 1 /\ j <= b - a
    BY <2>1
  <2> HIDE DEF i, j
  <2>4. SubSeq(Interval(a, b), i, j) = Interval(a + i - 1, a + j)
    BY <2>2, <2>3, IntervalSub
  <2> QED
    BY <2>4 DEF i, j
<1>10. a + (chunk_offset + 1) - 1 = Cut /\ a + Len(chunk) = Len(text) + 1
  BY <1>1, <1>2, <1>9
<1>6. remaining = Interval(Cut, Len(text) + 1)
  BY <1>4, <1>5, <1>10 DEF remaining
<1>7. Cut \in Nat \ {0} /\ Cut <= Len(text) + 1 /\ Len(text) + 1 \in Nat
  BY <1>1, <1>2 DEF Cut, BufferInv
<1>8. Len(text) + 1 - Cut = Len(chunk) - chunk_offset
  BY <1>1, <1>2, <1>9
<1>11. /\ Len(remaining) = Len(text) + 1 - Cut
       /\ DOMAIN remaining = 1 .. Len(text) + 1 - Cut
       /\ \A k \in 1 .. Len(text) + 1 - Cut : remaining[k] = Cut + k - 1
  <2> DEFINE d == Len(text) + 1
  <2>1. remaining = Interval(Cut, d) /\ Cut \in Nat /\ d \in Nat /\ Cut <= d
    BY <1>6, <1>7
  <2> HIDE DEF d
  <2>2. /\ Len(remaining) = d - Cut
        /\ DOMAIN remaining = 1 .. d - Cut
        /\ \A k \in 1 .. d - Cut : remaining[k] = Cut + k - 1
    BY <2>1, IntervalType
  <2>3. d - Cut = Len(text) + 1 - Cut
    BY <1>1, <1>7 DEF d
  <2> QED
    BY <2>2, <2>3, Zenon
<1> QED
  BY <1>6, <1>7, <1>8, <1>11

\* Scanning past bytes that are no newlines extends the line in progress.
LEMMA LineGoesOn ==
  ASSUME TypeOK, BufferInv, NEW n \in Nat, n <= Len(remaining),
         \A j \in 1 .. n : ~text[remaining[j]]
  PROVE  \A p \in Last .. Cut + n - 1 : p \in DOMAIN text /\ ~text[p]
<1>2. /\ Cut \in Nat \ {0} /\ Cut <= Len(text) + 1
      /\ Len(remaining) = Len(text) + 1 - Cut
      /\ DOMAIN remaining = 1 .. Len(text) + 1 - Cut
      /\ \A k \in DOMAIN remaining : remaining[k] = Cut + k - 1
  BY RemainingIsRest
<1>3. Last \in Nat \ {0} /\ Len(text) \in Nat /\ DOMAIN text = 1 .. Len(text)
  BY LastType DEF TypeOK
<1> TAKE p \in Last .. Cut + n - 1
<1>4. p \in DOMAIN text
  BY <1>2, <1>3
<1>5. CASE p < Cut
  BY <1>2, <1>3, <1>4, <1>5 DEF BufferInv
<1>6. CASE p >= Cut
  <2>1. p - Cut + 1 \in 1 .. n /\ p - Cut + 1 \in DOMAIN remaining
    BY <1>2, <1>3, <1>6
  <2>2. remaining[p - Cut + 1] = p
    BY <1>2, <1>3, <2>1
  <2> QED
    BY <1>4, <2>1, <2>2
<1> QED
  BY <1>2, <1>3, <1>5, <1>6

\* A newline-free stretch of the line in progress that exceeds the limit
\* justifies the refusal.
LEMMA RefusalJustified ==
  ASSUME IInv, ~terminal, NEW n \in Nat, n <= Len(remaining),
         \A j \in 1 .. n : ~text[remaining[j]],
         Len(pending) + n > MaxFrame,
         TooLarge
  PROVE  IInv'
<1>1. TypeOK /\ BufferInv
  BY DEF IInv, StageInv
<1>2. /\ Cut \in Nat \ {0} /\ Cut <= Len(text) + 1
      /\ Len(remaining) = Len(text) + 1 - Cut
      /\ DOMAIN remaining = 1 .. Len(text) + 1 - Cut
      /\ \A k \in DOMAIN remaining : remaining[k] = Cut + k - 1
  BY <1>1, RemainingIsRest
<1>3. Last \in Nat \ {0} /\ Len(pending) \in Nat /\ Len(text) \in Nat /\ MaxFrame \in Nat
  BY <1>1, LastType, LimitAssumption DEF TypeOK
<1>4. \A p \in Last .. Cut + n - 1 : ~text[p]
  BY <1>1, LineGoesOn
<1>5. Last + MaxFrame \in 1 .. Len(text) /\ Last + MaxFrame <= Cut + n - 1
  BY <1>2, <1>3 DEF Cut
<1>6. DOMAIN text = 1 .. Len(text)
  BY <1>1 DEF TypeOK
<1>7. /\ text' = text /\ out' = out /\ result' = "TooLarge" /\ terminal' = TRUE /\ pc' = "idle"
      /\ pending' = <<>> /\ chunk' = <<>>
  BY DEF TooLarge, Stop
<1>8. TypeOK'
  BY <1>1 DEF TypeOK, TooLarge, Stop
<1>9. FramesAreLines'
  BY <1>7 DEF IInv, FramesAreLines, IsLine, LineStart, StageInv
<1>10. LimitIsExact'
  <2>1. \A p \in Last .. Last + MaxFrame : ~text[p]
    BY <1>2, <1>3, <1>4, <1>5
  <2>2. Len(pending') <= MaxFrame
    BY <1>3, <1>7
  <2> QED
    BY <1>5, <1>6, <1>7, <2>1, <2>2 DEF IInv, LimitIsExact, Last, LineStart
<1>11. NeverSleepsOnData' /\ StageInv'
  BY <1>7 DEF NeverSleepsOnData, StageInv
<1> QED
  BY <1>8, <1>9, <1>10, <1>11 DEF IInv

\* A frame that is the line in progress keeps the frames the lines of the text.
LEMMA AppendLine ==
  ASSUME IInv, ~terminal,
         NEW f \in [bytes : Seq(Nat), end : Nat],
         out' = Append(out, f), text' = text,
         f.bytes = Interval(Last, f.end), Last <= f.end,
         \A p \in Last .. f.end - 1 : p \in DOMAIN text /\ ~text[p],
         \/ f.end \in DOMAIN text /\ text[f.end] /\ result' = "none"
         \/ f.end = Len(text) + 1 /\ result' = "End",
         f.end - Last <= MaxFrame, Len(pending') <= MaxFrame
  PROVE  /\ FramesAreLines' /\ LimitIsExact'
         /\ out' \in Seq([bytes : Seq(Nat), end : Nat])
         /\ Last' = f.end + 1
<1> DEFINE F == [bytes : Seq(Nat), end : Nat]
<1>1. TypeOK /\ out \in Seq(F) /\ Len(text) \in Nat /\ DOMAIN text = 1 .. Len(text)
  BY DEF IInv, TypeOK
<1>2. Last \in Nat \ {0} /\ f.end \in Nat
  BY <1>1, LastType
<1>3. /\ out' \in Seq(F) /\ Len(out') = Len(out) + 1 /\ out'[Len(out) + 1] = f
      /\ \A i \in 1 .. Len(out) : out'[i] = out[i]
  BY <1>1, AppendProperties
<1>4. Len(out) \in Nat /\ DOMAIN out = 1 .. Len(out) /\ DOMAIN out' = 1 .. Len(out) + 1
  BY <1>1, <1>3
<1> HIDE DEF F
<1>5. \A i \in 1 .. Len(out) + 1 : LineStart(i)' = LineStart(i)
  BY <1>3, <1>4 DEF LineStart
<1>6. Last' = f.end + 1
  BY <1>3, <1>4 DEF Last, LineStart
<1>7. result = "none"
  BY DEF IInv, StageInv
<1>8. \A i \in 1 .. Len(out) : IsLine(i)'
  <2> TAKE i \in 1 .. Len(out)
  <2>1. IsLine(i)
    BY <1>4 DEF IInv, FramesAreLines
  <2>2. out[i].end \in DOMAIN text /\ text[out[i].end]
    BY <1>7, <2>1 DEF IsLine
  <2>3. LineStart(i)' = LineStart(i) /\ out'[i] = out[i]
    BY <1>3, <1>4, <1>5
  <2> QED
    BY <2>1, <2>2, <2>3 DEF IsLine
<1>9. \A i \in {Len(out) + 1} : IsLine(i)'
  <2> TAKE i \in {Len(out) + 1}
  <2>1. LineStart(i)' = Last
    BY <1>4, <1>5 DEF Last
  <2>2. out'[i] = f /\ i = Len(out')
    BY <1>3
  <2> QED
    BY <2>1, <2>2 DEF IsLine
<1>10. FramesAreLines'
  <2>1. \A i \in DOMAIN out' : IsLine(i)'
    BY <1>4, <1>8, <1>9
  <2>2. result' = "End" => Len(text') < Last'
    BY <1>1, <1>2, <1>6
  <2> QED
    BY <2>1, <2>2 DEF FramesAreLines, Last
<1>11. LimitIsExact'
  <2>1. Len(f.bytes) <= MaxFrame
    <3>1. Len(Interval(Last, f.end)) = f.end - Last
      BY <1>2, IntervalType
    <3> QED
      BY <3>1
  <2>2. \A i \in DOMAIN out' : Len(out'[i].bytes) <= MaxFrame
    BY <1>3, <1>4, <2>1 DEF IInv, LimitIsExact
  <2> QED
    BY <2>2 DEF LimitIsExact
<1> QED
  BY <1>3, <1>6, <1>10, <1>11 DEF F

-----------------------------------------------------------------------------
\* The invariant holds at first.
LEMMA InitInv == Init => IInv
<1> SUFFICES ASSUME Init PROVE IInv
  OBVIOUS
<1>1. TypeOK
  <2>1. 0 \in 0 .. Budget /\ 0 \in Nat
    BY LimitAssumption
  <2>2. <<>> \in Seq(Nat) /\ <<>> \in Seq(BOOLEAN) /\ <<>> \in Seq([bytes : Seq(Nat), end : Nat])
    OBVIOUS
  <2> QED
    BY <2>1, <2>2, Zenon DEF Init, TypeOK, Items
<1>2. Len(out) = 0 /\ Len(text) = 0 /\ Len(pending) = 0 /\ DOMAIN out = {} /\ Last = 1 /\ Cut = 1
  BY DEF Init, Last, LineStart, Cut
<1>3. Interval(1, 1) = <<>>
  BY IntervalEmpty
<1>4. BufferInv
  BY <1>2, <1>3 DEF Init, BufferInv
<1>5. FramesAreLines /\ LimitIsExact
  BY <1>2, LimitAssumption DEF Init, FramesAreLines, LimitIsExact
<1>6. NeverSleepsOnData /\ StageInv
  BY <1>4 DEF Init, NeverSleepsOnData, StageInv
<1> QED
  BY <1>1, <1>5, <1>6 DEF IInv

\* Steps that touch neither the buffers nor the frames.
LEMMA BuffersKept ==
  ASSUME IInv, TypeOK', NeverSleepsOnData',
         UNCHANGED <<chunk, chunk_offset, pending, terminal, text, out, result>>,
         terminal => pc' = "idle",
         pc' \in {"fetch", "asleep"} => chunk = <<>>
  PROVE  IInv'
<1>1. FramesAreLines' /\ LimitIsExact'
  BY DEF IInv, FramesAreLines, IsLine, LineStart, LimitIsExact
<1>2. Last' = Last /\ Cut' = Cut
  BY DEF Last, LineStart, Cut
<1>3. StageInv'
  BY <1>2 DEF IInv, StageInv, BufferInv
<1> QED
  BY <1>1, <1>3 DEF IInv

\* Stopping with an error keeps the frames.
LEMMA StopKeeps ==
  ASSUME IInv, ~terminal, NEW r \in {"ChunkTooLarge", "Transport"}, Stop(r),
         UNCHANGED <<text, out>>, TypeOK'
  PROVE  IInv'
<1>1. FramesAreLines'
  BY DEF IInv, FramesAreLines, IsLine, LineStart, Stop, StageInv
<1>2. LimitIsExact'
  BY LimitAssumption DEF IInv, LimitIsExact, LineStart, Stop
<1>3. NeverSleepsOnData' /\ StageInv'
  BY DEF NeverSleepsOnData, StageInv, Stop
<1> QED
  BY <1>1, <1>2, <1>3 DEF IInv

\* An arrival.
LEMMA ArriveInv ==
  ASSUME IInv, ArriveSome
  PROVE  IInv'
<1>1. PICK item \in Items : Arrive(item)
  <2>1. CASE \E n \in 0 .. MaxChunk :
               \E b \in [1 .. n -> BOOLEAN] : Arrive([kind |-> "chunk", bytes |-> b])
    <3>0. PICK n \in 0 .. MaxChunk :
            \E b \in [1 .. n -> BOOLEAN] : Arrive([kind |-> "chunk", bytes |-> b])
      BY <2>1
    <3>1. PICK b \in [1 .. n -> BOOLEAN] : Arrive([kind |-> "chunk", bytes |-> b])
      BY <3>0
    <3>2. n \in Nat /\ b \in Seq(BOOLEAN)
      BY LimitAssumption
    <3> QED
      BY <3>1, <3>2 DEF Items
  <2>2. CASE \E k \in {"error", "end"} : Arrive([kind |-> k, bytes |-> <<>>])
    BY <2>2 DEF Items
  <2> QED
    BY <2>1, <2>2 DEF ArriveSome
<1>2. TypeOK'
  BY <1>1 DEF IInv, TypeOK, Arrive
<1>3. NeverSleepsOnData'
  BY <1>1 DEF IInv, NeverSleepsOnData, Arrive
<1> QED
  BY <1>1, <1>2, <1>3, BuffersKept DEF Arrive, IInv, StageInv

\* The start of a poll.
LEMMA PollInv ==
  ASSUME IInv, Poll
  PROVE  IInv'
<1>1. TypeOK'
  <2>1. chunks_polled' \in 0 .. Budget
    BY LimitAssumption DEF Poll
  <2>2. pc' \in {"idle", "scan", "fetch", "asleep"}
    BY DEF Poll
  <2> QED
    BY <2>1, <2>2, Zenon DEF IInv, TypeOK, Poll
<1>2. NeverSleepsOnData'
  BY DEF NeverSleepsOnData, Poll
<1> QED
  BY <1>1, <1>2, BuffersKept DEF Poll

\* A line ends in the retained chunk.
LEMMA ScanLineInv ==
  ASSUME IInv, ScanLine
  PROVE  IInv'
<1>1. TypeOK /\ BufferInv /\ ~terminal /\ result = "none"
  BY DEF IInv, StageInv, ScanLine
<1>3. /\ Cut \in Nat \ {0} /\ Cut <= Len(text) + 1
      /\ remaining = Interval(Cut, Len(text) + 1)
      /\ Len(remaining) = Len(text) + 1 - Cut
      /\ DOMAIN remaining = 1 .. Len(text) + 1 - Cut
      /\ Len(remaining) = Len(chunk) - chunk_offset
      /\ \A k \in DOMAIN remaining : remaining[k] = Cut + k - 1
  BY <1>1, RemainingIsRest
<1>4. /\ Last \in Nat \ {0} /\ Len(pending) \in Nat /\ Len(text) \in Nat /\ MaxFrame \in Nat
      /\ Len(chunk) \in Nat /\ chunk_offset \in Nat /\ Cut = Last + Len(pending)
      /\ DOMAIN text = 1 .. Len(text)
  BY <1>1, LastType, LimitAssumption DEF TypeOK, Cut
<1>2. PICK k \in Nat \ {0} :
        /\ k \in DOMAIN remaining
        /\ FirstNewline(remaining, k)
        /\ IF Len(pending) + (k - 1) > MaxFrame THEN TooLarge
           ELSE /\ finish_frame(SubSeq(remaining, 1, k - 1), remaining[k])
                /\ IF chunk_offset + k < Len(chunk)
                   THEN chunk_offset' = chunk_offset + k /\ UNCHANGED chunk
                   ELSE chunk_offset' = 0 /\ chunk' = <<>>
                /\ UNCHANGED <<terminal, chunks_polled, net, registered, woken, text, result>>
  <2>1. DOMAIN remaining \subseteq Nat \ {0}
    BY <1>3, <1>4
  <2> QED
    BY <2>1, Zenon DEF ScanLine
<1>5. k \in Nat \ {0} /\ k - 1 \in Nat /\ k - 1 <= Len(remaining) /\ k <= Len(text) + 1 - Cut
  <2>1. k \in 1 .. Len(text) + 1 - Cut
    BY <1>2, <1>3
  <2> QED
    BY <1>3, <1>4, <2>1
<1>6. \A j \in 1 .. k - 1 : ~text[remaining[j]]
  BY <1>2 DEF FirstNewline
<1>7. CASE Len(pending) + (k - 1) > MaxFrame
  <2>1. TooLarge
    BY <1>2, <1>7
  <2> QED
    BY <1>1, <1>5, <1>6, <1>7, <2>1, RefusalJustified
<1>8. CASE ~(Len(pending) + (k - 1) > MaxFrame)
  <2> DEFINE e == Cut + k - 1
             f == [bytes |-> pending \o SubSeq(remaining, 1, k - 1), end |-> remaining[k]]
  <2>1. e \in Nat /\ Cut <= e /\ e \in 1 .. Len(text) /\ e = remaining[k]
    BY <1>3, <1>4, <1>5
  <2>2. SubSeq(remaining, 1, k - 1) = Interval(Cut, e)
    <3> DEFINE d == Len(text) + 1
               j == k - 1
    <3>1. d \in Nat /\ j \in Nat /\ Cut <= d /\ j <= d - Cut /\ 1 <= j + 1
      BY <1>3, <1>4, <1>5
    <3>2. remaining = Interval(Cut, d)
      BY <1>3
    <3> HIDE DEF d, j
    <3>3. SubSeq(Interval(Cut, d), 1, j) = Interval(Cut, Cut + j)
      BY <1>3, <3>1, IntervalPrefix
    <3>4. Cut + j = e
      BY <1>3, <1>5 DEF j
    <3> QED
      BY <3>2, <3>3, <3>4 DEF j
  <2>3. f.bytes = Interval(Last, f.end) /\ f.end = e /\ Last <= e
    <3>1. pending = Interval(Last, Cut)
      BY <1>1 DEF BufferInv
    <3>2. Last \in Nat /\ Cut \in Nat /\ e \in Nat /\ Last <= Cut /\ Cut <= e
      BY <1>3, <1>4, <2>1
    <3> HIDE DEF e
    <3>3. Interval(Last, Cut) \o Interval(Cut, e) = Interval(Last, e)
      BY <3>2, IntervalConcat
    <3>4. f.bytes = pending \o SubSeq(remaining, 1, k - 1) /\ f.end = e
      BY <2>1
    <3>5. Last <= e
      BY <3>2
    <3> HIDE DEF f
    <3> QED
      BY <2>2, <3>1, <3>3, <3>4, <3>5, Zenon
  <2>4. f \in [bytes : Seq(Nat), end : Nat]
    <3>1. Interval(Last, e) \in Seq(Nat)
      BY <1>4, <2>1, <2>3, IntervalType
    <3> QED
      BY <2>1, <2>3, <3>1
  <2>5. \A p \in Last .. e - 1 : p \in DOMAIN text /\ ~text[p]
    <3>1. \A p \in Last .. Cut + (k - 1) - 1 : p \in DOMAIN text /\ ~text[p]
      BY <1>1, <1>5, <1>6, LineGoesOn
    <3> QED
      BY <1>3, <1>5, <3>1
  <2>6. text[e]
    BY <1>2, <2>1 DEF FirstNewline
  <2>7. /\ out' = Append(out, f) /\ pending' = <<>> /\ pc' = "idle"
        /\ UNCHANGED <<terminal, chunks_polled, net, registered, woken, text, result>>
    BY <1>2, <1>8 DEF finish_frame
  <2>8. e - Last <= MaxFrame
    BY <1>3, <1>4, <1>5, <1>8
  <2>9. Len(pending') <= MaxFrame
    BY <1>4, <2>7
  <2> HIDE DEF e, f
  <2>10. /\ FramesAreLines' /\ LimitIsExact'
         /\ out' \in Seq([bytes : Seq(Nat), end : Nat])
         /\ Last' = e + 1
    BY <1>1, <1>4, <2>1, <2>3, <2>4, <2>5, <2>6, <2>7, <2>8, <2>9, AppendLine
  <2>11. \/ /\ chunk_offset + k < Len(chunk)
            /\ chunk_offset' = chunk_offset + k /\ chunk' = chunk
         \/ /\ chunk_offset + k = Len(chunk) /\ chunk_offset' = 0 /\ chunk' = <<>>
    <3>1. chunk_offset + k <= Len(chunk)
      BY <1>3, <1>4, <1>5
    <3>2. IF chunk_offset + k < Len(chunk)
          THEN chunk_offset' = chunk_offset + k /\ UNCHANGED chunk
          ELSE chunk_offset' = 0 /\ chunk' = <<>>
      BY <1>2, <1>8, Zenon
    <3> QED
      BY <1>4, <1>5, <3>1, <3>2
  <2>12. TypeOK'
    <3>1. chunk' \in Seq(Nat) /\ chunk_offset' \in Nat
      <4>1. chunk \in Seq(Nat) /\ <<>> \in Seq(Nat) /\ chunk_offset + k \in Nat /\ 0 \in Nat
        BY <1>1, <1>4, <1>5 DEF TypeOK
      <4> QED
        BY <2>11, <4>1, Zenon
    <3>2. pending' \in Seq(Nat)
      BY <2>7
    <3> QED
      BY <1>1, <2>7, <2>10, <3>1, <3>2, Zenon DEF TypeOK
  <2>15. Cut = Len(text) + 1 - Len(chunk) + chunk_offset
    BY <1>1 DEF BufferInv
  <2>13. BufferInv'
    <3>1. Cut' = Cut + k /\ Cut' \in Nat /\ Last' = Cut'
      BY <1>3, <1>4, <1>5, <2>7, <2>10 DEF Cut, e
    <3>2. pending' = Interval(Last', Cut')
      BY <2>7, <3>1, IntervalEmpty
    <3>3. \A p \in Last' .. Cut' - 1 : ~text'[p]
      BY <3>1
    <3>4. CASE chunk_offset + k < Len(chunk) /\ chunk_offset' = chunk_offset + k /\ chunk' = chunk
      <4>1. Cut' = Len(text) + 1 - Len(chunk) + chunk_offset'
        BY <1>4, <1>5, <2>15, <3>1, <3>4
      <4>2. text' = text /\ chunk' = chunk /\ chunk_offset' < Len(chunk) /\ chunk_offset' <= Len(chunk)
        BY <1>4, <1>5, <2>7, <3>4
      <4>3. /\ Len(chunk) <= Len(text)
            /\ chunk = Interval(Len(text) + 1 - Len(chunk), Len(text) + 1)
        BY <1>1 DEF BufferInv
      <4> QED
        BY <3>2, <3>3, <4>1, <4>2, <4>3, Zenon DEF BufferInv
    <3>5. CASE chunk_offset + k = Len(chunk) /\ chunk_offset' = 0 /\ chunk' = <<>>
      <4>1. Len(chunk') = 0 /\ text' = text
        BY <2>7, <3>5
      <4>2. Cut' = Len(text) + 1
        BY <1>4, <1>5, <2>15, <3>1, <3>5
      <4>3. Interval(Len(text) + 1 - 0, Len(text) + 1) = <<>>
        BY <1>4, IntervalEmpty
      <4> QED
        BY <1>4, <3>2, <3>3, <3>5, <4>1, <4>2, <4>3 DEF BufferInv
    <3> QED
      BY <2>11, <3>4, <3>5
  <2>14. NeverSleepsOnData' /\ StageInv'
    <3>1. pc' = "idle" /\ pc' \notin {"fetch", "asleep"} /\ result' = "none" /\ ~terminal'
      BY <1>1, <2>7
    <3> QED
      BY <2>13, <3>1, Zenon DEF NeverSleepsOnData, StageInv
  <2> QED
    BY <2>10, <2>12, <2>14 DEF IInv
<1> QED
  BY <1>7, <1>8

\* No line ends in the retained chunk.
LEMMA ScanRestInv ==
  ASSUME IInv, ScanRest
  PROVE  IInv'
<1>1. TypeOK /\ BufferInv /\ ~terminal /\ result = "none"
  BY DEF IInv, StageInv, ScanRest
<1>3. /\ Cut \in Nat \ {0} /\ Cut <= Len(text) + 1
      /\ remaining = Interval(Cut, Len(text) + 1)
      /\ Len(remaining) = Len(text) + 1 - Cut
      /\ DOMAIN remaining = 1 .. Len(text) + 1 - Cut
  BY <1>1, RemainingIsRest
<1>4. /\ Last \in Nat \ {0} /\ Len(pending) \in Nat /\ Len(text) \in Nat /\ MaxFrame \in Nat
      /\ Cut = Last + Len(pending)
  BY <1>1, LastType, LimitAssumption DEF TypeOK, Cut
<1>5. Len(remaining) \in Nat /\ DOMAIN remaining = 1 .. Len(remaining)
  BY <1>3, <1>4
<1>6. \A j \in 1 .. Len(remaining) : ~text[remaining[j]]
  BY <1>5 DEF ScanRest, HasNewline
<1>7. CASE Len(pending) + Len(remaining) > MaxFrame
  <2>1. TooLarge
    BY <1>7 DEF ScanRest
  <2>2. Len(remaining) <= Len(remaining)
    BY <1>5
  <2> QED
    BY <1>1, <1>5, <1>6, <1>7, <2>1, <2>2, RefusalJustified
<1>8. CASE ~(Len(pending) + Len(remaining) > MaxFrame)
  <2>1. /\ pending' = pending \o remaining /\ chunk' = <<>> /\ chunk_offset' = 0 /\ pc' = "fetch"
        /\ UNCHANGED <<terminal, chunks_polled, net, registered, woken, text, out, result>>
    BY <1>8 DEF ScanRest
  <2> DEFINE d == Len(text) + 1
  <2>2. /\ Last \in Nat /\ Cut \in Nat /\ d \in Nat /\ Last <= Cut /\ Cut <= d /\ Last <= d
        /\ pending = Interval(Last, Cut) /\ remaining = Interval(Cut, d)
    BY <1>1, <1>3, <1>4 DEF BufferInv
  <2>3. d = Len(text) + 1
    OBVIOUS
  <2> HIDE DEF d
  <2>4. pending' = Interval(Last, d)
    BY <2>1, <2>2, IntervalConcat
  <2>5. pending' \in Seq(Nat) /\ Len(pending') = d - Last
    BY <2>2, <2>4, IntervalType
  <2>6. Len(pending') <= MaxFrame
    BY <1>3, <1>4, <1>8, <2>3, <2>5
  <2>7. TypeOK'
    <3>1. <<>> \in Seq(Nat) /\ 0 \in Nat /\ "fetch" \in {"idle", "scan", "fetch", "asleep"}
      OBVIOUS
    <3> QED
      BY <1>1, <2>1, <2>5, <3>1, Zenon DEF TypeOK
  <2>8. Last' = Last
    BY <2>1 DEF Last, LineStart
  <2>9. Cut' = d
    BY <2>2, <2>5, <2>8 DEF Cut
  <2>10. BufferInv'
    <3>1. \A p \in Last .. Cut + Len(remaining) - 1 : ~text[p]
      <4>1. Len(remaining) <= Len(remaining)
        BY <1>5
      <4> QED
        BY <1>1, <1>5, <1>6, <4>1, LineGoesOn
    <3>2. \A p \in Last' .. Cut' - 1 : ~text'[p]
      BY <1>3, <1>4, <2>1, <2>3, <2>8, <2>9, <3>1
    <3>3. Len(chunk') = 0 /\ text' = text /\ chunk' = <<>> /\ chunk_offset' = 0
      BY <2>1
    <3>4. Interval(Len(text) + 1 - 0, Len(text) + 1) = <<>>
      BY <1>4, IntervalEmpty
    <3>5. pending' = Interval(Last', Cut')
      BY <2>4, <2>8, <2>9
    <3>6. Cut' = Len(text) + 1 - 0 + 0 /\ 0 <= Len(text)
      BY <1>4, <2>3, <2>9
    <3> QED
      BY <3>2, <3>3, <3>4, <3>5, <3>6 DEF BufferInv
  <2>11. FramesAreLines' /\ LimitIsExact'
    BY <1>1, <2>1, <2>6 DEF IInv, FramesAreLines, IsLine, LineStart, LimitIsExact
  <2>12. NeverSleepsOnData' /\ StageInv'
    <3>1. pc' # "asleep" /\ result' = "none" /\ ~terminal' /\ chunk' = <<>>
      BY <1>1, <2>1
    <3> QED
      BY <2>10, <3>1, Zenon DEF NeverSleepsOnData, StageInv
  <2> QED
    BY <2>7, <2>11, <2>12 DEF IInv
<1> QED
  BY <1>7, <1>8

\* Nothing to scan, the budget used up, or a body that has nothing yet.
LEMMA PauseInv ==
  ASSUME IInv, ScanNothing \/ Yield \/ FetchPending
  PROVE  IInv'
<1>1. ~terminal /\ chunk = <<>>
  BY DEF IInv, StageInv, ScanNothing, Yield, FetchPending, Fetching
<1>2. UNCHANGED <<chunk, chunk_offset, pending, terminal, text, out, result>>
  BY DEF ScanNothing, Yield, FetchPending, Fetching
<1>3. TypeOK'
  <2>1. chunks_polled' \in 0 .. Budget
    BY LimitAssumption DEF IInv, TypeOK, ScanNothing, Yield, FetchPending, Fetching
  <2>2. pc' \in {"idle", "scan", "fetch", "asleep"} /\ net' = net
    BY DEF ScanNothing, Yield, FetchPending, Fetching
  <2>3. registered' \in BOOLEAN /\ woken' \in BOOLEAN
    BY Zenon DEF IInv, TypeOK, ScanNothing, Yield, FetchPending, Fetching
  <2> QED
    BY <1>2, <2>1, <2>2, <2>3, Zenon DEF IInv, TypeOK
<1>4. NeverSleepsOnData'
  <2>1. CASE ScanNothing
    BY <2>1 DEF NeverSleepsOnData, ScanNothing
  <2>2. CASE Yield
    BY <2>2 DEF NeverSleepsOnData, Yield
  <2>3. CASE FetchPending
    <3>1. net = NoItem
      <4>1. net \in Items /\ net.kind = "none"
        BY <2>3 DEF IInv, TypeOK, FetchPending, Fetching
      <4> QED
        BY <4>1 DEF Items
    <3> QED
      BY <2>3, <3>1, Zenon DEF NeverSleepsOnData, FetchPending
  <2> QED
    BY <2>1, <2>2, <2>3
<1> QED
  BY <1>1, <1>2, <1>3, <1>4, BuffersKept

\* The body delivers a chunk.
LEMMA FetchChunkInv ==
  ASSUME IInv, FetchChunk
  PROVE  IInv'
<1>1. TypeOK /\ BufferInv /\ ~terminal /\ result = "none" /\ chunk = <<>>
  BY DEF IInv, StageInv, FetchChunk, Fetching
<1>2. net.bytes \in Seq(BOOLEAN)
  <2>1. net \in Items /\ net.kind = "chunk"
    BY <1>1 DEF TypeOK, FetchChunk, Fetching
  <2> QED
    BY <2>1 DEF Items, NoItem
<1>3. chunks_polled' \in 0 .. Budget /\ net' = NoItem
  BY <1>1, LimitAssumption DEF TypeOK, FetchChunk, Fetching
<1>4. UNCHANGED <<chunk_offset, registered, woken, out>>
  BY DEF FetchChunk
<1>5. CASE Len(net.bytes) > MaxTransport
  <2>1. Stop("ChunkTooLarge") /\ UNCHANGED <<chunk, text>>
    BY <1>5 DEF FetchChunk
  <2>2. TypeOK'
    <3>1. <<>> \in Seq(Nat) /\ NoItem \in Items /\ "idle" \in {"idle", "scan", "fetch", "asleep"}
          /\ "ChunkTooLarge" \in {"none", "TooLarge", "ChunkTooLarge", "Transport", "End"}
      BY DEF Items
    <3> QED
      BY <1>1, <1>3, <1>4, <2>1, <3>1, Zenon DEF TypeOK, Stop
  <2> QED
    BY <1>1, <1>4, <2>1, <2>2, StopKeeps
<1>6. CASE ~(Len(net.bytes) > MaxTransport)
  <2> DEFINE n == Len(net.bytes)
             d == Len(text) + 1
  <2>1. /\ chunk' = Interval(Len(text) + 1, Len(text) + n + 1) /\ text' = text \o net.bytes
        /\ pc' = "scan" /\ UNCHANGED <<pending, terminal, result>>
    BY <1>6 DEF FetchChunk
  <2>2. text \in Seq(BOOLEAN) /\ Len(text) \in Nat /\ n \in Nat /\ chunk_offset \in Nat
    BY <1>1, <1>2 DEF TypeOK
  <2>3. /\ text' \in Seq(BOOLEAN) /\ Len(text') = Len(text) + n
        /\ \A p \in 1 .. Len(text) : text'[p] = text[p]
    BY <1>2, <2>1, <2>2, ConcatProperties
  <2>4. DOMAIN text = 1 .. Len(text) /\ DOMAIN text' = 1 .. Len(text) + n
    BY <2>2, <2>3
  <2>5. chunk' \in Seq(Nat) /\ Len(chunk') = n
    <3>1. Len(text) + 1 \in Nat /\ Len(text) + n + 1 \in Nat /\ Len(text) + 1 <= Len(text) + n + 1
          /\ (Len(text) + n + 1) - (Len(text) + 1) = n
      BY <2>2
    <3> QED
      BY <2>1, <3>1, IntervalType
  <2> HIDE DEF n
  <2>6. TypeOK'
    <3>1. NoItem \in Items /\ "scan" \in {"idle", "scan", "fetch", "asleep"}
      BY DEF Items
    <3> QED
      BY <1>1, <1>3, <1>4, <2>1, <2>3, <2>5, <3>1, Zenon DEF TypeOK
  <2>7. Last' = Last /\ Cut' = Cut
    BY <1>4, <2>1 DEF Last, LineStart, Cut
  <2>8. Last \in Nat \ {0} /\ Cut = Len(text) + 1 /\ chunk_offset = 0 /\ Len(pending) \in Nat
    BY <1>1, <2>2, LastType DEF BufferInv, TypeOK
  <2>9. BufferInv'
    <3>1. chunk' # <<>> => chunk_offset' < Len(chunk')
      BY <1>4, <2>2, <2>5, <2>8, EmptySeq
    <3>2. chunk_offset' <= Len(chunk') /\ Len(chunk') <= Len(text')
      BY <1>4, <2>2, <2>3, <2>5, <2>8
    <3>3. Len(text') + 1 - Len(chunk') = Len(text) + 1 /\ Len(text') + 1 = Len(text) + n + 1
      BY <2>2, <2>3, <2>5
    <3>4. chunk' = Interval(Len(text') + 1 - Len(chunk'), Len(text') + 1)
      BY <2>1, <3>3
    <3>5. Cut' = Len(text') + 1 - Len(chunk') + chunk_offset'
      BY <1>4, <2>2, <2>3, <2>5, <2>7, <2>8
    <3>6. pending' = Interval(Last', Cut')
      BY <1>1, <2>1, <2>7 DEF BufferInv
    <3>7. \A p \in Last' .. Cut' - 1 : ~text'[p]
      BY <1>1, <2>2, <2>3, <2>7, <2>8 DEF BufferInv
    <3> QED
      BY <3>1, <3>2, <3>4, <3>5, <3>6, <3>7, Zenon DEF BufferInv
  <2>10. FramesAreLines'
    <3>1. \A i \in DOMAIN out : IsLine(i)'
      <4> TAKE i \in DOMAIN out
      <4>1. IsLine(i)
        BY DEF IInv, FramesAreLines
      <4>2. out[i].end \in DOMAIN text /\ text[out[i].end]
        BY <1>1, <4>1 DEF IsLine
      <4>3. LineStart(i)' = LineStart(i) /\ out'[i] = out[i]
        BY <1>4 DEF LineStart
      <4>4. \A p \in DOMAIN text : p \in DOMAIN text' /\ text'[p] = text[p]
        BY <2>2, <2>3, <2>4
      <4> QED
        BY <4>1, <4>2, <4>3, <4>4 DEF IsLine
    <3> QED
      BY <1>1, <1>4, <2>1, <3>1 DEF FramesAreLines
  <2>11. LimitIsExact'
    BY <1>1, <1>4, <2>1 DEF IInv, LimitIsExact
  <2>12. NeverSleepsOnData' /\ StageInv'
    <3>1. pc' \notin {"fetch", "asleep"} /\ result' = "none" /\ ~terminal'
      BY <1>1, <2>1
    <3> QED
      BY <2>9, <3>1, Zenon DEF NeverSleepsOnData, StageInv
  <2> QED
    BY <2>6, <2>10, <2>11, <2>12 DEF IInv
<1> QED
  BY <1>5, <1>6

\* The body fails.
LEMMA FetchErrorInv ==
  ASSUME IInv, FetchError
  PROVE  IInv'
<1>1. TypeOK /\ ~terminal
  BY DEF IInv, StageInv, FetchError, Fetching
<1>2. chunks_polled' \in 0 .. Budget /\ net' = NoItem /\ Stop("Transport")
  BY <1>1, LimitAssumption DEF TypeOK, FetchError, Fetching
<1>3. UNCHANGED <<chunk, chunk_offset, registered, woken, text, out>>
  BY DEF FetchError
<1>4. TypeOK'
  <2>1. <<>> \in Seq(Nat) /\ NoItem \in Items /\ "idle" \in {"idle", "scan", "fetch", "asleep"}
        /\ "Transport" \in {"none", "TooLarge", "ChunkTooLarge", "Transport", "End"}
    BY DEF Items
  <2> QED
    BY <1>1, <1>2, <1>3, <2>1, Zenon DEF TypeOK, Stop
<1> QED
  BY <1>1, <1>2, <1>3, <1>4, StopKeeps

\* The body is over: the last line, if there is one, is a frame too.
LEMMA FetchEndInv ==
  ASSUME IInv, FetchEnd
  PROVE  IInv'
<1>1. TypeOK /\ BufferInv /\ ~terminal /\ result = "none" /\ chunk = <<>>
  BY DEF IInv, StageInv, FetchEnd, Fetching
<1>2. chunks_polled' \in 0 .. Budget /\ net' = NoItem /\ terminal' = TRUE /\ result' = "End"
  BY <1>1, LimitAssumption DEF TypeOK, FetchEnd, Fetching
<1>3. UNCHANGED <<chunk, chunk_offset, registered, woken, text>>
  BY DEF FetchEnd
<1>4. /\ Last \in Nat \ {0} /\ Len(text) \in Nat /\ Len(pending) \in Nat /\ MaxFrame \in Nat
      /\ Cut = Len(text) + 1 /\ Cut = Last + Len(pending)
      /\ DOMAIN text = 1 .. Len(text)
      /\ pending = Interval(Last, Cut)
      /\ \A p \in Last .. Cut - 1 : ~text[p]
  <2>1. Len(chunk) = 0 /\ chunk_offset = 0
    BY <1>1 DEF BufferInv, TypeOK
  <2> QED
    BY <1>1, <2>1, LastType, LimitAssumption DEF BufferInv, TypeOK, Cut
<1>5. /\ pc' = "idle" /\ pending' \in Seq(Nat) /\ out' \in Seq([bytes : Seq(Nat), end : Nat])
      /\ FramesAreLines' /\ LimitIsExact'
  <2>1. CASE pending = <<>>
    <3>1. pc' = "idle" /\ pending' = <<>> /\ out' = out
      BY <2>1 DEF FetchEnd
    <3>2. Last = Len(text) + 1
      <4>1. Len(pending) = 0
        BY <2>1
      <4> QED
        BY <1>4, <4>1
    <3>3. Last' = Last
      BY <3>1 DEF Last, LineStart
    <3>4. \A i \in DOMAIN out : IsLine(i)'
      BY <1>1, <1>3, <3>1 DEF IInv, FramesAreLines, IsLine, LineStart
    <3>5. FramesAreLines'
      BY <1>3, <1>4, <3>1, <3>2, <3>3, <3>4 DEF FramesAreLines, Last
    <3>6. LimitIsExact'
      BY <1>2, <1>4, <3>1 DEF IInv, LimitIsExact
    <3> QED
      BY <1>1, <3>1, <3>5, <3>6 DEF TypeOK
  <2>2. CASE pending # <<>>
    <3> DEFINE f == [bytes |-> pending \o <<>>, end |-> Len(text) + 1]
    <3>1. pc' = "idle" /\ pending' = <<>> /\ out' = Append(out, f)
      BY <2>2 DEF FetchEnd, finish_frame
    <3>2. pending \in Seq(Nat) /\ pending \o <<>> = pending
      BY <1>1, ConcatEmptySeq DEF TypeOK
    <3>3. f \in [bytes : Seq(Nat), end : Nat] /\ f.end = Len(text) + 1 /\ f.bytes = pending
      BY <1>4, <3>2
    <3> HIDE DEF f
    <3>4. f.bytes = Interval(Last, f.end) /\ Last <= f.end
      <4>1. Cut = f.end
        BY <1>4, <3>3
      <4>2. f.bytes = Interval(Last, f.end)
        BY <1>4, <3>3, <4>1, Zenon
      <4> QED
        BY <1>4, <4>1, <4>2
    <3>5. \A p \in Last .. f.end - 1 : p \in DOMAIN text /\ ~text[p]
      BY <1>4, <3>3
    <3>6. f.end - Last <= MaxFrame
      <4>1. Len(pending) <= MaxFrame
        BY DEF IInv, LimitIsExact
      <4> QED
        BY <1>4, <3>3, <4>1
    <3>7. Len(pending') <= MaxFrame
      BY <1>4, <3>1
    <3>8. /\ FramesAreLines' /\ LimitIsExact'
          /\ out' \in Seq([bytes : Seq(Nat), end : Nat])
      BY <1>1, <1>2, <1>3, <3>1, <3>3, <3>4, <3>5, <3>6, <3>7, AppendLine
    <3> QED
      BY <3>1, <3>8
  <2> QED
    BY <2>1, <2>2
<1>6. TypeOK'
  <2>1. NoItem \in Items /\ "idle" \in {"idle", "scan", "fetch", "asleep"}
        /\ "End" \in {"none", "TooLarge", "ChunkTooLarge", "Transport", "End"}
    BY DEF Items
  <2> QED
    BY <1>1, <1>2, <1>3, <1>5, <2>1, Zenon DEF TypeOK
<1>7. NeverSleepsOnData' /\ StageInv'
  <2>1. pc' = "idle" /\ pc' \notin {"fetch", "asleep"} /\ result' # "none" /\ terminal'
    BY <1>2, <1>5
  <2> QED
    BY <2>1, Zenon DEF NeverSleepsOnData, StageInv
<1> QED
  BY <1>5, <1>6, <1>7 DEF IInv

\* Every step keeps the invariant.
LEMMA StepInv == IInv /\ [Next]_vars => IInv'
<1> SUFFICES ASSUME IInv, [Next]_vars PROVE IInv'
  OBVIOUS
<1>1. CASE ArriveSome
  BY <1>1, ArriveInv
<1>2. CASE Poll
  BY <1>2, PollInv
<1>3. CASE ScanLine
  BY <1>3, ScanLineInv
<1>4. CASE ScanRest
  BY <1>4, ScanRestInv
<1>5. CASE ScanNothing \/ Yield \/ FetchPending
  BY <1>5, PauseInv
<1>6. CASE FetchChunk
  BY <1>6, FetchChunkInv
<1>7. CASE FetchError
  BY <1>7, FetchErrorInv
<1>8. CASE FetchEnd
  BY <1>8, FetchEndInv
<1>9. CASE UNCHANGED vars
  <2>1. TypeOK' /\ NeverSleepsOnData'
    BY <1>9, Zenon DEF vars, IInv, TypeOK, NeverSleepsOnData
  <2>2. UNCHANGED <<chunk, chunk_offset, pending, terminal, text, out, result>> /\ pc' = pc
    BY <1>9 DEF vars
  <2> QED
    BY <2>1, <2>2, BuffersKept DEF IInv, StageInv
<1> QED
  BY <1>1, <1>2, <1>3, <1>4, <1>5, <1>6, <1>7, <1>8, <1>9 DEF Next, Loop

\* The invariant holds throughout.
LEMMA Invariance == Spec => []IInv
BY InitInv, StepInv, PTL DEF Spec

-----------------------------------------------------------------------------
\* The fields of MonitorStream keep their types and the counter its budget.
THEOREM TypeCorrect == Spec => []TypeOK
<1>1. IInv => TypeOK
  BY DEF IInv
<1> QED
  BY <1>1, Invariance, PTL

\* However the transport cuts the body into chunks, poll_next returns its lines.
THEOREM FramesCorrect == Spec => []FramesAreLines
<1>1. IInv => FramesAreLines
  BY DEF IInv
<1> QED
  BY <1>1, Invariance, PTL

\* frame_too_large is returned for lines above the limit and for no other.
THEOREM LimitExact == Spec => []LimitIsExact
<1>1. IInv => LimitIsExact
  BY DEF IInv
<1> QED
  BY <1>1, Invariance, PTL

\* A stream that returned Pending has a wake-up coming or nothing to read.
THEOREM NoSleepOnData == Spec => []NeverSleepsOnData
<1>1. IInv => NeverSleepsOnData
  BY DEF IInv
<1> QED
  BY <1>1, Invariance, PTL
=============================================================================
