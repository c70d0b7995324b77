-------------------------- MODULE ReadinessWaitProofs --------------------------
(***************************************************************************)
(* Machine-checked proofs about ReadinessWait, for every timeout, interval   *)
(* and request timeout, however late timers fire, and for any number of      *)
(* changes of the server and of calls.                                       *)
(***************************************************************************)
EXTENDS ReadinessWait, TLAPS

-----------------------------------------------------------------------------
(* The inductive invariant. *)

\* Only a policy that probes has a verdict to wait for, or to fail by; a failed
\* one is met at the first poll, before any time has passed.
ProbeInv ==
  /\ policy = "none" => cache = "Complete"
  /\ pc = "probe" => cache = "Pending"
  /\ pc \in {"request", "delay"} => cache = "Complete"
  /\ cache = "Failed" => pc \in {"poll", "done"}
  /\ cache = "Failed" /\ pc = "poll" => elapsed = 0

\* Where the clock may stand in each phase of an iteration.
ClockInv ==
  /\ deadline = "strict" => elapsed <= Timeout
  /\ pc = "poll" => elapsed <= Timeout + Slack
  /\ pc = "delay" => elapsed <= until + Slack
  /\ pc = "probe" => since <= Timeout + Slack /\ elapsed <= since + RequestTimeout
  /\ pc = "request" => /\ since + RequestTimeout <= Timeout + Slack + PollTime
                       /\ elapsed <= since + RequestTimeout
  /\ elapsed <= Timeout + Slack + PollTime
  /\ result = "Timeout" => elapsed >= Timeout /\ (deadline = "budget" => ~Ready(last))

\* Each iteration but the first comes a whole interval after the one before, or
\* at the deadline.
PollsInv ==
  /\ pc = "poll" => /\ polls < PollLimit
                    /\ polls * Interval <= elapsed \/ Timeout <= elapsed
  /\ pc = "delay" => /\ polls < PollLimit
                     /\ polls * Interval <= until \/ Timeout <= until
  /\ pc \in {"probe", "request"} =>
       polls > 0 /\ ((polls - 1) * Interval <= elapsed \/ Timeout <= elapsed)
  /\ polls <= PollLimit

\* How long the server can have been ready unnoticed in each phase.
NoticeInv ==
  /\ ~Ready(server) => readyFor = 0
  /\ pc = "delay" => readyFor + until <= elapsed + Interval
  /\ pc = "poll" => readyFor <= Interval + Slack
  /\ pc = "probe" => readyFor + since <= Interval + Slack + elapsed
  /\ pc = "request" => readyFor + since + RequestTimeout <= Interval + Slack + PollTime + elapsed

IInv ==
  /\ TypeOK
  /\ ProbeInv
  /\ ClockInv
  /\ PollsInv
  /\ NoticeInv
  /\ OnlyLastingErrorsEndAWait

-----------------------------------------------------------------------------
(* Facts about numbers. *)

LEMMA MinOfTwo ==
  ASSUME NEW a \in Int, NEW b \in Int
  PROVE  Min({a, b}) = IF a <= b THEN a ELSE b
<1> DEFINE m == IF a <= b THEN a ELSE b
<1>1. m \in {a, b} /\ \A y \in {a, b} : m <= y
  OBVIOUS
<1>2. ASSUME NEW x \in {a, b}, \A y \in {a, b} : x <= y PROVE x = m
  BY <1>2
<1> QED BY <1>1, <1>2 DEF Min

\* As many whole intervals as have passed fit into the timeout.
LEMMA IntervalsFit ==
  ASSUME NEW n \in Nat, n * Interval <= Timeout
  PROVE  n <= Timeout \div Interval
<1> DEFINE q == Timeout \div Interval
           r == Timeout % Interval
<1>1. q \in Nat /\ r \in 0 .. Interval - 1 /\ Timeout = Interval * q + r
  BY TimeAssumption
<1> HIDE DEF q, r
<1>2. SUFFICES ASSUME n >= q + 1 PROVE FALSE
  BY <1>1 DEF q
<1>3. n * Interval >= (q + 1) * Interval
  BY <1>1, <1>2, TimeAssumption
<1>4. (q + 1) * Interval = Interval * q + Interval
  BY <1>1, TimeAssumption
<1> QED BY <1>1, <1>3, <1>4, TimeAssumption

LEMMA Limits ==
  /\ PollLimit \in Nat /\ PollLimit = Timeout \div Interval + 2
  /\ Timeout \div Interval \in Nat
  /\ PollTime \in Nat /\ PollTime >= RequestTimeout
  /\ policy # "none" => PollTime = 2 * RequestTimeout
BY TimeAssumption DEF PollLimit, PollTime

-----------------------------------------------------------------------------
(* The proof of the invariant. *)

LEMMA InitIInv == Init => IInv
<1> SUFFICES ASSUME Init PROVE IInv
  OBVIOUS
<1>1. TypeOK
  BY TimeAssumption DEF Init, TypeOK
<1>2. ProbeInv /\ OnlyLastingErrorsEndAWait
  BY DEF Init, ProbeInv, OnlyLastingErrorsEndAWait, LastingAnswers
<1>3. ClockInv
  BY Limits, TimeAssumption DEF Init, ClockInv
<1>4. PollsInv
  BY Limits, TimeAssumption DEF Init, PollsInv
<1>5. NoticeInv
  BY TimeAssumption DEF Init, NoticeInv
<1> QED BY <1>1, <1>2, <1>3, <1>4, <1>5 DEF IInv

\* The limit of the count is not reached where a poll begins.
LEMMA PollShape ==
  ASSUME IInv, Poll
  PROVE  /\ pc = "poll" /\ result = "none"
         /\ polls' = polls + 1 /\ since' = elapsed
         /\ \/ cache = "Complete" /\ pc' = "request" /\ result' = "none"
            \/ cache = "Pending" /\ pc' = "probe" /\ result' = "none"
            \/ cache = "Failed" /\ pc' = "done" /\ result' = "Probe"
         /\ UNCHANGED <<helper, policy, deadline, server, cache, elapsed, until, last, readyFor,
                        changes, calls>>
<1>1. pc = "poll" /\ result = "none" /\ polls \in Nat /\ polls < PollLimit
  BY DEF IInv, TypeOK, PollsInv, Poll
<1>2. polls' = polls + 1
  <2>1. polls' = Min({polls + 1, PollLimit + 1})
    BY DEF Poll
  <2> QED BY <1>1, <2>1, Limits, MinOfTwo
<1>3. \/ cache = "Complete" /\ pc' = "request" /\ result' = "none"
      \/ cache = "Pending" /\ pc' = "probe" /\ result' = "none"
      \/ cache = "Failed" /\ pc' = "done" /\ result' = "Probe"
  BY <1>1 DEF Poll, Finish, IInv, TypeOK
<1> QED BY <1>1, <1>2, <1>3 DEF Poll

\* An answer to the helper's own request leads to a sleep, to the end of the
\* budget or to the end of the wait; the first two mean it was not ready.
LEMMA RequestShape ==
  ASSUME IInv, NEW a \in Answers, RequestAnswered(a)
  PROVE  /\ last' = a
         /\ \/ /\ elapsed < Timeout /\ ~Ready(a)
               /\ pc' = "delay" /\ result' = "none"
               /\ until' = elapsed + (IF Interval <= Timeout - elapsed THEN Interval
                                      ELSE Timeout - elapsed)
            \/ /\ elapsed >= Timeout /\ ~Ready(a)
               /\ pc' = "done" /\ result' = "Timeout" /\ until' = until
            \/ /\ pc' = "done" /\ until' = until
               /\ result' \in {"Ok", "Api", "Decode"}
         /\ readyFor' = readyFor \/ readyFor' = 0
         /\ ~Ready(a) => readyFor' = 0
         /\ UNCHANGED <<helper, policy, deadline, server, cache, elapsed, since, polls, changes,
                        calls>>
<1>1. pc = "request" /\ result = "none" /\ elapsed \in Nat
  BY DEF IInv, TypeOK, RequestAnswered
<1>2. Outcome(a) \in {"Ok", "waiting", "Api", "Decode", "temporary"}
  BY DEF Outcome
<1>3. Outcome(a) \in {"waiting", "temporary"} => ~Ready(a)
  BY DEF Outcome
<1>4. /\ last' = a /\ readyFor' = IF a = server THEN readyFor ELSE 0
      /\ UNCHANGED <<helper, policy, deadline, server, cache, elapsed, since, polls, changes,
                     calls>>
  BY DEF RequestAnswered, Note
<1>5. ~Ready(a) => readyFor' = 0
  BY <1>4 DEF IInv, NoticeInv
<1>6. CASE Outcome(a) \in {"waiting", "temporary"}
  <2>1. Continue
    BY <1>6 DEF RequestAnswered
  <2>2. CASE elapsed >= Timeout
    BY <1>3, <1>4, <1>5, <1>6, <2>1, <2>2 DEF Continue, Finish
  <2>3. CASE ~(elapsed >= Timeout)
    <3>1. /\ pc' = "delay" /\ result' = result
          /\ until' = elapsed + Min({Interval, Timeout - elapsed})
      BY <2>1, <2>3 DEF Continue, Sleep
    <3>2. Min({Interval, Timeout - elapsed}) = IF Interval <= Timeout - elapsed THEN Interval
                                               ELSE Timeout - elapsed
      BY <1>1, MinOfTwo, TimeAssumption
    <3>3. elapsed < Timeout
      BY <1>1, <2>3, TimeAssumption
    <3> QED BY <1>1, <1>3, <1>4, <1>5, <1>6, <3>1, <3>2, <3>3
  <2> QED BY <2>2, <2>3
<1>7. CASE Outcome(a) \notin {"waiting", "temporary"}
  <2>1. pc' = "done" /\ result' = Outcome(a) /\ until' = until
    BY <1>7 DEF RequestAnswered, Finish
  <2> QED BY <1>2, <1>4, <1>5, <1>7, <2>1
<1> QED BY <1>6, <1>7

LEMMA NextType == IInv /\ [Next]_vars => TypeOK'
<1> SUFFICES ASSUME IInv, [Next]_vars PROVE TypeOK'
  OBVIOUS
<1> USE DEF IInv
<1>0. CASE UNCHANGED vars
  BY <1>0 DEF vars, TypeOK
<1>1. CASE Poll
  BY <1>1, PollShape, Limits DEF TypeOK
<1>2. CASE SleepOver
  BY <1>2, TimeAssumption
  DEF TypeOK, SleepOver
<1>3. CASE Cancel
  BY <1>3, TimeAssumption
  DEF TypeOK, Cancel, Finish
<1>4. ASSUME NEW a \in Answers, ProbeAnswered(a) PROVE TypeOK'
  <2>1. a \in Conditions
    BY DEF Answers, TypeOK, Conditions, Outages
  <2>2. CASE a \in NodeStates /\ policy = "verified"
    BY <1>4, <2>1, <2>2 DEF ProbeAnswered, Note, TypeOK
  <2>3. CASE ~(a \in NodeStates /\ policy = "verified")
    BY <1>4, <2>1, <2>3 DEF ProbeAnswered, Note, Finish, TypeOK
  <2> QED BY <2>2, <2>3
<1>5. ASSUME NEW a \in Answers, RequestAnswered(a) PROVE TypeOK'
  <2>1. a \in Conditions
    BY DEF Answers, TypeOK, Conditions, Outages
  <2>2. readyFor' \in Nat /\ until' \in 0 .. Timeout
    BY <1>5, RequestShape, TimeAssumption DEF TypeOK
  <2>3. /\ pc' \in {"poll", "probe", "request", "delay", "done"}
        /\ result' \in {"none", "Ok", "Timeout", "Probe", "Api", "Decode"}
        /\ (pc' = "done") = (result' # "none")
    <3>1. pc = "request" /\ result = "none"
      BY <1>5 DEF RequestAnswered, TypeOK
    <3> QED BY <1>5, <3>1, RequestShape
  <2>4. UNCHANGED <<helper, policy, deadline, server, cache, elapsed, since, polls>> /\ last' = a
    BY <1>5, RequestShape
  <2> QED BY <2>1, <2>2, <2>3, <2>4 DEF TypeOK
<1>6. CASE Tick
  BY <1>6, TimeAssumption
  DEF TypeOK, Tick, MayPass
<1>7. CASE CallAgain
  BY <1>7, TimeAssumption
  DEF TypeOK, CallAgain
<1>8. CASE ServerChanges
  BY <1>8, TimeAssumption
  DEF TypeOK, ServerChanges
<1> QED BY <1>0, <1>1, <1>2, <1>3, <1>4, <1>5, <1>6, <1>7, <1>8 DEF Next, Wait, Finished

LEMMA NextProbe == IInv /\ [Next]_vars => ProbeInv'
<1> SUFFICES ASSUME IInv, [Next]_vars PROVE ProbeInv'
  OBVIOUS
<1> USE DEF IInv
<1>0. CASE UNCHANGED vars
  BY <1>0 DEF vars, TypeOK, ProbeInv
<1>1. CASE Poll
  BY <1>1
  DEF TypeOK, ProbeInv, Poll, Finish
<1>2. CASE SleepOver
  BY <1>2
  DEF TypeOK, ProbeInv, SleepOver
<1>3. CASE Cancel
  BY <1>3
  DEF TypeOK, ProbeInv, Cancel, Finish
<1>4. ASSUME NEW a \in Answers, ProbeAnswered(a) PROVE ProbeInv'
  BY <1>4
  DEF TypeOK, ProbeInv, ProbeAnswered, Note, Finish, Answers
<1>5. ASSUME NEW a \in Answers, RequestAnswered(a) PROVE ProbeInv'
  BY <1>5
  DEF TypeOK, ProbeInv, RequestAnswered, Note, Continue, Sleep, Finish, Outcome, Answers
<1>6. CASE Tick
  BY <1>6
  DEF TypeOK, ProbeInv, Tick, MayPass
<1>7. CASE CallAgain
  BY <1>7
  DEF TypeOK, ProbeInv, CallAgain
<1>8. CASE ServerChanges
  BY <1>8
  DEF TypeOK, ProbeInv, ServerChanges
<1> QED BY <1>0, <1>1, <1>2, <1>3, <1>4, <1>5, <1>6, <1>7, <1>8 DEF Next, Wait, Finished

LEMMA NextClock == IInv /\ [Next]_vars => ClockInv'
<1> SUFFICES ASSUME IInv, [Next]_vars PROVE ClockInv'
  OBVIOUS
<1> USE DEF IInv
<1>0. CASE UNCHANGED vars
  BY <1>0 DEF vars, TypeOK, ProbeInv, ClockInv, PollTime, Ready
<1>1. CASE Poll
  BY <1>1, PollShape, TimeAssumption DEF TypeOK, ProbeInv, ClockInv, PollTime, Ready
<1>2. CASE SleepOver
  BY <1>2, TimeAssumption
  DEF TypeOK, ProbeInv, ClockInv, PollTime, Ready, SleepOver
<1>3. CASE Cancel
  BY <1>3, TimeAssumption
  DEF TypeOK, ProbeInv, ClockInv, PollTime, Ready, Cancel, Finish
<1>4. ASSUME NEW a \in Answers, ProbeAnswered(a) PROVE ClockInv'
  BY <1>4, TimeAssumption
  DEF TypeOK, ProbeInv, ClockInv, PollTime, Ready, ProbeAnswered, Note, Finish, Answers
<1>5. ASSUME NEW a \in Answers, RequestAnswered(a) PROVE ClockInv'
  <2>1. /\ UNCHANGED <<helper, policy, deadline, elapsed>>
        /\ last' = a /\ pc = "request" /\ result = "none"
    BY <1>5, RequestShape DEF RequestAnswered, TypeOK
  <2>2. Ready(last)' = Ready(a) /\ PollTime' = PollTime
    BY <2>1 DEF Ready, PollTime
  <2>3. \/ pc' = "delay" /\ result' = "none" /\ until' \in Nat /\ elapsed <= until'
        \/ pc' = "done" /\ (result' = "Timeout" => elapsed >= Timeout /\ ~Ready(a))
    BY <1>5, <2>1, RequestShape, TimeAssumption DEF TypeOK
  <2> QED BY <2>1, <2>2, <2>3, TimeAssumption DEF ClockInv, TypeOK
<1>6. CASE Tick
  BY <1>6, TimeAssumption
  DEF TypeOK, ProbeInv, ClockInv, PollTime, Ready, Tick, MayPass
<1>7. CASE CallAgain
  BY <1>7, TimeAssumption
  DEF TypeOK, ProbeInv, ClockInv, PollTime, Ready, CallAgain
<1>8. CASE ServerChanges
  BY <1>8, TimeAssumption
  DEF TypeOK, ProbeInv, ClockInv, PollTime, Ready, ServerChanges
<1> QED BY <1>0, <1>1, <1>2, <1>3, <1>4, <1>5, <1>6, <1>7, <1>8 DEF Next, Wait, Finished

LEMMA NextPolls == IInv /\ [Next]_vars => PollsInv'
<1> SUFFICES ASSUME IInv, [Next]_vars PROVE PollsInv'
  OBVIOUS
<1> USE DEF IInv
<1>0. CASE UNCHANGED vars
  BY <1>0 DEF vars, TypeOK, PollsInv
<1>1. CASE Poll
  <2>1. (polls + 1) - 1 = polls /\ polls + 1 <= PollLimit /\ polls + 1 > 0
    BY <1>1, Limits DEF Poll, TypeOK, PollsInv
  <2>2. polls * Interval <= elapsed \/ Timeout <= elapsed
    BY <1>1 DEF Poll, PollsInv
  <2> QED BY <1>1, <2>1, <2>2, PollShape DEF PollsInv
<1>2. CASE SleepOver
  BY <1>2, TimeAssumption, Limits
  DEF TypeOK, PollsInv, SleepOver
<1>3. CASE Cancel
  BY <1>3, TimeAssumption, Limits
  DEF TypeOK, PollsInv, Cancel, Finish
<1>4. ASSUME NEW a \in Answers, ProbeAnswered(a) PROVE PollsInv'
  BY <1>4, TimeAssumption, Limits
  DEF TypeOK, PollsInv, ProbeAnswered, Note, Finish, Answers
<1>5. ASSUME NEW a \in Answers, RequestAnswered(a) PROVE PollsInv'
  <2>1. UNCHANGED <<elapsed, polls>>
    BY <1>5, RequestShape
  <2>2. CASE pc' = "delay"
    <3>1. /\ pc = "request" /\ elapsed < Timeout /\ elapsed \in Nat /\ polls \in Nat
          /\ until' = elapsed + (IF Interval <= Timeout - elapsed THEN Interval
                                 ELSE Timeout - elapsed)
      BY <1>5, <2>2, RequestShape DEF RequestAnswered, TypeOK
    <3>2. polls - 1 \in Nat /\ (polls - 1) * Interval <= elapsed
      BY <3>1, TimeAssumption DEF PollsInv
    <3>3. polls - 1 <= Timeout \div Interval
      <4>1. (polls - 1) * Interval \in Nat
        BY <3>2, TimeAssumption
      <4>2. (polls - 1) * Interval <= Timeout
        BY <3>1, <3>2, <4>1, TimeAssumption
      <4> QED BY <3>2, <4>2, IntervalsFit
    <3>4. polls < PollLimit
      BY <3>1, <3>3, Limits
    <3>5. polls * Interval = (polls - 1) * Interval + Interval /\ (polls - 1) * Interval \in Nat
      BY <3>1, <3>2, TimeAssumption
    <3>6. polls * Interval <= until' \/ Timeout <= until'
      BY <3>1, <3>2, <3>5, TimeAssumption
    <3> QED BY <2>1, <2>2, <3>4, <3>6 DEF PollsInv
  <2>3. CASE pc' = "done"
    BY <2>1, <2>3 DEF PollsInv
  <2> QED BY <1>5, <2>2, <2>3, RequestShape
<1>6. CASE Tick
  BY <1>6, TimeAssumption, Limits
  DEF TypeOK, PollsInv, Tick, MayPass
<1>7. CASE CallAgain
  BY <1>7, TimeAssumption, Limits
  DEF TypeOK, PollsInv, CallAgain
<1>8. CASE ServerChanges
  BY <1>8, TimeAssumption, Limits
  DEF TypeOK, PollsInv, ServerChanges
<1> QED BY <1>0, <1>1, <1>2, <1>3, <1>4, <1>5, <1>6, <1>7, <1>8 DEF Next, Wait, Finished

LEMMA NextNotice == IInv /\ [Next]_vars => NoticeInv'
<1> SUFFICES ASSUME IInv, [Next]_vars PROVE NoticeInv'
  OBVIOUS
<1> USE DEF IInv
<1>0. CASE UNCHANGED vars
  BY <1>0 DEF vars, TypeOK, ProbeInv, ClockInv, NoticeInv, PollTime, Ready
<1>1. CASE Poll
  BY <1>1, PollShape, TimeAssumption DEF TypeOK, ProbeInv, ClockInv, NoticeInv, PollTime, Ready
<1>2. CASE SleepOver
  BY <1>2, TimeAssumption
  DEF TypeOK, ProbeInv, ClockInv, NoticeInv, PollTime, Ready, SleepOver
<1>3. CASE Cancel
  BY <1>3, TimeAssumption
  DEF TypeOK, ProbeInv, ClockInv, NoticeInv, PollTime, Ready, Cancel, Finish
<1>4. ASSUME NEW a \in Answers, ProbeAnswered(a) PROVE NoticeInv'
  BY <1>4, TimeAssumption
  DEF TypeOK, ProbeInv, ClockInv, NoticeInv, PollTime, Ready, ProbeAnswered, Note, Finish, Answers
<1>5. ASSUME NEW a \in Answers, RequestAnswered(a) PROVE NoticeInv'
  <2>1. UNCHANGED <<helper, server, elapsed>>
    BY <1>5, RequestShape
  <2>2. Ready(server)' = Ready(server)
    BY <2>1 DEF Ready
  <2>3. ~Ready(server) => readyFor' = 0
    BY <1>5, RequestShape DEF NoticeInv
  <2>4. CASE pc' = "delay"
    <3>1. readyFor' = 0 /\ until' \in Nat /\ until' <= elapsed + Interval
      BY <1>5, <2>4, RequestShape, TimeAssumption DEF NoticeInv, TypeOK
    <3>2. readyFor' + until' <= elapsed' + Interval
      <4>1. elapsed' = elapsed /\ elapsed \in Nat /\ Interval \in Nat
        BY <2>1, TimeAssumption DEF TypeOK
      <4>2. readyFor' \in Nat
        BY <3>1
      <4>3. \A u, r, e, i \in Nat : r = 0 /\ u <= e + i => r + u <= e + i
        OBVIOUS
      <4> QED BY <3>1, <4>1, <4>2, <4>3
    <3> QED BY <2>4, <3>1, <3>2 DEF NoticeInv
  <2>5. CASE pc' = "done"
    BY <2>2, <2>3, <2>5 DEF NoticeInv
  <2> QED BY <1>5, <2>4, <2>5, RequestShape
<1>6. CASE Tick
  BY <1>6, TimeAssumption
  DEF TypeOK, ProbeInv, ClockInv, NoticeInv, PollTime, Ready, Tick, MayPass
<1>7. CASE CallAgain
  BY <1>7, TimeAssumption
  DEF TypeOK, ProbeInv, ClockInv, NoticeInv, PollTime, Ready, CallAgain
<1>8. CASE ServerChanges
  BY <1>8, TimeAssumption
  DEF TypeOK, ProbeInv, ClockInv, NoticeInv, PollTime, Ready, ServerChanges
<1> QED BY <1>0, <1>1, <1>2, <1>3, <1>4, <1>5, <1>6, <1>7, <1>8 DEF Next, Wait, Finished

\* An answer to the helper's own request ends the wait with an error exactly
\* when it is a lasting one.
LEMMA OutcomeIsLasting ==
  ASSUME NEW a \in Answers, TypeOK
  PROVE  /\ Outcome(a) \in {"Api", "Decode"} <=> a \in LastingAnswers
         /\ Outcome(a) \in {"Ok", "waiting", "temporary", "Api", "Decode"}
<1>1. a \in Conditions
  BY DEF Answers, TypeOK, Conditions, Outages
<1> QED
  BY <1>1 DEF Outcome, LastingAnswers, Undecodable, is_temporary, Conditions, Outages, NodeStates,
     Ready

LEMMA NextCause == IInv /\ [Next]_vars => OnlyLastingErrorsEndAWait'
<1> SUFFICES ASSUME IInv, [Next]_vars PROVE OnlyLastingErrorsEndAWait'
  OBVIOUS
<1> USE DEF IInv
<1>0. CASE UNCHANGED vars
  BY <1>0 DEF vars, OnlyLastingErrorsEndAWait, LastingAnswers
<1>1. CASE Poll
  BY <1>1, PollShape DEF TypeOK, ProbeInv, OnlyLastingErrorsEndAWait, LastingAnswers
<1>2. CASE SleepOver
  BY <1>2 DEF TypeOK, ProbeInv, OnlyLastingErrorsEndAWait, LastingAnswers, SleepOver
<1>3. CASE Cancel
  BY <1>3, TimeAssumption
  DEF TypeOK, ProbeInv, OnlyLastingErrorsEndAWait, LastingAnswers, Cancel, Finish
<1>4. ASSUME NEW a \in Answers, ProbeAnswered(a) PROVE OnlyLastingErrorsEndAWait'
  <2>1. pc = "probe" /\ result = "none" /\ last' = a /\ helper' = helper
    BY <1>4 DEF ProbeAnswered, Note, TypeOK
  <2>2. CASE a \in NodeStates /\ policy = "verified"
    <3>1. a \notin LastingAnswers
      BY <2>2 DEF LastingAnswers, NodeStates
    <3>2. cache' = "Complete" /\ pc' = "request" /\ result' = "none"
      BY <1>4, <2>1, <2>2 DEF ProbeAnswered
    <3> QED BY <2>1, <3>1, <3>2 DEF OnlyLastingErrorsEndAWait, LastingAnswers
  <2>3. CASE ~(a \in NodeStates /\ policy = "verified")
    <3>1. cache' = "Failed" /\ pc' = "done" /\ result' = "Probe"
      BY <1>4, <2>3 DEF ProbeAnswered, Finish
    <3> QED BY <3>1 DEF OnlyLastingErrorsEndAWait
  <2> QED BY <2>2, <2>3
<1>5. ASSUME NEW a \in Answers, RequestAnswered(a) PROVE OnlyLastingErrorsEndAWait'
  <2>1. /\ pc = "request" /\ cache = "Complete" /\ cache' = "Complete" /\ result = "none"
        /\ last' = a /\ helper' = helper
    BY <1>5 DEF RequestAnswered, Note, TypeOK, ProbeInv
  <2>2. result' \in {"Api", "Decode"} <=> Outcome(a) \in {"Api", "Decode"}
    BY <1>5, <2>1, OutcomeIsLasting DEF RequestAnswered, Continue, Sleep, Finish
  <2>3. result' # "Probe"
    BY <1>5, <2>1, OutcomeIsLasting DEF RequestAnswered, Continue, Sleep, Finish
  <2>4. LastingAnswers' = LastingAnswers
    BY <2>1 DEF LastingAnswers
  <2> QED
    BY <2>1, <2>2, <2>3, <2>4, OutcomeIsLasting DEF OnlyLastingErrorsEndAWait
<1>6. CASE Tick
  BY <1>6 DEF TypeOK, ProbeInv, OnlyLastingErrorsEndAWait, LastingAnswers, Tick, MayPass
<1>7. CASE CallAgain
  BY <1>7 DEF TypeOK, ProbeInv, OnlyLastingErrorsEndAWait, LastingAnswers, CallAgain
<1>8. CASE ServerChanges
  BY <1>8 DEF TypeOK, ProbeInv, OnlyLastingErrorsEndAWait, LastingAnswers, ServerChanges
<1> QED BY <1>0, <1>1, <1>2, <1>3, <1>4, <1>5, <1>6, <1>7, <1>8 DEF Next, Wait, Finished

LEMMA Invariance == Spec => []IInv
<1>1. IInv /\ [Next]_vars => IInv'
  BY NextType, NextProbe, NextClock, NextPolls, NextNotice, NextCause DEF IInv
<1> QED BY <1>1, InitIInv, PTL DEF Spec

-----------------------------------------------------------------------------
(* The theorems. *)

\* The clock, the phases and the cached verdict always have their types, and no
\* sleep is planned past the end of the budget.
THEOREM TypeCorrect == Spec => []TypeOK
<1>1. IInv => TypeOK
  BY DEF IInv
<1> QED BY <1>1, Invariance, PTL

\* Whatever the arguments, a wait ends in its time, does not give up early, and
\* polls no more often than once per interval.
THEOREM TimeIsKept == Spec => []KeepsToItsTime
<1>1. IInv => KeepsToItsTime
  BY DEF IInv, ClockInv, PollsInv, KeepsToItsTime
<1> QED BY <1>1, Invariance, PTL

\* A wait does not sleep through a server that has become ready.
THEOREM ReadinessNoticed == Spec => []ReadyIsNoticed
<1>1. IInv => ReadyIsNoticed
  BY Limits, TimeAssumption DEF IInv, TypeOK, ProbeInv, ClockInv, NoticeInv, ReadyIsNoticed,
     PollTime
<1> QED BY <1>1, Invariance, PTL

\* Behind a verdict that lets the client through, refusals, 501, 505 and
\* undecodable answers end a wait at once and nothing else does; a verdict that
\* does not ends every wait.
THEOREM ErrorsAreLasting == Spec => []OnlyLastingErrorsEndAWait
<1>1. IInv => OnlyLastingErrorsEndAWait
  BY DEF IInv
<1> QED BY <1>1, Invariance, PTL
=============================================================================
