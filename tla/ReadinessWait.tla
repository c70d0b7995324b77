----------------------------- MODULE ReadinessWait -----------------------------
(***************************************************************************)
(* The polling helpers of src/src/sys.rs: wait_ready and wait_until_unsealed,  *)
(* with the strict deadline of the tokio wrappers or with a caller's delay     *)
(* function, over a client whose compatibility policy may require a probe      *)
(* before the first request.                                                   *)
(*                                                                          *)
(* Time is counted in ticks from the start of a call.  Code runs in no time;   *)
(* a request takes up to RequestTimeout ticks, the limit of the HTTP client,   *)
(* and a sleep may end up to Slack ticks late.                                 *)
(***************************************************************************)
EXTENDS Naturals, FiniteSetsExt

CONSTANTS
  Helpers,         \* subset of {"ready", "unsealed"}
  Policies,        \* subset of {"none", "verified", "mismatched"}: no probe, a probe
                   \* that the server's version passes, or one that it fails
  Deadlines,       \* subset of {"strict", "budget"}: tokio wrapper or caller's delay
  Timeout, Interval,  \* the arguments of the call, both greater than zero
  RequestTimeout, \* OpenBaoConfig::timeout
  Slack,           \* bound: how late a timer may fire
  MaxChanges,      \* bound: changes of the server's condition
  MaxCalls         \* bound: calls of the helper on one client

ASSUME TimeAssumption ==
  /\ Timeout \in Nat \ {0} /\ Interval \in Nat \ {0}
  /\ RequestTimeout \in Nat \ {0} /\ Slack \in Nat

VARIABLES
  helper, policy, deadline,   \* what is called, on which client
  server,          \* what a request would find
  cache,           \* the client's compatibility verdict
  pc, elapsed,     \* where the call is, and start.elapsed()
  since,           \* when the request under way was sent
  until,           \* when the sleep under way ends
  last,            \* the last answer the call got
  result,
  polls,           \* history: iterations of the loop, counted up to PollLimit + 1
  readyFor,        \* history: ticks the server has been ready without a loss
  changes, calls

vars == <<helper, policy, deadline, server, cache, pc, elapsed, since, until, last,
          result, polls, readyFor, changes, calls>>

\* A request finds the server or the connection down, a rate limit or an
\* intermediary answering for it (limited: 429, unavailable: 503,
\* not_implemented: 501, http_version: 505, failed: any other 5xx; none with a
\* health document), a refusal (denied: 3xx or 4xx), a 200 whose body cannot be
\* decoded, or a node in one of its states.
Outages == {"down", "limited", "unavailable", "failed"}

NodeStates == {"uninitialized", "sealed", "standby", "active"}

Conditions ==
  Outages \cup NodeStates \cup {"denied", "not_implemented", "http_version", "undecodable"}

\* The most polls the interval leaves room for: one at the start, one after each
\* whole interval and one at the deadline.
PollLimit == Timeout \div Interval + 2

Ready(a) == a \in (IF helper = "ready" THEN {"active"} ELSE {"standby", "active"})

-----------------------------------------------------------------------------
Init ==
  /\ helper \in Helpers /\ policy \in Policies /\ deadline \in Deadlines
  /\ server \in Conditions
  /\ cache = IF policy = "none" THEN "Complete" ELSE "Pending"
  /\ pc = "poll"
  /\ elapsed = 0 /\ since = 0 /\ until = 0
  /\ last = "none"
  /\ result = "none"
  /\ polls = 0 /\ readyFor = 0
  /\ changes = 0 /\ calls = 1

Finish(r) ==
  /\ pc' = "done"
  /\ result' = r

\* health() and seal_status() both pass through ensure_compatibility first.
Poll ==
  /\ pc = "poll"
  /\ polls' = Min({polls + 1, PollLimit + 1})
  /\ CASE cache = "Complete" -> pc' = "request" /\ UNCHANGED result
       [] cache = "Pending" -> pc' = "probe" /\ UNCHANGED result
       [] cache = "Failed" -> Finish("Probe")
  /\ since' = elapsed
  /\ UNCHANGED <<helper, policy, deadline, server, cache, elapsed, until, last, readyFor,
                 changes, calls>>

\* An answer arrives, or the connection fails or times out on its way.
Answers == {server, "down"}

Note(a) ==
  /\ last' = a
  /\ readyFor' = IF a = server THEN readyFor ELSE 0

\* probe_openbao_version and the policy: whatever is not a health document is a
\* failed probe, the policy may refuse the version of one that is, and the
\* verdict is kept for the life of the client.
ProbeAnswered(a) ==
  /\ pc = "probe"
  /\ Note(a)
  /\ IF a \in NodeStates /\ policy = "verified"
     THEN cache' = "Complete" /\ pc' = "request" /\ since' = elapsed /\ UNCHANGED result
     ELSE cache' = "Failed" /\ Finish("Probe") /\ UNCHANGED since
  /\ UNCHANGED <<helper, policy, deadline, server, elapsed, until, polls, changes, calls>>

\* Mutant of is_temporary: every server error is.
is_temporary_all_5xx(a) == a \in Outages \cup {"not_implemented", "http_version"}

\* Error::is_temporary, for an answer of a status the request does not accept.
is_temporary(a) == a \in Outages

\* /sys/health accepts 429, 501 and 503, which stand for node states there;
\* without a health document they cannot be decoded.
Undecodable(a) ==
  \/ a = "undecodable"
  \/ helper = "ready" /\ a \in {"limited", "unavailable", "not_implemented"}

\* How the helper's own request classifies an answer.
Outcome(a) ==
  IF Ready(a) THEN "Ok"
  ELSE IF a \in NodeStates THEN "waiting"
  ELSE IF Undecodable(a) THEN "Decode"
  ELSE IF is_temporary(a) THEN "temporary"
  ELSE "Api"

\* Mutant of Sleep: the remaining budget is slept in one go.
SleepToEnd ==
  /\ pc' = "delay"
  /\ until' = Timeout
  /\ UNCHANGED result

\* delay(interval.min(timeout.saturating_sub(elapsed)))
Sleep ==
  /\ pc' = "delay"
  /\ until' = elapsed + Min({Interval, Timeout - elapsed})
  /\ UNCHANGED result

\* Mutant of Continue: polls on at the deadline, where the sleep is zero.
ContinueAtDeadline ==
  IF elapsed > Timeout THEN Finish("Timeout") /\ UNCHANGED until ELSE Sleep

\* Mutant of Continue: gives up when the next sleep would reach the deadline.
ContinueEarly ==
  IF elapsed + Interval >= Timeout THEN Finish("Timeout") /\ UNCHANGED until ELSE Sleep

Continue ==
  IF elapsed >= Timeout THEN Finish("Timeout") /\ UNCHANGED until ELSE Sleep

RequestAnswered(a) ==
  /\ pc = "request"
  /\ Note(a)
  /\ IF Outcome(a) \in {"waiting", "temporary"} THEN Continue
     ELSE Finish(Outcome(a)) /\ UNCHANGED until
  /\ UNCHANGED <<helper, policy, deadline, server, cache, elapsed, since, polls, changes, calls>>

SleepOver ==
  /\ pc = "delay"
  /\ elapsed >= until
  /\ pc' = "poll"
  /\ UNCHANGED <<helper, policy, deadline, server, cache, elapsed, since, until, last, result,
                 polls, readyFor, changes, calls>>

\* tokio::time::timeout drops the whole future.  A dropped probe puts the
\* verdict back to Pending.
Cancel ==
  /\ deadline = "strict" /\ pc # "done" /\ elapsed >= Timeout
  /\ Finish("Timeout")
  /\ UNCHANGED <<helper, policy, deadline, server, cache, elapsed, since, until, last, polls,
                 readyFor, changes, calls>>

\* The helper is called again on the same client.
CallAgain ==
  /\ pc = "done" /\ calls < MaxCalls
  /\ calls' = calls + 1
  /\ pc' = "poll" /\ result' = "none" /\ last' = "none"
  /\ elapsed' = 0 /\ since' = 0 /\ until' = 0 /\ polls' = 0 /\ readyFor' = 0
  /\ UNCHANGED <<helper, policy, deadline, server, cache, changes>>

-----------------------------------------------------------------------------
(* Time and the server. *)

\* Timers fire on time, give or take Slack, and a request that reaches its
\* timeout fails then: time does not pass them by.
MayPass ==
  /\ pc \in {"probe", "request", "delay"}
  /\ pc \in {"probe", "request"} => elapsed < since + RequestTimeout
  /\ pc = "delay" => elapsed < until + Slack
  /\ deadline = "strict" => elapsed < Timeout

Tick ==
  /\ MayPass
  /\ elapsed' = elapsed + 1
  /\ readyFor' = IF Ready(server) THEN readyFor + 1 ELSE 0
  /\ UNCHANGED <<helper, policy, deadline, server, cache, pc, since, until, last, result,
                 polls, changes, calls>>

ServerChanges ==
  /\ changes < MaxChanges
  /\ changes' = changes + 1
  /\ server' \in Conditions \ {server}
  /\ readyFor' = 0
  /\ UNCHANGED <<helper, policy, deadline, cache, pc, elapsed, since, until, last, result,
                 polls, calls>>

Finished == pc = "done" /\ calls = MaxCalls /\ UNCHANGED vars

Wait ==
  \/ Poll \/ SleepOver \/ Cancel
  \/ \E a \in Answers : ProbeAnswered(a) \/ RequestAnswered(a)

Next == Wait \/ Tick \/ CallAgain \/ ServerChanges \/ Finished

Spec == Init /\ [][Next]_vars

\* Time goes on, and an executor runs the call when its request or timer is
\* due: it cannot wait for ever where time may no longer pass.
FairSpec == Spec /\ WF_vars(Tick) /\ WF_vars(~MayPass /\ Wait)

-----------------------------------------------------------------------------
(* Properties *)

\* Sleeps are never planned past the end of the budget.
TypeOK ==
  /\ helper \in Helpers /\ policy \in Policies /\ deadline \in Deadlines
  /\ server \in Conditions /\ readyFor \in Nat
  /\ cache \in {"Pending", "Complete", "Failed"}
  /\ pc \in {"poll", "probe", "request", "delay", "done"}
  /\ elapsed \in Nat /\ since \in 0 .. elapsed /\ until \in 0 .. Timeout
  /\ last \in Conditions \cup {"none"} /\ polls \in Nat
  /\ result \in {"none", "Ok", "Timeout", "Probe", "Api", "Decode"}
  /\ (pc = "done") = (result # "none")

\* How long the request of one iteration may take, probe included.
PollTime == IF policy = "none" THEN RequestTimeout ELSE 2 * RequestTimeout

\* A wait keeps to its time.  A strict one never outlives its deadline and one
\* on a budget outlives it by a late timer and one iteration at most; neither
\* gives up before its time is over, nor on a budget without having found the
\* server not ready at or after the deadline; and the server is not polled more
\* often than the interval asks for.
KeepsToItsTime ==
  /\ elapsed <= IF deadline = "strict" THEN Timeout ELSE Timeout + Slack + PollTime
  /\ result = "Timeout" => elapsed >= Timeout /\ (deadline = "budget" => ~Ready(last))
  /\ polls <= PollLimit

\* A server that has become ready and answers is noticed within an interval and
\* one iteration.
ReadyIsNoticed == pc # "done" => readyFor <= Interval + Slack + PollTime

\* Transport failures, rate limiting, sealed nodes and server errors are
\* retried: none of them ends a wait before it succeeds or runs out of time.
TransientFailuresRetried ==
  result \notin {"none", "Ok", "Timeout"} => last \notin Outages \cup NodeStates

\* The answers after which the code does not ask again: refusals, 501 and 505,
\* and what cannot be decoded, which for wait_ready includes a 429 or 503
\* without a health document.
LastingAnswers ==
  {"denied", "not_implemented", "http_version", "undecodable"}
  \cup (IF helper = "ready" THEN {"limited", "unavailable"} ELSE {})

\* As far as the code keeps that promise.  Once the client has a verdict that
\* lets it through, a wait ends with an error exactly when its last answer is a
\* lasting one: no outage ends it, neither by itself nor because an earlier wait
\* met one, and no lasting answer is polled over until the time is up.  A verdict
\* that does not let it through ends this wait and every later one without
\* another request, and nothing else fails as a compatibility error
\* (Error::is_temporary, error.rs).
OnlyLastingErrorsEndAWait ==
  /\ result \in {"Api", "Decode"} <=> cache = "Complete" /\ last \in LastingAnswers
  /\ result = "Probe" <=> cache = "Failed" /\ pc = "done"
  /\ cache = "Failed" => pc \in {"poll", "done"}

\* Every wait returns.
EveryWaitEnds == pc = "poll" ~> pc = "done"
=============================================================================
