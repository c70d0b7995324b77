---------------------- MODULE CompatibilityVerification ----------------------
(***************************************************************************)
(* The single-flight compatibility check every request of a client passes   *)
(* through: ClientCompatibility, CompatibilityWait, CompatibilityLeader and  *)
(* Client::ensure_compatibility of src/src/client.rs.                        *)
(*                                                                          *)
(* A caller is one call of ensure_compatibility, that is one future; clones  *)
(* of a client share the same state, so callers of all of them are here.     *)
(* A step is what one caller does under one acquisition of the mutex, or     *)
(* between two of them.  A future can be dropped (cancelled) only while it   *)
(* is suspended at an await: as a registered waiter or during the probe.     *)
(***************************************************************************)
EXTENDS CompatibilityPolicy, FiniteSets

CONSTANTS
  Callers,
  MaxWaiters,    \* MAX_COMPATIBILITY_WAITERS
  MaxCancels,    \* bound: futures dropped before they return
  MaxPanics      \* bound: polls in which the executor's waker panics (0 or 1)

ASSUME BoundAssumption ==
  /\ MaxWaiters \in Nat
  /\ MaxCancels \in Nat
  /\ MaxPanics \in Nat

VARIABLES
  policy,        \* ClientCompatibility::policy, fixed when the client is built
  verification,  \* the CompatibilityVerificationState behind the mutex
  poisoned,      \* the mutex was held by a poll that panicked
  pc,            \* where each call is
  notified,      \* the calls whose waker has fired since their last poll
  toWake,        \* wakers a leader took from the list and has not fired yet
  local,         \* the result a leader holds after completing
  outcome,       \* what the call returned
  decided,       \* history: the result passed to CompatibilityLeader::complete
  observed,      \* history: what the probes have returned so far
  probes,        \* history: how many probes were started
  cancels,
  panics

vars == <<policy, verification, poisoned, pc, notified, toWake, local, outcome,
          decided, observed, probes, cancels, panics>>

NoResult == [tag |-> "None"]

TooManyWaiters == [tag |-> "Refused", kind |-> "TooManyWaiters"]

LockFailed == [tag |-> "Refused", kind |-> "LockFailed"]

Refusals == {TooManyWaiters, LockFailed}

\* Every result the leader can reach under policy p.
Results(p) ==
  IF IsImmediate(p) THEN {immediate_report(p)}
  ELSE {EvaluatePolicy(p, v) : v \in Versions \cup {NoVersion}}

Pending == [state |-> "Pending", waiters |-> {}, result |-> NoResult]

Running(ws) == [state |-> "Running", waiters |-> ws, result |-> NoResult]

Complete(r) == [state |-> "Complete", waiters |-> {}, result |-> r]

-----------------------------------------------------------------------------
(* ClientCompatibility::new *)

Init ==
  /\ policy \in Policies
  /\ verification =
       IF IsImmediate(policy) THEN Complete(immediate_report(policy)) ELSE Pending
  /\ decided = verification.result
  /\ poisoned = FALSE
  /\ pc = [c \in Callers |-> "idle"]
  /\ notified = {}
  /\ toWake = [c \in Callers |-> {}]
  /\ local = [c \in Callers |-> NoResult]
  /\ outcome = [c \in Callers |-> NoResult]
  /\ observed = {}
  /\ probes = 0
  /\ cancels = 0
  /\ panics = 0

-----------------------------------------------------------------------------
Goto(c, l) == pc' = [pc EXCEPT ![c] = l]

Return(c, r) ==
  /\ Goto(c, "done")
  /\ outcome' = [outcome EXCEPT ![c] = r]

\* The call is made and polled for the first time.
Call(c) ==
  /\ pc[c] = "idle"
  /\ Goto(c, "loop")
  /\ UNCHANGED <<policy, verification, poisoned, notified, toWake, local, outcome,
                 decided, observed, probes, cancels, panics>>

(* The head of the loop in ensure_compatibility, under the lock.             *)

LoopFailed(c) ==
  /\ pc[c] = "loop"
  /\ poisoned
  /\ Return(c, LockFailed)
  /\ UNCHANGED <<policy, verification, poisoned, notified, toWake, local,
                 decided, observed, probes, cancels, panics>>

LoopComplete(c) ==
  /\ pc[c] = "loop"
  /\ ~poisoned
  /\ verification.state = "Complete"
  /\ Return(c, verification.result)
  /\ UNCHANGED <<policy, verification, poisoned, notified, toWake, local,
                 decided, observed, probes, cancels, panics>>

LoopWait(c) ==
  /\ pc[c] = "loop"
  /\ ~poisoned
  /\ verification.state = "Running"
  /\ Goto(c, "poll")
  /\ UNCHANGED <<policy, verification, poisoned, notified, toWake, local, outcome,
                 decided, observed, probes, cancels, panics>>

\* Mutant of LoopLead: the leader forgets to mark the verification as running.
LoopLeadUnmarked(c) ==
  /\ pc[c] = "loop"
  /\ ~poisoned
  /\ verification.state = "Pending"
  /\ probes' = probes + 1
  /\ Goto(c, "probing")
  /\ UNCHANGED <<policy, verification, poisoned, notified, toWake, local, outcome,
                 decided, observed, cancels, panics>>

LoopLead(c) ==
  /\ pc[c] = "loop"
  /\ ~poisoned
  /\ verification.state = "Pending"
  /\ verification' = Running({})
  /\ probes' = probes + 1
  /\ Goto(c, "probing")
  /\ UNCHANGED <<policy, poisoned, notified, toWake, local, outcome,
                 decided, observed, cancels, panics>>

(* CompatibilityWait::poll.  A poll happens right after the wait is created, *)
(* when the waker has fired, or spuriously (the future is polled along with  *)
(* another one of its task).  Every poll clears the notification.            *)

Polling(c) == pc[c] \in {"poll", "parked"}

Polled(c) == notified' = notified \ {c}

PollFailed(c) ==
  /\ Polling(c)
  /\ poisoned
  /\ Return(c, LockFailed)
  /\ Polled(c)
  /\ UNCHANGED <<policy, verification, poisoned, toWake, local,
                 decided, observed, probes, cancels, panics>>

PollComplete(c) ==
  /\ Polling(c)
  /\ ~poisoned
  /\ verification.state = "Complete"
  /\ Return(c, verification.result)
  /\ Polled(c)
  /\ UNCHANGED <<policy, verification, poisoned, toWake, local,
                 decided, observed, probes, cancels, panics>>

\* Pending means the leader was dropped: start over.
PollRetry(c) ==
  /\ Polling(c)
  /\ ~poisoned
  /\ verification.state = "Pending"
  /\ Goto(c, "loop")
  /\ Polled(c)
  /\ UNCHANGED <<policy, verification, poisoned, toWake, local, outcome,
                 decided, observed, probes, cancels, panics>>

PollTooMany(c) ==
  /\ Polling(c)
  /\ ~poisoned
  /\ verification.state = "Running"
  /\ c \notin verification.waiters
  /\ Cardinality(verification.waiters) >= MaxWaiters
  /\ Return(c, TooManyWaiters)
  /\ Polled(c)
  /\ UNCHANGED <<policy, verification, poisoned, toWake, local,
                 decided, observed, probes, cancels, panics>>

\* Registers the waker, or refreshes it when the token is already listed.
PollRegister(c) ==
  /\ Polling(c)
  /\ ~poisoned
  /\ verification.state = "Running"
  /\ \/ c \in verification.waiters
     \/ Cardinality(verification.waiters) < MaxWaiters
  /\ verification' = Running(verification.waiters \cup {c})
  /\ Goto(c, "parked")
  /\ Polled(c)
  /\ UNCHANGED <<policy, poisoned, toWake, local, outcome,
                 decided, observed, probes, cancels, panics>>

\* Cloning the executor's waker panics under the lock.  The unwinding drop of
\* the wait cannot take the poisoned mutex, so an earlier registration stays.
PollPanics(c) ==
  /\ Polling(c)
  /\ ~poisoned
  /\ verification.state = "Running"
  /\ \/ c \in verification.waiters
     \/ Cardinality(verification.waiters) < MaxWaiters
  /\ panics < MaxPanics
  /\ panics' = panics + 1
  /\ poisoned' = TRUE
  /\ Goto(c, "dropped")
  /\ Polled(c)
  /\ UNCHANGED <<policy, verification, toWake, local, outcome,
                 decided, observed, probes, cancels>>

Poll(c) ==
  \/ PollFailed(c) \/ PollComplete(c) \/ PollRetry(c)
  \/ PollTooMany(c) \/ PollRegister(c)

(* The leader.  The probe answers with a version or fails; evaluating the    *)
(* policy and CompatibilityLeader::complete follow without suspension.       *)

\* Mutant of LeaderCompletes: a failed verification is not cached.
LeaderCompletesUncachedFailure(c) ==
  /\ pc[c] = "probing"
  /\ \E probed \in Versions \cup {NoVersion} :
       LET r == EvaluatePolicy(policy, probed) IN
       /\ observed' = observed \cup {probed}
       /\ local' = [local EXCEPT ![c] = r]
       /\ decided' = r
       /\ verification' = IF poisoned THEN verification
                          ELSE IF r.tag = "Ok" THEN Complete(r) ELSE Pending
  /\ toWake' = [toWake EXCEPT ![c] = IF poisoned THEN {} ELSE verification.waiters]
  /\ Goto(c, "waking")
  /\ UNCHANGED <<policy, poisoned, notified, outcome, probes, cancels, panics>>

LeaderCompletes(c) ==
  /\ pc[c] = "probing"
  /\ \E probed \in Versions \cup {NoVersion} :
       LET r == EvaluatePolicy(policy, probed) IN
       /\ observed' = observed \cup {probed}
       /\ local' = [local EXCEPT ![c] = r]
       /\ decided' = r
       /\ verification' = IF poisoned THEN verification ELSE Complete(r)
  /\ toWake' = [toWake EXCEPT ![c] = IF poisoned THEN {} ELSE verification.waiters]
  /\ Goto(c, "waking")
  /\ UNCHANGED <<policy, poisoned, notified, outcome, probes, cancels, panics>>

\* Mutant of LeaderDropped: the waiters of a dropped leader are not woken.
LeaderDroppedSilently(c) ==
  /\ pc[c] = "probing"
  /\ cancels < MaxCancels
  /\ cancels' = cancels + 1
  /\ verification' =
       IF ~poisoned /\ verification.state = "Running" THEN Pending ELSE verification
  /\ Goto(c, "waking")
  /\ UNCHANGED <<policy, poisoned, notified, toWake, local, outcome, decided, observed,
                 probes, panics>>

\* Drop for CompatibilityLeader: cancelled, or unwinding, before complete.
LeaderDropped(c) ==
  /\ pc[c] = "probing"
  /\ cancels < MaxCancels
  /\ cancels' = cancels + 1
  /\ LET revert == ~poisoned /\ verification.state = "Running" IN
       /\ verification' = IF revert THEN Pending ELSE verification
       /\ toWake' = [toWake EXCEPT ![c] = IF revert THEN verification.waiters ELSE {}]
  /\ Goto(c, "waking")
  /\ UNCHANGED <<policy, poisoned, notified, local, outcome, decided, observed, probes, panics>>

\* The wakers fire one at a time, after the lock is released.
Wake(c) ==
  /\ pc[c] = "waking"
  /\ \E w \in toWake[c] :
       /\ toWake' = [toWake EXCEPT ![c] = @ \ {w}]
       /\ notified' = notified \cup {w}
  /\ UNCHANGED <<policy, verification, poisoned, pc, local, outcome,
                 decided, observed, probes, cancels, panics>>

\* Mutant of LeaderReturns: the guard's drop runs after complete() too and does
\* not put the previous state back.
LeaderReturnsAndDrops(c) ==
  /\ pc[c] = "waking"
  /\ toWake[c] = {}
  /\ IF local[c] = NoResult
     THEN Goto(c, "dropped") /\ UNCHANGED outcome
     ELSE Return(c, local[c])
  /\ verification' = IF poisoned THEN verification ELSE Pending
  /\ UNCHANGED <<policy, poisoned, notified, toWake, local,
                 decided, observed, probes, cancels, panics>>

LeaderReturns(c) ==
  /\ pc[c] = "waking"
  /\ toWake[c] = {}
  /\ IF local[c] = NoResult
     THEN Goto(c, "dropped") /\ UNCHANGED outcome
     ELSE Return(c, local[c])
  /\ UNCHANGED <<policy, verification, poisoned, notified, toWake, local,
                 decided, observed, probes, cancels, panics>>

\* Mutant of WaiterDropped: the wait has no Drop, its registration stays.
WaiterDroppedListed(c) ==
  /\ pc[c] = "parked"
  /\ cancels < MaxCancels
  /\ cancels' = cancels + 1
  /\ Goto(c, "dropped")
  /\ UNCHANGED <<policy, verification, poisoned, notified, toWake, local, outcome,
                 decided, observed, probes, panics>>

\* Drop for CompatibilityWait: a waiter is cancelled and takes its
\* registration with it.
WaiterDropped(c) ==
  /\ pc[c] = "parked"
  /\ cancels < MaxCancels
  /\ cancels' = cancels + 1
  /\ verification' =
       IF ~poisoned /\ verification.state = "Running"
       THEN Running(verification.waiters \ {c}) ELSE verification
  /\ Goto(c, "dropped")
  /\ UNCHANGED <<policy, poisoned, notified, toWake, local, outcome,
                 decided, observed, probes, panics>>

-----------------------------------------------------------------------------
Loop(c) == LoopFailed(c) \/ LoopComplete(c) \/ LoopWait(c) \/ LoopLead(c)

\* A poll the executor owes the call: the first one, or one after a wake-up.
OwedPoll(c) == (pc[c] = "poll" \/ c \in notified) /\ Poll(c)

Next ==
  \E c \in Callers :
    \/ Call(c) \/ Loop(c) \/ Poll(c) \/ PollPanics(c)
    \/ LeaderCompletes(c) \/ LeaderDropped(c) \/ Wake(c) \/ LeaderReturns(c)
    \/ WaiterDropped(c)

\* The executor runs a task that is ready and polls one that was woken, and
\* the HTTP client's request timeout ends every probe.  Nothing obliges a
\* call to be made, cancelled or polled without cause.
Fairness ==
  \A c \in Callers :
    /\ WF_vars(Loop(c))
    /\ WF_vars(OwedPoll(c))
    /\ WF_vars(LeaderCompletes(c))
    /\ WF_vars(Wake(c) \/ LeaderReturns(c))

Spec == Init /\ [][Next]_vars

FairSpec == Spec /\ Fairness

-----------------------------------------------------------------------------
(* Properties *)

PCs == {"idle", "loop", "poll", "parked", "probing", "waking", "done", "dropped"}

AllResults == UNION {Results(p) : p \in Policies}

VerificationStates ==
  {Pending} \cup {Running(ws) : ws \in SUBSET Callers}
            \cup {Complete(r) : r \in AllResults}

\* Every variable has its type; the waiter list exists only while Running and
\* a result only when Complete, as the three-armed Rust enum has it.
TypeOK ==
  /\ policy \in Policies
  /\ verification \in VerificationStates
  /\ poisoned \in BOOLEAN
  /\ pc \in [Callers -> PCs]
  /\ notified \subseteq Callers
  /\ toWake \in [Callers -> SUBSET Callers]
  /\ local \in [Callers -> AllResults \cup {NoResult}]
  /\ outcome \in [Callers -> AllResults \cup Refusals \cup {NoResult}]
  /\ decided \in AllResults \cup {NoResult}
  /\ observed \subseteq Versions \cup {NoVersion}
  /\ probes \in Nat
  /\ cancels \in 0 .. MaxCancels
  /\ panics \in 0 .. MaxPanics

\* At most one health probe is in flight, and while the mutex is usable one is
\* in flight exactly when the shared state says Running: a dropped leader hands
\* the role back and a finished one never leaves Running behind.
SingleLeader ==
  /\ \A c, d \in Callers : pc[c] = "probing" /\ pc[d] = "probing" => c = d
  /\ ~poisoned => (verification.state = "Running" <=> \E c \in Callers : pc[c] = "probing")

\* The list CompatibilityWait::poll pushes to holds only suspended, live calls,
\* so a cancelled call never occupies one of the MaxWaiters places, and the
\* list never outgrows them.
RegistrationsAreLive ==
  /\ ~poisoned => \A w \in verification.waiters : pc[w] = "parked"
  /\ Cardinality(verification.waiters) <= MaxWaiters

\* No lost wake-up: a suspended call is listed with the leader in charge, or in
\* the hands of a leader that is firing wakers, or already woken.
NoLostWakeup ==
  ~poisoned =>
    \A c \in Callers :
      pc[c] = "parked" =>
        \/ c \in notified
        \/ verification.state = "Running" /\ c \in verification.waiters
        \/ \E l \in Callers : pc[l] = "waking" /\ c \in toWake[l]

\* All calls, over the whole life of the client and whatever was cancelled in
\* between, return one and the same verdict, the one a leader decided.
Agreement ==
  \A c \in Callers : outcome[c] \in AllResults => outcome[c] = decided

\* What a successful report r may say, given the policy and what was probed.
Justified(r) ==
  CASE r.status = "Verified" ->
         /\ r.detected \in observed \cap Routable
         /\ r.profile = r.detected
         /\ policy.requirement # NoRequirement => contains(policy.requirement, r.detected)
    [] r.status = "AcknowledgedUnknownNewer" ->
         /\ policy.kind = "AcknowledgedUnknownNewer"
         /\ r.detected \in observed
         /\ \A v \in Routable : v < r.detected
         /\ r.profile \in Routable
         /\ \A v \in Routable : v <= r.profile
    [] OTHER -> IsImmediate(policy) /\ observed = {}

\* A returned report is justified by what was probed: Verified names a promoted
\* version some probe really reported and the policy admits, acknowledgement
\* needs a version newer than every promoted one, and a report without
\* detection comes from a client that never probed.
ReportSound ==
  \A c \in Callers : outcome[c].tag = "Ok" => Justified(outcome[c])

\* Once Complete, the cached verdict is never replaced: not by a later call,
\* nor by the drop of any leader or waiter.
VerdictIsFinal ==
  [][verification.state = "Complete" => verification' = verification]_vars

\* The server is probed again only because a call was cancelled: however many
\* calls race, and whether the probe succeeds or fails, one probe serves all.
ProbesAreAccounted == probes <= 1 + cancels

\* The documentation of Client::compatibility_report: "Verified policies
\* perform at most one public /sys/health probe per client instance."
AtMostOneProbe == probes <= 1

\* ensure_compatibility implements the abstract single assignment.
Once == INSTANCE OnceResult WITH
  Values <- AllResults, NoValue <- NoResult, cell <- decided

OnceSpec == Once!Spec

\* Every call that starts comes to an end, even when leaders are cancelled under
\* it.  The one exception is the damage a panic under the lock can do: a call
\* that was suspended then is not woken, while every other one still returns.
EveryCallEnds ==
  \A c \in Callers :
    pc[c] = "loop" ~> \/ pc[c] \in {"done", "dropped"}
                      \/ poisoned /\ pc[c] = "parked"
=============================================================================
