------------------- MODULE CompatibilityVerificationProofs -------------------
(***************************************************************************)
(* Machine-checked proofs about CompatibilityVerification, for any number   *)
(* of callers, any inventory of versions and any bounds.                    *)
(***************************************************************************)
EXTENDS CompatibilityVerification, FiniteSetTheorems, TLAPS

-----------------------------------------------------------------------------
(* The inductive invariant. *)

\* The verdict lives in one place: a usable mutex guards it exactly when it was
\* decided, and neither a leader's local copy nor a returned one differs.
VerdictInv ==
  /\ ~poisoned => verification.result = decided
  /\ \A c \in Callers : pc[c] = "probing" => decided = NoResult
  /\ \A c \in Callers : local[c] # NoResult => local[c] = decided
  /\ Agreement

\* What the probe count owes to the leader in charge and to dropped calls.
ProbeInv ==
  probes <= cancels + (IF verification.state = "Running" \/ decided # NoResult
                       THEN 1 ELSE 0)

IInv ==
  /\ TypeOK
  /\ IsFiniteSet(verification.waiters)
  /\ SingleLeader
  /\ RegistrationsAreLive
  /\ NoLostWakeup
  /\ VerdictInv
  /\ ProbeInv

-----------------------------------------------------------------------------
(* Facts about the values. *)

\* The fields of the three states of the enum CompatibilityVerificationState.
LEMMA StateFields ==
  /\ Pending.state = "Pending" /\ Pending.waiters = {} /\ Pending.result = NoResult
  /\ \A ws : /\ Running(ws).state = "Running" /\ Running(ws).waiters = ws
             /\ Running(ws).result = NoResult
  /\ \A r : /\ Complete(r).state = "Complete" /\ Complete(r).waiters = {}
            /\ Complete(r).result = r
BY DEF Pending, Running, Complete

LEMMA StateTypes ==
  /\ Pending \in VerificationStates
  /\ \A ws \in SUBSET Callers : Running(ws) \in VerificationStates
  /\ \A r \in AllResults : Complete(r) \in VerificationStates
  /\ \A v \in VerificationStates :
       /\ v.waiters \in SUBSET Callers
       /\ v.result \in AllResults \cup {NoResult}
       /\ v.state \in {"Pending", "Running", "Complete"}
       /\ v.state = "Complete" => v.result \in AllResults
       /\ v.state # "Complete" => v.result = NoResult
       /\ v.state # "Running" => v.waiters = {}
BY StateFields DEF VerificationStates

\* Judging a probe always yields one of the results a call may return.
LEMMA EvaluateInResults ==
  ASSUME NEW p \in Policies, NEW v \in Versions \cup {NoVersion}
  PROVE  EvaluatePolicy(p, v) \in AllResults
<1>1. EvaluatePolicy(p, v) \in Results(p)
  <2>1. CASE IsImmediate(p)
    BY <2>1 DEF EvaluatePolicy, Results
  <2>2. CASE ~IsImmediate(p)
    BY <2>2 DEF Results
  <2> QED BY <2>1, <2>2
<1> QED BY <1>1 DEF AllResults

LEMMA ImmediateInResults ==
  ASSUME NEW p \in Policies, IsImmediate(p)
  PROVE  immediate_report(p) \in AllResults
BY DEF Results, AllResults

\* Every result carries the tag of a Rust Result, so it is neither the absence
\* of a result nor one of the errors local to a call.
LEMMA ResultTags ==
  ASSUME NEW r \in AllResults
  PROVE  r # NoResult /\ r \notin Refusals
<1>1. PICK p \in Policies : r \in Results(p)
  BY DEF AllResults
<1>2. r.tag \in {"Ok", "Err"}
  <2>1. CASE IsImmediate(p)
    BY <1>1, <2>1 DEF Results, immediate_report, unverified, assumed, Report
  <2>2. CASE ~IsImmediate(p)
    <3>1. PICK v \in Versions \cup {NoVersion} : r = EvaluatePolicy(p, v)
      BY <1>1, <2>2 DEF Results
    <3>2. CASE v = NoVersion
      BY <3>1, <3>2, <2>2 DEF EvaluatePolicy, ProbeFailure, Failure
    <3>3. CASE v # NoVersion
      <4>1. r = evaluate_detected(p, v)
        BY <3>1, <3>3, <2>2 DEF EvaluatePolicy
      <4>2. p.kind \in {"Exact", "Range", "AutomaticStrict", "AcknowledgedUnknownNewer"}
        BY <2>2 DEF Policies, Policy, NoPolicy, IsImmediate
      <4> QED
        BY <4>1, <4>2 DEF evaluate_detected, VersionMismatch, UnknownVersion, Failure,
           verified, acknowledged_unknown_newer, Report
    <3> QED BY <3>2, <3>3
  <2> QED BY <2>1, <2>2
<1> QED BY <1>2 DEF NoResult, Refusals, TooManyWaiters, LockFailed

-----------------------------------------------------------------------------
(* Type correctness. *)

LEMMA InitTypeOK == Init => TypeOK
<1> SUFFICES ASSUME Init PROVE TypeOK
  OBVIOUS
<1>1. verification = Pending \/ \E r \in AllResults : verification = Complete(r)
  BY ImmediateInResults DEF Init
<1>2. decided \in AllResults \cup {NoResult}
  BY <1>1, StateFields DEF Init
<1>3. verification \in VerificationStates
  BY <1>1, StateTypes
<1>4. poisoned \in BOOLEAN
  BY Zenon DEF Init
<1>5. cancels \in 0 .. MaxCancels /\ panics \in 0 .. MaxPanics /\ probes \in Nat
  BY BoundAssumption DEF Init
<1>6. pc \in [Callers -> PCs] /\ notified \subseteq Callers /\ toWake \in [Callers -> SUBSET Callers]
  BY DEF Init, PCs
<1> QED BY <1>2, <1>3, <1>4, <1>5, <1>6 DEF Init, TypeOK

LEMMA NextTypeOK == TypeOK /\ [Next]_vars => TypeOK'
<1> SUFFICES ASSUME TypeOK, [Next]_vars PROVE TypeOK'
  OBVIOUS
<1> USE BoundAssumption
<1>0. CASE UNCHANGED vars
  BY <1>0 DEF vars, TypeOK
<1>1. ASSUME NEW c \in Callers, Call(c) PROVE TypeOK'
  BY <1>1, StateTypes DEF TypeOK, PCs, Call, Goto, Return, Refusals
<1>2. ASSUME NEW c \in Callers, LoopFailed(c) PROVE TypeOK'
  BY <1>2, StateTypes DEF TypeOK, PCs, LoopFailed, Goto, Return, Refusals
<1>3. ASSUME NEW c \in Callers, LoopComplete(c) PROVE TypeOK'
  BY <1>3, StateTypes DEF TypeOK, PCs, LoopComplete, Goto, Return, Refusals
<1>4. ASSUME NEW c \in Callers, LoopWait(c) PROVE TypeOK'
  BY <1>4, StateTypes DEF TypeOK, PCs, LoopWait, Goto, Return, Refusals
<1>5. ASSUME NEW c \in Callers, LoopLead(c) PROVE TypeOK'
  BY <1>5, StateTypes DEF TypeOK, PCs, LoopLead, Goto, Return, Refusals
<1>6. ASSUME NEW c \in Callers, PollFailed(c) PROVE TypeOK'
  BY <1>6, StateTypes DEF TypeOK, PCs, PollFailed, Polled, Goto, Return, Refusals
<1>7. ASSUME NEW c \in Callers, PollComplete(c) PROVE TypeOK'
  BY <1>7, StateTypes DEF TypeOK, PCs, PollComplete, Polled, Goto, Return, Refusals
<1>8. ASSUME NEW c \in Callers, PollRetry(c) PROVE TypeOK'
  BY <1>8, StateTypes DEF TypeOK, PCs, PollRetry, Polled, Goto, Return, Refusals
<1>9. ASSUME NEW c \in Callers, PollTooMany(c) PROVE TypeOK'
  BY <1>9, StateTypes DEF TypeOK, PCs, PollTooMany, Polled, Goto, Return, Refusals
<1>10. ASSUME NEW c \in Callers, PollRegister(c) PROVE TypeOK'
  BY <1>10, StateTypes DEF TypeOK, PCs, PollRegister, Polled, Goto, Return, Refusals
<1>11. ASSUME NEW c \in Callers, PollPanics(c) PROVE TypeOK'
  BY <1>11, StateTypes DEF TypeOK, PCs, PollPanics, Polled, Goto, Return, Refusals
<1>12. ASSUME NEW c \in Callers, LeaderCompletes(c) PROVE TypeOK'
  <2>1. PICK v \in Versions \cup {NoVersion} :
          /\ observed' = observed \cup {v}
          /\ local' = [local EXCEPT ![c] = EvaluatePolicy(policy, v)]
          /\ decided' = EvaluatePolicy(policy, v)
          /\ verification' =
               IF poisoned THEN verification ELSE Complete(EvaluatePolicy(policy, v))
    BY <1>12 DEF LeaderCompletes
  <2>2. EvaluatePolicy(policy, v) \in AllResults
    BY EvaluateInResults DEF TypeOK
  <2>3. verification' \in VerificationStates
    BY <2>1, <2>2, StateTypes DEF TypeOK
  <2>4. toWake' \in [Callers -> SUBSET Callers] /\ pc' \in [Callers -> PCs]
    BY <1>12, StateTypes DEF TypeOK, LeaderCompletes, Goto, PCs
  <2>5. UNCHANGED <<policy, poisoned, notified, outcome, probes, cancels, panics>>
    BY <1>12 DEF LeaderCompletes
  <2> QED BY <2>1, <2>2, <2>3, <2>4, <2>5 DEF TypeOK
<1>13. ASSUME NEW c \in Callers, LeaderDropped(c) PROVE TypeOK'
  BY <1>13, StateTypes DEF TypeOK, PCs, LeaderDropped, Goto, Return, Refusals
<1>14. ASSUME NEW c \in Callers, Wake(c) PROVE TypeOK'
  BY <1>14, StateTypes DEF TypeOK, PCs, Wake, Goto, Return, Refusals
<1>15. ASSUME NEW c \in Callers, LeaderReturns(c) PROVE TypeOK'
  BY <1>15, StateTypes DEF TypeOK, PCs, LeaderReturns, Goto, Return, Refusals
<1>16. ASSUME NEW c \in Callers, WaiterDropped(c) PROVE TypeOK'
  BY <1>16, StateTypes DEF TypeOK, PCs, WaiterDropped, Goto, Return, Refusals
<1> QED
  BY <1>0, <1>1, <1>2, <1>3, <1>4, <1>5, <1>6, <1>7, <1>8, <1>9, <1>10, <1>11, <1>12, <1>13, <1>14, <1>15, <1>16 DEF Next, Loop, Poll

-----------------------------------------------------------------------------
(* The invariant. *)

LEMMA InitIInv == Init => IInv
<1> SUFFICES ASSUME Init PROVE IInv
  OBVIOUS
<1>1. verification = Pending \/ \E r \in AllResults : verification = Complete(r)
  BY ImmediateInResults DEF Init
<1>2. verification.waiters = {} /\ verification.state # "Running"
  BY <1>1, StateFields
<1>3. IsFiniteSet({}) /\ Cardinality({}) = 0
  BY FS_EmptySet
<1>4. VerdictInv
  BY ResultTags DEF Init, VerdictInv, Agreement
<1>5. RegistrationsAreLive
  BY <1>2, <1>3, BoundAssumption DEF RegistrationsAreLive
<1>6. SingleLeader /\ NoLostWakeup
  BY <1>2 DEF Init, SingleLeader, NoLostWakeup
<1>7. ProbeInv
  BY DEF Init, ProbeInv
<1> QED BY <1>2, <1>3, <1>4, <1>5, <1>6, <1>7, InitTypeOK DEF IInv

\* The waiter list stays finite and within its limit when a call that is
\* listed, or finds a free place, is added, and when a call is removed.
LEMMA WaiterCount ==
  ASSUME NEW S, NEW c, IsFiniteSet(S), Cardinality(S) <= MaxWaiters
  PROVE  /\ IsFiniteSet(S \ {c}) /\ Cardinality(S \ {c}) <= MaxWaiters
         /\ c \in S \/ Cardinality(S) < MaxWaiters =>
              IsFiniteSet(S \cup {c}) /\ Cardinality(S \cup {c}) <= MaxWaiters
<1>1. Cardinality(S) \in Nat
  BY FS_CardinalityType
<1>2. /\ IsFiniteSet(S \ {c})
      /\ Cardinality(S \ {c}) = IF c \in S THEN Cardinality(S) - 1 ELSE Cardinality(S)
  BY FS_RemoveElement
<1>3. /\ IsFiniteSet(S \cup {c})
      /\ Cardinality(S \cup {c}) = IF c \in S THEN Cardinality(S) ELSE Cardinality(S) + 1
  BY FS_AddElement
<1> QED BY <1>1, <1>2, <1>3, BoundAssumption

LEMMA NextIInv == IInv /\ [Next]_vars => IInv'
<1> SUFFICES ASSUME IInv, [Next]_vars PROVE IInv'
  OBVIOUS
<1>t. TypeOK /\ TypeOK'
  BY NextTypeOK DEF IInv
<1> DEFINE Rest == /\ IsFiniteSet(verification.waiters)
                   /\ SingleLeader
                   /\ RegistrationsAreLive
                   /\ NoLostWakeup
                   /\ VerdictInv
                   /\ ProbeInv
<1>0. CASE UNCHANGED vars
  BY <1>0 DEF vars, IInv, TypeOK, SingleLeader, RegistrationsAreLive, NoLostWakeup, VerdictInv, Agreement, ProbeInv
<1>1. ASSUME NEW c \in Callers, Call(c) PROVE Rest'
  BY <1>1, <1>t, StateTypes, ResultTags
  DEF IInv, TypeOK, Call, Goto, Refusals, SingleLeader, RegistrationsAreLive,
     NoLostWakeup, VerdictInv, Agreement, ProbeInv
<1>2. ASSUME NEW c \in Callers, LoopFailed(c) PROVE Rest'
  BY <1>2, <1>t, StateTypes, ResultTags
  DEF IInv, TypeOK, LoopFailed, Goto, Return, Refusals, SingleLeader, RegistrationsAreLive,
     NoLostWakeup, VerdictInv, Agreement, ProbeInv
<1>3. ASSUME NEW c \in Callers, LoopComplete(c) PROVE Rest'
  BY <1>3, <1>t, StateTypes, ResultTags
  DEF IInv, TypeOK, LoopComplete, Goto, Return, Refusals, SingleLeader, RegistrationsAreLive,
     NoLostWakeup, VerdictInv, Agreement, ProbeInv
<1>4. ASSUME NEW c \in Callers, LoopWait(c) PROVE Rest'
  BY <1>4, <1>t, StateTypes, ResultTags
  DEF IInv, TypeOK, LoopWait, Goto, Refusals, SingleLeader, RegistrationsAreLive,
     NoLostWakeup, VerdictInv, Agreement, ProbeInv
<1>5. ASSUME NEW c \in Callers, LoopLead(c) PROVE Rest'
  <2>1. /\ IsFiniteSet(verification.waiters)'
        /\ Cardinality(verification.waiters)' <= MaxWaiters
    BY <1>5, <1>t, StateFields, StateTypes, FS_EmptySet, WaiterCount, BoundAssumption
    DEF IInv, TypeOK, LoopLead, Goto, RegistrationsAreLive
  <2>2. SingleLeader'
    BY <1>5, <1>t, StateFields, StateTypes, ResultTags
    DEF IInv, TypeOK, LoopLead, Goto, SingleLeader
  <2>3. RegistrationsAreLive'
    BY <1>5, <1>t, StateFields, StateTypes, <2>1
    DEF IInv, TypeOK, LoopLead, Goto, RegistrationsAreLive
  <2>4. NoLostWakeup'
    BY <1>5, <1>t, StateFields, StateTypes, ResultTags
    DEF IInv, TypeOK, LoopLead, Goto, NoLostWakeup
  <2>5. VerdictInv'
    BY <1>5, <1>t, StateFields, StateTypes, ResultTags
    DEF IInv, TypeOK, LoopLead, Goto, VerdictInv, Agreement
  <2>6. ProbeInv'
    BY <1>5, <1>t, StateFields, StateTypes, ResultTags
    DEF IInv, TypeOK, LoopLead, Goto, ProbeInv, VerdictInv
  <2> QED BY <2>1, <2>2, <2>3, <2>4, <2>5, <2>6
<1>6. ASSUME NEW c \in Callers, PollFailed(c) PROVE Rest'
  BY <1>6, <1>t, StateTypes, ResultTags
  DEF IInv, TypeOK, PollFailed, Goto, Return, Polling, Polled, Refusals, SingleLeader, RegistrationsAreLive,
     NoLostWakeup, VerdictInv, Agreement, ProbeInv
<1>7. ASSUME NEW c \in Callers, PollComplete(c) PROVE Rest'
  BY <1>7, <1>t, StateTypes, ResultTags
  DEF IInv, TypeOK, PollComplete, Goto, Return, Polling, Polled, Refusals, SingleLeader, RegistrationsAreLive,
     NoLostWakeup, VerdictInv, Agreement, ProbeInv
<1>8. ASSUME NEW c \in Callers, PollRetry(c) PROVE Rest'
  BY <1>8, <1>t, StateTypes, ResultTags
  DEF IInv, TypeOK, PollRetry, Goto, Polling, Polled, Refusals, SingleLeader, RegistrationsAreLive,
     NoLostWakeup, VerdictInv, Agreement, ProbeInv
<1>9. ASSUME NEW c \in Callers, PollTooMany(c) PROVE Rest'
  BY <1>9, <1>t, StateTypes, ResultTags
  DEF IInv, TypeOK, PollTooMany, Goto, Return, Polling, Polled, Refusals, SingleLeader, RegistrationsAreLive,
     NoLostWakeup, VerdictInv, Agreement, ProbeInv
<1>10. ASSUME NEW c \in Callers, PollRegister(c) PROVE Rest'
  <2>1. /\ IsFiniteSet(verification.waiters)'
        /\ Cardinality(verification.waiters)' <= MaxWaiters
    <3>1. verification'.waiters = verification.waiters \cup {c}
      BY <1>10, StateFields DEF PollRegister
    <3>2. c \in verification.waiters \/ Cardinality(verification.waiters) < MaxWaiters
      BY <1>10 DEF PollRegister
    <3> QED BY <3>1, <3>2, WaiterCount DEF IInv, RegistrationsAreLive
  <2>2. SingleLeader'
    BY <1>10, <1>t, StateFields, StateTypes, ResultTags
    DEF IInv, TypeOK, PollRegister, Goto, Polling, Polled, SingleLeader
  <2>3. RegistrationsAreLive'
    BY <1>10, <1>t, StateFields, StateTypes, <2>1
    DEF IInv, TypeOK, PollRegister, Goto, Polling, Polled, RegistrationsAreLive
  <2>4. NoLostWakeup'
    BY <1>10, <1>t, StateFields, StateTypes, ResultTags
    DEF IInv, TypeOK, PollRegister, Goto, Polling, Polled, NoLostWakeup
  <2>5. VerdictInv'
    BY <1>10, <1>t, StateFields, StateTypes, ResultTags
    DEF IInv, TypeOK, PollRegister, Goto, Polling, Polled, VerdictInv, Agreement
  <2>6. ProbeInv'
    BY <1>10, <1>t, StateFields, StateTypes, ResultTags
    DEF IInv, TypeOK, PollRegister, Goto, Polling, Polled, ProbeInv, VerdictInv
  <2> QED BY <2>1, <2>2, <2>3, <2>4, <2>5, <2>6
<1>11. ASSUME NEW c \in Callers, PollPanics(c) PROVE Rest'
  BY <1>11, <1>t, StateTypes, ResultTags
  DEF IInv, TypeOK, PollPanics, Goto, Polling, Polled, Refusals, SingleLeader, RegistrationsAreLive,
     NoLostWakeup, VerdictInv, Agreement, ProbeInv
<1>12. ASSUME NEW c \in Callers, LeaderCompletes(c) PROVE Rest'
  <2>1. /\ IsFiniteSet(verification.waiters)'
        /\ Cardinality(verification.waiters)' <= MaxWaiters
    <3>1. verification' = verification \/ verification'.waiters = {}
      BY <1>12, StateFields DEF LeaderCompletes
    <3> QED BY <3>1, FS_EmptySet, BoundAssumption DEF IInv, RegistrationsAreLive
  <2>2. SingleLeader'
    BY <1>12, <1>t, StateFields, StateTypes, ResultTags
    DEF IInv, TypeOK, LeaderCompletes, Goto, SingleLeader
  <2>3. RegistrationsAreLive'
    BY <1>12, <1>t, StateFields, StateTypes, <2>1
    DEF IInv, TypeOK, LeaderCompletes, Goto, RegistrationsAreLive
  <2>4. NoLostWakeup'
    BY <1>12, <1>t, StateFields, StateTypes, ResultTags
    DEF IInv, TypeOK, LeaderCompletes, Goto, NoLostWakeup
  <2>5. VerdictInv'
    <3>1. decided = NoResult /\ pc[c] = "probing"
      BY <1>12 DEF IInv, VerdictInv, LeaderCompletes
    <3>2. PICK r : /\ local' = [local EXCEPT ![c] = r]
                   /\ decided' = r
                   /\ verification' = IF poisoned THEN verification ELSE Complete(r)
      BY <1>12 DEF LeaderCompletes
    <3>3. poisoned' = poisoned /\ outcome' = outcome /\ pc' = [pc EXCEPT ![c] = "waking"]
      BY <1>12 DEF LeaderCompletes, Goto
    <3>4. ~poisoned' => verification'.result = decided'
      BY <3>2, <3>3, StateFields
    <3>5. \A d \in Callers : pc'[d] # "probing"
      BY <3>1, <3>3, <1>t DEF IInv, SingleLeader, TypeOK
    <3>6. \A d \in Callers : local'[d] # NoResult => local'[d] = decided'
      BY <3>1, <3>2, <1>t DEF IInv, VerdictInv, TypeOK
    <3>7. \A d \in Callers : outcome'[d] \notin AllResults
      BY <3>1, <3>3, ResultTags DEF IInv, VerdictInv, Agreement
    <3> QED BY <3>4, <3>5, <3>6, <3>7 DEF VerdictInv, Agreement
  <2>6. ProbeInv'
    BY <1>12, <1>t, StateFields, StateTypes, ResultTags
    DEF IInv, TypeOK, LeaderCompletes, Goto, ProbeInv, VerdictInv
  <2> QED BY <2>1, <2>2, <2>3, <2>4, <2>5, <2>6
<1>13. ASSUME NEW c \in Callers, LeaderDropped(c) PROVE Rest'
  <2>1. /\ IsFiniteSet(verification.waiters)'
        /\ Cardinality(verification.waiters)' <= MaxWaiters
    <3>1. verification' = verification \/ verification'.waiters = {}
      BY <1>13, StateFields DEF LeaderDropped
    <3> QED BY <3>1, FS_EmptySet, BoundAssumption DEF IInv, RegistrationsAreLive
  <2>2. SingleLeader'
    BY <1>13, <1>t, StateFields, StateTypes, ResultTags
    DEF IInv, TypeOK, LeaderDropped, Goto, SingleLeader
  <2>3. RegistrationsAreLive'
    BY <1>13, <1>t, StateFields, StateTypes, <2>1
    DEF IInv, TypeOK, LeaderDropped, Goto, RegistrationsAreLive
  <2>4. NoLostWakeup'
    BY <1>13, <1>t, StateFields, StateTypes, ResultTags
    DEF IInv, TypeOK, LeaderDropped, Goto, NoLostWakeup
  <2>5. VerdictInv'
    BY <1>13, <1>t, StateFields, StateTypes, ResultTags
    DEF IInv, TypeOK, LeaderDropped, Goto, VerdictInv, Agreement
  <2>6. ProbeInv'
    BY <1>13, <1>t, StateFields, StateTypes, ResultTags
    DEF IInv, TypeOK, LeaderDropped, Goto, ProbeInv, VerdictInv
  <2> QED BY <2>1, <2>2, <2>3, <2>4, <2>5, <2>6
<1>14. ASSUME NEW c \in Callers, Wake(c) PROVE Rest'
  BY <1>14, <1>t, StateTypes, ResultTags
  DEF IInv, TypeOK, Wake, Refusals, SingleLeader, RegistrationsAreLive,
     NoLostWakeup, VerdictInv, Agreement, ProbeInv
<1>15. ASSUME NEW c \in Callers, LeaderReturns(c) PROVE Rest'
  BY <1>15, <1>t, StateTypes, ResultTags
  DEF IInv, TypeOK, LeaderReturns, Goto, Return, Refusals, SingleLeader, RegistrationsAreLive,
     NoLostWakeup, VerdictInv, Agreement, ProbeInv
<1>16. ASSUME NEW c \in Callers, WaiterDropped(c) PROVE Rest'
  <2>1. /\ IsFiniteSet(verification.waiters)'
        /\ Cardinality(verification.waiters)' <= MaxWaiters
    <3>1. \/ verification' = verification
          \/ verification'.waiters = verification.waiters \ {c}
      BY <1>16, StateFields DEF WaiterDropped
    <3> QED BY <3>1, WaiterCount DEF IInv, RegistrationsAreLive
  <2>2. SingleLeader'
    BY <1>16, <1>t, StateFields, StateTypes, ResultTags
    DEF IInv, TypeOK, WaiterDropped, Goto, SingleLeader
  <2>3. RegistrationsAreLive'
    BY <1>16, <1>t, StateFields, StateTypes, <2>1
    DEF IInv, TypeOK, WaiterDropped, Goto, RegistrationsAreLive
  <2>4. NoLostWakeup'
    BY <1>16, <1>t, StateFields, StateTypes, ResultTags
    DEF IInv, TypeOK, WaiterDropped, Goto, NoLostWakeup
  <2>5. VerdictInv'
    BY <1>16, <1>t, StateFields, StateTypes, ResultTags
    DEF IInv, TypeOK, WaiterDropped, Goto, VerdictInv, Agreement
  <2>6. ProbeInv'
    BY <1>16, <1>t, StateFields, StateTypes, ResultTags
    DEF IInv, TypeOK, WaiterDropped, Goto, ProbeInv, VerdictInv
  <2> QED BY <2>1, <2>2, <2>3, <2>4, <2>5, <2>6
<1> QED
  BY <1>t, <1>0, <1>1, <1>2, <1>3, <1>4, <1>5, <1>6, <1>7, <1>8, <1>9, <1>10, <1>11, <1>12, <1>13, <1>14, <1>15, <1>16
  DEF Next, Loop, Poll, IInv

-----------------------------------------------------------------------------
(* The theorems. *)

LEMMA Invariance == Spec => []IInv
BY InitIInv, NextIInv, PTL DEF Spec

\* The shared state, the call sites and the counters always have their types.
THEOREM TypeCorrect == Spec => []TypeOK
<1>1. IInv => TypeOK
  BY DEF IInv
<1> QED BY <1>1, Invariance, PTL

\* However calls race and are cancelled, at most one health probe is in flight,
\* and the shared state tells the truth about it.
THEOREM OneLeader == Spec => []SingleLeader
<1>1. IInv => SingleLeader
  BY DEF IInv
<1> QED BY <1>1, Invariance, PTL

\* Cancelled calls leave no registration behind and the list keeps its limit.
THEOREM LiveRegistrations == Spec => []RegistrationsAreLive
<1>1. IInv => RegistrationsAreLive
  BY DEF IInv
<1> QED BY <1>1, Invariance, PTL

\* No call stays suspended with nobody left to wake it.
THEOREM WakeupsNotLost == Spec => []NoLostWakeup
<1>1. IInv => NoLostWakeup
  BY DEF IInv
<1> QED BY <1>1, Invariance, PTL

\* All calls of a client that return a verdict return the same one.
THEOREM CallersAgree == Spec => []Agreement
<1>1. IInv => Agreement
  BY DEF IInv, VerdictInv
<1> QED BY <1>1, Invariance, PTL

\* Repeated probes are paid for by cancelled calls.
THEOREM ProbeBudget == Spec => []ProbesAreAccounted
<1>1. IInv => ProbesAreAccounted
  BY DEF IInv, TypeOK, ProbeInv, ProbesAreAccounted
<1> QED BY <1>1, Invariance, PTL

\* A cached verdict is never overwritten, by a leader that finishes late or by
\* the drop of a call.
THEOREM VerdictFinal == Spec => VerdictIsFinal
<1> DEFINE Keeps == verification.state = "Complete" => verification' = verification
<1>1. IInv /\ [Next]_vars => [Keeps]_vars
  <2> SUFFICES ASSUME IInv, NEW c \in Callers, verification.state = "Complete",
                      \/ Call(c) \/ Loop(c) \/ Poll(c) \/ PollPanics(c)
                      \/ LeaderCompletes(c) \/ LeaderDropped(c) \/ Wake(c)
                      \/ LeaderReturns(c) \/ WaiterDropped(c)
               PROVE  verification' = verification
    BY DEF Next
  <2>1. CASE pc[c] # "probing"
    BY <2>1 DEF Call, Loop, LoopFailed, LoopComplete, LoopWait, LoopLead, Poll, PollFailed,
       PollComplete, PollRetry, PollTooMany, PollRegister, PollPanics, LeaderCompletes,
       LeaderDropped, Wake, LeaderReturns, WaiterDropped
  <2>2. CASE pc[c] = "probing"
    <3>1. poisoned
      BY <2>2 DEF IInv, SingleLeader
    <3> QED
      BY <2>2, <3>1 DEF Call, Loop, LoopFailed, LoopComplete, LoopWait, LoopLead, Poll,
         PollFailed, PollComplete, PollRetry, PollTooMany, PollRegister, PollPanics, Polling,
         LeaderCompletes, LeaderDropped, Wake, LeaderReturns, WaiterDropped
  <2> QED BY <2>1, <2>2
<1> QED BY <1>1, Invariance, PTL DEF Spec, VerdictIsFinal

\* A call that has not come to its end has returned nothing yet.
OutcomeInv == \A c \in Callers : pc[c] # "done" => outcome[c] = NoResult

LEMMA OutcomeInvariance == Spec => []OutcomeInv
<1>1. Init => OutcomeInv
  BY DEF Init, OutcomeInv
<1>2. TypeOK /\ OutcomeInv /\ [Next]_vars => OutcomeInv'
  <2> SUFFICES ASSUME TypeOK, OutcomeInv, [Next]_vars PROVE OutcomeInv'
    OBVIOUS
  <2>1. CASE UNCHANGED vars
    BY <2>1 DEF vars, OutcomeInv
  <2>2. ASSUME NEW c \in Callers, Call(c) \/ Loop(c) \/ PollPanics(c) PROVE OutcomeInv'
    BY <2>2 DEF TypeOK, OutcomeInv, Call, Loop, LoopFailed, LoopComplete, LoopWait, LoopLead,
       PollPanics, Polling, Goto, Return
  <2>3. ASSUME NEW c \in Callers, Poll(c) PROVE OutcomeInv'
    BY <2>3 DEF TypeOK, OutcomeInv, Poll, PollFailed, PollComplete, PollRetry, PollTooMany,
       PollRegister, Polling, Goto, Return
  <2>4. ASSUME NEW c \in Callers,
               LeaderCompletes(c) \/ LeaderDropped(c) \/ Wake(c) \/ WaiterDropped(c)
        PROVE  OutcomeInv'
    BY <2>4 DEF TypeOK, OutcomeInv, LeaderCompletes, LeaderDropped, Wake, WaiterDropped, Goto
  <2>5. ASSUME NEW c \in Callers, LeaderReturns(c) PROVE OutcomeInv'
    BY <2>5 DEF TypeOK, OutcomeInv, LeaderReturns, Goto, Return
  <2> QED BY <2>1, <2>2, <2>3, <2>4, <2>5 DEF Next
<1> QED BY <1>1, <1>2, TypeCorrect, PTL DEF Spec

\* The single-flight protocol implements the single assignment: a leader's
\* complete() is the one decision, and everything else stutters or returns.
THEOREM ImplementsOnce == Spec => OnceSpec
<1>1. Init => Once!Init
  BY InitTypeOK DEF Init, Once!Init, TypeOK
<1>2. IInv /\ OutcomeInv /\ [Next]_vars => [Once!Next]_(Once!vars)
  <2> SUFFICES ASSUME IInv, OutcomeInv, [Next]_vars PROVE [Once!Next]_(Once!vars)
    OBVIOUS
  <2> USE DEF Once!vars
  <2>0. TypeOK /\ TypeOK'
    BY NextTypeOK DEF IInv
  <2>1. CASE UNCHANGED vars
    BY <2>1 DEF vars
  <2>2. ASSUME NEW c \in Callers,
               \/ Call(c) \/ LoopWait(c) \/ LoopLead(c) \/ PollRetry(c) \/ PollRegister(c)
               \/ PollPanics(c) \/ LeaderDropped(c) \/ Wake(c) \/ WaiterDropped(c)
        PROVE  UNCHANGED Once!vars
    BY <2>2 DEF Call, LoopWait, LoopLead, PollRetry, PollRegister, PollPanics, LeaderDropped,
       Wake, WaiterDropped
  <2>3. ASSUME NEW c \in Callers, LoopFailed(c) \/ PollFailed(c) \/ PollTooMany(c)
        PROVE  Once!Refuse(c)
    BY <2>3 DEF OutcomeInv, LoopFailed, PollFailed, PollTooMany, Polling, Return, Once!Refuse,
       Refusals
  <2>4. ASSUME NEW c \in Callers, LoopComplete(c) \/ PollComplete(c)
        PROVE  Once!Return(c)
    <3>1. verification.result = decided /\ verification.result # NoResult
      BY <2>0, <2>4, StateTypes, ResultTags
      DEF IInv, VerdictInv, TypeOK, LoopComplete, PollComplete
    <3> QED BY <2>4, <3>1 DEF OutcomeInv, LoopComplete, PollComplete, Polling, Return, Once!Return
  <2>5. ASSUME NEW c \in Callers, LeaderReturns(c)
        PROVE  UNCHANGED Once!vars \/ Once!Return(c)
    <3>1. local[c] # NoResult => local[c] = decided
      BY DEF IInv, VerdictInv
    <3> QED BY <2>5, <3>1 DEF OutcomeInv, LeaderReturns, Return, Once!Return
  <2>6. ASSUME NEW c \in Callers, LeaderCompletes(c)
        PROVE  Once!Decide
    <3>1. decided = NoResult /\ outcome' = outcome
      BY <2>6 DEF IInv, VerdictInv, LeaderCompletes
    <3>2. PICK v \in Versions \cup {NoVersion} : decided' = EvaluatePolicy(policy, v)
      BY <2>6 DEF LeaderCompletes
    <3>3. decided' \in AllResults
      BY <2>0, <3>2, EvaluateInResults DEF TypeOK
    <3> QED BY <3>1, <3>3 DEF Once!Decide
  <2> QED BY <2>1, <2>2, <2>3, <2>4, <2>5, <2>6 DEF Next, Loop, Poll, Once!Next
<1> QED BY <1>1, <1>2, Invariance, OutcomeInvariance, PTL DEF Spec, OnceSpec, Once!Spec
-----------------------------------------------------------------------------
(* What a report may be believed for. *)

\* A verdict decided under the policy and by the probes of this client is
\* justified by them, and a client that needs no probe never makes one.
JustifiedInv ==
  /\ IsImmediate(policy) => decided # NoResult /\ observed = {}
  /\ decided.tag = "Ok" => Justified(decided)

\* The last entry of the inventory, when there is one, is its greatest.
LEMMA LatestIsGreatest ==
  latest_routable_profile # NoVersion =>
    /\ latest_routable_profile \in Routable
    /\ \A w \in Routable : w <= latest_routable_profile
BY DEF latest_routable_profile

\* What a policy's requirement can be.
LEMMA PolicyShape ==
  ASSUME NEW p \in Policies
  PROVE  /\ p.kind \in {"None", "AutomaticStrict", "AcknowledgedUnknownNewer", "Exact",
                        "Assumed", "Range"}
         /\ p.kind \in {"None", "AutomaticStrict", "AcknowledgedUnknownNewer"} =>
              p.requirement = NoRequirement
         /\ p.kind \in {"Exact", "Assumed"} =>
              \E v \in Routable : p.requirement = Requirement(v, v)
BY DEF Policies, NoPolicy, Policy

\* Judging a probed version yields only reports that are justified by it.
LEMMA JudgedIsJustified ==
  ASSUME TypeOK, TypeOK', policy' = policy, ~IsImmediate(policy),
         NEW v \in Versions \cup {NoVersion}, v \in observed',
         EvaluatePolicy(policy, v).tag = "Ok"
  PROVE  Justified(EvaluatePolicy(policy, v))'
<1> DEFINE r == EvaluatePolicy(policy, v)
<1>1. policy \in Policies /\ Routable \subseteq Nat
  BY InventoryAssumption DEF TypeOK
<1>2. v # NoVersion /\ v \in Nat
  BY InventoryAssumption DEF EvaluatePolicy, ProbeFailure, Failure
<1>3. r = evaluate_detected(policy, v)
  BY <1>2 DEF EvaluatePolicy
<1>4. policy.kind \in {"Exact", "Range", "AutomaticStrict", "AcknowledgedUnknownNewer"}
  BY <1>1, PolicyShape DEF IsImmediate
<1>5. \/ /\ r = verified(policy, v)
         /\ v \in Routable
         /\ policy.requirement # NoRequirement => contains(policy.requirement, v)
      \/ /\ r = acknowledged_unknown_newer(v, latest_routable_profile)
         /\ policy.kind = "AcknowledgedUnknownNewer"
         /\ latest_routable_profile # NoVersion
         /\ v > latest_routable_profile
  <2> USE DEF VersionMismatch, UnknownVersion, Failure, is_routable_profile
  <2>1. CASE policy.kind = "Exact"
    <3>1. PICK w \in Routable : policy.requirement = Requirement(w, w)
      BY <1>1, <2>1, PolicyShape
    <3>2. policy.requirement.minimum = w /\ policy.requirement.maximum = w
      BY <3>1 DEF Requirement
    <3>3. r = verified(policy, v) /\ v = w
      BY <1>3, <2>1, <3>2 DEF evaluate_detected
    <3> QED BY <1>1, <3>2, <3>3 DEF contains
  <2>2. CASE policy.kind = "Range"
    BY <1>3, <2>2 DEF evaluate_detected
  <2>3. CASE policy.kind = "AutomaticStrict"
    BY <1>1, <1>3, <2>3, PolicyShape DEF evaluate_detected
  <2>4. CASE policy.kind = "AcknowledgedUnknownNewer"
    BY <1>1, <1>3, <2>4, PolicyShape DEF evaluate_detected
  <2> QED BY <1>4, <2>1, <2>2, <2>3, <2>4
<1>6. CASE /\ r = verified(policy, v)
           /\ v \in Routable
           /\ policy.requirement # NoRequirement => contains(policy.requirement, v)
  <2>1. r.status = "Verified" /\ r.detected = v /\ r.profile = v
    BY <1>6 DEF verified, Report
  <2> QED BY <1>6, <2>1 DEF Justified
<1>7. CASE /\ r = acknowledged_unknown_newer(v, latest_routable_profile)
           /\ policy.kind = "AcknowledgedUnknownNewer"
           /\ latest_routable_profile # NoVersion
           /\ v > latest_routable_profile
  <2>1. /\ r.status = "AcknowledgedUnknownNewer"
        /\ r.detected = v
        /\ r.profile = latest_routable_profile
    BY <1>7 DEF acknowledged_unknown_newer, Report
  <2>2. \A w \in Routable : w <= latest_routable_profile /\ w < v
    <3>1. latest_routable_profile \in Nat
      BY <1>1, <1>7, LatestIsGreatest
    <3>2. ASSUME NEW w \in Routable PROVE w <= latest_routable_profile
      BY <1>7, LatestIsGreatest
    <3> QED BY <1>1, <1>2, <1>7, <3>1, <3>2
  <2> QED BY <1>7, <2>1, <2>2, LatestIsGreatest DEF Justified
<1> QED BY <1>5, <1>6, <1>7

LEMMA JustifiedInvariance == Spec => []JustifiedInv
<1>1. Init => JustifiedInv
  <2> SUFFICES ASSUME Init PROVE JustifiedInv
    OBVIOUS
  <2>1. CASE IsImmediate(policy)
    <3>1. decided = immediate_report(policy)
      BY <2>1, StateFields DEF Init
    <3>2. decided.status \in {"Unverified", "Assumed"} /\ decided.tag = "Ok"
      BY <3>1 DEF immediate_report, unverified, assumed, Report
    <3> QED BY <2>1, <3>2 DEF JustifiedInv, Justified, Init, NoResult
  <2>2. CASE ~IsImmediate(policy)
    <3>1. decided = NoResult
      BY <2>2, StateFields DEF Init
    <3> QED BY <2>2, <3>1 DEF JustifiedInv, NoResult
  <2> QED BY <2>1, <2>2
<1>2. IInv /\ IInv' /\ JustifiedInv /\ [Next]_vars => JustifiedInv'
  <2> SUFFICES ASSUME IInv, IInv', JustifiedInv, [Next]_vars PROVE JustifiedInv'
    OBVIOUS
  <2>1. ASSUME UNCHANGED <<policy, decided, observed>> PROVE JustifiedInv'
    BY <2>1 DEF JustifiedInv, Justified
  <2>2. ASSUME NEW c \in Callers, LeaderCompletes(c) PROVE JustifiedInv'
    <3>1. PICK v \in Versions \cup {NoVersion} :
            observed' = observed \cup {v} /\ decided' = EvaluatePolicy(policy, v)
      BY <2>2 DEF LeaderCompletes
    <3>2. policy' = policy /\ ~IsImmediate(policy)
      BY <2>2 DEF LeaderCompletes, IInv, VerdictInv, JustifiedInv
    <3>3. decided'.tag = "Ok" => Justified(decided)'
      BY <3>1, <3>2, JudgedIsJustified DEF IInv
    <3> QED BY <3>2, <3>3 DEF JustifiedInv
  <2>3. ASSUME NEW c \in Callers,
               \/ Call(c) \/ Loop(c) \/ Poll(c) \/ PollPanics(c)
               \/ LeaderDropped(c) \/ Wake(c) \/ LeaderReturns(c) \/ WaiterDropped(c)
        PROVE  UNCHANGED <<policy, decided, observed>>
    BY <2>3 DEF Call, Loop, LoopFailed, LoopComplete, LoopWait, LoopLead, Poll, PollFailed,
       PollComplete, PollRetry, PollTooMany, PollRegister, PollPanics, LeaderDropped, Wake,
       LeaderReturns, WaiterDropped
  <2> QED BY <2>1, <2>2, <2>3 DEF Next, vars
<1> QED BY <1>1, <1>2, Invariance, PTL DEF Spec

\* Whatever was cancelled or raced before it, a report a call returns is
\* justified by a version this client's probes really saw and by its policy.
THEOREM ReportsAreSound == Spec => []ReportSound
<1>1. IInv /\ JustifiedInv => ReportSound
  <2> SUFFICES ASSUME IInv, JustifiedInv, NEW c \in Callers, outcome[c].tag = "Ok"
               PROVE  Justified(outcome[c])
    BY DEF ReportSound
  <2>1. outcome[c] \in AllResults
    BY DEF IInv, TypeOK, NoResult, Refusals, TooManyWaiters, LockFailed
  <2>2. outcome[c] = decided
    BY <2>1 DEF IInv, VerdictInv, Agreement
  <2> QED BY <2>2 DEF JustifiedInv
<1> QED BY <1>1, Invariance, JustifiedInvariance, PTL
=============================================================================
