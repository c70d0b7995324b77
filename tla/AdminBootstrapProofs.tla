-------------------------- MODULE AdminBootstrapProofs --------------------------
(***************************************************************************)
(* Machine-checked proofs about AdminBootstrap, for every plan, any number   *)
(* of calls and any bounds on lost requests and other writers.               *)
(***************************************************************************)
EXTENDS AdminBootstrap, FiniteSetTheorems, TLAPS

-----------------------------------------------------------------------------
(* The inductive invariant. *)

Active(r) == pc[r] \notin {"idle", "done"}

\* What each phase of a step says about its operation and what was read: only a
\* run goes beyond reading, a creation follows a read that found nothing, and a
\* document is written only after a read that found no override.
Phase(r) ==
  /\ pc[r] # "idle" => Mode[r] \in {"run", "preview"}
  /\ pc[r] = "idle" => step[r] = 1
  /\ pc[r] \in {"create", "confirm", "recheck", "write", "verify"} => Mode[r] = "run"
  /\ pc[r] \in {"create", "recheck"} => Op(r).kind \in MountKinds \cup {"transit_key"}
  /\ pc[r] = "confirm" => Op(r).kind \in MountKinds
  /\ pc[r] = "write" => Op(r).kind \in DocumentKinds \cup {"kv2_secret"}
  /\ pc[r] = "verify" => Op(r).kind \in DocumentKinds
  /\ pc[r] = "create" => ~seen[r].exists
  /\ pc[r] = "write" /\ seen[r].exists => ~HasOverride(Op(r), seen[r])

PhaseInv == \A r \in Runners : Phase(r)

\* What was read of a target is not newer than what it holds, and a version
\* stands for one state.
Fresh(was, t) ==
  /\ was.version <= store[t].version
  /\ was.version = store[t].version => was = store[t]

FreshInv ==
  /\ \A r \in Runners : pc[r] \in {"create", "write"} => Fresh(seen[r], Op(r).target)
  /\ \A q \in late : Fresh(q.was, q.op.target)

\* The lock admits the calls one after the other, and what the call that holds
\* it has read stays true unless a late write interferes.
LockInv ==
  /\ Locked => \A q, r \in Runners : q < r /\ pc[r] # "idle" => pc[q] = "done"
  /\ ~LateWrites => late = {}
  /\ Locked /\ ~LateWrites =>
       \A r \in Runners :
         /\ pc[r] # "recheck"
         /\ pc[r] \in {"create", "write"} => seen[r] = store[Op(r).target]

\* The first n operations that issue a credential.
Credentials(n) == {i \in 1 .. n : plan[i].kind = "credential"}

\* The credentials a call has been issued so far.
Issued(r) ==
  /\ Mode[r] # "run" => issued[r] = 0
  /\ Mode[r] = "run" =>
       /\ pc[r] # "done" => issued[r] = Cardinality(Credentials(step[r] - 1))
       /\ issued[r] <= Cardinality(Credentials(step[r]))
       /\ result[r] = "Ok" => issued[r] = Cardinality(Credentials(step[r]))

IssuedInv == \A r \in Runners : Issued(r)

\* The operations a run has behind it stay satisfied, and once it has ended
\* well all of them do until another administrator writes.
ConvergedInv ==
  NamedOnce(plan) =>
    \A r \in Runners :
      Mode[r] = "run" =>
        /\ Active(r) /\ (Locked \/ outside = 0) =>
             \A i \in 1 .. step[r] - 1 : Satisfied(plan[i], store)
        /\ Locked /\ result[r] = "Ok" /\ stamp[r] = outside =>
             \A i \in 1 .. Len(plan) : Satisfied(plan[i], store)

\* What a run that finds everything satisfied reports of operation i.
Idle(i) == IF plan[i].kind = "credential" THEN "Issued" ELSE "Unchanged"

RerunInv ==
  NamedOnce(plan) =>
    \A r, q \in Runners :
      /\ Locked /\ r < q /\ Mode[r] = "run" /\ Mode[q] = "run" /\ result[r] = "Ok"
      => /\ Active(q) /\ stamp[r] = outside =>
              pc[q] = "read" /\ \A i \in 1 .. step[q] - 1 : steps[q][i] = Idle(i)
         /\ pc[q] = "done" /\ stamp[q] = stamp[r] =>
              /\ result[q] \in {"Ok", "Transport"}
              /\ result[q] = "Ok" => \A i \in 1 .. Len(plan) : steps[q][i] = Idle(i)

\* What an operation will report of the server's state s.
Forecast(op, s) ==
  IF op.kind = "credential" THEN "Issued"
  ELSE IF ~s[op.target].exists THEN "Created"
  ELSE IF Satisfied(op, s) THEN "Unchanged"
  ELSE "Updated"

\* The run q is about to report what the preview p did: it has so far, where it
\* has not been yet the server still holds what p met, and at its operation it
\* has taken the branch that leads to the same status.
Tracks(p, q) ==
  /\ \A i \in 1 .. step[q] - 1 : steps[q][i] = steps[p][i]
  /\ \A i \in step[q] + 1 .. Len(plan) : steps[p][i] = Forecast(plan[i], store)
  /\ pc[q] = "read" => steps[p][step[q]] = Forecast(Op(q), store)
  /\ pc[q] \in {"create", "confirm"} => steps[p][step[q]] = "Created"
  /\ pc[q] \in {"write", "verify"} =>
       steps[p][step[q]] = IF seen[q].exists THEN "Updated" ELSE "Created"

\* A preview reports the forecast of the state it finds, the state stays while no
\* later call has begun, and the run that comes next tracks it.
PreviewInv ==
  NamedOnce(plan) /\ Locked /\ ~LateWrites =>
    \A p \in Runners :
      Mode[p] = "preview" =>
        /\ Active(p) => \A i \in 1 .. step[p] - 1 : steps[p][i] = Forecast(plan[i], store)
        /\ /\ result[p] = "Ok" /\ stamp[p] = outside
           /\ \A r \in Runners : p < r => pc[r] = "idle"
           => \A i \in 1 .. Len(plan) : steps[p][i] = Forecast(plan[i], store)
        /\ p + 1 \in Runners /\ Mode[p + 1] = "run" /\ result[p] = "Ok" =>
             /\ Active(p + 1) /\ stamp[p] = outside => Tracks(p, p + 1)
             /\ result[p + 1] = "Ok" /\ stamp[p + 1] = stamp[p] =>
                  \A i \in 1 .. Len(plan) : steps[p + 1][i] = steps[p][i]

-----------------------------------------------------------------------------
(* Facts about the values. *)

\* The kinds of operation are told apart.
LEMMA KindFacts ==
  /\ "credential" \notin MountKinds \cup DocumentKinds \cup {"transit_key", "kv2_secret"}
  /\ "kv2_secret" \notin MountKinds \cup DocumentKinds \cup {"transit_key"}
  /\ "transit_key" \notin MountKinds \cup DocumentKinds
  /\ MountKinds \cap DocumentKinds = {}
  /\ GuardedKinds \subseteq DocumentKinds
BY DEF MountKinds, DocumentKinds, GuardedKinds, PlainKinds

\* An operation of the plan, its place and what it asks for.
IsOp(op) == \E i \in DOMAIN plan : op = plan[i]

LEMMA PlanFacts ==
  ASSUME plan \in Plans
  PROVE  /\ Len(plan) \in Nat \ {0} /\ DOMAIN plan = 1 .. Len(plan)
         /\ \A op : IsOp(op) =>
              /\ op.kind \in Kinds /\ op.want \in Wants
              /\ op.kind # "credential" => op.target \in TargetsOf(plan)
BY BootstrapAssumption DEF IsOp, TargetsOf

LEMMA WantFacts ==
  ASSUME NEW w \in Wants
  PROVE  DOMAIN w \subseteq Fields /\ \A f \in DOMAIN w : w[f] \in Values
BY DEF Wants

\* What a replacing write and a merging one leave behind.
LEMMA ReplacedFacts ==
  ASSUME NEW op, op.want \in Wants, NEW obj \in ObjectType
  PROVE  /\ Replaced(op, obj) \in ObjectType
         /\ Replaced(op, obj).exists = TRUE /\ Replaced(op, obj).override = FALSE
         /\ Replaced(op, obj).version = obj.version + 1
         /\ FieldsMatch(op, Replaced(op, obj))
<1> DEFINE fs == [f \in Fields |-> IF f \in DOMAIN op.want THEN op.want[f] ELSE Default]
<1>1. DOMAIN op.want \subseteq Fields /\ \A f \in DOMAIN op.want : op.want[f] \in Values
  BY WantFacts
<1>2. fs \in [Fields -> Values]
  BY <1>1, BootstrapAssumption
<1>3. \A f \in DOMAIN op.want : fs[f] = op.want[f]
  BY <1>1
<1>4. obj.version + 1 \in Nat
  BY DEF ObjectType
<1> HIDE DEF fs
<1>5. Replaced(op, obj) = [exists |-> TRUE, override |-> FALSE, version |-> obj.version + 1,
                           fields |-> fs]
  BY DEF Replaced, fs
<1>6. Replaced(op, obj) \in ObjectType
  BY <1>2, <1>4, <1>5 DEF ObjectType
<1> QED BY <1>3, <1>5, <1>6 DEF FieldsMatch

LEMMA MergedFacts ==
  ASSUME NEW op, op.want \in Wants, NEW obj \in ObjectType
  PROVE  /\ Merged(op, obj) \in ObjectType
         /\ Merged(op, obj).exists = obj.exists /\ Merged(op, obj).override = obj.override
         /\ Merged(op, obj).version = obj.version + 1
         /\ FieldsMatch(op, Merged(op, obj))
<1> DEFINE fs == [f \in Fields |-> IF f \in DOMAIN op.want THEN op.want[f] ELSE obj.fields[f]]
<1>1. DOMAIN op.want \subseteq Fields /\ \A f \in DOMAIN op.want : op.want[f] \in Values
  BY WantFacts
<1>2. fs \in [Fields -> Values]
  BY <1>1 DEF ObjectType
<1>3. \A f \in DOMAIN op.want : fs[f] = op.want[f]
  BY <1>1
<1>4. obj.version + 1 \in Nat
  BY DEF ObjectType
<1>5. Merged(op, obj) = [obj EXCEPT !.version = @ + 1, !.fields = fs]
  BY DEF Merged
<1> HIDE DEF fs
<1>6. /\ Merged(op, obj) \in ObjectType
      /\ Merged(op, obj).exists = obj.exists /\ Merged(op, obj).override = obj.override
      /\ Merged(op, obj).version = obj.version + 1 /\ Merged(op, obj).fields = fs
  BY <1>2, <1>4, <1>5 DEF ObjectType
<1> QED BY <1>3, <1>6 DEF FieldsMatch

-----------------------------------------------------------------------------
(* The moves of a call. *)

\* Anything runner r does.
RunnerStep(r) ==
  \/ Start(r) \/ ReadMount(r) \/ ReadKey(r) \/ ReadDocument(r) \/ ReadSecret(r)
  \/ PreviewIssue(r) \/ Create(r) \/ CreateRefused(r) \/ ConfirmCreated(r)
  \/ RecheckRace(r) \/ WriteDocument(r) \/ VerifyDocument(r) \/ WriteSecret(r)
  \/ WriteSecretRefused(r) \/ Issue(r) \/ RequestFails(r)

\* The types of what a call keeps to itself.
ControlType ==
  /\ pc \in [Runners -> {"idle", "read", "create", "confirm", "recheck", "write",
                         "verify", "done"}]
  /\ step \in [Runners -> 1 .. Len(plan)]
  /\ steps \in [Runners -> Seq(Statuses)]
  /\ result \in [Runners -> Results]
  /\ stamp \in [Runners -> 0 .. outside]
  /\ \A r \in Runners :
       /\ result[r] # "none" <=> pc[r] = "done"
       /\ result[r] # "Ok" => Len(steps[r]) = step[r] - 1
       /\ result[r] = "Ok" => Len(steps[r]) = step[r] /\ step[r] = Len(plan)

\* The types of what the calls share with the server.
DataType ==
  /\ setup \in Setups /\ plan \in Plans
  /\ store \in [TargetsOf(plan) -> ObjectType]
  /\ seen \in [Runners -> ObjectType]
  /\ issued \in [Runners -> Nat]
  /\ \A q \in late : IsOp(q.op) /\ q.op.kind # "credential" /\ q.was \in ObjectType
  /\ outside \in 0 .. MaxOutside /\ failures \in 0 .. MaxFailures
  /\ blind \subseteq TargetsOf(plan)

LEMMA TypeParts == TypeOK <=> ControlType /\ DataType
BY DEF TypeOK, ControlType, DataType, IsOp

\* Nothing but its own moves changes what a call keeps to itself.
LEMMA GotoFacts ==
  ASSUME ControlType, NEW r \in Runners, NEW l, Goto(r, l)
  PROVE  /\ pc'[r] = l
         /\ \A x \in Runners \ {r} : pc'[x] = pc[x]
         /\ step' = step /\ steps' = steps /\ result' = result /\ stamp' = stamp
BY DEF ControlType, Goto

LEMMA FailFacts ==
  ASSUME ControlType, NEW r \in Runners, NEW e, Fail(r, e)
  PROVE  /\ pc'[r] = "done" /\ result'[r] = e /\ stamp'[r] = outside
         /\ \A x \in Runners \ {r} :
              pc'[x] = pc[x] /\ result'[x] = result[x] /\ stamp'[x] = stamp[x]
         /\ step' = step /\ steps' = steps
BY DEF ControlType, Fail

LEMMA ReportFacts ==
  ASSUME ControlType, NEW r \in Runners, NEW status, Report(r, status)
  PROVE  /\ steps'[r] = Append(steps[r], status)
         /\ \/ /\ step[r] = Len(plan) /\ step'[r] = step[r]
               /\ pc'[r] = "done" /\ result'[r] = "Ok" /\ stamp'[r] = outside
            \/ /\ step[r] # Len(plan) /\ step'[r] = step[r] + 1
               /\ pc'[r] = "read" /\ result'[r] = result[r] /\ stamp'[r] = stamp[r]
         /\ \A x \in Runners \ {r} :
              /\ pc'[x] = pc[x] /\ step'[x] = step[x] /\ steps'[x] = steps[x]
              /\ result'[x] = result[x] /\ stamp'[x] = stamp[x]
BY DEF ControlType, Report

LEMMA GotoType ==
  ASSUME ControlType, plan' = plan, outside' = outside,
         NEW r \in Runners, NEW l \in {"read", "create", "confirm", "recheck", "write", "verify"},
         pc[r] # "done", Goto(r, l)
  PROVE  ControlType'
BY DEF ControlType, Goto

LEMMA FailType ==
  ASSUME ControlType, plan' = plan, outside' = outside, outside \in Nat,
         NEW r \in Runners, NEW e \in Results \ {"none", "Ok"},
         pc[r] # "done", Fail(r, e)
  PROVE  ControlType'
<1>1. result[r] = "none" /\ outside \in 0 .. outside
  BY DEF ControlType
<1>2. /\ pc' = [pc EXCEPT ![r] = "done"] /\ result' = [result EXCEPT ![r] = e]
      /\ stamp' = [stamp EXCEPT ![r] = outside] /\ step' = step /\ steps' = steps
  BY DEF Fail
<1> QED BY <1>1, <1>2 DEF ControlType

LEMMA ReportType ==
  ASSUME ControlType, plan \in Plans, plan' = plan, outside' = outside, outside \in Nat,
         NEW r \in Runners, NEW status \in Statuses,
         pc[r] # "done", Report(r, status)
  PROVE  ControlType'
<1>1. /\ result[r] = "none" /\ outside \in 0 .. outside /\ Len(plan) \in Nat
      /\ Len(steps[r]) = step[r] - 1 /\ step[r] \in 1 .. Len(plan)
  BY PlanFacts DEF ControlType
<1>2. /\ Append(steps[r], status) \in Seq(Statuses)
      /\ Len(Append(steps[r], status)) = Len(steps[r]) + 1
  BY DEF ControlType
<1>3. Len(Append(steps[r], status)) = step[r]
  BY <1>1, <1>2
<1>4. steps' = [steps EXCEPT ![r] = Append(steps[r], status)]
  BY DEF Report
<1>5. steps' \in [Runners -> Seq(Statuses)]
  BY <1>2, <1>4 DEF ControlType
<1>6. CASE step[r] = Len(plan)
  <2>1. /\ pc' = [pc EXCEPT ![r] = "done"] /\ result' = [result EXCEPT ![r] = "Ok"]
        /\ stamp' = [stamp EXCEPT ![r] = outside] /\ step' = step
    BY <1>6 DEF Report
  <2> QED BY <1>1, <1>3, <1>4, <1>5, <1>6, <2>1 DEF ControlType, Results
<1>7. CASE step[r] # Len(plan)
  <2>1. /\ step' = [step EXCEPT ![r] = step[r] + 1] /\ pc' = [pc EXCEPT ![r] = "read"]
        /\ result' = result /\ stamp' = stamp
    BY <1>7 DEF Report
  <2>2. step[r] + 1 \in 1 .. Len(plan) /\ (step[r] + 1) - 1 = step[r]
    BY <1>1, <1>7
  <2> QED BY <1>1, <1>3, <1>4, <1>5, <2>1, <2>2 DEF ControlType
<1> QED BY <1>6, <1>7

\* Every move of a call begins it, goes on to its next request, reports the step
\* or fails.
Proceeds(r) ==
  \E l \in {"create", "confirm", "recheck", "write", "verify"} : Active(r) /\ Goto(r, l)

Reports(r) == \E status \in Statuses : Active(r) /\ Report(r, status)

Fails(r) == \E e \in Results \ {"none", "Ok"} : Active(r) /\ Fail(r, e)

LEMMA Moves ==
  ASSUME NEW r \in Runners, RunnerStep(r)
  PROVE  /\ \/ pc[r] = "idle" /\ Goto(r, "read")
            \/ Proceeds(r)
            \/ Reports(r)
            \/ Fails(r)
         /\ UNCHANGED <<setup, plan, outside>>
<1> USE DEF Active, Results, Statuses
<1>1. CASE Start(r)
  BY <1>1 DEF Start
<1>2. CASE ReadMount(r)
  BY <1>2 DEF ReadMount, Reading, Remember, Would, Then, Proceeds, Reports, Fails
<1>3. CASE ReadKey(r)
  BY <1>3 DEF ReadKey, Reading, Remember, Would, Then, Proceeds, Reports, Fails
<1>4. CASE ReadDocument(r)
  BY <1>4 DEF ReadDocument, Reading, Remember, Would, Then, Proceeds, Reports, Fails
<1>5. CASE ReadSecret(r)
  BY <1>5 DEF ReadSecret, Reading, Remember, Would, Then, Proceeds, Reports, Fails
<1>6. CASE PreviewIssue(r) \/ Issue(r)
  BY <1>6 DEF PreviewIssue, Issue, Reading, Would, Reports
<1>7. CASE Create(r) \/ CreateRefused(r)
  BY <1>7 DEF Create, CreateRefused, Proceeds, Reports
<1>8. CASE ConfirmCreated(r)
  BY <1>8 DEF ConfirmCreated, Remember, Reports, Fails
<1>9. CASE RecheckRace(r)
  BY <1>9 DEF RecheckRace, Remember, Reports, Fails
<1>10. CASE WriteDocument(r) \/ VerifyDocument(r)
  BY <1>10 DEF WriteDocument, VerifyDocument, Proceeds, Reports, Fails
<1>11. CASE WriteSecret(r) \/ WriteSecretRefused(r)
  BY <1>11 DEF WriteSecret, WriteSecretRefused, Reports, Fails
<1>12. CASE RequestFails(r)
  BY <1>12 DEF RequestFails, Fails
<1> QED
  BY <1>1, <1>2, <1>3, <1>4, <1>5, <1>6, <1>7, <1>8, <1>9, <1>10, <1>11, <1>12 DEF RunnerStep

\* A call's move changes nothing of another call.
LEMMA OthersKeep ==
  ASSUME TypeOK, NEW r \in Runners, RunnerStep(r), NEW x \in Runners, x # r
  PROVE  /\ pc'[x] = pc[x] /\ step'[x] = step[x] /\ steps'[x] = steps[x]
         /\ result'[x] = result[x] /\ stamp'[x] = stamp[x]
         /\ seen'[x] = seen[x] /\ issued'[x] = issued[x]
<1>1. ControlType /\ DataType
  BY TypeParts
<1>2. /\ pc'[x] = pc[x] /\ step'[x] = step[x] /\ steps'[x] = steps[x]
      /\ result'[x] = result[x] /\ stamp'[x] = stamp[x]
  BY <1>1, Moves, GotoFacts, FailFacts, ReportFacts DEF Proceeds, Reports, Fails
<1>3. seen' = seen \/ seen' = [seen EXCEPT ![r] = Object(r)]
  BY DEF RunnerStep, Start, ReadMount, ReadKey, ReadDocument, ReadSecret, PreviewIssue, Create,
     CreateRefused, ConfirmCreated, RecheckRace, WriteDocument, VerifyDocument, WriteSecret,
     WriteSecretRefused, Issue, RequestFails, Remember
<1>4. issued' = issued \/ issued' = [issued EXCEPT ![r] = @ + 1]
  BY DEF RunnerStep, Start, ReadMount, ReadKey, ReadDocument, ReadSecret, PreviewIssue, Create,
     CreateRefused, ConfirmCreated, RecheckRace, WriteDocument, VerifyDocument, WriteSecret,
     WriteSecretRefused, Issue, RequestFails, Remember
<1> QED BY <1>1, <1>2, <1>3, <1>4 DEF DataType

LEMMA ControlStep ==
  ASSUME TypeOK, NEW r \in Runners, RunnerStep(r)
  PROVE  ControlType'
<1>1. ControlType /\ plan \in Plans /\ outside \in Nat
  BY TypeParts DEF DataType
<1>2. UNCHANGED <<plan, outside>>
  BY Moves
<1>3. CASE pc[r] = "idle" /\ Goto(r, "read")
  BY <1>1, <1>2, <1>3, GotoType
<1>4. CASE Proceeds(r)
  BY <1>1, <1>2, <1>4, GotoType DEF Proceeds, Active
<1>5. CASE Reports(r)
  BY <1>1, <1>2, <1>5, ReportType DEF Reports, Active
<1>6. CASE Fails(r)
  BY <1>1, <1>2, <1>6, FailType DEF Fails, Active
<1> QED BY <1>3, <1>4, <1>5, <1>6, Moves

-----------------------------------------------------------------------------
(* The moves of the server. *)

\* A request of this plan the server accepts and carries out.
Writes(q) ==
  /\ IsOp(q.op) /\ q.op.kind # "credential" /\ q.was \in ObjectType
  /\ Accepted(q) /\ Apply(q)

\* A request is under way: sent by a call that waits, or given up by one.
UnderWay(q) ==
  q \in late \/ \E r \in Runners : pc[r] \in {"create", "write"} /\ q = Request(r)

\* The operation a call is at, and the request it makes of it.
LEMMA OpFacts ==
  ASSUME TypeOK, NEW r \in Runners
  PROVE  /\ IsOp(Op(r)) /\ Op(r).kind \in Kinds /\ Op(r).want \in Wants
         /\ Op(r).kind # "credential" => /\ Op(r).target \in TargetsOf(plan)
                                         /\ Object(r) \in ObjectType
         /\ Request(r).op = Op(r) /\ Request(r).was = seen[r] /\ seen[r] \in ObjectType
<1>1. plan \in Plans /\ step[r] \in DOMAIN plan
  BY PlanFacts DEF TypeOK
<1>2. IsOp(Op(r))
  BY <1>1 DEF IsOp, Op
<1>3. Request(r).op = Op(r) /\ Request(r).was = seen[r]
  BY DEF Request
<1>4. Op(r).kind # "credential" => Op(r).target \in TargetsOf(plan)
  BY <1>1, <1>2, PlanFacts
<1>5. Op(r).target \in TargetsOf(plan) => Object(r) \in ObjectType
  BY DEF Object, TypeOK
<1> QED BY <1>1, <1>2, <1>3, <1>4, <1>5, PlanFacts DEF TypeOK

\* One target changes: it gets the next version, is there, and holds what the
\* operation asks for, without an override unless a secret was merged.
LEMMA WriteFacts ==
  ASSUME TypeOK, NEW q, Writes(q)
  PROVE  LET t == q.op.target IN
         /\ t \in TargetsOf(plan)
         /\ store' = [store EXCEPT ![t] = store'[t]]
         /\ store'[t] \in ObjectType
         /\ store'[t].version = store[t].version + 1
         /\ store'[t].exists = TRUE /\ FieldsMatch(q.op, store'[t])
         /\ q.op.kind # "kv2_secret" => store'[t].override = FALSE
         /\ blind' = IF store[t] # q.was THEN blind \cup {t} ELSE blind
<1> DEFINE t == q.op.target
<1>1. /\ q.op.want \in Wants /\ t \in TargetsOf(plan) /\ q.op.kind \in Kinds
  BY PlanFacts DEF TypeOK, Writes
<1>2. store \in [TargetsOf(plan) -> ObjectType] /\ store[t] \in ObjectType
  BY <1>1 DEF TypeOK
<1> DEFINE merge == q.op.kind = "kv2_secret" /\ q.was.exists
           new == IF merge THEN Merged(q.op, store[t]) ELSE Replaced(q.op, store[t])
<1>3. store' = [store EXCEPT ![t] = new]
  BY DEF Writes, Apply
<1>4. store'[t] = new
  BY <1>1, <1>2, <1>3
<1>5. ASSUME merge
      PROVE  /\ new \in ObjectType /\ new.version = store[t].version + 1
             /\ new.exists = TRUE /\ FieldsMatch(q.op, new)
             /\ q.op.kind # "kv2_secret" => new.override = FALSE
  <2>1. store[t].exists = TRUE
    BY <1>2, <1>5, KindFacts DEF Writes, Accepted, ObjectType
  <2>2. new = Merged(q.op, store[t])
    BY <1>5
  <2>3. LET m == Merged(q.op, store[t]) IN
        /\ m \in ObjectType /\ m.version = store[t].version + 1
        /\ m.exists = store[t].exists /\ FieldsMatch(q.op, m)
    BY <1>1, <1>2, MergedFacts
  <2> HIDE DEF new
  <2> QED BY <1>5, <2>1, <2>2, <2>3, Zenon
<1>6. ASSUME ~merge
      PROVE  /\ new \in ObjectType /\ new.version = store[t].version + 1
             /\ new.exists = TRUE /\ FieldsMatch(q.op, new)
             /\ q.op.kind # "kv2_secret" => new.override = FALSE
  <2>1. new = Replaced(q.op, store[t])
    BY <1>6
  <2>2. LET m == Replaced(q.op, store[t]) IN
        /\ m \in ObjectType /\ m.version = store[t].version + 1
        /\ m.exists = TRUE /\ m.override = FALSE /\ FieldsMatch(q.op, m)
    BY <1>1, <1>2, ReplacedFacts
  <2> HIDE DEF new
  <2> QED BY <2>1, <2>2, Zenon
<1>7. store' = [store EXCEPT ![t] = store'[t]]
  BY <1>3, <1>4, Zenon
<1>8. blind' = IF store[t] # q.was THEN blind \cup {t} ELSE blind
  BY DEF Writes, Apply
<1> QED BY <1>1, <1>4, <1>5, <1>6, <1>7, <1>8, Zenon

\* What a step does to the server's state.
LEMMA StoreMoves ==
  ASSUME TypeOK, PhaseInv, [Next]_vars
  PROVE  \/ UNCHANGED <<store, blind>>
         \/ OutsideWrite
         \/ \E q : UnderWay(q) /\ Writes(q)
<1>1. CASE UNCHANGED vars
  BY <1>1 DEF vars
<1>2. CASE LateWriteLands
  BY <1>2 DEF LateWriteLands, UnderWay, Writes, TypeOK, IsOp
<1>3. ASSUME NEW r \in Runners, RunnerStep(r), pc[r] \in {"create", "write"},
             Accepted(Request(r)), Apply(Request(r))
      PROVE  \E q : UnderWay(q) /\ Writes(q)
  <2>1. Op(r).kind # "credential"
    BY <1>3, KindFacts DEF PhaseInv, Phase
  <2>2. Writes(Request(r))
    BY <1>3, <2>1, OpFacts DEF Writes
  <2> QED BY <1>3, <2>2 DEF UnderWay
<1>4. ASSUME NEW r \in Runners, RunnerStep(r)
      PROVE  \/ UNCHANGED <<store, blind>>
             \/ pc[r] \in {"create", "write"} /\ Accepted(Request(r)) /\ Apply(Request(r))
  <2>1. CASE WriteDocument(r)
    <3>1. Request(r).op.kind \in DocumentKinds
      BY <2>1, OpFacts DEF WriteDocument
    <3>2. Accepted(Request(r))
      BY <3>1, KindFacts DEF Accepted
    <3> QED BY <2>1, <3>2 DEF WriteDocument
  <2> QED
    BY <1>4, <2>1 DEF RunnerStep, Start, ReadMount, ReadKey, ReadDocument, ReadSecret,
       PreviewIssue, Create, CreateRefused, ConfirmCreated, RecheckRace, VerifyDocument,
       WriteSecret, WriteSecretRefused, Issue, RequestFails, Remember
<1> QED BY <1>1, <1>2, <1>3, <1>4 DEF Next, RunnerStep

-----------------------------------------------------------------------------
(* What each kind of move of a call rests on. *)

\* A call goes on to another request: it found nothing and creates, found
\* something else and writes, has to confirm a creation, to look who was faster,
\* or to verify a document.
GoesOn(r) ==
  /\ step' = step /\ steps' = steps /\ result' = result /\ stamp' = stamp
  /\ issued' = issued /\ late' = late
  /\ Mode[r] = "run"
  /\ \/ /\ pc[r] = "read" /\ pc'[r] = "create"
        /\ Op(r).kind \in MountKinds \cup {"transit_key"}
        /\ ~Object(r).exists
        /\ seen' = [seen EXCEPT ![r] = Object(r)] /\ UNCHANGED <<store, blind>>
     \/ /\ pc[r] = "read" /\ pc'[r] = "write"
        /\ Op(r).kind \in DocumentKinds \cup {"kv2_secret"}
        /\ Object(r).exists =>
             ~matches_desired(Op(r), Object(r)) /\ ~HasOverride(Op(r), Object(r))
        /\ seen' = [seen EXCEPT ![r] = Object(r)] /\ UNCHANGED <<store, blind>>
     \/ /\ pc[r] = "create" /\ pc'[r] = "confirm"
        /\ Op(r).kind \in MountKinds /\ seen' = seen
        /\ Accepted(Request(r)) /\ Apply(Request(r))
     \/ /\ pc[r] = "create" /\ pc'[r] = "recheck"
        /\ ~Accepted(Request(r)) /\ seen' = seen /\ UNCHANGED <<store, blind>>
     \/ /\ pc[r] = "write" /\ pc'[r] = "verify"
        /\ Op(r).kind \in DocumentKinds /\ seen' = seen
        /\ Apply(Request(r))

\* What a reported status rests on.
Grounds(r, status) ==
  \/ /\ pc[r] = "read" /\ UNCHANGED <<store, blind>> /\ status = Forecast(Op(r), store)
     /\ Mode[r] = "run" => Satisfied(Op(r), store)
  \/ /\ pc[r] = "create" /\ status = "Created" /\ Op(r).kind = "transit_key"
     /\ \/ Accepted(Request(r)) /\ Apply(Request(r))
        \/ Object(r).exists /\ UNCHANGED <<store, blind>>
  \/ /\ pc[r] = "confirm" /\ status = "Created" /\ UNCHANGED <<store, blind>>
     /\ Satisfied(Op(r), store)
  \/ /\ pc[r] = "recheck" /\ status = "Unchanged" /\ UNCHANGED <<store, blind>>
     /\ Satisfied(Op(r), store)
  \/ /\ pc[r] = "verify" /\ UNCHANGED <<store, blind>>
     /\ status = IF seen[r].exists THEN "Updated" ELSE "Created"
     /\ Satisfied(Op(r), store)
  \/ /\ pc[r] = "write" /\ Op(r).kind = "kv2_secret"
     /\ status = IF seen[r].exists THEN "Updated" ELSE "Created"
     /\ Accepted(Request(r)) /\ Apply(Request(r))

\* What the credentials of a call are when it reports.
Counts(r) ==
  issued' = IF Mode[r] = "run" /\ pc[r] = "read" /\ Op(r).kind = "credential"
            THEN [issued EXCEPT ![r] = @ + 1] ELSE issued

\* A call ends with an error of its own, or because a request got no answer.
GivesUp(r) ==
  /\ step' = step /\ steps' = steps /\ pc'[r] = "done" /\ stamp'[r] = outside
  /\ \/ /\ result'[r] \in Results \ {"none", "Ok", "Transport"}
        /\ UNCHANGED <<store, blind, issued, late>>
        /\ pc[r] = "read" => ~Satisfied(Op(r), store) /\ Object(r).exists
     \/ /\ result'[r] = "Transport"
        /\ \/ UNCHANGED <<store, blind>>
           \/ /\ pc[r] \in {"create", "write"} /\ Accepted(Request(r)) /\ Apply(Request(r))
              /\ late' = late
        /\ \/ issued' = issued
           \/ /\ pc[r] = "read" /\ Op(r).kind = "credential" /\ Mode[r] = "run"
              /\ issued' = [issued EXCEPT ![r] = @ + 1]
        /\ \/ late' = late
           \/ /\ LateWrites /\ pc[r] \in {"create", "write"} /\ late' = late \cup {Request(r)}

\* The steps of a call that has begun, told apart by what they lead to.
CallMoves(r) ==
  \/ /\ pc[r] = "idle" /\ pc'[r] = "read" /\ Mode[r] \in {"run", "preview"}
     /\ Locked => \A q \in Runners : q < r => pc[q] = "done"
     /\ UNCHANGED <<step, steps, result, stamp, store, seen, issued, late, blind>>
  \/ GoesOn(r) /\ Active(r)
  \/ \E status \in Statuses :
       Active(r) /\ Report(r, status) /\ Grounds(r, status) /\ Counts(r) /\ late' = late
  \/ GivesUp(r) /\ Active(r)

\* The mode of a call is one of three.
LEMMA ModeFacts ==
  ASSUME setup \in Setups, NEW r \in Runners
  PROVE  Mode[r] \in {"run", "preview", "none"}
BY BootstrapAssumption DEF Mode

LEMMA ReadCases ==
  ASSUME TypeOK, PhaseInv, NEW r \in Runners,
         ReadMount(r) \/ ReadKey(r) \/ ReadDocument(r) \/ ReadSecret(r)
  PROVE  CallMoves(r)
<1>1. ControlType /\ Active(r) /\ pc[r] = "read" /\ r \in DOMAIN pc
  BY TypeParts DEF ReadMount, ReadKey, ReadDocument, ReadSecret, Reading, Active, ControlType
<1>2. UNCHANGED <<store, issued, late, blind>> /\ seen' = [seen EXCEPT ![r] = Object(r)]
  BY DEF ReadMount, ReadKey, ReadDocument, ReadSecret, Remember
<1>3. Op(r).kind # "credential"
  BY KindFacts DEF ReadMount, ReadKey, ReadDocument, ReadSecret, Reading
<1>4. ASSUME NEW status \in Statuses, Report(r, status), status = Forecast(Op(r), store),
             Mode[r] = "run" => Satisfied(Op(r), store)
      PROVE  CallMoves(r)
  <2>1. Grounds(r, status)
    BY <1>1, <1>2, <1>4 DEF Grounds
  <2>2. Counts(r)
    BY <1>2, <1>3 DEF Counts
  <2> QED BY <1>1, <1>2, <1>4, <2>1, <2>2 DEF CallMoves
<1>5. ASSUME NEW e \in Results \ {"none", "Ok", "Transport"}, Fail(r, e),
             ~Satisfied(Op(r), store), Object(r).exists
      PROVE  CallMoves(r)
  <2>1. GivesUp(r)
    BY <1>1, <1>2, <1>5, FailFacts DEF GivesUp
  <2> QED BY <1>1, <2>1 DEF CallMoves
<1>6. ASSUME NEW l \in {"create", "write"}, Mode[r] = "run", Goto(r, l),
             IF l = "create"
             THEN Op(r).kind \in MountKinds \cup {"transit_key"} /\ ~Object(r).exists
             ELSE /\ Op(r).kind \in DocumentKinds \cup {"kv2_secret"}
                  /\ Object(r).exists =>
                       ~matches_desired(Op(r), Object(r)) /\ ~HasOverride(Op(r), Object(r))
      PROVE  CallMoves(r)
  <2>1. GoesOn(r)
    BY <1>1, <1>2, <1>6, GotoFacts DEF GoesOn
  <2> QED BY <1>1, <2>1 DEF CallMoves
<1>7. Satisfied(Op(r), store) <=>
        Object(r).exists /\ (Op(r).kind # "transit_key" => matches_desired(Op(r), Object(r)))
  BY <1>3 DEF Satisfied, Object
<1>8. Forecast(Op(r), store) = IF ~Object(r).exists THEN "Created"
                               ELSE IF Satisfied(Op(r), store) THEN "Unchanged" ELSE "Updated"
  BY <1>3 DEF Forecast, Object
<1>9. Mode[r] = "run" \/ Mode[r] = "preview"
  BY <1>1 DEF PhaseInv, Phase
<1>10. CASE ReadMount(r)
  <2>1. Op(r).kind \in MountKinds /\ Op(r).kind # "transit_key"
        /\ (matches_desired(Op(r), Object(r)) <=> FieldsMatch(Op(r), Object(r)))
    BY <1>10, KindFacts DEF ReadMount, Reading, matches_desired, HasOverride
  <2> QED
    BY <1>4, <1>5, <1>6, <1>7, <1>8, <1>9, <1>10, <2>1
    DEF ReadMount, Would, Then, Statuses, Results
<1>11. CASE ReadKey(r)
  <2>1. Op(r).kind = "transit_key"
    BY <1>11 DEF ReadKey, Reading
  <2> QED
    BY <1>4, <1>6, <1>7, <1>8, <1>9, <1>11, <2>1
    DEF ReadKey, Would, Then, Statuses
<1>12. CASE ReadDocument(r)
  <2>1. Op(r).kind \in DocumentKinds /\ Op(r).kind # "transit_key"
    BY <1>12, KindFacts DEF ReadDocument, Reading
  <2> QED
    BY <1>4, <1>5, <1>6, <1>7, <1>8, <1>9, <1>12, <2>1
    DEF ReadDocument, Would, Then, Statuses, Results
<1>13. CASE ReadSecret(r)
  <2>1. Op(r).kind = "kv2_secret" /\ ~HasOverride(Op(r), Object(r))
        /\ (matches_desired(Op(r), Object(r)) <=> FieldsMatch(Op(r), Object(r)))
    BY <1>13, KindFacts DEF ReadSecret, Reading, matches_desired, HasOverride
  <2> QED
    BY <1>4, <1>6, <1>7, <1>8, <1>9, <1>13, <2>1
    DEF ReadSecret, Would, Then, Statuses
<1> QED BY <1>10, <1>11, <1>12, <1>13

LEMMA CreateCases ==
  ASSUME TypeOK, PhaseInv, NEW r \in Runners,
         Create(r) \/ CreateRefused(r) \/ ConfirmCreated(r) \/ RecheckRace(r)
  PROVE  CallMoves(r)
<1>1. /\ ControlType /\ Active(r) /\ late' = late /\ issued' = issued
      /\ pc[r] \in {"create", "confirm", "recheck"}
  BY TypeParts DEF Create, CreateRefused, ConfirmCreated, RecheckRace, Remember, Active
<1>2. /\ Mode[r] = "run" /\ Op(r).kind \in MountKinds \cup {"transit_key"}
      /\ Op(r).kind # "credential" /\ Op(r).kind \notin GuardedKinds
  BY <1>1, KindFacts DEF PhaseInv, Phase
<1>3. Counts(r)
  BY <1>1 DEF Counts
<1>4. Satisfied(Op(r), store) <=>
        Object(r).exists /\ (Op(r).kind # "transit_key" => FieldsMatch(Op(r), Object(r)))
  BY <1>2 DEF Satisfied, Object, matches_desired, HasOverride
<1>5. CASE Create(r)
  <2>1. CASE Op(r).kind = "transit_key"
    <3>1. Report(r, "Created") /\ Grounds(r, "Created")
      BY <1>5, <2>1 DEF Create, Grounds
    <3> QED BY <1>1, <1>3, <3>1 DEF CallMoves, Statuses
  <2>2. CASE Op(r).kind # "transit_key"
    <3>1. GoesOn(r)
      BY <1>1, <1>2, <1>5, <2>2, GotoFacts DEF Create, GoesOn
    <3> QED BY <1>1, <3>1 DEF CallMoves
  <2> QED BY <2>1, <2>2
<1>6. CASE CreateRefused(r)
  <2>1. GoesOn(r)
    BY <1>1, <1>2, <1>6, GotoFacts DEF CreateRefused, GoesOn
  <2> QED BY <1>1, <2>1 DEF CallMoves
<1>7. CASE ConfirmCreated(r)
  <2>1. pc[r] = "confirm" /\ UNCHANGED <<store, blind>> /\ Op(r).kind # "transit_key"
    BY <1>7, KindFacts DEF ConfirmCreated, Remember, PhaseInv, Phase
  <2>2. CASE Report(r, "Created") /\ Satisfied(Op(r), store)
    BY <1>1, <1>3, <2>1, <2>2 DEF CallMoves, Statuses, Grounds
  <2>3. CASE \E e \in {"Contention", "NotFound"} : Fail(r, e)
    <3>1. GivesUp(r)
      BY <1>1, <2>1, <2>3, FailFacts DEF GivesUp, Results
    <3> QED BY <1>1, <3>1 DEF CallMoves
  <2> QED BY <1>4, <1>7, <2>1, <2>2, <2>3 DEF ConfirmCreated
<1>8. CASE RecheckRace(r)
  <2>1. pc[r] = "recheck" /\ UNCHANGED <<store, blind>>
    BY <1>8 DEF RecheckRace, Remember
  <2>2. CASE Report(r, "Unchanged") /\ Satisfied(Op(r), store)
    BY <1>1, <1>3, <2>1, <2>2 DEF CallMoves, Statuses, Grounds
  <2>3. CASE Fail(r, "Refused")
    <3>1. GivesUp(r)
      BY <1>1, <2>1, <2>3, FailFacts DEF GivesUp, Results
    <3> QED BY <1>1, <3>1 DEF CallMoves
  <2> QED BY <1>4, <1>8, <2>2, <2>3 DEF RecheckRace
<1> QED BY <1>5, <1>6, <1>7, <1>8

LEMMA WriteCases ==
  ASSUME TypeOK, PhaseInv, NEW r \in Runners,
         WriteDocument(r) \/ VerifyDocument(r) \/ WriteSecret(r) \/ WriteSecretRefused(r)
  PROVE  CallMoves(r)
<1>1. /\ ControlType /\ Active(r) /\ late' = late /\ issued' = issued /\ seen' = seen
      /\ pc[r] \in {"write", "verify"}
  BY TypeParts DEF WriteDocument, VerifyDocument, WriteSecret, WriteSecretRefused, Active
<1>2. Mode[r] = "run" /\ Counts(r)
  BY <1>1 DEF PhaseInv, Phase, Counts
<1>3. CASE WriteDocument(r)
  <2>1. GoesOn(r)
    BY <1>1, <1>2, <1>3, GotoFacts DEF WriteDocument, GoesOn
  <2> QED BY <1>1, <2>1 DEF CallMoves
<1>4. CASE VerifyDocument(r)
  <2>1. pc[r] = "verify" /\ UNCHANGED <<store, blind>> /\ Op(r).kind \in DocumentKinds
    BY <1>4 DEF VerifyDocument, PhaseInv, Phase
  <2>2. Satisfied(Op(r), store) <=> Object(r).exists /\ matches_desired(Op(r), Object(r))
    BY <2>1, KindFacts DEF Satisfied, Object
  <2>3. CASE Report(r, IF seen[r].exists THEN "Updated" ELSE "Created") /\ Satisfied(Op(r), store)
    BY <1>1, <1>2, <2>1, <2>3 DEF CallMoves, Statuses, Grounds
  <2>4. CASE \E e \in {"Contention", "NotFound"} : Fail(r, e)
    <3>1. GivesUp(r)
      BY <1>1, <2>1, <2>4, FailFacts DEF GivesUp, Results
    <3> QED BY <1>1, <3>1 DEF CallMoves
  <2> QED BY <1>4, <2>2, <2>3, <2>4 DEF VerifyDocument
<1>5. CASE WriteSecret(r)
  BY <1>1, <1>2, <1>5 DEF WriteSecret, CallMoves, Statuses, Grounds
<1>6. CASE WriteSecretRefused(r)
  <2>1. GivesUp(r)
    BY <1>1, <1>6, FailFacts DEF WriteSecretRefused, GivesUp, Results
  <2> QED BY <1>1, <2>1 DEF CallMoves
<1> QED BY <1>3, <1>4, <1>5, <1>6

LEMMA RunnerCases ==
  ASSUME TypeOK, PhaseInv, NEW r \in Runners, RunnerStep(r)
  PROVE  CallMoves(r)
<1>1. ControlType /\ setup \in Setups
  BY TypeParts DEF DataType
<1>2. CASE Start(r)
  BY <1>1, <1>2, GotoFacts, ModeFacts DEF Start, CallMoves
<1>3. CASE PreviewIssue(r) \/ Issue(r)
  <2>1. /\ Active(r) /\ pc[r] = "read" /\ Op(r).kind = "credential" /\ late' = late
        /\ UNCHANGED <<store, blind>> /\ Report(r, "Issued")
    BY <1>3 DEF PreviewIssue, Issue, Reading, Would, Active
  <2>2. Grounds(r, "Issued")
    BY <2>1 DEF Grounds, Forecast, Satisfied
  <2>3. Counts(r)
    BY <1>3, <2>1 DEF PreviewIssue, Issue, Would, Counts
  <2> QED BY <2>1, <2>2, <2>3 DEF CallMoves, Statuses
<1>4. CASE RequestFails(r)
  <2>1. Active(r) /\ Fail(r, "Transport") /\ r \in DOMAIN pc
    BY <1>1, <1>4 DEF RequestFails, Active, ControlType
  <2>2. Op(r).kind = "credential" => Mode[r] = "run"
    BY <1>4, <2>1 DEF RequestFails, PhaseInv, Phase, Active
  <2>3. GivesUp(r)
    BY <1>1, <1>4, <2>1, <2>2, FailFacts DEF RequestFails, GivesUp
  <2> QED BY <2>1, <2>3 DEF CallMoves
<1> QED BY <1>2, <1>3, <1>4, ReadCases, CreateCases, WriteCases DEF RunnerStep

-----------------------------------------------------------------------------
(* Types and phases. *)

\* The setup and the plan never change.
LEMMA Constant ==
  ASSUME [Next]_vars
  PROVE  UNCHANGED <<setup, plan>> /\ TargetsOf(plan)' = TargetsOf(plan)
<1>1. UNCHANGED <<setup, plan>>
  BY Moves DEF Next, RunnerStep, OutsideWrite, LateWriteLands, vars
<1> QED BY <1>1 DEF TargetsOf

LEMMA UnderWayFacts ==
  ASSUME TypeOK, PhaseInv, NEW q, UnderWay(q)
  PROVE  /\ IsOp(q.op) /\ q.op.kind # "credential" /\ q.was \in ObjectType
         /\ q.op.kind \in Kinds
         /\ q.op.target \in TargetsOf(plan) /\ store[q.op.target] \in ObjectType
<1>1. IsOp(q.op) /\ q.op.kind # "credential" /\ q.was \in ObjectType
  <2>1. CASE q \in late
    BY <2>1 DEF TypeOK, IsOp
  <2>2. CASE \E r \in Runners : pc[r] \in {"create", "write"} /\ q = Request(r)
    <3>1. PICK r \in Runners : pc[r] \in {"create", "write"} /\ q = Request(r)
      BY <2>2
    <3>2. Op(r).kind # "credential"
      BY <3>1, KindFacts DEF PhaseInv, Phase
    <3> QED BY <3>1, <3>2, OpFacts
  <2> QED BY <2>1, <2>2 DEF UnderWay
<1> QED BY <1>1, PlanFacts DEF TypeOK

\* Another administrator's write gives the target its next version.
LEMMA OutsideFacts ==
  ASSUME TypeOK, OutsideWrite
  PROVE  \E t \in TargetsOf(plan) :
           /\ store' = [store EXCEPT ![t] = store'[t]]
           /\ store'[t] \in ObjectType /\ store'[t].version = store[t].version + 1
<1>1. store \in [TargetsOf(plan) -> ObjectType] /\ DOMAIN store = TargetsOf(plan)
  BY DEF TypeOK
<1>2. PICK t \in DOMAIN store, o \in Objects :
        store' = [store EXCEPT ![t] = [o EXCEPT !.version = store[t].version + 1]]
  BY DEF OutsideWrite
<1> DEFINE n == [o EXCEPT !.version = store[t].version + 1]
<1>3. o \in ObjectType /\ store[t] \in ObjectType
  BY <1>1, <1>2, BootstrapAssumption
<1>4. n \in ObjectType /\ n.version = store[t].version + 1
  BY <1>3 DEF ObjectType
<1>5. store' = [store EXCEPT ![t] = n]
  BY <1>2
<1> HIDE DEF n
<1>6. store'[t] = n
  BY <1>1, <1>5
<1> QED BY <1>1, <1>4, <1>5, <1>6

\* Every change of a target gives it a later version.
LEMMA StoreGrows ==
  ASSUME TypeOK, PhaseInv, [Next]_vars
  PROVE  /\ store' \in [TargetsOf(plan) -> ObjectType]
         /\ blind' \subseteq TargetsOf(plan)
         /\ \A t \in TargetsOf(plan) :
              store'[t] = store[t] \/ store'[t].version = store[t].version + 1
<1>1. /\ store \in [TargetsOf(plan) -> ObjectType] /\ blind \subseteq TargetsOf(plan)
  BY DEF TypeOK
<1>2. ASSUME NEW t \in TargetsOf(plan), store' = [store EXCEPT ![t] = store'[t]],
             store'[t] \in ObjectType, store'[t].version = store[t].version + 1
      PROVE  /\ store' \in [TargetsOf(plan) -> ObjectType]
             /\ \A u \in TargetsOf(plan) :
                  store'[u] = store[u] \/ store'[u].version = store[u].version + 1
  BY <1>1, <1>2
<1>3. CASE OutsideWrite
  <2>1. blind' = blind
    BY <1>3 DEF OutsideWrite
  <2> QED BY <1>1, <1>2, <1>3, <2>1, OutsideFacts
<1>4. CASE \E q : UnderWay(q) /\ Writes(q)
  <2>1. PICK q : UnderWay(q) /\ Writes(q)
    BY <1>4
  <2>2. blind' \subseteq TargetsOf(plan)
    BY <1>1, <2>1, WriteFacts
  <2> QED BY <1>2, <2>1, <2>2, WriteFacts
<1>5. CASE UNCHANGED <<store, blind>>
  BY <1>1, <1>5
<1> QED BY <1>3, <1>4, <1>5, StoreMoves

\* A write given up by its caller was under way before.
LEMMA LateMoves ==
  ASSUME TypeOK, PhaseInv, [Next]_vars
  PROVE  /\ \A q \in late' : UnderWay(q)
         /\ ~LateWrites => late' \subseteq late
<1>1. CASE UNCHANGED vars \/ OutsideWrite \/ LateWriteLands
  BY <1>1 DEF vars, OutsideWrite, LateWriteLands, UnderWay
<1>2. ASSUME NEW r \in Runners, RunnerStep(r)
      PROVE  \/ late' = late
             \/ LateWrites /\ pc[r] \in {"create", "write"} /\ late' = late \cup {Request(r)}
  BY <1>2, RunnerCases DEF CallMoves, GoesOn, GivesUp
<1> QED BY <1>1, <1>2 DEF Next, RunnerStep, UnderWay

LEMMA NextTypeOK ==
  ASSUME TypeOK, PhaseInv, [Next]_vars
  PROVE  TypeOK'
<1>1. UNCHANGED <<setup, plan>> /\ TargetsOf(plan)' = TargetsOf(plan)
  BY Constant
<1>2. \A q \in late' : IsOp(q.op)' /\ q.op.kind # "credential" /\ q.was \in ObjectType
  BY <1>1, LateMoves, UnderWayFacts DEF IsOp
<1>3. ControlType /\ DataType
  BY TypeParts
<1>4. MaxOutside \in Nat /\ MaxFailures \in Nat
  BY BootstrapAssumption
<1>5. /\ ControlType' /\ seen' \in [Runners -> ObjectType] /\ issued' \in [Runners -> Nat]
      /\ outside' \in 0 .. MaxOutside /\ failures' \in 0 .. MaxFailures
  <2>1. CASE UNCHANGED vars
    BY <1>3, <2>1 DEF vars, ControlType, DataType
  <2>2. CASE OutsideWrite
    <3>1. /\ UNCHANGED <<pc, step, seen, steps, result, stamp, issued, failures>>
          /\ outside' = outside + 1 /\ outside < MaxOutside
      BY <2>2 DEF OutsideWrite
    <3>2. outside \in Nat
      BY <1>3 DEF DataType
    <3>3. stamp' \in [Runners -> 0 .. outside']
      BY <1>3, <3>1, <3>2 DEF ControlType
    <3>4. ControlType'
      BY <1>1, <1>3, <3>1, <3>3 DEF ControlType
    <3> QED BY <1>3, <1>4, <3>1, <3>2, <3>4 DEF DataType
  <2>3. CASE LateWriteLands
    <3>1. UNCHANGED <<pc, step, seen, steps, result, stamp, issued, failures, outside>>
      BY <2>3 DEF LateWriteLands
    <3> QED BY <1>1, <1>3, <3>1 DEF ControlType, DataType
  <2>4. ASSUME NEW r \in Runners, RunnerStep(r)
        PROVE  /\ ControlType' /\ seen' \in [Runners -> ObjectType]
               /\ issued' \in [Runners -> Nat]
               /\ outside' \in 0 .. MaxOutside /\ failures' \in 0 .. MaxFailures
    <3>1. ControlType' /\ outside' = outside
      BY <2>4, ControlStep, Moves
    <3>2. issued' \in [Runners -> Nat]
      <4>1. issued' = issued \/ issued' = [issued EXCEPT ![r] = @ + 1]
        BY <2>4, RunnerCases DEF CallMoves, GoesOn, GivesUp, Counts
      <4> QED BY <1>3, <4>1 DEF DataType
    <3>3. failures' = failures \/ (failures < MaxFailures /\ failures' = failures + 1)
      BY <2>4 DEF RunnerStep, Start, ReadMount, ReadKey, ReadDocument, ReadSecret,
         PreviewIssue, Create, CreateRefused, ConfirmCreated, RecheckRace, WriteDocument,
         VerifyDocument, WriteSecret, WriteSecretRefused, Issue, RequestFails, Remember
    <3>4. seen' \in [Runners -> ObjectType]
      <4>1. \/ seen' = seen
            \/ seen' = [seen EXCEPT ![r] = Object(r)] /\ Op(r).kind # "credential"
        BY <2>4, KindFacts DEF RunnerStep, Start, ReadMount, ReadKey, ReadDocument, ReadSecret,
           PreviewIssue, Create, CreateRefused, ConfirmCreated, RecheckRace, WriteDocument,
           VerifyDocument, WriteSecret, WriteSecretRefused, Issue, RequestFails, Remember,
           Reading, PhaseInv, Phase
      <4> QED BY <1>3, <4>1, OpFacts DEF DataType
    <3> QED BY <1>3, <1>4, <3>1, <3>2, <3>3, <3>4 DEF DataType
  <2> QED BY <2>1, <2>2, <2>3, <2>4 DEF Next, RunnerStep
<1>6. /\ store' \in [TargetsOf(plan) -> ObjectType] /\ blind' \subseteq TargetsOf(plan)
  BY StoreGrows
<1>7. DataType'
  BY <1>1, <1>2, <1>3, <1>5, <1>6 DEF DataType
<1> QED BY <1>5, <1>7 DEF TypeOK, ControlType, DataType, IsOp

\* Phases depend on a call's own variables only.
LEMMA PhaseKept ==
  ASSUME PhaseInv, UNCHANGED <<setup, plan>>, NEW x \in Runners,
         pc'[x] = pc[x], step'[x] = step[x], seen'[x] = seen[x]
  PROVE  Phase(x)'
BY DEF PhaseInv, Phase, Op, Mode, HasOverride

LEMMA PhasePreserved ==
  ASSUME TypeOK, PhaseInv, [Next]_vars
  PROVE  PhaseInv'
<1>1. UNCHANGED <<setup, plan>>
  BY Constant
<1>2. CASE UNCHANGED vars \/ OutsideWrite \/ LateWriteLands
  <2>1. UNCHANGED <<pc, step, seen>>
    BY <1>2 DEF vars, OutsideWrite, LateWriteLands
  <2> QED BY <1>1, <2>1, PhaseKept DEF PhaseInv
<1>3. ASSUME NEW r \in Runners, RunnerStep(r), NEW x \in Runners
      PROVE  Phase(x)'
  <2>1. CASE x # r
    BY <1>1, <1>3, <2>1, OthersKeep, PhaseKept
  <2>2. CASE x = r
    <3>1. ControlType /\ Phase(r) /\ Mode' = Mode /\ seen \in [Runners -> ObjectType]
      BY <1>1, TypeParts DEF PhaseInv, Mode, DataType
    <3>2. Op(r).kind # "transit_key" \/ Op(r).kind \notin MountKinds
      BY KindFacts
    <3>3. CASE pc[r] = "idle" /\ pc'[r] = "read" /\ Mode[r] \in {"run", "preview"}
      BY <2>2, <3>1, <3>3 DEF Phase
    <3>4. CASE GoesOn(r)
      <4>1. Op(r)' = Op(r)
        BY <1>1, <3>4 DEF GoesOn, Op
      <4>2. CASE pc[r] = "read"
        <5>1. seen'[r] = Object(r)
          BY <3>1, <3>4, <4>2 DEF GoesOn
        <5> QED BY <2>2, <3>1, <3>4, <4>1, <4>2, <5>1 DEF GoesOn, Phase, HasOverride
      <4>3. CASE pc[r] # "read"
        BY <2>2, <3>1, <3>4, <4>1, <4>3 DEF GoesOn, Phase
      <4> QED BY <4>2, <4>3
    <3>5. CASE Active(r) /\ \E status : Report(r, status)
      <4>1. pc'[r] \in {"read", "done"}
        BY <3>1, <3>5, ReportFacts
      <4> QED BY <2>2, <3>1, <3>5, <4>1 DEF Phase, Active
    <3>6. CASE Active(r) /\ GivesUp(r)
      BY <2>2, <3>1, <3>6 DEF Phase, Active, GivesUp
    <3> QED BY <1>3, <2>2, <3>3, <3>4, <3>5, <3>6, RunnerCases DEF CallMoves
  <2> QED BY <2>1, <2>2
<1> QED BY <1>2, <1>3 DEF Next, RunnerStep, PhaseInv

\* The types and the phases hold from the beginning.
LEMMA InitType ==
  ASSUME Init
  PROVE  TypeOK /\ PhaseInv
<1>1. /\ plan \in Plans /\ setup \in Setups /\ Len(plan) \in Nat \ {0}
      /\ MaxOutside \in Nat /\ MaxFailures \in Nat
  BY PlanFacts, BootstrapAssumption DEF Init
<1>2. (CHOOSE o \in Objects : TRUE) \in ObjectType
  BY BootstrapAssumption
<1>3. store \in [TargetsOf(plan) -> ObjectType]
  BY BootstrapAssumption DEF Init
<1>4. DataType
  <2>1. seen \in [Runners -> ObjectType]
    <3> DEFINE o == CHOOSE o \in Objects : TRUE
    <3>1. o \in ObjectType /\ seen = [r \in Runners |-> o]
      BY <1>2 DEF Init
    <3> HIDE DEF o
    <3> QED BY <3>1
  <2>2. /\ issued \in [Runners -> Nat] /\ outside \in 0 .. MaxOutside
        /\ failures \in 0 .. MaxFailures /\ late = {} /\ blind = {}
    BY <1>1 DEF Init
  <2> QED BY <1>1, <1>3, <2>1, <2>2 DEF DataType
<1>5. ControlType
  <2>1. <<>> \in Seq(Statuses) /\ Len(<<>>) = 0 /\ 1 \in 1 .. Len(plan)
    BY <1>1
  <2> QED BY <1>1, <2>1 DEF Init, ControlType, Results
<1>6. PhaseInv
  BY <1>1, ModeFacts DEF Init, PhaseInv, Phase
<1> QED BY <1>4, <1>5, <1>6, TypeParts

\* Every variable has its type in every reachable state, and a report has one
\* entry per operation done, however the calls, the lost requests and the other
\* administrators interleave.
THEOREM TypeCorrect == Spec => []TypeOK
<1>1. Init => TypeOK /\ PhaseInv
  BY InitType
<1>2. (TypeOK /\ PhaseInv) /\ [Next]_vars => (TypeOK /\ PhaseInv)'
  BY NextTypeOK, PhasePreserved
<1> QED BY <1>1, <1>2, PTL DEF Spec

-----------------------------------------------------------------------------
(* Check-and-set. *)

\* A request about to be made repeats what was read before it, or has just
\* been prompted by a read.
LEMMA RequestMoves ==
  ASSUME TypeOK, PhaseInv, [Next]_vars, NEW r \in Runners, pc'[r] \in {"create", "write"}
  PROVE  /\ step'[r] = step[r] /\ Op(r)' = Op(r)
         /\ \/ pc'[r] = pc[r] /\ seen'[r] = seen[r]
            \/ pc[r] = "read" /\ seen'[r] = Object(r) /\ UNCHANGED store
<1>1. UNCHANGED <<setup, plan>>
  BY Constant
<1>2. /\ step'[r] = step[r]
      /\ \/ pc'[r] = pc[r] /\ seen'[r] = seen[r]
         \/ pc[r] = "read" /\ seen'[r] = Object(r) /\ UNCHANGED store
  <2>1. CASE UNCHANGED vars \/ OutsideWrite \/ LateWriteLands
    BY <2>1 DEF vars, OutsideWrite, LateWriteLands
  <2>2. ASSUME NEW x \in Runners, RunnerStep(x), x # r
        PROVE  pc'[r] = pc[r] /\ seen'[r] = seen[r] /\ step'[r] = step[r]
    BY <2>2, OthersKeep
  <2>3. CASE RunnerStep(r)
    <3>1. ControlType /\ seen \in [Runners -> ObjectType]
      BY TypeParts DEF DataType
    <3>2. ASSUME NEW status, Report(r, status) PROVE FALSE
      BY <3>1, <3>2, ReportFacts
    <3>3. GoesOn(r)
      BY <2>3, <3>2, RunnerCases DEF CallMoves, GivesUp
    <3> QED BY <3>1, <3>3 DEF GoesOn
  <2> QED BY <2>1, <2>2, <2>3 DEF Next, RunnerStep
<1> QED BY <1>1, <1>2 DEF Op

LEMMA FreshPreserved ==
  ASSUME TypeOK, PhaseInv, FreshInv, [Next]_vars
  PROVE  FreshInv'
<1>1. ASSUME NEW q, UnderWay(q)
      PROVE  Fresh(q.was, q.op.target)'
  <2> DEFINE t == q.op.target
  <2>1. /\ t \in TargetsOf(plan) /\ store[t] \in ObjectType /\ q.was \in ObjectType
    BY <1>1, UnderWayFacts
  <2>2. Fresh(q.was, t)
    BY <1>1, OpFacts DEF FreshInv, UnderWay
  <2>3. q.was.version \in Nat /\ store[t].version \in Nat
    BY <2>1 DEF ObjectType
  <2>4. store'[t] = store[t] \/ store'[t].version = store[t].version + 1
    BY <2>1, StoreGrows
  <2> QED BY <2>2, <2>3, <2>4 DEF Fresh
<1>2. ASSUME NEW r \in Runners, pc'[r] \in {"create", "write"}
      PROVE  Fresh(seen[r], Op(r).target)'
  <2>1. Op(r)' = Op(r)
    BY <1>2, RequestMoves
  <2>2. CASE pc'[r] = pc[r] /\ seen'[r] = seen[r]
    <3>1. UnderWay(Request(r))
      BY <1>2, <2>2 DEF UnderWay
    <3>2. Fresh(seen[r], Op(r).target)'
      BY <1>1, <2>1, <2>2, <3>1, OpFacts DEF Fresh
    <3> QED BY <3>2
  <2>3. CASE seen'[r] = Object(r) /\ UNCHANGED store
    <3>1. seen'[r] = store'[Op(r)'.target]
      BY <2>1, <2>3 DEF Object
    <3>2. store'[Op(r)'.target].version <= store'[Op(r)'.target].version
      <4>1. TypeOK' /\ PhaseInv'
        BY NextTypeOK, PhasePreserved
      <4>2. Op(r)'.target \in TargetsOf(plan)
        BY <1>2, <2>1, <4>1, OpFacts, KindFacts, Constant DEF PhaseInv, Phase
      <4>3. store'[Op(r)'.target].version \in Nat
        BY <4>2, StoreGrows DEF ObjectType
      <4> QED BY <4>3
    <3> QED BY <3>1, <3>2 DEF Fresh
  <2> QED BY <1>2, <2>2, <2>3, RequestMoves
<1> QED BY <1>1, <1>2, LateMoves DEF FreshInv

\* Operations that share a target are of the same kind.
LEMMA SameKind ==
  ASSUME plan \in Plans, NEW i \in DOMAIN plan, plan[i].kind # "credential",
         NEW op, IsOp(op), op.kind # "credential", op.target = plan[i].target
  PROVE  op.kind = plan[i].kind
BY BootstrapAssumption DEF IsOp

LEMMA SecretsPreserved ==
  ASSUME TypeOK, PhaseInv, FreshInv, SecretsNeverOverwrittenBlind, [Next]_vars
  PROVE  SecretsNeverOverwrittenBlind'
<1>1. UNCHANGED <<setup, plan>>
  BY Constant
<1>2. CASE UNCHANGED <<store, blind>> \/ OutsideWrite
  BY <1>1, <1>2 DEF OutsideWrite, SecretsNeverOverwrittenBlind
<1>3. ASSUME NEW q, UnderWay(q), Writes(q),
             NEW i \in 1 .. Len(plan), plan[i].kind = "kv2_secret"
      PROVE  plan[i].target \notin blind'
  <2> DEFINE t == q.op.target
  <2>1. CASE t # plan[i].target
    <3>1. blind' \subseteq blind \cup {t}
      BY <1>3, WriteFacts
    <3> QED BY <1>3, <2>1, <3>1 DEF SecretsNeverOverwrittenBlind
  <2>2. CASE t = plan[i].target
    <3>1. /\ IsOp(q.op) /\ q.op.kind # "credential" /\ q.was \in ObjectType
          /\ store[t] \in ObjectType
      BY <1>3, UnderWayFacts
    <3>2. q.op.kind = "kv2_secret"
      BY <1>3, <2>2, <3>1, SameKind, PlanFacts DEF TypeOK
    <3>3. Fresh(q.was, t)
      BY <1>3, OpFacts DEF FreshInv, UnderWay
    <3>4. q.was.version \in Nat /\ store[t].version \in Nat
      BY <3>1 DEF ObjectType
    <3>5. store[t].version = q.was.version \/ store[t].version = 0
      BY <1>3, <3>2, KindFacts DEF Writes, Accepted
    <3>6. store[t] = q.was
      BY <3>3, <3>4, <3>5 DEF Fresh
    <3>7. blind' = blind
      BY <1>3, <3>6, WriteFacts
    <3> QED BY <1>3, <3>7 DEF SecretsNeverOverwrittenBlind
  <2> QED BY <2>1, <2>2
<1>4. CASE \E q : UnderWay(q) /\ Writes(q)
  BY <1>1, <1>3, <1>4 DEF SecretsNeverOverwrittenBlind
<1> QED BY <1>2, <1>4, StoreMoves

\* Check-and-set protects every KV v2 secret, with or without the lock and for
\* any number of calls and writers: the version of a secret determines its state,
\* so a write whose version matches overwrites what the call has read.
THEOREM SecretsAreGuarded == Spec => []SecretsNeverOverwrittenBlind
<1> DEFINE I == TypeOK /\ PhaseInv /\ FreshInv /\ SecretsNeverOverwrittenBlind
<1>1. Init => I
  <2> SUFFICES ASSUME Init PROVE I OBVIOUS
  <2>1. TypeOK /\ PhaseInv
    BY InitType
  <2>2. FreshInv /\ SecretsNeverOverwrittenBlind
    BY DEF Init, FreshInv, SecretsNeverOverwrittenBlind
  <2> QED BY <2>1, <2>2
<1>2. I /\ [Next]_vars => I'
  BY NextTypeOK, PhasePreserved, FreshPreserved, SecretsPreserved
<1>3. I => SecretsNeverOverwrittenBlind
  OBVIOUS
<1> QED BY <1>1, <1>2, <1>3, PTL DEF Spec

-----------------------------------------------------------------------------
(* What a report says. *)

\* An accepted write leaves its operation satisfied and no other target changed.
LEMMA WriteSatisfies ==
  ASSUME TypeOK, NEW q, Writes(q)
  PROVE  /\ Satisfied(q.op, store')
         /\ \A op : op.target # q.op.target /\ op.target \in TargetsOf(plan) =>
              store'[op.target] = store[op.target]
<1> DEFINE t == q.op.target
<1>1. /\ store' = [store EXCEPT ![t] = store'[t]] /\ t \in TargetsOf(plan)
      /\ store'[t].exists = TRUE /\ FieldsMatch(q.op, store'[t])
      /\ q.op.kind # "kv2_secret" => store'[t].override = FALSE
  BY WriteFacts
<1>2. q.op.kind \in GuardedKinds => q.op.kind # "kv2_secret"
  BY KindFacts
<1>3. ~HasOverride(q.op, store'[t])
  BY <1>1, <1>2, Zenon DEF HasOverride
<1>4. Satisfied(q.op, store')
  BY <1>1, <1>3, Zenon DEF Satisfied, matches_desired
<1>5. \A u \in TargetsOf(plan) : u # t => store'[u] = store[u]
  BY <1>1 DEF TypeOK
<1> QED BY <1>4, <1>5

\* What a call waits for is a request of the plan.
LEMMA RequestWrites ==
  ASSUME TypeOK, PhaseInv, NEW r \in Runners, pc[r] \in {"create", "write"},
         Accepted(Request(r)), Apply(Request(r))
  PROVE  Writes(Request(r)) /\ UnderWay(Request(r))
<1>1. UnderWay(Request(r))
  BY DEF UnderWay
<1> QED BY <1>1, UnderWayFacts DEF Writes

LEMMA ReportHolds ==
  ASSUME TypeOK, PhaseInv, NEW r \in Runners, Mode[r] = "run",
         NEW status, Grounds(r, status)
  PROVE  Satisfied(Op(r), store')
<1>1. CASE UNCHANGED store /\ Satisfied(Op(r), store)
  BY <1>1
<1>2. CASE pc[r] \in {"create", "write"} /\ Accepted(Request(r)) /\ Apply(Request(r))
  BY <1>2, RequestWrites, WriteSatisfies, OpFacts
<1>3. CASE UNCHANGED store /\ Op(r).kind = "transit_key" /\ Object(r).exists
  BY <1>3 DEF Satisfied, Object
<1> QED BY <1>1, <1>2, <1>3 DEF Grounds

\* A report grows only by the status the call has grounds for.
LEMMA StepsMoves ==
  ASSUME TypeOK, PhaseInv, [Next]_vars, NEW r \in Runners, steps'[r] # steps[r]
  PROVE  /\ RunnerStep(r)
         /\ \E status \in Statuses :
              Active(r) /\ Report(r, status) /\ Grounds(r, status) /\ Counts(r) /\ late' = late
<1>1. CASE UNCHANGED vars \/ OutsideWrite \/ LateWriteLands
  BY <1>1 DEF vars, OutsideWrite, LateWriteLands
<1>2. ASSUME NEW x \in Runners, RunnerStep(x), x # r
      PROVE  FALSE
  BY <1>2, OthersKeep
<1>3. CASE RunnerStep(r)
  BY <1>3, RunnerCases DEF CallMoves, GoesOn, GivesUp
<1> QED BY <1>1, <1>2, <1>3 DEF Next, RunnerStep

\* Whoever else is writing: the state a run reports for a step is the server's
\* state when it answers the step's last request.
THEOREM ReportsHold == Spec => ReportedStateHolds
<1> DEFINE A ==
      \A r \in Runners :
        /\ Mode[r] = "run"
        /\ Len(steps'[r]) > Len(steps[r])
        => Satisfied(Op(r), store')
<1>1. TypeOK /\ PhaseInv /\ [Next]_vars => A
  <2> SUFFICES ASSUME TypeOK, PhaseInv, [Next]_vars, NEW r \in Runners,
                      Mode[r] = "run", Len(steps'[r]) > Len(steps[r])
               PROVE  Satisfied(Op(r), store')
    OBVIOUS
  <2>1. Len(steps[r]) \in Nat
    BY DEF TypeOK
  <2>2. steps'[r] # steps[r]
    BY <2>1
  <2> QED BY <2>2, StepsMoves, ReportHolds
<1>2. Init => TypeOK /\ PhaseInv
  BY InitType
<1>3. (TypeOK /\ PhaseInv) /\ [Next]_vars => (TypeOK /\ PhaseInv)'
  BY NextTypeOK, PhasePreserved
<1>4. TypeOK /\ PhaseInv /\ [Next]_vars => [A]_vars
  BY <1>1
<1> QED BY <1>2, <1>3, <1>4, PTL DEF Spec, ReportedStateHolds

-----------------------------------------------------------------------------
(* The lock. *)

\* Under the lock a call that is under way moves alone.
LEMMA Alone ==
  ASSUME TypeOK, PhaseInv, LockInv, Locked, NEW r \in Runners, Active(r),
         NEW x \in Runners, RunnerStep(x)
  PROVE  x = r
<1>1. r \in Nat /\ x \in Nat
  BY BootstrapAssumption
<1>2. CASE x < r
  <2>1. pc[x] = "done"
    BY <1>2 DEF LockInv, Active
  <2> QED BY <2>1, RunnerCases DEF CallMoves, Active
<1>3. CASE r < x
  <2>1. pc[x] = "idle"
    BY <1>3 DEF LockInv, Active
  <2>2. pc[r] = "done"
    BY <1>3, <2>1, RunnerCases DEF CallMoves, Active
  <2> QED BY <2>2 DEF Active
<1> QED BY <1>1, <1>2, <1>3

\* A call that ended has ended for good, and one not begun has to begin.
LEMMA EndsOnce ==
  ASSUME TypeOK, PhaseInv, [Next]_vars, NEW r \in Runners
  PROVE  /\ pc[r] = "done" =>
              /\ pc'[r] = "done" /\ result'[r] = result[r] /\ stamp'[r] = stamp[r]
              /\ steps'[r] = steps[r] /\ step'[r] = step[r]
         /\ pc'[r] = "idle" => pc[r] = "idle"
         /\ pc[r] = "idle" /\ pc'[r] # "idle" =>
              /\ RunnerStep(r) /\ pc'[r] = "read"
              /\ UNCHANGED <<store, step, steps, result, stamp>>
              /\ Locked => \A q \in Runners : q < r => pc[q] = "done"
<1>1. CASE UNCHANGED vars \/ OutsideWrite \/ LateWriteLands
  BY <1>1 DEF vars, OutsideWrite, LateWriteLands
<1>2. ASSUME NEW x \in Runners, RunnerStep(x), x # r
      PROVE  /\ pc'[r] = pc[r] /\ result'[r] = result[r] /\ stamp'[r] = stamp[r]
             /\ steps'[r] = steps[r] /\ step'[r] = step[r]
  BY <1>2, OthersKeep
<1>3. CASE RunnerStep(r)
  <2>1. ControlType
    BY TypeParts
  <2>2. CASE pc[r] = "idle"
    BY <1>3, <2>2, RunnerCases DEF CallMoves, Active
  <2>3. CASE pc[r] # "idle"
    <3>1. Active(r)
      BY <1>3, <2>3, RunnerCases DEF CallMoves
    <3>2. pc'[r] # "idle"
      BY <1>3, <2>1, <2>3, <3>1, RunnerCases, ReportFacts DEF CallMoves, GoesOn, GivesUp
    <3> QED BY <2>3, <3>1, <3>2 DEF Active
  <2> QED BY <2>2, <2>3
<1> QED BY <1>1, <1>2, <1>3 DEF Next, RunnerStep

LEMMA LockPreserved ==
  ASSUME TypeOK, PhaseInv, LockInv, [Next]_vars
  PROVE  LockInv'
<1>1. /\ UNCHANGED <<setup, plan>> /\ (Locked <=> Locked') /\ (LateWrites <=> LateWrites')
  BY Constant DEF Locked, LateWrites
<1>2. ASSUME Locked, NEW q \in Runners, NEW r \in Runners, q < r, pc'[r] # "idle"
      PROVE  pc'[q] = "done"
  <2>1. pc[q] = "done"
    BY <1>2, EndsOnce DEF LockInv
  <2> QED BY <2>1, EndsOnce
<1>3. ASSUME ~LateWrites PROVE late' = {}
  BY <1>3, LateMoves DEF LockInv
<1>4. ASSUME Locked, ~LateWrites, NEW r \in Runners
      PROVE  /\ pc'[r] # "recheck"
             /\ pc'[r] \in {"create", "write"} => seen'[r] = store'[Op(r)'.target]
  <2>1. CASE pc[r] \in {"idle", "done"}
    BY <2>1, EndsOnce
  <2>2. CASE Active(r)
    <3>1. CASE UNCHANGED vars \/ OutsideWrite \/ LateWriteLands
      <4>1. UNCHANGED <<pc, step, seen, store>>
        BY <1>4, <2>2, <3>1 DEF vars, OutsideWrite, LateWriteLands, LockInv, Active
      <4> QED BY <1>1, <1>4, <4>1 DEF LockInv, Op
    <3>2. CASE \E x \in Runners : RunnerStep(x)
      <4>1. RunnerStep(r)
        BY <1>4, <2>2, <3>2, Alone
      <4>2. ControlType /\ seen \in [Runners -> ObjectType]
        BY TypeParts DEF DataType
      <4>3. CASE GoesOn(r)
        <5>1. Op(r)' = Op(r)
          BY <1>1, <4>3 DEF GoesOn, Op
        <5>2. pc[r] = "create" => Accepted(Request(r))
          <6>1. SUFFICES ASSUME pc[r] = "create" PROVE Accepted(Request(r))
            OBVIOUS
          <6>2. ~store[Op(r).target].exists /\ Op(r).kind \in MountKinds \cup {"transit_key"}
            BY <1>4, <6>1 DEF LockInv, PhaseInv, Phase
          <6>3. Request(r).op = Op(r)
            BY DEF Request
          <6> QED BY <6>2, <6>3, KindFacts DEF Accepted
        <5> QED BY <4>2, <4>3, <5>1, <5>2 DEF GoesOn, Object
      <4>4. CASE \E status : Report(r, status)
        BY <4>2, <4>4, ReportFacts
      <4>5. CASE GivesUp(r)
        BY <4>5 DEF GivesUp
      <4> QED BY <2>2, <4>1, <4>3, <4>4, <4>5, RunnerCases DEF CallMoves, Active
    <3> QED BY <3>1, <3>2 DEF Next, RunnerStep
  <2> QED BY <2>1, <2>2 DEF Active
<1> QED BY <1>1, <1>2, <1>3, <1>4 DEF LockInv

LEMMA Lock ==
  /\ Init => TypeOK /\ PhaseInv /\ LockInv
  /\ (TypeOK /\ PhaseInv /\ LockInv) /\ [Next]_vars => (TypeOK /\ PhaseInv /\ LockInv)'
<1>1. Init => LockInv
  BY DEF Init, LockInv
<1> QED BY <1>1, InitType, NextTypeOK, PhasePreserved, LockPreserved

\* With the lock held and no write arriving late, nothing a run does touches a
\* document that carries an identity-template override: the run wrote only
\* where its read, still true, found none.
THEOREM OverridesKept == Spec => OverridesSurvive
<1> DEFINE A ==
      Locked /\ ~LateWrites /\ outside' = outside =>
        \A i \in 1 .. Len(plan) :
          LET t == plan[i].target IN
          plan[i].kind \in GuardedKinds /\ store[t].exists /\ store[t].override
            => store'[t] = store[t]
<1>1. (TypeOK /\ PhaseInv /\ LockInv) /\ [Next]_vars => [A]_vars
  <2> SUFFICES ASSUME TypeOK, PhaseInv, LockInv, [Next]_vars,
                      Locked, ~LateWrites, outside' = outside,
                      NEW i \in 1 .. Len(plan), plan[i].kind \in GuardedKinds,
                      store[plan[i].target].exists, store[plan[i].target].override
               PROVE  store'[plan[i].target] = store[plan[i].target]
    OBVIOUS
  <2> DEFINE t == plan[i].target
  <2>1. outside \in Nat /\ plan[i].kind # "credential" /\ i \in DOMAIN plan
    BY PlanFacts, KindFacts DEF TypeOK
  <2>5. t \in TargetsOf(plan)
    BY <2>1, PlanFacts DEF TypeOK, IsOp
  <2>2. ~OutsideWrite
    BY <2>1 DEF OutsideWrite
  <2>3. ASSUME NEW q, UnderWay(q), Writes(q), q.op.target = t
        PROVE  FALSE
    <3>1. PICK r \in Runners : pc[r] \in {"create", "write"} /\ q = Request(r)
      BY <2>3 DEF UnderWay, LockInv
    <3>2. /\ q.op = Op(r) /\ IsOp(Op(r)) /\ Op(r).kind # "credential"
          /\ seen[r] = store[t]
      BY <2>3, <3>1, OpFacts DEF LockInv, Writes
    <3>3. Op(r).kind = plan[i].kind
      BY <2>1, <2>3, <3>2, SameKind DEF TypeOK
    <3>4. pc[r] = "write"
      BY <3>1, <3>3, KindFacts DEF PhaseInv, Phase
    <3> QED BY <3>2, <3>3, <3>4 DEF PhaseInv, Phase, HasOverride
  <2>4. CASE \E q : UnderWay(q) /\ Writes(q)
    <3>1. PICK q : UnderWay(q) /\ Writes(q)
      BY <2>4
    <3>2. plan[i].target # q.op.target
      BY <2>3, <3>1
    <3> QED BY <2>5, <3>1, <3>2, WriteSatisfies
  <2> QED BY <2>2, <2>4, StoreMoves
<1> QED BY <1>1, Lock, PTL DEF Spec, OverridesSurvive

-----------------------------------------------------------------------------
(* Credentials. *)

LEMMA CredentialCount ==
  ASSUME plan \in Plans, NEW n \in 1 .. Len(plan)
  PROVE  /\ Cardinality(Credentials(n)) \in Nat /\ Cardinality(Credentials(n - 1)) \in Nat
         /\ Cardinality(Credentials(n)) = Cardinality(Credentials(n - 1))
                                          + IF plan[n].kind = "credential" THEN 1 ELSE 0
         /\ Cardinality(Credentials(0)) = 0
         /\ Cardinality(Credentials(n)) <= Cardinality(Credentials(Len(plan)))
<1>1. Len(plan) \in Nat /\ n \in Nat /\ n - 1 \in Nat /\ n # 0
  BY PlanFacts
<1>2. ASSUME NEW m \in Nat
      PROVE  IsFiniteSet(Credentials(m)) /\ Cardinality(Credentials(m)) \in Nat
  <2>1. IsFiniteSet(1 .. m)
    BY FS_Interval
  <2>2. Credentials(m) \subseteq 1 .. m
    BY DEF Credentials
  <2> QED BY <2>1, <2>2, FS_Subset, FS_CardinalityType
<1>3. ASSUME plan[n].kind = "credential"
      PROVE  Cardinality(Credentials(n)) = Cardinality(Credentials(n - 1)) + 1
  <2>1. Credentials(n) = Credentials(n - 1) \cup {n} /\ n \notin Credentials(n - 1)
    BY <1>1, <1>3 DEF Credentials
  <2> QED BY <1>1, <1>2, <2>1, FS_AddElement
<1>4. ASSUME plan[n].kind # "credential"
      PROVE  Cardinality(Credentials(n)) = Cardinality(Credentials(n - 1)) + 0
  <2>1. Credentials(n) = Credentials(n - 1)
    BY <1>1, <1>4 DEF Credentials
  <2> QED BY <1>1, <1>2, <2>1
<1>5. Cardinality(Credentials(0)) = 0
  <2>1. Credentials(0) = {}
    BY DEF Credentials
  <2> QED BY <2>1, FS_EmptySet
<1>6. Cardinality(Credentials(n)) <= Cardinality(Credentials(Len(plan)))
  <2>1. Credentials(n) \subseteq Credentials(Len(plan))
    BY <1>1 DEF Credentials
  <2> QED BY <1>1, <1>2, <2>1, FS_Subset
<1>7. Cardinality(Credentials(n)) \in Nat /\ Cardinality(Credentials(n - 1)) \in Nat
  BY <1>1, <1>2
<1> QED BY <1>3, <1>4, <1>5, <1>6, <1>7

LEMMA IssuedStep ==
  ASSUME TypeOK, PhaseInv, NEW r \in Runners, RunnerStep(r), Issued(r)
  PROVE  Issued(r)'
<1>1. /\ ControlType /\ ControlType' /\ plan \in Plans /\ setup' = setup /\ plan' = plan
      /\ issued \in [Runners -> Nat] /\ (Mode[r])' = Mode[r]
      /\ \A n : Credentials(n)' = Credentials(n)
  BY TypeParts, ControlStep, Moves DEF DataType, Mode, Credentials
<1> DEFINE c(n) == Cardinality(Credentials(n))
           new == IF plan[step[r]].kind = "credential" THEN 1 ELSE 0
<1>2. \A n : c(n)' = c(n)
  BY <1>1
<1>3. /\ step[r] \in 1 .. Len(plan) /\ step'[r] \in 1 .. Len(plan) /\ Len(plan) \in Nat
  BY <1>1, PlanFacts DEF ControlType
<1>4. /\ c(step[r]) \in Nat /\ c(step[r] - 1) \in Nat /\ c(step[r]) = c(step[r] - 1) + new
      /\ c(step'[r]) \in Nat /\ c(step'[r]) >= c(step'[r] - 1)
  <2>1. ASSUME NEW n \in 1 .. Len(plan)
        PROVE  /\ c(n) \in Nat /\ c(n - 1) \in Nat
               /\ c(n) = c(n - 1) + IF plan[n].kind = "credential" THEN 1 ELSE 0
    BY <1>1, CredentialCount
  <2> HIDE DEF c
  <2>2. \A n \in 1 .. Len(plan) : c(n) \in Nat /\ c(n - 1) \in Nat /\ c(n) >= c(n - 1)
    BY <2>1
  <2> QED BY <1>3, <2>1, <2>2
<1>5. pc[r] # "done"
  BY RunnerCases DEF CallMoves, Active
<1> HIDE DEF c
<1>6. CASE step'[r] = step[r] /\ issued'[r] = issued[r] /\ result'[r] # "Ok"
  BY <1>1, <1>2, <1>4, <1>5, <1>6 DEF Issued, c
<1>7. CASE step' = step /\ issued' = issued /\ result' = result
  <2>1. result[r] # "Ok"
    BY <1>1, <1>5 DEF ControlType
  <2> QED BY <1>6, <1>7, <2>1
<1>8. CASE \E status \in Statuses : /\ Active(r) /\ Report(r, status) /\ Grounds(r, status)
                                    /\ Counts(r)
  <2>1. pc[r] # "read" => Op(r).kind # "credential"
    BY <1>8, KindFacts DEF Active, PhaseInv, Phase, Grounds
  <2>2. issued'[r] = IF Mode[r] = "run" THEN issued[r] + new ELSE issued[r]
    BY <1>1, <1>8, <2>1 DEF Counts, Op
  <2>3. Mode[r] = "run" => issued'[r] = c(step[r])
    BY <1>4, <1>5, <2>2 DEF Issued, c
  <2>4. \/ step'[r] = step[r] /\ pc'[r] = "done"
        \/ step'[r] = step[r] + 1 /\ pc'[r] = "read"
    BY <1>1, <1>8, ReportFacts
  <2>5. pc'[r] # "done" => result'[r] # "Ok" /\ step'[r] - 1 = step[r]
    BY <1>1, <1>3, <2>4 DEF ControlType
  <2>6. Mode[r] = "run" => issued'[r] <= c(step'[r])
    BY <1>3, <1>4, <2>3, <2>4
  <2> QED BY <1>1, <1>2, <2>2, <2>3, <2>4, <2>5, <2>6 DEF Issued, c
<1>9. CASE GivesUp(r)
  <2>1. step'[r] = step[r] /\ pc'[r] = "done" /\ result'[r] # "Ok"
    BY <1>9 DEF GivesUp, Results
  <2>2. \/ issued'[r] = issued[r]
        \/ issued'[r] = issued[r] + new /\ Mode[r] = "run"
    BY <1>1, <1>9 DEF GivesUp, Op
  <2>3. Mode[r] = "run" => issued'[r] <= c(step'[r])
    BY <1>1, <1>4, <1>5, <2>1, <2>2 DEF Issued, c
  <2> QED BY <1>1, <1>2, <2>1, <2>2, <2>3 DEF Issued, c
<1> QED BY <1>7, <1>8, <1>9, RunnerCases DEF CallMoves, GoesOn

LEMMA IssuedPreserved ==
  ASSUME TypeOK, PhaseInv, IssuedInv, [Next]_vars
  PROVE  IssuedInv'
<1>1. UNCHANGED <<setup, plan>>
  BY Constant
<1>2. ASSUME NEW r \in Runners PROVE Issued(r)
  BY DEF IssuedInv, Issued
<1>3. ASSUME NEW r \in Runners, UNCHANGED <<pc[r], step[r], result[r], issued[r]>>
      PROVE  Issued(r)'
  BY <1>1, <1>2, <1>3 DEF Issued, Mode, Credentials
<1>4. CASE UNCHANGED vars \/ OutsideWrite \/ LateWriteLands
  <2>1. UNCHANGED <<pc, step, result, issued>>
    BY <1>4 DEF vars, OutsideWrite, LateWriteLands
  <2> QED BY <1>3, <2>1 DEF IssuedInv, Issued
<1>5. ASSUME NEW x \in Runners, RunnerStep(x), NEW r \in Runners
      PROVE  Issued(r)'
  BY <1>2, <1>3, <1>5, OthersKeep, IssuedStep
<1> QED BY <1>4, <1>5 DEF Next, RunnerStep, IssuedInv, Issued

\* A credential is issued at most once for each step that asks for one, none for
\* a preview, and all of them when a run ends well, however requests are lost.
THEOREM CredentialsIssuedOnce == Spec => []IssuedOnce
<1>1. Init => TypeOK /\ PhaseInv /\ IssuedInv
  <2> SUFFICES ASSUME Init PROVE TypeOK /\ PhaseInv /\ IssuedInv OBVIOUS
  <2>1. TypeOK /\ PhaseInv
    BY InitType
  <2>2. /\ Cardinality(Credentials(0)) = 0 /\ Cardinality(Credentials(1)) \in Nat
    BY <2>1, PlanFacts, CredentialCount DEF TypeOK
  <2> QED BY <2>1, <2>2 DEF Init, IssuedInv, Issued
<1>2. (TypeOK /\ PhaseInv /\ IssuedInv) /\ [Next]_vars => (TypeOK /\ PhaseInv /\ IssuedInv)'
  BY NextTypeOK, PhasePreserved, IssuedPreserved
<1>3. TypeOK /\ PhaseInv /\ IssuedInv => IssuedOnce
  <2> SUFFICES ASSUME TypeOK, IssuedInv, NEW r \in Runners
               PROVE  LET wanted == Cardinality(Credentials(Len(plan))) IN
                      /\ issued[r] <= wanted
                      /\ Mode[r] = "preview" => issued[r] = 0
                      /\ result[r] = "Ok" /\ Mode[r] = "run" => issued[r] = wanted
    BY DEF IssuedOnce, Credentials
  <2>1. /\ plan \in Plans /\ step[r] \in 1 .. Len(plan) /\ issued[r] \in Nat
        /\ Len(plan) \in 1 .. Len(plan)
    BY PlanFacts DEF TypeOK
  <2>2. /\ Cardinality(Credentials(step[r])) <= Cardinality(Credentials(Len(plan)))
        /\ Cardinality(Credentials(step[r])) \in Nat
        /\ Cardinality(Credentials(Len(plan))) \in Nat
    BY <2>1, CredentialCount
  <2>3. result[r] = "Ok" => step[r] = Len(plan)
    BY DEF TypeOK
  <2> QED BY <2>1, <2>2, <2>3 DEF IssuedInv, Issued
<1> QED BY <1>1, <1>2, <1>3, PTL DEF Spec

-----------------------------------------------------------------------------
(* Convergence. *)

\* How a reported status is recorded.
LEMMA Recorded ==
  ASSUME TypeOK, NEW r \in Runners, pc[r] # "done", NEW status, Report(r, status)
  PROVE  /\ \A i \in 1 .. step[r] - 1 : steps'[r][i] = steps[r][i]
         /\ steps'[r][step[r]] = status
         /\ \/ /\ step[r] = Len(plan) /\ step'[r] = step[r]
               /\ pc'[r] = "done" /\ result'[r] = "Ok" /\ stamp'[r] = outside
            \/ /\ step[r] # Len(plan) /\ step'[r] = step[r] + 1
               /\ pc'[r] = "read" /\ result'[r] = "none" /\ stamp'[r] = stamp[r]
<1>1. ControlType
  BY TypeParts
<1>2. result[r] = "none"
  BY <1>1 DEF ControlType
<1>3. steps[r] \in Seq(Statuses) /\ Len(steps[r]) = step[r] - 1 /\ step[r] \in Nat
  BY <1>1, <1>2, PlanFacts DEF ControlType, TypeOK
<1>4. steps'[r] = Append(steps[r], status)
  BY <1>1, ReportFacts
<1>5. /\ \A i \in 1 .. step[r] - 1 : Append(steps[r], status)[i] = steps[r][i]
      /\ Append(steps[r], status)[step[r]] = status
  BY <1>3
<1> QED BY <1>1, <1>2, <1>4, <1>5, ReportFacts

\* Writes of a plan that names every target once leave what is satisfied, and
\* what the other operations will report.
LEMMA WriteKeeps ==
  ASSUME TypeOK, NamedOnce(plan), NEW q, Writes(q), NEW i \in DOMAIN plan
  PROVE  /\ q.op # plan[i] => Forecast(plan[i], store') = Forecast(plan[i], store)
         /\ Satisfied(plan[i], store) => Satisfied(plan[i], store')
<1>1. PICK j \in DOMAIN plan : q.op = plan[j]
  BY DEF Writes, IsOp
<1>2. CASE plan[i].kind = "credential"
  BY <1>2 DEF Forecast, Satisfied
<1>3. CASE plan[i].kind # "credential" /\ i # j
  <2>1. plan[i].target # q.op.target
    BY <1>1, <1>3 DEF NamedOnce, Writes
  <2>2. plan[i].target \in TargetsOf(plan)
    BY <1>3, PlanFacts DEF TypeOK, IsOp
  <2>3. store'[plan[i].target] = store[plan[i].target]
    BY <2>1, <2>2, WriteSatisfies
  <2> QED BY <1>3, <2>3 DEF Forecast, Satisfied
<1>4. CASE i = j
  BY <1>1, <1>4, WriteSatisfies
<1> QED BY <1>2, <1>3, <1>4

LEMMA ForecastKept ==
  ASSUME TypeOK, NamedOnce(plan), NEW q, Writes(q), NEW i \in DOMAIN plan,
         NEW j \in DOMAIN plan, q.op = plan[j], i # j
  PROVE  Forecast(plan[i], store') = Forecast(plan[i], store)
<1>1. CASE plan[i].kind = "credential"
  BY <1>1 DEF Forecast
<1>2. CASE plan[i].kind # "credential"
  <2>1. q.op # plan[i]
    BY <1>2 DEF NamedOnce
  <2> QED BY <2>1, WriteKeeps
<1> QED BY <1>1, <1>2

LEMMA KeepsSatisfied ==
  ASSUME TypeOK, PhaseInv, NamedOnce(plan), [Next]_vars, outside' = outside,
         NEW i \in DOMAIN plan, Satisfied(plan[i], store)
  PROVE  Satisfied(plan[i], store')
<1>1. CASE OutsideWrite
  BY <1>1 DEF OutsideWrite, TypeOK
<1>2. CASE UNCHANGED store
  BY <1>2
<1> QED BY <1>1, <1>2, StoreMoves, WriteKeeps

\* An outside writer is counted, and the lock keeps it out while a call is under
\* way.
LEMMA OutsideMoves ==
  ASSUME TypeOK, PhaseInv, [Next]_vars
  PROVE  /\ outside \in Nat /\ outside' \in Nat
         /\ \A r \in Runners : stamp[r] \in Nat /\ stamp[r] <= outside
         /\ \/ outside' = outside
            \/ /\ outside' = outside + 1 /\ UNCHANGED <<pc, step, steps, result, stamp>>
               /\ Locked => \A r \in Runners : ~Active(r)
<1>1. /\ outside \in Nat /\ \A r \in Runners : stamp[r] \in Nat /\ stamp[r] <= outside
  BY DEF TypeOK
<1>2. CASE OutsideWrite
  BY <1>1, <1>2 DEF OutsideWrite, Active
<1>3. CASE ~OutsideWrite
  <2>1. outside' = outside
    BY <1>3, Moves DEF Next, RunnerStep, LateWriteLands, vars
  <2> QED BY <1>1, <2>1
<1> QED BY <1>2, <1>3

\* A call that has just ended well reported its last step.
LEMMA JustEnded ==
  ASSUME TypeOK, PhaseInv, [Next]_vars, NEW r \in Runners,
         pc[r] # "done", pc'[r] = "done"
  PROVE  /\ Active(r) /\ RunnerStep(r) /\ outside' = outside /\ stamp'[r] = outside
         /\ \/ GivesUp(r)
            \/ /\ result'[r] = "Ok" /\ step[r] = Len(plan) /\ step'[r] = step[r]
               /\ \E status \in Statuses : Report(r, status) /\ Grounds(r, status)
<1>1. CASE UNCHANGED vars \/ OutsideWrite \/ LateWriteLands
  BY <1>1 DEF vars, OutsideWrite, LateWriteLands
<1>2. ASSUME NEW x \in Runners, RunnerStep(x), x # r
      PROVE  FALSE
  BY <1>2, OthersKeep
<1>3. CASE RunnerStep(r)
  <2>1. /\ outside' = outside
        /\ \/ Active(r) /\ GivesUp(r)
           \/ \E status \in Statuses : Active(r) /\ Report(r, status) /\ Grounds(r, status)
    BY <1>3, Moves, RunnerCases DEF CallMoves, GoesOn
  <2>2. CASE GivesUp(r)
    BY <1>3, <2>1, <2>2 DEF GivesUp, Active
  <2>3. CASE \E status \in Statuses : Active(r) /\ Report(r, status) /\ Grounds(r, status)
    BY <1>3, <2>1, <2>3, Recorded
  <2> QED BY <2>1, <2>2, <2>3
<1> QED BY <1>1, <1>2, <1>3 DEF Next, RunnerStep

\* What holds of every operation when a run has just ended well.
LEMMA EndsConverged ==
  ASSUME TypeOK, PhaseInv, ConvergedInv, NamedOnce(plan), [Next]_vars,
         NEW r \in Runners, Mode[r] = "run", Locked \/ outside = 0,
         result[r] # "Ok", result'[r] = "Ok", NEW i \in DOMAIN plan
  PROVE  Satisfied(plan[i], store')
<1>1. TypeOK' /\ ControlType
  BY NextTypeOK, TypeParts
<1>2. pc'[r] = "done"
  BY <1>1 DEF TypeOK
<1>3. pc[r] # "done"
  BY <1>2, EndsOnce
<1>4. /\ Active(r) /\ outside' = outside /\ step[r] = Len(plan)
      /\ \E status \in Statuses : Grounds(r, status)
  BY <1>2, <1>3, JustEnded DEF GivesUp
<1>5. CASE i = step[r]
  BY <1>4, <1>5, ReportHolds DEF Op
<1>6. CASE i # step[r]
  <2>1. i \in 1 .. step[r] - 1
    BY <1>4, <1>6, PlanFacts DEF TypeOK
  <2> QED BY <1>4, <2>1, KeepsSatisfied DEF ConvergedInv
<1> QED BY <1>5, <1>6

LEMMA ConvergedPreserved ==
  ASSUME TypeOK, PhaseInv, ConvergedInv, [Next]_vars
  PROVE  ConvergedInv'
<1>1. /\ UNCHANGED <<setup, plan>> /\ Mode' = Mode /\ (Locked <=> Locked')
      /\ plan \in Plans /\ DOMAIN plan = 1 .. Len(plan) /\ Len(plan) \in Nat
      /\ \A i : Satisfied(plan[i], store)' <=> Satisfied(plan[i], store')
  BY Constant, PlanFacts DEF Mode, Locked, TypeOK, Satisfied, matches_desired, FieldsMatch,
     HasOverride
<1>2. ASSUME NamedOnce(plan), NEW r \in Runners, Mode[r] = "run", Active(r)',
             Locked \/ outside' = 0, NEW i \in 1 .. step'[r] - 1
      PROVE  Satisfied(plan[i], store')
  <2>1. outside' = outside
    BY <1>2, OutsideMoves DEF Active
  <2>2. step[r] \in 1 .. Len(plan) /\ step[r] \in Nat
    BY <1>1 DEF TypeOK
  <2>3. CASE pc[r] = "idle"
    <3>1. step'[r] = step[r] /\ step[r] = 1
      BY <1>2, <2>3, EndsOnce DEF Active, PhaseInv, Phase
    <3> QED BY <1>2, <3>1
  <2>4. CASE Active(r) /\ step'[r] = step[r]
    BY <1>1, <1>2, <2>1, <2>2, <2>4, KeepsSatisfied DEF ConvergedInv
  <2>5. CASE Active(r) /\ step'[r] # step[r]
    <3>1. steps'[r] # steps[r]
      <4>1. Len(steps[r]) = step[r] - 1
        BY <2>5, TypeParts DEF ControlType, Active
      <4>2. ControlType'
        BY NextTypeOK DEF TypeOK, ControlType
      <4>3. Len(steps'[r]) = step'[r] - 1 /\ step'[r] \in 1 .. Len(plan)
        BY <1>1, <1>2, <4>2 DEF ControlType, Active
      <4> QED BY <1>1, <2>2, <2>5, <4>1, <4>3
    <3>2. PICK status \in Statuses : Report(r, status) /\ Grounds(r, status)
      BY <3>1, StepsMoves
    <3>3. step'[r] = step[r] + 1
      BY <2>5, <3>2, Recorded DEF Active
    <3>4. CASE i = step[r]
      BY <1>2, <3>2, <3>4, ReportHolds DEF Op
    <3>5. CASE i \in 1 .. step[r] - 1
      BY <1>1, <1>2, <2>1, <2>2, <2>5, <3>5, KeepsSatisfied DEF ConvergedInv
    <3> QED BY <1>2, <2>2, <3>3, <3>4, <3>5
  <2> QED BY <1>2, <2>3, <2>4, <2>5, EndsOnce DEF Active
<1>3. ASSUME NamedOnce(plan), NEW r \in Runners, Mode[r] = "run", Locked,
             result'[r] = "Ok", stamp'[r] = outside', NEW i \in DOMAIN plan
      PROVE  Satisfied(plan[i], store')
  <2>1. CASE result[r] # "Ok"
    BY <1>3, <2>1, EndsConverged
  <2>2. CASE result[r] = "Ok"
    <3>1. pc[r] = "done" /\ stamp'[r] = stamp[r]
      BY <2>2, EndsOnce DEF TypeOK
    <3>2. outside' = outside
      BY <1>3, <3>1, OutsideMoves
    <3> QED BY <1>1, <1>3, <2>2, <3>1, <3>2, KeepsSatisfied DEF ConvergedInv
  <2> QED BY <2>1, <2>2
<1>4. NamedOnce(plan)' <=> NamedOnce(plan)
  BY <1>1
<1> QED BY <1>1, <1>2, <1>3, <1>4 DEF ConvergedInv

LEMMA InitConverged ==
  ASSUME Init
  PROVE  ConvergedInv
BY DEF Init, ConvergedInv, Active

\* A run that ends well has converged: a plan that names each target once is then
\* satisfied as a whole, for any number of racing runs and lost requests, as long
\* as nobody else writes, or the lock is held.
THEOREM Converges == Spec => ConvergedOnOk
<1> DEFINE I == TypeOK /\ PhaseInv /\ ConvergedInv
           A ==
      NamedOnce(plan) => \A r \in Runners :
        Ended(r) /\ result'[r] = "Ok" /\ Mode[r] = "run" /\ (Locked \/ outside = 0) =>
          \A i \in 1 .. Len(plan) : Satisfied(plan[i], store')
<1>1. Init => I
  BY InitType, InitConverged
<1>2. I /\ [Next]_vars => I'
  BY NextTypeOK, PhasePreserved, ConvergedPreserved
<1>3. I /\ [Next]_vars => [A]_vars
  BY EndsConverged, PlanFacts DEF Ended, TypeOK
<1> QED BY <1>1, <1>2, <1>3, PTL DEF Spec, ConvergedOnOk

-----------------------------------------------------------------------------
(* Running twice. *)

\* How the one call that moves under the lock got where it is.
LEMMA ActiveMoves ==
  ASSUME TypeOK, PhaseInv, LockInv, Locked, [Next]_vars, NEW q \in Runners, pc'[q] # "idle"
  PROVE  \/ /\ pc[q] = "idle" /\ pc'[q] = "read" /\ step'[q] = 1 /\ step[q] = 1
            /\ UNCHANGED store /\ \A r \in Runners : r < q => pc[r] = "done"
         \/ /\ pc[q] = "done" /\ pc'[q] = "done"
         \/ /\ Active(q)
            /\ \/ /\ UNCHANGED <<pc[q], step[q], steps[q], seen[q]>>
                  /\ UNCHANGED store \/ LateWrites
               \/ GoesOn(q)
               \/ \E status \in Statuses : Report(q, status) /\ Grounds(q, status)
               \/ GivesUp(q)
<1>1. CASE pc[q] = "idle"
  BY <1>1, EndsOnce DEF PhaseInv, Phase
<1>2. CASE pc[q] = "done"
  BY <1>2, EndsOnce
<1>3. CASE Active(q)
  <2>1. CASE \E x \in Runners : RunnerStep(x)
    <3>1. RunnerStep(q)
      BY <1>3, <2>1, Alone
    <3> QED BY <1>3, <3>1, RunnerCases DEF CallMoves, Active
  <2>2. CASE UNCHANGED vars \/ OutsideWrite \/ LateWriteLands
    BY <1>3, <2>2 DEF vars, OutsideWrite, LateWriteLands, LockInv, Active
  <2> QED BY <2>1, <2>2 DEF Next, RunnerStep
<1> QED BY <1>1, <1>2, <1>3 DEF Active

\* A run that finds its operation satisfied reports it without a change, or gets
\* no answer.
LEMMA FindsSatisfied ==
  ASSUME TypeOK, PhaseInv, NEW q \in Runners, pc[q] = "read", Satisfied(Op(q), store)
  PROVE  /\ ~GoesOn(q)
         /\ \A status : Grounds(q, status) =>
              status = IF Op(q).kind = "credential" THEN "Issued" ELSE "Unchanged"
         /\ GivesUp(q) => result'[q] = "Transport"
<1>1. ~GoesOn(q)
  <2>1. SUFFICES ASSUME GoesOn(q) PROVE FALSE
    OBVIOUS
  <2>2. Op(q).kind # "credential"
    BY <2>1, KindFacts DEF GoesOn
  <2>3. Object(q).exists /\ (Op(q).kind # "transit_key" => matches_desired(Op(q), Object(q)))
    BY <2>2 DEF Satisfied, Object
  <2> QED BY <2>1, <2>3, KindFacts DEF GoesOn
<1>2. ASSUME NEW status, Grounds(q, status)
      PROVE  status = IF Op(q).kind = "credential" THEN "Issued" ELSE "Unchanged"
  <2>1. status = Forecast(Op(q), store)
    BY <1>2 DEF Grounds
  <2> QED BY <2>1 DEF Forecast, Satisfied
<1> QED BY <1>1, <1>2 DEF GivesUp

LEMMA RerunPreserved ==
  ASSUME TypeOK, PhaseInv, LockInv, ConvergedInv, RerunInv, [Next]_vars
  PROVE  RerunInv'
<1>1. /\ UNCHANGED <<setup, plan>> /\ Mode' = Mode /\ (Locked <=> Locked')
      /\ plan \in Plans /\ DOMAIN plan = 1 .. Len(plan) /\ Len(plan) \in Nat
      /\ \A i : Idle(i)' = Idle(i)
  BY Constant, PlanFacts DEF Mode, Locked, TypeOK, Idle
<1>2. SUFFICES ASSUME NamedOnce(plan), Locked, NEW r \in Runners, NEW q \in Runners, r < q,
                      Mode[r] = "run", Mode[q] = "run", result'[r] = "Ok"
      PROVE  /\ Active(q)' /\ stamp'[r] = outside' =>
                  pc'[q] = "read" /\ \A i \in 1 .. step'[q] - 1 : steps'[q][i] = Idle(i)
             /\ pc'[q] = "done" /\ stamp'[q] = stamp'[r] =>
                  /\ result'[q] \in {"Ok", "Transport"}
                  /\ result'[q] = "Ok" => \A i \in 1 .. Len(plan) : steps'[q][i] = Idle(i)
  BY <1>1 DEF RerunInv
<1>3. TypeOK' /\ pc'[r] = "done"
  BY <1>2, NextTypeOK DEF TypeOK
<1>4. /\ step[q] \in 1 .. Len(plan) /\ step[q] \in Nat
  BY <1>1 DEF TypeOK
<1>5. CASE result[r] # "Ok"
  <2>1. pc[r] # "done"
    BY <1>2, <1>5, EndsOnce
  <2>2. RunnerStep(r) /\ pc[q] = "idle" /\ r # q
    BY <1>2, <1>3, <2>1, JustEnded, BootstrapAssumption DEF LockInv
  <2>3. pc'[q] = "idle"
    BY <2>2, OthersKeep
  <2> QED BY <2>3 DEF Active
<1>6. CASE result[r] = "Ok"
  <2>1. pc[r] = "done" /\ stamp'[r] = stamp[r]
    BY <1>6, EndsOnce DEF TypeOK
  <2>2. ASSUME stamp[r] = outside, NEW i \in DOMAIN plan
        PROVE  Satisfied(plan[i], store)
    BY <1>1, <1>2, <1>6, <2>2 DEF ConvergedInv
  <2>3. ASSUME Active(q), stamp[r] = outside
        PROVE  /\ pc[q] = "read" /\ \A i \in 1 .. step[q] - 1 : steps[q][i] = Idle(i)
               /\ ~GoesOn(q)
               /\ \A status : Grounds(q, status) => status = Idle(step[q])
               /\ GivesUp(q) => result'[q] = "Transport"
    <3>1. pc[q] = "read" /\ \A i \in 1 .. step[q] - 1 : steps[q][i] = Idle(i)
      BY <1>2, <1>6, <2>3 DEF RerunInv
    <3>2. Satisfied(Op(q), store)
      BY <1>1, <1>4, <2>2, <2>3 DEF Op
    <3>3. Idle(step[q]) = IF Op(q).kind = "credential" THEN "Issued" ELSE "Unchanged"
      BY DEF Idle, Op
    <3> QED BY <3>1, <3>2, <3>3, FindsSatisfied
  <2>4. ASSUME Active(q)', stamp'[r] = outside'
        PROVE  pc'[q] = "read" /\ \A i \in 1 .. step'[q] - 1 : steps'[q][i] = Idle(i)
    <3>1. stamp[r] = outside
      BY <2>1, <2>4, OutsideMoves
    <3>2. CASE pc[q] = "idle"
      BY <1>2, <2>4, <3>2, ActiveMoves DEF Active
    <3>3. CASE Active(q)
      <4>1. CASE UNCHANGED <<pc[q], step[q], steps[q]>>
        BY <2>3, <3>1, <3>3, <4>1
      <4>2. CASE \E status \in Statuses : Report(q, status) /\ Grounds(q, status)
        <5>1. PICK status \in Statuses : Report(q, status) /\ Grounds(q, status)
          BY <4>2
        <5>2. /\ \A i \in 1 .. step[q] - 1 : steps'[q][i] = Idle(i)
              /\ steps'[q][step[q]] = Idle(step[q])
              /\ step'[q] = step[q] + 1 /\ pc'[q] = "read"
          BY <2>3, <2>4, <3>1, <3>3, <5>1, Recorded DEF Active
        <5> QED BY <1>4, <5>2
      <4> QED BY <1>2, <2>3, <2>4, <3>1, <3>3, <4>1, <4>2, ActiveMoves DEF Active, GivesUp
    <3> QED BY <2>4, <3>2, <3>3, EndsOnce DEF Active
  <2>5. ASSUME pc'[q] = "done", stamp'[q] = stamp'[r]
        PROVE  /\ result'[q] \in {"Ok", "Transport"}
               /\ result'[q] = "Ok" => \A i \in 1 .. Len(plan) : steps'[q][i] = Idle(i)
    <3>1. CASE pc[q] = "done"
      <4>1. result'[q] = result[q] /\ stamp'[q] = stamp[q] /\ steps'[q] = steps[q]
        BY <3>1, EndsOnce
      <4> QED BY <1>2, <1>6, <2>1, <2>5, <3>1, <4>1 DEF RerunInv
    <3>2. CASE pc[q] # "done"
      <4>1. Active(q) /\ stamp[r] = outside
        BY <2>1, <2>5, <3>2, JustEnded
      <4>2. CASE GivesUp(q)
        BY <2>3, <4>1, <4>2
      <4>3. CASE /\ result'[q] = "Ok" /\ step[q] = Len(plan)
                 /\ \E status \in Statuses : Report(q, status) /\ Grounds(q, status)
        <5>1. PICK status \in Statuses : Report(q, status) /\ Grounds(q, status)
          BY <4>3
        <5>2. /\ \A i \in 1 .. step[q] - 1 : steps'[q][i] = Idle(i)
              /\ steps'[q][step[q]] = Idle(step[q])
          BY <2>3, <3>2, <4>1, <5>1, Recorded
        <5> QED BY <1>4, <4>3, <5>2
      <4> QED BY <2>5, <3>2, <4>2, <4>3, JustEnded
    <3> QED BY <3>1, <3>2
  <2> QED BY <2>4, <2>5
<1> QED BY <1>5, <1>6

\* What the properties of the calls rest on together.
IInv == TypeOK /\ PhaseInv /\ LockInv /\ ConvergedInv /\ RerunInv

LEMMA Invariance == Spec => []IInv
<1>1. Init => IInv
  <2> SUFFICES ASSUME Init PROVE IInv OBVIOUS
  <2>1. RerunInv
    BY DEF Init, RerunInv
  <2> QED BY <2>1, Lock, InitConverged DEF IInv
<1>2. IInv /\ [Next]_vars => IInv'
  BY Lock, ConvergedPreserved, RerunPreserved DEF IInv
<1> QED BY <1>1, <1>2, PTL DEF Spec

\* Bootstrap is idempotent: under the lock, a run after a successful one of the
\* same plan reports every step unchanged and succeeds, unless a request is lost.
THEOREM Idempotent == Spec => []RerunIsUnchanged
<1>1. IInv => RerunIsUnchanged
  <2> SUFFICES ASSUME IInv, NamedOnce(plan), NEW r \in Runners, NEW q \in Runners,
                      Locked, r < q, Mode[r] = "run", Mode[q] = "run",
                      result[r] = "Ok", result[q] \notin {"none", "Transport"},
                      stamp[q] = stamp[r]
               PROVE  result[q] = "Ok" /\ \A i \in 1 .. Len(plan) : steps[q][i] = Idle(i)
    BY DEF RerunIsUnchanged, Idle
  <2>1. pc[q] = "done"
    BY DEF IInv, TypeOK
  <2> QED BY <2>1 DEF IInv, RerunInv
<1> QED BY <1>1, Invariance, PTL

-----------------------------------------------------------------------------
(* Previews. *)

\* A preview reports the forecast and changes nothing.
LEMMA PreviewGrounds ==
  ASSUME PhaseInv, NEW p \in Runners, Mode[p] = "preview", NEW status, Grounds(p, status)
  PROVE  status = Forecast(Op(p), store) /\ UNCHANGED store
BY DEF PhaseInv, Phase, Grounds

\* A run that finds its operation unsatisfied takes the branch whose status the
\* preview gave.
LEMMA TracksGoesOn ==
  ASSUME TypeOK, PhaseInv, LockInv, Locked, ~LateWrites, NamedOnce(plan), [Next]_vars,
         NEW p \in Runners, NEW q \in Runners, p # q, Tracks(p, q), GoesOn(q)
  PROVE  Tracks(p, q)'
<1>1. /\ plan' = plan /\ DOMAIN plan = 1 .. Len(plan) /\ Len(plan) \in Nat
      /\ step[q] \in 1 .. Len(plan) /\ seen \in [Runners -> ObjectType]
      /\ step' = step /\ steps' = steps /\ Op(q)' = Op(q)
      /\ \A i : Forecast(plan[i], store)' = Forecast(plan[i], store')
  BY Constant, PlanFacts
  DEF TypeOK, GoesOn, Op, Forecast, Satisfied, matches_desired, FieldsMatch, HasOverride
<1>2. pc'[q] # "recheck"
  BY <1>1, LockPreserved, Constant DEF LockInv, Locked, LateWrites
<1>3. CASE pc[q] = "read" /\ UNCHANGED store
  <2>1. /\ seen'[q] = Object(q) /\ Op(q).kind # "credential"
        /\ steps[p][step[q]] = Forecast(Op(q), store)
    BY <1>1, <1>3, KindFacts DEF GoesOn, Tracks
  <2>2. CASE pc'[q] = "create"
    <3>1. Forecast(Op(q), store) = "Created"
      BY <1>3, <2>1, <2>2 DEF GoesOn, Forecast, Object
    <3> QED BY <1>1, <1>3, <2>1, <2>2, <3>1 DEF Tracks
  <2>3. CASE pc'[q] = "write"
    <3>1. Op(q).kind # "transit_key"
      BY <1>3, <2>3, KindFacts DEF GoesOn
    <3>2. Forecast(Op(q), store) = IF Object(q).exists THEN "Updated" ELSE "Created"
      BY <1>3, <2>1, <2>3, <3>1 DEF GoesOn, Forecast, Satisfied, Object
    <3> QED BY <1>1, <1>3, <2>1, <2>3, <3>2 DEF Tracks
  <2> QED BY <1>3, <2>2, <2>3 DEF GoesOn
<1>4. CASE pc[q] \in {"create", "write"} /\ pc'[q] \in {"confirm", "verify"}
  <2>1. Writes(Request(q)) /\ Request(q).op = plan[step[q]]
    <3>1. Apply(Request(q)) /\ Request(q).op = Op(q)
      BY <1>4, OpFacts DEF GoesOn
    <3>2. Accepted(Request(q))
      BY <1>4, <3>1, KindFacts DEF GoesOn, Accepted
    <3> QED BY <1>4, <3>1, <3>2, RequestWrites DEF Op
  <2>2. ASSUME NEW i \in step[q] + 1 .. Len(plan)
        PROVE  Forecast(plan[i], store') = Forecast(plan[i], store)
    <3>1. i \in DOMAIN plan /\ step[q] \in DOMAIN plan /\ i # step[q]
      BY <1>1
    <3> QED BY <2>1, <3>1, ForecastKept
  <2> QED BY <1>1, <1>4, <2>2 DEF GoesOn, Tracks
<1> QED BY <1>2, <1>3, <1>4 DEF GoesOn

\* A run that reports what the preview did goes on to track it, and when it has
\* reported its last step has reported all the preview did.
LEMMA TracksReport ==
  ASSUME TypeOK, PhaseInv, LockInv, Locked, ~LateWrites, NamedOnce(plan), [Next]_vars,
         NEW p \in Runners, NEW q \in Runners, steps'[p] = steps[p], Mode[q] = "run",
         Active(q), Tracks(p, q), NEW status, Report(q, status), Grounds(q, status)
  PROVE  /\ pc'[q] = "read" => Tracks(p, q)'
         /\ pc'[q] = "done" => \A i \in 1 .. Len(plan) : steps'[q][i] = steps[p][i]
<1>1. /\ plan' = plan /\ DOMAIN plan = 1 .. Len(plan) /\ Len(plan) \in Nat
      /\ step[q] \in 1 .. Len(plan)
      /\ \A i : Forecast(plan[i], store)' = Forecast(plan[i], store')
  BY Constant, PlanFacts
  DEF TypeOK, Forecast, Satisfied, matches_desired, FieldsMatch, HasOverride
<1>2. pc[q] # "recheck"
  BY DEF LockInv
<1>3. status = steps[p][step[q]]
  BY <1>2 DEF Grounds, Tracks
<1>4. /\ \A i \in 1 .. step[q] - 1 : steps'[q][i] = steps[q][i]
      /\ steps'[q][step[q]] = status
      /\ \/ step[q] = Len(plan) /\ pc'[q] = "done"
         \/ step'[q] = step[q] + 1 /\ pc'[q] = "read"
  BY Recorded DEF Active
<1>5. \A i \in 1 .. step[q] : steps'[q][i] = steps[p][i]
  BY <1>1, <1>3, <1>4 DEF Tracks
<1>6. ASSUME NEW i \in step[q] + 1 .. Len(plan)
      PROVE  steps[p][i] = Forecast(plan[i], store')
  <2>1. steps[p][i] = Forecast(plan[i], store)
    BY <1>6 DEF Tracks
  <2>2. CASE UNCHANGED store
    BY <2>1, <2>2
  <2>3. CASE pc[q] \in {"create", "write"} /\ Accepted(Request(q)) /\ Apply(Request(q))
    <3>1. Writes(Request(q)) /\ Request(q).op = plan[step[q]]
      BY <2>3, RequestWrites, OpFacts DEF Op
    <3>2. i \in DOMAIN plan /\ step[q] \in DOMAIN plan /\ i # step[q]
      BY <1>1
    <3> QED BY <2>1, <3>1, <3>2, ForecastKept
  <2> QED BY <2>2, <2>3 DEF Grounds
<1>7. ASSUME pc'[q] = "read" PROVE Tracks(p, q)'
  <2>1. step'[q] = step[q] + 1 /\ step'[q] \in step[q] + 1 .. Len(plan)
    <3>1. step'[q] \in 1 .. Len(plan)
      BY <1>1, NextTypeOK DEF TypeOK
    <3>2. step'[q] = step[q] + 1
      BY <1>4, <1>7
    <3> QED BY <1>1, <3>1, <3>2
  <2>2. Op(q)' = plan[step'[q]]
    BY <1>1 DEF Op
  <2> QED BY <1>1, <1>5, <1>6, <1>7, <2>1, <2>2 DEF Tracks
<1> QED BY <1>1, <1>4, <1>5, <1>7

LEMMA PreviewPreserved ==
  ASSUME TypeOK, PhaseInv, LockInv, PreviewInv, [Next]_vars
  PROVE  PreviewInv'
<1>1. /\ UNCHANGED <<setup, plan>> /\ Mode' = Mode /\ (Locked <=> Locked')
      /\ (LateWrites <=> LateWrites')
      /\ plan \in Plans /\ DOMAIN plan = 1 .. Len(plan) /\ Len(plan) \in Nat
      /\ \A i : Forecast(plan[i], store)' = Forecast(plan[i], store')
  BY Constant, PlanFacts DEF Mode, Locked, LateWrites, TypeOK, Forecast, Satisfied,
     matches_desired, FieldsMatch, HasOverride
<1> SUFFICES ASSUME NamedOnce(plan), Locked, ~LateWrites,
                    NEW p \in Runners, Mode[p] = "preview"
    PROVE
      /\ Active(p)' => \A i \in 1 .. step'[p] - 1 : steps'[p][i] = Forecast(plan[i], store')
      /\ /\ result'[p] = "Ok" /\ stamp'[p] = outside'
         /\ \A r \in Runners : p < r => pc'[r] = "idle"
         => \A i \in 1 .. Len(plan) : steps'[p][i] = Forecast(plan[i], store')
      /\ p + 1 \in Runners /\ Mode[p + 1] = "run" /\ result'[p] = "Ok" =>
           /\ Active(p + 1)' /\ stamp'[p] = outside' => Tracks(p, p + 1)'
           /\ result'[p + 1] = "Ok" /\ stamp'[p + 1] = stamp'[p] =>
                \A i \in 1 .. Len(plan) : steps'[p + 1][i] = steps'[p][i]
  BY <1>1 DEF PreviewInv
<1>2. TypeOK' /\ PhaseInv' /\ LockInv' /\ p \in Nat
  BY NextTypeOK, PhasePreserved, LockPreserved, BootstrapAssumption
<1>3. step[p] \in 1 .. Len(plan)
  BY DEF TypeOK
<1>4. ASSUME Active(p), NEW status, Report(p, status), Grounds(p, status)
      PROVE  /\ UNCHANGED store
             /\ \A i \in 1 .. step[p] : steps'[p][i] = Forecast(plan[i], store)
  <2>1. status = Forecast(plan[step[p]], store) /\ UNCHANGED store
    BY <1>4, PreviewGrounds DEF Op
  <2>2. /\ \A i \in 1 .. step[p] - 1 : steps'[p][i] = steps[p][i]
        /\ steps'[p][step[p]] = status
    BY <1>4, Recorded DEF Active
  <2> QED BY <1>1, <1>3, <1>4, <2>1, <2>2 DEF PreviewInv
<1>5. ASSUME Active(p)', NEW i \in 1 .. step'[p] - 1
      PROVE  steps'[p][i] = Forecast(plan[i], store')
  <2>1. CASE pc[p] = "idle"
    BY <1>5, <2>1, ActiveMoves DEF Active
  <2>2. CASE Active(p) /\ UNCHANGED <<step[p], steps[p]>> /\ UNCHANGED store
    BY <1>5, <2>2 DEF PreviewInv
  <2>3. CASE Active(p) /\ \E status \in Statuses : Report(p, status) /\ Grounds(p, status)
    <3>1. step'[p] = step[p] + 1
      BY <1>5, <2>3, Recorded DEF Active
    <3> QED BY <1>3, <1>4, <1>5, <2>3, <3>1
  <2>4. ~GoesOn(p) /\ (GivesUp(p) => pc'[p] = "done")
    BY DEF GoesOn, GivesUp
  <2> QED BY <1>5, <2>1, <2>2, <2>3, <2>4, ActiveMoves DEF Active
<1>6. ASSUME result'[p] = "Ok", stamp'[p] = outside',
             \A r \in Runners : p < r => pc'[r] = "idle", NEW i \in 1 .. Len(plan)
      PROVE  steps'[p][i] = Forecast(plan[i], store')
  <2>1. \A r \in Runners : p < r => pc[r] = "idle"
    BY <1>6, EndsOnce
  <2>2. pc'[p] = "done"
    BY <1>2, <1>6 DEF TypeOK
  <2>3. CASE pc[p] = "done"
    <3>1. result[p] = "Ok" /\ stamp'[p] = stamp[p] /\ steps'[p] = steps[p] /\ outside' = outside
      BY <1>6, <2>3, EndsOnce, OutsideMoves
    <3>2. ASSUME NEW x \in Runners, RunnerStep(x) PROVE FALSE
      <4>1. pc[x] # "done"
        BY <3>2, RunnerCases DEF CallMoves, Active
      <4>2. x \in Nat /\ ~(x < p)
        BY <2>3, <4>1, BootstrapAssumption DEF LockInv
      <4>3. pc[x] = "idle" /\ pc'[x] = "idle"
        BY <1>2, <1>6, <2>1, <2>3, <4>1, <4>2
      <4> QED BY <3>2, <4>3, RunnerCases DEF CallMoves, Active
    <3>3. UNCHANGED store
      BY <3>1, <3>2 DEF Next, RunnerStep, OutsideWrite, LateWriteLands, LockInv, vars, TypeOK
    <3> QED BY <1>6, <2>1, <3>1, <3>3 DEF PreviewInv
  <2>4. CASE pc[p] # "done"
    <3>1. /\ Active(p) /\ step[p] = Len(plan)
          /\ \E status \in Statuses : Report(p, status) /\ Grounds(p, status)
      BY <1>6, <2>2, <2>4, JustEnded DEF GivesUp
    <3> QED BY <1>4, <3>1
  <2> QED BY <2>3, <2>4
<1>7. ASSUME p + 1 \in Runners, Mode[p + 1] = "run", result'[p] = "Ok"
      PROVE  /\ Active(p + 1)' /\ stamp'[p] = outside' => Tracks(p, p + 1)'
             /\ result'[p + 1] = "Ok" /\ stamp'[p + 1] = stamp'[p] =>
                  \A i \in 1 .. Len(plan) : steps'[p + 1][i] = steps'[p][i]
  <2> DEFINE q == p + 1
  <2>1. q \in Runners /\ p # q /\ p < q /\ \A r \in Runners : p < r /\ r # q => q < r
    BY <1>2, <1>7, BootstrapAssumption
  <2>2. pc'[p] = "done" /\ (result'[q] = "Ok" => pc'[q] = "done")
    BY <1>2, <1>7, <2>1 DEF TypeOK
  <2>3. step[q] \in 1 .. Len(plan)
    BY <2>1 DEF TypeOK
  <2> HIDE DEF q
  <2>4. CASE pc[p] # "done"
    <3>1. RunnerStep(p) /\ pc[q] = "idle"
      BY <2>1, <2>2, <2>4, JustEnded DEF LockInv
    <3>2. pc'[q] = "idle"
      BY <2>1, <3>1, OthersKeep
    <3> QED BY <2>2, <3>2 DEF Active, q
  <2>5. CASE pc[p] = "done"
    <3>1. result[p] = "Ok" /\ stamp'[p] = stamp[p] /\ steps'[p] = steps[p]
      BY <1>7, <2>5, EndsOnce
    <3>2. Active(q) /\ stamp[p] = outside => Tracks(p, q)
      BY <1>7, <2>1, <3>1 DEF PreviewInv, q
    <3>3. ASSUME Active(q)', stamp'[p] = outside' PROVE Tracks(p, q)'
      <4>1. stamp[p] = outside /\ pc'[q] \notin {"idle", "done"}
        BY <3>1, <3>3, OutsideMoves DEF Active
      <4>2. CASE pc[q] = "idle"
        <5>1. \A r \in Runners : p < r => pc[r] = "idle"
          BY <2>1, <4>2 DEF LockInv
        <5>2. \A i \in 1 .. Len(plan) : steps[p][i] = Forecast(plan[i], store)
          BY <3>1, <4>1, <5>1 DEF PreviewInv
        <5>3. UNCHANGED store /\ step'[q] = 1 /\ pc'[q] = "read" /\ step[q] = 1
          BY <2>1, <4>1, <4>2, ActiveMoves DEF Active
        <5>4. Op(q)' = plan[1]
          BY <1>1, <5>3 DEF Op
        <5> QED BY <1>1, <2>3, <3>1, <5>2, <5>3, <5>4 DEF Tracks
      <4>3. CASE Active(q) /\ UNCHANGED <<pc[q], step[q], steps[q], seen[q]>> /\ UNCHANGED store
        <5>1. Op(q)' = Op(q)
          BY <1>1, <4>3 DEF Op
        <5> QED BY <1>1, <3>1, <3>2, <4>1, <4>3, <5>1 DEF Tracks
      <4>4. CASE Active(q) /\ GoesOn(q)
        BY <2>1, <3>2, <4>1, <4>4, TracksGoesOn
      <4>5. CASE Active(q) /\ \E status \in Statuses : Report(q, status) /\ Grounds(q, status)
        <5>1. pc'[q] = "read"
          BY <2>1, <4>1, <4>5, Recorded DEF Active
        <5> QED BY <1>7, <2>1, <3>1, <3>2, <4>1, <4>5, <5>1, TracksReport DEF q
      <4> QED BY <2>1, <4>1, <4>2, <4>3, <4>4, <4>5, ActiveMoves DEF GivesUp
    <3>4. ASSUME result'[q] = "Ok", stamp'[q] = stamp'[p], NEW i \in 1 .. Len(plan)
          PROVE  steps'[q][i] = steps'[p][i]
      <4>1. CASE pc[q] = "done"
        <5>1. result[q] = "Ok" /\ stamp'[q] = stamp[q] /\ steps'[q] = steps[q]
          BY <2>1, <3>4, <4>1, EndsOnce
        <5> QED BY <1>7, <3>1, <3>4, <5>1 DEF PreviewInv, q
      <4>2. CASE pc[q] # "done"
        <5>1. /\ Active(q) /\ stamp'[q] = outside /\ pc'[q] = "done"
              /\ \E status \in Statuses : Report(q, status) /\ Grounds(q, status)
          BY <2>1, <2>2, <3>4, <4>2, JustEnded DEF GivesUp
        <5>2. Tracks(p, q)
          BY <3>1, <3>2, <3>4, <5>1
        <5> QED BY <1>7, <2>1, <3>1, <5>1, <5>2, TracksReport DEF q
      <4> QED BY <4>1, <4>2
    <3> QED BY <3>3, <3>4 DEF q
  <2> QED BY <2>4, <2>5
<1> QED BY <1>5, <1>6, <1>7

\* A preview is honest: the run that comes next under the lock, if it succeeds and
\* nobody else has written, reports step for step what the preview said.
THEOREM PreviewsPredict == Spec => []PreviewPredictsSuccess
<1> DEFINE I == TypeOK /\ PhaseInv /\ LockInv /\ PreviewInv
<1>1. Init => I
  <2> SUFFICES ASSUME Init PROVE I OBVIOUS
  <2>1. PreviewInv
    BY DEF Init, PreviewInv, Active
  <2> QED BY <2>1, Lock
<1>2. I /\ [Next]_vars => I'
  BY Lock, PreviewPreserved
<1>3. I => PreviewPredictsSuccess
  <2> SUFFICES ASSUME I, NamedOnce(plan), NEW p \in Runners, Locked, ~LateWrites,
                      Mode[p] = "preview", p + 1 \in Runners, Mode[p + 1] = "run",
                      result[p] = "Ok", result[p + 1] = "Ok", stamp[p] = stamp[p + 1]
               PROVE  steps[p] = steps[p + 1]
    BY DEF PreviewPredictsSuccess
  <2>1. \A i \in 1 .. Len(plan) : steps[p + 1][i] = steps[p][i]
    BY DEF PreviewInv
  <2>2. /\ steps[p] \in Seq(Statuses) /\ steps[p + 1] \in Seq(Statuses)
        /\ Len(steps[p]) = Len(plan) /\ Len(steps[p + 1]) = Len(plan)
    BY DEF TypeOK
  <2> QED BY <2>1, <2>2
<1> QED BY <1>1, <1>2, <1>3, PTL DEF Spec
=============================================================================
