---------------------------- MODULE AdminBootstrap ----------------------------
(***************************************************************************)
(* AdminBootstrap::run and ::preview of src/src/bootstrap.rs: a plan of      *)
(* idempotent read-compare-write steps, run by one or several operators      *)
(* against one OpenBao server, with other administrators writing too.        *)
(*                                                                          *)
(* One request of a step is one action: the server's handling of it and the  *)
(* branch the code takes on its answer.  The server is external; it is what  *)
(* the code relies on: mounts and auth methods are refused when the path is   *)
(* taken, documents (policies and roles) are replaced whole, and KV v2        *)
(* writes obey check-and-set.                                                 *)
(***************************************************************************)
EXTENDS Integers, Sequences, FiniteSets

CONSTANTS
  Runners,       \* 1 .. n: calls of run or preview, numbered in the order an
                 \* external lock would admit them
  Setups,        \* how a run is set up: what each runner does, whether they
                 \* hold the lock, whether writes may arrive late
  Plans,         \* the plans considered, sequences of operations
  Objects,       \* what a target may hold at first or by another writer's hand
  Fields, Values, \* the settings of an object, and what each may be
  Default,       \* the server's value of a setting a write leaves out
  MaxOutside,    \* bound: writes by other administrators
  MaxFailures    \* bound: requests that fail without an answer

MountKinds == {"mount", "auth"}

\* Documents that can carry identity-template overrides, and those that cannot.
GuardedKinds == {"policy", "pki_role", "ssh_role"}

PlainKinds == {"database_role", "static_role", "identity", "approle_role"}

DocumentKinds == GuardedKinds \cup PlainKinds

Kinds == MountKinds \cup DocumentKinds \cup {"transit_key", "kv2_secret", "credential"}

\* What an operation asks for: values of some of the settings.
Wants == UNION {[S -> Values] : S \in SUBSET Fields}

\* What a target holds: whether there is anything, whether it carries a foreign
\* override, how often it was written, and its settings.
ObjectType ==
  [exists : BOOLEAN, override : BOOLEAN, version : Nat, fields : [Fields -> Values]]

\* Calls are numbered.  A target is a place of one kind: paths of different
\* kinds do not meet.  A plan without operations makes no request and is left
\* out.
ASSUME BootstrapAssumption ==
  /\ Runners \subseteq Nat
  /\ MaxOutside \in Nat /\ MaxFailures \in Nat
  /\ Default \in Values
  /\ Objects \subseteq ObjectType /\ Objects # {}
  /\ \A s \in Setups : s.mode \in [Runners -> {"run", "preview", "none"}]
  /\ \A p \in Plans :
       /\ Len(p) \in Nat \ {0} /\ DOMAIN p = 1 .. Len(p)
       /\ \A i \in DOMAIN p : p[i].kind \in Kinds /\ p[i].want \in Wants
       /\ \A i, j \in DOMAIN p :
            /\ p[i].kind # "credential" /\ p[j].kind # "credential"
            /\ p[i].target = p[j].target
            => p[i].kind = p[j].kind

VARIABLES
  setup,         \* the member of Setups this behaviour is about; never changes
  plan,          \* AdminBootstrap::operations
  store,         \* the server: target -> object
  pc, step,      \* each runner's next request, and the index of its operation
  seen,          \* what its last read returned
  steps,         \* BootstrapReport::steps, the statuses only
  result,        \* how the call ended
  issued,        \* credentials the server created for the runner
  late,          \* writes given up by their callers and still under way
  outside, failures,
  stamp,         \* history: value of outside when the runner ended
  blind          \* history: targets overwritten in a state the writer had not read

vars == <<setup, plan, store, pc, step, seen, steps, result, issued, late, outside,
          failures, stamp, blind>>

-----------------------------------------------------------------------------
(* The calls and their circumstances.                                        *)

\* What runner r does: "run", "preview", or "none" when there is no such call.
Mode == setup.mode

\* The external mutual exclusion the docs ask for.
Locked == setup.locked

\* A write given up by its caller may still arrive later.
LateWrites == setup.late

(* Operations.  An operation names its target and the settings it supplies;  *)
(* settings it leaves out are not compared (is_none_or, vec_empty_or_equal).  *)

TargetsOf(p) == {p[i].target : i \in {j \in DOMAIN p : p[j].kind # "credential"}}

Op(r) == plan[step[r]]

Object(r) == store[Op(r).target]

FieldsMatch(op, obj) == \A f \in DOMAIN op.want : obj.fields[f] = op.want[f]

HasOverride(op, obj) == op.kind \in GuardedKinds /\ obj.override

matches_desired(op, obj) == FieldsMatch(op, obj) /\ ~HasOverride(op, obj)

\* The server replaces a document: settings left out fall back to defaults.
Replaced(op, obj) ==
  [exists |-> TRUE, override |-> FALSE, version |-> obj.version + 1,
   fields |-> [f \in Fields |-> IF f \in DOMAIN op.want THEN op.want[f] ELSE Default]]

\* A KV v2 patch merges: keys the plan does not mention are preserved.
Merged(op, obj) ==
  [obj EXCEPT !.version = @ + 1,
              !.fields = [f \in Fields |-> IF f \in DOMAIN op.want THEN op.want[f] ELSE @[f]]]

-----------------------------------------------------------------------------
Init ==
  /\ setup \in Setups
  /\ plan \in Plans
  /\ store \in [TargetsOf(plan) -> Objects]
  /\ pc = [r \in Runners |-> "idle"]
  /\ step = [r \in Runners |-> 1]
  /\ seen = [r \in Runners |-> CHOOSE o \in Objects : TRUE]
  /\ steps = [r \in Runners |-> <<>>]
  /\ result = [r \in Runners |-> "none"]
  /\ issued = [r \in Runners |-> 0]
  /\ late = {}
  /\ outside = 0
  /\ failures = 0
  /\ stamp = [r \in Runners |-> 0]
  /\ blind = {}

Goto(r, l) ==
  /\ pc' = [pc EXCEPT ![r] = l]
  /\ UNCHANGED <<step, steps, result, stamp>>

\* Any error ends the call; the report gathered so far is lost with it.
Fail(r, e) ==
  /\ pc' = [pc EXCEPT ![r] = "done"]
  /\ result' = [result EXCEPT ![r] = e]
  /\ stamp' = [stamp EXCEPT ![r] = outside]
  /\ UNCHANGED <<step, steps>>

\* The step's status is reported and the next operation begins.
Report(r, status) ==
  /\ steps' = [steps EXCEPT ![r] = Append(@, status)]
  /\ IF step[r] = Len(plan)
     THEN /\ pc' = [pc EXCEPT ![r] = "done"]
          /\ result' = [result EXCEPT ![r] = "Ok"]
          /\ stamp' = [stamp EXCEPT ![r] = outside]
          /\ UNCHANGED step
     ELSE /\ step' = [step EXCEPT ![r] = @ + 1]
          /\ pc' = [pc EXCEPT ![r] = "read"]
          /\ UNCHANGED <<result, stamp>>

Start(r) ==
  /\ pc[r] = "idle"
  /\ Mode[r] # "none"
  /\ Locked => \A q \in Runners : q < r => pc[q] = "done"
  /\ Goto(r, "read")
  /\ UNCHANGED <<setup, plan, store, seen, issued, late, outside, failures, blind>>

Reading(r, kinds) == pc[r] = "read" /\ Op(r).kind \in kinds

Remember(r) ==
  /\ seen' = [seen EXCEPT ![r] = Object(r)]
  /\ UNCHANGED <<setup, plan, store, issued, late, outside, failures, blind>>

(* The read of a step.  A preview compares and reports; it never goes on.     *)

Would(r, status) == Mode[r] = "preview" /\ Report(r, status)

Then(r, l) == Mode[r] = "run" /\ Goto(r, l)

\* Mutant of ReadMount: a mount of another type is taken for the wanted one.
ReadMountAnyType(r) ==
  /\ Reading(r, MountKinds)
  /\ IF ~Object(r).exists THEN Would(r, "Created") \/ Then(r, "create")
     ELSE Report(r, "Unchanged")
  /\ Remember(r)

\* ensure_mount, ensure_auth_method and their previews.
ReadMount(r) ==
  /\ Reading(r, MountKinds)
  /\ IF ~Object(r).exists THEN Would(r, "Created") \/ Then(r, "create")
     ELSE IF FieldsMatch(Op(r), Object(r)) THEN Report(r, "Unchanged")
     ELSE Fail(r, "InvalidParameter")
  /\ Remember(r)

ReadKey(r) ==
  /\ Reading(r, {"transit_key"})
  /\ IF Object(r).exists THEN Report(r, "Unchanged")
     ELSE Would(r, "Created") \/ Then(r, "create")
  /\ Remember(r)

\* Mutant of ReadDocument: run compares without looking for an override first.
ReadDocumentOverride(r) ==
  /\ Reading(r, DocumentKinds)
  /\ IF ~Object(r).exists THEN Would(r, "Created") \/ Then(r, "write")
     ELSE IF matches_desired(Op(r), Object(r)) THEN Report(r, "Unchanged")
     ELSE Would(r, "Updated") \/ Then(r, "write")
  /\ Remember(r)

\* Mutant of ReadDocument: preview does not tell absence from difference.
ReadDocumentCoarse(r) ==
  /\ Reading(r, DocumentKinds)
  /\ IF Object(r).exists /\ matches_desired(Op(r), Object(r)) THEN Report(r, "Unchanged")
     ELSE \/ Would(r, "Updated")
          \/ /\ Mode[r] = "run"
             /\ IF Object(r).exists /\ HasOverride(Op(r), Object(r))
                THEN Fail(r, "Unsafe") ELSE Goto(r, "write")
  /\ Remember(r)

\* Policies and roles.  Only run looks for an override before it compares.
ReadDocument(r) ==
  /\ Reading(r, DocumentKinds)
  /\ IF ~Object(r).exists THEN Would(r, "Created") \/ Then(r, "write")
     ELSE IF matches_desired(Op(r), Object(r)) THEN Report(r, "Unchanged")
     ELSE \/ Would(r, "Updated")
          \/ /\ Mode[r] = "run"
             /\ IF HasOverride(Op(r), Object(r)) THEN Fail(r, "Unsafe") ELSE Goto(r, "write")
  /\ Remember(r)

\* Mutant of ReadSecret: keys the plan does not mention count as differences.
ReadSecretWhole(r) ==
  /\ Reading(r, {"kv2_secret"})
  /\ IF Object(r).exists /\ Object(r).fields = Replaced(Op(r), Object(r)).fields
     THEN Report(r, "Unchanged")
     ELSE \/ Would(r, IF Object(r).exists THEN "Updated" ELSE "Created")
          \/ Then(r, "write")
  /\ Remember(r)

ReadSecret(r) ==
  /\ Reading(r, {"kv2_secret"})
  /\ IF Object(r).exists /\ FieldsMatch(Op(r), Object(r)) THEN Report(r, "Unchanged")
     ELSE \/ Would(r, IF Object(r).exists THEN "Updated" ELSE "Created")
          \/ Then(r, "write")
  /\ Remember(r)

PreviewIssue(r) ==
  /\ Reading(r, {"credential"})
  /\ Would(r, "Issued")
  /\ UNCHANGED <<setup, plan, store, seen, issued, late, outside, failures, blind>>

(* The server's side of a write: whether it accepts the request, the object   *)
(* it then leaves behind, and whether that was another one than the writer    *)
(* had read.                                                                  *)

Request(r) == [op |-> Op(r), was |-> seen[r]]

\* Mutant of Accepted: KV v2 writes are sent without check-and-set.
AcceptedWithoutCas(q) ==
  q.op.kind \in MountKinds \cup {"transit_key"} => ~store[q.op.target].exists

Accepted(q) ==
  LET obj == store[q.op.target] IN
  CASE q.op.kind \in MountKinds \cup {"transit_key"} -> ~obj.exists
    [] q.op.kind = "kv2_secret" ->
         IF q.was.exists THEN obj.exists /\ obj.version = q.was.version ELSE obj.version = 0
    [] q.op.kind \in DocumentKinds -> TRUE

Apply(q) ==
  LET t == q.op.target IN
  /\ store' = [store EXCEPT ![t] =
       IF q.op.kind = "kv2_secret" /\ q.was.exists THEN Merged(q.op, @) ELSE Replaced(q.op, @)]
  /\ blind' = IF store[t] # q.was THEN blind \cup {t} ELSE blind

(* Creation of mounts, auth methods and transit keys.                         *)

\* A mount is read back before it is reported; a key is not.  The server may
\* answer the creation of a key that exists with success and leave it alone.
Create(r) ==
  /\ pc[r] = "create"
  /\ \/ Accepted(Request(r)) /\ Apply(Request(r))
     \/ Op(r).kind = "transit_key" /\ Object(r).exists /\ UNCHANGED <<store, blind>>
  /\ IF Op(r).kind = "transit_key" THEN Report(r, "Created") ELSE Goto(r, "confirm")
  /\ UNCHANGED <<setup, plan, seen, issued, late, outside, failures>>

\* 400 or 409: somebody may have been faster, look again.
CreateRefused(r) ==
  /\ pc[r] = "create"
  /\ ~Accepted(Request(r))
  /\ Goto(r, "recheck")
  /\ UNCHANGED <<setup, plan, store, seen, issued, late, outside, failures, blind>>

ConfirmCreated(r) ==
  /\ pc[r] = "confirm"
  /\ IF Object(r).exists /\ FieldsMatch(Op(r), Object(r)) THEN Report(r, "Created")
     ELSE IF Object(r).exists \/ Op(r).kind = "auth" THEN Fail(r, "Contention")
     ELSE Fail(r, "NotFound")
  /\ Remember(r)

RecheckRace(r) ==
  /\ pc[r] = "recheck"
  /\ IF Object(r).exists /\ (Op(r).kind = "transit_key" \/ FieldsMatch(Op(r), Object(r)))
     THEN Report(r, "Unchanged") ELSE Fail(r, "Refused")
  /\ Remember(r)

(* Writes of documents, verified by a second read.                            *)

WriteDocument(r) ==
  /\ pc[r] = "write"
  /\ Op(r).kind \in DocumentKinds
  /\ Goto(r, "verify")
  /\ Apply(Request(r))
  /\ UNCHANGED <<setup, plan, seen, issued, late, outside, failures>>

\* Mutant of VerifyDocument: the write is not verified.
VerifyDocumentBlind(r) ==
  /\ pc[r] = "verify"
  /\ Report(r, IF seen[r].exists THEN "Updated" ELSE "Created")
  /\ UNCHANGED <<setup, plan, store, seen, issued, late, outside, failures, blind>>

VerifyDocument(r) ==
  /\ pc[r] = "verify"
  /\ IF ~Object(r).exists THEN Fail(r, "NotFound")
     ELSE IF matches_desired(Op(r), Object(r))
          THEN Report(r, IF seen[r].exists THEN "Updated" ELSE "Created")
     ELSE Fail(r, "Contention")
  /\ UNCHANGED <<setup, plan, store, seen, issued, late, outside, failures, blind>>

(* KV v2: a patch guarded by the version read, or a write that requires the   *)
(* key never to have had one.                                                 *)

WriteSecret(r) ==
  /\ pc[r] = "write"
  /\ Op(r).kind = "kv2_secret"
  /\ Accepted(Request(r))
  /\ Report(r, IF seen[r].exists THEN "Updated" ELSE "Created")
  /\ Apply(Request(r))
  /\ UNCHANGED <<setup, plan, seen, issued, late, outside, failures>>

WriteSecretRefused(r) ==
  /\ pc[r] = "write"
  /\ Op(r).kind = "kv2_secret"
  /\ ~Accepted(Request(r))
  /\ Fail(r, "Refused")
  /\ UNCHANGED <<setup, plan, store, seen, issued, late, outside, failures, blind>>

\* Service tokens and AppRole SecretIDs: always a new credential.
Issue(r) ==
  /\ Mode[r] = "run"
  /\ Reading(r, {"credential"})
  /\ issued' = [issued EXCEPT ![r] = @ + 1]
  /\ Report(r, "Issued")
  /\ UNCHANGED <<setup, plan, store, seen, late, outside, failures, blind>>

\* Mutant of RequestFails: the issue of a credential is tried again.
RequestFailsRetried(r) ==
  /\ pc[r] = "read" /\ Op(r).kind = "credential" /\ Mode[r] = "run"
  /\ failures < MaxFailures
  /\ failures' = failures + 1
  /\ issued' = [issued EXCEPT ![r] = @ + 1]
  /\ UNCHANGED <<setup, plan, store, pc, step, seen, steps, result, late, outside,
                 stamp, blind>>

(* A request fails.  A write may have taken effect all the same, and so may   *)
(* the issue of a credential, which is then out of the caller's reach.        *)

RequestFails(r) ==
  /\ pc[r] \notin {"idle", "done"}
  /\ Mode[r] = "preview" => Op(r).kind # "credential"
  /\ failures < MaxFailures
  /\ failures' = failures + 1
  /\ \/ UNCHANGED <<store, issued, late, blind>>
     \/ /\ pc[r] \in {"create", "write"}
        /\ \/ Accepted(Request(r)) /\ Apply(Request(r)) /\ UNCHANGED late
           \/ LateWrites /\ late' = late \cup {Request(r)} /\ UNCHANGED <<store, blind>>
        /\ UNCHANGED issued
     \/ /\ pc[r] = "read" /\ Op(r).kind = "credential"
        /\ issued' = [issued EXCEPT ![r] = @ + 1]
        /\ UNCHANGED <<store, late, blind>>
  /\ Fail(r, "Transport")
  /\ UNCHANGED <<setup, plan, seen, outside>>

\* The server gets to a write whose caller has long returned an error.
LateWriteLands ==
  /\ \E q \in late :
       /\ late' = late \ {q}
       /\ IF Accepted(q) THEN Apply(q) ELSE UNCHANGED <<store, blind>>
  /\ UNCHANGED <<setup, plan, pc, step, seen, steps, result, issued, outside, failures, stamp>>

\* Another administrator writes or deletes a target.  Under the lock only
\* while no bootstrap is under way.  Versions are never reset: deleting and
\* recreating the metadata of a secret is left out.
OutsideWrite ==
  /\ outside < MaxOutside
  /\ Locked => \A r \in Runners : pc[r] \in {"idle", "done"}
  /\ outside' = outside + 1
  /\ \E t \in DOMAIN store, o \in Objects :
       store' = [store EXCEPT ![t] = [o EXCEPT !.version = store[t].version + 1]]
  /\ UNCHANGED <<setup, plan, pc, step, seen, steps, result, issued, late, failures,
                 stamp, blind>>

Next ==
  \/ OutsideWrite
  \/ LateWriteLands
  \/ \E r \in Runners :
       \/ Start(r) \/ ReadMount(r) \/ ReadKey(r) \/ ReadDocument(r) \/ ReadSecret(r)
       \/ PreviewIssue(r) \/ Create(r) \/ CreateRefused(r) \/ ConfirmCreated(r)
       \/ RecheckRace(r) \/ WriteDocument(r) \/ VerifyDocument(r) \/ WriteSecret(r)
       \/ WriteSecretRefused(r) \/ Issue(r) \/ RequestFails(r)

Spec == Init /\ [][Next]_vars

-----------------------------------------------------------------------------
(* Properties *)

Results == {"none", "Ok", "InvalidParameter", "Unsafe", "Contention", "NotFound",
            "Refused", "Transport"}

Statuses == {"Created", "Updated", "Unchanged", "Issued"}

\* Every variable has its type, and a report has one entry per operation done.
TypeOK ==
  /\ setup \in Setups /\ plan \in Plans
  /\ store \in [TargetsOf(plan) -> ObjectType]
  /\ pc \in [Runners -> {"idle", "read", "create", "confirm", "recheck", "write",
                         "verify", "done"}]
  /\ step \in [Runners -> 1 .. Len(plan)]
  /\ seen \in [Runners -> ObjectType]
  /\ steps \in [Runners -> Seq(Statuses)]
  /\ result \in [Runners -> Results]
  /\ issued \in [Runners -> Nat] /\ stamp \in [Runners -> 0 .. outside]
  /\ \A q \in late : /\ \E i \in DOMAIN plan : q.op = plan[i]
                     /\ q.op.kind # "credential"
                     /\ q.was \in ObjectType
  /\ outside \in 0 .. MaxOutside /\ failures \in 0 .. MaxFailures
  /\ blind \subseteq TargetsOf(plan)
  /\ \A r \in Runners :
       /\ result[r] # "none" <=> pc[r] = "done"
       /\ result[r] # "Ok" => Len(steps[r]) = step[r] - 1
       /\ result[r] = "Ok" => Len(steps[r]) = step[r] /\ step[r] = Len(plan)

Satisfied(op, s) ==
  op.kind # "credential" =>
    LET obj == s[op.target] IN
    obj.exists /\ (op.kind # "transit_key" => matches_desired(op, obj))

\* No target is named by two operations.  The builder does not see to it, and
\* two operations that ask for different things cannot both be satisfied.
NamedOnce(p) ==
  \A i, j \in DOMAIN p :
    /\ p[i].kind # "credential" /\ p[j].kind # "credential"
    /\ p[i].target = p[j].target
    => i = j

Ended(r) == result[r] = "none" /\ result'[r] # "none"

\* When run returns Ok, every target of a plan that names each once is in its
\* desired state: with the external lock, or without it as long as only
\* bootstraps of this plan write, however they race and however late their
\* requests arrive.
ConvergedOnOk ==
  [][NamedOnce(plan) => \A r \in Runners :
       Ended(r) /\ result'[r] = "Ok" /\ Mode[r] = "run" /\ (Locked \/ outside = 0) =>
         \A i \in 1 .. Len(plan) : Satisfied(plan[i], store')]_vars

\* What a step reports holds when the server answers its last request, whoever
\* else is writing; in particular no document with an identity-template
\* override is ever reported as converged.
ReportedStateHolds ==
  [][\A r \in Runners :
       /\ Mode[r] = "run"
       /\ Len(steps'[r]) > Len(steps[r])
       => Satisfied(Op(r), store')]_vars

\* Bootstrap is idempotent: a run that follows a successful one of the same
\* plan, with nobody else writing and no request lost, changes nothing.
RerunIsUnchanged ==
  NamedOnce(plan) => \A r, q \in Runners :
    /\ Locked /\ r < q /\ Mode[r] = "run" /\ Mode[q] = "run"
    /\ result[r] = "Ok" /\ result[q] \notin {"none", "Transport"}
    /\ stamp[q] = stamp[r]
    => /\ result[q] = "Ok"
       /\ \A i \in 1 .. Len(plan) :
            steps[q][i] = IF plan[i].kind = "credential" THEN "Issued" ELSE "Unchanged"

\* A preview tells what a run from the same server state reports, whenever that
\* run succeeds, no write of an earlier one is still under way and the plan
\* names each target once.
PreviewPredictsSuccess ==
  NamedOnce(plan) => \A p \in Runners :
    /\ Locked /\ ~LateWrites /\ Mode[p] = "preview" /\ p + 1 \in Runners /\ Mode[p + 1] = "run"
    /\ result[p] = "Ok" /\ result[p + 1] = "Ok" /\ stamp[p] = stamp[p + 1]
    => steps[p] = steps[p + 1]

\* Check-and-set protects KV v2 secrets even without the lock: a secret is
\* never overwritten in a state the run did not read.
SecretsNeverOverwrittenBlind ==
  \A i \in 1 .. Len(plan) : plan[i].kind = "kv2_secret" => plan[i].target \notin blind

\* A document that carries an identity-template override is not touched by a
\* run that holds the lock, so its unmanaged controls survive.  (A write that
\* was given up before the override was made could still undo it.)
OverridesSurvive ==
  [][Locked /\ ~LateWrites /\ outside' = outside =>
       \A i \in 1 .. Len(plan) :
         LET t == plan[i].target IN
         plan[i].kind \in GuardedKinds /\ store[t].exists /\ store[t].override
           => store'[t] = store[t]]_vars

\* A step that issues a credential never does it twice: a lost answer ends the
\* run, and a successful run reports every credential the server made for it.
IssuedOnce ==
  \A r \in Runners :
    LET wanted == Cardinality({i \in 1 .. Len(plan) : plan[i].kind = "credential"}) IN
    /\ issued[r] <= wanted
    /\ Mode[r] = "preview" => issued[r] = 0
    /\ result[r] = "Ok" /\ Mode[r] = "run" => issued[r] = wanted
=============================================================================
