# Verification of the OpenBao Rust SDK

TLA+ models of the `openbao` crate (`src/src/`): the parts that keep state across requests,
awaits or threads, and the way every typed call takes through the capability registry to
the wire; the TLC runs that check them on small instances, and TLAPS proofs for every
instance of the central ones.

## 1. The system

The crate is an asynchronous client of an OpenBao server.  Most of its volume is typed
requests and the table they are checked against: a method validates its arguments, its
path is resolved to an operation of the registry, the operation is admitted or refused for
the server's release, one HTTP request is sent and the answer decoded.  What can go wrong in
an order or a combination nobody tests is in the parts underneath and around them:

| Part | Source | State it keeps | Operations | What is hard |
| --- | --- | --- | --- | --- |
| Compatibility verification | `client.rs` 826-1086, 1368-1473; `compatibility.rs` | one mutex: `Pending`, `Running(waiters)`, `Complete(verdict)`, shared by all clones of a client | `ensure_compatibility`, `CompatibilityWait`, `CompatibilityLeader` | hand-written future and wakers, cancellation at every await, lock poisoning, bounded waiter list, a verdict cached for ever |
| Route resolution and registry | `client.rs` 963-1018, 1328-1353, 1519-1877, 2010-2081, 3311-3610; `compatibility.rs`; `generated/openbao_capabilities.rs`; `request_compatibility.rs` | the verdict and the plugin selections of a client, both for life | `resolve_registered_openbao_endpoint`, `resolve_openbao_literal_endpoint`, `validate_versioned_request_fields` | 707 templates that overlap, custom mounts, optional and multi-segment placeholders, 30 releases, reserved words in callers' names |
| Typed calls | `auth/*.rs`, `secrets/*.rs`, `sys.rs`, `sys/*.rs` | none | 770 ways to make a request | agreement of hundreds of hand-written paths with a generated table |
| External plugins | `plugin/*.rs` | selections per mount | `external_plugin`, `supports` | built-ins removed in 2.7, fallback and assumed profiles that hide the server's real release |
| Request pipeline and retry | `client.rs` 165-316, 1879-3160, 3619-3663, 3987-4127, 4508-4549; `error.rs` | none between calls; counters of one call | JSON, secret, raw, byte, form, upload and stream requests; `request_json_with_retry` | which parts make a call sensitive, bounded bodies read in chunks, streams that end early or late, which failures are retried, backoff arithmetic |
| Monitor stream | `sys.rs` 258-402 | retained chunk and offset, pending bytes, `terminal` | `poll_next` | lines over chunk borders, a limit at its edge, a budget of chunks with its own wake-up |
| Readiness polling | `sys.rs` 5684-5901; `error.rs` 261-273 | elapsed time, the cached verdict | `wait_ready`, `wait_until_unsealed`, with a tokio deadline or a caller's delay | deadlines racing late answers, the last short sleep, statuses with two meanings |
| Response wrapping, control groups | `sys.rs` 3536-3695, 9353-9414; `sys/control_groups*.rs` | the handle: token, accessor, `attempted`, `consumed`, execution state | `try_unwrap`, `into_control_group_execution`, `try_execute`, copied-token helpers | a single-use token on the server, lost answers, futures dropped between marking and sending |
| Consistency transport | `client/consistency.rs`, `consistency.rs` | context (cluster, version), captured indices | `consistency`, `request_json`, preflight | an endpoint that moves between two requests, stale standbys, writes that must not be replayed |
| Administrative bootstrap | `bootstrap.rs` | the plan; a report that is lost on error | `preview`, `run` | read-compare-write over several requests, other administrators, creation races, lost answers |

The parts interact by calls.  Every request first awaits the compatibility verdict and is routed by it; so do
readiness polls, which is how a cached verdict decides over a wait (section 5).  Bootstrap
and the wrapping handles are built on the pipeline's single-shot requests, and consistency
contexts need a *verified* report of the compatibility part.  There is no background task:
all concurrency comes from the application polling several futures of one client, dropping
them, and from the server and the network.

Parts not modelled are listed with reasons in section 8 and in `PROJECT.json`.

## 2. Modules

| Module | Models | Composes |
| --- | --- | --- |
| `CompatibilityPolicy` | policies, reports and `evaluate_detected` as operators | |
| `CompatibilityVerification` | the leader/waiter protocol around the mutex | extends `CompatibilityPolicy`; implements `OnceResult` |
| `OnceResult` | abstract: a value decided once, returned to all | |
| `WrappedExecution` | wrapping and execution handles, network and server | implements `OneAttempt` |
| `OneAttempt` | abstract: unused, then uncertain, then received; one effect at most | |
| `ConsistencyContext` | contexts, scoped indices, clusters, standbys, moving endpoint | extends `CompatibilityPolicy` for the report a context is opened under |
| `ReadinessWait` | both polling helpers over time and the cached verdict | |
| `AdminBootstrap` | `preview` and `run` of a plan over a server with other writers | |
| `RequestPipeline` | one call of any request kind, its body and its answer, and the retry loop | |
| `MonitorStream` | `MonitorStream::poll_next`, step by step, over a body that delivers at any time | |
| `CapabilityRecords`, `ReadOperations`, `WriteOperations`, `CapabilityRegistry` | the generated table: releases and ranges, the operations by method, endpoints that moved | |
| `RequestCompatibility` | versioned request fields, their rules and the 2.7 gates | extends `CompatibilityPolicy` |
| `TypedCalls`, `AuthCalls`, `EngineCalls`, `SystemCalls` | what every typed method asks of the request layer: method, path, query, fields, mount binding | extend `RequestCompatibility` |
| `PluginContracts` | the reviewed operations of external plugins | |
| `RouteResolution` | the template matcher, the choice among matches, mount substitution | extends `RequestCompatibility` |
| `RouteDispatch` | a call through field gate, resolution, availability and plugin gate | extends `RouteResolution`; `MCTypedRequests` composes it with the registry, the calls and the contracts, and `MCRouteDispatch` adds that the registry documents every call |
| `*Proofs` | theorems about the module of that name | extend it and TLAPS |
| `MC*` | values for TLC | |

Definitions keep the names of the functions they translate.  Definitions introduced by
`\* Mutant of` are variants with a plausible mistake; nothing in a specification uses
them.  They serve to show that a property notices the mistake.

### How state and actions correspond to the code

**CompatibilityVerification.**  `verification` is the content of the mutex and `poisoned`
its poisoning; `pc` says where each call is.  A critical section is one action; wakers fire
one by one after the lock is released (`Wake`), so other calls run in between.  A dropped
future is `LeaderDropped` or `WaiterDropped`; a spurious poll is allowed, and a poll may
panic while it holds the lock (`PollPanics`).  `decided`, `observed`, `probes` are history.

**WrappedExecution.**  The variables are the fields of the Rust structs.  Each await is a
value of `call`; `GiveUp` drops the future or loses the answer at any of them.  The server
executes, denies or never sees the request, perhaps after the caller gave up; a deferred
request that was executed may stay executable, as OpenBao 2.7 has it.  Copies of the token
may be used through the stateless helpers.

**ConsistencyContext.**  A call checks the cluster (`Preflight`), sends the operation
(`Send`) and accepts or rejects the answer (`Accept`, `Fail`).  `Move` leads the endpoint
to another cluster, version or node at any time.  A standby answers from `applied`, the
active node from `committed`; an index of a foreign cluster is ignored by the server.

**ReadinessWait.**  Time is counted in ticks from the start of a call.  Requests take up to
the HTTP timeout, timers fire up to `Slack` late, and `tokio::time::timeout` may drop the
call at its deadline.  The server's condition changes at any time.  Answers are told apart the
way the code does: `is_temporary` (`error.rs`) leaves out 501 and 505; `health` accepts 429,
501 and 503, which without a health document are decoding errors; and a 200 may not decode.
Under the policy `verified` the server's version passes the probe, under `mismatched` it is
refused; either verdict is kept for the life of the client.

**AdminBootstrap.**  Every request is a step; `pc` is the request a run makes next.  A
document is a record of settings with a version, and a flag for the identity-template
override that some kinds refuse to touch.  A failing request may have taken effect, or take
effect later (`LateWriteLands`).  `blind` records writes over a state the run did not read.

**RequestPipeline.**  `kind` is the function called; it decides which parts a call may carry,
whether it is retried and how its answer is read.  A call carries a subset of the five parts
that make it sensitive.  An upload is handed over by `Produce`, `SourceFails` and
`SourceEnds`, the three ways out of `ExactLengthRequestStream::poll_next`, and the server may
answer at any point of it.  Answers are accepted, refused, cut or too long, and arrive in
chunks; bodies are counted in bytes and delays in ticks.

**MonitorStream.**  The variables are the struct's fields, the local counter and the waker.
A byte is its position in the whole body, so a buffer says which bytes it holds; one turn of
the loop is a look at the retained chunk (`ScanLine`, `ScanRest`, `ScanNothing`), at the
budget (`Yield`) and at the body (`Fetch…`), with arrivals in between.

**RouteDispatch.**  `Issue` is a typed call entering `request_registered_…`;
`ValidateFields` is `validate_versioned_request_fields` or the gate in front of a 2.7 call;
`Route` is `resolve_registered_openbao_route` with everything it calls, or
`resolve_openbao_literal_endpoint`.  `report` and `plugins` never change after `Init`, as in
the client.  A path is a sequence of segments.  The registry is translated entry by entry;
identifiers and links are dropped because a method and a template identify an operation,
and a contract names its operations the same way.  The strings of a template are told apart
by what the matcher sees in their first characters: `:name`, `:path`/`:prefix`,
`<...>`, `(/:name)`, `(a|b)` or a word.  A call's arguments are named after the check they
pass (one segment, one or more, any number), and `MCTypedRequests` puts for each of them a
fresh word, every word the registry reserves at that place, several segments, or none.

The matcher `route_segments_match` is the recursion of `route_segments_match_at` over the
segments of a template, without its memo table; its value is the set of paths a template
matches.  `Covered` is the same recursion over two templates and belongs to the properties:
it says when every path one of them matches is matched by the other.  `Apart` says when no
path is matched by both, by looking at the segments in front of the first and behind the last
`:path` or `:prefix`.

## 3. Runs

| Run | Question | Bounds | States |
| --- | --- | --- | --- |
| `compat` | is there one probe, one verdict, no lost wake-up, no leaked registration, is every report justified, and does every call return? | 3 calls, 1 waiter place, 2 cancellations, 1 panic, 5 versions | 91 000 |
| `compat_probe_count` | is the documented probe limit kept? | 2 calls, 1 cancellation | violated |
| `dispatch` | is every call judged by its own operation, and does nothing slip through the plugin and field gates? | all calls, the whole registry, 2 mounts, 39 compatibility results (each of the 30 releases verified among them), 3 plugin configurations; 2 745 requests | 655 000 |
| `dispatch_unrouted` | does every call have a route at all? | the same clients, plain arguments | violated |
| `wrapped_execution` | is a handle used once, honest about its state, and does it keep its credentials? | 2 handles, 1 copied token | 291 000 |
| `consistency` | do indices stay in their context and cluster, are reads as fresh as their index, is nothing replayed? | 2 contexts, 2 calls, 2 clusters, 2 versions, 2 commits, 2 moves | 1 700 000 |
| `readiness_timing` | are deadlines, intervals and retries kept, and does every wait end? | deadline of 5 ticks, interval 2, requests up to 2, late by 1, 2 changes, 2 calls; no probe, one that passes, one that refuses | 342 000 |
| `readiness_ready_outage`, `readiness_verified_outage` | are transient failures retried as documented? | deadline of 4 ticks, 1 call | violated |
| `bootstrap` | under the lock: does preview predict, does run converge, is it idempotent?  What remains without it? | with the lock 1 preview and 2 runs, or 2 runs whose lost writes may land late; without it 2 runs, likewise; 1 outside write, 1 lost answer | 775 000 |
| `pipeline` | are parts protected, answers complete, uploads exact, retries justified, delays in bounds? | 7 kinds of call, 4 attempts, limits of 2 bytes, bodies up to 3 | 13 000 |
| `monitor` | are frames lines, is the limit exact, does the stream sleep on data? | texts up to 6 bytes in every cutting, frames up to 2, chunks up to 5 of which 4 are allowed, budget of 2 | 37 000 |

Why the bounds are enough for what they are asked.  Two calls are needed for a race, three
for a waiter to be handed from a cancelled leader to a new one, and for one to be turned away
by a full list of one place.  Five versions hold one below, between and above the promoted ones,
and one that is generated but not routable.  A timeout of 5 with an interval of 2 makes the
last sleep shorter than the interval, and requests of 2 ticks reach over the deadline.  Two
clusters and two moves let the endpoint leave and come back.  The body limit of 2 has
bodies at, below and above it and chunks that step over it; six bytes hold three lines, or
one line at, over and far over the frame limit, and need more chunks than a poll may take.
The dispatch run is not scaled down at all where the code is data: releases, operations,
calls and fields are the real ones.  What is chosen is the clients (every release verified,
and one client for every other way a report can come about) and the names a caller passes
(one odd name at a time; a plain call selects one optional field at a time, which is how the
gates judge them).  In bootstrap each kind of
operation is planned alone, in two mixed plans, and in one that names a policy twice; one outside write and one failure at any
step hit every gap between two requests.  Cancellations, failures, changes and moves are
the only bounded events of the environment; the code's own steps are never bounded by a
guard that the code does not have.

Symmetry is used for handles, contexts, calls and clusters in `wrapped_execution` and `consistency`, which
check no liveness.

Deadlock is checked in `ReadinessWait`, `RequestPipeline`, `MonitorStream` and
`RouteDispatch`, where a finished call has a step of its own.  The other models stop when all calls have returned, which the system may.

### Fairness

`EveryCallEnds` assumes that an executor polls a task that is ready or was woken, and that
a probe ends: the HTTP client has a total timeout that cannot be switched off.  Nothing
obliges a call to be polled without cause, so a lost wake-up shows as a call that hangs.
`EveryWaitEnds` assumes that time passes and that a task whose timer or request is due is
run; it assumes no answer of any particular kind.  `ArrivalsAreTaken` assumes that a consumer
polls the stream when it was woken or has just been handed a frame, and that a poll runs on
once it has begun; a stream that returned `Pending` without a wake-up is owed nothing.

## 4. What the properties say

* **SingleLeader, ProbesAreAccounted**: at most one probe is in flight, and each probe after
  the first is owed to a cancelled call.
* **NoLostWakeup, RegistrationsAreLive, EveryCallEnds**: a suspended call is always in the
  hands of somebody who will wake it; the places in the list are held by live calls only.
* **ReportSound, OnceSpec**: one verdict for the life of a client, and one that a detected
  version and the policy justify.
* **SentOnce, StateIsHonest, CredentialsKeptUntilReceived, NoAmbientToken, OneAttemptSpec**:
  no sequence of calls, cancellations and conversions sends a wrapped request twice; what
  the handle says of itself is true of the server; the token needed for recovery is kept
  until the response is there, and an emptied handle never sends with the client's own token.
* **IndexProvenance, ReadYourWrites, NeverReplayed, VerifiedServer**: see the run.
  ReadYourWrites and VerifiedServer except a call whose endpoint moved between preflight
  and operation: the client cannot see that, and the code does not claim to.
* **KeepsToItsTime, ReadyIsNoticed, EveryWaitEnds**: a wait neither outlives its deadline nor
  gives up before it nor polls too often; a ready server is noticed; every wait returns.
* **OnlyLastingErrorsEndAWait**: once the client has a verdict that lets it through, a wait fails
  exactly when its last answer is a lasting one: a refusal, 501, 505, a 200 that cannot be
  decoded, and for `wait_ready` also a 429 or 503 without a health document.  Transport
  failures and other server errors never end it.  A verdict that does not let the client
  through ends this wait and every later one without another request.
* **ConvergedOnOk, RerunIsUnchanged, PreviewPredictsSuccess, IssuedOnce, OverridesSurvive**
  with the lock; **SecretsNeverOverwrittenBlind, ReportedStateHolds, ConvergedOnOk** without.
  Three of them speak of plans that name each target once (`NamedOnce`): the plan builder
  accepts two operations on one target, which cannot both stay satisfied.  A write that was
  given up and lands late can undo an override or make a preview wrong, so OverridesSurvive
  and PreviewPredictsSuccess exclude it (`~LateWrites`); the others do not.
* **CarriesItsParts, AnswerIsComplete, UploadIsExact, RetriesAreJustified, BackoffBounds**: all
  kinds of call; an upload looks complete to the server only when it is.
* **FramesAreLines, LimitIsExact, NeverSleepsOnData, ArrivalsAreTaken**: the monitor stream
  against splitting the whole body at its newlines.
* **ReachesItsOperation, NarrowestOperation**: a call whose names are plain is judged by the
  operation that documents it, under every mount, release and plugin configuration; and
  whatever the names are, the chosen operation is covered by every other match (`Covers`: the
  templates that matched compare segment by segment, and so do the query pairs), so the
  scores never decide by accident.
* **RemovedBuiltinsNeedContract, FieldsNeedTheirProfile**: what 2.7 removed is called only
  where the reported release has it or a reviewed contract stands for it; what a release
  does not have is not sent to it.

## 5. Where documentation and code differ

1. `compat_probe_count`: the documentation of `compatibility_report` allows at most one probe
   per client; a cancelled leader puts the state back to `Pending` and the next call probes
   again.  What holds is `ProbesAreAccounted`.
2. `readiness_ready_outage`: `wait_ready` is documented to retry rate limits and server
   errors.  `health` accepts 429 and 503 as health documents; one that carries none is a
   decoding error and ends the wait at once.
   Server errors 501 and 505 end either wait as well, as `is_temporary` leaves them out.  What
   holds is `OnlyLastingErrorsEndAWait`.
3. `readiness_verified_outage`: under a policy that verifies the server, a transport failure
   of the first probe is not temporary and is cached, so this wait and all later ones fail.
4. `dispatch_unrouted`: `create_mfa_{duo,okta,pingid,totp}_method` and
   `Ssh::submit_issuer(None, ..)` ask for routes the registry has only with a trailing name,
   so they return `Error::Internal` ("A crate invariant was violated") under every profile and
   never send anything.  The `dispatch` run leaves these five calls out of its plain requests
   (`IsUnrouted`), and `ReachesItsOperation` holds for all others.

## 6. What is proved

TLAPS proves, for every number of callers, handles, contexts, clusters, plans and versions and
for every value of the bounds, the theorems listed in `PROJECT.json`: every safety invariant
and every action property of the passing runs.  Each module's argument is an inductive
invariant; `TypeOK` and the properties alone are not inductive.

* **CompatibilityVerificationProofs.**  `VerdictInv` ties the three places a verdict can be
  (the mutex, a leader's local copy, a returned value) to the one decision, and says that
  nothing is decided while somebody probes.  Without it a second leader could overwrite the
  first one's verdict.  `ProbeInv` counts the probe of the current leader or of the decision
  separately from those of cancelled calls.  From `IInv` follow `TypeOK`, `SingleLeader`,
  `RegistrationsAreLive`, `NoLostWakeup`, `Agreement`, `ProbesAreAccounted`, the action
  property `VerdictIsFinal`, and that every step is a step of `OnceResult` or a stutter.
  `ReportSound` rests on `JustifiedInv`: every verdict, kept, local or returned, is justified by
  what was observed.  The evaluation of a policy makes only such verdicts, which is proved for
  every policy and every probe (`JudgedIsJustified`).
* **WrappedExecutionProofs.**  For each handle, `StageInv` relates its fields to the await it
  is suspended at, `RequestInv` relates the message in the network to what the server did,
  and `FieldsInv` relates the two records of the same fact before and after conversion.  The
  refinement needs `RequestInv`: a request still travelling has had no effect.
* **ConsistencyContextProofs.**  `IndexInv` says that a captured index stands for a stored
  write of its own cluster; `AnswerInv` says what a successful answer tells about the cluster
  that gave it; `StageInv` that the server seen by the preflight is the one the context was
  opened on.  ReadYourWrites combines the three.

* **MonitorStreamProofs.**  `BufferInv` says that the pending bytes and the rest of the
  retained chunk are the two halves of the text after the last frame, and that the first
  half has no newline.  Without it nothing ties the buffers to the text, and a frame could be
  a line of some other input.  `StageInv` adds that a stream looking at the body retains no
  chunk, which is what makes sleeping safe.
* **AdminBootstrapProofs.**  The moves of a call are first sorted by what they lead to: it goes
  on, reports, or gives up (`CallMoves`), and `Grounds` says what a reported status rests on.
  `ReportedStateHolds` is then a property of the grounds alone.  `FreshInv` says that a version
  of a target stands for one state and that no request holds a later one than the server:
  check-and-set on versions is then check-and-set on states, for requests that land late too.
  `LockInv` says that under the lock what a call has read stays true until it writes, which is
  why an override it did not see is not there; it fails, as it should, once late writes are
  allowed.  `ConvergedInv` says that what a run has behind it stays satisfied, because every
  accepted write of a plan that names its targets once satisfies its own operation and leaves
  the others alone: racing runs and late writes of the plan do no harm.  `RerunInv` and `PreviewInv`
  follow the second run step by step; `Tracks` relates the run to the preview before it, at
  each of the places a step can be suspended.  `Issued` counts credentials up to the current
  operation.
* **ReadinessWaitProofs.**  `ClockInv` bounds the time already spent by the phase a wait is in
  (asleep, or with a request under way); `PollsInv` counts polls by the intervals slept; and
  `NoticeInv` bounds how long the server has been ready by the same phases.  `ProbeInv` follows
  the verdict: a client that was refused meets it at the first poll, before any time can pass,
  so that the deadline cannot turn the refusal into a timeout.  `OutcomeIsLasting` relates the
  classification of an answer to `LastingAnswers`; the two give `OnlyLastingErrorsEndAWait`.
* **RequestPipelineProofs.**  `CountInv` ties the requests sent, the failures counted and the
  retry index to one another; `AnswerInv` and `UploadInv` say what has been read and sent at
  each stage of a body.  The bare backoff is a sum defined by recursion, and so is the shift it
  is built from: that both functions exist and satisfy their equations for every index is proved
  from the well-ordering of the naturals, by induction over sets (`SetInduction`,
  `PrimitiveRecursion`), as the library's induction theorems cannot be instantiated.
* **RouteDispatchProofs.**  `SoundReport` says what a report's status tells about its
  versions, and is proved for every policy and every probe from `EvaluatePolicy`.  `GateInv`
  adds that a call being routed has had its fields admitted.  The two gates follow for every
  registry, every set of requests and every client; neither proof looks at the matcher.

  The choice of an operation does.  Its induction principle is derived, not assumed: finite
  sets are well-founded under inclusion (a library theorem), so every set of naturals has a
  least element (`LeastNatural`), so what passes from the tail of a template to the template
  holds of all (`PathInduction`), and a recursion over tails has a solution
  (`TemplateRecursion`), which is what allows the matcher and `Covered` to be unfolded
  (`MatcherUnfolds`, `CoverUnfolds`).  By that induction: a path agrees with its template in
  front of the first and behind the last multi-segment placeholder (`MatchLeading`,
  `MatchTrailing`), so templates that are `Apart` share no path (`ApartIsDisjoint`); a path
  splits where its template does (`MatchSplits`), so a template that covers another matches all
  that it matches (`CoverMatches`).  `ChoiceIsUnique` combines them with the assumption on
  the table: of two operations that both match, one has the strictly higher score and is
  covered by the other, hence exactly one is selected, for every path and query and not only
  for those of the runs.  `ChoiceIsNarrowest` carries this through the steps of a call; it needs
  that a report always gives a profile (`NoInternalRefusal`), as a call without one would be an
  internal error with matches left.

  `CallsReachTheirOperation` starts from the documenting operation instead.  The registry path
  of a plain request is its documented path, whatever it is mounted at (`MountIsSubstituted`);
  the form that documents it matches that path (`DocumentingMatches`); so the selected form
  is covered by it, has its length, and cannot hold a word where the caller's fresh argument
  stands, nor a placeholder where the shape has a word (`NarrowerDocuments`).

Assumptions on constants: the inventory of versions is a set of naturals with
Routable within Generated within Versions, bounds are naturals, and the policies used are policies of
the enum.  `RouteDispatch` assumes that a client's result comes from some policy and probe,
that plugin selections name reviewed releases and no mount twice (which the builder refuses),
that no endpoint that moved belongs to a plugin, that the release a client without a policy is
routed by is in the inventory (`LegacyAssumption`), and that a plain request spells its shape
(`PlainAssumption`: each argument is a word that no template holds).

Two assumptions are about the generated table, and TLC evaluates both on all of its 707
operations.  `RegistryAssumption` compares templates in pairs: two operations of one method and
scope are apart, or one has the strictly higher score and is covered by the other.  It says
nothing of paths or calls, which is what the theorems add; a release that brings a template for
which it fails is one whose calls may be judged by the wrong operation or by none.
`EveryCallDocumented`, the hypothesis of `CallsReachTheirOperation`, says that for each plain
request some operation of its method and scope documents its shape; it is false of the five
calls of finding 4 and assumed by `MCRouteDispatch` alone.  `SegmentAssumption` (three words
are strings) is true in TLA+ and only there because the installed provers do not know it.

`AdminBootstrap` assumes that calls are
numbered, that the values of settings and objects have their types, that a plan has at least
one operation (an empty one makes no request), and that operations with the same target are
of one kind, as paths of different kinds do not meet on the server.  `RequestPipeline` assumes
what `RetryPolicy::exponential` enforces and that lengths are naturals, `ReadinessWait` that
its durations are not zero, which the helpers check at entry.  TLC evaluates them in every run.

## 7. What is only model-checked

Liveness (`EveryCallEnds`, `EveryWaitEnds`, `ArrivalsAreTaken`) is out of the prover's reach.
So are the facts about this very table that the theorems on routes start from: they are
assumptions there, and TLC goes through the table and the calls to establish them.

## 8. What is not modelled

* Bodies of typed requests, the rules among their fields that do not depend on a release, and
  the decoding of answers into typed results: stateless, and specific to each call.
* JSON decoding and its budgets: the models let decoding succeed or fail.
* Builders and getters of request structures, policy rendering, the posture report.
* Configuration, TLS, the test-only exemption that lets tests send sensitive requests over
  loopback HTTP, sanitising of memory, formatting and validation of characters.
* The digests and version strings a plugin selection is compared with.
* KV v2 metadata that is deleted and created again: `AdminBootstrap.OutsideWrite` only raises
  versions, so `SecretsNeverOverwrittenBlind` says nothing of an administrator who resets a
  secret's version between the read and the write; an equal version need then not mean an
  equal secret, and check-and-set cannot tell.
* What a server answers when an index check fails other than waiting, forwarding or
  refusing.
* Relief for calls that are parked when the compatibility mutex is poisoned: the code does not
  wake them (`client.rs` 1046-1061), which needs a waker that panics.  `EveryCallEnds` excepts
  exactly those calls, and shows that all others return.

## 9. Plan

In this order; the first ten are done.

1. Compatibility verification, with its abstract specification and proofs.
2. Wrapping handles and control-group execution, likewise.
3. Consistency contexts, with proofs.
4. Bootstrap and readiness polling.
5. The JSON pipeline and its retry loop.
6. The monitor stream, with proofs.
7. Byte, form, upload and streaming requests in `RequestPipeline`.
8. The registry, the typed calls, route resolution, and the field and plugin gates, with
   proofs of the gates.
9. Proofs of the remaining safety properties: `RequestPipeline`, `AdminBootstrap`,
   `ReadinessWait` and `ReportSound`.
10. The matcher for every path: the choice of an operation, and that calls reach theirs.
11. Bounded JSON: the budget of the decoder against a reference count over small documents.
12. Argument rules of the engines and auth methods that refuse unsafe combinations, and the
    assessment in `posture.rs`.
13. A composition of `ReadinessWait` with `CompatibilityVerification`, in place of the
    summary of the latter it has now.
