--------------------------- MODULE ConsistencyContext ---------------------------
(***************************************************************************)
(* Consistency transport: ConsistencyContext and ScopedConsistencyIndex of    *)
(* src/src/client/consistency.rs, with the header values of                   *)
(* src/src/consistency.rs.                                                     *)
(*                                                                          *)
(* A context is bound to the cluster and version it found when it was opened.  *)
(* Each call sends a health preflight and then the operation, and the endpoint *)
(* may lead elsewhere by the time the operation arrives.  Options are sets of  *)
(* at most one element.  Clusters, their lagging standbys and the network are  *)
(* external; the server ignores an index of another cluster, and an            *)
(* await-state that ends without a second value falls back to the listener's   *)
(* configuration, which may serve stale data.                                  *)
(***************************************************************************)
EXTENDS CompatibilityPolicy, Sequences

CONSTANTS
  Contexts, Calls,
  Clusters,
  UsedPolicies,  \* the ConsistencyPolicy values the application uses
  Reviewed,      \* REVIEWED_VERSIONS
  MaxCommits,    \* bound: writes per cluster
  MaxMoves       \* bound: changes of where the endpoint leads

\* ConsistencyPolicy; Await names the explicit fallback.
ConsistencyPolicies == {"Fail", "ForwardActiveNode", "AwaitFail", "AwaitForwardActiveNode"}

ASSUME UsedAssumption == UsedPolicies \subseteq ConsistencyPolicies

ASSUME BoundsAssumption == MaxCommits \in Nat /\ MaxMoves \in Nat

VARIABLES
  report,        \* what ensure_compatibility returns, final once it is cached
  opened,        \* Option<cluster and version> of each context
  captured,      \* the ScopedConsistencyIndex values the application holds
  of, pc, req,   \* each call: its context, its await, its arguments
  seen,          \* Option<what the preflight of the call found>
  wire,          \* operations on their way to the server
  reply,         \* Option<the server's answer to the operation>
  endpoint,      \* where the endpoint leads
  committed, applied,   \* per cluster: writes stored, writes on the standby
  moves,
  sent, runs,    \* history: operations sent, operations executed, per call
  served         \* history: Option<the server that answered>

context == <<report, opened, of>>
cluster == <<endpoint, committed, applied, moves>>
vars == <<context, captured, pc, req, seen, wire, reply, cluster, sent, runs, served>>

Servers == [cluster : Clusters, version : Versions]

Server == [cluster |-> endpoint.cluster, version |-> endpoint.version]

Indices == [cluster : Clusters, value : 1 .. MaxCommits]

header_values(p) ==
  CASE p = "Fail" -> <<"fail">>
    [] p = "ForwardActiveNode" -> <<"forward-active-node">>
    [] p = "AwaitFail" -> <<"await-state", "fail">>
    [] p = "AwaitForwardActiveNode" -> <<"await-state", "forward-active-node">>

NoRequest == [op |-> "none", after |-> {}, headers |-> <<>>]

-----------------------------------------------------------------------------
Init ==
  /\ report \in {EvaluatePolicy(p, v) : p \in Policies, v \in Versions \cup {NoVersion}}
  /\ opened = [x \in Contexts |-> {}]
  /\ captured = {}
  /\ of \in [Calls -> Contexts]
  /\ pc = [k \in Calls |-> "idle"]
  /\ req = [k \in Calls |-> NoRequest]
  /\ seen = [k \in Calls |-> {}]
  /\ wire = {}
  /\ reply = [k \in Calls |-> {}]
  /\ endpoint \in [cluster : Clusters, version : Versions, node : {"active"}]
  /\ committed = [c \in Clusters |-> 0]
  /\ applied = [c \in Clusters |-> 0]
  /\ moves = 0
  /\ sent = [k \in Calls |-> 0]
  /\ runs = [k \in Calls |-> 0]
  /\ served = [k \in Calls |-> {}]

\* Mutant of require_consistency_profile: any profile of the report will do.
require_consistency_profileAny(r) ==
  {v \in Reviewed \cap Routable : r.tag = "Ok" /\ r.profile = v}

require_consistency_profile(r) ==
  {v \in Reviewed \cap Routable :
     /\ r.tag = "Ok"
     /\ r.status = "Verified"
     /\ r.policy \in {"Exact", "AutomaticStrict"}
     /\ r.profile = v /\ r.detected = v}

\* A health document of an unsealed node with the expected version.
discover_cluster(v) ==
  {s \in {Server} : endpoint.node # "unusable" /\ s.version = v}

\* Client::consistency; a discovery that fails leaves nothing behind.
Open(x) ==
  /\ opened[x] = {}
  /\ \E v \in require_consistency_profile(report) : \E s \in discover_cluster(v) :
       opened' = [opened EXCEPT ![x] = {s}]
  /\ UNCHANGED <<report, of, captured, pc, req, seen, wire, reply, cluster, sent, runs, served>>

\* Mutant of validate_index: an index is taken from any context.
validate_indexAny(x, after) ==
  \A i \in after : \A s \in opened[x] : i.cluster = s.cluster

validate_index(x, after) ==
  \A i \in after : i.ctx = x /\ \A s \in opened[x] : i.cluster = s.cluster

\* ConsistencyContext::request_json up to its first await that matters.
Start(k, op, after, p) ==
  /\ pc[k] = "idle"
  /\ opened[of[k]] # {}
  /\ \A s \in opened[of[k]] : s.version \in require_consistency_profile(report)
  /\ validate_index(of[k], after)
  /\ pc' = [pc EXCEPT ![k] = "preflight"]
  /\ req' = [req EXCEPT ![k] = [op |-> op, after |-> after, headers |-> header_values(p)]]
  /\ UNCHANGED <<context, captured, seen, wire, reply, cluster, sent, runs, served>>

Send(k) ==
  /\ pc' = [pc EXCEPT ![k] = "sent"]
  /\ seen' = [seen EXCEPT ![k] = {Server}]
  /\ wire' = wire \cup {k}
  /\ sent' = [sent EXCEPT ![k] = @ + 1]
  /\ UNCHANGED <<context, captured, req, reply, cluster, runs, served>>

\* Mutant of Preflight: the cluster found is not compared with the context's.
PreflightAnyCluster(k) ==
  /\ pc[k] = "preflight"
  /\ \E s \in opened[of[k]] : discover_cluster(s.version) # {}
  /\ Send(k)

\* discover_cluster again, then build_request and the operation at once.
Preflight(k) ==
  /\ pc[k] = "preflight"
  /\ \E s \in opened[of[k]] : \E t \in discover_cluster(s.version) : s.cluster = t.cluster
  /\ Send(k)

\* Mutant of Accept: the cluster of a returned index is not compared.
AcceptAnyCluster(k) ==
  /\ pc[k] = "sent"
  /\ \E r \in reply[k] :
       /\ r.ok
       /\ captured' = captured \cup
            {[cluster |-> i.cluster, value |-> i.value, ctx |-> of[k]] : i \in r.index}
  /\ pc' = [pc EXCEPT ![k] = "ok"]
  /\ UNCHANGED <<context, req, seen, wire, reply, cluster, sent, runs, served>>

\* A 200 or 204 whose index, if there is one, is the context's cluster's.
Accept(k) ==
  /\ pc[k] = "sent"
  /\ \E r \in reply[k] :
       /\ r.ok
       /\ \A i \in r.index : \A s \in opened[of[k]] : i.cluster = s.cluster
       /\ captured' = captured \cup
            {[cluster |-> i.cluster, value |-> i.value, ctx |-> of[k]] : i \in r.index}
  /\ pc' = [pc EXCEPT ![k] = "ok"]
  /\ UNCHANGED <<context, req, seen, wire, reply, cluster, sent, runs, served>>

\* Mutant of Fail: a failed call starts over.
FailRetries(k) ==
  /\ pc[k] \in {"preflight", "sent"}
  /\ pc' = [pc EXCEPT ![k] = "preflight"]
  /\ UNCHANGED <<context, captured, req, seen, wire, reply, cluster, sent, runs, served>>

\* A preflight that finds another server, a status other than 200 and 204, a
\* foreign or malformed index, an unreadable body, a transport failure, a
\* timeout, or the future is dropped.
Fail(k) ==
  /\ pc[k] \in {"preflight", "sent"}
  /\ pc' = [pc EXCEPT ![k] = "failed"]
  /\ UNCHANGED <<context, captured, req, seen, wire, reply, cluster, sent, runs, served>>

-----------------------------------------------------------------------------
(* The servers and the network. *)

\* The node reached has not applied the write the index stands for.
Behind(k) ==
  /\ endpoint.node = "standby"
  /\ \E i \in req[k].after : i.cluster = endpoint.cluster /\ applied[i.cluster] < i.value

\* What is left to do for an inconsistent request once any wait is over.
Fallback(k) == req[k].headers[Len(req[k].headers)]

Answer(k, r) ==
  /\ wire' = wire \ {k}
  /\ reply' = [reply EXCEPT ![k] = {r}]
  /\ served' = [served EXCEPT ![k] = {Server}]
  /\ UNCHANGED <<context, captured, pc, req, seen, endpoint, applied, moves, sent>>

Execute(k) == runs' = [runs EXCEPT ![k] = @ + 1]

\* Any node serves a read from what it has; only the active node writes.
ServeRead(k) ==
  /\ k \in wire /\ req[k].op = "read" /\ endpoint.node # "unusable"
  /\ Behind(k) => Fallback(k) # "fail"
  /\ Execute(k)
  /\ LET forwarded == Behind(k) /\ Fallback(k) = "forward-active-node"
         value == IF endpoint.node = "active" \/ forwarded THEN committed[endpoint.cluster]
                  ELSE applied[endpoint.cluster]
     IN  Answer(k, [ok |-> TRUE, value |-> value, index |-> {}])
  /\ UNCHANGED committed

ServeWrite(k) ==
  /\ k \in wire /\ req[k].op = "write" /\ endpoint.node # "unusable"
  /\ Behind(k) => Fallback(k) # "fail"
  /\ committed[endpoint.cluster] < MaxCommits
  /\ Execute(k)
  /\ committed' = [committed EXCEPT ![endpoint.cluster] = @ + 1]
  /\ \E index \in {{}, {[cluster |-> endpoint.cluster, value |-> committed'[endpoint.cluster]]}} :
       Answer(k, [ok |-> TRUE, value |-> committed'[endpoint.cluster], index |-> index])

\* 429 for an inconsistent request, or any other refusal.
Refuse(k) ==
  /\ k \in wire
  /\ Answer(k, [ok |-> FALSE, value |-> 0, index |-> {}])
  /\ UNCHANGED <<runs, committed>>

Lose(k) ==
  /\ k \in wire
  /\ wire' = wire \ {k}
  /\ UNCHANGED <<context, captured, pc, req, seen, reply, cluster, sent, runs, served>>

Replicate(c) ==
  /\ applied[c] < committed[c]
  /\ applied' = [applied EXCEPT ![c] = @ + 1]
  /\ UNCHANGED <<context, captured, pc, req, seen, wire, reply, endpoint, committed, moves,
                 sent, runs, served>>

\* A load balancer, a failover, an upgrade, a seal.
Move(e) ==
  /\ moves < MaxMoves
  /\ moves' = moves + 1
  /\ endpoint' = e
  /\ UNCHANGED <<context, captured, pc, req, seen, wire, reply, committed, applied,
                 sent, runs, served>>

Endpoints ==
  [cluster : Clusters, version : Versions, node : {"active", "standby", "unusable"}]

Client(k) ==
  \/ \E op \in {"read", "write"}, p \in UsedPolicies :
       \/ Start(k, op, {}, p)
       \/ \E i \in captured : Start(k, op, {i}, p)
  \/ Preflight(k) \/ Accept(k) \/ Fail(k)

Next ==
  \/ \E x \in Contexts : Open(x)
  \/ \E k \in Calls : Client(k) \/ ServeRead(k) \/ ServeWrite(k) \/ Refuse(k) \/ Lose(k)
  \/ \E c \in Clusters : Replicate(c)
  \/ \E e \in Endpoints : Move(e)

Spec == Init /\ [][Next]_vars

-----------------------------------------------------------------------------
(* Properties *)

Option(S) == {{}} \cup {{s} : s \in S}

ScopedIndices == [cluster : Clusters, value : 1 .. MaxCommits, ctx : Contexts]

\* Every policy names what to do when waiting did not help.
HeaderLists ==
  {<<"fail">>, <<"forward-active-node">>,
   <<"await-state", "fail">>, <<"await-state", "forward-active-node">>}

Requests ==
  [op : {"none", "read", "write"}, after : Option(ScopedIndices),
   headers : HeaderLists \cup {<<>>}]

Replies == [ok : BOOLEAN, value : 0 .. MaxCommits, index : Option(Indices)]

\* The shape of every value; an inconsistent request always names what to do
\* when waiting did not help.
TypeOK ==
  /\ opened \in [Contexts -> Option(Servers)]
  /\ captured \subseteq ScopedIndices
  /\ of \in [Calls -> Contexts]
  /\ pc \in [Calls -> {"idle", "preflight", "sent", "ok", "failed"}]
  /\ req \in [Calls -> Requests]
  /\ seen \in [Calls -> Option(Servers)]
  /\ wire \subseteq Calls
  /\ reply \in [Calls -> Option(Replies)]
  /\ endpoint \in Endpoints
  /\ committed \in [Clusters -> 0 .. MaxCommits] /\ applied \in [Clusters -> 0 .. MaxCommits]
  /\ moves \in 0 .. MaxMoves
  /\ sent \in [Calls -> Nat] /\ runs \in [Calls -> Nat]
  /\ served \in [Calls -> Option(Servers)]

\* An index is only ever sent by the context that captured it, and what a
\* context captured was issued for a write of its own, by its own cluster:
\* never by the cluster a load balancer happened to lead to.
IndexProvenance ==
  /\ \A k \in Calls : \A i \in req[k].after : i \in captured /\ i.ctx = of[k]
  /\ \A i \in captured : \E k \in Calls :
       /\ of[k] = i.ctx /\ req[k].op = "write" /\ runs[k] = 1
       /\ \A s \in opened[i.ctx] \cup served[k] : s.cluster = i.cluster

\* A call sends its operation once and the server executes it at most once,
\* also when it is refused with 429, times out, is dropped or cannot be decoded.
NeverReplayed == \A k \in Calls : sent[k] <= 1 /\ runs[k] <= sent[k]

\* The server that answered is the one the preflight found.
Undisturbed(k) == served[k] = seen[k]

\* A call that names an index and succeeds has seen the write behind it,
\* whatever node answered, unless the endpoint moved to another cluster between
\* preflight and operation.
ReadYourWrites ==
  \A k \in Calls : pc[k] = "ok" /\ Undisturbed(k) =>
    \A i \in req[k].after, r \in reply[k] : r.value >= i.value

\* A context is only opened on a server whose reviewed and promoted version was
\* verified, not assumed, and its calls only succeed on such a server unless
\* the endpoint moved between preflight and operation.
VerifiedServer ==
  /\ \A x \in Contexts : \A s \in opened[x] :
       /\ s.version \in Reviewed \cap Routable
       /\ report.tag = "Ok" /\ report.status = "Verified" /\ report.detected = s.version
  /\ \A k \in Calls : pc[k] = "ok" /\ Undisturbed(k) => served[k] = opened[of[k]]
=============================================================================
