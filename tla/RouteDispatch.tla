---------------------------- MODULE RouteDispatch ----------------------------
(***************************************************************************)
(* A typed call on its way to the wire: the versioned fields it selects are *)
(* checked, its path is resolved to a registry operation, and the operation *)
(* is admitted or refused by the profile, by the plugins the client was     *)
(* configured with and by the version the server reported                   *)
(* (src/src/client.rs, src/src/compatibility.rs, src/src/plugin).           *)
(*                                                                          *)
(* A client keeps its compatibility result and its plugin selections for    *)
(* life, so both are chosen in Init.                                        *)
(***************************************************************************)
EXTENDS RouteResolution

CONSTANTS
  Requests,     \* the requests typed calls make
  Results,      \* compatibility results a client may hold
  Plugins,      \* plugin configurations: sets of ExternalPluginSelection
  Contracts     \* reviewed_operations

\* A client holds what some policy makes of some probe; external_plugin admits
\* the reviewed releases alone and refuses a second selection of a mount scope.
ASSUME ClientAssumption ==
  /\ Results \subseteq {EvaluatePolicy(p, v) : p \in Policies, v \in Versions \cup {NoVersion}}
  /\ \A config \in Plugins : \A s, t \in config :
       s.mount = t.mount /\ (s.kind = "LdapSecrets" <=> t.kind = "LdapSecrets") => s = t
  /\ \A config \in Plugins : \A s \in config : s.server \in Reviewed

VARIABLES
  report,    \* what ensure_compatibility returns
  plugins,   \* config.external_plugins
  request,   \* the call in flight
  stage,     \* "idle", "fields", "route" or "done"
  outcome    \* how the last call ended

vars == <<report, plugins, request, stage, outcome>>

NoRequest == [name |-> "none"]

NoOperation == [path |-> NoPath]

Outcome(result, op) == [result |-> result, operation |-> op]

NoOutcome == Outcome("None", NoOperation)

-----------------------------------------------------------------------------
(* Profiles and availability.                                                *)

legacy_unverified_profile == IF 263 \in Routable THEN 263 ELSE NoVersion

\* The inventory is generated with the release a client without a policy uses.
ASSUME LegacyAssumption == legacy_unverified_profile # NoVersion

\* The profile a request is routed by; the server it is meant for is the one
\* that was detected, and the profile where none was.
ProfileVersion(rep) ==
  IF rep.profile # NoVersion THEN rep.profile
  ELSE IF rep.status = "Unverified" THEN legacy_unverified_profile
  ELSE NoVersion

ServerVersion(rep) ==
  IF rep.detected # NoVersion THEN rep.detected ELSE ProfileVersion(rep)

NoKind == "None"

for_path(path) ==
  CASE HasPrefix(path, <<"auth", "ldap">>)     -> "LdapAuth"
    [] HasPrefix(path, <<"auth", "kerberos">>) -> "KerberosAuth"
    [] HasPrefix(path, <<"auth", "radius">>)   -> "RadiusAuth"
    [] HasPrefix(path, <<"ldap">>)             -> "LdapSecrets"
    [] OTHER                                   -> NoKind

is_auth(kind) == kind # "LdapSecrets"

requires_unverified_external_plugin(path, v) == v >= V2_7_0 /\ for_path(path) # NoKind

availability(op, v) ==
  IF ~is_generated_profile(v) THEN "Unknown"
  ELSE IF requires_unverified_external_plugin(op.path, v) THEN "SecurityBlocked"
  ELSE IF v \notin op.ranges.evidence THEN "NotDocumented"
  ELSE IF v \in op.ranges.security_blocked \/ op.disposition = "SecurityBlocked"
       THEN "SecurityBlocked"
  ELSE "DocumentedRoute"

-----------------------------------------------------------------------------
(* External plugins.                                                         *)

matches_mount_scope(s, kind, mount) == is_auth(s.kind) = is_auth(kind) /\ s.mount = mount

\* The mount a selection is looked up for; identity and system paths have none.
PluginMount(r) == IF r.binding \in {"AuthMount", "SecretMount"} THEN r.mount ELSE NoPath

PluginSelection(r, op) ==
  {s \in plugins : /\ for_path(op.path) # NoKind
                   /\ PluginMount(r) # NoPath
                   /\ matches_mount_scope(s, for_path(op.path), PluginMount(r))}

\* Mutant of supports_contract: the profile may be assumed.
supports_contract_by_profile(s, op) ==
  /\ report.profile = s.server
  /\ for_path(op.path) = s.kind
  /\ <<op.method, op.path>> \in Contracts[s.kind]

\* ExternalPluginSelection::supports.
supports_contract(s, op) ==
  /\ report.status = "Verified"
  /\ report.detected = s.server
  /\ report.profile = s.server
  /\ for_path(op.path) = s.kind
  /\ <<op.method, op.path>> \in Contracts[s.kind]

-----------------------------------------------------------------------------
(* Resolution.                                                               *)

\* The path the call puts on the wire.
Wire(r) ==
  CASE r.binding = "AuthMount" -> <<"auth">> \o r.mount \o r.tail
    [] r.binding = "Exact"     -> <<r.scope>> \o r.tail
    [] OTHER                   -> r.mount \o r.tail

RegistryPath(r) ==
  CASE r.binding = "AuthMount"   -> auth_registry_path(r.documented, r.mount, Wire(r))
    [] r.binding = "SecretMount" -> secret_registry_path(r.documented, r.mount, Wire(r))
    [] OTHER                     -> registered(r.scope, <<r.documented>> \o r.tail, Wire(r))

\* The operations a request's path matches, computed once per request.
Matching == [r \in Requests |->
  IF r.binding = "Literal" \/ RegistryPath(r) = NoPath THEN {}
  ELSE Matches(r.scope, r.method, RegistryPath(r), r.query)]

\* resolve_registered_openbao_endpoint, once one operation is selected.
Admission(r, op) ==
  LET selection == PluginSelection(r, op)
      contract  == \E s \in selection : supports_contract(s, op)
      needed    == \/ selection # {}
                   \/ requires_unverified_external_plugin(op.path, ServerVersion(report))
      refused   == \/ needed /\ ~contract
                   \/ ~contract /\ availability(op, ProfileVersion(report)) # "DocumentedRoute"
                   \/ op.disposition \notin {"Typed", "TypedGated"}
  IN  Outcome(IF refused THEN "UnsupportedCapability" ELSE "Sent", op)

Registered(r) ==
  LET selected == MostSpecific(Matching[r])
  IN  IF Cardinality(selected) = 1
      THEN Admission(r, CHOOSE op \in selected : TRUE)
      ELSE Outcome("Internal", NoOperation)

\* validate_endpoint_spec: the variants do not overlap, and the registry has
\* evidence for each of them wherever it applies.
validate_endpoint_spec(variants) ==
  /\ variants # {}
  /\ \A x \in variants :
       /\ x.minimum <= x.maximum
       /\ is_generated_profile(x.minimum) /\ is_generated_profile(x.maximum)
       /\ \E op \in openbao_operations :
            /\ op.method = x.method /\ op.path = x.path
            /\ \A v \in Generated \cap (x.minimum)..(x.maximum) :
                 availability(op, v) \in {"DocumentedRoute", "SecurityBlocked"}
       /\ \A y \in variants \ {x} : x.maximum < y.minimum \/ y.maximum < x.minimum

WellFormed(r) == r.binding = "Literal" => validate_endpoint_spec(r.variants)

\* resolve_openbao_literal_endpoint and resolve_openbao_endpoint_for_profile.
Literal(r) ==
  LET v        == ProfileVersion(report)
      selected == {x \in r.variants : x.minimum <= v /\ v <= x.maximum}
      ops      == {op \in openbao_operations :
                     \E x \in selected : op.method = x.method /\ op.path = x.path}
      op       == CHOOSE o \in ops : TRUE
  IN  IF Cardinality(selected) > 1 THEN Outcome("Internal", NoOperation)
      ELSE IF selected = {} THEN Outcome("UnsupportedCapability", NoOperation)
      ELSE IF \/ availability(op, v) # "DocumentedRoute"
              \/ op.disposition \notin {"Typed", "TypedGated"}
           THEN Outcome("UnsupportedCapability", op)
      ELSE Outcome("Sent", op)

\* Both checks start from ensure_compatibility and a routable profile.
Refusal ==
  IF report.tag = "Err" THEN "Compatibility"
  ELSE IF ProfileVersion(report) = NoVersion THEN "Internal"
  ELSE IF ~is_routable_profile(ProfileVersion(report)) THEN "UnsupportedVersion"
  ELSE "None"

\* The requests carry fields of request_compatibility.rs, and no endpoint that
\* moved between releases belongs to a plugin.
ASSUME RequestAssumption ==
  \A r \in Requests :
    /\ r.fields \subseteq Fields
    /\ r.binding = "Literal" => \A x \in r.variants : for_path(x.path) = NoKind

-----------------------------------------------------------------------------
Init ==
  /\ report \in Results
  /\ plugins \in Plugins
  /\ request = NoRequest
  /\ stage = "idle"
  /\ outcome = NoOutcome

Issue ==
  /\ stage = "idle"
  /\ \E r \in DOMAIN Matching :
       /\ request' = r
       /\ stage' = IF r.fields = {} THEN "route" ELSE "fields"
  /\ outcome' = NoOutcome
  /\ UNCHANGED <<report, plugins>>

\* validate_versioned_request_fields and the gates of the 2.7 calls.
ValidateFields ==
  /\ stage = "fields"
  /\ IF Refusal # "None" THEN
          stage' = "done" /\ outcome' = Outcome(Refusal, NoOperation)
     ELSE IF \E f \in request.fields : ~Admits(f, report, ProfileVersion(report)) THEN
          stage' = "done" /\ outcome' = Outcome("UnsupportedField", NoOperation)
     ELSE stage' = "route" /\ UNCHANGED outcome
  /\ UNCHANGED <<report, plugins, request>>

Route ==
  /\ stage = "route"
  /\ stage' = "done"
  /\ outcome' = IF ~WellFormed(request) THEN Outcome("Internal", NoOperation)
                ELSE IF Refusal # "None" THEN Outcome(Refusal, NoOperation)
                ELSE IF request.binding = "Literal" THEN Literal(request)
                ELSE Registered(request)
  /\ UNCHANGED <<report, plugins, request>>

Finish ==
  /\ stage = "done"
  /\ stage' = "idle"
  /\ request' = NoRequest
  /\ outcome' = NoOutcome
  /\ UNCHANGED <<report, plugins>>

Next == Issue \/ ValidateFields \/ Route \/ Finish

Spec == Init /\ [][Next]_vars

-----------------------------------------------------------------------------
(* Properties.  A request's shape is its path as the documentation writes    *)
(* it, with Argument for each of the caller's arguments; it is plain when    *)
(* every name is one fresh segment, or the empty path of a tree that has a   *)
(* root.                                                                     *)

Argument == "argument"

Documents(op, shape) ==
  \E template \in expand_optional_route_templates(op.path) :
    /\ Len(template) = Len(shape)
    /\ \A i \in DOMAIN shape :
         IF shape[i] = Argument THEN template[i] \in Placeholders
         ELSE \/ i = 1 /\ template[i] \in Placeholders
              \/ shape[i] \in Alternatives(template[i])

\* The segments that stand for themselves in some template, or are one of the
\* words of a segment.
TemplateWords ==
  UNION {UNION {UNION {Alternatives(form[i]) : i \in DOMAIN form} :
                  form \in expand_optional_route_templates(op.path)} : op \in Operations}

\* The path of a shape whose arguments are words no template holds.
Spells(path, shape) ==
  /\ Len(path) = Len(shape)
  /\ \A i \in DOMAIN shape :
       IF shape[i] = Argument THEN path[i] \notin TemplateWords
       ELSE path[i] = shape[i] /\ shape[i] \notin Placeholders

\* The root of an engine or of one of its versioned trees.
IsRootPath(r) ==
  /\ r.binding = "SecretMount"
  /\ r.tail = <<>> \/ (Len(r.tail) = 1 /\ r.tail[1] \in VersionedOperations)

\* A request's path under the mount the documentation uses.
DocumentedPath(r) ==
  LET prefix == IF r.binding = "AuthMount" THEN <<"auth", r.documented>> ELSE <<r.documented>>
      marker == IF IsRootPath(r) THEN <<RootMarker>> ELSE <<>>
  IN  prefix \o r.tail \o marker

\* The segments the crate adds to a path are strings.
ASSUME SegmentAssumption == {"auth", "identity", RootMarker} \subseteq STRING

\* A plain request spells its shape, whatever mount it is made under; system and
\* identity paths are bound as their constructors bind them.
ASSUME PlainAssumption ==
  \A r \in Requests : r.plain /\ r.binding # "Literal" =>
    /\ r.binding \in {"AuthMount", "SecretMount", "IdentityMount", "Exact"}
    /\ r.tail \in Seq(STRING) /\ r.mount \in Seq(STRING) /\ r.mount # <<>>
    /\ r.documented \in STRING /\ r.shape \in Seq(STRING) /\ r.method # "ACME"
    /\ r.binding = "Exact" => r.scope = r.documented
    /\ r.binding = "IdentityMount" =>
         r.scope = "identity" /\ r.documented = "identity" /\ r.tail # <<>>
    /\ Spells(DocumentedPath(r), r.shape)

\* The registry has an operation for every plain request.
EveryCallDocumented ==
  \A r \in Requests : r.plain /\ r.binding # "Literal" =>
    \E op \in Operations :
      /\ op.method = r.method /\ op.path[1] = r.scope
      /\ QueryMatches(op.query, r.query) /\ Documents(op, r.shape)

\* A typed call whose arguments are plain is never lost in the registry: under
\* every mount, profile and plugin configuration it is refused for a reason it
\* reports, or it is judged by the registry operation that documents it.  The
\* call tables, the mount substitution, the root marker and the matcher have to
\* agree (resolve_registered_openbao_endpoint, client.rs).
ReachesItsOperation ==
  stage = "done" /\ request.binding # "Literal" /\ request.plain =>
    /\ outcome.result # "Internal"
    /\ outcome.operation # NoOperation => Documents(outcome.operation, request.shape)

\* The same promise for every call the crate offers, stated by the comment of
\* Error::Internal ("A crate invariant was violated") as never broken.
EveryCallRouted ==
  stage = "done" /\ request.plain => outcome.result # "Internal"

\* Whatever narrow stands for at this path, wide stands for too.
Covers(wide, narrow, path) ==
  /\ QueryCovers(wide, narrow)
  /\ \A w \in expand_optional_route_templates(wide.path),
        n \in expand_optional_route_templates(narrow.path) :
       path \in route_segments_match[w] /\ path \in route_segments_match[n] => n \in Covered[w]

\* Whatever a call asks, reserved words and slashes in the caller's names
\* included, the operation it is judged by is the narrowest that matches: every
\* other match covers it.  So the winner never depends on the order of the
\* registry or on a score two templates share by accident, and only a path no
\* template matches is an internal error (route_template_specificity, client.rs).
NarrowestOperation ==
  stage = "done" /\ request.binding # "Literal" =>
    LET matches == Matching[request]
        op      == outcome.operation
    IN  /\ op # NoOperation =>
             /\ op \in matches
             /\ \A other \in matches \ {op} : Covers(other, op, RegistryPath(request))
        /\ outcome.result = "Internal" => matches = {}

\* A call to a plugin that 2.7 removed from the server leaves the client only
\* when the server still has it built in and the caller selected nothing for
\* that mount, or when the caller selected that plugin at that mount for the
\* very release the server reported: no assumed, acknowledged or default
\* profile stands in for the report (ExternalPluginSelection::supports).
RemovedBuiltinsNeedContract ==
  stage = "done" /\ outcome.result = "Sent" /\ for_path(outcome.operation.path) # NoKind =>
    \/ /\ ServerVersion(report) < V2_7_0
       /\ PluginSelection(request, outcome.operation) = {}
    \/ \E s \in plugins :
         /\ s.kind = for_path(outcome.operation.path) /\ s.mount = request.mount
         /\ report.status = "Verified" /\ report.detected = s.server

\* A versioned field leaves the client only under a profile in which it exists,
\* and one that (re)appeared in 2.7 only when that profile is the release the
\* server reported or the caller assumed it; the controls reviewed patch by
\* patch need the report itself (validate_versioned_request_fields,
\* request_compatibility.rs).
ExistsIn(f, lo, v) ==
  /\ lo # NoVersion /\ lo <= v
  /\ lo = f.minimum /\ f.maximum # NoVersion => v <= f.maximum

FieldsNeedTheirProfile ==
  stage = "done" /\ outcome.result = "Sent" =>
    \A f \in request.fields : \E lo \in {f.minimum, f.resumed_at} :
      /\ ExistsIn(f, lo, ProfileVersion(report))
      /\ lo >= V2_7_0 => \/ report.detected = ProfileVersion(report)
                         \/ report.policy = "Assumed"
      /\ f.rule = "Reviewed" => report.detected \in Reviewed
=============================================================================
