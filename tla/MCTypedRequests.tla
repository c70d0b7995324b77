-------------------------- MODULE MCTypedRequests ---------------------------
(***************************************************************************)
(* The requests of every typed call of the crate, the whole capability      *)
(* registry, and clients to make them.                                      *)
(***************************************************************************)
EXTENDS RouteDispatch, CapabilityRegistry, AuthCalls, EngineCalls, SystemCalls,
        PluginContracts

Releases == GENERATED_PROFILE_VERSIONS \cup {280}

-----------------------------------------------------------------------------
(* Requests: the calls, with their names, mounts and fields chosen.          *)

Calls == AuthMethodCalls \cup SecretsEngineCalls \cup SysCalls

Plain(path) == [i \in 1..Len(path) |-> IF path[i] \in Arguments THEN "fresh" ELSE path[i]]

Prefix(b) == IF b.binding = "AuthMount" THEN <<"auth", b.documented>> ELSE <<b.documented>>

Shape(b) ==
  Prefix(b) \o [i \in 1..Len(b.call.path) |->
                  IF b.call.path[i] \in Arguments THEN Argument ELSE b.call.path[i]]

Request(b, mount, tail, fields, plain) ==
  [name |-> b.call.name, method |-> b.call.method, binding |-> b.binding,
   scope |-> b.scope, documented |-> b.documented, mount |-> mount, tail |-> tail,
   query |-> b.call.query, fields |-> fields, variants |-> {},
   shape |-> Shape(b), plain |-> plain]

TeamMount == <<"team", "apps">>

\* The token method has a fixed mount, and so has the system backend.
Mounts(b) ==
  IF b.binding = "Exact" \/ b.documented = "token" THEN {<<b.documented>>}
  ELSE {<<b.documented>>, TeamMount}

FieldChoices(call) == {call.required \cup chosen : chosen \in {{}} \cup {{f} : f \in call.optional}}

PlainRequests(b) ==
  {Request(b, mount, Plain(b.call.path), fields, TRUE) :
     mount \in Mounts(b), fields \in FieldChoices(b.call)}

\* The words templates hold after the first n segments of a path.
WordsAfter(templates, path, n) ==
  LET reached == {t \in templates : /\ Len(t) > n
                                    /\ t[n + 1] \notin Placeholders
                                    /\ SubSeq(path, 1, n) \in route_segments_match[SubSeq(t, 1, n)]}
  IN  UNION {Alternatives(t[n + 1]) : t \in reached}

\* What a caller may put for the name at position i: a word the registry
\* reserves, several segments, or none, as the code admits them.
NameChoices(b, i, templates) ==
  LET path == Prefix(b) \o Plain(b.call.path)
      n    == Len(Prefix(b)) + i
      name == b.call.path[i]
  IN  {<<w>> : w \in WordsAfter(templates, path, n - 1)}
      \cup (IF name \in SingleNames THEN {}
            ELSE {<<"fresh", w>> : w \in {"part"} \cup WordsAfter(templates, path, n)})
      \cup (IF name \in validate_endpoint_path THEN {<<>>} ELSE {})

\* An empty path names the root of a versioned tree, a cubbyhole or a KV mount.
IsRoot(b, tail) ==
  /\ b.binding = "SecretMount"
  /\ tail = <<>> \/ (Len(tail) = 1 /\ tail[1] \in VersionedOperations)
  /\ b.scope \in {":secret-mount-path", "secret", "cubbyhole"}

OddRequests(b) ==
  LET path      == b.call.path
      templates == UNION {expand_optional_route_templates(op.path) :
                            op \in {o \in openbao_operations :
                                      o.method = b.call.method /\ o.path[1] = b.scope}}
      Naming(i, name) == SubSeq(Plain(path), 1, i - 1) \o name
                           \o SubSeq(Plain(path), i + 1, Len(path))
  IN  UNION {{Request(b, <<b.documented>>, Naming(i, name), b.call.required,
                      IsRoot(b, Naming(i, name))) : name \in NameChoices(b, i, templates)}
             : i \in {j \in 1..Len(path) : path[j] \in Names}}

\* The calls whose route moved between releases name no template.
LiteralRequest(name, variants) ==
  [name |-> name, method |-> "", binding |-> "Literal", scope |-> "sys",
   documented |-> "sys", mount |-> <<>>, tail |-> <<>>, query |-> {}, fields |-> {},
   variants |-> variants, shape |-> <<>>, plain |-> TRUE]

LiteralRequests ==
  {LiteralRequest("generate_root_cancel", GENERATED_SYS_GENERATE_ROOT_CANCEL),
   LiteralRequest("generate_root_start", GENERATED_SYS_GENERATE_ROOT_START),
   LiteralRequest("generate_root_status", GENERATED_SYS_GENERATE_ROOT_STATUS),
   LiteralRequest("generate_root_update", GENERATED_SYS_GENERATE_ROOT_UPDATE),
   LiteralRequest("inspect_request", GENERATED_SYS_INTERNAL_REQUEST_INSPECTION)}

\* The calls the registry has no operation for.
IsUnrouted(b) ==
  \/ b.documented = "ssh" /\ b.call.path = <<"issuers", "import">>
  \/ /\ b.documented = "identity" /\ b.call.method = "POST"
     /\ b.call.path \in {<<"mfa", "method", m>> : m \in {"duo", "okta", "pingid", "totp"}}

RoutedRequests ==
  LiteralRequests \cup
  UNION {OddRequests(b) \cup (IF IsUnrouted(b) THEN {} ELSE PlainRequests(b)) : b \in Calls}

AllPlainRequests == LiteralRequests \cup UNION {PlainRequests(b) : b \in Calls}

-----------------------------------------------------------------------------
(* Clients.                                                                  *)

Automatic(kind) == Policy(kind, NoRequirement)

Fixed(kind, v) == Policy(kind, Requirement(v, v))

ClientResults ==
  {unverified, assumed(255), assumed(272),
   EvaluatePolicy(Fixed("Exact", 265), 265),
   EvaluatePolicy(Fixed("Exact", 272), 272),
   EvaluatePolicy(Policy("Range", Requirement(270, 272)), 271),
   EvaluatePolicy(Automatic("AcknowledgedUnknownNewer"), 272),
   EvaluatePolicy(Automatic("AcknowledgedUnknownNewer"), 280),
   EvaluatePolicy(Automatic("AutomaticStrict"), 280)}
  \cup {EvaluatePolicy(Automatic("AutomaticStrict"), v) : v \in GENERATED_PROFILE_VERSIONS}

Selection(kind, mount, server) == [kind |-> kind, mount |-> mount, server |-> server]

ClientPlugins ==
  {{},
   {Selection("LdapAuth", <<"ldap">>, 272), Selection("LdapSecrets", <<"ldap">>, 270),
    Selection("RadiusAuth", TeamMount, 271)},
   {Selection("KerberosAuth", <<"ldap">>, 272), Selection("LdapAuth", TeamMount, 272)}}
=============================================================================
