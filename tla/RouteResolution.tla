--------------------------- MODULE RouteResolution ---------------------------
(***************************************************************************)
(* Which registry operation a request path stands for: the template matcher *)
(* and the choice among several matches of src/src/client.rs, and the paths *)
(* a mounted engine's request is looked up under.                           *)
(***************************************************************************)
EXTENDS RequestCompatibility, Sequences, FiniteSets

CONSTANT Operations   \* GENERATED_OPERATIONS

openbao_operations == Operations

-----------------------------------------------------------------------------
(* Segments of a template, told apart by their first characters.             *)

route_placeholder_is_multi_segment == {":path", ":prefix"}

SingleSegment ==
  {":alias-identifier", ":destination", ":id", ":issuer_name", ":issuer_ref", ":key_id",
   ":key_ref", ":key_type", ":method_id", ":migration_id", ":mount_accessor", ":name",
   ":role", ":role_name", ":secret-mount-path", ":serial", ":set_name", ":source",
   ":type", ":username"}

Angled == {"<base 64+URL encoded ocsp DER request>"}

Optional ==
  {"(/:algorithm)", "(/:bytes)", "(/:hash_algorithm)", "(/:name)", "(/:source)",
   "(/:version)"}

Placeholders ==
  route_placeholder_is_multi_segment \cup SingleSegment \cup Angled \cup Optional

\* "(a|b)" stands for either word, any other word for itself.
Alternatives(segment) ==
  IF segment = "(root|recovery)" THEN {"root", "recovery"} ELSE {segment}

\* A query value the caller chooses.
QueryPlaceholders == {":version", ":version-number"}

-----------------------------------------------------------------------------
(* route_template_matches.                                                   *)

Without(path, dropped) ==
  LET kept == SelectSeq([i \in 1..Len(path) |-> i], LAMBDA i : i \notin dropped)
  IN  [i \in 1..Len(kept) |-> path[kept[i]]]

OptionalSegments(path) == {i \in 1..Len(path) : path[i] \in Optional}

\* Every choice of the optional segments; a kept one is an ordinary placeholder.
expand_optional_route_templates(path) ==
  IF OptionalSegments(path) = {} THEN {path}
  ELSE {Without(path, dropped) : dropped \in SUBSET OptionalSegments(path)}

After(path, n) == SubSeq(path, n + 1, Len(path))

Accepts(segment, word) == segment \in Placeholders \/ word \in Alternatives(segment)

\* The paths a template matches: route_segments_match_at, as a function of the
\* segments that are left.
route_segments_match[template \in Seq(STRING)] ==
  {actual \in Seq(STRING) :
     IF template = <<>> THEN actual = <<>>
     ELSE IF template[1] \in route_placeholder_is_multi_segment
          THEN \E n \in 1..Len(actual) : After(actual, n) \in route_segments_match[Tail(template)]
     ELSE /\ actual # <<>>
          /\ Accepts(template[1], actual[1])
          /\ Tail(actual) \in route_segments_match[Tail(template)]}

\* No caller repeats a key, so a query is a set of pairs.
QueryMatches(expected, query) ==
  \A pair \in expected :
    IF \E asked \in query : asked[1] = pair[1]
    THEN pair[2] \in QueryPlaceholders \/ pair \in query
    ELSE pair[2] \in QueryPlaceholders

route_template_matches(op, path, query) ==
  /\ \E template \in expand_optional_route_templates(op.path) :
       path \in route_segments_match[template]
  /\ QueryMatches(op.query, query)

-----------------------------------------------------------------------------
(* The choice of resolve_registered_openbao_endpoint.                        *)

IsStatic(segment) == segment \notin Placeholders \ Angled

route_template_specificity(op) ==
  Cardinality(op.query) * 10000
  + Cardinality({i \in DOMAIN op.path : IsStatic(op.path[i])}) * 100
  + Len(op.path)

\* The operations of a scope prefix; one of the ACME protocol has no HTTP method
\* (reqwest_method) and is skipped.
Matches(scope, method, path, query) ==
  {op \in openbao_operations :
     /\ op.method = method /\ method # "ACME" /\ op.path[1] = scope
     /\ route_template_matches(op, path, query)}

\* Mutant of MostSpecific: the comparison is turned round.
MostSpecific_least(ops) ==
  {op \in ops : \A other \in ops :
     route_template_specificity(op) <= route_template_specificity(other)}

MostSpecific(ops) ==
  {op \in ops : \A other \in ops :
     route_template_specificity(other) <= route_template_specificity(op)}

-----------------------------------------------------------------------------
(* What makes the choice unambiguous.  Templates are compared segment by     *)
(* segment, from both ends, as far as no segment stands for several.         *)

\* The templates that wide covers: it matches whatever they match.
Covered[wide \in Seq(STRING)] ==
  {narrow \in Seq(STRING) :
     IF wide = <<>> THEN narrow = <<>>
     ELSE IF wide[1] \in route_placeholder_is_multi_segment
          THEN \E n \in 1..Len(narrow) : After(narrow, n) \in Covered[Tail(wide)]
     ELSE /\ narrow # <<>>
          /\ narrow[1] \notin route_placeholder_is_multi_segment
          /\ \/ wide[1] \in Placeholders
             \/ /\ narrow[1] \notin Placeholders
                /\ Alternatives(narrow[1]) \subseteq Alternatives(wide[1])
          /\ Tail(narrow) \in Covered[Tail(wide)]}

QueryCovers(wide, narrow) ==
  \A pair \in wide.query : pair[2] \in QueryPlaceholders \/ pair \in narrow.query

SegmentsMeet(s, t) ==
  s \in Placeholders \/ t \in Placeholders \/ Alternatives(s) \cap Alternatives(t) # {}

Leading(t) ==
  {i \in DOMAIN t : \A j \in 1..i : t[j] \notin route_placeholder_is_multi_segment}

Trailing(t) ==
  {i \in DOMAIN t : \A j \in i..Len(t) : t[j] \notin route_placeholder_is_multi_segment}

IsRigid(t) == \A i \in DOMAIN t : t[i] \notin route_placeholder_is_multi_segment

\* No path is matched by both.
Apart(s, t) ==
  \/ \E i \in Leading(s) \cap Leading(t) : ~SegmentsMeet(s[i], t[i])
  \/ \E i \in Trailing(s), j \in Trailing(t) :
       Len(s) - i = Len(t) - j /\ ~SegmentsMeet(s[i], t[j])
  \/ IsRigid(s) /\ Len(s) < Len(t)
  \/ IsRigid(t) /\ Len(t) < Len(s)

Rivals(op, other) ==
  /\ op # other /\ op.method = other.method /\ op.path[1] = other.path[1]
  /\ route_template_specificity(other) <= route_template_specificity(op)

\* GENERATED_OPERATIONS is a table of templates that start with a mount.  Of two
\* operations that may match one request, one has the higher score, and the
\* other covers it.
ASSUME RegistryAssumption ==
  /\ IsFiniteSet(Operations)
  /\ \A op \in Operations :
       /\ IsFiniteSet(op.query) /\ op.path \in Seq(STRING)
       /\ \A form \in expand_optional_route_templates(op.path) :
            form \in Seq(STRING) /\ form # <<>> /\ form[1] = op.path[1]
  /\ \A op, other \in Operations : Rivals(op, other) =>
       \A n \in expand_optional_route_templates(op.path),
          w \in expand_optional_route_templates(other.path) :
         \/ Apart(n, w)
         \/ /\ route_template_specificity(other) < route_template_specificity(op)
            /\ QueryCovers(other, op)
            /\ n \in Covered[w]

-----------------------------------------------------------------------------
(* Registry paths.                                                           *)

HasPrefix(path, prefix) ==
  Len(path) >= Len(prefix) /\ SubSeq(path, 1, Len(prefix)) = prefix

HasSuffix(path, suffix) ==
  /\ Len(path) >= Len(suffix)
  /\ SubSeq(path, Len(path) - Len(suffix) + 1, Len(path)) = suffix

NoPath == <<>>

auth_registry_path(documented, mount, wire) ==
  IF HasPrefix(wire, <<"auth">> \o mount)
  THEN <<"auth", documented>> \o After(wire, Len(mount) + 1)
  ELSE NoPath

RootMarker == "__openbao_root__"

VersionedOperations ==
  {"data", "delete", "destroy", "undelete", "metadata", "detailed-metadata", "subkeys"}

\* Mutant of secret_registry_path: only the bare mount is marked.
secret_registry_path_unversioned(documented, mount, wire) ==
  LET normalized == <<documented>> \o After(wire, Len(mount))
  IN  IF ~HasPrefix(wire, mount) THEN NoPath
      ELSE IF Len(normalized) = 1 THEN Append(normalized, RootMarker)
      ELSE normalized

\* The root of an engine, or of one of its versioned trees, is looked up under
\* a marker that never reaches the wire.
secret_registry_path(documented, mount, wire) ==
  LET normalized == <<documented>> \o After(wire, Len(mount))
  IN  IF ~HasPrefix(wire, mount) THEN NoPath
      ELSE IF \/ Len(normalized) = 1
              \/ Len(normalized) = 2 /\ normalized[2] \in VersionedOperations
           THEN Append(normalized, RootMarker)
      ELSE normalized

\* RegisteredRouteBinding::registered, for the exact and the identity mounts.
registered(scope, registry, wire) ==
  IF registry = wire THEN wire
  ELSE IF /\ scope = "identity"
          /\ Len(registry) > 1
          /\ registry[1] = "identity"
          /\ Len(wire) > Len(registry) - 1
          /\ HasSuffix(wire, Tail(registry))
       THEN registry
  ELSE NoPath
=============================================================================
