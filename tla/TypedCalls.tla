----------------------------- MODULE TypedCalls ------------------------------
(***************************************************************************)
(* What a typed method of an engine, an auth method or the system client    *)
(* asks of the request layer: a method, a path under its mount, the query   *)
(* pairs a route depends on, and the versioned fields it may or must carry. *)
(*                                                                          *)
(* A path holds the words of the code and its arguments.  An argument is    *)
(* written after how the code admits it:                                    *)
(*   "[type]"   a number or the spelling of an enum, one segment;           *)
(*   "{name}"   a caller's name that must be one segment;                   *)
(*   "{name+}"  a caller's name of one or more segments                     *)
(*              (validate_mount_path splits it at its slashes);             *)
(*   "{name*}"  a caller's name of any number of segments, none included    *)
(*              (validate_endpoint_path).                                   *)
(***************************************************************************)
EXTENDS RequestCompatibility, Sequences

Values ==
  {"[algorithm]", "[bytes]", "[key_type]", "[plugin_type]", "[source]", "[type]",
   "[version]"}

SingleNames ==
  {"{alias_identifier}", "{config}", "{key}", "{migration_id}", "{mount_accessor}",
   "{name}", "{username}"}

\* path.rs: validate_mount_path refuses an empty path, validate_endpoint_path
\* does not; both split at the slashes.
validate_mount_path ==
  {"{destination+}", "{mount+}", "{mount_path+}", "{name+}", "{path+}", "{prefix+}",
   "{provider+}", "{role_name+}", "{source+}"}

validate_endpoint_path ==
  {"{encoded_request*}", "{id*}", "{issuer_name*}", "{issuer_ref*}", "{key_id*}",
   "{key_ref*}", "{method_id*}", "{name*}", "{path*}", "{prefix*}", "{role*}",
   "{serial*}"}

Names == SingleNames \cup validate_mount_path \cup validate_endpoint_path

Arguments == Values \cup Names

-----------------------------------------------------------------------------
Call(name, method, path) ==
  [name |-> name, method |-> method, path |-> path, query |-> {},
   required |-> {}, optional |-> {}]

Asking(key, value, call) == [call EXCEPT !.query = {<<key, value>>}]

Needing(fields, call) == [call EXCEPT !.required = fields]

Offering(fields, call) == [call EXCEPT !.optional = fields]

\* RegisteredRouteBinding.  scope is the first segment of the templates that
\* are considered, documented the mount the templates are written for.
Bound(binding, scope, documented, call) ==
  [binding |-> binding, scope |-> scope, documented |-> documented, call |-> call]

AuthMount(documented, calls) ==
  {Bound("AuthMount", "auth", documented, c) : c \in calls}

SecretMount(scope, documented, calls) ==
  {Bound("SecretMount", scope, documented, c) : c \in calls}

IdentityMount(calls) ==
  {Bound("IdentityMount", "identity", "identity", c) : c \in calls}

Exact(scope, calls) == {Bound("Exact", scope, scope, c) : c \in calls}
=============================================================================
