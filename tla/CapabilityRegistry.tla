------------------------- MODULE CapabilityRegistry --------------------------
(***************************************************************************)
(* src/src/generated/openbao_capabilities.rs as data: the operations every  *)
(* typed request is routed by, and the endpoints whose route moved between  *)
(* releases.                                                                *)
(***************************************************************************)
EXTENDS ReadOperations, WriteOperations

GENERATED_OPERATIONS ==
  AcmeOperations \cup DeleteOperations \cup GetOperations \cup HeadOperations
  \cup ListOperations \cup PatchOperations \cup PostOperations \cup PutOperations \cup ScanOperations

-----------------------------------------------------------------------------
(* OpenBaoEndpointSpec: the same request under two routes, by release.       *)

Variant(method, path, v, w) ==
  [method |-> method, path |-> path, minimum |-> v, maximum |-> w]

GENERATED_SYS_GENERATE_ROOT_CANCEL == {
  Variant("DELETE", <<"sys", "generate-root", "attempt">>, 200, 255),
  Variant("DELETE", <<"sys", "generate-root-token", "attempt">>, 260, 270),
  Variant("DELETE", <<"sys", "generate-root-token", "attempt">>, 271, 271),
  Variant("DELETE", <<"sys", "generate-root-token", "attempt">>, 272, 272)}

GENERATED_SYS_GENERATE_ROOT_START == {
  Variant("POST", <<"sys", "generate-root", "attempt">>, 200, 255),
  Variant("POST", <<"sys", "generate-root-token", "attempt">>, 260, 270),
  Variant("POST", <<"sys", "generate-root-token", "attempt">>, 271, 271),
  Variant("POST", <<"sys", "generate-root-token", "attempt">>, 272, 272)}

GENERATED_SYS_GENERATE_ROOT_STATUS == {
  Variant("GET", <<"sys", "generate-root", "attempt">>, 200, 255),
  Variant("GET", <<"sys", "generate-root-token", "attempt">>, 260, 270),
  Variant("GET", <<"sys", "generate-root-token", "attempt">>, 271, 271),
  Variant("GET", <<"sys", "generate-root-token", "attempt">>, 272, 272)}

GENERATED_SYS_GENERATE_ROOT_UPDATE == {
  Variant("POST", <<"sys", "generate-root", "update">>, 200, 255),
  Variant("POST", <<"sys", "generate-root-token", "update">>, 260, 270),
  Variant("POST", <<"sys", "generate-root-token", "update">>, 271, 271),
  Variant("POST", <<"sys", "generate-root-token", "update">>, 272, 272)}

GENERATED_SYS_INTERNAL_REQUEST_INSPECTION == {
  Variant("GET", <<"sys", "internal", "inspect", "request", "root">>, 255, 255),
  Variant("GET", <<"sys", "internal", "inspect", "request">>, 270, 270),
  Variant("GET", <<"sys", "internal", "inspect", "request">>, 271, 271),
  Variant("GET", <<"sys", "internal", "inspect", "request">>, 272, 272)}
=============================================================================
