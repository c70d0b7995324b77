----------------------------- MODULE CapabilityRecords -----------------------------
(***************************************************************************)
(* What src/src/generated/openbao_capabilities.rs is made of: the release   *)
(* inventories, and operations with the releases they exist in.             *)
(*                                                                          *)
(* A release 2.m.p is the number 2mp.  A route template is the sequence of  *)
(* its segments as they are written in the table, a trailing optional       *)
(* segment such as "(/:name)" included.  Identifiers and documentation      *)
(* links are left out: a method and a template identify an operation.       *)
(***************************************************************************)
EXTENDS Integers, Sequences

\* GENERATED_PROFILE_VERSIONS and GENERATED_ROUTABLE_PROFILE_VERSIONS.
GENERATED_PROFILE_VERSIONS ==
  {200, 201, 202, 203, 210, 211, 220, 221, 222, 231, 232, 240, 241, 243, 244,
   250, 251, 252, 253, 254, 255, 260, 261, 262, 263, 264, 265, 270, 271, 272}

GENERATED_ROUTABLE_PROFILE_VERSIONS ==
  {200, 201, 202, 203, 210, 211, 220, 221, 222, 231, 232, 240, 241, 243, 244,
   250, 251, 252, 253, 254, 255, 260, 261, 262, 263, 264, 265, 270, 271, 272}

-----------------------------------------------------------------------------
(* OpenBaoCapabilityRange: the releases with evidence for a route, and those *)
(* among them whose range is security_blocked.                               *)

First == 200

Last == 272

Between(v, w) == [evidence |-> v..w, security_blocked |-> {}]

Always == Between(First, Last)

Since(v) == Between(v, Last)

Until(v) == Between(First, v)

Blocked(ranges, v, w) == [ranges EXCEPT !.security_blocked = v..w]

\* OpenBaoOperation; disposition is Typed, TypedGated or SecurityBlocked.
Operation(disposition, method, path, ranges) ==
  [disposition |-> disposition, method |-> method, path |-> path, query |-> {},
   ranges |-> ranges]

Typed(method, path, ranges) == Operation("Typed", method, path, ranges)

Gated(method, path, ranges) == Operation("TypedGated", method, path, ranges)

Refused(method, path, ranges) == Operation("SecurityBlocked", method, path, ranges)

\* A template that ends in ?key=value.
WithQuery(operation, key, value) ==
  [operation EXCEPT !.query = {<<key, value>>}]
=============================================================================
