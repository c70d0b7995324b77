-------------------------- MODULE MCRouteDispatch ---------------------------
(***************************************************************************)
(* The typed calls the registry has an operation for.                       *)
(***************************************************************************)
EXTENDS MCTypedRequests

ASSUME DocumentedAssumption == EveryCallDocumented
=============================================================================
