------------------------- MODULE CompatibilityPolicy -------------------------
(***************************************************************************)
(* The version policies of src/src/compatibility.rs as pure operators: what *)
(* a policy may be built from, and how it judges a version the server       *)
(* reported.                                                                *)
(*                                                                          *)
(* A version is a natural number: the code only compares versions (derived  *)
(* Ord on major, minor, patch) and looks them up in sorted inventories.     *)
(* NoVersion stands for Option::None.                                       *)
(***************************************************************************)
EXTENDS Integers

CONSTANTS
  Versions,    \* the versions a server may report
  Generated,   \* GENERATED_PROFILE_VERSIONS: releases with an evidence profile
  Routable     \* GENERATED_ROUTABLE_PROFILE_VERSIONS: the promoted ones

ASSUME InventoryAssumption ==
  /\ Versions \subseteq Nat
  /\ Routable \subseteq Generated
  /\ Generated \subseteq Versions

NoVersion == -1

is_generated_profile(v) == v \in Generated

is_routable_profile(v) == v \in Routable

\* The last entry of the sorted inventory, or NoVersion when it is empty.
latest_routable_profile ==
  IF \E v \in Routable : \A w \in Routable : w <= v
  THEN CHOOSE v \in Routable : \A w \in Routable : w <= v
  ELSE NoVersion

-----------------------------------------------------------------------------
(* Policies.  Exact and Assumed carry the closed range [v, v], as            *)
(* OpenBaoCompatibilityPolicy::requirement reports it; the two automatic     *)
(* policies carry none.  NoPolicy is a client built without a policy.        *)

Requirement(lo, hi) == [minimum |-> lo, maximum |-> hi]

NoRequirement == Requirement(NoVersion, NoVersion)

Policy(k, req) == [kind |-> k, requirement |-> req]

NoPolicy == Policy("None", NoRequirement)

\* OpenBaoVersionRequirement::inclusive refuses an inverted range; every
\* constructor that names a version refuses one outside the routable inventory.
Policies ==
  {NoPolicy, Policy("AutomaticStrict", NoRequirement),
             Policy("AcknowledgedUnknownNewer", NoRequirement)}
  \cup {Policy(k, Requirement(v, v)) : k \in {"Exact", "Assumed"}, v \in Routable}
  \cup {Policy("Range", Requirement(r[1], r[2])) :
          r \in {q \in Routable \X Routable : q[1] <= q[2]}}

-----------------------------------------------------------------------------
(* Reports and failures, the two sides of CachedCompatibilityResult.         *)

Report(s, k, req, detected, profile) ==
  [tag |-> "Ok", status |-> s, policy |-> k, requirement |-> req,
   detected |-> detected, profile |-> profile]

unverified == Report("Unverified", "None", NoRequirement, NoVersion, NoVersion)

verified(p, v) == Report("Verified", p.kind, p.requirement, v, v)

assumed(v) == Report("Assumed", "Assumed", Requirement(v, v), NoVersion, v)

acknowledged_unknown_newer(v, latest) ==
  Report("AcknowledgedUnknownNewer", "AcknowledgedUnknownNewer", NoRequirement, v, latest)

Failure(k, v) == [tag |-> "Err", kind |-> k, detected |-> v]

VersionMismatch(v) == Failure("VersionMismatch", v)

UnknownVersion(v) == Failure("UnknownVersion", v)

ProbeFailure == Failure("Probe", NoVersion)

contains(req, v) == req.minimum <= v /\ v <= req.maximum

-----------------------------------------------------------------------------
(* Only Assumed, and the absence of a policy, are settled without a probe.   *)

IsImmediate(p) == p.kind \in {"None", "Assumed"}

immediate_report(p) ==
  IF p.kind = "None" THEN unverified ELSE assumed(p.requirement.minimum)

\* Mutant of evaluate_detected: a range admits every version between its ends.
evaluate_detected_open_range(p, v) ==
  CASE p.kind = "Exact" ->
         IF v # p.requirement.minimum THEN VersionMismatch(v) ELSE verified(p, v)
    [] p.kind = "Range" ->
         IF ~contains(p.requirement, v) THEN VersionMismatch(v) ELSE verified(p, v)
    [] OTHER ->
         IF ~is_routable_profile(v) THEN UnknownVersion(v) ELSE verified(p, v)

evaluate_detected(p, v) ==
  CASE p.kind = "Exact" ->
         IF v # p.requirement.minimum THEN VersionMismatch(v) ELSE verified(p, v)
    [] p.kind = "Range" ->
         IF ~contains(p.requirement, v) THEN VersionMismatch(v)
         ELSE IF ~is_routable_profile(v) THEN UnknownVersion(v)
         ELSE verified(p, v)
    [] p.kind = "AutomaticStrict" ->
         IF ~is_routable_profile(v) THEN UnknownVersion(v) ELSE verified(p, v)
    [] p.kind = "Assumed" -> assumed(p.requirement.minimum)
    [] p.kind = "AcknowledgedUnknownNewer" ->
         IF is_routable_profile(v) THEN verified(p, v)
         ELSE IF latest_routable_profile = NoVersion THEN UnknownVersion(v)
         ELSE IF v > latest_routable_profile
              THEN acknowledged_unknown_newer(v, latest_routable_profile)
         ELSE UnknownVersion(v)

\* What evaluate_compatibility_policy returns once the probe has answered;
\* NoVersion is a probe that failed at any of its steps.
EvaluatePolicy(p, probed) ==
  IF IsImmediate(p) THEN immediate_report(p)
  ELSE IF probed = NoVersion THEN ProbeFailure
  ELSE evaluate_detected(p, probed)
=============================================================================
