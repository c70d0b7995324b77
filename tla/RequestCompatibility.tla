------------------------ MODULE RequestCompatibility -------------------------
(***************************************************************************)
(* src/src/request_compatibility.rs: the request fields that exist only in  *)
(* some releases, and the whole-call gates other files build the same way.  *)
(*                                                                          *)
(* A rule admits a field under a report and the profile it routes by.  The  *)
(* 2.7 gates (require_27, require_external_keys, require_control_groups)    *)
(* test what since(270) tests, a profile from 2.7.0 on that was verified or *)
(* assumed; which error they report is not modelled.                        *)
(***************************************************************************)
EXTENDS CompatibilityPolicy

\* The first release without the built-in plugins and with the 2.7 controls.
V2_7_0 == 270

\* The releases whose 2.7 contract was reviewed patch by patch.
Reviewed == {270, 271, 272}

Field(rule, v, w, u) ==
  [rule |-> rule, minimum |-> v, maximum |-> w, resumed_at |-> u]

since(v) == Field("Versioned", v, NoVersion, NoVersion)

between(v, w) == Field("Versioned", v, w, NoVersion)

split_since(v, w, u) == Field("Versioned", v, w, u)

\* A control only an exact, verified, reviewed 2.7 profile enables.
reviewed_profile == Field("Reviewed", V2_7_0, NoVersion, NoVersion)

\* What the constructors build: a field resumes after it was first dropped.
Fields ==
  {reviewed_profile} \cup
  {f \in [rule : {"Versioned"}, minimum : Nat, maximum : Nat \cup {NoVersion},
          resumed_at : Nat \cup {NoVersion}] :
     f.resumed_at # NoVersion => f.minimum <= f.maximum /\ f.maximum < f.resumed_at}

Resumed(f, v) == f.resumed_at # NoVersion /\ v >= f.resumed_at

supports(f, v) ==
  \/ v >= f.minimum /\ (f.maximum = NoVersion \/ v <= f.maximum)
  \/ Resumed(f, v)

SelectedMinimum(f, v) == IF Resumed(f, v) THEN f.resumed_at ELSE f.minimum

\* Mutant of validate_selection: the first release of a split field counts.
validate_selection_by_first_release(f, v, status) ==
  f.minimum >= V2_7_0 => status \in {"Verified", "Assumed"}

\* A control that is new in 2.7 is not enabled by a default or fallback profile.
validate_selection(f, v, status) ==
  SelectedMinimum(f, v) >= V2_7_0 => status \in {"Verified", "Assumed"}

\* validate_workflow_cas_profile and validate_latest_plugin_profile.
ReviewedProfile(report) ==
  /\ report.status = "Verified"
  /\ report.policy \in {"Exact", "AutomaticStrict"}
  /\ report.profile \in Reviewed
  /\ report.detected = report.profile

Admits(f, report, v) ==
  IF f.rule = "Reviewed"
  THEN ReviewedProfile(report)
  ELSE validate_selection(f, v, report.status) /\ supports(f, v)

-----------------------------------------------------------------------------
(* The fields.                                                               *)

JWT_CONFIG_SKIP_JWKS_VALIDATION == since(231)

JWT_CONFIG_OVERRIDE_ALLOWED_SERVER_NAMES == since(240)

JWT_CONFIG_KUBERNETES_PROVIDER == since(260)

JWT_ROLE_CALLBACK_MODE == since(210)

JWT_ROLE_POLL_INTERVAL == since(210)

JWT_ROLE_TOKEN_POLICY_TEMPLATES == since(210)

JWT_ROLE_DISABLE_CONFIRMATION == since(252)

USERPASS_USER_PASSWORD_HASH == since(260)

USERPASS_PASSWORD_PASSWORD_HASH == since(260)

KERBEROS_CONFIG_DECODE_PAC == since(260)

IDENTITY_PROVIDER_TOKEN_SCOPE == since(250)

SSH_ROLE_ALLOW_EMPTY_PRINCIPALS == since(202)

SSH_ROLE_ISSUER_REF == since(231)

SSH_ROLE_ALLOW_TEMPLATE_COMMAS == since(260)

SSH_ROLE_ALLOW_TEMPLATE_WILDCARDS == split_since(265, 265, 272)

POLICY_EXPIRATION == since(231)

POLICY_TTL == since(231)

POLICY_CAS == since(231)

POLICY_CAS_REQUIRED == since(231)

POLICY_ALLOW_TEMPLATE_SLASHES == since(260)

POLICY_ALLOW_TEMPLATE_WILDCARDS == since(260)

OPERATOR_INIT_STORED_SHARES == between(200, 255)

OPERATOR_REKEY_STORED_SHARES == between(200, 255)

CORS_ALLOW_CREDENTIALS == since(260)

NAMESPACE_SEAL_CONFIG == since(260)

RAFT_JOIN_NON_VOTER == since(220)

ROTATION_INTERVAL == since(240)

PLUGIN_OCI == since(250)

RAW_UNCOMPRESSED_WRITE == since(263)

TRANSIT_DATA_KEY_ASSOCIATED_DATA == since(250)

PKI_AUTHORITY_NOT_BEFORE == since(210)

PKI_SIGN_VERBATIM_NOT_BEFORE == since(210)

PKI_ROLE_NOT_BEFORE == since(210)

PKI_ROLE_NOT_BEFORE_BOUND == since(231)

PKI_ROLE_NOT_AFTER_BOUND == since(231)

PKI_ROLE_ALLOWED_IP_SANS_CIDR == since(250)

PKI_ROLE_ALLOW_TEMPLATE_GLOBS == since(260)

PKI_TIDY_INVALID_CERTS == since(210)

PKI_TIDY_PAGE_SIZE == since(220)

PKI_AUTO_TIDY_INVALID_CERTS == since(210)

PKI_AUTO_TIDY_REVOKED_SAFETY_BUFFER == since(210)

PKI_AUTO_TIDY_PAGE_SIZE == since(220)

PKI_KEY_TYPE_MLDSA == since(V2_7_0)

PKI_KMS == since(V2_7_0)

PKI_SIGNING_OPTIONS == since(V2_7_0)

TRANSIT_27 == since(V2_7_0)

EXTERNAL_KEYS == since(V2_7_0)

CONTROL_GROUPS == since(V2_7_0)

LATEST_PLUGIN_PROFILE == reviewed_profile

WORKFLOW_CAS_PROFILE == reviewed_profile

\* The fields Pki::validate_role_request_fields and the policy writes check.
validate_role_request_fields ==
  {PKI_KEY_TYPE_MLDSA, PKI_ROLE_NOT_BEFORE, PKI_ROLE_NOT_BEFORE_BOUND,
   PKI_ROLE_NOT_AFTER_BOUND, PKI_ROLE_ALLOWED_IP_SANS_CIDR}

validate_policy_fields ==
  {POLICY_EXPIRATION, POLICY_TTL, POLICY_CAS, POLICY_CAS_REQUIRED}
=============================================================================
