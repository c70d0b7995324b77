----------------------------- MODULE SystemCalls -----------------------------
(*****************************************************************************)
(* The calls of the system client (src/src/sys.rs and src/src/sys).          *)
(* One definition per run of consecutive methods, one call per request a     *)
(* method sends.                                                             *)
(*****************************************************************************)
EXTENDS TypedCalls

sys_try_unwrap == Exact("sys", {
  Call("try_unwrap", "POST", <<"wrapping", "unwrap">>)})

sys_init_status == Exact("sys", {
  Call("init_status", "GET", <<"init">>),
  Call("health", "GET", <<"health">>),
  Call("health_head", "HEAD", <<"health">>),
  Call("seal_status", "GET", <<"seal-status">>),
  Call("seal_status_details", "GET", <<"seal-status">>)})

sys_leader_status == Exact("sys", {
  Call("leader_status", "GET", <<"leader">>),
  Call("ha_status", "GET", <<"ha-status">>),
  Call("key_status", "GET", <<"key-status">>),
  Call("openapi_document", "GET", <<"internal", "specs", "openapi">>),
  Call("ui_namespaces", "GET", <<"internal", "ui", "namespaces">>),
  Call("ui_mounts", "GET", <<"internal", "ui", "mounts">>),
  Call("metrics_json", "GET", <<"metrics">>),
  Call("metrics_prometheus", "GET", <<"metrics">>),
  Call("host_info_json", "GET", <<"host-info">>),
  Call("sanitized_config_state_json", "GET", <<"config", "state", "sanitized">>),
  Call("logger_levels", "GET", <<"loggers">>)})

sys_logger_level == Exact("sys", {
  Call("logger_level", "GET", <<"loggers", "{name}">>),
  Call("execute_unauthenticated_workflow", "POST", <<"workflows", "unauthed-execute",
    "{path+}">>),
  Offering({OPERATOR_INIT_STORED_SHARES}, Call("operator_init", "POST", <<"init">>)),
  Call("operator_unseal", "POST", <<"unseal">>),
  Call("operator_unseal_details", "POST", <<"unseal">>)})

sys_bootstrap_dev_acknowledged == Exact("sys", {
  Call("bootstrap_dev_acknowledged", "POST", <<"init">>),
  Call("unseal_once", "POST", <<"unseal">>),
  Call("list_workflows", "LIST", <<"workflows", "manage">>),
  Call("scan_workflows", "SCAN", <<"workflows", "manage">>)})

sys_read_workflow == Exact("sys", {
  Call("read_workflow", "GET", <<"workflows", "manage", "{path+}">>),
  Offering({WORKFLOW_CAS_PROFILE}, Call("write_workflow", "POST", <<"workflows",
    "manage", "{path+}">>)),
  Call("delete_workflow", "DELETE", <<"workflows", "manage", "{path+}">>),
  Call("execute_workflow", "POST", <<"workflows", "execute", "{path+}">>),
  Call("trace_workflow", "POST", <<"workflows", "trace", "{path+}">>)})

sys_monitor == Exact("sys", {
  Call("monitor", "GET", <<"monitor">>),
  Call("random", "POST", <<"tools", "random">>),
  Call("random", "POST", <<"tools", "random", "[bytes]">>),
  Call("random_from_source", "POST", <<"tools", "random", "[source]">>),
  Call("random_from_source", "POST", <<"tools", "random", "[source]", "[bytes]">>),
  Call("hash", "POST", <<"tools", "hash", "[algorithm]">>),
  Call("operator_seal", "POST", <<"seal">>),
  Call("operator_rotate_keyring", "POST", <<"rotate", "keyring">>),
  Call("step_down_leader", "POST", <<"step-down">>),
  Call("operator_rekey_status", "GET", <<"rekey", "init">>),
  Offering({OPERATOR_REKEY_STORED_SHARES}, Call("operator_rekey_start", "POST",
    <<"rekey", "init">>)),
  Call("operator_rekey_cancel", "DELETE", <<"rekey", "init">>)})

sys_operator_rekey_update == Exact("sys", {
  Call("operator_rekey_update", "POST", <<"rekey", "update">>),
  Call("operator_rekey_backup", "GET", <<"rekey", "backup">>),
  Call("operator_rekey_delete_backup", "DELETE", <<"rekey", "backup">>),
  Call("operator_rekey_verify_status", "GET", <<"rekey", "verify">>),
  Call("operator_rekey_verify_cancel", "DELETE", <<"rekey", "verify">>),
  Call("operator_rekey_verify_update", "POST", <<"rekey", "verify">>),
  Call("operator_rotate_status", "GET", <<"rotate", "root", "init">>),
  Call("operator_rotate_status", "GET", <<"rotate", "recovery", "init">>),
  Offering({OPERATOR_REKEY_STORED_SHARES}, Call("operator_rotate_start", "POST",
    <<"rotate", "root", "init">>)),
  Offering({OPERATOR_REKEY_STORED_SHARES}, Call("operator_rotate_start", "POST",
    <<"rotate", "recovery", "init">>)),
  Call("operator_rotate_cancel", "DELETE", <<"rotate", "root", "init">>),
  Call("operator_rotate_cancel", "DELETE", <<"rotate", "recovery", "init">>),
  Call("operator_rotate_update", "POST", <<"rotate", "root", "update">>),
  Call("operator_rotate_update", "POST", <<"rotate", "recovery", "update">>)})

sys_operator_rotate_barrier == Exact("sys", {
  Call("operator_rotate_barrier", "POST", <<"rotate">>),
  Call("operator_rotate_root_key", "POST", <<"rotate", "root">>),
  Call("operator_rotate_verify_status", "GET", <<"rotate", "root", "verify">>),
  Call("operator_rotate_verify_status", "GET", <<"rotate", "recovery", "verify">>),
  Call("operator_rotate_verify_update", "POST", <<"rotate", "root", "verify">>),
  Call("operator_rotate_verify_update", "POST", <<"rotate", "recovery", "verify">>),
  Call("operator_rotate_verify_cancel", "DELETE", <<"rotation", "root", "verify">>),
  Call("operator_rotate_verify_cancel", "DELETE", <<"rotation", "recovery",
    "verify">>)})

sys_operator_rotate_backup_grouped == Exact("sys", {
  Call("operator_rotate_backup_grouped", "GET", <<"rotate", "root", "backup">>),
  Call("operator_rotate_backup_grouped", "GET", <<"rotate", "recovery", "backup">>),
  Call("operator_rotate_delete_backup", "DELETE", <<"rotate", "root", "backup">>),
  Call("operator_rotate_delete_backup", "DELETE", <<"rotate", "recovery", "backup">>),
  Call("operator_rotation_config", "GET", <<"rotate", "config">>),
  Offering({ROTATION_INTERVAL}, Call("operator_write_rotation_config", "POST",
    <<"rotate", "config">>)),
  Call("operator_keyring_rotation_config", "GET", <<"rotate", "keyring", "config">>),
  Call("operator_write_keyring_rotation_config", "POST", <<"rotate", "keyring",
    "config">>)})

sys_operator_generate_recovery_token_status == Exact("sys", {
  Call("operator_generate_recovery_token_status", "GET", <<"generate-recovery-token",
    "attempt">>),
  Call("operator_generate_recovery_token_start", "POST", <<"generate-recovery-token",
    "attempt">>),
  Call("operator_generate_recovery_token_cancel", "DELETE",
    <<"generate-recovery-token", "attempt">>),
  Call("operator_generate_recovery_token_update", "POST", <<"generate-recovery-token",
    "update">>)})

sys_operator_rekey_recovery_key_status == Exact("sys", {
  Call("operator_rekey_recovery_key_status", "GET", <<"rekey-recovery-key", "init">>),
  Offering({OPERATOR_REKEY_STORED_SHARES}, Call("operator_rekey_recovery_key_start",
    "POST", <<"rekey-recovery-key", "init">>)),
  Call("operator_rekey_recovery_key_cancel", "DELETE", <<"rekey-recovery-key",
    "init">>),
  Call("operator_rekey_recovery_key_update", "POST", <<"rekey-recovery-key",
    "update">>),
  Call("operator_rekey_recovery_key_verify_status", "GET", <<"rekey-recovery-key",
    "verify">>),
  Call("operator_rekey_recovery_key_verify_cancel", "DELETE", <<"rekey-recovery-key",
    "verify">>),
  Call("operator_rekey_recovery_key_verify_update", "POST", <<"rekey-recovery-key",
    "verify">>),
  Call("operator_rekey_recovery_key_backup", "GET", <<"rekey",
    "recovery-key-backup">>)})

sys_operator_rekey_recovery_key_delete_backup == Exact("sys", {
  Call("operator_rekey_recovery_key_delete_backup", "DELETE", <<"rekey",
    "recovery-key-backup">>),
  Call("raw_read", "GET", <<"raw", "{path+}">>),
  Call("raw_write", "POST", <<"raw", "{path+}">>),
  Needing({RAW_UNCOMPRESSED_WRITE}, Call("raw_write_uncompressed", "POST", <<"raw",
    "{path+}">>)),
  Asking("list", "true", Call("raw_list", "GET", <<"raw", "{prefix+}">>)),
  Call("raw_delete", "DELETE", <<"raw", "{path+}">>)})

sys_pprof == Exact("sys", {
  Call("pprof", "GET", <<"pprof", "allocs">>),
  Call("pprof", "GET", <<"pprof", "block">>),
  Call("pprof", "GET", <<"pprof", "cmdline">>),
  Call("pprof", "GET", <<"pprof", "goroutine">>),
  Call("pprof", "GET", <<"pprof", "heap">>),
  Call("pprof", "GET", <<"pprof", "mutex">>),
  Call("pprof", "GET", <<"pprof", "profile">>),
  Call("pprof", "GET", <<"pprof", "symbol">>),
  Call("pprof", "GET", <<"pprof", "threadcreate">>),
  Call("pprof", "GET", <<"pprof", "trace">>),
  Call("list_mounts", "GET", <<"mounts">>),
  Call("read_mount", "GET", <<"mounts", "{mount_path+}">>),
  Offering({LATEST_PLUGIN_PROFILE}, Call("enable_mount", "POST", <<"mounts",
    "{mount_path+}">>)),
  Call("disable_mount", "DELETE", <<"mounts", "{mount_path+}">>),
  Call("read_mount_tune", "GET", <<"mounts", "{mount_path+}", "tune">>),
  Offering({LATEST_PLUGIN_PROFILE}, Call("tune_mount", "POST", <<"mounts",
    "{mount_path+}", "tune">>)),
  Call("list_auth_methods", "GET", <<"auth">>),
  Call("read_auth_method", "GET", <<"auth", "{mount_path+}">>),
  Offering({LATEST_PLUGIN_PROFILE}, Call("enable_auth_method", "POST", <<"auth",
    "{mount_path+}">>))})

sys_disable_auth_method == Exact("sys", {
  Call("disable_auth_method", "DELETE", <<"auth", "{mount_path+}">>),
  Call("read_auth_tune", "GET", <<"auth", "{mount_path+}", "tune">>),
  Offering({LATEST_PLUGIN_PROFILE}, Call("tune_auth_method", "POST", <<"auth",
    "{mount_path+}", "tune">>)),
  Call("ui_mount_details", "GET", <<"internal", "ui", "mounts", "{path+}">>),
  Call("ui_feature_flags", "GET", <<"internal", "ui", "feature-flags">>),
  Call("list_ui_headers", "LIST", <<"config", "ui", "headers">>),
  Call("read_ui_header", "GET", <<"config", "ui", "headers", "{name}">>),
  Call("write_ui_header", "POST", <<"config", "ui", "headers", "{name}">>),
  Call("delete_ui_header", "DELETE", <<"config", "ui", "headers", "{name}">>),
  Call("internal_entity_counters", "GET", <<"internal", "counters", "entities">>),
  Call("internal_token_counters", "GET", <<"internal", "counters", "tokens">>)})

sys_internal_router_inspection == Exact("sys", {
  Call("internal_router_inspection", "GET", <<"internal", "inspect", "router",
    "root">>),
  Call("internal_router_inspection", "GET", <<"internal", "inspect", "router",
    "storage">>),
  Call("internal_router_inspection", "GET", <<"internal", "inspect", "router",
    "accessor">>),
  Call("internal_router_inspection", "GET", <<"internal", "inspect", "router",
    "uuid">>),
  Call("list_policies", "LIST", <<"policies", "acl">>),
  Call("list_policies_with_prefix", "LIST", <<"policies", "acl", "{prefix+}">>),
  Call("read_policy", "GET", <<"policies", "acl", "{name+}">>),
  Call("read_policy_details", "GET", <<"policies", "acl", "{name+}">>),
  Offering(validate_policy_fields, Call("write_policy", "POST", <<"policies", "acl",
    "{name+}">>)),
  Offering(validate_policy_fields, Call("patch_policy", "PATCH", <<"policies", "acl",
    "{name+}">>))})

sys_patch_policy_with_identity_template_overrides == Exact("sys", {
  Offering(validate_policy_fields \cup {POLICY_ALLOW_TEMPLATE_SLASHES,
    POLICY_ALLOW_TEMPLATE_WILDCARDS},
    Call("patch_policy_with_identity_template_overrides", "PATCH", <<"policies", "acl",
    "{name+}">>)),
  Offering(validate_policy_fields \cup {POLICY_ALLOW_TEMPLATE_SLASHES,
    POLICY_ALLOW_TEMPLATE_WILDCARDS},
    Call("write_policy_with_identity_template_overrides", "POST", <<"policies", "acl",
    "{name+}">>)),
  Call("delete_policy", "DELETE", <<"policies", "acl", "{name+}">>),
  Call("list_policies_detailed", "LIST", <<"policies", "detailed", "acl">>)})

sys_list_policies_detailed_with_prefix == Exact("sys", {
  Call("list_policies_detailed_with_prefix", "LIST", <<"policies", "detailed", "acl",
    "{prefix+}">>),
  Call("list_password_policies", "LIST", <<"policies", "password">>),
  Call("read_password_policy", "GET", <<"policies", "password", "{name+}">>),
  Call("write_password_policy", "POST", <<"policies", "password", "{name+}">>),
  Call("delete_password_policy", "DELETE", <<"policies", "password", "{name+}">>),
  Call("generate_password", "GET", <<"policies", "password", "{name+}", "generate">>),
  Call("capabilities_self", "POST", <<"capabilities-self">>),
  Call("capabilities", "POST", <<"capabilities">>),
  Call("capabilities_accessor", "POST", <<"capabilities-accessor">>)})

sys_resultant_acl == Exact("sys", {
  Call("resultant_acl", "GET", <<"internal", "ui", "resultant-acl">>),
  Call("in_flight_requests", "GET", <<"in-flight-req">>),
  Call("validate_mfa", "POST", <<"mfa", "validate">>),
  Call("list_audit_devices", "GET", <<"audit">>),
  Call("enable_audit_device", "POST", <<"audit", "{path+}">>),
  Call("disable_audit_device", "DELETE", <<"audit", "{path+}">>),
  Call("audit_hash", "POST", <<"audit-hash", "{path+}">>),
  Call("list_audited_request_headers", "GET", <<"config", "auditing",
    "request-headers">>),
  Call("read_audited_request_header", "GET", <<"config", "auditing", "request-headers",
    "{name}">>),
  Call("write_audited_request_header", "POST", <<"config", "auditing",
    "request-headers", "{name}">>)})

sys_delete_audited_request_header == Exact("sys", {
  Call("delete_audited_request_header", "DELETE", <<"config", "auditing",
    "request-headers", "{name}">>),
  Call("lookup_lease", "POST", <<"leases", "lookup">>),
  Call("lookup_lease_details", "POST", <<"leases", "lookup">>),
  Call("list_leases", "GET", <<"leases">>),
  Call("list_lease_ids", "LIST", <<"leases", "lookup", "{prefix*}">>),
  Call("renew_lease", "POST", <<"leases", "renew">>),
  Call("revoke_lease", "POST", <<"leases", "revoke">>),
  Call("revoke_lease_prefix", "POST", <<"leases", "revoke-prefix", "{prefix*}">>),
  Call("force_revoke_lease_prefix", "POST", <<"leases", "revoke-force", "{prefix*}">>)})

sys_tidy_leases == Exact("sys", {
  Call("tidy_leases", "POST", <<"leases", "tidy">>),
  Call("count_leases", "GET", <<"leases", "count">>),
  Call("list_plugins", "GET", <<"plugins", "catalog">>),
  Call("list_plugins_by_type", "LIST", <<"plugins", "catalog", "auth">>),
  Call("list_plugins_by_type", "LIST", <<"plugins", "catalog", "database">>),
  Call("list_plugins_by_type", "LIST", <<"plugins", "catalog", "secret">>),
  Offering({PLUGIN_OCI}, Call("register_plugin", "POST", <<"plugins", "catalog",
    "[plugin_type]", "{name+}">>)),
  Call("read_plugin", "GET", <<"plugins", "catalog", "[plugin_type]", "{name+}">>),
  Call("delete_plugin", "DELETE", <<"plugins", "catalog", "[plugin_type]",
    "{name+}">>)})

sys_reload_plugin_backend == Exact("sys", {
  Call("reload_plugin_backend", "POST", <<"plugins", "reload", "backend">>),
  Call("set_logger_levels", "POST", <<"loggers">>),
  Call("set_logger_level", "POST", <<"loggers", "{name}">>),
  Call("reset_logger_levels", "DELETE", <<"loggers">>),
  Call("reset_logger_level", "DELETE", <<"loggers", "{name}">>),
  Call("cors_config", "GET", <<"config", "cors">>),
  Call("cors_config_details", "GET", <<"config", "cors">>),
  Call("write_cors_config", "POST", <<"config", "cors">>),
  Needing({CORS_ALLOW_CREDENTIALS}, Call("write_cors_config_with_credentials", "POST",
    <<"config", "cors">>)),
  Call("delete_cors_config", "DELETE", <<"config", "cors">>),
  Call("version_history", "LIST", <<"version-history">>),
  Call("version_history_details", "LIST", <<"version-history">>)})

sys_list_namespaces == Exact("sys", {
  Call("list_namespaces", "LIST", <<"namespaces">>),
  Call("create_namespace", "POST", <<"namespaces", "{path+}">>),
  Needing({NAMESPACE_SEAL_CONFIG}, Call("create_sealable_namespace", "POST",
    <<"namespaces", "{path+}">>)),
  Call("read_namespace", "GET", <<"namespaces", "{path+}">>),
  Call("patch_namespace", "PATCH", <<"namespaces", "{path+}">>),
  Call("clear_namespace_metadata", "PATCH", <<"namespaces", "{path+}">>),
  Call("delete_namespace", "DELETE", <<"namespaces", "{path+}">>),
  Call("namespace_seal_status", "GET", <<"namespaces", "{path+}", "seal-status">>),
  Call("seal_namespace", "POST", <<"namespaces", "{path+}", "seal">>)})

sys_delete_sealed_namespace == Exact("sys", {
  Call("delete_sealed_namespace", "DELETE", <<"namespaces", "{path+}",
    "delete-sealed">>),
  Call("namespace_unseal", "POST", <<"namespaces", "{path+}", "unseal">>),
  Call("read_rate_limit_quota_config", "GET", <<"quotas", "config">>),
  Call("write_rate_limit_quota_config", "POST", <<"quotas", "config">>),
  Call("list_rate_limit_quotas", "LIST", <<"quotas", "rate-limit">>),
  Call("write_rate_limit_quota", "POST", <<"quotas", "rate-limit", "{name}">>),
  Call("read_rate_limit_quota", "GET", <<"quotas", "rate-limit", "{name}">>),
  Call("delete_rate_limit_quota", "DELETE", <<"quotas", "rate-limit", "{name}">>),
  Call("list_locked_users", "GET", <<"locked-users">>),
  Call("list_locked_users_for_accessor", "GET", <<"locked-users">>)})

sys_unlock_user == Exact("sys", {
  Call("unlock_user", "POST", <<"locked-users", "{mount_accessor}", "unlock",
    "{alias_identifier}">>),
  Offering({RAFT_JOIN_NON_VOTER}, Call("raft_join", "POST", <<"storage", "raft",
    "join">>)),
  Call("raft_configuration", "GET", <<"storage", "raft", "configuration">>)})

sys_raft_bootstrap == Exact("sys", {
  Call("raft_bootstrap", "POST", <<"storage", "raft", "bootstrap">>),
  Call("raft_snapshot", "GET", <<"storage", "raft", "snapshot">>),
  Call("raft_restore_snapshot", "POST", <<"storage", "raft", "snapshot">>),
  Call("raft_restore_snapshot_stream", "POST", <<"storage", "raft", "snapshot">>),
  Call("raft_force_restore_snapshot", "POST", <<"storage", "raft", "snapshot-force">>),
  Call("raft_force_restore_snapshot_stream", "POST", <<"storage", "raft",
    "snapshot-force">>),
  Call("raft_autopilot_state_json", "GET", <<"storage", "raft", "autopilot",
    "state">>)})

sys_raft_autopilot_config == Exact("sys", {
  Call("raft_autopilot_config", "GET", <<"storage", "raft", "autopilot",
    "configuration">>),
  Call("write_raft_autopilot_config", "POST", <<"storage", "raft", "autopilot",
    "configuration">>),
  Call("remount", "POST", <<"remount">>),
  Call("remount_status", "GET", <<"remount", "status", "{migration_id}">>),
  Call("raft_peer_operation", "POST", <<"storage", "raft", "remove-peer">>),
  Call("raft_peer_operation", "POST", <<"storage", "raft", "promote">>),
  Call("raft_peer_operation", "POST", <<"storage", "raft", "demote">>),
  Call("wrapping_lookup", "POST", <<"wrapping", "lookup">>),
  Call("wrapping_wrap", "POST", <<"wrapping", "wrap">>),
  Call("wrapping_unwrap", "POST", <<"wrapping", "unwrap">>)})

sys_wrapping_rewrap == Exact("sys", {
  Call("wrapping_rewrap", "POST", <<"wrapping", "rewrap">>)})

sys_write_control_group_policy == Exact("sys", {
  Needing({CONTROL_GROUPS}, Offering(validate_policy_fields,
    Call("write_control_group_policy", "POST", <<"policies", "acl", "{name+}">>)))})

sys_read_control_group_request == Exact("sys", {
  Needing({CONTROL_GROUPS}, Call("read_control_group_request", "POST",
    <<"control-group", "request">>)),
  Needing({CONTROL_GROUPS}, Call("authorize_control_group", "POST", <<"control-group",
    "authorize">>))})

sys_list_external_key_configs == Exact("sys", {
  Needing({EXTERNAL_KEYS}, Call("list_external_key_configs", "LIST", <<"external-keys",
    "configs">>)),
  Needing({EXTERNAL_KEYS}, Call("read_external_key_config", "GET", <<"external-keys",
    "configs", "{config}">>)),
  Needing({EXTERNAL_KEYS}, Call("write_external_key_config", "POST", <<"external-keys",
    "configs", "{config}">>)),
  Needing({EXTERNAL_KEYS}, Call("patch_external_key_config", "PATCH",
    <<"external-keys", "configs", "{config}">>)),
  Needing({EXTERNAL_KEYS}, Call("delete_external_key_config", "DELETE",
    <<"external-keys", "configs", "{config}">>)),
  Needing({EXTERNAL_KEYS}, Call("list_external_keys", "LIST", <<"external-keys",
    "configs", "{config}", "keys">>)),
  Needing({EXTERNAL_KEYS}, Call("read_external_key", "GET", <<"external-keys",
    "configs", "{config}", "keys", "{key}">>)),
  Needing({EXTERNAL_KEYS}, Call("write_external_key", "POST", <<"external-keys",
    "configs", "{config}", "keys", "{key}">>)),
  Needing({EXTERNAL_KEYS}, Call("patch_external_key", "PATCH", <<"external-keys",
    "configs", "{config}", "keys", "{key}">>)),
  Needing({EXTERNAL_KEYS}, Call("delete_external_key", "DELETE", <<"external-keys",
    "configs", "{config}", "keys", "{key}">>)),
  Needing({EXTERNAL_KEYS}, Call("list_external_key_grants", "LIST", <<"external-keys",
    "configs", "{config}", "keys", "{key}", "grants">>)),
  Needing({EXTERNAL_KEYS}, Call("grant_external_key", "POST", <<"external-keys",
    "configs", "{config}", "keys", "{key}", "grants", "{mount+}">>)),
  Needing({EXTERNAL_KEYS}, Call("delete_external_key_grant", "DELETE",
    <<"external-keys", "configs", "{config}", "keys", "{key}", "grants",
    "{mount+}">>))})

SysCalls == UNION {
  sys_try_unwrap, sys_init_status, sys_leader_status, sys_logger_level,
  sys_bootstrap_dev_acknowledged, sys_read_workflow, sys_monitor,
  sys_operator_rekey_update, sys_operator_rotate_barrier,
  sys_operator_rotate_backup_grouped,
  sys_operator_generate_recovery_token_status,
  sys_operator_rekey_recovery_key_status,
  sys_operator_rekey_recovery_key_delete_backup, sys_pprof,
  sys_disable_auth_method, sys_internal_router_inspection,
  sys_patch_policy_with_identity_template_overrides,
  sys_list_policies_detailed_with_prefix, sys_resultant_acl,
  sys_delete_audited_request_header, sys_tidy_leases,
  sys_reload_plugin_backend, sys_list_namespaces,
  sys_delete_sealed_namespace, sys_unlock_user, sys_raft_bootstrap,
  sys_raft_autopilot_config, sys_wrapping_rewrap,
  sys_write_control_group_policy, sys_read_control_group_request,
  sys_list_external_key_configs}
=============================================================================
