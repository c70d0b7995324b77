--------------------------- MODULE ReadOperations ---------------------------
(***************************************************************************)
(* The operations of GENERATED_OPERATIONS of the methods ACME, GET, HEAD,   *)
(* LIST and SCAN, in the order of the table                                 *)
(* (src/src/generated/openbao_capabilities.rs).                             *)
(***************************************************************************)
EXTENDS CapabilityRecords

acme_pki_acme_directory == {
  Gated("ACME", <<"pki", "acme", "directory">>, Always),
  Gated("ACME", <<"pki", "issuer", ":issuer_ref", "acme", "directory">>, Always),
  Gated("ACME", <<"pki", "issuer", ":issuer_ref", "roles", ":role", "acme", "directory">>,
    Always)}

acme_pki_roles_acme == {
  Gated("ACME", <<"pki", "roles", ":role", "acme", "directory">>, Always)}

get_auth_approle_role == {
  Typed("GET", <<"auth", "approle", "role", ":role_name", "bind-secret-id">>, Always),
  Typed("GET", <<"auth", "approle", "role", ":role_name">>, Always),
  Typed("GET", <<"auth", "approle", "role", ":role_name", "period">>, Always)}

get_auth_approle_role_2 == {
  Typed("GET", <<"auth", "approle", "role", ":role_name", "policies">>, Always),
  Typed("GET", <<"auth", "approle", "role", ":role_name", "role-id">>, Always),
  Typed("GET", <<"auth", "approle", "role", ":role_name", "secret-id-bound-cidrs">>,
    Always)}

get_auth_approle_role_3 == {
  Typed("GET", <<"auth", "approle", "role", ":role_name", "secret-id-num-uses">>, Always),
  Typed("GET", <<"auth", "approle", "role", ":role_name", "secret-id-ttl">>, Always),
  Typed("GET", <<"auth", "approle", "role", ":role_name", "token-bound-cidrs">>, Always)}

get_auth_approle_role_4 == {
  Typed("GET", <<"auth", "approle", "role", ":role_name", "token-max-ttl">>, Always),
  Typed("GET", <<"auth", "approle", "role", ":role_name", "token-ttl">>, Always),
  Typed("GET", <<"auth", "cert", "certs", ":name">>, Always)}

get_auth_cert_crls == {
  Typed("GET", <<"auth", "cert", "crls", ":name">>, Always),
  Typed("GET", <<"auth", "jwt", "cel", "role", ":name">>, Since(260)),
  Typed("GET", <<"auth", "jwt", "config">>, Always)}

get_auth_jwt_oidc == {
  Typed("GET", <<"auth", "jwt", "oidc", "callback">>, Always),
  Typed("GET", <<"auth", "jwt", "oidc", "poll">>, Since(210)),
  Typed("GET", <<"auth", "jwt", "role", ":name">>, Always)}

get_auth_kerberos_config == {
  Typed("GET", <<"auth", "kerberos", "config">>, Until(265)),
  Typed("GET", <<"auth", "kerberos", "config", "ldap">>, Until(265)),
  Typed("GET", <<"auth", "kerberos", "groups", ":name">>, Until(265))}

get_auth_kubernetes_config == {
  Typed("GET", <<"auth", "kubernetes", "config">>, Always),
  WithQuery(Typed("GET", <<"auth", "kubernetes", "role">>, Always), "list", "true"),
  Typed("GET", <<"auth", "kubernetes", "role", ":name">>, Always)}

get_auth_ldap_config == {
  Typed("GET", <<"auth", "ldap", "config">>, Until(265)),
  Typed("GET", <<"auth", "ldap", "groups", ":name">>, Until(265)),
  Typed("GET", <<"auth", "ldap", "users", ":username">>, Until(265))}

get_auth_radius_users == {
  Typed("GET", <<"auth", "radius", "users", ":username">>, Until(265)),
  Typed("GET", <<"auth", "token", "lookup-self">>, Always),
  Typed("GET", <<"auth", "token", "roles", ":role_name">>, Always)}

get_auth_userpass_users == {
  Typed("GET", <<"auth", "userpass", "users", ":username">>, Always),
  Typed("GET", <<"cubbyhole", ":path">>, Always),
  Typed("GET", <<"database", "config", ":name">>, Always)}

get_database_creds == {
  Typed("GET", <<"database", "creds", ":name">>, Always),
  Typed("GET", <<"database", "roles", ":name">>, Always),
  Typed("GET", <<"database", "static-creds", ":name">>, Always)}

get_database_static_roles == {
  Typed("GET", <<"database", "static-roles", ":name">>, Always),
  Typed("GET", <<"identity", "entity-alias", "id", ":id">>, Always),
  WithQuery(Typed("GET", <<"identity", "entity-alias", "id">>, Always), "list", "true")}

get_identity_entity_id == {
  Typed("GET", <<"identity", "entity", "id", ":id">>, Always),
  WithQuery(Typed("GET", <<"identity", "entity", "id">>, Always), "list", "true"),
  WithQuery(Typed("GET", <<"identity", "entity", "name">>, Always), "list", "true")}

get_identity_entity_name == {
  Typed("GET", <<"identity", "entity", "name", ":name">>, Always),
  Typed("GET", <<"identity", "group-alias", "id", ":id">>, Always),
  WithQuery(Typed("GET", <<"identity", "group-alias", "id">>, Always), "list", "true")}

get_identity_group_id == {
  Typed("GET", <<"identity", "group", "id", ":id">>, Always),
  WithQuery(Typed("GET", <<"identity", "group", "id">>, Always), "list", "true"),
  WithQuery(Typed("GET", <<"identity", "group", "name">>, Always), "list", "true")}

get_identity_group_name == {
  Typed("GET", <<"identity", "group", "name", ":name">>, Always),
  Typed("GET", <<"identity", "mfa", "login-enforcement", ":name">>, Always),
  Typed("GET", <<"identity", "mfa", "method", "duo", ":id">>, Always)}

get_identity_mfa_method == {
  Typed("GET", <<"identity", "mfa", "method", "okta", ":id">>, Always),
  Typed("GET", <<"identity", "mfa", "method", "pingid", ":id">>, Always),
  Typed("GET", <<"identity", "mfa", "method", "totp", ":id">>, Always)}

get_identity_oidc_assignment == {
  Typed("GET", <<"identity", "oidc", "assignment", ":name">>, Always),
  Typed("GET", <<"identity", "oidc", "client", ":name">>, Always),
  Typed("GET", <<"identity", "oidc", "config">>, Always)}

get_identity_oidc_key == {
  Typed("GET", <<"identity", "oidc", "key", ":name">>, Always),
  Typed("GET", <<"identity", "oidc", "provider", ":name", "authorize">>, Always),
  Typed("GET", <<"identity", "oidc", "provider", ":name">>, Always)}

get_identity_oidc_provider == {
  Typed("GET", <<"identity", "oidc", "provider", ":name", ".well-known", "keys">>, Always),
  Typed("GET", <<"identity", "oidc", "provider", ":name", ".well-known",
    "openid-configuration">>, Always),
  Typed("GET", <<"identity", "oidc", "role", ":name">>, Always)}

get_identity_oidc_scope == {
  Typed("GET", <<"identity", "oidc", "scope", ":name">>, Always),
  Typed("GET", <<"identity", "oidc", "token", ":name">>, Always),
  Typed("GET", <<"identity", "oidc", ".well-known", "keys">>, Always)}

get_identity_oidc_well_known == {
  Typed("GET", <<"identity", "oidc", ".well-known", "openid-configuration">>, Always),
  Typed("GET", <<"kubernetes", "config">>, Always),
  WithQuery(Typed("GET", <<"kubernetes", "roles">>, Always), "list", "true")}

get_kubernetes_roles == {
  Typed("GET", <<"kubernetes", "roles", ":name">>, Always),
  Typed("GET", <<"ldap", "config">>, Until(265)),
  Typed("GET", <<"ldap", "creds", ":role_name">>, Until(265))}

get_ldap_library == {
  Typed("GET", <<"ldap", "library", ":set_name">>, Until(265)),
  Typed("GET", <<"ldap", "library", ":set_name", "status">>, Until(265)),
  Typed("GET", <<"ldap", "role", ":role_name">>, Until(265))}

get_ldap_static_cred == {
  Typed("GET", <<"ldap", "static-cred", ":role_name">>, Until(265)),
  Typed("GET", <<"ldap", "static-role">>, Until(265)),
  Typed("GET", <<"ldap", "static-role", ":role_name">>, Until(265))}

get_pki_ca == {
  Typed("GET", <<"pki", "ca">>, Always),
  Typed("GET", <<"pki", "ca_chain">>, Always),
  Typed("GET", <<"pki", "ca", "pem">>, Always)}

get_pki_cel_roles == {
  Typed("GET", <<"pki", "cel", "roles", ":name">>, Since(240)),
  Typed("GET", <<"pki", "cert", "ca_chain">>, Always),
  Typed("GET", <<"pki", "cert", "ca">>, Always)}

get_pki_cert_crl == {
  Typed("GET", <<"pki", "cert", "crl">>, Always),
  Typed("GET", <<"pki", "cert", "delta-crl">>, Always),
  Typed("GET", <<"pki", "cert", ":serial">>, Always)}

get_pki_cert_raw == {
  Typed("GET", <<"pki", "cert", ":serial", "raw">>, Always),
  Typed("GET", <<"pki", "cert", ":serial", "raw", "pem">>, Always),
  Typed("GET", <<"pki", "config", "acme">>, Always)}

get_pki_config_auto_tidy == {
  Typed("GET", <<"pki", "config", "auto-tidy">>, Always),
  Typed("GET", <<"pki", "config", "cluster">>, Always),
  Typed("GET", <<"pki", "config", "crl">>, Always)}

get_pki_config_issuers == {
  Typed("GET", <<"pki", "config", "issuers">>, Always),
  Typed("GET", <<"pki", "config", "keys">>, Always),
  Typed("GET", <<"pki", "config", "urls">>, Always)}

get_pki_crl == {
  Typed("GET", <<"pki", "crl">>, Always),
  Typed("GET", <<"pki", "crl", "delta">>, Always),
  Typed("GET", <<"pki", "crl", "delta", "pem">>, Always)}

get_pki_crl_pem == {
  Typed("GET", <<"pki", "crl", "pem">>, Always),
  Typed("GET", <<"pki", "crl", "rotate">>, Always),
  Typed("GET", <<"pki", "crl", "rotate-delta">>, Always)}

get_pki_issuer_crl == {
  Typed("GET", <<"pki", "issuer", ":issuer_ref", "crl", "delta", "der">>, Always),
  Typed("GET", <<"pki", "issuer", ":issuer_ref", "crl", "delta">>, Always),
  Typed("GET", <<"pki", "issuer", ":issuer_ref", "crl", "delta", "pem">>, Always)}

get_pki_issuer_crl_2 == {
  Typed("GET", <<"pki", "issuer", ":issuer_ref", "crl", "der">>, Always),
  Typed("GET", <<"pki", "issuer", ":issuer_ref", "crl">>, Always),
  Typed("GET", <<"pki", "issuer", ":issuer_ref", "crl", "pem">>, Always)}

get_pki_issuer_der == {
  Typed("GET", <<"pki", "issuer", ":issuer_ref", "der">>, Always),
  Typed("GET", <<"pki", "issuer", ":issuer_ref">>, Always),
  Typed("GET", <<"pki", "issuer", ":issuer_ref", "json">>, Always)}

get_pki_issuer_pem == {
  Typed("GET", <<"pki", "issuer", ":issuer_ref", "pem">>, Always),
  Typed("GET", <<"pki", "key", ":key_ref">>, Always),
  Typed("GET", <<"pki", "ocsp", "<base 64+URL encoded ocsp DER request>">>, Always)}

get_pki_roles == {
  Typed("GET", <<"pki", "roles", ":name">>, Always),
  Typed("GET", <<"pki", "tidy-status">>, Always),
  Typed("GET", <<"rabbitmq", "creds", ":name">>, Always)}

get_rabbitmq_roles == {
  Typed("GET", <<"rabbitmq", "roles", ":name">>, Always),
  Typed("GET", <<":secret-mount-path", "config">>, Always),
  WithQuery(Typed("GET", <<":secret-mount-path", "data", ":path">>, Always), "version",
    ":version-number")}

get_kv2_metadata == {
  Typed("GET", <<":secret-mount-path", "metadata", ":path">>, Always),
  Typed("GET", <<":secret-mount-path", "subkeys", ":path">>, Always),
  Typed("GET", <<"secret", ":path">>, Always)}

get_ssh_config_ca == {
  Typed("GET", <<"ssh", "config", "ca">>, Always),
  Typed("GET", <<"ssh", "config", "issuers">>, Since(231)),
  Typed("GET", <<"ssh", "config", "zeroaddress">>, Always)}

get_ssh_issuer == {
  Typed("GET", <<"ssh", "issuer", ":issuer_ref">>, Since(231)),
  Typed("GET", <<"ssh", "issuer", ":issuer_ref", "public_key">>, Since(231)),
  Typed("GET", <<"ssh", "public_key">>, Always)}

get_ssh_roles == {
  Typed("GET", <<"ssh", "roles", ":name">>, Always),
  Typed("GET", <<"sys", "audit">>, Always),
  Typed("GET", <<"sys", "auth">>, Always)}

get_sys_auth == {
  Typed("GET", <<"sys", "auth", ":path">>, Always),
  Typed("GET", <<"sys", "auth", ":path", "tune">>, Always),
  Typed("GET", <<"sys", "config", "auditing", "request-headers">>, Always)}

get_sys_config_auditing == {
  Typed("GET", <<"sys", "config", "auditing", "request-headers", ":name">>, Always),
  Typed("GET", <<"sys", "config", "cors">>, Always),
  Typed("GET", <<"sys", "config", "state", "sanitized">>, Always)}

get_sys_config_ui == {
  Gated("GET", <<"sys", "config", "ui", "headers", ":name">>, Always),
  Gated("GET", <<"sys", "external-keys", "configs", ":name">>, Since(270)),
  Gated("GET", <<"sys", "external-keys", "configs", ":name", "keys", ":key_ref">>,
    Since(270))}

get_sys_generate_recovery_token_attempt == {
  Gated("GET", <<"sys", "generate-recovery-token", "attempt">>, Always),
  Gated("GET", <<"sys", "generate-root", "attempt">>, Always),
  Gated("GET", <<"sys", "generate-root-token", "attempt">>, Since(260))}

get_sys_ha_status == {
  Typed("GET", <<"sys", "ha-status">>, Always),
  Typed("GET", <<"sys", "health">>, Always),
  Typed("GET", <<"sys", "host-info">>, Always)}

get_sys_in_flight_req == {
  Gated("GET", <<"sys", "in-flight-req">>, Always),
  Typed("GET", <<"sys", "init">>, Always),
  Gated("GET", <<"sys", "internal", "counters", "entities">>, Always)}

get_sys_internal_counters == {
  Gated("GET", <<"sys", "internal", "counters", "tokens">>, Always),
  Gated("GET", <<"sys", "internal", "inspect", "request">>, Since(270)),
  Gated("GET", <<"sys", "internal", "inspect", "request", "root">>, Between(255, 255))}

get_sys_internal_inspect == {
  Gated("GET", <<"sys", "internal", "inspect", "router", "accessor">>, Always),
  Gated("GET", <<"sys", "internal", "inspect", "router", "root">>, Always),
  Gated("GET", <<"sys", "internal", "inspect", "router", "storage">>, Always)}

get_sys_internal_inspect_2 == {
  Gated("GET", <<"sys", "internal", "inspect", "router", "uuid">>, Always),
  Typed("GET", <<"sys", "internal", "specs", "openapi">>, Always),
  Gated("GET", <<"sys", "internal", "ui", "feature-flags">>, Until(244))}

get_sys_internal_ui == {
  Typed("GET", <<"sys", "internal", "ui", "mounts">>, Always),
  Typed("GET", <<"sys", "internal", "ui", "mounts", ":path">>, Always),
  Typed("GET", <<"sys", "internal", "ui", "namespaces">>, Always)}

get_sys_internal_ui_2 == {
  Typed("GET", <<"sys", "internal", "ui", "resultant-acl">>, Always),
  Typed("GET", <<"sys", "key-status">>, Always),
  Typed("GET", <<"sys", "leader">>, Always)}

get_sys_leases_count == {
  Typed("GET", <<"sys", "leases", "count">>, Always),
  Typed("GET", <<"sys", "leases">>, Always),
  Typed("GET", <<"sys", "locked-users">>, Always)}

get_sys_loggers == {
  Typed("GET", <<"sys", "loggers">>, Always),
  Typed("GET", <<"sys", "loggers", ":name">>, Always),
  Typed("GET", <<"sys", "metrics">>, Always)}

get_sys_monitor == {
  Gated("GET", <<"sys", "monitor">>, Always),
  Typed("GET", <<"sys", "mounts">>, Always),
  Typed("GET", <<"sys", "mounts", ":path">>, Always)}

get_sys_mounts_tune == {
  Typed("GET", <<"sys", "mounts", ":path", "tune">>, Always),
  Typed("GET", <<"sys", "namespaces", ":path">>, Always),
  Typed("GET", <<"sys", "namespaces", ":path", "seal-status">>, Since(260))}

get_sys_plugins_catalog == {
  Typed("GET", <<"sys", "plugins", "catalog">>, Always),
  WithQuery(Typed("GET", <<"sys", "plugins", "catalog", ":type", ":name">>, Always),
    "version", ":version"),
  Typed("GET", <<"sys", "policies", "acl", ":name">>, Always)}

get_sys_policies_password == {
  WithQuery(Typed("GET", <<"sys", "policies", "password">>, Always), "list", "true"),
  Typed("GET", <<"sys", "policies", "password", ":name">>, Always),
  Typed("GET", <<"sys", "policies", "password", ":name", "generate">>, Always)}

get_sys_policy == {
  Typed("GET", <<"sys", "policy">>, Always),
  Typed("GET", <<"sys", "policy", ":name">>, Always),
  Gated("GET", <<"sys", "pprof", "allocs">>, Always)}

get_sys_pprof == {
  Gated("GET", <<"sys", "pprof">>, Always),
  Gated("GET", <<"sys", "pprof", "block">>, Always),
  Gated("GET", <<"sys", "pprof", "cmdline">>, Always)}

get_sys_pprof_goroutine == {
  Gated("GET", <<"sys", "pprof", "goroutine">>, Always),
  Gated("GET", <<"sys", "pprof", "heap">>, Always),
  Gated("GET", <<"sys", "pprof", "mutex">>, Always)}

get_sys_pprof_profile == {
  Gated("GET", <<"sys", "pprof", "profile">>, Always),
  Gated("GET", <<"sys", "pprof", "symbol">>, Always),
  Gated("GET", <<"sys", "pprof", "threadcreate">>, Always)}

get_sys_pprof_trace == {
  Gated("GET", <<"sys", "pprof", "trace">>, Always),
  Typed("GET", <<"sys", "quotas", "config">>, Always),
  Typed("GET", <<"sys", "quotas", "rate-limit", ":name">>, Always)}

get_sys_raw == {
  Gated("GET", <<"sys", "raw", ":path">>, Always),
  WithQuery(Gated("GET", <<"sys", "raw", ":prefix">>, Always), "list", "true"),
  Gated("GET", <<"sys", "rekey", "backup">>, Always)}

get_sys_rekey_init == {
  Gated("GET", <<"sys", "rekey", "init">>, Always),
  Gated("GET", <<"sys", "rekey", "recovery-key-backup">>, Always),
  Gated("GET", <<"sys", "rekey-recovery-key", "init">>, Always)}

get_sys_rekey_recovery_key_verify == {
  Gated("GET", <<"sys", "rekey-recovery-key", "verify">>, Always),
  Gated("GET", <<"sys", "rekey", "verify">>, Always),
  Typed("GET", <<"sys", "remount", "status", ":migration_id">>, Always)}

get_sys_rotate_config == {
  Gated("GET", <<"sys", "rotate", "config">>, Always),
  Gated("GET", <<"sys", "rotate", "keyring", "config">>, Since(240)),
  Gated("GET", <<"sys", "rotate", "(root|recovery)", "backup">>, Since(255))}

get_sys_rotate_init == {
  Gated("GET", <<"sys", "rotate", "(root|recovery)", "init">>, Since(240)),
  Gated("GET", <<"sys", "rotate", "(root|recovery)", "verify">>, Since(240)),
  Typed("GET", <<"sys", "seal-status">>, Always)}

get_sys_storage_raft == {
  Typed("GET", <<"sys", "storage", "raft", "autopilot", "configuration">>, Always),
  Typed("GET", <<"sys", "storage", "raft", "autopilot", "state">>, Always),
  Typed("GET", <<"sys", "storage", "raft", "configuration">>, Always)}

get_sys_storage_raft_2 == {
  Typed("GET", <<"sys", "storage", "raft", "snapshot">>, Always),
  Typed("GET", <<"sys", "workflows", "manage", ":path">>, Since(260)),
  Typed("GET", <<"totp", "code", ":name">>, Always)}

get_totp_keys == {
  Typed("GET", <<"totp", "keys", ":name">>, Always),
  Typed("GET", <<"transit", "backup", ":name">>, Always),
  Typed("GET", <<"transit", "byok-export", ":destination", ":source", "(/:version)">>,
    Always)}

get_transit_cache_config == {
  Typed("GET", <<"transit", "cache-config">>, Always),
  Typed("GET", <<"transit", "config", "keys">>, Always),
  Typed("GET", <<"transit", "export", ":key_type", ":name", "(/:version)">>, Always)}

get_transit_keys == {
  Typed("GET", <<"transit", "keys", ":name">>, Always),
  Typed("GET", <<"transit", "wrapping_key">>, Always)}

head_sys_health == {
  Typed("HEAD", <<"sys", "health">>, Always)}

list_auth_approle_role == {
  Typed("LIST", <<"auth", "approle", "role">>, Always),
  Typed("LIST", <<"auth", "approle", "role", ":role_name", "secret-id">>, Always),
  Typed("LIST", <<"auth", "cert", "certs">>, Always)}

list_auth_cert_crls == {
  Typed("LIST", <<"auth", "cert", "crls">>, Always),
  Typed("LIST", <<"auth", "jwt", "cel", "role">>, Since(260)),
  Typed("LIST", <<"auth", "jwt", "role">>, Always)}

list_auth_kerberos_groups == {
  Typed("LIST", <<"auth", "kerberos", "groups">>, Until(265)),
  Typed("LIST", <<"auth", "kubernetes", "role">>, Always),
  Typed("LIST", <<"auth", "ldap", "groups">>, Until(265))}

list_auth_ldap_users == {
  Typed("LIST", <<"auth", "ldap", "users">>, Until(265)),
  Typed("LIST", <<"auth", "radius", "users">>, Until(265)),
  Typed("LIST", <<"auth", "token", "accessors">>, Always)}

list_auth_token_roles == {
  Typed("LIST", <<"auth", "token", "roles">>, Always),
  Typed("LIST", <<"auth", "userpass", "users">>, Always),
  Typed("LIST", <<"cubbyhole", ":path">>, Always)}

list_database_config == {
  Typed("LIST", <<"database", "config">>, Always),
  Typed("LIST", <<"database", "roles">>, Always),
  Typed("LIST", <<"database", "static-roles">>, Always)}

list_identity_entity_alias_id == {
  Typed("LIST", <<"identity", "entity-alias", "id">>, Always),
  Typed("LIST", <<"identity", "entity", "id">>, Always),
  Typed("LIST", <<"identity", "entity", "name">>, Always)}

list_identity_group_alias_id == {
  Typed("LIST", <<"identity", "group-alias", "id">>, Always),
  Typed("LIST", <<"identity", "group", "id">>, Always),
  Typed("LIST", <<"identity", "group", "name">>, Always)}

list_identity_mfa_login_enforcement == {
  Typed("LIST", <<"identity", "mfa", "login-enforcement">>, Always),
  Typed("LIST", <<"identity", "mfa", "method", "duo">>, Always),
  Typed("LIST", <<"identity", "mfa", "method", "okta">>, Always)}

list_identity_mfa_method == {
  Typed("LIST", <<"identity", "mfa", "method", "pingid">>, Always),
  Typed("LIST", <<"identity", "mfa", "method", "totp">>, Always),
  Typed("LIST", <<"identity", "oidc", "assignment">>, Always)}

list_identity_oidc_client == {
  Typed("LIST", <<"identity", "oidc", "client">>, Always),
  Typed("LIST", <<"identity", "oidc", "key">>, Always),
  Typed("LIST", <<"identity", "oidc", "provider">>, Always)}

list_identity_oidc_role == {
  Typed("LIST", <<"identity", "oidc", "role">>, Always),
  Typed("LIST", <<"identity", "oidc", "scope">>, Always),
  Typed("LIST", <<"kubernetes", "roles">>, Always)}

list_ldap_library == {
  Typed("LIST", <<"ldap", "library">>, Until(265)),
  Typed("LIST", <<"pki", "cel", "roles">>, Since(240)),
  Typed("LIST", <<"pki", "certs">>, Always)}

list_pki_certs_detailed == {
  WithQuery(Typed("LIST", <<"pki", "certs", "detailed">>, Since(220)), "detailed", "true"),
  Typed("LIST", <<"pki", "certs", "revocation-queue">>, Always),
  Typed("LIST", <<"pki", "certs", "revoked">>, Always)}

list_pki_eab == {
  Typed("LIST", <<"pki", "eab">>, Always),
  Typed("LIST", <<"pki", "issuers">>, Always),
  Typed("LIST", <<"pki", "keys">>, Always)}

list_pki_roles == {
  Typed("LIST", <<"pki", "roles">>, Always),
  Typed("LIST", <<"rabbitmq", "roles">>, Always),
  Typed("LIST", <<":secret-mount-path", "detailed-metadata", ":path">>, Since(220))}

list_kv2_metadata == {
  Typed("LIST", <<":secret-mount-path", "metadata", ":path">>, Always),
  Typed("LIST", <<"secret", ":path">>, Always),
  Typed("LIST", <<"ssh", "issuers">>, Since(231))}

list_ssh_roles == {
  Typed("LIST", <<"ssh", "roles">>, Always),
  Gated("LIST", <<"sys", "config", "ui", "headers">>, Always),
  Gated("LIST", <<"sys", "external-keys", "configs">>, Since(270))}

list_sys_external_keys_configs == {
  Gated("LIST", <<"sys", "external-keys", "configs", ":name", "keys">>, Since(270)),
  Gated("LIST", <<"sys", "external-keys", "configs", ":name", "keys", ":key_ref",
    "grants">>, Since(270)),
  Typed("LIST", <<"sys", "leases", "lookup", ":prefix">>, Always)}

list_sys_namespaces == {
  Typed("LIST", <<"sys", "namespaces">>, Always),
  Typed("LIST", <<"sys", "plugins", "catalog", "auth">>, Always),
  Typed("LIST", <<"sys", "plugins", "catalog", "database">>, Always)}

list_sys_plugins_catalog == {
  Typed("LIST", <<"sys", "plugins", "catalog", "secret">>, Always),
  Typed("LIST", <<"sys", "policies", "acl">>, Always),
  Typed("LIST", <<"sys", "policies", "acl", ":prefix">>, Since(220))}

list_sys_policies_detailed == {
  Typed("LIST", <<"sys", "policies", "detailed", "acl">>, Since(250)),
  Typed("LIST", <<"sys", "policies", "detailed", "acl", ":prefix">>, Since(250)),
  Typed("LIST", <<"sys", "policies", "password">>, Always)}

list_sys_policy == {
  Typed("LIST", <<"sys", "policy", ":prefix">>, Since(220)),
  Typed("LIST", <<"sys", "quotas", "rate-limit">>, Always),
  Gated("LIST", <<"sys", "raw", ":prefix">>, Always)}

list_sys_version_history == {
  Typed("LIST", <<"sys", "version-history">>, Always),
  Typed("LIST", <<"sys", "workflows", "manage">>, Since(260)),
  Refused("LIST", <<"sys", "workflows", "manage", ":prefix">>, Blocked(Since(260), 270,
    272))}

list_totp_keys == {
  Typed("LIST", <<"totp", "keys">>, Always),
  Typed("LIST", <<"transit", "keys">>, Always)}

scan_kv2_detailed_metadata == {
  Typed("SCAN", <<":secret-mount-path", "detailed-metadata", ":path">>, Since(220)),
  Typed("SCAN", <<":secret-mount-path", "metadata", ":path">>, Since(220)),
  Typed("SCAN", <<"secret", ":path">>, Since(220))}

scan_sys_workflows_manage == {
  Typed("SCAN", <<"sys", "workflows", "manage">>, Since(260)),
  Refused("SCAN", <<"sys", "workflows", "manage", ":prefix">>, Blocked(Since(260), 270,
    272))}

-----------------------------------------------------------------------------
AcmeOperations == UNION {
  acme_pki_acme_directory, acme_pki_roles_acme}

GetOperations == UNION {
  get_auth_approle_role, get_auth_approle_role_2, get_auth_approle_role_3,
  get_auth_approle_role_4, get_auth_cert_crls, get_auth_jwt_oidc,
  get_auth_kerberos_config, get_auth_kubernetes_config, get_auth_ldap_config,
  get_auth_radius_users, get_auth_userpass_users, get_database_creds,
  get_database_static_roles, get_identity_entity_id,
  get_identity_entity_name, get_identity_group_id, get_identity_group_name,
  get_identity_mfa_method, get_identity_oidc_assignment,
  get_identity_oidc_key, get_identity_oidc_provider, get_identity_oidc_scope,
  get_identity_oidc_well_known, get_kubernetes_roles, get_ldap_library,
  get_ldap_static_cred, get_pki_ca, get_pki_cel_roles, get_pki_cert_crl,
  get_pki_cert_raw, get_pki_config_auto_tidy, get_pki_config_issuers,
  get_pki_crl, get_pki_crl_pem, get_pki_issuer_crl, get_pki_issuer_crl_2,
  get_pki_issuer_der, get_pki_issuer_pem, get_pki_roles, get_rabbitmq_roles,
  get_kv2_metadata, get_ssh_config_ca, get_ssh_issuer, get_ssh_roles,
  get_sys_auth, get_sys_config_auditing, get_sys_config_ui,
  get_sys_generate_recovery_token_attempt, get_sys_ha_status,
  get_sys_in_flight_req, get_sys_internal_counters, get_sys_internal_inspect,
  get_sys_internal_inspect_2, get_sys_internal_ui, get_sys_internal_ui_2,
  get_sys_leases_count, get_sys_loggers, get_sys_monitor,
  get_sys_mounts_tune, get_sys_plugins_catalog, get_sys_policies_password,
  get_sys_policy, get_sys_pprof, get_sys_pprof_goroutine,
  get_sys_pprof_profile, get_sys_pprof_trace, get_sys_raw,
  get_sys_rekey_init, get_sys_rekey_recovery_key_verify,
  get_sys_rotate_config, get_sys_rotate_init, get_sys_storage_raft,
  get_sys_storage_raft_2, get_totp_keys, get_transit_cache_config,
  get_transit_keys}

HeadOperations == UNION {
  head_sys_health}

ListOperations == UNION {
  list_auth_approle_role, list_auth_cert_crls, list_auth_kerberos_groups,
  list_auth_ldap_users, list_auth_token_roles, list_database_config,
  list_identity_entity_alias_id, list_identity_group_alias_id,
  list_identity_mfa_login_enforcement, list_identity_mfa_method,
  list_identity_oidc_client, list_identity_oidc_role, list_ldap_library,
  list_pki_certs_detailed, list_pki_eab, list_pki_roles, list_kv2_metadata,
  list_ssh_roles, list_sys_external_keys_configs, list_sys_namespaces,
  list_sys_plugins_catalog, list_sys_policies_detailed, list_sys_policy,
  list_sys_version_history, list_totp_keys}

ScanOperations == UNION {
  scan_kv2_detailed_metadata, scan_sys_workflows_manage}
=============================================================================
