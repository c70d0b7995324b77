-------------------------- MODULE WriteOperations --------------------------
(***************************************************************************)
(* The operations of GENERATED_OPERATIONS of the methods DELETE, PATCH,     *)
(* POST and PUT, in the order of the table                                  *)
(* (src/src/generated/openbao_capabilities.rs).                             *)
(***************************************************************************)
EXTENDS CapabilityRecords

delete_auth_approle_role == {
  Typed("DELETE", <<"auth", "approle", "role", ":role_name">>, Always),
  Typed("DELETE", <<"auth", "approle", "role", ":role_name", "bind-secret-id">>, Always),
  Typed("DELETE", <<"auth", "approle", "role", ":role_name", "period">>, Always)}

delete_auth_approle_role_2 == {
  Typed("DELETE", <<"auth", "approle", "role", ":role_name", "policies">>, Always),
  Typed("DELETE", <<"auth", "approle", "role", ":role_name", "secret-id-bound-cidrs">>,
    Always),
  Typed("DELETE", <<"auth", "approle", "role", ":role_name", "secret-id-num-uses">>,
    Always)}

delete_auth_approle_role_3 == {
  Typed("DELETE", <<"auth", "approle", "role", ":role_name", "secret-id-ttl">>, Always),
  Typed("DELETE", <<"auth", "approle", "role", ":role_name", "token-bound-cidrs">>, Always),
  Typed("DELETE", <<"auth", "approle", "role", ":role_name", "token-max-ttl">>, Always)}

delete_auth_approle_role_4 == {
  Typed("DELETE", <<"auth", "approle", "role", ":role_name", "token-ttl">>, Always),
  Typed("DELETE", <<"auth", "cert", "certs", ":name">>, Always),
  Typed("DELETE", <<"auth", "cert", "crls", ":name">>, Always)}

delete_auth_jwt_cel == {
  Typed("DELETE", <<"auth", "jwt", "cel", "role", ":name">>, Since(260)),
  Typed("DELETE", <<"auth", "jwt", "role", ":name">>, Always),
  Typed("DELETE", <<"auth", "kerberos", "groups", ":name">>, Until(265))}

delete_auth_kubernetes_role == {
  Typed("DELETE", <<"auth", "kubernetes", "role", ":role">>, Always),
  Typed("DELETE", <<"auth", "ldap", "groups", ":name">>, Until(265)),
  Typed("DELETE", <<"auth", "ldap", "users", ":username">>, Until(265))}

delete_auth_radius_users == {
  Typed("DELETE", <<"auth", "radius", "users", ":username">>, Until(265)),
  Typed("DELETE", <<"auth", "token", "roles", ":role_name">>, Always),
  Typed("DELETE", <<"auth", "userpass", "users", ":username">>, Always)}

delete_cubbyhole == {
  Typed("DELETE", <<"cubbyhole", ":path">>, Always),
  Typed("DELETE", <<"database", "config", ":name">>, Always),
  Typed("DELETE", <<"database", "roles", ":name">>, Always)}

delete_database_static_roles == {
  Typed("DELETE", <<"database", "static-roles", ":name">>, Always),
  Typed("DELETE", <<"identity", "entity-alias", "id", ":id">>, Always),
  Typed("DELETE", <<"identity", "entity", "id", ":id">>, Always)}

delete_identity_entity_name == {
  Typed("DELETE", <<"identity", "entity", "name", ":name">>, Always),
  Typed("DELETE", <<"identity", "group-alias", "id", ":id">>, Always),
  Typed("DELETE", <<"identity", "group", "id", ":id">>, Always)}

delete_identity_group_name == {
  Typed("DELETE", <<"identity", "group", "name", ":name">>, Always),
  Typed("DELETE", <<"identity", "mfa", "login-enforcement", ":name">>, Always),
  Typed("DELETE", <<"identity", "mfa", "method", "duo", ":id">>, Always)}

delete_identity_mfa_method == {
  Typed("DELETE", <<"identity", "mfa", "method", "okta", ":id">>, Always),
  Typed("DELETE", <<"identity", "mfa", "method", "pingid", ":id">>, Always),
  Typed("DELETE", <<"identity", "mfa", "method", "totp", ":id">>, Always)}

delete_identity_oidc_assignment == {
  Typed("DELETE", <<"identity", "oidc", "assignment", ":name">>, Always),
  Typed("DELETE", <<"identity", "oidc", "client", ":name">>, Always),
  Typed("DELETE", <<"identity", "oidc", "key", ":name">>, Always)}

delete_identity_oidc_provider == {
  Typed("DELETE", <<"identity", "oidc", "provider", ":name">>, Always),
  Typed("DELETE", <<"identity", "oidc", "role", ":name">>, Always),
  Typed("DELETE", <<"identity", "oidc", "scope", ":name">>, Always)}

delete_kubernetes_config == {
  Typed("DELETE", <<"kubernetes", "config">>, Always),
  Typed("DELETE", <<"kubernetes", "roles", ":role">>, Always),
  Typed("DELETE", <<"ldap", "config">>, Until(265))}

delete_ldap_library == {
  Typed("DELETE", <<"ldap", "library", ":set_name">>, Until(265)),
  Typed("DELETE", <<"ldap", "role", ":role_name">>, Until(265)),
  Typed("DELETE", <<"ldap", "static-role", ":role_name">>, Until(265))}

delete_pki_cel_roles == {
  Typed("DELETE", <<"pki", "cel", "roles", ":name">>, Since(240)),
  Typed("DELETE", <<"pki", "eab", ":key_id">>, Always),
  Typed("DELETE", <<"pki", "issuer", ":issuer_ref">>, Always)}

delete_pki_key == {
  Typed("DELETE", <<"pki", "key", ":key_ref">>, Always),
  Typed("DELETE", <<"pki", "roles", ":name">>, Always),
  Gated("DELETE", <<"pki", "root">>, Always)}

delete_rabbitmq_roles == {
  Typed("DELETE", <<"rabbitmq", "roles", ":name">>, Always),
  Typed("DELETE", <<":secret-mount-path", "data", ":path">>, Always),
  Typed("DELETE", <<":secret-mount-path", "metadata", ":path">>, Always)}

delete_secret == {
  Typed("DELETE", <<"secret", ":path">>, Always),
  Typed("DELETE", <<"ssh", "config", "ca">>, Always),
  Typed("DELETE", <<"ssh", "config", "zeroaddress">>, Always)}

delete_ssh_issuer == {
  Typed("DELETE", <<"ssh", "issuer", ":issuer_ref">>, Since(231)),
  Typed("DELETE", <<"ssh", "roles", ":name">>, Always),
  Typed("DELETE", <<"ssh", "tidy", "dynamic-keys">>, Always)}

delete_sys_audit == {
  Typed("DELETE", <<"sys", "audit", ":path">>, Always),
  Typed("DELETE", <<"sys", "auth", ":path">>, Always),
  Typed("DELETE", <<"sys", "config", "auditing", "request-headers", ":name">>, Always)}

delete_sys_config_cors == {
  Typed("DELETE", <<"sys", "config", "cors">>, Always),
  Gated("DELETE", <<"sys", "config", "ui", "headers", ":name">>, Always),
  Gated("DELETE", <<"sys", "external-keys", "configs", ":name">>, Since(270))}

delete_sys_external_keys_configs == {
  Gated("DELETE", <<"sys", "external-keys", "configs", ":name", "keys", ":key_ref">>,
    Since(270)),
  Gated("DELETE", <<"sys", "external-keys", "configs", ":name", "keys", ":key_ref",
    "grants", ":path">>, Since(270)),
  Gated("DELETE", <<"sys", "generate-recovery-token", "attempt">>, Always)}

delete_sys_generate_root_attempt == {
  Gated("DELETE", <<"sys", "generate-root", "attempt">>, Always),
  Gated("DELETE", <<"sys", "generate-root-token", "attempt">>, Since(260)),
  Typed("DELETE", <<"sys", "loggers">>, Always)}

delete_sys_loggers == {
  Typed("DELETE", <<"sys", "loggers", ":name">>, Always),
  Typed("DELETE", <<"sys", "mounts", ":path">>, Always),
  Gated("DELETE", <<"sys", "namespaces", ":path", "delete-sealed">>, Since(260))}

delete_sys_namespaces == {
  Typed("DELETE", <<"sys", "namespaces", ":path">>, Always),
  WithQuery(Typed("DELETE", <<"sys", "plugins", "catalog", ":type", ":name">>, Always),
    "version", ":version"),
  Typed("DELETE", <<"sys", "policies", "acl", ":name">>, Always)}

delete_sys_policies_password == {
  Typed("DELETE", <<"sys", "policies", "password", ":name">>, Always),
  Typed("DELETE", <<"sys", "policy", ":name">>, Always),
  Typed("DELETE", <<"sys", "quotas", "rate-limit", ":name">>, Always)}

delete_sys_raw == {
  Gated("DELETE", <<"sys", "raw", ":path">>, Always),
  Gated("DELETE", <<"sys", "rekey", "backup">>, Always),
  Gated("DELETE", <<"sys", "rekey", "init">>, Always)}

delete_sys_rekey_recovery_key_backup == {
  Gated("DELETE", <<"sys", "rekey", "recovery-key-backup">>, Always),
  Gated("DELETE", <<"sys", "rekey-recovery-key", "init">>, Always),
  Gated("DELETE", <<"sys", "rekey-recovery-key", "verify">>, Always)}

delete_sys_rekey_verify == {
  Gated("DELETE", <<"sys", "rekey", "verify">>, Always),
  Gated("DELETE", <<"sys", "rotate", "(root|recovery)", "backup">>, Since(240)),
  Gated("DELETE", <<"sys", "rotate", "(root|recovery)", "init">>, Since(240))}

delete_sys_rotation_verify == {
  Gated("DELETE", <<"sys", "rotation", "(root|recovery)", "verify">>, Since(240)),
  Typed("DELETE", <<"sys", "workflows", "manage", ":path">>, Since(260)),
  Typed("DELETE", <<"totp", "keys", ":name">>, Always)}

delete_transit_keys == {
  Typed("DELETE", <<"transit", "keys", ":name">>, Always),
  Typed("DELETE", <<"transit", "keys", ":name", "soft-delete">>, Always)}

patch_auth_jwt_cel == {
  Typed("PATCH", <<"auth", "jwt", "cel", "role", ":name">>, Blocked(Since(260), 260, 260)),
  Typed("PATCH", <<"pki", "cel", "roles", ":name">>, Since(240)),
  Typed("PATCH", <<"pki", "issuer", ":issuer_ref">>, Always)}

patch_pki_roles == {
  Typed("PATCH", <<"pki", "roles", ":name">>, Always),
  Typed("PATCH", <<":secret-mount-path", "data", ":path">>, Always),
  Typed("PATCH", <<":secret-mount-path", "metadata", ":path">>, Always)}

patch_sys_external_keys_configs == {
  Gated("PATCH", <<"sys", "external-keys", "configs", ":name">>, Since(270)),
  Gated("PATCH", <<"sys", "external-keys", "configs", ":name", "keys", ":key_ref">>,
    Since(270)),
  Typed("PATCH", <<"sys", "namespaces", ":path">>, Always)}

patch_sys_policies_acl == {
  Typed("PATCH", <<"sys", "policies", "acl", ":name">>, Since(261))}

post_auth_approle_login == {
  Typed("POST", <<"auth", "approle", "login">>, Always),
  Typed("POST", <<"auth", "approle", "role", ":role_name", "bind-secret-id">>, Always),
  Typed("POST", <<"auth", "approle", "role", ":role_name", "custom-secret-id">>, Always)}

post_auth_approle_role == {
  Typed("POST", <<"auth", "approle", "role", ":role_name">>, Always),
  Typed("POST", <<"auth", "approle", "role", ":role_name", "period">>, Always),
  Typed("POST", <<"auth", "approle", "role", ":role_name", "policies">>, Always)}

post_auth_approle_role_2 == {
  Typed("POST", <<"auth", "approle", "role", ":role_name", "role-id">>, Always),
  Typed("POST", <<"auth", "approle", "role", ":role_name", "secret-id">>, Always),
  Typed("POST", <<"auth", "approle", "role", ":role_name", "secret-id-accessor",
    "destroy">>, Always)}

post_auth_approle_role_3 == {
  Typed("POST", <<"auth", "approle", "role", ":role_name", "secret-id-accessor",
    "lookup">>, Always),
  Typed("POST", <<"auth", "approle", "role", ":role_name", "secret-id-bound-cidrs">>,
    Always),
  Typed("POST", <<"auth", "approle", "role", ":role_name", "secret-id", "destroy">>,
    Always)}

post_auth_approle_role_4 == {
  Typed("POST", <<"auth", "approle", "role", ":role_name", "secret-id", "lookup">>, Always),
  Typed("POST", <<"auth", "approle", "role", ":role_name", "secret-id-num-uses">>, Always),
  Typed("POST", <<"auth", "approle", "role", ":role_name", "secret-id-ttl">>, Always)}

post_auth_approle_role_5 == {
  Typed("POST", <<"auth", "approle", "role", ":role_name", "token-bound-cidrs">>, Always),
  Typed("POST", <<"auth", "approle", "role", ":role_name", "token-max-ttl">>, Always),
  Typed("POST", <<"auth", "approle", "role", ":role_name", "token-ttl">>, Always)}

post_auth_approle_tidy == {
  Typed("POST", <<"auth", "approle", "tidy", "secret-id">>, Always),
  Typed("POST", <<"auth", "cert", "certs", ":name">>, Always),
  Typed("POST", <<"auth", "cert", "config">>, Always)}

post_auth_cert_crls == {
  Typed("POST", <<"auth", "cert", "crls", ":name">>, Always),
  Typed("POST", <<"auth", "cert", "login">>, Always),
  Typed("POST", <<"auth", "jwt", "cel", "login">>, Since(260))}

post_auth_jwt_cel == {
  Typed("POST", <<"auth", "jwt", "cel", "role", ":name">>, Since(260)),
  Typed("POST", <<"auth", "jwt", "config">>, Always),
  Typed("POST", <<"auth", "jwt", "login">>, Always)}

post_auth_jwt_oidc == {
  Typed("POST", <<"auth", "jwt", "oidc", "auth_url">>, Always),
  Typed("POST", <<"auth", "jwt", "role", ":name">>, Always),
  Typed("POST", <<"auth", "kerberos", "config">>, Until(265))}

post_auth_kerberos_config == {
  Typed("POST", <<"auth", "kerberos", "config", "ldap">>, Until(265)),
  Typed("POST", <<"auth", "kerberos", "groups", ":name">>, Until(265)),
  Typed("POST", <<"auth", "kerberos", "login">>, Until(265))}

post_auth_kubernetes_config == {
  Typed("POST", <<"auth", "kubernetes", "config">>, Always),
  Typed("POST", <<"auth", "kubernetes", "login">>, Always),
  Typed("POST", <<"auth", "kubernetes", "role", ":name">>, Always)}

post_auth_ldap_config == {
  Typed("POST", <<"auth", "ldap", "config">>, Until(265)),
  Typed("POST", <<"auth", "ldap", "groups", ":name">>, Until(265)),
  Typed("POST", <<"auth", "ldap", "login", ":username">>, Until(265))}

post_auth_ldap_users == {
  Typed("POST", <<"auth", "ldap", "users", ":username">>, Until(265)),
  Typed("POST", <<"auth", "radius", "config">>, Until(265)),
  Typed("POST", <<"auth", "radius", "login">>, Until(265))}

post_auth_radius_login == {
  Typed("POST", <<"auth", "radius", "login", ":username">>, Until(265)),
  Typed("POST", <<"auth", "radius", "users", ":username">>, Until(265)),
  Typed("POST", <<"auth", "token", "create">>, Always)}

post_auth_token_create_orphan == {
  Typed("POST", <<"auth", "token", "create-orphan">>, Always),
  Typed("POST", <<"auth", "token", "create", ":role_name">>, Always),
  Typed("POST", <<"auth", "token", "lookup-accessor">>, Always)}

post_auth_token_lookup == {
  Typed("POST", <<"auth", "token", "lookup">>, Always),
  Typed("POST", <<"auth", "token", "renew">>, Always),
  Typed("POST", <<"auth", "token", "renew-accessor">>, Always)}

post_auth_token_renew_self == {
  Typed("POST", <<"auth", "token", "renew-self">>, Always),
  Typed("POST", <<"auth", "token", "revoke-accessor">>, Always),
  Typed("POST", <<"auth", "token", "revoke">>, Always)}

post_auth_token_revoke_orphan == {
  Typed("POST", <<"auth", "token", "revoke-orphan">>, Always),
  Typed("POST", <<"auth", "token", "revoke-self">>, Always),
  Typed("POST", <<"auth", "token", "roles", ":role_name">>, Always)}

post_auth_token_tidy == {
  Typed("POST", <<"auth", "token", "tidy">>, Always),
  Typed("POST", <<"auth", "userpass", "login", ":username">>, Always),
  Typed("POST", <<"auth", "userpass", "users", ":username">>, Always)}

post_auth_userpass_users == {
  Typed("POST", <<"auth", "userpass", "users", ":username", "password">>, Always),
  Typed("POST", <<"auth", "userpass", "users", ":username", "policies">>, Always),
  Typed("POST", <<"cubbyhole", ":path">>, Always)}

post_database_config == {
  Typed("POST", <<"database", "config", ":name">>, Always),
  Typed("POST", <<"database", "reset", ":name">>, Always),
  Typed("POST", <<"database", "roles", ":name">>, Always)}

post_database_rotate_role == {
  Typed("POST", <<"database", "rotate-role", ":name">>, Always),
  Typed("POST", <<"database", "rotate-root", ":name">>, Always),
  Typed("POST", <<"database", "static-roles", ":name">>, Always)}

post_identity_entity == {
  Typed("POST", <<"identity", "entity">>, Always),
  Typed("POST", <<"identity", "entity-alias">>, Always),
  Typed("POST", <<"identity", "entity-alias", "id", ":id">>, Always)}

post_identity_entity_batch_delete == {
  Typed("POST", <<"identity", "entity", "batch-delete">>, Always),
  Typed("POST", <<"identity", "entity", "id", ":id">>, Always),
  Typed("POST", <<"identity", "entity", "merge">>, Always)}

post_identity_entity_name == {
  Typed("POST", <<"identity", "entity", "name", ":name">>, Always),
  Typed("POST", <<"identity", "group">>, Always),
  Typed("POST", <<"identity", "group-alias">>, Always)}

post_identity_group_alias_id == {
  Typed("POST", <<"identity", "group-alias", "id", ":id">>, Always),
  Typed("POST", <<"identity", "group", "id", ":id">>, Always),
  Typed("POST", <<"identity", "group", "name", ":name">>, Always)}

post_identity_lookup_entity == {
  Typed("POST", <<"identity", "lookup", "entity">>, Always),
  Typed("POST", <<"identity", "lookup", "group">>, Always),
  Typed("POST", <<"identity", "mfa", "login-enforcement", ":name">>, Always)}

post_identity_mfa_method == {
  Typed("POST", <<"identity", "mfa", "method", "duo", ":method_id">>, Always),
  Typed("POST", <<"identity", "mfa", "method", "okta", ":method_id">>, Always),
  Typed("POST", <<"identity", "mfa", "method", "pingid", ":method_id">>, Always)}

post_identity_mfa_method_2 == {
  Typed("POST", <<"identity", "mfa", "method", "totp", "admin-destroy">>, Always),
  Typed("POST", <<"identity", "mfa", "method", "totp", "admin-generate">>, Always),
  Typed("POST", <<"identity", "mfa", "method", "totp", "generate">>, Always)}

post_identity_mfa_method_3 == {
  Typed("POST", <<"identity", "mfa", "method", "totp", ":method_id">>, Always),
  Typed("POST", <<"identity", "oidc", "assignment", ":name">>, Always),
  Typed("POST", <<"identity", "oidc", "client", ":name">>, Always)}

post_identity_oidc_config == {
  Typed("POST", <<"identity", "oidc", "config">>, Always),
  Typed("POST", <<"identity", "oidc", "introspect">>, Always),
  Typed("POST", <<"identity", "oidc", "key", ":name">>, Always)}

post_identity_oidc_key == {
  Typed("POST", <<"identity", "oidc", "key", ":name", "rotate">>, Always),
  Typed("POST", <<"identity", "oidc", "provider", ":name">>, Always),
  Typed("POST", <<"identity", "oidc", "provider", ":name", "authorize">>, Always)}

post_identity_oidc_provider == {
  Typed("POST", <<"identity", "oidc", "provider", ":name", "token">>, Always),
  Typed("POST", <<"identity", "oidc", "provider", ":name", "userinfo">>, Always),
  Typed("POST", <<"identity", "oidc", "role", ":name">>, Always)}

post_identity_oidc_scope == {
  Typed("POST", <<"identity", "oidc", "scope", ":name">>, Always),
  Typed("POST", <<"kubernetes", "config">>, Always),
  Typed("POST", <<"kubernetes", "creds", ":role">>, Always)}

post_kubernetes_roles == {
  Typed("POST", <<"kubernetes", "roles", ":name">>, Always),
  Typed("POST", <<"ldap", "config">>, Until(265)),
  Typed("POST", <<"ldap", "library", "manage", ":set_name", "check-in">>, Until(265))}

post_ldap_library == {
  Typed("POST", <<"ldap", "library", ":set_name">>, Until(265)),
  Typed("POST", <<"ldap", "library", ":set_name", "check-in">>, Until(265)),
  Typed("POST", <<"ldap", "library", ":set_name", "check-out">>, Until(265))}

post_ldap_role == {
  Typed("POST", <<"ldap", "role", ":role_name">>, Until(265)),
  Typed("POST", <<"ldap", "rotate-role", ":role_name">>, Until(265)),
  Typed("POST", <<"ldap", "rotate-root">>, Until(265))}

post_ldap_static_role == {
  Typed("POST", <<"ldap", "static-role", ":role_name">>, Until(265)),
  Typed("POST", <<"pki", "acme", "new-eab">>, Always),
  Typed("POST", <<"pki", "cel", "issue", ":name">>, Since(240))}

post_pki_cel_roles == {
  Typed("POST", <<"pki", "cel", "roles", ":name">>, Since(240)),
  Typed("POST", <<"pki", "cel", "sign", ":name">>, Since(240)),
  Typed("POST", <<"pki", "config", "acme">>, Always)}

post_pki_config_auto_tidy == {
  Typed("POST", <<"pki", "config", "auto-tidy">>, Always),
  Typed("POST", <<"pki", "config", "ca">>, Always),
  Typed("POST", <<"pki", "config", "cluster">>, Always)}

post_pki_config_crl == {
  Typed("POST", <<"pki", "config", "crl">>, Always),
  Typed("POST", <<"pki", "config", "issuers">>, Always),
  Typed("POST", <<"pki", "config", "keys">>, Always)}

post_pki_config_urls == {
  Typed("POST", <<"pki", "config", "urls">>, Always),
  Gated("POST", <<"pki", "intermediate", "cross-sign">>, Always),
  Typed("POST", <<"pki", "intermediate", "generate", ":type">>, Always)}

post_pki_intermediate_set_signed == {
  Typed("POST", <<"pki", "intermediate", "set-signed">>, Always),
  Typed("POST", <<"pki", "issue", ":name">>, Always),
  Typed("POST", <<"pki", "issuer", ":issuer_ref">>, Always)}

post_pki_issuer_acme == {
  Typed("POST", <<"pki", "issuer", ":issuer_ref", "acme", "new-eab">>, Always),
  Typed("POST", <<"pki", "issuer", ":issuer_ref", "issue", ":name">>, Always),
  Typed("POST", <<"pki", "issuer", ":issuer_ref", "resign-crls">>, Always)}

post_pki_issuer_revoke == {
  Typed("POST", <<"pki", "issuer", ":issuer_ref", "revoke">>, Always),
  Typed("POST", <<"pki", "issuer", ":issuer_ref", "roles", ":role", "acme", "new-eab">>,
    Always),
  Typed("POST", <<"pki", "issuer", ":issuer_ref", "sign-intermediate">>, Always)}

post_pki_issuer_sign == {
  Typed("POST", <<"pki", "issuer", ":issuer_ref", "sign", ":name">>, Always),
  Gated("POST", <<"pki", "issuer", ":issuer_ref", "sign-revocation-list">>, Always),
  Gated("POST", <<"pki", "issuer", ":issuer_ref", "sign-self-issued">>, Always)}

post_pki_issuer_sign_verbatim == {
  Gated("POST", <<"pki", "issuer", ":issuer_ref", "sign-verbatim", "(/:name)">>, Always),
  Typed("POST", <<"pki", "issuers", "generate", "intermediate", ":type">>, Always),
  Typed("POST", <<"pki", "issuers", "generate", "root", ":type">>, Always)}

post_pki_issuers_import == {
  Typed("POST", <<"pki", "issuers", "import", "bundle">>, Always),
  Typed("POST", <<"pki", "issuers", "import", "cert">>, Always),
  Typed("POST", <<"pki", "key", ":key_ref">>, Always)}

post_pki_keys_generate == {
  Typed("POST", <<"pki", "keys", "generate", ":type">>, Always),
  Typed("POST", <<"pki", "keys", "import">>, Always),
  Typed("POST", <<"pki", "ocsp">>, Always)}

post_pki_revoke == {
  Typed("POST", <<"pki", "revoke">>, Always),
  Typed("POST", <<"pki", "revoke-with-key">>, Always),
  Typed("POST", <<"pki", "roles", ":name">>, Always)}

post_pki_roles_acme == {
  Typed("POST", <<"pki", "roles", ":role", "acme", "new-eab">>, Always),
  Typed("POST", <<"pki", "root", "generate", ":type">>, Always),
  Typed("POST", <<"pki", "root", "replace">>, Always)}

post_pki_root_rotate == {
  Typed("POST", <<"pki", "root", "rotate", ":type">>, Always),
  Typed("POST", <<"pki", "root", "sign-intermediate">>, Always),
  Gated("POST", <<"pki", "root", "sign-self-issued">>, Always)}

post_pki_sign == {
  Typed("POST", <<"pki", "sign", ":name">>, Always),
  Gated("POST", <<"pki", "sign-verbatim", "(/:name)">>, Always),
  Typed("POST", <<"pki", "tidy">>, Always)}

post_pki_tidy_cancel == {
  Typed("POST", <<"pki", "tidy-cancel">>, Always),
  Typed("POST", <<"rabbitmq", "config", "connection">>, Always),
  Typed("POST", <<"rabbitmq", "config", "lease">>, Always)}

post_rabbitmq_roles == {
  Typed("POST", <<"rabbitmq", "roles", ":name">>, Always),
  Typed("POST", <<":secret-mount-path", "config">>, Always),
  Typed("POST", <<":secret-mount-path", "data", ":path">>, Always)}

post_kv2_delete == {
  Typed("POST", <<":secret-mount-path", "delete", ":path">>, Always),
  Typed("POST", <<":secret-mount-path", "metadata", ":path">>, Always),
  Typed("POST", <<":secret-mount-path", "undelete", ":path">>, Always)}

post_secret == {
  Typed("POST", <<"secret", ":path">>, Always),
  Typed("POST", <<"ssh", "config", "ca">>, Always),
  Typed("POST", <<"ssh", "config", "issuers">>, Since(231))}

post_ssh_config_zeroaddress == {
  Typed("POST", <<"ssh", "config", "zeroaddress">>, Always),
  Typed("POST", <<"ssh", "creds", ":name">>, Always),
  Typed("POST", <<"ssh", "issue", ":name">>, Always)}

post_ssh_issuer == {
  Typed("POST", <<"ssh", "issuer", ":issuer_ref">>, Since(231)),
  Typed("POST", <<"ssh", "issuers", "import", ":issuer_name">>, Since(231)),
  Typed("POST", <<"ssh", "lookup">>, Always)}

post_ssh_roles == {
  Typed("POST", <<"ssh", "roles", ":name">>, Always),
  Typed("POST", <<"ssh", "sign", ":name">>, Always),
  Typed("POST", <<"ssh", "verify">>, Always)}

post_sys_audit_hash == {
  Typed("POST", <<"sys", "audit-hash", ":path">>, Always),
  Typed("POST", <<"sys", "audit", ":path">>, Always),
  Typed("POST", <<"sys", "auth", ":path">>, Always)}

post_sys_auth_tune == {
  Typed("POST", <<"sys", "auth", ":path", "tune">>, Always),
  Typed("POST", <<"sys", "capabilities-accessor">>, Always),
  Typed("POST", <<"sys", "capabilities">>, Always)}

post_sys_capabilities_self == {
  Typed("POST", <<"sys", "capabilities-self">>, Always),
  Typed("POST", <<"sys", "config", "auditing", "request-headers", ":name">>, Always),
  Typed("POST", <<"sys", "config", "cors">>, Always)}

post_sys_config_ui == {
  Gated("POST", <<"sys", "config", "ui", "headers", ":name">>, Always),
  Gated("POST", <<"sys", "control-group", "authorize">>, Since(270)),
  Gated("POST", <<"sys", "control-group", "request">>, Since(270))}

post_sys_external_keys_configs == {
  Gated("POST", <<"sys", "external-keys", "configs", ":name">>, Since(270)),
  Gated("POST", <<"sys", "external-keys", "configs", ":name", "keys", ":key_ref">>,
    Since(270)),
  Gated("POST", <<"sys", "external-keys", "configs", ":name", "keys", ":key_ref", "grants",
    ":path">>, Since(270))}

post_sys_generate_recovery_token_attempt == {
  Gated("POST", <<"sys", "generate-recovery-token", "attempt">>, Always),
  Gated("POST", <<"sys", "generate-recovery-token", "update">>, Always),
  Gated("POST", <<"sys", "generate-root", "attempt">>, Always)}

post_sys_generate_root_token_attempt == {
  Gated("POST", <<"sys", "generate-root-token", "attempt">>, Since(260)),
  Gated("POST", <<"sys", "generate-root-token", "update">>, Since(260)),
  Gated("POST", <<"sys", "generate-root", "update">>, Always)}

post_sys_init == {
  Typed("POST", <<"sys", "init">>, Always),
  Typed("POST", <<"sys", "leases", "lookup">>, Always),
  Typed("POST", <<"sys", "leases", "renew">>, Always)}

post_sys_leases_revoke == {
  Typed("POST", <<"sys", "leases", "revoke">>, Always),
  Typed("POST", <<"sys", "leases", "revoke-force", ":prefix">>, Always),
  Typed("POST", <<"sys", "leases", "revoke-prefix", ":prefix">>, Always)}

post_sys_leases_tidy == {
  Typed("POST", <<"sys", "leases", "tidy">>, Always),
  Typed("POST", <<"sys", "locked-users", ":mount_accessor", "unlock",
    ":alias-identifier">>, Always),
  Typed("POST", <<"sys", "loggers">>, Always)}

post_sys_loggers == {
  Typed("POST", <<"sys", "loggers", ":name">>, Always),
  Typed("POST", <<"sys", "mfa", "validate">>, Always),
  Typed("POST", <<"sys", "mounts", ":path">>, Always)}

post_sys_mounts_tune == {
  Typed("POST", <<"sys", "mounts", ":path", "tune">>, Always),
  Typed("POST", <<"sys", "namespaces", ":path">>, Always),
  Gated("POST", <<"sys", "namespaces", ":path", "seal">>, Since(260))}

post_sys_namespaces_unseal == {
  Gated("POST", <<"sys", "namespaces", ":path", "unseal">>, Since(260)),
  Typed("POST", <<"sys", "plugins", "catalog", ":type", ":name">>, Always),
  Typed("POST", <<"sys", "plugins", "reload", "backend">>, Always)}

post_sys_policies_acl == {
  Typed("POST", <<"sys", "policies", "acl", ":name">>, Always),
  Typed("POST", <<"sys", "policies", "password", ":name">>, Always),
  Typed("POST", <<"sys", "policy", ":name">>, Always)}

post_sys_quotas_config == {
  Typed("POST", <<"sys", "quotas", "config">>, Always),
  Typed("POST", <<"sys", "quotas", "rate-limit", ":name">>, Always),
  Gated("POST", <<"sys", "raw", ":path">>, Always)}

post_sys_rekey_init == {
  Gated("POST", <<"sys", "rekey", "init">>, Always),
  Gated("POST", <<"sys", "rekey-recovery-key", "init">>, Always),
  Gated("POST", <<"sys", "rekey-recovery-key", "update">>, Always)}

post_sys_rekey_recovery_key_verify == {
  Gated("POST", <<"sys", "rekey-recovery-key", "verify">>, Always),
  Gated("POST", <<"sys", "rekey", "update">>, Always),
  Gated("POST", <<"sys", "rekey", "verify">>, Always)}

post_sys_remount == {
  Typed("POST", <<"sys", "remount">>, Always),
  Gated("POST", <<"sys", "rotate">>, Always),
  Gated("POST", <<"sys", "rotate", "config">>, Always)}

post_sys_rotate_keyring == {
  Gated("POST", <<"sys", "rotate", "keyring">>, Since(240)),
  Gated("POST", <<"sys", "rotate", "keyring", "config">>, Since(240))}

post_sys_rotate_root == {
  Gated("POST", <<"sys", "rotate", "root">>, Since(255)),
  Gated("POST", <<"sys", "rotate", "(root|recovery)", "init">>, Since(240))}

post_sys_rotate_update == {
  Gated("POST", <<"sys", "rotate", "(root|recovery)", "update">>, Since(255)),
  Gated("POST", <<"sys", "rotate", "(root|recovery)", "verify">>, Since(240)),
  Gated("POST", <<"sys", "seal">>, Always)}

post_sys_step_down == {
  Gated("POST", <<"sys", "step-down">>, Always),
  Typed("POST", <<"sys", "storage", "raft", "autopilot", "configuration">>, Always),
  Typed("POST", <<"sys", "storage", "raft", "bootstrap">>, Always)}

post_sys_storage_raft == {
  Typed("POST", <<"sys", "storage", "raft", "demote">>, Since(220)),
  Typed("POST", <<"sys", "storage", "raft", "join">>, Always),
  Typed("POST", <<"sys", "storage", "raft", "promote">>, Since(220))}

post_sys_storage_raft_2 == {
  Typed("POST", <<"sys", "storage", "raft", "remove-peer">>, Always),
  Typed("POST", <<"sys", "storage", "raft", "snapshot">>, Always),
  Typed("POST", <<"sys", "storage", "raft", "snapshot-force">>, Always)}

post_sys_tools_hash == {
  Typed("POST", <<"sys", "tools", "hash", "(/:algorithm)">>, Always),
  Typed("POST", <<"sys", "tools", "random", "(/:source)", "(/:bytes)">>, Always),
  Gated("POST", <<"sys", "unseal">>, Always)}

post_sys_workflows_execute == {
  Typed("POST", <<"sys", "workflows", "execute", ":path">>, Since(260)),
  Typed("POST", <<"sys", "workflows", "manage", ":path">>, Since(260)),
  Gated("POST", <<"sys", "workflows", "trace", ":path">>, Since(260))}

post_sys_workflows_unauthed_execute == {
  Gated("POST", <<"sys", "workflows", "unauthed-execute", ":path">>, Since(260)),
  Typed("POST", <<"sys", "wrapping", "lookup">>, Always),
  Typed("POST", <<"sys", "wrapping", "rewrap">>, Always)}

post_sys_wrapping_unwrap == {
  Typed("POST", <<"sys", "wrapping", "unwrap">>, Always),
  Typed("POST", <<"sys", "wrapping", "wrap">>, Always),
  Typed("POST", <<"totp", "code", ":name">>, Always)}

post_totp_keys == {
  Typed("POST", <<"totp", "keys", ":name">>, Always),
  Typed("POST", <<"transit", "cache-config">>, Always),
  Typed("POST", <<"transit", "config", "keys">>, Always)}

post_transit_datakey == {
  Typed("POST", <<"transit", "datakey", ":type", ":name">>, Always),
  Typed("POST", <<"transit", "decrypt", ":name">>, Always),
  Typed("POST", <<"transit", "encrypt", ":name">>, Always)}

post_transit_hash == {
  Typed("POST", <<"transit", "hash", "(/:algorithm)">>, Always),
  Typed("POST", <<"transit", "hmac", ":name", "(/:algorithm)">>, Always),
  Typed("POST", <<"transit", "keys", ":name">>, Always)}

post_transit_keys_config == {
  Typed("POST", <<"transit", "keys", ":name", "config">>, Always),
  Typed("POST", <<"transit", "keys", ":name", "csr">>, Since(210)),
  Typed("POST", <<"transit", "keys", ":name", "import">>, Always)}

post_transit_keys_import_version == {
  Typed("POST", <<"transit", "keys", ":name", "import_version">>, Always),
  Typed("POST", <<"transit", "keys", ":name", "rotate">>, Always),
  Typed("POST", <<"transit", "keys", ":name", "set-certificate">>, Since(210))}

post_transit_keys_soft_delete_restore == {
  Typed("POST", <<"transit", "keys", ":name", "soft-delete-restore">>, Always),
  Typed("POST", <<"transit", "keys", ":name", "trim">>, Always),
  Typed("POST", <<"transit", "random", "(/:source)", "(/:bytes)">>, Always)}

post_transit_restore == {
  Typed("POST", <<"transit", "restore", "(/:name)">>, Always),
  Typed("POST", <<"transit", "rewrap", ":name">>, Always),
  Typed("POST", <<"transit", "sign", ":name", "(/:hash_algorithm)">>, Always)}

post_transit_verify == {
  Typed("POST", <<"transit", "verify", ":name", "(/:hash_algorithm)">>, Always)}

put_kv2_destroy == {
  Typed("PUT", <<":secret-mount-path", "destroy", ":path">>, Always)}

-----------------------------------------------------------------------------
DeleteOperations == UNION {
  delete_auth_approle_role, delete_auth_approle_role_2,
  delete_auth_approle_role_3, delete_auth_approle_role_4,
  delete_auth_jwt_cel, delete_auth_kubernetes_role, delete_auth_radius_users,
  delete_cubbyhole, delete_database_static_roles,
  delete_identity_entity_name, delete_identity_group_name,
  delete_identity_mfa_method, delete_identity_oidc_assignment,
  delete_identity_oidc_provider, delete_kubernetes_config,
  delete_ldap_library, delete_pki_cel_roles, delete_pki_key,
  delete_rabbitmq_roles, delete_secret, delete_ssh_issuer, delete_sys_audit,
  delete_sys_config_cors, delete_sys_external_keys_configs,
  delete_sys_generate_root_attempt, delete_sys_loggers,
  delete_sys_namespaces, delete_sys_policies_password, delete_sys_raw,
  delete_sys_rekey_recovery_key_backup, delete_sys_rekey_verify,
  delete_sys_rotation_verify, delete_transit_keys}

PatchOperations == UNION {
  patch_auth_jwt_cel, patch_pki_roles, patch_sys_external_keys_configs,
  patch_sys_policies_acl}

PostOperations == UNION {
  post_auth_approle_login, post_auth_approle_role, post_auth_approle_role_2,
  post_auth_approle_role_3, post_auth_approle_role_4,
  post_auth_approle_role_5, post_auth_approle_tidy, post_auth_cert_crls,
  post_auth_jwt_cel, post_auth_jwt_oidc, post_auth_kerberos_config,
  post_auth_kubernetes_config, post_auth_ldap_config, post_auth_ldap_users,
  post_auth_radius_login, post_auth_token_create_orphan,
  post_auth_token_lookup, post_auth_token_renew_self,
  post_auth_token_revoke_orphan, post_auth_token_tidy,
  post_auth_userpass_users, post_database_config, post_database_rotate_role,
  post_identity_entity, post_identity_entity_batch_delete,
  post_identity_entity_name, post_identity_group_alias_id,
  post_identity_lookup_entity, post_identity_mfa_method,
  post_identity_mfa_method_2, post_identity_mfa_method_3,
  post_identity_oidc_config, post_identity_oidc_key,
  post_identity_oidc_provider, post_identity_oidc_scope,
  post_kubernetes_roles, post_ldap_library, post_ldap_role,
  post_ldap_static_role, post_pki_cel_roles, post_pki_config_auto_tidy,
  post_pki_config_crl, post_pki_config_urls,
  post_pki_intermediate_set_signed, post_pki_issuer_acme,
  post_pki_issuer_revoke, post_pki_issuer_sign,
  post_pki_issuer_sign_verbatim, post_pki_issuers_import,
  post_pki_keys_generate, post_pki_revoke, post_pki_roles_acme,
  post_pki_root_rotate, post_pki_sign, post_pki_tidy_cancel,
  post_rabbitmq_roles, post_kv2_delete, post_secret,
  post_ssh_config_zeroaddress, post_ssh_issuer, post_ssh_roles,
  post_sys_audit_hash, post_sys_auth_tune, post_sys_capabilities_self,
  post_sys_config_ui, post_sys_external_keys_configs,
  post_sys_generate_recovery_token_attempt,
  post_sys_generate_root_token_attempt, post_sys_init,
  post_sys_leases_revoke, post_sys_leases_tidy, post_sys_loggers,
  post_sys_mounts_tune, post_sys_namespaces_unseal, post_sys_policies_acl,
  post_sys_quotas_config, post_sys_rekey_init,
  post_sys_rekey_recovery_key_verify, post_sys_remount,
  post_sys_rotate_keyring, post_sys_rotate_root, post_sys_rotate_update,
  post_sys_step_down, post_sys_storage_raft, post_sys_storage_raft_2,
  post_sys_tools_hash, post_sys_workflows_execute,
  post_sys_workflows_unauthed_execute, post_sys_wrapping_unwrap,
  post_totp_keys, post_transit_datakey, post_transit_hash,
  post_transit_keys_config, post_transit_keys_import_version,
  post_transit_keys_soft_delete_restore, post_transit_restore,
  post_transit_verify}

PutOperations == UNION {
  put_kv2_destroy}
=============================================================================
