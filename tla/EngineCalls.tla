----------------------------- MODULE EngineCalls -----------------------------
(*****************************************************************************)
(* The calls of the secrets engines (src/src/secrets).                       *)
(* One definition per run of consecutive methods, one call per request a     *)
(* method sends.                                                             *)
(*****************************************************************************)
EXTENDS TypedCalls

cubbyhole_read == SecretMount("cubbyhole", "cubbyhole", {
  Call("read", "GET", <<"{path*}">>)})

cubbyhole_write == SecretMount("cubbyhole", "cubbyhole", {
  Call("write", "POST", <<"{path*}">>),
  Call("delete", "DELETE", <<"{path*}">>),
  Call("list", "LIST", <<"{path*}">>)})

database_configure_connection == SecretMount("database", "database", {
  Call("configure_connection", "POST", <<"config", "{name*}">>),
  Call("read_connection", "GET", <<"config", "{name*}">>),
  Call("list_connections", "LIST", <<"config">>),
  Call("delete_connection", "DELETE", <<"config", "{name*}">>),
  Call("reset_connection", "POST", <<"reset", "{name*}">>),
  Call("rotate_root", "POST", <<"rotate-root", "{name*}">>),
  Call("write_role", "POST", <<"roles", "{name*}">>),
  Call("read_role", "GET", <<"roles", "{name*}">>),
  Call("list_roles_after", "LIST", <<"roles">>),
  Call("delete_role", "DELETE", <<"roles", "{name*}">>),
  Call("credentials", "GET", <<"creds", "{name*}">>),
  Call("write_static_role", "POST", <<"static-roles", "{name*}">>),
  Call("read_static_role", "GET", <<"static-roles", "{name*}">>),
  Call("list_static_roles_after", "LIST", <<"static-roles">>),
  Call("delete_static_role", "DELETE", <<"static-roles", "{name*}">>),
  Call("static_credentials", "GET", <<"static-creds", "{name*}">>)})

database_rotate_static_role == SecretMount("database", "database", {
  Call("rotate_static_role", "POST", <<"rotate-role", "{name*}">>)})

identity_authorize == IdentityMount({
  Call("authorize", "POST", <<"oidc", "provider", "{provider+}", "authorize">>),
  Call("authorize_get", "GET", <<"oidc", "provider", "{provider+}", "authorize">>),
  Offering({IDENTITY_PROVIDER_TOKEN_SCOPE}, Call("token", "POST", <<"oidc", "provider",
    "{provider+}", "token">>))})

identity_userinfo == IdentityMount({
  Call("userinfo", "POST", <<"oidc", "provider", "{provider+}", "userinfo">>)})

identity_write_entity == IdentityMount({
  Call("write_entity", "POST", <<"entity">>),
  Call("read_entity_by_id", "GET", <<"entity", "id", "{id*}">>),
  Call("update_entity_by_id", "POST", <<"entity", "id", "{id*}">>),
  Call("delete_entity_by_id", "DELETE", <<"entity", "id", "{id*}">>),
  Call("batch_delete_entities", "POST", <<"entity", "batch-delete">>),
  Call("lookup_entity", "POST", <<"lookup", "entity">>),
  Call("merge_entities", "POST", <<"entity", "merge">>),
  Call("list_entity_ids", "LIST", <<"entity", "id">>),
  Call("write_entity_by_name", "POST", <<"entity", "name", "{name*}">>),
  Call("read_entity_by_name", "GET", <<"entity", "name", "{name*}">>),
  Call("delete_entity_by_name", "DELETE", <<"entity", "name", "{name*}">>),
  Call("list_entity_names", "LIST", <<"entity", "name">>),
  Call("write_group", "POST", <<"group">>)})

identity_read_group_by_id == IdentityMount({
  Call("read_group_by_id", "GET", <<"group", "id", "{id*}">>),
  Call("update_group_by_id", "POST", <<"group", "id", "{id*}">>),
  Call("delete_group_by_id", "DELETE", <<"group", "id", "{id*}">>),
  Call("list_group_ids", "LIST", <<"group", "id">>),
  Call("lookup_group", "POST", <<"lookup", "group">>),
  Call("write_group_by_name", "POST", <<"group", "name", "{name*}">>),
  Call("read_group_by_name", "GET", <<"group", "name", "{name*}">>),
  Call("delete_group_by_name", "DELETE", <<"group", "name", "{name*}">>),
  Call("list_group_names", "LIST", <<"group", "name">>),
  Call("write_entity_alias", "POST", <<"entity-alias">>),
  Call("read_entity_alias_by_id", "GET", <<"entity-alias", "id", "{id*}">>),
  Call("delete_entity_alias_by_id", "DELETE", <<"entity-alias", "id", "{id*}">>),
  Call("list_entity_alias_ids", "LIST", <<"entity-alias", "id">>),
  Call("write_group_alias", "POST", <<"group-alias">>),
  Call("read_group_alias_by_id", "GET", <<"group-alias", "id", "{id*}">>)})

identity_delete_group_alias_by_id == IdentityMount({
  Call("delete_group_alias_by_id", "DELETE", <<"group-alias", "id", "{id*}">>),
  Call("list_group_alias_ids", "LIST", <<"group-alias", "id">>),
  Call("write_oidc_config", "POST", <<"oidc", "config">>),
  Call("read_oidc_config", "GET", <<"oidc", "config">>),
  Call("write_oidc_key", "POST", <<"oidc", "key", "{name*}">>),
  Call("read_oidc_key", "GET", <<"oidc", "key", "{name*}">>),
  Call("delete_oidc_key", "DELETE", <<"oidc", "key", "{name*}">>),
  Call("list_oidc_keys", "LIST", <<"oidc", "key">>),
  Call("rotate_oidc_key", "POST", <<"oidc", "key", "{name*}", "rotate">>),
  Call("write_oidc_role", "POST", <<"oidc", "role", "{name*}">>),
  Call("read_oidc_role", "GET", <<"oidc", "role", "{name*}">>),
  Call("delete_oidc_role", "DELETE", <<"oidc", "role", "{name*}">>),
  Call("list_oidc_roles", "LIST", <<"oidc", "role">>),
  Call("generate_oidc_token", "GET", <<"oidc", "token", "{name*}">>)})

identity_introspect_oidc_token == IdentityMount({
  Call("introspect_oidc_token", "POST", <<"oidc", "introspect">>),
  Call("read_oidc_discovery", "GET", <<"oidc", ".well-known", "openid-configuration">>),
  Call("read_oidc_jwks", "GET", <<"oidc", ".well-known", "keys">>),
  Call("write_oidc_provider", "POST", <<"oidc", "provider", "{name*}">>),
  Call("read_oidc_provider", "GET", <<"oidc", "provider", "{name*}">>)})

identity_delete_oidc_provider == IdentityMount({
  Call("delete_oidc_provider", "DELETE", <<"oidc", "provider", "{name*}">>),
  Call("write_oidc_scope", "POST", <<"oidc", "scope", "{name*}">>),
  Call("read_oidc_scope", "GET", <<"oidc", "scope", "{name*}">>),
  Call("list_oidc_scopes", "LIST", <<"oidc", "scope">>),
  Call("delete_oidc_scope", "DELETE", <<"oidc", "scope", "{name*}">>),
  Call("write_oidc_client", "POST", <<"oidc", "client", "{name*}">>),
  Call("read_oidc_client", "GET", <<"oidc", "client", "{name*}">>),
  Call("list_oidc_clients", "LIST", <<"oidc", "client">>),
  Call("delete_oidc_client", "DELETE", <<"oidc", "client", "{name*}">>),
  Call("write_oidc_assignment", "POST", <<"oidc", "assignment", "{name*}">>),
  Call("read_oidc_assignment", "GET", <<"oidc", "assignment", "{name*}">>),
  Call("list_oidc_assignments", "LIST", <<"oidc", "assignment">>),
  Call("delete_oidc_assignment", "DELETE", <<"oidc", "assignment", "{name*}">>),
  Call("read_oidc_provider_discovery", "GET", <<"oidc", "provider", "{name*}",
    ".well-known", "openid-configuration">>),
  Call("read_oidc_provider_jwks", "GET", <<"oidc", "provider", "{name*}",
    ".well-known", "keys">>)})

identity_create_mfa_duo_method == IdentityMount({
  Call("create_mfa_duo_method", "POST", <<"mfa", "method", "duo">>),
  Call("write_mfa_duo_method", "POST", <<"mfa", "method", "duo", "{method_id*}">>),
  Call("read_mfa_duo_method", "GET", <<"mfa", "method", "duo", "{id*}">>),
  Call("delete_mfa_duo_method", "DELETE", <<"mfa", "method", "duo", "{id*}">>),
  Call("list_mfa_duo_methods", "LIST", <<"mfa", "method", "duo">>),
  Call("create_mfa_okta_method", "POST", <<"mfa", "method", "okta">>),
  Call("write_mfa_okta_method", "POST", <<"mfa", "method", "okta", "{method_id*}">>),
  Call("read_mfa_okta_method", "GET", <<"mfa", "method", "okta", "{id*}">>),
  Call("delete_mfa_okta_method", "DELETE", <<"mfa", "method", "okta", "{id*}">>),
  Call("list_mfa_okta_methods", "LIST", <<"mfa", "method", "okta">>),
  Call("create_mfa_pingid_method", "POST", <<"mfa", "method", "pingid">>),
  Call("write_mfa_pingid_method", "POST", <<"mfa", "method", "pingid",
    "{method_id*}">>),
  Call("read_mfa_pingid_method", "GET", <<"mfa", "method", "pingid", "{id*}">>),
  Call("delete_mfa_pingid_method", "DELETE", <<"mfa", "method", "pingid", "{id*}">>),
  Call("list_mfa_pingid_methods", "LIST", <<"mfa", "method", "pingid">>),
  Call("create_mfa_totp_method", "POST", <<"mfa", "method", "totp">>),
  Call("write_mfa_totp_method", "POST", <<"mfa", "method", "totp", "{method_id*}">>),
  Call("read_mfa_totp_method", "GET", <<"mfa", "method", "totp", "{id*}">>),
  Call("delete_mfa_totp_method", "DELETE", <<"mfa", "method", "totp", "{id*}">>),
  Call("list_mfa_totp_methods", "LIST", <<"mfa", "method", "totp">>),
  Call("generate_mfa_totp_secret", "POST", <<"mfa", "method", "totp", "generate">>)})

identity_admin_generate_mfa_totp_secret == IdentityMount({
  Call("admin_generate_mfa_totp_secret", "POST", <<"mfa", "method", "totp",
    "admin-generate">>),
  Call("admin_destroy_mfa_totp_secret", "POST", <<"mfa", "method", "totp",
    "admin-destroy">>),
  Call("write_mfa_login_enforcement", "POST", <<"mfa", "login-enforcement",
    "{name*}">>),
  Call("read_mfa_login_enforcement", "GET", <<"mfa", "login-enforcement", "{name*}">>),
  Call("delete_mfa_login_enforcement", "DELETE", <<"mfa", "login-enforcement",
    "{name*}">>),
  Call("list_mfa_login_enforcements", "LIST", <<"mfa", "login-enforcement">>)})

identity_list_oidc_providers_with_client_id == IdentityMount({
  Call("list_oidc_providers_with_client_id", "LIST", <<"oidc", "provider">>)})

kubernetes_write_config == SecretMount("kubernetes", "kubernetes", {
  Call("write_config", "POST", <<"config">>),
  Call("read_config", "GET", <<"config">>),
  Call("delete_config", "DELETE", <<"config">>),
  Call("write_role", "POST", <<"roles", "{name*}">>),
  Call("read_role", "GET", <<"roles", "{name*}">>),
  Call("list_roles_after", "LIST", <<"roles">>),
  Call("delete_role", "DELETE", <<"roles", "{name*}">>),
  Call("credentials", "POST", <<"creds", "{role*}">>)})

kv1_read == SecretMount("secret", "secret", {
  Call("read", "GET", <<"{path*}">>),
  Call("write", "POST", <<"{path*}">>),
  Call("delete", "DELETE", <<"{path*}">>),
  Call("list", "LIST", <<"{path*}">>),
  Call("scan", "SCAN", <<"{path*}">>)})

kv2_read == SecretMount(":secret-mount-path", "secret", {
  Call("read", "GET", <<"data", "{path*}">>)})

kv2_read_version == SecretMount(":secret-mount-path", "secret", {
  Asking("version", "[version]", Call("read_version", "GET", <<"data", "{path*}">>))})

kv2_write_with_options == SecretMount(":secret-mount-path", "secret", {
  Call("write_with_options", "POST", <<"data", "{path*}">>),
  Call("patch_with_options", "PATCH", <<"data", "{path*}">>),
  Call("delete_latest", "DELETE", <<"data", "{path*}">>),
  Call("delete_versions", "POST", <<"delete", "{path*}">>),
  Call("undelete_versions", "POST", <<"undelete", "{path*}">>),
  Call("destroy_versions", "PUT", <<"destroy", "{path*}">>),
  Call("list_after", "LIST", <<"metadata", "{path*}">>),
  Call("scan", "SCAN", <<"metadata", "{path*}">>),
  Call("list_detailed_metadata", "LIST", <<"detailed-metadata", "{path*}">>)})

kv2_scan_detailed_metadata == SecretMount(":secret-mount-path", "secret", {
  Call("scan_detailed_metadata", "SCAN", <<"detailed-metadata", "{path*}">>),
  Call("subkeys", "GET", <<"subkeys", "{path*}">>),
  Call("config", "GET", <<"config">>),
  Call("configure", "POST", <<"config">>),
  Call("metadata", "GET", <<"metadata", "{path*}">>),
  Call("put_metadata", "POST", <<"metadata", "{path*}">>),
  Call("patch_metadata", "PATCH", <<"metadata", "{path*}">>),
  Call("delete_metadata", "DELETE", <<"metadata", "{path*}">>)})

ldap_write_config == SecretMount("ldap", "ldap", {
  Call("write_config", "POST", <<"config">>),
  Call("read_config", "GET", <<"config">>),
  Call("delete_config", "DELETE", <<"config">>),
  Call("rotate_root", "POST", <<"rotate-root">>),
  Call("write_static_role", "POST", <<"static-role", "{name*}">>),
  Call("read_static_role", "GET", <<"static-role", "{name*}">>),
  Asking("list", "true", Call("list_static_roles", "GET", <<"static-role">>)),
  Call("delete_static_role", "DELETE", <<"static-role", "{name*}">>),
  Call("static_credentials", "GET", <<"static-cred", "{name*}">>),
  Call("rotate_static_role", "POST", <<"rotate-role", "{name*}">>),
  Call("write_dynamic_role", "POST", <<"role", "{name*}">>),
  Call("read_dynamic_role", "GET", <<"role", "{name*}">>),
  Call("delete_dynamic_role", "DELETE", <<"role", "{name*}">>),
  Call("dynamic_credentials", "GET", <<"creds", "{name*}">>),
  Call("write_library_set", "POST", <<"library", "{name*}">>),
  Call("read_library_set", "GET", <<"library", "{name*}">>)})

ldap_list_library_sets == SecretMount("ldap", "ldap", {
  Call("list_library_sets", "LIST", <<"library">>),
  Call("delete_library_set", "DELETE", <<"library", "{name*}">>),
  Call("library_status", "GET", <<"library", "{name*}", "status">>),
  Call("check_out", "POST", <<"library", "{name*}", "check-out">>),
  Call("check_in", "POST", <<"library", "{name*}", "check-in">>),
  Call("force_check_in", "POST", <<"library", "manage", "{name*}", "check-in">>)})

pki_ca_der == SecretMount("pki", "pki", {
  Call("ca_der", "GET", <<"ca">>),
  Call("ca_pem", "GET", <<"ca", "pem">>),
  Call("ca_chain_pem", "GET", <<"ca_chain">>),
  Call("legacy_ca_der", "GET", <<"cert", "ca">>),
  Call("legacy_ca_chain_pem", "GET", <<"cert", "ca_chain">>),
  Call("crl_der", "GET", <<"crl">>),
  Call("crl_pem", "GET", <<"crl", "pem">>),
  Call("delta_crl_der", "GET", <<"crl", "delta">>),
  Call("delta_crl_pem", "GET", <<"crl", "delta", "pem">>),
  Call("legacy_crl_der", "GET", <<"cert", "crl">>),
  Call("legacy_delta_crl_der", "GET", <<"cert", "delta-crl">>),
  Call("certificate_der", "GET", <<"cert", "{serial*}", "raw">>),
  Call("certificate_pem", "GET", <<"cert", "{serial*}", "raw", "pem">>),
  Call("issuer_certificate", "GET", <<"issuer", "{issuer_ref*}", "der">>),
  Call("issuer_certificate", "GET", <<"issuer", "{issuer_ref*}", "pem">>),
  Call("issuer_certificate", "GET", <<"issuer", "{issuer_ref*}", "json">>),
  Call("issuer_crl", "GET", <<"issuer", "{issuer_ref*}", "crl", "der">>),
  Call("issuer_crl", "GET", <<"issuer", "{issuer_ref*}", "crl", "pem">>),
  Call("issuer_crl", "GET", <<"issuer", "{issuer_ref*}", "crl">>),
  Call("issuer_crl", "GET", <<"issuer", "{issuer_ref*}", "crl", "delta", "der">>),
  Call("issuer_crl", "GET", <<"issuer", "{issuer_ref*}", "crl", "delta", "pem">>),
  Call("issuer_crl", "GET", <<"issuer", "{issuer_ref*}", "crl", "delta">>),
  Call("ocsp_post", "POST", <<"ocsp">>)})

pki_ocsp_get_encoded == SecretMount("pki", "pki", {
  Call("ocsp_get_encoded", "GET", <<"ocsp", "{encoded_request*}">>)})

pki_generate_root == SecretMount("pki", "pki", {
  Offering({PKI_AUTHORITY_NOT_BEFORE, PKI_KEY_TYPE_MLDSA}, Call("generate_root",
    "POST", <<"root", "generate", "[type]">>)),
  Offering({PKI_AUTHORITY_NOT_BEFORE, PKI_KEY_TYPE_MLDSA}, Call("generate_issuer_root",
    "POST", <<"issuers", "generate", "root", "[type]">>)),
  Offering({PKI_AUTHORITY_NOT_BEFORE, PKI_KEY_TYPE_MLDSA}, Call("rotate_root", "POST",
    <<"root", "rotate", "[type]">>)),
  Call("replace_root", "POST", <<"root", "replace">>),
  Offering({PKI_KEY_TYPE_MLDSA}, Call("generate_key", "POST", <<"keys", "generate",
    "[type]">>)),
  Call("delete_root", "DELETE", <<"root">>),
  Offering({PKI_AUTHORITY_NOT_BEFORE, PKI_KEY_TYPE_MLDSA},
    Call("generate_intermediate", "POST", <<"intermediate", "generate", "[type]">>))})

pki_generate_issuer_intermediate == SecretMount("pki", "pki", {
  Offering({PKI_AUTHORITY_NOT_BEFORE, PKI_KEY_TYPE_MLDSA},
    Call("generate_issuer_intermediate", "POST", <<"issuers", "generate",
    "intermediate", "[type]">>)),
  Call("sign_intermediate", "POST", <<"root", "sign-intermediate">>),
  Call("sign_intermediate_with_issuer", "POST", <<"issuer", "{issuer_ref*}",
    "sign-intermediate">>),
  Call("sign_self_issued", "POST", <<"root", "sign-self-issued">>),
  Call("sign_self_issued_with_issuer", "POST", <<"issuer", "{issuer_ref*}",
    "sign-self-issued">>),
  Call("cross_sign_intermediate", "POST", <<"intermediate", "cross-sign">>),
  Call("set_signed_intermediate", "POST", <<"intermediate", "set-signed">>),
  Offering(validate_role_request_fields, Call("write_role", "POST", <<"roles",
    "{name*}">>))})

pki_write_role_with_identity_template_globs == SecretMount("pki", "pki", {
  Needing({PKI_ROLE_ALLOW_TEMPLATE_GLOBS}, Offering(validate_role_request_fields,
    Call("write_role_with_identity_template_globs", "POST", <<"roles", "{name*}">>))),
  Needing({PKI_ROLE_ALLOW_TEMPLATE_GLOBS}, Offering(validate_role_request_fields,
    Call("patch_role_with_identity_template_globs", "PATCH", <<"roles", "{name*}">>))),
  Offering(validate_role_request_fields, Call("patch_role", "PATCH", <<"roles",
    "{name*}">>)),
  Call("read_role", "GET", <<"roles", "{name*}">>),
  Call("read_role_details", "GET", <<"roles", "{name*}">>),
  Call("list_roles", "LIST", <<"roles">>),
  Call("delete_role", "DELETE", <<"roles", "{name*}">>),
  Call("read_urls", "GET", <<"config", "urls">>),
  Call("write_urls", "POST", <<"config", "urls">>),
  Call("read_issuers_config", "GET", <<"config", "issuers">>)})

pki_write_issuers_config == SecretMount("pki", "pki", {
  Call("write_issuers_config", "POST", <<"config", "issuers">>),
  Call("read_keys_config", "GET", <<"config", "keys">>),
  Call("write_keys_config", "POST", <<"config", "keys">>),
  Call("read_cluster_config", "GET", <<"config", "cluster">>),
  Call("write_cluster_config", "POST", <<"config", "cluster">>),
  Call("read_crl_config", "GET", <<"config", "crl">>),
  Call("write_crl_config", "POST", <<"config", "crl">>),
  Call("rotate_crl", "GET", <<"crl", "rotate">>),
  Call("rotate_delta_crl", "GET", <<"crl", "rotate-delta">>),
  Offering({PKI_TIDY_INVALID_CERTS, PKI_TIDY_PAGE_SIZE}, Call("tidy", "POST",
    <<"tidy">>)),
  Call("tidy_status", "GET", <<"tidy-status">>),
  Call("tidy_cancel", "POST", <<"tidy-cancel">>),
  Call("read_auto_tidy_config", "GET", <<"config", "auto-tidy">>)})

pki_write_auto_tidy_config == SecretMount("pki", "pki", {
  Offering({PKI_AUTO_TIDY_INVALID_CERTS, PKI_AUTO_TIDY_PAGE_SIZE,
    PKI_AUTO_TIDY_REVOKED_SAFETY_BUFFER}, Call("write_auto_tidy_config", "POST",
    <<"config", "auto-tidy">>)),
  Call("issue", "POST", <<"issue", "{role*}">>),
  Call("issue_with_issuer", "POST", <<"issuer", "{issuer_ref*}", "issue", "{role*}">>),
  Call("sign", "POST", <<"sign", "{role*}">>),
  Call("sign_with_issuer", "POST", <<"issuer", "{issuer_ref*}", "sign", "{role*}">>),
  Offering({PKI_SIGN_VERBATIM_NOT_BEFORE}, Call("sign_verbatim", "POST",
    <<"sign-verbatim">>)),
  Offering({PKI_SIGN_VERBATIM_NOT_BEFORE}, Call("sign_verbatim_at_role", "POST",
    <<"sign-verbatim", "{role*}">>)),
  Offering({PKI_SIGN_VERBATIM_NOT_BEFORE}, Call("sign_verbatim_with_issuer", "POST",
    <<"issuer", "{issuer_ref*}", "sign-verbatim">>)),
  Offering({PKI_SIGN_VERBATIM_NOT_BEFORE}, Call("sign_verbatim_with_issuer_at_role",
    "POST", <<"issuer", "{issuer_ref*}", "sign-verbatim", "{role*}">>))})

pki_revoke == SecretMount("pki", "pki", {
  Call("revoke", "POST", <<"revoke">>),
  Call("revoke_with_key", "POST", <<"revoke-with-key">>),
  Call("list_certificates", "LIST", <<"certs">>),
  Call("list_revoked_certificates", "LIST", <<"certs", "revoked">>),
  Call("list_revocation_queue", "LIST", <<"certs", "revocation-queue">>),
  Asking("detailed", "true", Call("list_certificates_detailed", "LIST", <<"certs",
    "detailed">>)),
  Call("read_certificate", "GET", <<"cert", "{serial*}">>),
  Call("resign_crls", "POST", <<"issuer", "{issuer_ref*}", "resign-crls">>),
  Call("sign_revocation_list", "POST", <<"issuer", "{issuer_ref*}",
    "sign-revocation-list">>),
  Call("list_issuers", "LIST", <<"issuers">>),
  Call("read_issuer", "GET", <<"issuer", "{issuer_ref*}">>),
  Call("delete_issuer", "DELETE", <<"issuer", "{issuer_ref*}">>)})

pki_list_keys == SecretMount("pki", "pki", {
  Call("list_keys", "LIST", <<"keys">>),
  Call("read_key", "GET", <<"key", "{key_ref*}">>),
  Call("delete_key", "DELETE", <<"key", "{key_ref*}">>),
  Call("patch_issuer", "PATCH", <<"issuer", "{issuer_ref*}">>),
  Call("revoke_issuer", "POST", <<"issuer", "{issuer_ref*}", "revoke">>),
  Call("import_ca_bundle", "POST", <<"config", "ca">>),
  Call("import_issuer_bundle", "POST", <<"issuers", "import", "bundle">>),
  Call("import_issuer_certificates", "POST", <<"issuers", "import", "cert">>),
  Call("import_key", "POST", <<"keys", "import">>),
  Call("rename_key", "POST", <<"key", "{key_ref*}">>),
  Call("read_acme_config", "GET", <<"config", "acme">>),
  Call("write_acme_config", "POST", <<"config", "acme">>)})

pki_generate_acme_eab == SecretMount("pki", "pki", {
  Call("generate_acme_eab", "POST", <<"acme", "new-eab">>),
  Call("generate_issuer_acme_eab", "POST", <<"issuer", "{issuer_ref*}", "acme",
    "new-eab">>),
  Call("generate_role_acme_eab", "POST", <<"roles", "{role*}", "acme", "new-eab">>),
  Call("generate_issuer_role_acme_eab", "POST", <<"issuer", "{issuer_ref*}", "roles",
    "{role*}", "acme", "new-eab">>),
  Call("list_acme_eab_tokens", "LIST", <<"eab">>),
  Call("delete_acme_eab_token", "DELETE", <<"eab", "{key_id*}">>),
  Call("write_cel_role", "POST", <<"cel", "roles", "{name*}">>),
  Call("patch_cel_role", "PATCH", <<"cel", "roles", "{name*}">>),
  Call("read_cel_role", "GET", <<"cel", "roles", "{name*}">>),
  Call("list_cel_roles", "LIST", <<"cel", "roles">>),
  Call("delete_cel_role", "DELETE", <<"cel", "roles", "{name*}">>),
  Call("cel_issue", "POST", <<"cel", "issue", "{role*}">>)})

pki_cel_sign == SecretMount("pki", "pki", {
  Call("cel_sign", "POST", <<"cel", "sign", "{role*}">>)})

rabbitmq_configure_connection == SecretMount("rabbitmq", "rabbitmq", {
  Call("configure_connection", "POST", <<"config", "connection">>),
  Call("configure_lease", "POST", <<"config", "lease">>),
  Call("write_role", "POST", <<"roles", "{name*}">>),
  Call("read_role", "GET", <<"roles", "{name*}">>),
  Call("list_roles_after", "LIST", <<"roles">>),
  Call("delete_role", "DELETE", <<"roles", "{name*}">>),
  Call("credentials", "GET", <<"creds", "{name*}">>)})

ssh_public_key == SecretMount("ssh", "ssh", {
  Call("public_key", "GET", <<"public_key">>),
  Call("issuer_public_key", "GET", <<"issuer", "{issuer_ref*}", "public_key">>)})

ssh_list_roles_after == SecretMount("ssh", "ssh", {
  Call("list_roles_after", "LIST", <<"roles">>),
  Call("lookup_roles_by_ip", "POST", <<"lookup">>),
  Offering({SSH_ROLE_ALLOW_EMPTY_PRINCIPALS, SSH_ROLE_ISSUER_REF}, Call("write_role",
    "POST", <<"roles", "{name*}">>)),
  Needing({SSH_ROLE_ALLOW_TEMPLATE_COMMAS}, Offering({SSH_ROLE_ALLOW_EMPTY_PRINCIPALS,
    SSH_ROLE_ISSUER_REF}, Call("write_role_with_identity_template_commas", "POST",
    <<"roles", "{name*}">>))),
  Needing({SSH_ROLE_ALLOW_TEMPLATE_WILDCARDS},
    Offering({SSH_ROLE_ALLOW_EMPTY_PRINCIPALS, SSH_ROLE_ISSUER_REF},
    Call("write_role_with_identity_template_wildcards", "POST", <<"roles",
    "{name*}">>)))})

ssh_write_role_with_identity_template_overrides == SecretMount("ssh", "ssh", {
  Needing({SSH_ROLE_ALLOW_TEMPLATE_COMMAS, SSH_ROLE_ALLOW_TEMPLATE_WILDCARDS},
    Offering({SSH_ROLE_ALLOW_EMPTY_PRINCIPALS, SSH_ROLE_ISSUER_REF},
    Call("write_role_with_identity_template_overrides", "POST", <<"roles",
    "{name*}">>))),
  Call("read_role", "GET", <<"roles", "{name*}">>),
  Call("read_role_details", "GET", <<"roles", "{name*}">>),
  Call("read_role_template_details", "GET", <<"roles", "{name*}">>),
  Call("delete_role", "DELETE", <<"roles", "{name*}">>),
  Call("read_zero_address_roles", "GET", <<"config", "zeroaddress">>),
  Call("write_zero_address_roles", "POST", <<"config", "zeroaddress">>),
  Call("delete_zero_address_roles", "DELETE", <<"config", "zeroaddress">>),
  Call("credentials", "POST", <<"creds", "{role*}">>)})

ssh_read_issuer_config == SecretMount("ssh", "ssh", {
  Call("read_issuer_config", "GET", <<"config", "issuers">>),
  Call("write_issuer_config", "POST", <<"config", "issuers">>),
  Call("list_issuers_after", "LIST", <<"issuers">>),
  Call("submit_default_ca", "POST", <<"config", "ca">>),
  Call("submit_issuer", "POST", <<"issuers", "import", "{issuer_name*}">>),
  Call("submit_issuer", "POST", <<"issuers", "import">>),
  Call("read_issuer", "GET", <<"issuer", "{issuer_ref*}">>),
  Call("update_issuer", "POST", <<"issuer", "{issuer_ref*}">>),
  Call("read_ca_public_key", "GET", <<"config", "ca">>),
  Call("delete_ca_information", "DELETE", <<"config", "ca">>),
  Call("delete_issuer", "DELETE", <<"issuer", "{issuer_ref*}">>)})

ssh_sign == SecretMount("ssh", "ssh", {
  Call("sign", "POST", <<"sign", "{role*}">>),
  Call("issue", "POST", <<"issue", "{role*}">>),
  Call("verify", "POST", <<"verify">>)})

totp_create_key == SecretMount("totp", "totp", {
  Call("create_key", "POST", <<"keys", "{name*}">>),
  Call("read_key", "GET", <<"keys", "{name*}">>),
  Call("list_keys_after", "LIST", <<"keys">>),
  Call("delete_key", "DELETE", <<"keys", "{name*}">>),
  Call("generate_code", "GET", <<"code", "{name*}">>),
  Call("generate_code_details", "GET", <<"code", "{name*}">>),
  Call("validate_code", "POST", <<"code", "{name*}">>)})

transit_create_key == SecretMount("transit", "transit", {
  Call("create_key", "POST", <<"keys", "{name+}">>),
  Call("read_key", "GET", <<"keys", "{name+}">>),
  Call("wrapping_key", "GET", <<"wrapping_key">>),
  Call("list_keys_after", "LIST", <<"keys">>),
  Call("delete_key", "DELETE", <<"keys", "{name+}">>),
  Call("update_key", "POST", <<"keys", "{name+}", "config">>),
  Call("rotate_key", "POST", <<"keys", "{name+}", "rotate">>),
  Call("import_key", "POST", <<"keys", "{name+}", "import">>)})

transit_import_key_version == SecretMount("transit", "transit", {
  Call("import_key_version", "POST", <<"keys", "{name+}", "import_version">>),
  Call("soft_delete_key", "DELETE", <<"keys", "{name+}", "soft-delete">>),
  Call("restore_soft_deleted_key", "POST", <<"keys", "{name+}",
    "soft-delete-restore">>),
  Call("byok_export", "GET", <<"byok-export", "{destination+}", "{source+}">>),
  Call("byok_export", "GET", <<"byok-export", "{destination+}", "{source+}",
    "[version]">>),
  Call("write_global_key_config", "POST", <<"config", "keys">>),
  Call("read_global_key_config", "GET", <<"config", "keys">>)})

transit_export_key == SecretMount("transit", "transit", {
  Call("export_key", "GET", <<"export", "[key_type]", "{name+}">>),
  Call("export_key", "GET", <<"export", "[key_type]", "{name+}", "[version]">>),
  Call("backup_key", "GET", <<"backup", "{name+}">>),
  Call("restore_key", "POST", <<"restore", "{name+}">>),
  Call("restore_key", "POST", <<"restore">>),
  Call("trim_key", "POST", <<"keys", "{name+}", "trim">>),
  Call("write_cache_config", "POST", <<"cache-config">>),
  Call("read_cache_config", "GET", <<"cache-config">>),
  Call("generate_csr", "POST", <<"keys", "{name+}", "csr">>),
  Call("set_certificate", "POST", <<"keys", "{name+}", "set-certificate">>)})

transit_encrypt == SecretMount("transit", "transit", {
  Call("encrypt", "POST", <<"encrypt", "{name+}">>),
  Call("decrypt", "POST", <<"decrypt", "{name+}">>),
  Call("rewrap", "POST", <<"rewrap", "{name+}">>),
  Offering({TRANSIT_DATA_KEY_ASSOCIATED_DATA}, Call("data_key", "POST", <<"datakey",
    "[type]", "{name+}">>)),
  Call("random", "POST", <<"random">>),
  Call("random", "POST", <<"random", "[bytes]">>),
  Call("random_from_source", "POST", <<"random", "[source]">>),
  Call("random_from_source", "POST", <<"random", "[source]", "[bytes]">>),
  Call("hash", "POST", <<"hash", "[algorithm]">>)})

transit_hmac == SecretMount("transit", "transit", {
  Call("hmac", "POST", <<"hmac", "{name+}">>),
  Call("hmac", "POST", <<"hmac", "{name+}", "[algorithm]">>),
  Call("sign", "POST", <<"sign", "{name+}">>),
  Call("sign", "POST", <<"sign", "{name+}", "[algorithm]">>),
  Call("verify", "POST", <<"verify", "{name+}">>),
  Call("verify", "POST", <<"verify", "{name+}", "[algorithm]">>),
  Call("batch_encrypt", "POST", <<"encrypt", "{name+}">>),
  Call("batch_decrypt", "POST", <<"decrypt", "{name+}">>),
  Call("batch_rewrap", "POST", <<"rewrap", "{name+}">>),
  Call("batch_sign", "POST", <<"sign", "{name+}">>),
  Call("batch_sign", "POST", <<"sign", "{name+}", "[algorithm]">>)})

transit_batch_verify == SecretMount("transit", "transit", {
  Call("batch_verify", "POST", <<"verify", "{name+}">>),
  Call("batch_verify", "POST", <<"verify", "{name+}", "[algorithm]">>)})

pki_generate_root_with_signature_options == SecretMount("pki", "pki", {
  Needing({PKI_SIGNING_OPTIONS}, Offering({PKI_AUTHORITY_NOT_BEFORE,
    PKI_KEY_TYPE_MLDSA}, Call("generate_root_with_signature_options", "POST", <<"root",
    "generate", "[type]">>))),
  Needing({PKI_SIGNING_OPTIONS}, Offering({PKI_AUTHORITY_NOT_BEFORE,
    PKI_KEY_TYPE_MLDSA}, Call("generate_issuer_root_with_signature_options", "POST",
    <<"issuers", "generate", "root", "[type]">>))),
  Needing({PKI_SIGNING_OPTIONS}, Offering({PKI_AUTHORITY_NOT_BEFORE,
    PKI_KEY_TYPE_MLDSA}, Call("rotate_root_with_signature_options", "POST", <<"root",
    "rotate", "[type]">>))),
  Needing({PKI_SIGNING_OPTIONS}, Offering({PKI_AUTHORITY_NOT_BEFORE,
    PKI_KEY_TYPE_MLDSA}, Call("generate_intermediate_with_signature_options", "POST",
    <<"intermediate", "generate", "[type]">>))),
  Needing({PKI_SIGNING_OPTIONS}, Offering({PKI_AUTHORITY_NOT_BEFORE,
    PKI_KEY_TYPE_MLDSA}, Call("generate_issuer_intermediate_with_signature_options",
    "POST", <<"issuers", "generate", "intermediate", "[type]">>))),
  Needing({PKI_SIGNING_OPTIONS}, Call("sign_intermediate_with_signature_options",
    "POST", <<"root", "sign-intermediate">>)),
  Needing({PKI_SIGNING_OPTIONS},
    Call("sign_intermediate_with_issuer_and_signature_options", "POST", <<"issuer",
    "{issuer_ref*}", "sign-intermediate">>)),
  Call("cross_sign_intermediate_csr", "POST", <<"intermediate", "cross-sign">>)})

pki_generate_root_kms == SecretMount("pki", "pki", {
  Needing({PKI_KMS}, Offering({PKI_AUTHORITY_NOT_BEFORE}, Call("generate_root_kms",
    "POST", <<"root", "generate", "[type]">>))),
  Needing({PKI_KMS}, Offering({PKI_AUTHORITY_NOT_BEFORE},
    Call("generate_issuer_root_kms", "POST", <<"issuers", "generate", "root",
    "[type]">>))),
  Needing({PKI_KMS}, Offering({PKI_AUTHORITY_NOT_BEFORE}, Call("rotate_root_kms",
    "POST", <<"root", "rotate", "[type]">>))),
  Needing({PKI_KMS}, Offering({PKI_AUTHORITY_NOT_BEFORE},
    Call("generate_intermediate_kms", "POST", <<"intermediate", "generate",
    "[type]">>))),
  Needing({PKI_KMS}, Offering({PKI_AUTHORITY_NOT_BEFORE},
    Call("generate_issuer_intermediate_kms", "POST", <<"issuers", "generate",
    "intermediate", "[type]">>))),
  Needing({PKI_KMS}, Call("generate_key_kms", "POST", <<"keys", "generate",
    "[type]">>))})

pki_write_role_with_signing_options == SecretMount("pki", "pki", {
  Needing({PKI_SIGNING_OPTIONS},
    Offering(validate_role_request_fields \cup {PKI_ROLE_ALLOW_TEMPLATE_GLOBS},
    Call("write_role_with_signing_options", "POST", <<"roles", "{name*}">>))),
  Needing({PKI_SIGNING_OPTIONS},
    Offering(validate_role_request_fields \cup {PKI_ROLE_ALLOW_TEMPLATE_GLOBS},
    Call("patch_role_with_signing_options", "PATCH", <<"roles", "{name*}">>))),
  Call("read_role_signing_details", "GET", <<"roles", "{name*}">>),
  Needing({PKI_SIGNING_OPTIONS}, Call("issue_with_key", "POST", <<"issue",
    "{role*}">>)),
  Needing({PKI_SIGNING_OPTIONS}, Call("issue_with_issuer_and_key", "POST", <<"issuer",
    "{issuer_ref*}", "issue", "{role*}">>)),
  Needing({PKI_SIGNING_OPTIONS}, Call("cel_issue_with_options", "POST", <<"cel",
    "issue", "{role*}">>)),
  Needing({PKI_SIGNING_OPTIONS}, Call("cel_sign_with_signature_options", "POST",
    <<"cel", "sign", "{role*}">>))})

transit_create_mldsa_key == SecretMount("transit", "transit", {
  Needing({TRANSIT_27}, Call("create_mldsa_key", "POST", <<"keys", "{name}">>)),
  Needing({TRANSIT_27}, Call("create_external_key", "POST", <<"keys", "{name}">>)),
  Needing({TRANSIT_27}, Call("rotate_external_key", "POST", <<"keys", "{name}",
    "rotate">>)),
  Call("read_key_details", "GET", <<"keys", "{name}">>),
  Needing({TRANSIT_27}, Call("import_mldsa_key", "POST", <<"keys", "{name}",
    "import">>)),
  Needing({TRANSIT_27}, Call("import_mldsa_key_version", "POST", <<"keys", "{name}",
    "import_version">>)),
  Needing({TRANSIT_27}, Call("export_key_with_format", "GET", <<"export", "[key_type]",
    "{name}", "[version]">>)),
  Needing({TRANSIT_27}, Call("export_key_with_format", "GET", <<"export", "[key_type]",
    "{name}">>)),
  Needing({TRANSIT_27}, Call("sign_mldsa", "POST", <<"sign", "{name}">>))})

transit_verify_mldsa == SecretMount("transit", "transit", {
  Needing({TRANSIT_27}, Call("verify_mldsa", "POST", <<"verify", "{name}">>)),
  Needing({TRANSIT_27}, Call("batch_sign_mldsa", "POST", <<"sign", "{name}">>)),
  Needing({TRANSIT_27}, Call("batch_verify_mldsa", "POST", <<"verify", "{name}">>))})

SecretsEngineCalls == UNION {
  cubbyhole_read, cubbyhole_write, database_configure_connection,
  database_rotate_static_role, identity_authorize, identity_userinfo,
  identity_write_entity, identity_read_group_by_id,
  identity_delete_group_alias_by_id, identity_introspect_oidc_token,
  identity_delete_oidc_provider, identity_create_mfa_duo_method,
  identity_admin_generate_mfa_totp_secret,
  identity_list_oidc_providers_with_client_id, kubernetes_write_config,
  kv1_read, kv2_read, kv2_read_version, kv2_write_with_options,
  kv2_scan_detailed_metadata, ldap_write_config, ldap_list_library_sets,
  pki_ca_der, pki_ocsp_get_encoded, pki_generate_root,
  pki_generate_issuer_intermediate,
  pki_write_role_with_identity_template_globs, pki_write_issuers_config,
  pki_write_auto_tidy_config, pki_revoke, pki_list_keys,
  pki_generate_acme_eab, pki_cel_sign, rabbitmq_configure_connection,
  ssh_public_key, ssh_list_roles_after,
  ssh_write_role_with_identity_template_overrides, ssh_read_issuer_config,
  ssh_sign, totp_create_key, transit_create_key, transit_import_key_version,
  transit_export_key, transit_encrypt, transit_hmac, transit_batch_verify,
  pki_generate_root_with_signature_options, pki_generate_root_kms,
  pki_write_role_with_signing_options, transit_create_mldsa_key,
  transit_verify_mldsa}
=============================================================================
