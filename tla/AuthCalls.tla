------------------------------ MODULE AuthCalls ------------------------------
(*****************************************************************************)
(* The calls of the auth methods (src/src/auth).                             *)
(* One definition per run of consecutive methods, one call per request a     *)
(* method sends.                                                             *)
(*****************************************************************************)
EXTENDS TypedCalls

auth_approle_login_response == AuthMount("approle", {
  Call("login_response", "POST", <<"login">>),
  Call("list_roles", "LIST", <<"role">>),
  Call("write_role", "POST", <<"role", "{name+}">>),
  Call("read_role", "GET", <<"role", "{name+}">>),
  Call("read_token_policies", "GET", <<"role", "{role_name+}", "policies">>),
  Call("write_token_policies", "POST", <<"role", "{role_name+}", "policies">>),
  Call("delete_token_policies", "DELETE", <<"role", "{role_name+}", "policies">>),
  Call("read_secret_id_num_uses", "GET", <<"role", "{role_name+}",
    "secret-id-num-uses">>),
  Call("write_secret_id_num_uses", "POST", <<"role", "{role_name+}",
    "secret-id-num-uses">>),
  Call("delete_secret_id_num_uses", "DELETE", <<"role", "{role_name+}",
    "secret-id-num-uses">>),
  Call("read_secret_id_ttl", "GET", <<"role", "{role_name+}", "secret-id-ttl">>),
  Call("write_secret_id_ttl", "POST", <<"role", "{role_name+}", "secret-id-ttl">>)})

auth_approle_delete_secret_id_ttl == AuthMount("approle", {
  Call("delete_secret_id_ttl", "DELETE", <<"role", "{role_name+}", "secret-id-ttl">>),
  Call("read_token_ttl", "GET", <<"role", "{role_name+}", "token-ttl">>),
  Call("write_token_ttl", "POST", <<"role", "{role_name+}", "token-ttl">>),
  Call("delete_token_ttl", "DELETE", <<"role", "{role_name+}", "token-ttl">>),
  Call("read_token_max_ttl", "GET", <<"role", "{role_name+}", "token-max-ttl">>),
  Call("write_token_max_ttl", "POST", <<"role", "{role_name+}", "token-max-ttl">>),
  Call("delete_token_max_ttl", "DELETE", <<"role", "{role_name+}", "token-max-ttl">>),
  Call("read_bind_secret_id", "GET", <<"role", "{role_name+}", "bind-secret-id">>),
  Call("write_bind_secret_id", "POST", <<"role", "{role_name+}", "bind-secret-id">>),
  Call("delete_bind_secret_id", "DELETE", <<"role", "{role_name+}", "bind-secret-id">>),
  Call("read_secret_id_bound_cidrs", "GET", <<"role", "{role_name+}",
    "secret-id-bound-cidrs">>),
  Call("write_secret_id_bound_cidrs", "POST", <<"role", "{role_name+}",
    "secret-id-bound-cidrs">>),
  Call("delete_secret_id_bound_cidrs", "DELETE", <<"role", "{role_name+}",
    "secret-id-bound-cidrs">>),
  Call("read_token_bound_cidrs", "GET", <<"role", "{role_name+}",
    "token-bound-cidrs">>),
  Call("write_token_bound_cidrs", "POST", <<"role", "{role_name+}",
    "token-bound-cidrs">>),
  Call("delete_token_bound_cidrs", "DELETE", <<"role", "{role_name+}",
    "token-bound-cidrs">>),
  Call("read_token_period", "GET", <<"role", "{role_name+}", "period">>)})

auth_approle_write_token_period == AuthMount("approle", {
  Call("write_token_period", "POST", <<"role", "{role_name+}", "period">>),
  Call("delete_token_period", "DELETE", <<"role", "{role_name+}", "period">>),
  Call("delete_role", "DELETE", <<"role", "{name+}">>)})

auth_approle_read_role_id == AuthMount("approle", {
  Call("read_role_id", "GET", <<"role", "{name+}", "role-id">>),
  Call("write_role_id", "POST", <<"role", "{name+}", "role-id">>),
  Call("generate_secret_id", "POST", <<"role", "{role_name+}", "secret-id">>),
  Call("list_secret_id_accessors", "LIST", <<"role", "{role_name+}", "secret-id">>),
  Call("lookup_secret_id", "POST", <<"role", "{role_name+}", "secret-id", "lookup">>),
  Call("destroy_secret_id", "POST", <<"role", "{role_name+}", "secret-id", "destroy">>),
  Call("lookup_secret_id_accessor", "POST", <<"role", "{role_name+}",
    "secret-id-accessor", "lookup">>)})

auth_approle_destroy_secret_id_accessor == AuthMount("approle", {
  Call("destroy_secret_id_accessor", "POST", <<"role", "{role_name+}",
    "secret-id-accessor", "destroy">>),
  Call("create_custom_secret_id", "POST", <<"role", "{role_name+}",
    "custom-secret-id">>),
  Call("tidy_secret_ids", "POST", <<"tidy", "secret-id">>)})

auth_cert_login_response == AuthMount("cert", {
  Call("login_response", "POST", <<"login">>),
  Call("configure", "POST", <<"config">>),
  Call("write_role", "POST", <<"certs", "{name+}">>),
  Call("read_role", "GET", <<"certs", "{name+}">>),
  Call("list_roles", "LIST", <<"certs">>),
  Call("delete_role", "DELETE", <<"certs", "{name+}">>),
  Call("write_crl", "POST", <<"crls", "{name+}">>),
  Call("read_crl", "GET", <<"crls", "{name+}">>)})

auth_cert_list_crls == AuthMount("cert", {
  Call("list_crls", "LIST", <<"crls">>),
  Call("delete_crl", "DELETE", <<"crls", "{name+}">>)})

auth_jwt_oidc_auth_url == AuthMount("jwt", {
  Call("oidc_auth_url", "POST", <<"oidc", "auth_url">>)})

auth_jwt_login_response == AuthMount("jwt", {
  Call("login_response", "POST", <<"login">>),
  Call("login_cel_response", "POST", <<"cel", "login">>),
  Call("oidc_callback_response", "GET", <<"oidc", "callback">>),
  Call("oidc_poll_response", "GET", <<"oidc", "poll">>)})

auth_jwt_configure == AuthMount("jwt", {
  Offering({JWT_CONFIG_KUBERNETES_PROVIDER, JWT_CONFIG_OVERRIDE_ALLOWED_SERVER_NAMES,
    JWT_CONFIG_SKIP_JWKS_VALIDATION}, Call("configure", "POST", <<"config">>)),
  Call("read_config", "GET", <<"config">>),
  Offering({JWT_ROLE_CALLBACK_MODE, JWT_ROLE_DISABLE_CONFIRMATION,
    JWT_ROLE_POLL_INTERVAL, JWT_ROLE_TOKEN_POLICY_TEMPLATES}, Call("write_role",
    "POST", <<"role", "{name+}">>)),
  Call("read_role", "GET", <<"role", "{name+}">>),
  Call("list_roles", "LIST", <<"role">>)})

auth_jwt_delete_role == AuthMount("jwt", {
  Call("delete_role", "DELETE", <<"role", "{name+}">>),
  Call("write_cel_role", "POST", <<"cel", "role", "{name+}">>)})

auth_jwt_patch_cel_role_acknowledged == AuthMount("jwt", {
  Call("patch_cel_role_acknowledged", "PATCH", <<"cel", "role", "{name+}">>),
  Call("read_cel_role", "GET", <<"cel", "role", "{name+}">>),
  Call("list_cel_roles_page", "LIST", <<"cel", "role">>),
  Call("delete_cel_role", "DELETE", <<"cel", "role", "{name+}">>)})

auth_kerberos_login_response == AuthMount("kerberos", {
  Call("login_response", "POST", <<"login">>),
  Call("configure", "POST", <<"config">>),
  Needing({KERBEROS_CONFIG_DECODE_PAC}, Call("configure_with_decode_pac", "POST",
    <<"config">>)),
  Call("read_config", "GET", <<"config">>),
  Call("read_config_details", "GET", <<"config">>)})

auth_kerberos_configure_ldap == AuthMount("kerberos", {
  Call("configure_ldap", "POST", <<"config", "ldap">>),
  Call("read_ldap_config", "GET", <<"config", "ldap">>),
  Call("write_group", "POST", <<"groups", "{name}">>),
  Call("read_group", "GET", <<"groups", "{name}">>),
  Call("delete_group", "DELETE", <<"groups", "{name}">>),
  Call("list_groups_page", "LIST", <<"groups">>)})

auth_kubernetes_login_response == AuthMount("kubernetes", {
  Call("login_response", "POST", <<"login">>),
  Call("configure", "POST", <<"config">>),
  Call("read_config", "GET", <<"config">>),
  Call("write_role", "POST", <<"role", "{name+}">>),
  Call("read_role", "GET", <<"role", "{name+}">>),
  Call("list_roles", "LIST", <<"role">>),
  Call("delete_role", "DELETE", <<"role", "{name+}">>)})

auth_ldap_login_response == AuthMount("ldap", {
  Call("login_response", "POST", <<"login", "{username}">>),
  Call("configure", "POST", <<"config">>),
  Call("read_config", "GET", <<"config">>),
  Call("write_group", "POST", <<"groups", "{name}">>),
  Call("read_group", "GET", <<"groups", "{name}">>),
  Call("delete_group", "DELETE", <<"groups", "{name}">>),
  Call("list_groups", "LIST", <<"groups">>),
  Call("write_user", "POST", <<"users", "{username}">>),
  Call("read_user", "GET", <<"users", "{username}">>),
  Call("delete_user", "DELETE", <<"users", "{username}">>),
  Call("list_users", "LIST", <<"users">>)})

auth_radius_login_response == AuthMount("radius", {
  Call("login_response", "POST", <<"login", "{username}">>),
  Call("configure", "POST", <<"config">>),
  Call("write_user", "POST", <<"users", "{username}">>),
  Call("read_user", "GET", <<"users", "{username}">>),
  Call("delete_user", "DELETE", <<"users", "{username}">>),
  Call("list_users_page", "LIST", <<"users">>)})

auth_token_create_orphan == AuthMount("token", {
  Call("create_orphan", "POST", <<"create-orphan">>),
  Call("create_at", "POST", <<"create", "{role_name+}">>),
  Call("create_at", "POST", <<"create">>),
  Call("lookup_self", "GET", <<"lookup-self">>),
  Call("lookup", "POST", <<"lookup">>),
  Call("lookup_accessor", "POST", <<"lookup-accessor">>),
  Call("list_accessors", "LIST", <<"accessors">>),
  Call("renew_self", "POST", <<"renew-self">>),
  Call("renew", "POST", <<"renew">>)})

auth_token_renew_accessor == AuthMount("token", {
  Call("renew_accessor", "POST", <<"renew-accessor">>),
  Call("revoke", "POST", <<"revoke">>),
  Call("revoke_orphan", "POST", <<"revoke-orphan">>),
  Call("revoke_self", "POST", <<"revoke-self">>),
  Call("revoke_accessor", "POST", <<"revoke-accessor">>),
  Call("write_role", "POST", <<"roles", "{role_name+}">>),
  Call("read_role", "GET", <<"roles", "{role_name+}">>),
  Call("list_roles", "LIST", <<"roles">>),
  Call("delete_role", "DELETE", <<"roles", "{role_name+}">>)})

auth_token_tidy == AuthMount("token", {
  Call("tidy", "POST", <<"tidy">>)})

auth_userpass_login_response == AuthMount("userpass", {
  Call("login_response", "POST", <<"login", "{username}">>),
  Call("write_user", "POST", <<"users", "{username}">>),
  Needing({USERPASS_USER_PASSWORD_HASH}, Call("write_hashed_user", "POST", <<"users",
    "{username}">>)),
  Call("read_user", "GET", <<"users", "{username}">>),
  Call("delete_user", "DELETE", <<"users", "{username}">>)})

auth_userpass_update_password == AuthMount("userpass", {
  Call("update_password", "POST", <<"users", "{username}", "password">>),
  Needing({USERPASS_PASSWORD_PASSWORD_HASH}, Call("update_password_hash", "POST",
    <<"users", "{username}", "password">>)),
  Call("update_policies", "POST", <<"users", "{username}", "policies">>),
  Call("list_users", "LIST", <<"users">>)})

AuthMethodCalls == UNION {
  auth_approle_login_response, auth_approle_delete_secret_id_ttl,
  auth_approle_write_token_period, auth_approle_read_role_id,
  auth_approle_destroy_secret_id_accessor, auth_cert_login_response,
  auth_cert_list_crls, auth_jwt_oidc_auth_url, auth_jwt_login_response,
  auth_jwt_configure, auth_jwt_delete_role,
  auth_jwt_patch_cel_role_acknowledged, auth_kerberos_login_response,
  auth_kerberos_configure_ldap, auth_kubernetes_login_response,
  auth_ldap_login_response, auth_radius_login_response,
  auth_token_create_orphan, auth_token_renew_accessor, auth_token_tidy,
  auth_userpass_login_response, auth_userpass_update_password}
=============================================================================
