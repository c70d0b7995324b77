--------------------------- MODULE PluginContracts ---------------------------
(***************************************************************************)
(* The operations of the external plugins that were reviewed against the    *)
(* 2.7 releases (src/src/plugin/ldap_contracts.rs and                       *)
(* src/src/plugin/compatibility.rs), each by its method and template.       *)
(***************************************************************************)

AUTH_LDAP == {
  <<"DELETE", <<"auth", "ldap", "groups", ":name">>>>,
  <<"DELETE", <<"auth", "ldap", "users", ":username">>>>,
  <<"GET", <<"auth", "ldap", "config">>>>,
  <<"GET", <<"auth", "ldap", "groups", ":name">>>>,
  <<"GET", <<"auth", "ldap", "users", ":username">>>>,
  <<"LIST", <<"auth", "ldap", "groups">>>>,
  <<"LIST", <<"auth", "ldap", "users">>>>,
  <<"POST", <<"auth", "ldap", "config">>>>,
  <<"POST", <<"auth", "ldap", "groups", ":name">>>>,
  <<"POST", <<"auth", "ldap", "login", ":username">>>>,
  <<"POST", <<"auth", "ldap", "users", ":username">>>>}

SECRETS_LDAP == {
  <<"DELETE", <<"ldap", "library", ":set_name">>>>,
  <<"GET", <<"ldap", "library", ":set_name">>>>,
  <<"GET", <<"ldap", "library", ":set_name", "status">>>>,
  <<"LIST", <<"ldap", "library">>>>,
  <<"POST", <<"ldap", "library", "manage", ":set_name", "check-in">>>>,
  <<"POST", <<"ldap", "library", ":set_name">>>>,
  <<"POST", <<"ldap", "library", ":set_name", "check-in">>>>,
  <<"POST", <<"ldap", "library", ":set_name", "check-out">>>>,
  <<"DELETE", <<"ldap", "config">>>>,
  <<"DELETE", <<"ldap", "role", ":role_name">>>>,
  <<"DELETE", <<"ldap", "static-role", ":role_name">>>>,
  <<"GET", <<"ldap", "config">>>>,
  <<"GET", <<"ldap", "creds", ":role_name">>>>,
  <<"GET", <<"ldap", "role", ":role_name">>>>,
  <<"GET", <<"ldap", "static-cred", ":role_name">>>>,
  <<"GET", <<"ldap", "static-role">>>>,
  <<"GET", <<"ldap", "static-role", ":role_name">>>>,
  <<"POST", <<"ldap", "config">>>>,
  <<"POST", <<"ldap", "role", ":role_name">>>>,
  <<"POST", <<"ldap", "rotate-role", ":role_name">>>>,
  <<"POST", <<"ldap", "rotate-root">>>>,
  <<"POST", <<"ldap", "static-role", ":role_name">>>>}

AUTH_KERBEROS == {
  <<"DELETE", <<"auth", "kerberos", "groups", ":name">>>>,
  <<"GET", <<"auth", "kerberos", "config">>>>,
  <<"GET", <<"auth", "kerberos", "config", "ldap">>>>,
  <<"GET", <<"auth", "kerberos", "groups", ":name">>>>,
  <<"LIST", <<"auth", "kerberos", "groups">>>>,
  <<"POST", <<"auth", "kerberos", "config">>>>,
  <<"POST", <<"auth", "kerberos", "config", "ldap">>>>,
  <<"POST", <<"auth", "kerberos", "groups", ":name">>>>,
  <<"POST", <<"auth", "kerberos", "login">>>>}

AUTH_RADIUS == {
  <<"DELETE", <<"auth", "radius", "users", ":username">>>>,
  <<"GET", <<"auth", "radius", "users", ":username">>>>,
  <<"LIST", <<"auth", "radius", "users">>>>,
  <<"POST", <<"auth", "radius", "config">>>>,
  <<"POST", <<"auth", "radius", "login", ":username">>>>,
  <<"POST", <<"auth", "radius", "users", ":username">>>>}

\* reviewed_operations; the server argument only tells the three reviewed
\* releases, which ExternalPluginSelection::new admits alone, from the others.
reviewed_operations ==
  [LdapAuth |-> AUTH_LDAP, LdapSecrets |-> SECRETS_LDAP,
   KerberosAuth |-> AUTH_KERBEROS, RadiusAuth |-> AUTH_RADIUS]
=============================================================================
