---------------------------- MODULE Authorization ----------------------------
(***************************************************************************)
(* Who the API lets in: the access tokens of core/security.py, the login   *)
(* that issues them and the two services that check them again on every    *)
(* request and on every heartbeat of an administrative stream.             *)
(*                                                                         *)
(* A signature is not modelled: a token is one the API issued.  Times are  *)
(* instants of one clock; names are never blank.                           *)
(***************************************************************************)
EXTENDS Integers

CONSTANTS
    AdminProfile,       \* "administrador"
    OperatorProfiles,   \* auth_allowed_profiles
    AdminAudience, OperatorAudience,
    TokenTtl            \* auth_token_ttl_minutes

\* AccessTokenService.issue
issue(subject, profile, audience, time) ==
    [subject |-> subject, profile |-> profile, audience |-> audience,
     issuedAt |-> time, expiresAt |-> time + TokenTtl]

\* AccessTokenService.verify
verify(token, audience, time) ==
    /\ token.audience = audience
    /\ token.issuedAt <= time /\ time < token.expiresAt

\* AuthenticationService.authenticate, for each of the two login endpoints
authenticates(account, passwordMatches, allowed) ==
    account.active /\ passwordMatches /\ account.profile \in allowed

\* AdminAuthorizationService.authorize, once the token is verified
isAdministrator(token, account) ==
    /\ token.profile = AdminProfile
    /\ account.active /\ account.profile = AdminProfile

\* OperatorAuthorizationService.authorize, once the token is verified
isOperator(token, account) ==
    /\ token.profile \in OperatorProfiles
    /\ account.active /\ account.profile = token.profile

\* get_current_admin and get_current_operator: what a request with these
\* credentials is answered, if the database can be asked.
currentAdmin(credentials, accounts, time, reachable) ==
    IF credentials = <<>> THEN "unauthorized"
    ELSE LET token == credentials[1] IN
         IF ~verify(token, AdminAudience, time) \/ token.profile # AdminProfile
         THEN "unauthorized"
         ELSE IF ~reachable THEN "unavailable"
         ELSE IF isAdministrator(token, accounts[token.subject])
              THEN "granted" ELSE "unauthorized"

currentOperator(credentials, accounts, time, reachable) ==
    IF credentials = <<>> THEN "unauthorized"
    ELSE LET token == credentials[1] IN
         IF ~verify(token, OperatorAudience, time) \/ token.profile \notin OperatorProfiles
         THEN "unauthorized"
         ELSE IF ~reachable THEN "unavailable"
         ELSE IF isOperator(token, accounts[token.subject])
              THEN "granted" ELSE "unauthorized"

\* list_operator_operations_for_trusted_workstation: one token for all stations,
\* which names nobody
catalogReader(credentials, configured) ==
    IF configured = <<>> THEN "unavailable"
    ELSE IF credentials = configured THEN "granted" ELSE "unauthorized"
=============================================================================
