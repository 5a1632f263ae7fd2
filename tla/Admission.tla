----------------------------- MODULE Admission -----------------------------
(***************************************************************************)
(* What stands before the routes of every application: retired query names *)
(* are refused, and a write needs a role.  The layers only read the        *)
(* configuration of the process and the request, so they are operators.    *)
(***************************************************************************)
EXTENDS Naturals, Functions

CONSTANTS
    YamlTokens,     \* ops.auth.tokens of the YAML: a role for each token, as written there
    EnvOperator,    \* OPS_OPERATOR_TOKEN
    EnvAdmin,       \* OPS_ADMIN_TOKEN
    DefaultRole,    \* ops.auth.default_role
    OtherToken,     \* a token that is configured nowhere
    NoToken         \* the caller sends no Authorization header

ROLE_HIERARCHY == [viewer |-> 0, operator |-> 1, admin |-> 2]
VALID_ROLES == DOMAIN ROLE_HIERARCHY

Tokens == DOMAIN YamlTokens \cup {EnvOperator, EnvAdmin, OtherToken, NoToken}

ASSUME TokensAssumption ==
    /\ OtherToken \notin DOMAIN YamlTokens \cup {EnvOperator, EnvAdmin, NoToken}
    /\ NoToken \notin DOMAIN YamlTokens \cup {EnvOperator, EnvAdmin}

-----------------------------------------------------------------------------
\* The tokens of the YAML whose role is valid; an entry with another is left out.
FromYaml == Restrict(YamlTokens, {t \in DOMAIN YamlTokens : YamlTokens[t] \in VALID_ROLES})

\* Mutant: a token of the environment replaces the role of the YAML.
EnvWins ==
    [t \in DOMAIN FromYaml \cup {EnvOperator, EnvAdmin} |->
        IF t = EnvAdmin THEN "admin" ELSE IF t = EnvOperator THEN "operator" ELSE FromYaml[t]]

\* AuthConfig.from_config: a token of the environment is added only when the
\* YAML does not have it, the operator's before the admin's.
Configured ==
    [t \in DOMAIN FromYaml \cup {EnvOperator, EnvAdmin} |->
        IF t \in DOMAIN FromYaml THEN FromYaml[t]
        ELSE IF t = EnvOperator THEN "operator" ELSE "admin"]

Anonymous == IF DefaultRole \in VALID_ROLES THEN DefaultRole ELSE "viewer"

\* Mutant: a token nobody knows is served as no token at all.
ResolveUnknownAsNone(token) ==
    IF token \in DOMAIN Configured THEN Configured[token] ELSE Anonymous

\* OpsAuth.resolve: a token nobody knows is a viewer, whatever anonymous callers are.
Resolve(token) ==
    IF token = NoToken THEN Anonymous
    ELSE IF token \in DOMAIN Configured THEN Configured[token] ELSE "viewer"

-----------------------------------------------------------------------------
SAFE_METHODS == {"GET", "HEAD", "OPTIONS"}
READ_ONLY_POSTS == {"screener", "option-stock-links/query", "quotes/refresh-options"}

\* required_role; a request the guard lets through needs no more than a viewer.
RequiredRole(method, path) ==
    IF method \in SAFE_METHODS \/ path \in READ_ONLY_POSTS THEN "viewer" ELSE "operator"

\* RETIRED_QUERY_NAMES: the routes that took names they no longer take.
RETIRED_QUERY_NAMES ==
    {"executions", "performance", "transactions", "win-rate", "trades",
     "stock-link-candidates", "greeks", "snapshots", "liquidity", "relative"}

\* RetiredQueryNames: the name would be dropped without a word, so it is refused.
Retired(method, path, old) == old /\ method = "GET" /\ path \in RETIRED_QUERY_NAMES

\* OpsAuth.require_role.
Below(token, role) == ROLE_HIERARCHY[Resolve(token)] < ROLE_HIERARCHY[role]

\* WriteGuard.
Denied(method, path, token) == Below(token, RequiredRole(method, path))

\* The answer of the layers, the outer one first; 200 when the request goes on
\* to its route.
Admit(method, path, token, old) ==
    IF Retired(method, path, old) THEN 422 ELSE IF Denied(method, path, token) THEN 403 ELSE 200
=============================================================================
