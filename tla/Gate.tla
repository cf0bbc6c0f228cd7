---------------------------------- MODULE Gate ----------------------------------
(***************************************************************************)
(* Whom the API server lets do what: the environment it is started with    *)
(* and its validation (inference/config.py, api/auth.py), the posture      *)
(* create_app derives from it, and the authentication and authorisation of *)
(* each request (api/app.py, api/auth.py).  Tokens expire, the tenant      *)
(* rotates its signing keys, and its key set cannot always be fetched.     *)
(*                                                                         *)
(* A request is one step.  What an admitted generation does is Serving's,  *)
(* which model it is for Catalogue's, what an admitted write does to the   *)
(* registry ModelRegistry's.                                               *)
(***************************************************************************)
EXTENDS Integers

CONSTANTS
    Kids,       \* the signing keys of the tenant
    Leeway,     \* the clock skew allowed on exp, in ticks
    MaxTime     \* bound: the last tick

ASSUME GateAssumption == Leeway \in Nat /\ MaxTime \in Nat

VARIABLES
    posture,    \* what create_app made of the environment
    time,       \* the wall clock
    published,  \* the keys in the tenant's key set
    up,         \* whether the key set can be fetched
    resolved,   \* the keys the verifier has resolved, and keeps
    reply       \* the latest request and its answer

gateVars == <<posture, time, published, up, resolved, reply>>

-----------------------------------------------------------------------------
(* The environment variables.  A limit or a flag that is not set has a     *)
(* default, which is another one in hosted mode.                           *)

Flag == {"unset", "on", "off"}

Environment ==
    [name       : {"dev", "staging", "prod", "other"},
     valid      : BOOLEAN,    \* the URLs, times, counts and the log level are
     rate       : {"unset", "junk", "negative", "zero", "positive"},
     apiToken   : BOOLEAN,
     jwt        : BOOLEAN,    \* there is a domain and an audience
     skewOk     : BOOLEAN,    \* the leeway is a number from 0 to 120
     algorithms : {"RS256", "HS256", "none"},
     https      : BOOLEAN,    \* the domain is a host name, the URLs are https
     registry   : BOOLEAN,    \* the registry file exists
     writable   : Flag]

Hosted(e) == e.name \in {"staging", "prod"}

(* load_settings, Settings.validate: a rate limit that is no number is an  *)
(* error in hosted mode and none elsewhere.                                *)
SettingsValid(e) ==
    /\ e.name # "other" /\ e.valid
    /\ IF Hosted(e) THEN e.rate \in {"unset", "positive"} ELSE e.rate # "negative"

(* AuthSettings.from_env and validate                                      *)
AuthValid(e) ==
    /\ e.skewOk
    /\ e.jwt => e.algorithms # "none"
    /\ e.jwt /\ Hosted(e) => e.algorithms = "RS256" /\ e.https

(* The registry may be written at run time (_env_bool).                    *)
Writable(e) == e.writable = "on" \/ (e.writable = "unset" /\ ~Hosted(e))

HasAuth(e) == e.jwt \/ e.apiToken

(* create_app comes up, or raises.                                         *)
Starts(e) ==
    /\ SettingsValid(e)
    /\ AuthValid(e)
    /\ e.name = "prod" => HasAuth(e)
    /\ Hosted(e) /\ Writable(e) => HasAuth(e)

(* What the routes look at from then on; the token outranks the secret.    *)
Posture(e) ==
    [name     |-> e.name,
     auth     |-> IF e.jwt THEN "jwt" ELSE IF e.apiToken THEN "static" ELSE "open",
     registry |-> IF ~e.registry THEN "none"
                  ELSE IF Writable(e) THEN "writable" ELSE "readonly"]

-----------------------------------------------------------------------------
(* What a request carries in its Authorization header: nothing that starts *)
(* with "Bearer ", the server's static token, something that is no JWT, or *)
(* one: of which key, until when, with the admin scope or not, and whether *)
(* its signature and its other claims are right.                           *)

Header(kind) == [kind |-> kind, kid |-> "-", exp |-> 0, admin |-> FALSE, right |-> FALSE]

Token == [kind : {"jwt"}, kid : Kids, exp : 0..MaxTime, admin : BOOLEAN, right : BOOLEAN]

Credential == {Header(k) : k \in {"none", "secret", "garbage"}} \cup Token

NoReply == [route |-> "none", by |-> Header("none"), status |-> "none"]

Status == {"none", "200", "401", "403", "503 tenant", "503 registry"}

GateTypeOK ==
    /\ posture \in [name     : {"dev", "staging", "prod"},
                    auth     : {"jwt", "static", "open"},
                    registry : {"none", "readonly", "writable"}]
    /\ time \in 0..MaxTime
    /\ published \in (SUBSET Kids) \ {{}}
    /\ up \in BOOLEAN
    /\ resolved \in SUBSET Kids
    /\ reply \in [route : {"none", "generate", "admin"}, by : Credential, status : Status]

GateInit ==
    /\ posture \in {Posture(e) : e \in {e \in Environment : Starts(e)}}
    /\ time = 0
    /\ published \in (SUBSET Kids) \ {{}}
    /\ up \in BOOLEAN
    /\ resolved = {}
    /\ reply = NoReply

(* _signing_key: the client keeps the keys it has resolved and fetches the *)
(* set for one it does not know.                                           *)
Resolvable(c) == c.kid \in resolved \/ (up /\ c.kid \in published)

Live(c) == time < c.exp + Leeway

(* TokenVerifier.verify.  The key comes first, and what keeps it from      *)
(* being resolved is taken for an outage of the tenant: an unknown key,    *)
(* and a text that is no JWT at all, too.                                  *)
Verify(c) ==
    IF c.kind # "jwt" \/ ~Resolvable(c) THEN "503 tenant"
    ELSE IF c.right /\ Live(c) THEN "200" ELSE "401"

(* get_principal                                                           *)
Authenticate(c) ==
    CASE posture.auth = "jwt"    -> IF c.kind = "none" THEN "401" ELSE Verify(c)
      [] posture.auth = "static" -> IF c.kind = "secret" THEN "200" ELSE "401"
      [] posture.auth = "open"   -> "200"

(* Principal.from_claims: no one but a token has scopes.                   *)
Scoped(c) == posture.auth = "jwt" /\ c.admin

(* Mutant of Authorize: whoever is authenticated may.                      *)
AuthorizeAnyone(c) ==
    IF posture.auth = "open"
    THEN IF Hosted(posture) THEN "401" ELSE "200"
    ELSE "200"

(* require_scopes(admin:models)                                            *)
Authorize(c) ==
    IF posture.auth = "open"
    THEN IF Hosted(posture) THEN "401" ELSE "200"
    ELSE IF Scoped(c) THEN "200" ELSE "403"

(* A request of either kind leaves the key it needed resolved.             *)
AnswerKeys(route, c, status) ==
    /\ reply' = [route |-> route, by |-> c, status |-> status]
    /\ resolved' = IF posture.auth = "jwt" /\ c.kind = "jwt" /\ Resolvable(c)
                   THEN resolved \cup {c.kid} ELSE resolved
    /\ UNCHANGED <<posture, time, published, up>>

Generate(c) == AnswerKeys("generate", c, Authenticate(c))

(* The admin routes: who it is, whether they may, whether there is a       *)
(* registry to write (_require_registry).                                  *)
Admin(c) ==
    AnswerKeys("admin", c,
        IF Authenticate(c) # "200" THEN Authenticate(c)
        ELSE IF Authorize(c) # "200" THEN Authorize(c)
        ELSE IF posture.registry # "writable" THEN "503 registry" ELSE "200")

ClockTick ==
    /\ time < MaxTime
    /\ time' = time + 1
    /\ reply' = NoReply
    /\ UNCHANGED <<posture, published, up, resolved>>

(* The tenant adds a key or withdraws one; its key set goes away and comes *)
(* back.                                                                   *)
Tenant ==
    /\ \/ up' = ~up /\ UNCHANGED published
       \/ published' \in (SUBSET Kids) \ {{}} /\ UNCHANGED up
    /\ reply' = NoReply
    /\ UNCHANGED <<posture, time, resolved>>

GateNext ==
    \/ \E c \in Credential : Generate(c) \/ Admin(c)
    \/ ClockTick \/ Tenant

GateSpec == GateInit /\ [][GateNext]_gateVars

-----------------------------------------------------------------------------
(* Whoever writes the registry has a live token of the tenant that carries *)
(* the admin scope, or works on a development server without any auth:     *)
(* "authorization is checked server-side", for every environment a server  *)
(* can be started with.                                                    *)
WritesAuthorised ==
    reply.route = "admin" /\ reply.status = "200" =>
        \/ reply.by.kind = "jwt" /\ reply.by.right /\ reply.by.admin /\ Live(reply.by)
        \/ posture.name = "dev" /\ posture.auth = "open"

(* "Production fails closed" (docs/auth.md): nothing is generated there    *)
(* for a caller without a live token or the static one.                    *)
ProductionIsClosed ==
    posture.name = "prod" /\ reply.route = "generate" /\ reply.status = "200" =>
        reply.by.kind = "secret" \/ (reply.by.right /\ Live(reply.by))

(* "Unknown kid triggers a JWKS refresh, so key rotation is handled        *)
(* automatically" (docs/auth.md): while the key set can be fetched, a live *)
(* token of a published key is never turned away for who it is.            *)
RotationIsSeamless ==
    /\ posture.auth = "jwt" /\ reply.route # "none"
    /\ reply.by.right /\ Live(reply.by) /\ up /\ reply.by.kid \in published
    => reply.status \notin {"401", "503 tenant"}

(* The gate is shut for whom it should be, and for nobody else, in every   *)
(* environment and through every rotation (api/app.py, api/auth.py).       *)
AccessIsGuarded ==
    /\ WritesAuthorised
    /\ ProductionIsClosed
    /\ RotationIsSeamless
=============================================================================
