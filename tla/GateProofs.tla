------------------------------ MODULE GateProofs ------------------------------
(***************************************************************************)
(* The theorems of Gate, for every environment a server can be started     *)
(* with, every set of keys, every leeway and every length of time.         *)
(***************************************************************************)
EXTENDS Gate, TLAPS

(* create_app does not come up in production without authentication, and   *)
(* what it found out then does not change.                                 *)
ProdHasAuth == posture.name = "prod" => posture.auth # "open"

GateInv == GateTypeOK /\ ProdHasAuth

(* The posture of a server that starts.                                    *)
LEMMA PostureOfStart ==
    ASSUME NEW e \in Environment, Starts(e)
    PROVE  /\ Posture(e) \in [name     : {"dev", "staging", "prod"},
                              auth     : {"jwt", "static", "open"},
                              registry : {"none", "readonly", "writable"}]
           /\ Posture(e).name = "prod" => Posture(e).auth # "open"
<1>1. e.name \in {"dev", "staging", "prod"}
    BY DEF Environment, Starts, SettingsValid
<1>2. e.name = "prod" => e.jwt \/ e.apiToken
    BY DEF Starts, HasAuth
<1> QED
    BY <1>1, <1>2 DEF Posture

LEMMA GateInitially == GateInit => GateInv /\ AccessIsGuarded
<1> SUFFICES ASSUME GateInit PROVE GateInv /\ AccessIsGuarded
    OBVIOUS
<1>1. PICK e \in Environment : Starts(e) /\ posture = Posture(e)
    BY DEF GateInit
<1>2. /\ posture \in [name     : {"dev", "staging", "prod"},
                      auth     : {"jwt", "static", "open"},
                      registry : {"none", "readonly", "writable"}]
      /\ ProdHasAuth
    BY <1>1, PostureOfStart DEF ProdHasAuth
<1>3. /\ NoReply.route = "none" /\ NoReply.status = "none"
      /\ NoReply \in [route : {"none", "generate", "admin"}, by : Credential, status : Status]
    BY DEF NoReply, Header, Credential, Status
<1>4. GateTypeOK
    BY <1>2, <1>3, GateAssumption DEF GateInit, GateTypeOK
<1> QED
    BY <1>2, <1>3, <1>4
    DEF GateInit, GateInv, AccessIsGuarded, WritesAuthorised, ProductionIsClosed, RotationIsSeamless

(* A request is answered with one of the statuses there are, and resolves  *)
(* keys of the tenant only.                                                *)
LEMMA AnswerTyped ==
    ASSUME GateInv, NEW c \in Credential, NEW route \in {"generate", "admin"},
           NEW status \in Status, AnswerKeys(route, c, status)
    PROVE  GateInv'
<1>1. resolved' \in SUBSET Kids
    BY DEF GateInv, GateTypeOK, AnswerKeys, Credential, Header, Token
<1>2. reply' \in [route : {"none", "generate", "admin"}, by : Credential, status : Status]
    BY DEF AnswerKeys
<1> QED
    BY <1>1, <1>2 DEF GateInv, GateTypeOK, ProdHasAuth, AnswerKeys

LEMMA AuthenticateStatus ==
    ASSUME GateInv, NEW c \in Credential
    PROVE  Authenticate(c) \in {"200", "401", "503 tenant"}
<1>1. posture.auth \in {"jwt", "static", "open"}
    BY DEF GateInv, GateTypeOK
<1> QED
    BY <1>1 DEF Authenticate, Verify

(* Who is authenticated at all.                                            *)
LEMMA AuthenticatedIsKnown ==
    ASSUME GateInv, NEW c \in Credential, Authenticate(c) = "200"
    PROVE  \/ posture.auth = "jwt" /\ c.kind = "jwt" /\ c.right /\ Live(c)
           \/ posture.auth = "static" /\ c.kind = "secret"
           \/ posture.auth = "open"
<1>1. posture.auth \in {"jwt", "static", "open"}
    BY DEF GateInv, GateTypeOK
<1> QED
    BY <1>1 DEF Authenticate, Verify

(* A live token of a key that is, or can be, resolved is not turned away.  *)
LEMMA RightTokenPasses ==
    ASSUME GateInv, NEW c \in Credential, posture.auth = "jwt",
           c.right, Live(c), up, c.kid \in published
    PROVE  Authenticate(c) = "200"
<1>1. ~Header("none").right /\ ~Header("secret").right /\ ~Header("garbage").right
    BY DEF Header
<1>2. c.kind = "jwt"
    BY <1>1 DEF Credential, Token
<1> QED
    BY <1>2 DEF Authenticate, Verify, Resolvable

LEMMA GenerateStep ==
    ASSUME GateInv, NEW c \in Credential, Generate(c)
    PROVE  GateInv' /\ AccessIsGuarded'
<1>1. Authenticate(c) \in Status
    BY AuthenticateStatus DEF Status
<1>2. GateInv'
    BY <1>1, AnswerTyped DEF Generate
<1>3. /\ reply'.route = "generate" /\ reply'.by = c /\ reply'.status = Authenticate(c)
      /\ posture' = posture /\ time' = time /\ up' = up /\ published' = published
    BY DEF Generate, AnswerKeys
<1>4. Live(reply.by)' <=> Live(c)
    BY <1>3 DEF Live
<1>5. WritesAuthorised'
    BY <1>3 DEF WritesAuthorised
<1>6. ProductionIsClosed'
    BY <1>3, <1>4, AuthenticatedIsKnown DEF ProductionIsClosed, GateInv, ProdHasAuth
<1>7. RotationIsSeamless'
    BY <1>3, <1>4, RightTokenPasses DEF RotationIsSeamless
<1> QED
    BY <1>2, <1>5, <1>6, <1>7 DEF AccessIsGuarded

LEMMA AdminStep ==
    ASSUME GateInv, NEW c \in Credential, Admin(c)
    PROVE  GateInv' /\ AccessIsGuarded'
<1> DEFINE status == IF Authenticate(c) # "200" THEN Authenticate(c)
                     ELSE IF Authorize(c) # "200" THEN Authorize(c)
                     ELSE IF posture.registry # "writable" THEN "503 registry" ELSE "200"
<1>1. status \in Status
    BY AuthenticateStatus DEF Status, Authorize
<1>2. AnswerKeys("admin", c, status)
    BY DEF Admin
<1>3. GateInv'
    BY <1>1, <1>2, AnswerTyped
<1>4. /\ reply'.route = "admin" /\ reply'.by = c /\ reply'.status = status
      /\ posture' = posture /\ time' = time /\ up' = up /\ published' = published
    BY <1>2 DEF AnswerKeys
<1>5. Live(reply.by)' <=> Live(c)
    BY <1>4 DEF Live
<1>6. status = "200" =>
        \/ c.kind = "jwt" /\ c.right /\ c.admin /\ Live(c)
        \/ posture.name = "dev" /\ posture.auth = "open"
    <2> SUFFICES ASSUME status = "200"
                 PROVE  \/ c.kind = "jwt" /\ c.right /\ c.admin /\ Live(c)
                        \/ posture.name = "dev" /\ posture.auth = "open"
        OBVIOUS
    <2>1. Authenticate(c) = "200" /\ Authorize(c) = "200"
        OBVIOUS
    <2>2. CASE posture.auth = "open"
        BY <2>1, <2>2 DEF Authorize, Hosted, GateInv, GateTypeOK
    <2>3. CASE posture.auth # "open"
        BY <2>1, <2>3, AuthenticatedIsKnown DEF Authorize, Scoped
    <2> QED
        BY <2>2, <2>3
<1>7. WritesAuthorised'
    BY <1>4, <1>5, <1>6 DEF WritesAuthorised
<1>8. ProductionIsClosed'
    BY <1>4 DEF ProductionIsClosed
<1>9. posture.auth = "jwt" /\ c.right /\ Live(c) /\ up /\ c.kid \in published
        => status \notin {"401", "503 tenant"}
    BY RightTokenPasses DEF Authorize
<1>10. RotationIsSeamless'
    BY <1>4, <1>5, <1>9 DEF RotationIsSeamless
<1> QED
    BY <1>3, <1>7, <1>8, <1>10 DEF AccessIsGuarded

(* The clock and the tenant, between two requests.                         *)
LEMMA QuietStep ==
    ASSUME GateInv, ClockTick \/ Tenant
    PROVE  GateInv' /\ AccessIsGuarded'
<1>1. reply' = NoReply /\ posture' = posture /\ resolved' = resolved
    BY DEF ClockTick, Tenant
<1>2. /\ NoReply.route = "none"
      /\ NoReply \in [route : {"none", "generate", "admin"}, by : Credential, status : Status]
    BY DEF NoReply, Header, Credential, Status
<1>3. time' \in 0..MaxTime
    <2>1. CASE ClockTick
        BY <2>1, GateAssumption DEF GateInv, GateTypeOK, ClockTick
    <2>2. CASE Tenant
        BY <2>2 DEF GateInv, GateTypeOK, Tenant
    <2> QED
        BY <2>1, <2>2
<1>4. published' \in (SUBSET Kids) \ {{}}
    BY DEF GateInv, GateTypeOK, ClockTick, Tenant
<1>5. up' \in BOOLEAN
    BY DEF GateInv, GateTypeOK, ClockTick, Tenant
<1> QED
    BY <1>1, <1>2, <1>3, <1>4, <1>5
    DEF GateInv, GateTypeOK, ProdHasAuth, AccessIsGuarded, WritesAuthorised,
        ProductionIsClosed, RotationIsSeamless

LEMMA GateStep == GateInv /\ AccessIsGuarded /\ [GateNext]_gateVars => GateInv' /\ AccessIsGuarded'
<1> SUFFICES ASSUME GateInv, AccessIsGuarded, [GateNext]_gateVars
             PROVE  GateInv' /\ AccessIsGuarded'
    OBVIOUS
<1>1. CASE \E c \in Credential : Generate(c)
    BY <1>1, GenerateStep
<1>2. CASE \E c \in Credential : Admin(c)
    BY <1>2, AdminStep
<1>3. CASE ClockTick \/ Tenant
    BY <1>3, QuietStep
<1>4. CASE UNCHANGED gateVars
    BY <1>4
    DEF gateVars, GateInv, GateTypeOK, ProdHasAuth, AccessIsGuarded, WritesAuthorised,
        ProductionIsClosed, RotationIsSeamless, Live
<1> QED
    BY <1>1, <1>2, <1>3, <1>4 DEF GateNext

(* The variables of the server and of its callers have their types.        *)
THEOREM GateTypeCorrect == GateSpec => []GateTypeOK
<1>1. GateInv => GateTypeOK
    BY DEF GateInv
<1> QED
    BY <1>1, GateInitially, GateStep, PTL DEF GateSpec

(* However a server is configured and whatever the tenant does with its    *)
(* keys: the registry is written by a live admin token or on a development *)
(* server without any authentication; in production nothing is generated   *)
(* for a caller the server does not know; and while the key set can be     *)
(* fetched, no rotation turns a live token of a published key away.        *)
THEOREM AccessStaysGuarded == GateSpec => []AccessIsGuarded
<1> QED
    BY GateInitially, GateStep, PTL DEF GateSpec
===============================================================================
