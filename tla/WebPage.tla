--------------------------------- MODULE WebPage ---------------------------------
(***************************************************************************)
(* The web page in one tab (api/web/app.js): the sign-in with the tenant   *)
(* (authorization code and PKCE), the token it keeps in memory, and the    *)
(* generation it streams from the server, whose answer to the token is     *)
(* Gate's and whose stream is the one of api/app.py.  The user reloads,    *)
(* goes back and forth, signs in twice, cancels; every fetch may fail.     *)
(***************************************************************************)
EXTENDS Gate, Sequences

CONSTANTS
    Life,        \* how long the tenant's tokens live, in ticks
    MaxLogins,   \* bound: the sign-ins begun
    MaxPieces    \* bound: the pieces of a stream

ASSUME PageAssumption == {Life, MaxLogins, MaxPieces} \subseteq Nat

VARIABLES
    clientId,   \* GEMMA_CYBER_WEB_AUTH0_CLIENT_ID is set
    page,       \* where the tab is
    url,        \* its address: the login whose callback it is, or
                \* Plain, or Denied for the tenant's error
    pkce,       \* sessionStorage: the login whose verifier and state it holds
    logins,     \* the sign-ins begun
    config,     \* what the page knows of the server's authentication
    token,      \* app.accessToken and app.tokenExpiresAt
    shown,      \* what the last render() showed
    request,    \* the generation in flight: app.busy, app.controller
    bubble,     \* the text shown for it
    stream      \* the server's side of it, and the events on their way

tabVars == <<clientId, page, url, pkce, logins, config, token, shown>>
sendVars == <<request, bubble, stream>>
pageVars == <<gateVars, tabVars, sendVars>>

Plain  == 0
Denied == -1
NoToken == [kind |-> "none"]

Idle == [at |-> "idle", by |-> Header("none"), status |-> "none", aborted |-> FALSE]

NoBubble == [text |-> 0, end |-> "none"]

(* made: the pieces sent so far; wire: the events the page has not seen.   *)
NoStream == [at |-> "none", made |-> 0, word |-> "none", wire |-> <<>>]

PageTypeOK ==
    /\ GateTypeOK
    /\ page \in {"loading", "exchanging", "ready", "away"}
    /\ url \in {Plain, Denied} \cup 1..MaxLogins
    /\ pkce \in 0..MaxLogins /\ logins \in 0..MaxLogins
    /\ config \in {"unknown", "sso", "none"}
    /\ token \in {NoToken} \cup Token
    /\ shown \in {"nothing", "gate", "workspace"}
    /\ request.at \in {"idle", "sent", "answered", "reading"}
    /\ bubble.text \in 0..MaxPieces
    /\ bubble.end \in {"none", "open", "complete", "empty", "error", "network",
                       "cancelled", "refused"}
    /\ stream.made \in 0..MaxPieces
    /\ request.at = "idle" <=> bubble.end # "open"

(* /config.json: the page can sign in.                                     *)
SignsIn == posture.auth = "jwt" /\ clientId

(* Of the postures only how callers are authenticated matters here.        *)
PageInit ==
    /\ GateInit
    /\ posture.registry = "none"
    /\ posture.name = IF posture.auth = "open" THEN "dev" ELSE "prod"
    /\ clientId \in BOOLEAN
    /\ page = "loading" /\ url = Plain
    /\ pkce = 0 /\ logins = 0
    /\ config = "unknown" /\ token = NoToken /\ shown = "nothing"
    /\ request = Idle /\ bubble = NoBubble /\ stream = NoStream

-----------------------------------------------------------------------------
(* The tab.                                                                *)

Quiet == reply' = NoReply /\ UNCHANGED <<posture, time, published, up, resolved>>

SignedIn == token # NoToken /\ time < token.exp

(* render()                                                                *)
View(c, t) == IF c = "sso" /\ ~(t # NoToken /\ time < t.exp) THEN "gate" ELSE "workspace"

(* A page that goes away takes its memory with it, and the request.        *)
Leave(to, address) ==
    /\ page' = to /\ url' = address
    /\ config' = "unknown" /\ token' = NoToken /\ shown' = "nothing"
    /\ request' = Idle /\ bubble' = NoBubble /\ stream' = NoStream
    /\ Quiet

(* boot() has the configuration; where the page signs in it handles the    *)
(* callback: the address is cleaned and the verifier used up, the code is  *)
(* exchanged if the state is the one that was saved.                       *)
Boot ==
    /\ page = "loading"
    /\ config' = IF SignsIn THEN "sso" ELSE "none"
    /\ IF SignsIn /\ url # Plain
       THEN /\ url' = Plain /\ pkce' = 0
            /\ page' = IF url = pkce THEN "exchanging" ELSE "ready"
       ELSE page' = "ready" /\ UNCHANGED <<url, pkce>>
    /\ shown' = IF page' = "ready" THEN View(config', token) ELSE shown
    /\ Quiet
    /\ UNCHANGED <<clientId, logins, token, sendVars>>

(* Without a configuration the page behaves as if there were no sign-in.   *)
BootBlind ==
    /\ page = "loading"
    /\ page' = "ready" /\ config' = "none" /\ shown' = "workspace"
    /\ Quiet
    /\ UNCHANGED <<clientId, url, pkce, logins, token, sendVars>>

(* The tenant's token endpoint: a token, signed with a published key, or   *)
(* any failure.                                                            *)
Exchange ==
    /\ page = "exchanging"
    /\ page' = "ready"
    /\ token' \in {NoToken} \cup
                  {[kind |-> "jwt", kid |-> k, exp |-> time + Life,
                    admin |-> FALSE, right |-> TRUE] : k \in published}
    /\ token' # NoToken => token'.exp <= MaxTime
    /\ shown' = View(config, token')
    /\ Quiet
    /\ UNCHANGED <<clientId, url, pkce, logins, config, sendVars>>

(* login(): the verifier and the state are saved, and the page leaves.     *)
Login ==
    /\ page = "ready" /\ shown = "gate" /\ logins < MaxLogins
    /\ logins' = logins + 1
    /\ pkce' = logins'
    /\ Leave("away", url)
    /\ UNCHANGED clientId

Logout ==
    /\ page = "ready" /\ shown = "workspace" /\ config = "sso"
    /\ Leave("away", url)
    /\ UNCHANGED <<clientId, pkce, logins>>

(* The tab comes back from the tenant: with the code of the latest login   *)
(* or of an earlier one, an error, or by the Back button.                  *)
Return ==
    /\ page = "away"
    /\ \E address \in {Plain, Denied} \cup 1..logins : Leave("loading", address)
    /\ UNCHANGED <<clientId, pkce, logins>>

Reload ==
    /\ page # "away"
    /\ Leave("loading", url)
    /\ UNCHANGED <<clientId, pkce, logins>>

-----------------------------------------------------------------------------
(* A generation: send().                                                   *)

(* The form is shown and nothing is in flight.                             *)
Send ==
    /\ page = "ready" /\ shown = "workspace" /\ request = Idle
    /\ request' = [Idle EXCEPT !.at = "sent",
                               !.by = IF SignedIn THEN token ELSE Header("none")]
    /\ bubble' = [text |-> 0, end |-> "open"]
    /\ stream' = NoStream
    /\ Quiet
    /\ UNCHANGED tabVars

(* The server answers: it refuses the caller (Gate), or turns the request  *)
(* away for its rate, its capacity or its content, or begins to stream.    *)
Serve ==
    /\ request.at = "sent"
    /\ Generate(request.by)
    /\ LET status == Authenticate(request.by) IN
         \/ /\ request' = [request EXCEPT !.at = "answered", !.status = status]
            /\ stream' = IF status = "200" THEN [stream EXCEPT !.at = "open"] ELSE stream
         \/ /\ status = "200"
            /\ request' = [request EXCEPT !.at = "answered", !.status = "declined"]
            /\ UNCHANGED stream
    /\ UNCHANGED <<tabVars, bubble>>

(* The finally clause.                                                     *)
Finish(text, end) ==
    /\ request' = Idle
    /\ bubble' = [text |-> text, end |-> end]
    /\ stream' = NoStream
    /\ Quiet

(* The response has arrived.  A 401 drops the token and renders, so that   *)
(* the page is at the gate again (handleHttpError).                        *)
TakeStatus ==
    /\ request.at = "answered"
    /\ IF request.status = "200"
       THEN /\ request' = [request EXCEPT !.at = "reading"]
            /\ Quiet
            /\ UNCHANGED <<tabVars, bubble, stream>>
       ELSE /\ Finish(0, "refused")
            /\ IF request.status = "401"
               THEN token' = NoToken /\ shown' = View(config, NoToken)
               ELSE UNCHANGED <<token, shown>>
            /\ UNCHANGED <<clientId, page, url, pkce, logins, config>>

(* An event of the stream.  The page shows a text, gives up at an error,   *)
(* and does not look at the server's `done`.                               *)
TakeEvent ==
    /\ request.at = "reading" /\ stream.wire # <<>>
    /\ IF Head(stream.wire) = "error"
       THEN Finish(0, "error")
       ELSE /\ bubble' = IF Head(stream.wire) = "text" THEN [bubble EXCEPT !.text = @ + 1]
                                                       ELSE bubble
            /\ stream' = [stream EXCEPT !.wire = Tail(@)]
            /\ Quiet
            /\ UNCHANGED request
    /\ UNCHANGED tabVars

(* Mutant of TakeEnd: a body without text is waited for.                   *)
TakeEndWithText ==
    /\ request.at = "reading" /\ stream.wire = <<>> /\ stream.at = "closed"
    /\ bubble.text > 0
    /\ request' = Idle
    /\ bubble' = [bubble EXCEPT !.end = "complete"]
    /\ Quiet
    /\ UNCHANGED <<tabVars, stream>>

(* The body ends.                                                          *)
TakeEnd ==
    /\ request.at = "reading" /\ stream.wire = <<>> /\ stream.at = "closed"
    /\ request' = Idle
    /\ bubble' = [bubble EXCEPT !.end = IF bubble.text = 0 THEN "empty" ELSE "complete"]
    /\ Quiet
    /\ UNCHANGED <<tabVars, stream>>

(* fetch or read rejects: the connection failed, or the server broke off.  *)
NetworkError ==
    /\ request # Idle
    /\ Finish(0, "network")
    /\ UNCHANGED tabVars

Cancel ==
    /\ request # Idle /\ ~request.aborted
    /\ request' = [request EXCEPT !.aborted = TRUE]
    /\ Quiet
    /\ UNCHANGED <<tabVars, bubble, stream>>

(* The abort arrives; what was shown stays.                                *)
AbortError ==
    /\ request.aborted
    /\ Finish(bubble.text, "cancelled")
    /\ UNCHANGED tabVars

-----------------------------------------------------------------------------
(* The server's stream: _sse.                                              *)

Says(event, at) ==
    /\ stream' = [stream EXCEPT !.wire = Append(@, event), !.at = at, !.word = event,
                                !.made = IF event = "text" THEN @ + 1 ELSE @]
    /\ Quiet
    /\ UNCHANGED <<tabVars, request, bubble>>

StreamPiece == stream.at = "open" /\ stream.made < MaxPieces /\ Says("text", "open")

Done == stream.at = "open" /\ Says("done", "closed")

(* Mutant of Fails: the error is logged and the stream just ends.          *)
FailsQuietly ==
    /\ stream.at = "open"
    /\ stream' = [stream EXCEPT !.at = "closed"]
    /\ Quiet
    /\ UNCHANGED <<tabVars, request, bubble>>

(* An InferenceError becomes an event.                                     *)
Fails == stream.at = "open" /\ Says("error", "closed")

(* Any other exception breaks the connection off.                          *)
Breaks ==
    /\ stream.at = "open"
    /\ stream' = [stream EXCEPT !.at = "broken"]
    /\ Quiet
    /\ UNCHANGED <<tabVars, request, bubble>>

PageTick == ClockTick /\ UNCHANGED <<tabVars, sendVars>>

Receive == TakeStatus \/ TakeEvent \/ TakeEnd \/ (stream.at = "broken" /\ NetworkError)

PageNext ==
    \/ Boot \/ BootBlind \/ Exchange \/ Login \/ Logout \/ Return \/ Reload
    \/ Send \/ Serve \/ Receive \/ NetworkError \/ Cancel \/ AbortError
    \/ StreamPiece \/ Done \/ Fails \/ Breaks \/ PageTick

(* The server answers, its streams end, and the page takes what arrives.   *)
PageFairness ==
    /\ WF_pageVars(Serve) /\ WF_pageVars(Receive)
    /\ WF_pageVars(Done \/ Fails \/ Breaks)

PageSpec == PageInit /\ [][PageNext]_pageVars /\ PageFairness

-----------------------------------------------------------------------------
(* "If auth is enabled and there is no session, it shows a sign-in gate"   *)
(* (docs/auth.md): wherever the page knows that it has to sign in, the     *)
(* composer is shown only with a token in memory.                          *)
ComposerNeedsSession ==
    config = "sso" /\ shown = "workspace" => token # NoToken

(* The verifier is for one exchange: none is left once the page has a      *)
(* token, and only the callback of the latest login is exchanged.          *)
VerifierIsSpent ==
    page = "exchanging" \/ SignedIn => pkce = 0

(* What the page shows as complete is: the server has said that it was     *)
(* done, and the page shows every piece.                                   *)
CompleteMeansDone ==
    bubble.end \in {"complete", "empty"} => stream.word = "done" /\ bubble.text = stream.made

(* What the page shows is so: of its session, and of the answer            *)
(* (api/web/app.js).                                                       *)
PageIsHonest ==
    /\ ComposerNeedsSession
    /\ VerifierIsSpent
    /\ CompleteMeansDone

(* A request ends, whatever comes of it, and the page can send again.      *)
SendEnds == request # Idle ~> request = Idle
=============================================================================
