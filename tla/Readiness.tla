-------------------------------- MODULE Readiness --------------------------------
(***************************************************************************)
(* What the page says of the service: its two timers poll /health and      *)
(* /v1/ready (refreshLiveness and refreshStatus of api/web/app.js), whose  *)
(* answer comes from a cache of ten seconds over InferenceEngine.health    *)
(* (api/app.py, inference/engine.py, clients/ollama_client.py).  Polls     *)
(* overlap, their answers arrive in any order, the server and its runtime  *)
(* come and go.                                                            *)
(***************************************************************************)
EXTENDS Naturals

CONSTANTS
    Polls,      \* bound: the polls under way at one time
    Ttl         \* READY_CACHE_TTL_S, in ticks

ASSUME ReadinessAssumption == Ttl \in Nat \ {0}

VARIABLES
    serving,    \* whether the server answers
    runtime,    \* Ollama: down, up without the model, or with it
    cache,      \* app.state._ready_cache
    poll,       \* the polls of the page
    badge,      \* what the page shows
    lately      \* history: what the runtime has been since i ticks ago

readinessVars == <<serving, runtime, cache, poll, badge, lately>>

Runtime == {"down", "bare", "ready"}

Uncached == [age |-> Ttl, says |-> "down"]

NoPoll == [kind |-> "none", at |-> "rest", got |-> "nothing"]

(* got: what a response on its way to the page says.  A server that does   *)
(* not answer, or answers with an error page, is unreachable to it.        *)
Poll == [kind : {"none", "liveness", "status"}, at : {"rest", "health", "ready"},
         got  : Runtime \cup {"nothing", "alive", "unreachable"}]

ReadinessTypeOK ==
    /\ serving \in BOOLEAN
    /\ runtime \in Runtime
    /\ cache \in [age : 0..Ttl, says : Runtime]
    /\ poll \in [Polls -> Poll]
    /\ badge \in Runtime \cup {"checking", "unreachable"}
    /\ lately \in [0..Ttl - 1 -> SUBSET Runtime]

ReadinessInit ==
    /\ serving \in BOOLEAN /\ runtime \in Runtime
    /\ cache = Uncached
    /\ poll = [p \in Polls |-> NoPoll]
    /\ badge = "checking"
    /\ lately = [i \in 0..Ttl - 1 |-> {runtime}]

-----------------------------------------------------------------------------
(* The page.                                                               *)

(* A timer fires, or the page has just booted.                             *)
Begin(p, kind) ==
    /\ poll[p] = NoPoll
    /\ poll' = [poll EXCEPT ![p] = [kind |-> kind, at |-> "health", got |-> "nothing"]]
    /\ UNCHANGED <<serving, runtime, cache, badge, lately>>

(* Mutant of TakeHealth: /v1/ready is asked only as long as nothing is     *)
(* shown.                                                                  *)
TakeHealthOnce(p) ==
    /\ poll[p].at = "health" /\ poll[p].got # "nothing"
    /\ badge' = IF poll[p].got = "unreachable" THEN "unreachable" ELSE badge
    /\ poll' = [poll EXCEPT ![p] =
                  IF @.kind = "status" /\ @.got = "alive" /\ badge = "checking"
                  THEN [@ EXCEPT !.at = "ready", !.got = "nothing"] ELSE NoPoll]
    /\ UNCHANGED <<serving, runtime, cache, lately>>

(* A /health response.  Good news alone changes nothing that is shown.     *)
TakeHealth(p) ==
    /\ poll[p].at = "health" /\ poll[p].got # "nothing"
    /\ badge' = IF poll[p].got = "unreachable" THEN "unreachable" ELSE badge
    /\ poll' = [poll EXCEPT ![p] =
                  IF @.kind = "status" /\ @.got = "alive"
                  THEN [@ EXCEPT !.at = "ready", !.got = "nothing"] ELSE NoPoll]
    /\ UNCHANGED <<serving, runtime, cache, lately>>

(* A /v1/ready response.                                                   *)
TakeReady(p) ==
    /\ poll[p].at = "ready" /\ poll[p].got # "nothing"
    /\ badge' = poll[p].got
    /\ poll' = [poll EXCEPT ![p] = NoPoll]
    /\ UNCHANGED <<serving, runtime, cache, lately>>

-----------------------------------------------------------------------------
(* The server.                                                             *)

Asked(p, at) == poll[p].at = at /\ poll[p].got = "nothing"

Health(p) ==
    /\ Asked(p, "health")
    /\ poll' = [poll EXCEPT ![p].got = IF serving THEN "alive" ELSE "unreachable"]
    /\ UNCHANGED <<serving, runtime, cache, badge, lately>>

Fresh == cache.age < Ttl

(* Mutant of Ready: every answer renews the cache.                         *)
ReadySlides(p) ==
    /\ Asked(p, "ready") /\ serving
    /\ LET says == IF Fresh THEN cache.says ELSE runtime IN
          /\ cache' = [age |-> 0, says |-> says]
          /\ poll' = [poll EXCEPT ![p].got = says]
    /\ UNCHANGED <<serving, runtime, badge, lately>>

(* The payload says whether the runtime was reached and whether it has the *)
(* model; no addresses or paths (public_ready_payload).                    *)
Ready(p) ==
    /\ Asked(p, "ready") /\ serving
    /\ LET says == IF Fresh THEN cache.says ELSE runtime IN
          /\ cache' = IF Fresh THEN cache ELSE [age |-> 0, says |-> runtime]
          /\ poll' = [poll EXCEPT ![p].got = says]
    /\ UNCHANGED <<serving, runtime, badge, lately>>

Unanswered(p) ==
    /\ Asked(p, "ready") /\ ~serving
    /\ poll' = [poll EXCEPT ![p].got = "unreachable"]
    /\ UNCHANGED <<serving, runtime, cache, badge, lately>>

(* A tick on the server's clock.                                           *)
Age ==
    /\ cache' = [cache EXCEPT !.age = IF @ < Ttl THEN @ + 1 ELSE @]
    /\ lately' = [i \in 0..Ttl - 1 |-> IF i = 0 THEN {runtime} ELSE lately[i - 1]]
    /\ UNCHANGED <<serving, runtime, poll, badge>>

(* The server stops and starts again, without a cache.                     *)
Restart ==
    /\ serving' = ~serving
    /\ cache' = Uncached
    /\ UNCHANGED <<runtime, poll, badge, lately>>

RuntimeChanges ==
    /\ runtime' \in Runtime \ {runtime}
    /\ lately' = [lately EXCEPT ![0] = @ \cup {runtime'}]
    /\ UNCHANGED <<serving, cache, poll, badge>>

PollStep(p) == TakeHealth(p) \/ TakeReady(p) \/ Health(p) \/ Ready(p) \/ Unanswered(p)

ReadinessNext ==
    \/ \E p \in Polls : PollStep(p) \/ \E kind \in {"liveness", "status"} : Begin(p, kind)
    \/ Age \/ Restart \/ RuntimeChanges

(* A fetch ends, the timers keep firing, time goes on.                     *)
ReadinessFairness ==
    /\ \A p \in Polls : WF_readinessVars(PollStep(p))
    /\ SF_readinessVars(\E p \in Polls : Begin(p, "status"))
    /\ WF_readinessVars(Age)

ReadinessSpec == ReadinessInit /\ [][ReadinessNext]_readinessVars /\ ReadinessFairness

-----------------------------------------------------------------------------
(* An answer about the runtime is never older than the cache allows: it    *)
(* says what the runtime was at some moment of the last Ttl ticks.         *)
ReadyIsRecent ==
    [][\A p \in Polls : poll[p].at = "ready" /\ poll[p].got = "nothing" =>
          poll'[p].got \in {"nothing", "unreachable"} \cup UNION {lately[i] : i \in DOMAIN lately}
      ]_readinessVars

(* What the page should come to show.                                      *)
Truth == IF serving THEN runtime ELSE "unreachable"

(* If the service stays as it is from some time on, so does the badge, and *)
(* it is right, whatever answers were still on their way.                  *)
BadgeSettles ==
    \A truth \in Runtime \cup {"unreachable"} :
        <>[](Truth = truth) => <>[](badge = truth)
=============================================================================
