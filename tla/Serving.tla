-------------------------------- MODULE Serving --------------------------------
(***************************************************************************)
(* POST /v1/generate: authentication, the rate limiter and the admission   *)
(* of generations (api/app.py, api/security.py), and the generation itself *)
(* on a worker thread (inference/engine.py, clients/ollama_client.py).     *)
(*                                                                         *)
(* The handler runs on the event loop and is atomic between two awaits.    *)
(* The rate limiter is a plain function, which the framework calls on a    *)
(* thread of its pool: two of its calls interleave.  A deadline ends the   *)
(* wait for a thread, not the thread.                                      *)
(***************************************************************************)
EXTENDS Integers, FiniteSets

CONSTANTS
    Requests,         \* the requests
    KeyOf,            \* whom the rate limiter counts a request against
    Streams,          \* the requests that ask for a stream
    RateLimit,        \* requests per window and key; without a limit
                      \* (0) no limiter takes part, which is not modelled
    Window,           \* the 60 seconds of the limiter, in ticks
    MaxGenerations,   \* max_concurrent_generations, 0 for no bound
    MaxAttempts,      \* max_retries + 1
    HasDeadline,      \* request_deadline_s > 0
    MaxClock          \* bound: the last tick

ASSUME ServingAssumption ==
    /\ IsFiniteSet(Requests) /\ Streams \subseteq Requests
    /\ KeyOf \in [Requests -> {KeyOf[r] : r \in Requests}]
    /\ RateLimit \in Nat \ {0} /\ Window \in Nat /\ MaxGenerations \in Nat
    /\ MaxAttempts \in Nat \ {0} /\ MaxClock \in Nat /\ HasDeadline \in BOOLEAN

VARIABLES
    clock,      \* time.monotonic()
    hits,       \* RateLimiter._hits
    active,     \* Capacity._active
    stage,      \* where the request is
    seen,       \* the limiter's call: the time it read and the hits it kept
    thread,     \* the thread that generates for the request
    entered,    \* history: when the limiter let the request in
    overlaps    \* history: calls of the limiter that began during another

servingVars == <<clock, hits, active, stage, seen, thread, entered, overlaps>>

Keys == {KeyOf[r] : r \in Requests}

Time == 0..MaxClock
Never == -1

(* A hit of the limiter's list, with the request it counts; that the list  *)
(* is in the order of time is of no use to anybody.                        *)
Hit == [by : Requests, at : Time]

(* Of the responses only the one to a client over its rate is told apart.  *)
Stage == {"new", "limiting", "routed", "waiting", "streaming", "leaving", "done",
          "refused"}

Nothing == [at |-> 0, kept |-> {}]

(* A thread in "calling" has a request open at Ollama; one in "paused" has *)
(* handed over a piece of a stream; one in "ended" its result or its       *)
(* exception.                                                              *)
Thread == [pc : {"none", "calling", "backoff", "paused", "ended"},
           attempt : 0..MaxAttempts]

NoThread == [pc |-> "none", attempt |-> 0]

ServingTypeOK ==
    /\ clock \in Time
    /\ hits \in [Keys -> SUBSET Hit]
    /\ active \in Nat
    /\ stage \in [Requests -> Stage]
    /\ seen \in [Requests -> [at : Time, kept : SUBSET Hit]]
    /\ thread \in [Requests -> Thread]
    /\ entered \in [Requests -> Time \cup {Never}]
    /\ overlaps \in [Keys -> Nat]

ServingInit ==
    /\ clock = 0
    /\ hits = [k \in Keys |-> {}]
    /\ active = 0
    /\ stage = [r \in Requests |-> "new"]
    /\ seen = [r \in Requests |-> Nothing]
    /\ thread = [r \in Requests |-> NoThread]
    /\ entered = [r \in Requests |-> Never]
    /\ overlaps = [k \in Keys |-> 0]

(* The requests between Capacity.acquire and Capacity.release.             *)
Holding == {r \in Requests : stage[r] \in {"waiting", "streaming", "leaving"}}

-----------------------------------------------------------------------------
(* The dependencies of the route, on threads of the pool.                  *)

Goes(r, to) == stage' = [stage EXCEPT ![r] = to]

(* get_principal: no valid token, or no key to verify it with.             *)
Unauthenticated(r) ==
    /\ stage[r] = "new"
    /\ Goes(r, "done")
    /\ UNCHANGED <<clock, hits, active, seen, thread, entered, overlaps>>

(* Mutant of Kept: hits never leave the window.                            *)
KeptForEver(k) == hits[k]

Kept(k) == {h \in hits[k] : h.at >= clock - Window}

(* RateLimiter.allow up to the list it builds ...                          *)
ReadHits(r) ==
    LET k == KeyOf[r] IN
    /\ stage[r] = "new"
    /\ Goes(r, "limiting")
    /\ seen' = [seen EXCEPT ![r] = [at |-> clock, kept |-> Kept(k)]]
    /\ overlaps' = IF \E q \in Requests : stage[q] = "limiting" /\ KeyOf[q] = k
                   THEN [overlaps EXCEPT ![k] = @ + 1] ELSE overlaps
    /\ UNCHANGED <<clock, hits, active, thread, entered>>

(* Mutant of AtLimit: off by one.                                          *)
AtLimitLate(kept) == Cardinality(kept) > RateLimit

AtLimit(kept) == Cardinality(kept) >= RateLimit

(* ... and from there on: it puts back a list of its own, with this        *)
(* request's hit or without.                                               *)
Allow(r) ==
    /\ stage[r] = "limiting"
    /\ ~AtLimit(seen[r].kept)
    /\ hits' = [hits EXCEPT ![KeyOf[r]] =
                  seen[r].kept \cup {[by |-> r, at |-> seen[r].at]}]
    /\ entered' = [entered EXCEPT ![r] = seen[r].at]
    /\ Goes(r, "routed")
    /\ seen' = [seen EXCEPT ![r] = Nothing]
    /\ UNCHANGED <<clock, active, thread, overlaps>>

Refuse(r) ==
    /\ stage[r] = "limiting"
    /\ AtLimit(seen[r].kept)
    /\ hits' = [hits EXCEPT ![KeyOf[r]] = seen[r].kept]
    /\ Goes(r, "refused")
    /\ seen' = [seen EXCEPT ![r] = Nothing]
    /\ UNCHANGED <<clock, active, thread, entered, overlaps>>

-----------------------------------------------------------------------------
(* The handler, on the event loop.                                         *)

Saturated == MaxGenerations > 0 /\ active >= MaxGenerations

(* No model of that name is served, or Capacity.acquire refuses.           *)
TurnedAway(r) ==
    /\ stage[r] = "routed"
    /\ Goes(r, "done")
    /\ UNCHANGED <<clock, hits, active, seen, thread, entered, overlaps>>

(* A slot is taken and a thread starts to generate.                        *)
Start(r) ==
    /\ stage[r] = "routed"
    /\ ~Saturated
    /\ active' = active + 1
    /\ Goes(r, IF r \in Streams THEN "streaming" ELSE "waiting")
    /\ thread' = [thread EXCEPT ![r] = [pc |-> "calling", attempt |-> 1]]
    /\ UNCHANGED <<clock, hits, seen, entered, overlaps>>

(* Capacity.release                                                        *)
Release == active' = IF active > 0 THEN active - 1 ELSE 0

Answer(r) ==
    /\ stage[r] = "waiting"
    /\ thread[r].pc = "ended"
    /\ Goes(r, "done")
    /\ Release
    /\ thread' = [thread EXCEPT ![r] = NoThread]
    /\ UNCHANGED <<clock, hits, seen, entered, overlaps>>

(* Mutant of Expire: the slot stays with the thread's request.             *)
ExpireKeepsSlot(r) ==
    /\ stage[r] = "waiting"
    /\ HasDeadline
    /\ Goes(r, "done")
    /\ UNCHANGED <<clock, hits, active, seen, thread, entered, overlaps>>

(* wait_for gives up, and the finally clause gives back the slot; nothing  *)
(* tells the thread.                                                       *)
Expire(r) ==
    /\ stage[r] = "waiting"
    /\ HasDeadline
    /\ Goes(r, "done")
    /\ Release
    /\ thread' = IF thread[r].pc = "ended" THEN [thread EXCEPT ![r] = NoThread]
                                           ELSE thread
    /\ UNCHANGED <<clock, hits, seen, entered, overlaps>>

(* The client of a stream goes away; the thread is waited for until it has *)
(* handed over the piece it is at.                                         *)
Disconnect(r) ==
    /\ stage[r] = "streaming"
    /\ Goes(r, "leaving")
    /\ UNCHANGED <<clock, hits, active, seen, thread, entered, overlaps>>

(* The stream is over, by whatever end, or nobody wants its next piece.    *)
StreamOver(r) ==
    /\ \/ stage[r] \in {"streaming", "leaving"} /\ thread[r].pc = "ended"
       \/ stage[r] = "leaving" /\ thread[r].pc = "paused"
    /\ Goes(r, "done")
    /\ Release
    /\ thread' = [thread EXCEPT ![r] = NoThread]
    /\ UNCHANGED <<clock, hits, seen, entered, overlaps>>

NextPiece(r) ==
    /\ stage[r] = "streaming"
    /\ thread[r].pc = "paused"
    /\ thread' = [thread EXCEPT ![r].pc = "calling"]
    /\ UNCHANGED <<clock, hits, active, stage, seen, entered, overlaps>>

-----------------------------------------------------------------------------
(* The thread: InferenceEngine.generate or stream, and the Ollama client.  *)

Steps(r, t) ==
    /\ thread' = [thread EXCEPT ![r] = t]
    /\ UNCHANGED <<clock, hits, active, stage, seen, entered, overlaps>>

(* What a thread ends with is lost unless somebody waits for it.           *)
Ends(r) == Steps(r, IF r \in Holding THEN [thread[r] EXCEPT !.pc = "ended"] ELSE NoThread)

(* An answer, the end of a stream, or something that is not JSON, which no *)
(* handler expects.                                                        *)
CallEnds(r) == thread[r].pc = "calling" /\ Ends(r)

Piece(r) ==
    /\ thread[r].pc = "calling"
    /\ r \in Streams
    /\ Steps(r, [thread[r] EXCEPT !.pc = "paused"])

(* Mutant of MayRetry: one attempt more.                                   *)
MayRetryOffByOne(r) == r \notin Streams /\ thread[r].attempt <= MaxAttempts

MayRetry(r) == r \notin Streams /\ thread[r].attempt < MaxAttempts

(* OllamaError, by the client's timeout or otherwise; the last one is      *)
(* raised, like any of a stream.                                           *)
CallFails(r) ==
    /\ thread[r].pc = "calling"
    /\ IF MayRetry(r) THEN Steps(r, [thread[r] EXCEPT !.pc = "backoff"]) ELSE Ends(r)

(* Mutant of BackoffOver: the attempt is not counted.                      *)
BackoffOverUncounted(r) ==
    /\ thread[r].pc = "backoff"
    /\ Steps(r, [thread[r] EXCEPT !.pc = "calling"])

BackoffOver(r) ==
    /\ thread[r].pc = "backoff"
    /\ Steps(r, [pc |-> "calling", attempt |-> thread[r].attempt + 1])

Tick ==
    /\ clock < MaxClock
    /\ clock' = clock + 1
    /\ UNCHANGED <<hits, active, stage, seen, thread, entered, overlaps>>

LoopStep(r) == Answer(r) \/ StreamOver(r) \/ NextPiece(r)

ThreadStep(r) == CallEnds(r) \/ CallFails(r) \/ BackoffOver(r)

ServingNext ==
    \/ \E r \in Requests :
          \/ Unauthenticated(r) \/ ReadHits(r) \/ Allow(r) \/ Refuse(r)
          \/ TurnedAway(r) \/ Start(r) \/ Expire(r) \/ Disconnect(r)
          \/ LoopStep(r) \/ ThreadStep(r) \/ Piece(r)
    \/ Tick

ServingSpec == ServingInit /\ [][ServingNext]_servingVars

(* The event loop goes on.  A call to Ollama ends within the client's      *)
(* timeout; a stream ends, since Ollama caps what it generates: pieces do  *)
(* not keep the end away for ever.                                         *)
ServingFairness ==
    \A r \in Requests :
        /\ WF_servingVars(LoopStep(r))
        /\ SF_servingVars(CallEnds(r) \/ CallFails(r))
        /\ WF_servingVars(BackoffOver(r))

FairServingSpec == ServingSpec /\ ServingFairness

-----------------------------------------------------------------------------
(* Every admitted request holds one slot and gives it back once, whatever  *)
(* ends it: an answer, an error, a deadline, a client that goes away.      *)
SlotsBalanced ==
    /\ active = Cardinality(Holding)
    /\ MaxGenerations > 0 => active <= MaxGenerations

(* The requests of one key that were let in within the window before t.    *)
InWindow(k, t) ==
    {q \in Requests :
        KeyOf[q] = k /\ entered[q] # Never /\ t - Window <= entered[q] /\ entered[q] <= t}

(* "requests per 60s per key" (RateLimiter): the limit is exceeded by no   *)
(* more than the number of calls of the limiter that overlapped another:   *)
(* each costs the list one hit.                                            *)
RateBounded ==
    \A r \in Requests : entered[r] # Never =>
        Cardinality(InWindow(KeyOf[r], entered[r])) <= RateLimit + overlaps[KeyOf[r]]

(* A client is refused for its rate only if its key has used it up, within *)
(* the window and however its calls of the limiter overlapped.             *)
RefusalsJustified ==
    [][\A r \in Requests : stage'[r] = "refused" /\ stage[r] # "refused" =>
          Cardinality(InWindow(KeyOf[r], seen[r].at)) >= RateLimit]_servingVars

(* Every slot comes back.                                                  *)
SlotsReturn == \A r \in Requests : r \in Holding ~> r \notin Holding

-----------------------------------------------------------------------------
(* What the repository says and the code does not do.                      *)

(* "hard cap on active generations" (max_concurrent_generations,           *)
(* inference/config.py): no more threads than that have a request open at  *)
(* Ollama.                                                                 *)
GenerationsCapped ==
    MaxGenerations > 0 =>
        Cardinality({r \in Requests : thread[r].pc = "calling"}) <= MaxGenerations
=============================================================================
