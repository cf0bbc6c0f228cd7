----------------------------- MODULE AgentRuntime ------------------------------
(***************************************************************************)
(* One session of the terminal agent: the turn loop of AgentRuntime        *)
(* (agent/runtime.py) on top of the tool pipeline, with the streaming      *)
(* provider it calls, the context it packs (agent/context.py), the session *)
(* file it appends to (agent/sessions.py), the REPL that starts turns      *)
(* (agent/ui/repl.py) and the SIGINT handler that may run between any two  *)
(* steps.  A crash may happen at any step; `gemma4 resume` reloads the     *)
(* session file into a new process.                                        *)
(***************************************************************************)
EXTENDS ToolPipeline, SequencesExt

CONSTANTS
    Replies,          \* completions the model may give (records of Reply)
    MaxIterations,    \* AgentRuntime.max_iterations
    MaxAttempts,      \* MAX_PROVIDER_ATTEMPTS
    LoopLimit,        \* AgentRuntime.loop_repeat_limit
    UserModes,        \* the modes this session is started in or switched to
    MaxTurns,         \* bound: user turns in a behaviour
    MaxCrashes,       \* bound: process deaths in a behaviour
    MaxFaults         \* bound: failed writes to the session file

(* What a completed stream is parsed into: the calls, whether the codec    *)
(* reported malformed blocks, whether the text looks like a missed call.   *)
Reply == [calls : Seq(Calls), malformed : BOOLEAN, attempted : BOOLEAN]

ASSUME AgentAssumption ==
    /\ Replies \subseteq Reply
    /\ MaxIterations \in Nat \ {0}
    /\ MaxAttempts \in Nat \ {0}
    /\ LoopLimit \in Nat /\ LoopLimit >= 2
    /\ UserModes \subseteq Modes /\ UserModes # {}
    /\ MaxTurns \in Nat /\ MaxCrashes \in Nat /\ MaxFaults \in Nat

VARIABLES
    pc,         \* where run_turn is; "prompt" between turns
    iteration,  \* state.iteration
    attempt,    \* _one_completion: attempt
    heard,      \* output of this attempt: 0 none, then 1 and 2 in turn
    hinted,     \* _loop: syntax_hint_given
    todo,       \* the calls of the current message not yet executed
    messages,   \* state.messages
    request,    \* the conversation in the request being streamed
    log,        \* messages.jsonl
    counts,     \* state.call_counts
    compacted,  \* AgentRuntime._compacted_once
    expired,    \* the wall-clock deadline of the turn has passed
    stop,       \* how the last turn ended: stop_reason, or its error_code
    turns,      \* user turns so far
    crashes,    \* process deaths so far
    pressed,    \* history: Ctrl+C was pressed in this turn
    spoke,      \* history: attempts of this completion that gave output
    issued,     \* history: calls proposed so far; their ids
    faults,     \* history: writes to the session file that failed
    saved,      \* history: where in the file each message of memory is, or 0
    lost,       \* history: ids of the calls and results the file never got
    missed      \* history: lost, as the last resume found it

(* The session file, and what is remembered of the writes to it.           *)
stored == <<log, faults, saved, lost, missed>>

loopVars == <<pc, iteration, attempt, heard, hinted, todo, messages, request,
              stored, counts, compacted, expired, stop, turns, crashes,
              pressed, spoke, issued>>

agentVars == <<pipeVars, loopVars>>

(* A message: an assistant message names the calls it carries by id; a     *)
(* tool message names the call it answers, or 0 (codec and session notes). *)
Message == [role : {"user", "assistant", "tool"}, calls : Seq(Nat), id : Nat]

User         == [role |-> "user", calls |-> <<>>, id |-> 0]
Says(ids)    == [role |-> "assistant", calls |-> ids, id |-> 0]
Result(id)   == [role |-> "tool", calls |-> <<>>, id |-> id]
Note         == Result(0)
Summary      == Says(<<>>)

Stops == {"none", "completed", "max_iterations", "cancelled", "turn_timeout",
          "loop_detected", "provider_error", "context_overflow"}

AgentTypeOK ==
    /\ PipeTypeOK
    /\ pc \in {"prompt", "head", "build", "compact", "rebuild", "stream",
               "backoff", "hint", "calls", "exec"}
    /\ iteration \in 0..MaxIterations
    /\ attempt \in 0..MaxAttempts
    /\ heard \in 0..2
    /\ todo \in Seq([call : Calls, id : Nat \ {0}])
    /\ messages \in Seq(Message)
    /\ request \in Seq(Message)
    /\ log \in Seq(Message)
    /\ counts \in [Calls -> 0..LoopLimit]
    /\ stop \in Stops
    /\ turns \in 0..MaxTurns
    /\ crashes \in 0..MaxCrashes
    /\ {hinted, compacted, expired, pressed} \subseteq BOOLEAN
    /\ spoke \in 0..MaxAttempts
    /\ issued \in Nat
    /\ faults \in 0..MaxFaults
    /\ saved \in Seq(Nat) /\ Len(saved) = Len(messages)
    /\ lost \subseteq Nat /\ missed \subseteq Nat
    /\ stage # "idle" => pc = "exec"

NoCounts == [c \in Calls |-> 0]

AgentInit ==
    /\ PipeInit
    /\ mode \in UserModes
    /\ pc = "prompt"
    /\ iteration = 0
    /\ attempt = 0
    /\ heard = 0
    /\ todo = <<>>
    /\ messages = <<>>
    /\ request = <<>>
    /\ log = <<>>
    /\ counts = NoCounts
    /\ stop = "none"
    /\ turns = 0
    /\ crashes = 0
    /\ hinted = FALSE
    /\ compacted = FALSE
    /\ expired = FALSE
    /\ pressed = FALSE
    /\ spoke = 0
    /\ issued = 0
    /\ faults = 0
    /\ saved = <<>>
    /\ lost = {}
    /\ missed = {}

Written(m) ==
    /\ log' = Append(log, m)
    /\ saved' = Append(saved, Len(log) + 1)
    /\ UNCHANGED <<faults, lost, missed>>

(* The calls a message names, or the call it answers.                      *)
IdsOf(m) == ToSet(m.calls) \cup ({m.id} \ {0})

(* sessions.append raised SessionError: logged, and the turn goes on.      *)
NotWritten(m) ==
    /\ faults < MaxFaults
    /\ faults' = faults + 1
    /\ saved' = Append(saved, 0)
    /\ lost' = lost \cup IdsOf(m)
    /\ UNCHANGED <<log, missed>>

(* _append: memory first, then the file, one message at a time.  A write   *)
(* that fails leaves no record here; SessionStore has the torn ones.       *)
AppendMessage(m) ==
    /\ messages' = Append(messages, m)
    /\ Written(m) \/ NotWritten(m)

-----------------------------------------------------------------------------
(* run_turn and _loop.                                                     *)

StartTurn ==
    /\ pc = "prompt"
    /\ turns < MaxTurns
    /\ turns' = turns + 1
    /\ CancelReset
    /\ AppendMessage(User)
    /\ pc' = "head"
    /\ iteration' = 0
    /\ hinted' = FALSE
    /\ expired' = FALSE
    /\ pressed' = FALSE
    /\ stop' = "none"
    /\ UNCHANGED <<attempt, heard, todo, request, counts, compacted, crashes,
                   spoke, issued>>

(* Every exit of the turn, with its name; the locals of the loop go.       *)
EndTurn(reason) ==
    /\ pc' = "prompt"
    /\ stop' = reason
    /\ todo' = <<>>
    /\ request' = <<>>
    /\ attempt' = 0
    /\ heard' = 0
    /\ spoke' = 0

StopReason == IF cancel THEN "cancelled" ELSE "turn_timeout"

MustStop == cancel \/ expired

(* _check_stop, at the points of the loop where the code calls it.         *)
CheckStop ==
    /\ \/ pc = "head" /\ iteration < MaxIterations
       \/ pc = "calls" /\ todo # <<>>
    /\ MustStop
    /\ EndTurn(StopReason)
    /\ UNCHANGED <<pipeVars, iteration, hinted, messages, stored, counts, compacted,
                   expired, turns, crashes, pressed, issued>>

Exhausted ==
    /\ pc = "head"
    /\ iteration = MaxIterations
    /\ EndTurn("max_iterations")
    /\ UNCHANGED <<pipeVars, iteration, hinted, messages, stored, counts, compacted,
                   expired, turns, crashes, pressed, issued>>

Iterate ==
    /\ pc = "head"
    /\ iteration < MaxIterations
    /\ ~MustStop
    /\ iteration' = iteration + 1
    /\ pc' = "build"
    /\ UNCHANGED <<pipeVars, attempt, heard, hinted, todo, messages, request, stored,
                   counts, compacted, expired, stop, turns, crashes, pressed,
                   spoke, issued>>

-----------------------------------------------------------------------------
(* ContextManager.build and compact.  Whether a conversation fits the      *)
(* provider's window is the environment's choice; what is dropped is not:  *)
(* the oldest messages up to a user message, never the latest exchange.    *)

(* Mutant of Cuts: single messages are dropped, not whole exchanges.       *)
CutsAnywhere(conversation) == DOMAIN conversation

Cuts(conversation) ==
    {1} \cup {i \in DOMAIN conversation : conversation[i].role = "user"}

Pack ==
    /\ \E i \in Cuts(messages) : request' = SubSeq(messages, i, Len(messages))
    /\ pc' = "stream"
    /\ attempt' = 1
    /\ heard' = 0
    /\ spoke' = 0

Build ==
    /\ pc \in {"build", "rebuild"}
    /\ Pack
    /\ UNCHANGED <<pipeVars, iteration, hinted, todo, messages, stored, counts,
                   compacted, expired, stop, turns, crashes, pressed, issued>>

(* The first overflow of the process compacts; any later one is an error.  *)
Overflow ==
    /\ pc = "build"
    /\ ~compacted
    /\ compacted' = TRUE
    /\ pc' = IF Len(messages) <= 2 THEN "rebuild" ELSE "compact"
    /\ UNCHANGED <<pipeVars, iteration, attempt, heard, hinted, todo, messages,
                   request, stored, counts, expired, stop, turns, crashes, pressed,
                   spoke, issued>>

OverflowError ==
    /\ \/ pc = "build" /\ compacted
       \/ pc = "rebuild"
    /\ EndTurn("context_overflow")
    /\ UNCHANGED <<pipeVars, iteration, hinted, messages, stored, counts, compacted,
                   expired, turns, crashes, pressed, issued>>

(* Mutant of Compacted: the oldest messages are kept, not the latest.      *)
CompactedOldest(m) == <<Summary>> \o SubSeq(m, 1, 2)

(* However the summarising stream ends (done, failed, cancelled), the      *)
(* history is replaced; the session file keeps the original.               *)
Compacted(m) == <<Summary>> \o SubSeq(m, Len(m) - 1, Len(m))

(* The last two messages keep the records they have.                       *)
CompactMemory ==
    /\ messages' = Compacted(messages)
    /\ saved' = <<0>> \o SubSeq(saved, Len(saved) - 1, Len(saved))
    /\ UNCHANGED <<log, faults, lost, missed>>

Compact ==
    /\ pc = "compact"
    /\ CompactMemory
    /\ pc' = "rebuild"
    /\ UNCHANGED <<pipeVars, iteration, attempt, heard, hinted, todo, request,
                   counts, compacted, expired, stop, turns, crashes, pressed,
                   spoke, issued>>

-----------------------------------------------------------------------------
(* _one_completion and _stream.                                            *)

(* A delta or a native call: nothing but a break on the cancel token looks *)
(* at the state between two of them.                                       *)
Delta ==
    /\ pc = "stream"
    /\ ~cancel \/ heard = 0
    /\ heard' = IF heard = 1 THEN 2 ELSE 1
    /\ spoke' = IF heard = 0 THEN spoke + 1 ELSE spoke
    /\ UNCHANGED <<pipeVars, pc, iteration, attempt, hinted, todo, messages, request,
                   stored, counts, compacted, expired, stop, turns, crashes, pressed,
                   issued>>

(* Mutant of Retry: one attempt too many.                                  *)
RetryOffByOne ==
    /\ pc = "stream"
    /\ heard = 0 /\ attempt <= MaxAttempts /\ ~cancel
    /\ pc' = "backoff"
    /\ UNCHANGED <<pipeVars, iteration, attempt, heard, hinted, todo, messages,
                   request, stored, counts, compacted, expired, stop, turns, crashes,
                   pressed, spoke, issued>>

(* A rate limit, a dropped connection, an error event.                     *)
Retry ==
    /\ pc = "stream"
    /\ heard = 0 /\ attempt < MaxAttempts /\ ~cancel
    /\ pc' = "backoff"
    /\ UNCHANGED <<pipeVars, iteration, attempt, heard, hinted, todo, messages,
                   request, stored, counts, compacted, expired, stop, turns, crashes,
                   pressed, spoke, issued>>

(* Authentication and unexpected errors end the turn at once, the others   *)
(* when they cannot be retried.                                            *)
ProviderFails ==
    /\ pc = "stream"
    /\ EndTurn("provider_error")
    /\ UNCHANGED <<pipeVars, iteration, hinted, messages, stored, counts, compacted,
                   expired, turns, crashes, pressed, issued>>

(* Mutant of BackoffOver: the attempt is not counted.                      *)
BackoffOverUncounted ==
    /\ pc = "backoff"
    /\ pc' = "stream"
    /\ heard' = 0
    /\ UNCHANGED <<pipeVars, iteration, attempt, hinted, todo, messages, request, stored,
                   counts, compacted, expired, stop, turns, crashes, pressed, spoke,
                   issued>>

BackoffOver ==
    /\ pc = "backoff"
    /\ pc' = "stream"
    /\ attempt' = attempt + 1
    /\ heard' = 0
    /\ UNCHANGED <<pipeVars, iteration, hinted, todo, messages, request, stored, counts,
                   compacted, expired, stop, turns, crashes, pressed, spoke, issued>>

(* The stream is over and a stop is due: the reply is thrown away.         *)
StreamStopped ==
    /\ pc = "stream"
    /\ MustStop
    /\ EndTurn(StopReason)
    /\ UNCHANGED <<pipeVars, iteration, hinted, messages, stored, counts, compacted,
                   expired, turns, crashes, pressed, issued>>

Ids(k) == [i \in 1..k |-> issued + i]

(* The stream is over: the reply is appended, then acted upon.             *)
Received(r) ==
    /\ pc = "stream"
    /\ ~MustStop
    /\ heard = 0 => r.calls = <<>> /\ ~r.malformed /\ ~r.attempted
    /\ AppendMessage(Says(Ids(Len(r.calls))))

FinalAnswer(r) ==
    /\ Received(r)
    /\ r.calls = <<>> /\ ~r.malformed /\ (r.attempted => hinted)
    /\ EndTurn("completed")
    /\ UNCHANGED <<pipeVars, iteration, hinted, counts, compacted, expired, turns,
                   crashes, pressed, issued>>

NeedsHint(r) ==
    /\ Received(r)
    /\ r.calls = <<>>
    /\ r.malformed \/ (r.attempted /\ ~hinted)
    /\ hinted' = (hinted \/ ~r.malformed)
    /\ pc' = "hint"
    /\ request' = <<>>
    /\ attempt' = 0 /\ heard' = 0 /\ spoke' = 0
    /\ UNCHANGED <<pipeVars, iteration, todo, counts, compacted, expired, stop, turns,
                   crashes, pressed, issued>>

Proposes(r) ==
    /\ Received(r)
    /\ r.calls # <<>>
    /\ todo' = [i \in DOMAIN r.calls |-> [call |-> r.calls[i], id |-> issued + i]]
    /\ issued' = issued + Len(r.calls)
    /\ pc' = "calls"
    /\ request' = <<>>
    /\ attempt' = 0 /\ heard' = 0 /\ spoke' = 0
    /\ UNCHANGED <<pipeVars, iteration, hinted, counts, compacted, expired, stop,
                   turns, crashes, pressed>>

Hint ==
    /\ pc = "hint"
    /\ AppendMessage(Note)
    /\ pc' = "head"
    /\ UNCHANGED <<pipeVars, iteration, attempt, heard, hinted, todo, request, counts,
                   compacted, expired, stop, turns, crashes, pressed, spoke, issued>>

-----------------------------------------------------------------------------
(* The calls of one message, in order, one at a time.                      *)

CallsDone ==
    /\ pc = "calls"
    /\ todo = <<>>
    /\ pc' = "head"
    /\ UNCHANGED <<pipeVars, iteration, attempt, heard, hinted, todo, messages,
                   request, stored, counts, compacted, expired, stop, turns, crashes,
                   pressed, spoke, issued>>

Counted(c) == [counts EXCEPT ![c] = IF @ < LoopLimit THEN @ + 1 ELSE @]

(* Mutant of LoopStop: a repeated call is skipped instead of ending the turn. *)
LoopStopSkips ==
    /\ pc = "calls"
    /\ todo # <<>> /\ ~MustStop
    /\ counts' = Counted(Head(todo).call)
    /\ counts'[Head(todo).call] >= LoopLimit
    /\ todo' = Tail(todo)
    /\ UNCHANGED <<pipeVars, pc, iteration, attempt, heard, hinted, messages, request,
                   stored, compacted, expired, stop, turns, crashes, pressed, spoke,
                   issued>>

(* _loop_guard: the count is kept for the session, not for the turn.       *)
LoopStop ==
    /\ pc = "calls"
    /\ todo # <<>> /\ ~MustStop
    /\ counts' = Counted(Head(todo).call)
    /\ counts'[Head(todo).call] >= LoopLimit
    /\ EndTurn("loop_detected")
    /\ UNCHANGED <<pipeVars, iteration, hinted, messages, stored, compacted, expired,
                   turns, crashes, pressed, issued>>

(* Mutant of Execute: the stop is not checked between two calls.           *)
ExecuteUnchecked ==
    /\ pc = "calls"
    /\ todo # <<>>
    /\ counts' = Counted(Head(todo).call)
    /\ counts'[Head(todo).call] < LoopLimit
    /\ LET c == Head(todo).call IN Refuse(c) \/ Admit(c) \/ AskUser(c)
    /\ pc' = "exec"
    /\ UNCHANGED <<iteration, attempt, heard, hinted, todo, messages, request, stored,
                   compacted, expired, stop, turns, crashes, pressed, spoke, issued>>

Execute ==
    /\ pc = "calls"
    /\ todo # <<>> /\ ~MustStop
    /\ counts' = Counted(Head(todo).call)
    /\ counts'[Head(todo).call] < LoopLimit
    /\ LET c == Head(todo).call IN Refuse(c) \/ Admit(c) \/ AskUser(c)
    /\ pc' = "exec"
    /\ UNCHANGED <<iteration, attempt, heard, hinted, todo, messages, request, stored,
                   compacted, expired, stop, turns, crashes, pressed, spoke, issued>>

TakeResult ==
    /\ pc = "exec"
    /\ Deliver
    /\ AppendMessage(Result(Head(todo).id))
    /\ todo' = Tail(todo)
    /\ pc' = "calls"
    /\ UNCHANGED <<iteration, attempt, heard, hinted, request, counts, compacted,
                   expired, stop, turns, crashes, pressed, spoke, issued>>

-----------------------------------------------------------------------------
(* The rest of the world.                                                  *)

(* SIGINT during a turn; nobody interrupts the approval prompt.            *)
CtrlC ==
    /\ pc # "prompt"
    /\ ~pressed
    /\ pressed' = TRUE
    /\ CancelSet
    /\ UNCHANGED <<pc, iteration, attempt, heard, hinted, todo, messages, request,
                   stored, counts, compacted, expired, stop, turns, crashes, spoke,
                   issued>>

Expire ==
    /\ pc # "prompt"
    /\ ~expired
    /\ expired' = TRUE
    /\ UNCHANGED <<pipeVars, pc, iteration, attempt, heard, hinted, todo, messages,
                   request, stored, counts, compacted, stop, turns, crashes, pressed,
                   spoke, issued>>

ToolSide ==
    /\ \/ Approval
       \/ ToolThread
       \/ \E w \in orphans : LandOrphan(w) \/ OrphanExit(w)
    /\ UNCHANGED loopVars

(* The REPL's commands, at the prompt.  /clear forgets the conversation    *)
(* and the loop counts; the session file only gains a note.  If that       *)
(* cannot be written the error ends the REPL, as Crash does.               *)
Clear ==
    /\ pc = "prompt"
    /\ messages # <<>>
    /\ messages' = <<>>
    /\ counts' = NoCounts
    /\ log' = Append(log, Note)
    /\ saved' = <<>>
    /\ UNCHANGED <<faults, lost, missed>>
    /\ UNCHANGED <<pipeVars, pc, iteration, attempt, heard, hinted, todo, request,
                   compacted, expired, stop, turns, crashes, pressed, spoke, issued>>

CompactCommand ==
    /\ pc = "prompt"
    /\ Len(messages) > 2
    /\ CompactMemory
    /\ UNCHANGED <<pipeVars, pc, iteration, attempt, heard, hinted, todo, request,
                   counts, compacted, expired, stop, turns, crashes, pressed,
                   spoke, issued>>

(* Mutant of ModeCommand: the mode may change in the middle of a turn.     *)
ModeCommandAnyTime ==
    /\ mode' \in UserModes
    /\ UNCHANGED <<approved, always, cancel, stage, cur, outcome, orphans, serial>>
    /\ UNCHANGED loopVars

ModeCommand ==
    /\ pc = "prompt"
    /\ \E m \in UserModes : SetMode(m)
    /\ UNCHANGED loopVars

(* The process dies and the session is resumed: only the file survives.    *)
Crash ==
    /\ crashes < MaxCrashes
    /\ crashes' = crashes + 1
    /\ \E m \in UserModes : Restart(m)
    /\ EndTurn("none")
    /\ messages' = log
    /\ saved' = [p \in DOMAIN log |-> p]
    /\ missed' = lost
    /\ iteration' = 0
    /\ hinted' = FALSE
    /\ expired' = FALSE
    /\ pressed' = FALSE
    /\ counts' = NoCounts
    /\ compacted' = FALSE
    /\ UNCHANGED <<log, faults, lost, turns, issued>>

-----------------------------------------------------------------------------
LoopStep ==
    \/ CheckStop \/ Exhausted \/ Iterate
    \/ Build \/ Overflow \/ OverflowError
    \/ Hint \/ CallsDone \/ LoopStop \/ Execute \/ TakeResult

StreamEnds ==
    \/ Retry \/ ProviderFails \/ StreamStopped
    \/ \E r \in Replies : FinalAnswer(r) \/ NeedsHint(r) \/ Proposes(r)

AgentNext ==
    \/ StartTurn
    \/ LoopStep
    \/ Compact
    \/ Delta
    \/ StreamEnds
    \/ BackoffOver
    \/ ToolSide
    \/ CtrlC
    \/ Expire
    \/ Clear \/ CompactCommand \/ ModeCommand
    \/ Crash

AgentSpec == AgentInit /\ [][AgentNext]_agentVars

(* The agent's own steps, the tool thread (its backstop always ends it),   *)
(* the approver and the provider all keep moving.                          *)
AgentFairness ==
    /\ WF_agentVars(LoopStep)
    /\ WF_agentVars(Compact)
    /\ WF_agentVars(BackoffOver)
    /\ WF_agentVars(ToolThread /\ UNCHANGED loopVars)
    /\ WF_agentVars(Approval /\ UNCHANGED loopVars)

FairSpec == AgentSpec /\ AgentFairness /\ WF_agentVars(StreamEnds)

-----------------------------------------------------------------------------
(* The results given after the assistant message s[i], in order: those of  *)
(* the tool messages between it and the next user or assistant message.    *)
ResultsOf(s, i) ==
    LET round == {j \in i + 1..Len(s) :
                    \A k \in i + 1..j : s[k].role = "tool" /\ s[k].id # 0}
    IN  [k \in 1..Cardinality(round) |-> s[i + k].id]

Answered(s, i) == ResultsOf(s, i) = s[i].calls

(* A result with its call before it, with only results in between; a       *)
(* compaction may keep two messages behind its summary without their call. *)
Called(s, j) ==
    \E i \in 1..(j - 1) :
        /\ \E k \in DOMAIN s[i].calls : s[i].calls[k] = s[j].id
        /\ \A l \in (i + 1)..j : s[l].id # 0

CutOff(s, j) == s[1] = Summary /\ j <= 3 /\ \A l \in 2..j : s[l].id # 0

(* The call id is answered behind the message s[i].                        *)
AnsweredAfter(s, i, id) == \E j \in (i + 1)..Len(s) : s[j].id = id

InOrder(s) ==
    \A i, j \in DOMAIN s : i < j /\ s[i].id # 0 /\ s[j].id # 0 => s[i].id < s[j].id

HaveCalls(s, gone) ==
    \A j \in DOMAIN s : s[j].id # 0 => s[j].id \in gone \/ Called(s, j) \/ CutOff(s, j)

NoneSkipped(s, gone) ==
    \A i \in DOMAIN s : \A l \in DOMAIN s[i].calls :
        AnsweredAfter(s, i, s[i].calls[l]) =>
            \A k \in 1..(l - 1) : s[i].calls[k] \in gone \/ AnsweredAfter(s, i, s[i].calls[k])

(* A conversation a provider can read, but for the calls in gone: the      *)
(* results are in the order of their calls, each comes right behind its    *)
(* call, and when a call of a message is answered, so are those before it. *)
Readable(s, gone) == InOrder(s) /\ HaveCalls(s, gone) /\ NoneSkipped(s, gone)

(* Whatever mixture of cut turns, packing, compaction, /clear, failed      *)
(* writes and crashes produced them, the session file stays readable but   *)
(* for the calls whose record could not be written, and memory and request *)
(* but for those that were already missing at the resume: a failed write   *)
(* costs the running session nothing (runtime.py, _append).                *)
ConversationsReadable ==
    /\ Readable(log, lost)
    /\ Readable(messages, missed)
    /\ Readable(request, missed)

(* Within one turn the model is only asked again once every call it made   *)
(* in that turn has its result.                                            *)
TurnAnswered ==
    pc \in {"head", "build", "compact", "rebuild", "stream", "backoff"} =>
        \A i \in DOMAIN messages :
            \/ messages[i].role # "assistant" \/ messages[i] = Summary
            \/ Answered(messages, i)
            \/ \E j \in i + 1..Len(messages) : messages[j].role = "user"

(* The messages of memory whose record is not in the session file.         *)
Unsaved == {i \in DOMAIN messages : saved[i] = 0 /\ ~(i = 1 /\ messages[1] = Summary)}

(* "Everything is persisted as it happens" (runtime.py): what memory holds *)
(* beyond a summary, in order and without a gap, is the end of the session *)
(* file, but for at most one message for every write that failed; after    *)
(* any number of crashes, /clear and /compact.                             *)
MemoryIsPersisted ==
    /\ \A i \in DOMAIN messages :
          saved[i] # 0 => saved[i] \in DOMAIN log /\ log[saved[i]] = messages[i]
    /\ \A i, j \in DOMAIN messages :
          i < j /\ saved[i] # 0 /\ saved[j] # 0 => saved[i] < saved[j]
    /\ \A i \in DOMAIN messages : saved[i] # 0 =>
          \A p \in saved[i]..Len(log) : \E k \in DOMAIN messages : saved[k] = p
    /\ Cardinality(Unsaved) <= faults

(* A call that was executed has its result in the session file, except the *)
(* one in the pipeline and at most one for every crash and for every write *)
(* that failed; none has two.                                              *)
AtMostOneResultLost ==
    LET results == {j \in DOMAIN log : log[j].id # 0} IN
    /\ serial <= Cardinality(results) + crashes + faults + (IF stage = "idle" THEN 0 ELSE 1)
    /\ \A i, j \in results : log[i].id = log[j].id => i = j

(* The session file keeps up with the memory and with the tools, over any  *)
(* cut, /clear, /compact, failed write and crash (agent/runtime.py).       *)
FileKeepsUp ==
    /\ MemoryIsPersisted
    /\ AtMostOneResultLost

(* Only an attempt that gave no output is retried: what the user saw       *)
(* stream by came from one attempt.                                        *)
OneVoice == spoke <= 1

(* A turn that was cancelled or ran out of time is never reported as       *)
(* completed, and a completed one ends on an answer without calls.         *)
CompletedMeansAnswered ==
    (pc = "prompt" /\ stop = "completed") =>
        /\ ~pressed /\ ~expired
        /\ messages # <<>> => Last(messages) = Summary

(* What a turn tells of itself is so: to the model, which is asked again   *)
(* only with every result; to the user, who sees the output of one         *)
(* attempt; and in its stop reason (agent/runtime.py).                     *)
TurnsAreTruthful ==
    /\ TurnAnswered
    /\ OneVoice
    /\ CompletedMeansAnswered

(* Once the user has pressed Ctrl+C, the rest of the turn hands no further *)
(* call to the pipeline.                                                   *)
NothingStartsAfterCtrlC == [][pressed => serial' = serial]_agentVars

(* The composition implements the tool pipeline.                           *)
ImplementsPipeline == PipeSpec

(* "Every exit is bounded" (runtime.py): every turn comes back to the      *)
(* prompt.                                                                 *)
TurnEnds == pc # "prompt" ~> pc = "prompt"

-----------------------------------------------------------------------------
(* What the repository says and the code does not do.                      *)

(* context.py, _keep_floor: a dangling call is something "some backends    *)
(* reject"; no request has an assistant call without its result.           *)
NoDanglingCall ==
    \A i \in DOMAIN request :
        request[i].role = "assistant" /\ request[i].calls # <<>> => Answered(request, i)
=============================================================================
