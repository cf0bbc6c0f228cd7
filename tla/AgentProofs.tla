------------------------------ MODULE AgentProofs ------------------------------
(***************************************************************************)
(* The theorems of a turn of the agent: of its loop (AgentRuntime), for    *)
(* every tool, reply and mode, every limit and any number of turns and of  *)
(* deaths; and of the pipeline of its tools (ToolRuntime), for every set   *)
(* of tools, calls and paths, every approver and every interleaving of     *)
(* turns, abandoned threads, Ctrl+C, mode changes and restarts.            *)
(***************************************************************************)
EXTENDS AgentRuntime, ToolRuntime, SequenceTheorems, FiniteSetTheorems, TLAPS

-------------------------------------------------------------------------------
(* The loop.                                                               *)

(* The messages there are.                                                 *)
Kinds == {User} \cup {Says(ids) : ids \in Seq(Nat)} \cup {Result(id) : id \in Nat}

(* A call to execute.                                                      *)
Task == [call : Calls, id : Nat \ {0}]

Asking == {"head", "build", "compact", "rebuild", "stream", "backoff"}

(* Where the loop is, and its counters.  Ctrl+C stays pressed until the    *)
(* next turn, or the next process; an attempt is only retried before its   *)
(* first output.                                                           *)
CountersInv ==
    /\ pc \in Asking \cup {"prompt", "hint", "calls", "exec"}
    /\ iteration \in 0..MaxIterations
    /\ attempt \in 0..MaxAttempts
    /\ heard \in 0..2
    /\ counts \in [Calls -> 0..LoopLimit]
    /\ stop \in Stops
    /\ turns \in 0..MaxTurns
    /\ crashes \in 0..MaxCrashes
    /\ hinted \in BOOLEAN /\ compacted \in BOOLEAN
    /\ expired \in BOOLEAN /\ pressed \in BOOLEAN
    /\ issued \in Nat
    /\ pc = "backoff" => attempt < MaxAttempts
    /\ spoke \in 0..1
    /\ pc = "stream" /\ heard = 0 => spoke = 0
    /\ pc = "backoff" => spoke = 0
    /\ pressed => cancel

(* What it holds there.                                                    *)
TalkInv ==
    /\ messages \in Seq(Kinds) /\ log \in Seq(Kinds) /\ request \in Seq(Kinds)
    /\ todo \in Seq(Task)
    /\ todo # <<>> => pc \in {"calls", "exec"}
    /\ pc = "exec" => todo # <<>>
    /\ stage # "idle" => pc = "exec"
    /\ pc = "compact" => Len(messages) > 2

(* What is remembered of the writes to the file.                           *)
WritesInv ==
    /\ saved \in Seq(Nat) /\ Len(saved) = Len(messages)
    /\ lost \subseteq Nat /\ missed \subseteq Nat
    /\ faults \in 0..MaxFaults

LoopInv == PipeTypeOK /\ CountersInv /\ TalkInv /\ WritesInv

(* A turn that completed was neither stopped nor out of time, and what the *)
(* memory has ends with a message without calls.                           *)
AnswerInv ==
    pc = "prompt" /\ stop = "completed" =>
        /\ ~pressed /\ ~expired
        /\ messages # <<>> => Last(messages) = Summary

-----------------------------------------------------------------------------
(* Conversations.  Every call and result has a number that was given out.  *)
Numbered(s, n) ==
    \A i \in DOMAIN s : s[i].id <= n /\ \A k \in DOMAIN s[i].calls : s[i].calls[k] \in 1..n

Increasing(tasks, n) ==
    /\ \A t \in DOMAIN tasks : tasks[t].id <= n
    /\ \A t, u \in DOMAIN tasks : t < u => tasks[t].id < tasks[u].id

(* What a conversation still waits for: the next result is newer than      *)
(* every other, comes right behind its call, and every call before it in   *)
(* the same message is answered or comes earlier among the tasks.          *)
Newest(s, id) == \A i \in DOMAIN s : s[i].id < id

CallsFor(s, id) ==
    \E i \in DOMAIN s :
        /\ \E k \in DOMAIN s[i].calls : s[i].calls[k] = id
        /\ \A l \in (i + 1)..Len(s) : s[l].id # 0

NextIn(s, gone, tasks, t) ==
    \A i \in DOMAIN s : \A l \in DOMAIN s[i].calls : s[i].calls[l] = tasks[t].id =>
        \A k \in 1..(l - 1) :
            \/ s[i].calls[k] \in gone \/ AnsweredAfter(s, i, s[i].calls[k])
            \/ \E u \in 1..(t - 1) : tasks[u].id = s[i].calls[k]

Awaits(s, gone, tasks) ==
    \A t \in DOMAIN tasks :
        /\ Newest(s, tasks[t].id)
        /\ tasks[t].id \in gone \/ CallsFor(s, tasks[t].id)
        /\ NextIn(s, gone, tasks, t)

(* A conversation as it stands, with what it waits for.                    *)
Sound(s, gone, tasks) == Readable(s, gone) /\ Numbered(s, issued) /\ Awaits(s, gone, tasks)

ReadInv ==
    /\ Sound(messages, missed, todo)
    /\ Sound(log, lost, todo)
    /\ Readable(request, missed)
    /\ Increasing(todo, issued)

-----------------------------------------------------------------------------
(* Rounds.  The results after the message s[i] are those of its first n    *)
(* calls, and no more.                                                     *)
Round(s, i, n) ==
    /\ i + n <= Len(s) /\ n <= Len(s[i].calls)
    /\ \A k \in 1..n : s[i].calls[k] # 0 /\ s[i + k] = Result(s[i].calls[k])
    /\ i + n < Len(s) => s[i + n + 1].id = 0

(* The message whose calls are being executed: what has its result follows *)
(* it, what has not is still to do.                                        *)
OpenRound(s, i, tasks) ==
    /\ i \in DOMAIN s
    /\ s[i].role = "assistant"
    /\ Len(s[i].calls) = Len(s) - i + Len(tasks)
    /\ \A k \in 1..(Len(s) - i) : s[i].calls[k] # 0 /\ s[i + k] = Result(s[i].calls[k])
    /\ \A k \in 1..Len(tasks) : s[i].calls[Len(s) - i + k] = tasks[k].id

Working == pc \in {"calls", "exec"}

(* Every message of the turn but the one in hand has all its results.      *)
Settled(s, i) ==
    \/ s[i].role # "assistant" \/ s[i] = Summary
    \/ Round(s, i, Len(s[i].calls))
    \/ \E j \in i + 1..Len(s) : s[j].role = "user"

SettledInv ==
    /\ pc \in Asking \cup {"hint"} => \A i \in DOMAIN messages : Settled(messages, i)
    /\ Working => \E i \in DOMAIN messages : OpenRound(messages, i, todo)
    /\ Working => \A i \in DOMAIN messages : Settled(messages, i) \/ OpenRound(messages, i, todo)

-----------------------------------------------------------------------------
(* The file, the memory and the tools.                                     *)

ResultsIn(s) == {j \in DOMAIN s : s[j].id # 0}

(* A call the pipeline took has its result, is in the pipeline, died, or   *)
(* its result could not be written.                                        *)
CountInv ==
    serial <= Cardinality(ResultsIn(log)) + crashes + faults + (IF stage = "idle" THEN 0 ELSE 1)

FileInv == MemoryIsPersisted /\ CountInv

(* What every step keeps.                                                  *)
AgentInv == LoopInv /\ AnswerInv /\ ReadInv /\ SettledInv /\ FileInv

-----------------------------------------------------------------------------
(* The loop drives the pipeline as the pipeline allows.                    *)

LEMMA PipeTypedStep == PipeTypeOK /\ [PipeNext]_pipeVars => PipeTypeOK'
<1> SUFFICES ASSUME PipeTypeOK, [PipeNext]_pipeVars
             PROVE  PipeTypeOK'
    OBVIOUS
<1>w. \A w \in Worker : Landed(w) \in Worker
    BY DEF Landed, Worker
<1>1. ASSUME NEW c \in Calls, Refuse(c) \/ Admit(c) \/ AskUser(c)
      PROVE  PipeTypeOK'
    <2>1. serial' \in Nat /\ cur' \in Worker
        <3>1. serial' = serial + 1 /\ serial \in Nat /\ mode \in Modes
              /\ cur' = [call |-> c, n |-> serial + 1, mode |-> mode, landed |-> FALSE]
            BY <1>1 DEF Refuse, Admit, AskUser, Enter, PipeTypeOK
        <3>2. serial + 1 \in Nat \ {0}
            BY <3>1
        <3> QED
            BY <3>1, <3>2 DEF Worker
    <2>2. outcome' \in Codes /\ stage' \in {"approval", "running", "done"}
        BY <1>1 DEF Refuse, Admit, AskUser, PipeTypeOK, Codes
    <2>3. UNCHANGED <<mode, approved, always, cancel, orphans>>
        BY <1>1 DEF Refuse, Admit, AskUser
    <2> QED
        BY <2>1, <2>2, <2>3 DEF PipeTypeOK
<1>2. CASE Approval
    <2>1. stage = "approval" /\ cur \in Worker /\ cur.call \in Calls
        BY <1>2 DEF Approval, Answer, ApproveUnasked, Reject, Yes, PipeTypeOK, Worker
    <2>2. Attr[cur.call].tool \in ToolNames /\ Attr[cur.call].key \in Paths \cup {NoPath}
        BY <2>1, GuardAssumption DEF CallAttr
    <2>3. CASE Reject
        BY <2>1, <2>3 DEF Reject, Finish, PipeTypeOK, Codes
    <2>4. CASE Yes /\ (always' = always \/ always' = always \cup {Attr[cur.call].tool})
        BY <2>1, <2>2, <2>4 DEF Yes, PipeTypeOK
    <2> QED
        BY <1>2, <2>3, <2>4 DEF Approval, Answer, ApproveUnasked
<1>3. CASE ToolThread
    BY <1>3, <1>w
       DEF ToolThread, LandActive, ToolReturns, ToolRaises, ToolCancelled, Backstop, Finish,
           PipeTypeOK, Codes
<1>4. ASSUME NEW w \in orphans, LandOrphan(w) \/ OrphanExit(w)
      PROVE  PipeTypeOK'
    BY <1>4, <1>w DEF LandOrphan, OrphanExit, PipeTypeOK
<1>5. CASE Deliver
    BY <1>5 DEF Deliver, PipeTypeOK, Codes
<1>6. CASE CancelSet \/ CancelReset
    BY <1>6 DEF CancelSet, CancelReset, PipeTypeOK
<1>7. ASSUME NEW m \in Modes, SetMode(m) \/ Restart(m)
      PROVE  PipeTypeOK'
    BY <1>7 DEF SetMode, Restart, PipeTypeOK, Codes
<1>8. CASE UNCHANGED pipeVars
    BY <1>8 DEF pipeVars, PipeTypeOK
<1> QED
    BY <1>1, <1>2, <1>3, <1>4, <1>5, <1>6, <1>7, <1>8 DEF PipeNext

(* The call the loop executes is one of the model's.                       *)
LEMMA HeadCall ==
    ASSUME AgentTypeOK, todo # <<>>
    PROVE  Head(todo).call \in Calls /\ Head(todo).id \in Nat \ {0}
<1>1. todo \in Seq(Task)
    BY DEF AgentTypeOK, Task
<1>2. Head(todo) \in Task
    BY <1>1
<1> QED
    BY <1>2 DEF Task

LEMMA LoopStepOnPipe ==
    ASSUME AgentTypeOK, LoopStep
    PROVE  [PipeNext]_pipeVars
<1>1. CASE Execute
    <2>1. PICK c \in Calls : Refuse(c) \/ Admit(c) \/ AskUser(c)
        BY <1>1, HeadCall DEF Execute
    <2> QED
        BY <2>1 DEF PipeNext
<1>2. CASE TakeResult
    BY <1>2 DEF TakeResult, PipeNext
<1>3. CASE ~Execute /\ ~TakeResult
    BY <1>3 DEF LoopStep, CheckStop, Exhausted, Iterate, Build, Overflow, OverflowError, Hint,
                CallsDone, LoopStop
<1> QED
    BY <1>1, <1>2, <1>3

LEMMA StreamEndsOffPipe ==
    ASSUME StreamEnds
    PROVE  UNCHANGED pipeVars
BY DEF StreamEnds, Retry, ProviderFails, StreamStopped, FinalAnswer, NeedsHint, Proposes

LEMMA PipeStep == AgentTypeOK /\ [AgentNext]_agentVars => [PipeNext]_pipeVars
<1> SUFFICES ASSUME AgentTypeOK, [AgentNext]_agentVars
             PROVE  [PipeNext]_pipeVars
    OBVIOUS
<1>1. CASE StartTurn
    BY <1>1 DEF StartTurn, PipeNext
<1>2. CASE LoopStep
    BY <1>2, LoopStepOnPipe
<1>3. CASE StreamEnds
    BY <1>3, StreamEndsOffPipe
<1>4. CASE Compact \/ Delta \/ BackoffOver \/ Expire \/ Clear \/ CompactCommand
    BY <1>4 DEF Compact, Delta, BackoffOver, Expire, Clear, CompactCommand
<1>5. CASE ToolSide
    BY <1>5 DEF ToolSide, PipeNext
<1>6. CASE CtrlC
    BY <1>6 DEF CtrlC, PipeNext
<1>7. CASE ModeCommand
    BY <1>7, AgentAssumption DEF ModeCommand, PipeNext
<1>8. CASE Crash
    BY <1>8, AgentAssumption DEF Crash, PipeNext
<1>9. CASE UNCHANGED agentVars
    BY <1>9 DEF agentVars
<1> QED
    BY <1>1, <1>2, <1>3, <1>4, <1>5, <1>6, <1>7, <1>8, <1>9 DEF AgentNext

-----------------------------------------------------------------------------
(* Messages.                                                               *)

LEMMA KindsAreMessages == Kinds \subseteq Message /\ Seq(Kinds) \subseteq Seq(Message)
<1>1. ASSUME NEW m \in Kinds
      PROVE  m \in Message
    <2>1. <<>> \in Seq(Nat)
        OBVIOUS
    <2>2. CASE m = User
        BY <2>1, <2>2 DEF User, Message
    <2>3. CASE \E ids \in Seq(Nat) : m = Says(ids)
        BY <2>3 DEF Says, Message
    <2>4. CASE \E id \in Nat : m = Result(id)
        BY <2>1, <2>4 DEF Result, Message
    <2> QED
        BY <1>1, <2>2, <2>3, <2>4 DEF Kinds
<1> QED
    BY <1>1

(* The three kinds of message, told apart by their fields.                 *)
LEMMA KindFields ==
    /\ User \in Kinds /\ Summary \in Kinds /\ Note \in Kinds
    /\ \A ids \in Seq(Nat) : Says(ids) \in Kinds
    /\ \A id \in Nat : Result(id) \in Kinds
    /\ User.role = "user" /\ User.calls = <<>> /\ User.id = 0
    /\ Summary.role = "assistant" /\ Summary.calls = <<>> /\ Summary.id = 0
    /\ Note.role = "tool" /\ Note.calls = <<>> /\ Note.id = 0
    /\ \A ids : Says(ids).role = "assistant" /\ Says(ids).calls = ids /\ Says(ids).id = 0
    /\ \A id : Result(id).role = "tool" /\ Result(id).calls = <<>> /\ Result(id).id = id
<1>1. <<>> \in Seq(Nat)
    OBVIOUS
<1> QED
    BY <1>1 DEF Kinds, User, Summary, Says, Note, Result

LEMMA KindOfMessage ==
    ASSUME NEW m \in Kinds
    PROVE  /\ m.calls \in Seq(Nat) /\ m.id \in Nat
           /\ m.role \in {"user", "assistant", "tool"}
           /\ m.role # "tool" => m.id = 0
           /\ m.role # "assistant" => m.calls = <<>>
           /\ m.role = "assistant" => m = Says(m.calls)
           /\ m.role = "tool" => m = Result(m.id)
<1>0. <<>> \in Seq(Nat)
    OBVIOUS
<1>1. CASE m = User
    BY <1>0, <1>1 DEF User
<1>2. ASSUME NEW ids \in Seq(Nat), m = Says(ids)
      PROVE  /\ m.calls \in Seq(Nat) /\ m.id \in Nat /\ m.role = "assistant" /\ m.id = 0
             /\ m = Says(m.calls)
    BY <1>2 DEF Says
<1>3. ASSUME NEW id \in Nat, m = Result(id)
      PROVE  /\ m.calls = <<>> /\ m.id \in Nat /\ m.role = "tool" /\ m = Result(m.id)
    BY <1>3 DEF Result
<1> QED
    BY <1>0, <1>1, <1>2, <1>3 DEF Kinds
-----------------------------------------------------------------------------
(* Where the loop is, and its counters.                                    *)

LEMMA ReplyFields ==
    ASSUME NEW r \in Replies
    PROVE  r.calls \in Seq(Calls) /\ Len(r.calls) \in Nat
           /\ r.malformed \in BOOLEAN /\ r.attempted \in BOOLEAN
<1>1. r \in Reply
    BY AgentAssumption
<1> QED
    BY <1>1 DEF Reply

LEMMA EndTurnCounts ==
    ASSUME CountersInv, NEW reason \in Stops, EndTurn(reason),
           UNCHANGED <<iteration, hinted, counts, compacted, expired, turns, crashes, pressed,
                       issued, cancel>>
    PROVE  CountersInv'
BY AgentAssumption DEF CountersInv, EndTurn

LEMMA CountedTyped ==
    ASSUME counts \in [Calls -> 0..LoopLimit], NEW c \in Calls
    PROVE  Counted(c) \in [Calls -> 0..LoopLimit]
<1>1. counts[c] \in 0..LoopLimit
    OBVIOUS
<1>2. (IF counts[c] < LoopLimit THEN counts[c] + 1 ELSE counts[c]) \in 0..LoopLimit
    BY <1>1, AgentAssumption
<1> QED
    BY <1>2 DEF Counted

LEMMA StopReasonIsStop == StopReason \in Stops
BY DEF StopReason, Stops

LEMMA LoopStepCounts ==
    ASSUME CountersInv, TalkInv, LoopStep
    PROVE  CountersInv'
<1> USE AgentAssumption
<1>c. \A c : Refuse(c) \/ Admit(c) \/ AskUser(c) => cancel' = cancel
    BY DEF Refuse, Admit, AskUser
<1>1. CASE CheckStop
    BY <1>1, EndTurnCounts, StopReasonIsStop DEF CheckStop, pipeVars
<1>2. CASE Exhausted
    BY <1>2, EndTurnCounts DEF Exhausted, pipeVars, Stops
<1>3. CASE Iterate
    BY <1>3 DEF Iterate, CountersInv, pipeVars, Asking
<1>4. CASE Build
    BY <1>4 DEF Build, Pack, CountersInv, pipeVars, Asking
<1>5. CASE Overflow
    BY <1>5 DEF Overflow, CountersInv, pipeVars, Asking
<1>6. CASE OverflowError
    BY <1>6, EndTurnCounts DEF OverflowError, pipeVars, Stops
<1>7. CASE Hint
    BY <1>7 DEF Hint, CountersInv, pipeVars, Asking
<1>8. CASE CallsDone
    BY <1>8 DEF CallsDone, CountersInv, pipeVars, Asking
<1>h. todo # <<>> => Counted(Head(todo).call) \in [Calls -> 0..LoopLimit]
    <2>1. todo # <<>> => Head(todo) \in Task
        BY DEF TalkInv
    <2>2. todo # <<>> => Head(todo).call \in Calls
        BY <2>1 DEF Task
    <2> QED
        BY <2>2, CountedTyped DEF CountersInv
<1>9. CASE LoopStop
    BY <1>9, <1>h DEF LoopStop, EndTurn, CountersInv, pipeVars, Stops
<1>10. CASE Execute
    BY <1>10, <1>h, <1>c DEF Execute, CountersInv
<1>11. CASE TakeResult
    BY <1>11 DEF TakeResult, Deliver, CountersInv
<1> QED
    BY <1>1, <1>2, <1>3, <1>4, <1>5, <1>6, <1>7, <1>8, <1>9, <1>10, <1>11 DEF LoopStep

LEMMA StreamEndsCounts ==
    ASSUME CountersInv, StreamEnds
    PROVE  CountersInv'
<1> USE AgentAssumption
<1>1. CASE Retry
    BY <1>1 DEF Retry, CountersInv, pipeVars, Asking
<1>2. CASE ProviderFails
    BY <1>2, EndTurnCounts DEF ProviderFails, pipeVars, Stops
<1>3. CASE StreamStopped
    BY <1>3, EndTurnCounts, StopReasonIsStop DEF StreamStopped, pipeVars
<1>4. ASSUME NEW r \in Replies, FinalAnswer(r)
      PROVE  CountersInv'
    BY <1>4, EndTurnCounts DEF FinalAnswer, pipeVars, Stops
<1>5. ASSUME NEW r \in Replies, NeedsHint(r)
      PROVE  CountersInv'
    BY <1>5 DEF NeedsHint, CountersInv, pipeVars
<1>6. ASSUME NEW r \in Replies, Proposes(r)
      PROVE  CountersInv'
    <2>1. issued' \in Nat
        BY <1>6, ReplyFields DEF Proposes, CountersInv
    <2> QED
        BY <1>6, <2>1 DEF Proposes, CountersInv, pipeVars
<1> QED
    BY <1>1, <1>2, <1>3, <1>4, <1>5, <1>6 DEF StreamEnds

LEMMA CountersStep ==
    ASSUME CountersInv, TalkInv, [AgentNext]_agentVars
    PROVE  CountersInv'
<1> USE AgentAssumption
<1>1. CASE StartTurn
    <2>1. turns' \in 0..MaxTurns
        BY <1>1 DEF StartTurn, CountersInv
    <2>2. pc' = "head" /\ iteration' = 0 /\ stop' = "none" /\ pressed' = FALSE
          /\ hinted' = FALSE /\ expired' = FALSE
          /\ UNCHANGED <<attempt, heard, counts, compacted, crashes, spoke, issued>>
        BY <1>1 DEF StartTurn
    <2>3. iteration' \in 0..MaxIterations /\ pc' \in Asking /\ stop' \in Stops
        BY <2>2 DEF Asking, Stops
    <2>4. hinted' \in BOOLEAN /\ expired' \in BOOLEAN /\ pressed' \in BOOLEAN
        BY <2>2
    <2>5. pc' # "backoff" /\ pc' # "stream" /\ ~pressed'
        BY <2>2
    <2> QED
        BY <2>1, <2>2, <2>3, <2>4, <2>5 DEF CountersInv
<1>2. CASE LoopStep
    BY <1>2, LoopStepCounts
<1>3. CASE StreamEnds
    BY <1>3, StreamEndsCounts
<1>4. CASE Compact
    BY <1>4 DEF Compact, CountersInv, pipeVars, Asking
<1>5. CASE Delta
    BY <1>5 DEF Delta, CountersInv, pipeVars
<1>6. CASE BackoffOver
    BY <1>6 DEF BackoffOver, CountersInv, pipeVars, Asking
<1>7. CASE ToolSide
    <2>1. cancel' \in {cancel, TRUE}
        BY <1>7
           DEF ToolSide, Approval, Answer, ApproveUnasked, Yes, Reject, ToolThread, LandActive,
               ToolReturns, ToolRaises, ToolCancelled, Backstop, LandOrphan, OrphanExit
    <2> QED
        BY <1>7, <2>1 DEF ToolSide, loopVars, CountersInv
<1>8. CASE CtrlC
    BY <1>8 DEF CtrlC, CancelSet, CountersInv
<1>9. CASE Expire
    BY <1>9 DEF Expire, CountersInv, pipeVars
<1>10. CASE Clear
    <2>1. NoCounts \in [Calls -> 0..LoopLimit]
        BY DEF NoCounts
    <2> QED
        BY <1>10, <2>1 DEF Clear, CountersInv, pipeVars
<1>11. CASE CompactCommand
    BY <1>11 DEF CompactCommand, CountersInv, pipeVars
<1>12. CASE ModeCommand
    BY <1>12 DEF ModeCommand, SetMode, loopVars, CountersInv
<1>13. CASE Crash
    <2>1. NoCounts \in [Calls -> 0..LoopLimit]
        BY DEF NoCounts
    <2> QED
        <3>1. crashes' \in 0..MaxCrashes
            BY <1>13 DEF Crash, CountersInv
        <3>2. pc' = "prompt" /\ iteration' = 0 /\ stop' = "none" /\ pressed' = FALSE
              /\ hinted' = FALSE /\ expired' = FALSE /\ compacted' = FALSE
              /\ counts' = NoCounts /\ attempt' = 0 /\ heard' = 0 /\ spoke' = 0
              /\ UNCHANGED <<turns, issued>>
            BY <1>13 DEF Crash, EndTurn
        <3>3. iteration' \in 0..MaxIterations /\ attempt' \in 0..MaxAttempts /\ heard' \in 0..2
              /\ spoke' \in 0..1 /\ stop' \in Stops /\ counts' \in [Calls -> 0..LoopLimit]
            BY <2>1, <3>2 DEF Stops
        <3>4. hinted' \in BOOLEAN /\ expired' \in BOOLEAN /\ pressed' \in BOOLEAN
              /\ compacted' \in BOOLEAN
            BY <3>2
        <3>5. pc' = "prompt" /\ ~pressed'
            BY <3>2
        <3> QED
            BY <3>1, <3>2, <3>3, <3>4, <3>5 DEF CountersInv
<1>14. CASE UNCHANGED agentVars
    BY <1>14 DEF agentVars, pipeVars, loopVars, CountersInv
<1> QED
    BY <1>1, <1>2, <1>3, <1>4, <1>5, <1>6, <1>7, <1>8, <1>9, <1>10, <1>11, <1>12, <1>13, <1>14
       DEF AgentNext
-----------------------------------------------------------------------------
(* The conversation, the file and the request.                             *)

LEMMA SuffixShape ==
    ASSUME NEW S, NEW s \in Seq(S), NEW i \in 1..(Len(s) + 1)
    PROVE  LET t == SubSeq(s, i, Len(s)) IN
              /\ t \in Seq(S)
              /\ Len(t) = Len(s) - i + 1
              /\ \A k \in 1..Len(t) : t[k] = s[i + k - 1]
<1> DEFINE n == Len(s)
           t == SubSeq(s, i, n)
<1>1. n \in Nat /\ i \in Nat /\ i >= 1 /\ i <= n + 1 /\ \A k \in i..n : s[k] \in S
    OBVIOUS
<1> HIDE DEF n
<1>2. /\ t \in Seq(S)
      /\ Len(t) = IF i <= n THEN n - i + 1 ELSE 0
      /\ \A k \in 1..(n - i + 1) : t[k] = s[i + k - 1]
    BY ONLY <1>1, SubSeqProperties
<1>3. Len(t) = n - i + 1
    BY ONLY <1>1, <1>2
<1> QED
    BY ONLY <1>2, <1>3 DEF n

LEMMA CompactedShape ==
    ASSUME NEW s \in Seq(Kinds), Len(s) > 2
    PROVE  /\ Compacted(s) \in Seq(Kinds) /\ Len(Compacted(s)) = 3
           /\ Compacted(s)[1] = Summary
           /\ Compacted(s)[2] = s[Len(s) - 1]
           /\ Compacted(s)[3] = s[Len(s)]
<1> DEFINE i == Len(s) - 1
           t == SubSeq(s, i, Len(s))
<1>1. i \in 1..(Len(s) + 1) /\ Len(s) \in Nat /\ i = Len(s) - 1 /\ i + 1 = Len(s)
    OBVIOUS
<1> HIDE DEF i
<1>2. t \in Seq(Kinds) /\ Len(t) = Len(s) - i + 1 /\ \A k \in 1..Len(t) : t[k] = s[i + k - 1]
    BY <1>1, SuffixShape
<1> HIDE DEF t
<1>3. Len(t) = 2 /\ t[1] = s[i] /\ t[2] = s[Len(s)]
    BY <1>1, <1>2
<1>4. <<Summary>> \in Seq(Kinds) /\ Len(<<Summary>>) = 1 /\ <<Summary>>[1] = Summary
    BY KindFields
<1>5. Compacted(s) = <<Summary>> \o t
    BY DEF Compacted, t, i
<1>6. /\ <<Summary>> \o t \in Seq(Kinds)
      /\ Len(<<Summary>> \o t) = Len(<<Summary>>) + Len(t)
      /\ \A k \in 1..(Len(<<Summary>>) + Len(t)) : (<<Summary>> \o t)[k] =
            IF k <= Len(<<Summary>>) THEN <<Summary>>[k] ELSE t[k - Len(<<Summary>>)]
    BY <1>2, <1>4, ConcatProperties
<1>7. /\ <<Summary>> \o t \in Seq(Kinds) /\ Len(<<Summary>> \o t) = 3
      /\ (<<Summary>> \o t)[1] = Summary
      /\ (<<Summary>> \o t)[2] = t[1] /\ (<<Summary>> \o t)[3] = t[2]
    BY <1>3, <1>4, <1>6
<1> QED
    BY <1>3, <1>5, <1>7 DEF i

LEMMA AppendShape ==
    ASSUME NEW s \in Seq(Kinds), NEW m \in Kinds
    PROVE  /\ Append(s, m) \in Seq(Kinds) /\ Len(Append(s, m)) = Len(s) + 1
           /\ Append(s, m) # <<>>
           /\ Append(s, m)[Len(s) + 1] = m
           /\ \A k \in 1..Len(s) : Append(s, m)[k] = s[k]
BY AppendProperties

LEMMA IdsTyped ==
    ASSUME issued \in Nat, NEW k \in Nat
    PROVE  Ids(k) \in Seq(Nat) /\ Len(Ids(k)) = k /\ \A i \in 1..k : Ids(k)[i] = issued + i
BY DEF Ids

LEMMA HeadTask ==
    ASSUME TalkInv, todo # <<>>
    PROVE  /\ Head(todo) = todo[1] /\ Head(todo).call \in Calls /\ Head(todo).id \in Nat \ {0}
           /\ Tail(todo) \in Seq(Task) /\ Len(Tail(todo)) = Len(todo) - 1
           /\ \A k \in 1..(Len(todo) - 1) : Tail(todo)[k] = todo[k + 1]
<1>1. todo \in Seq(Task)
    BY DEF TalkInv
<1>2. Head(todo) = todo[1] /\ Head(todo) \in Task
    BY <1>1
<1>3. Tail(todo) \in Seq(Task) /\ Len(Tail(todo)) = Len(todo) - 1
      /\ \A k \in 1..(Len(todo) - 1) : Tail(todo)[k] = todo[k + 1]
    BY <1>1
<1> QED
    BY <1>2, <1>3 DEF Task

LEMMA TodoOfReply ==
    ASSUME issued \in Nat, NEW r \in Replies
    PROVE  LET t == [i \in DOMAIN r.calls |-> [call |-> r.calls[i], id |-> issued + i]] IN
              /\ t \in Seq(Task) /\ Len(t) = Len(r.calls) /\ DOMAIN t = 1..Len(r.calls)
              /\ \A i \in 1..Len(r.calls) : t[i].id = issued + i
<1>1. r.calls \in Seq(Calls) /\ Len(r.calls) \in Nat /\ DOMAIN r.calls = 1..Len(r.calls)
    BY ReplyFields
<1>2. \A i \in 1..Len(r.calls) : [call |-> r.calls[i], id |-> issued + i] \in Task
    BY <1>1 DEF Task
<1> DEFINE t == [i \in DOMAIN r.calls |-> [call |-> r.calls[i], id |-> issued + i]]
<1>3. t \in [1..Len(r.calls) -> Task]
    BY <1>1, <1>2
<1>4. t \in Seq(Task)
    BY <1>1, <1>3
<1> QED
    BY <1>1, <1>4

LEMMA EndTurnTalks ==
    ASSUME TalkInv, NEW reason, EndTurn(reason), stage' # "idle" => stage # "idle",
           pc # "exec", UNCHANGED <<messages, log>>
    PROVE  TalkInv'
<1>1. <<>> \in Seq(Kinds) /\ <<>> \in Seq(Task)
    OBVIOUS
<1> QED
    BY <1>1 DEF TalkInv, EndTurn

LEMMA AppendTalks ==
    ASSUME TalkInv, NEW m \in Kinds, AppendMessage(m)
    PROVE  messages' \in Seq(Kinds) /\ log' \in Seq(Kinds)
BY AppendShape DEF TalkInv, AppendMessage, Written, NotWritten

LEMMA LoopStepTalks ==
    ASSUME CountersInv, TalkInv, LoopStep
    PROVE  TalkInv'
<1>1. CASE CheckStop
    BY <1>1, EndTurnTalks DEF CheckStop, stored, pipeVars
<1>2. CASE Exhausted
    BY <1>2, EndTurnTalks DEF Exhausted, stored, pipeVars
<1>3. CASE Iterate
    BY <1>3 DEF Iterate, TalkInv, stored, pipeVars
<1>4. CASE Build
    <2>1. PICK i \in Cuts(messages) : request' = SubSeq(messages, i, Len(messages))
        BY <1>4 DEF Build, Pack
    <2>2. messages \in Seq(Kinds) /\ i \in 1..(Len(messages) + 1)
        BY <2>1 DEF TalkInv, Cuts
    <2>3. request' \in Seq(Kinds)
        BY <2>1, <2>2, SuffixShape
    <2> QED
        BY <1>4, <2>3 DEF Build, Pack, TalkInv, stored, pipeVars
<1>5. CASE Overflow
    BY <1>5 DEF Overflow, TalkInv, stored, pipeVars
<1>6. CASE OverflowError
    BY <1>6, EndTurnTalks DEF OverflowError, stored, pipeVars
<1>7. CASE Hint
    <2>1. messages' \in Seq(Kinds) /\ log' \in Seq(Kinds)
        BY <1>7, AppendTalks, KindFields DEF Hint
    <2> QED
        BY <1>7, <2>1 DEF Hint, TalkInv, stored, pipeVars
<1>8. CASE CallsDone
    BY <1>8 DEF CallsDone, TalkInv, stored, pipeVars
<1>9. CASE LoopStop
    BY <1>9, EndTurnTalks DEF LoopStop, stored, pipeVars
<1>10. CASE Execute
    BY <1>10 DEF Execute, TalkInv, stored
<1>11. CASE TakeResult
    <2>1. todo # <<>> /\ pc = "exec"
        BY <1>11 DEF TakeResult, TalkInv
    <2>2. Result(Head(todo).id) \in Kinds /\ Tail(todo) \in Seq(Task)
        BY <2>1, HeadTask, KindFields
    <2>3. messages' \in Seq(Kinds) /\ log' \in Seq(Kinds)
        BY <1>11, <2>2, AppendTalks DEF TakeResult
    <2> QED
        BY <1>11, <2>2, <2>3 DEF TakeResult, Deliver, TalkInv
<1> QED
    BY <1>1, <1>2, <1>3, <1>4, <1>5, <1>6, <1>7, <1>8, <1>9, <1>10, <1>11 DEF LoopStep

LEMMA ReceivedTalks ==
    ASSUME CountersInv, TalkInv, NEW r \in Replies, Received(r)
    PROVE  /\ Says(Ids(Len(r.calls))) \in Kinds
           /\ messages' \in Seq(Kinds) /\ log' \in Seq(Kinds)
<1>1. Ids(Len(r.calls)) \in Seq(Nat)
    BY ReplyFields, IdsTyped DEF CountersInv
<1>2. Says(Ids(Len(r.calls))) \in Kinds
    BY <1>1, KindFields
<1> QED
    BY <1>2, AppendTalks DEF Received

LEMMA StreamEndsTalks ==
    ASSUME CountersInv, TalkInv, StreamEnds
    PROVE  TalkInv'
<1>e. <<>> \in Seq(Kinds) /\ <<>> \in Seq(Task)
    OBVIOUS
<1>1. CASE Retry
    BY <1>1 DEF Retry, TalkInv, stored, pipeVars
<1>2. CASE ProviderFails
    BY <1>2, EndTurnTalks DEF ProviderFails, stored, pipeVars
<1>3. CASE StreamStopped
    BY <1>3, EndTurnTalks DEF StreamStopped, stored, pipeVars
<1>4. ASSUME NEW r \in Replies, FinalAnswer(r)
      PROVE  TalkInv'
    BY <1>4, <1>e, ReceivedTalks DEF FinalAnswer, Received, EndTurn, TalkInv, stored, pipeVars
<1>5. ASSUME NEW r \in Replies, NeedsHint(r)
      PROVE  TalkInv'
    BY <1>5, <1>e, ReceivedTalks DEF NeedsHint, Received, TalkInv, stored, pipeVars
<1>6. ASSUME NEW r \in Replies, Proposes(r)
      PROVE  TalkInv'
    <2>1. todo' \in Seq(Task)
        BY <1>6, TodoOfReply DEF Proposes, CountersInv
    <2> QED
        BY <1>6, <1>e, <2>1, ReceivedTalks DEF Proposes, Received, TalkInv, stored, pipeVars
<1> QED
    BY <1>1, <1>2, <1>3, <1>4, <1>5, <1>6 DEF StreamEnds

LEMMA ToolSideStage ==
    ASSUME ToolSide
    PROVE  (stage' # "idle" => stage # "idle") /\ serial' = serial /\ UNCHANGED loopVars
           /\ (stage' = "idle" => stage = "idle")
BY DEF ToolSide, Approval, Answer, ApproveUnasked, Yes, Reject, ToolThread, LandActive, ToolReturns,
       ToolRaises, ToolCancelled, Backstop, LandOrphan, OrphanExit, Finish

LEMMA TalkStep ==
    ASSUME CountersInv, TalkInv, [AgentNext]_agentVars
    PROVE  TalkInv'
<1>e. <<>> \in Seq(Kinds) /\ <<>> \in Seq(Task)
    OBVIOUS
<1>1. CASE StartTurn
    <2>1. messages' \in Seq(Kinds) /\ log' \in Seq(Kinds)
        BY <1>1, AppendTalks, KindFields DEF StartTurn
    <2> QED
        BY <1>1, <2>1 DEF StartTurn, CancelReset, TalkInv
<1>2. CASE LoopStep
    BY <1>2, LoopStepTalks
<1>3. CASE StreamEnds
    BY <1>3, StreamEndsTalks
<1>4. CASE Compact
    <2>1. messages' \in Seq(Kinds)
        BY <1>4, CompactedShape DEF Compact, CompactMemory, TalkInv
    <2> QED
        BY <1>4, <2>1 DEF Compact, CompactMemory, TalkInv, stored, pipeVars
<1>5. CASE Delta
    BY <1>5 DEF Delta, TalkInv, stored, pipeVars
<1>6. CASE BackoffOver
    BY <1>6 DEF BackoffOver, TalkInv, stored, pipeVars
<1>7. CASE ToolSide
    BY <1>7, ToolSideStage DEF loopVars, stored, TalkInv
<1>8. CASE CtrlC
    BY <1>8 DEF CtrlC, CancelSet, stored, TalkInv
<1>9. CASE Expire
    BY <1>9 DEF Expire, TalkInv, stored, pipeVars
<1>10. CASE Clear
    <2>1. log' \in Seq(Kinds) /\ messages' = <<>>
        BY <1>10, AppendShape, KindFields DEF Clear, TalkInv
    <2> QED
        BY <1>10, <1>e, <2>1 DEF Clear, TalkInv, stored, pipeVars
<1>11. CASE CompactCommand
    <2>1. messages' \in Seq(Kinds)
        BY <1>11, CompactedShape DEF CompactCommand, CompactMemory, TalkInv
    <2> QED
        BY <1>11, <2>1 DEF CompactCommand, CompactMemory, TalkInv, stored, pipeVars
<1>12. CASE ModeCommand
    BY <1>12 DEF ModeCommand, SetMode, loopVars, stored, TalkInv
<1>13. CASE Crash
    <2>1. messages' = log /\ log' = log /\ request' = <<>> /\ todo' = <<>> /\ pc' = "prompt"
          /\ stage' = "idle"
        BY <1>13 DEF Crash, EndTurn, Restart
    <2> QED
        BY <1>e, <2>1 DEF TalkInv
<1>14. CASE UNCHANGED agentVars
    BY <1>14 DEF agentVars, pipeVars, loopVars, stored, TalkInv
<1> QED
    BY <1>1, <1>2, <1>3, <1>4, <1>5, <1>6, <1>7, <1>8, <1>9, <1>10, <1>11, <1>12, <1>13, <1>14
       DEF AgentNext
-----------------------------------------------------------------------------

(* The steps that say nothing, and those that do.                          *)

Quiet ==
    /\ UNCHANGED <<messages, stored, issued>>
    /\ request' = request \/ request' = <<>>
    /\ Working' => Working /\ todo' = todo
    /\ pc' \in Asking \cup {"hint"} => pc \in Asking \cup {"hint"} \/ (pc = "calls" /\ todo = <<>>)

Telling ==
    \/ StartTurn \/ Build \/ Hint \/ TakeResult \/ Compact
    \/ \E r \in Replies : FinalAnswer(r) \/ NeedsHint(r) \/ Proposes(r)
    \/ Clear \/ CompactCommand \/ Crash

LEMMA QuietStep ==
    ASSUME [AgentNext]_agentVars, ~Telling
    PROVE  Quiet
<1>e. \A reason : EndTurn(reason) => pc' = "prompt" /\ request' = <<>>
    BY DEF EndTurn
<1>p. "prompt" \notin Asking /\ "hint" \notin Asking /\ "calls" \notin Asking
      /\ "exec" \notin Asking
    BY DEF Asking
<1>1. CASE CheckStop \/ Exhausted \/ OverflowError \/ LoopStop \/ ProviderFails \/ StreamStopped
    BY <1>1, <1>e, <1>p
       DEF CheckStop, Exhausted, OverflowError, LoopStop, ProviderFails, StreamStopped, Quiet,
           Working
<1>2. CASE Iterate \/ Overflow \/ CallsDone \/ Execute
    BY <1>2, <1>p DEF Iterate, Overflow, CallsDone, Execute, Quiet, Working, Asking
<1>3. CASE Retry \/ Delta \/ BackoffOver
    BY <1>3, <1>p DEF Retry, Delta, BackoffOver, Quiet, Working, Asking
<1>4. CASE ToolSide \/ ModeCommand \/ UNCHANGED agentVars
    BY <1>4 DEF ToolSide, ModeCommand, agentVars, loopVars, Quiet, Working
<1>5. CASE CtrlC \/ Expire
    BY <1>5 DEF CtrlC, Expire, Quiet, Working
<1> QED
    BY <1>1, <1>2, <1>3, <1>4, <1>5 DEF Telling, AgentNext, LoopStep, StreamEnds

(* A message goes to the memory, and to the file or not at all.            *)
LEMMA AppendWrites ==
    ASSUME LoopInv, NEW m \in Kinds, AppendMessage(m)
    PROVE  /\ messages' = Append(messages, m) /\ missed' = missed
           /\ \/ log' = Append(log, m) /\ lost' = lost /\ faults' = faults
                 /\ saved' = Append(saved, Len(log) + 1)
              \/ log' = log /\ lost' = lost \cup IdsOf(m) /\ faults' = faults + 1
                 /\ faults < MaxFaults /\ saved' = Append(saved, 0)
           /\ WritesInv'
<1>1. messages' = Append(messages, m) /\ missed' = missed
    BY DEF AppendMessage, Written, NotWritten
<1>2. \/ log' = Append(log, m) /\ lost' = lost /\ faults' = faults
         /\ saved' = Append(saved, Len(log) + 1)
      \/ log' = log /\ lost' = lost \cup IdsOf(m) /\ faults' = faults + 1
         /\ faults < MaxFaults /\ saved' = Append(saved, 0)
    BY DEF AppendMessage, Written, NotWritten
<1>3. messages \in Seq(Kinds) /\ Len(log) \in Nat /\ saved \in Seq(Nat)
      /\ Len(saved) = Len(messages) /\ faults \in Nat
    BY AgentAssumption DEF LoopInv, TalkInv, WritesInv
<1>4. Len(messages') = Len(messages) + 1
    BY <1>1, <1>3, AppendShape
<1>5. \A x \in Nat : Append(saved, x) \in Seq(Nat) /\ Len(Append(saved, x)) = Len(saved) + 1
    BY <1>3
<1>6. Len(log) + 1 \in Nat /\ 0 \in Nat
    BY <1>3
<1>7. saved' \in Seq(Nat) /\ Len(saved') = Len(messages')
    BY <1>2, <1>3, <1>4, <1>5, <1>6
<1>8. IdsOf(m) \subseteq Nat
    <2>1. m.calls \in Seq(Nat) /\ m.id \in Nat
        BY KindOfMessage
    <2> QED
        BY <2>1 DEF IdsOf, ToSet
<1>9. lost' \subseteq Nat /\ missed' \subseteq Nat /\ faults' \in 0..MaxFaults
    <2>1. lost \subseteq Nat /\ missed \subseteq Nat /\ faults \in 0..MaxFaults
        BY DEF LoopInv, WritesInv
    <2>2. lost' = lost \/ lost' = lost \cup IdsOf(m)
        BY <1>2
    <2>3. faults' = faults \/ (faults' = faults + 1 /\ faults < MaxFaults)
        BY <1>2
    <2>4. faults' \in 0..MaxFaults
        BY <2>1, <2>3, AgentAssumption
    <2> QED
        BY <1>1, <1>8, <2>1, <2>2, <2>4
<1> QED
    BY <1>1, <1>2, <1>7, <1>9 DEF WritesInv

LEMMA CompactedSaved ==
    ASSUME NEW s \in Seq(Nat), Len(s) > 2
    PROVE  LET t == <<0>> \o SubSeq(s, Len(s) - 1, Len(s)) IN
              /\ t \in Seq(Nat) /\ Len(t) = 3
              /\ t[1] = 0 /\ t[2] = s[Len(s) - 1] /\ t[3] = s[Len(s)]
<1> DEFINE i == Len(s) - 1
           t == SubSeq(s, i, Len(s))
<1>1. i \in 1..(Len(s) + 1) /\ Len(s) \in Nat /\ i = Len(s) - 1 /\ i + 1 = Len(s)
    OBVIOUS
<1> HIDE DEF i
<1>2. t \in Seq(Nat) /\ Len(t) = Len(s) - i + 1 /\ \A k \in 1..Len(t) : t[k] = s[i + k - 1]
    BY <1>1, SuffixShape
<1> HIDE DEF t
<1>3. Len(t) = 2 /\ t[1] = s[i] /\ t[2] = s[Len(s)]
    BY <1>1, <1>2
<1>4. <<0>> \in Seq(Nat) /\ Len(<<0>>) = 1 /\ <<0>>[1] = 0
    OBVIOUS
<1>5. /\ <<0>> \o t \in Seq(Nat)
      /\ Len(<<0>> \o t) = Len(<<0>>) + Len(t)
      /\ \A k \in 1..(Len(<<0>>) + Len(t)) : (<<0>> \o t)[k] =
            IF k <= Len(<<0>>) THEN <<0>>[k] ELSE t[k - Len(<<0>>)]
    BY <1>2, <1>4, ConcatProperties
<1>6. /\ <<0>> \o t \in Seq(Nat) /\ Len(<<0>> \o t) = 3
      /\ (<<0>> \o t)[1] = 0 /\ (<<0>> \o t)[2] = t[1] /\ (<<0>> \o t)[3] = t[2]
    BY <1>3, <1>4, <1>5
<1> QED
    BY <1>3, <1>6 DEF t, i

LEMMA CompactWrites ==
    ASSUME LoopInv, Compact \/ CompactCommand
    PROVE  /\ Len(messages) > 2 /\ messages' = Compacted(messages)
           /\ UNCHANGED <<log, faults, lost, missed>>
           /\ Len(saved') = 3 /\ saved'[1] = 0
           /\ saved'[2] = saved[Len(messages) - 1] /\ saved'[3] = saved[Len(messages)]
           /\ WritesInv'
<1>1. Len(messages) > 2 /\ messages' = Compacted(messages)
      /\ UNCHANGED <<log, faults, lost, missed>>
      /\ saved' = <<0>> \o SubSeq(saved, Len(saved) - 1, Len(saved))
    BY DEF Compact, CompactCommand, CompactMemory, LoopInv, TalkInv
<1>2. saved \in Seq(Nat) /\ Len(saved) = Len(messages) /\ messages \in Seq(Kinds)
    BY DEF LoopInv, TalkInv, WritesInv
<1>3. /\ saved' \in Seq(Nat) /\ Len(saved') = 3 /\ saved'[1] = 0
      /\ saved'[2] = saved[Len(messages) - 1] /\ saved'[3] = saved[Len(messages)]
    BY <1>1, <1>2, CompactedSaved
<1>4. Len(messages') = 3
    BY <1>1, <1>2, CompactedShape
<1> QED
    BY <1>1, <1>3, <1>4 DEF LoopInv, WritesInv

LEMMA ResumeWrites ==
    ASSUME LoopInv, Crash
    PROVE  /\ messages' = log /\ log' = log /\ missed' = lost /\ lost' = lost /\ faults' = faults
           /\ Len(saved') = Len(log) /\ \A p \in 1..Len(log) : saved'[p] = p
           /\ WritesInv'
<1>1. /\ messages' = log /\ log' = log /\ missed' = lost /\ lost' = lost /\ faults' = faults
      /\ saved' = [p \in DOMAIN log |-> p]
    BY DEF Crash
<1>2. log \in Seq(Kinds) /\ DOMAIN log = 1..Len(log) /\ Len(log) \in Nat
    BY DEF LoopInv, TalkInv
<1>3. saved' \in Seq(Nat) /\ Len(saved') = Len(log) /\ \A p \in 1..Len(log) : saved'[p] = p
    BY <1>1, <1>2
<1> QED
    BY <1>1, <1>3 DEF LoopInv, WritesInv

(* What is said is one of the messages there are.                          *)
Appending == StartTurn \/ Hint \/ TakeResult
             \/ \E r \in Replies : FinalAnswer(r) \/ NeedsHint(r) \/ Proposes(r)

LEMMA AppendingAppends ==
    ASSUME LoopInv, Appending
    PROVE  \E m \in Kinds : AppendMessage(m)
<1>1. CASE StartTurn \/ Hint
    BY <1>1, KindFields DEF StartTurn, Hint
<1>2. CASE TakeResult
    <2>1. todo # <<>>
        BY <1>2 DEF TakeResult, LoopInv, TalkInv
    <2>2. Result(Head(todo).id) \in Kinds
        BY <2>1, HeadTask, KindFields DEF LoopInv
    <2> QED
        BY <1>2, <2>2 DEF TakeResult
<1>3. ASSUME NEW r \in Replies, FinalAnswer(r) \/ NeedsHint(r) \/ Proposes(r)
      PROVE  \E m \in Kinds : AppendMessage(m)
    <2>1. Received(r)
        BY <1>3 DEF FinalAnswer, NeedsHint, Proposes
    <2>2. Says(Ids(Len(r.calls))) \in Kinds
        BY <2>1, ReceivedTalks DEF LoopInv
    <2> QED
        BY <2>1, <2>2 DEF Received
<1> QED
    BY <1>1, <1>2, <1>3 DEF Appending

LEMMA WritesStep ==
    ASSUME LoopInv, [AgentNext]_agentVars
    PROVE  WritesInv'
<1>1. CASE Appending
    BY <1>1, AppendingAppends, AppendWrites
<1>2. CASE Compact \/ CompactCommand
    BY <1>2, CompactWrites
<1>3. CASE Crash
    BY <1>3, ResumeWrites
<1>4. CASE Clear
    <2>1. messages' = <<>> /\ saved' = <<>> /\ UNCHANGED <<faults, lost, missed>>
        BY <1>4 DEF Clear
    <2>2. <<>> \in Seq(Nat) /\ Len(<<>>) = 0
        OBVIOUS
    <2>3. saved' \in Seq(Nat) /\ Len(saved') = Len(messages')
        BY <2>1, <2>2
    <2> QED
        BY <2>1, <2>3 DEF LoopInv, WritesInv
<1>5. CASE Build
    BY <1>5 DEF Build, stored, LoopInv, WritesInv
<1>6. CASE ~Telling
    BY <1>6, QuietStep DEF Quiet, stored, LoopInv, WritesInv
<1> QED
    BY <1>1, <1>2, <1>3, <1>4, <1>5, <1>6 DEF Telling, Appending

-----------------------------------------------------------------------------
LEMMA LoopInvTyped == LoopInv => AgentTypeOK
<1> SUFFICES ASSUME LoopInv
             PROVE  AgentTypeOK
    OBVIOUS
<1>1. messages \in Seq(Message) /\ request \in Seq(Message) /\ log \in Seq(Message)
    BY KindsAreMessages DEF LoopInv, TalkInv
<1>2. spoke \in 0..MaxAttempts
    BY AgentAssumption DEF LoopInv, CountersInv
<1>3. todo \in Seq([call : Calls, id : Nat \ {0}])
    BY DEF LoopInv, TalkInv, Task
<1>4. pc \in {"prompt", "head", "build", "compact", "rebuild", "stream",
              "backoff", "hint", "calls", "exec"}
    BY DEF LoopInv, CountersInv, Asking
<1> QED
    BY <1>1, <1>2, <1>3, <1>4 DEF LoopInv, CountersInv, TalkInv, WritesInv, AgentTypeOK

LEMMA LoopInvInit == AgentInit => LoopInv
<1> SUFFICES ASSUME AgentInit
             PROVE  LoopInv
    OBVIOUS
<1>1. PipeTypeOK
    BY DEF AgentInit, PipeInit, PipeTypeOK, Codes
<1>2. NoCounts \in [Calls -> 0..LoopLimit]
    BY AgentAssumption DEF NoCounts
<1>3. CountersInv
    <2>1. iteration \in 0..MaxIterations /\ attempt \in 0..MaxAttempts /\ heard \in 0..2
          /\ turns \in 0..MaxTurns /\ crashes \in 0..MaxCrashes /\ spoke \in 0..1 /\ issued \in Nat
        BY AgentAssumption DEF AgentInit
    <2>2. pc = "prompt" /\ stop \in Stops /\ counts \in [Calls -> 0..LoopLimit]
        BY <1>2 DEF AgentInit, Stops
    <2>3. hinted \in BOOLEAN /\ compacted \in BOOLEAN /\ expired \in BOOLEAN /\ pressed \in BOOLEAN
          /\ ~pressed
        BY DEF AgentInit
    <2> QED
        BY <2>1, <2>2, <2>3 DEF CountersInv
<1>4. TalkInv
    <2>1. <<>> \in Seq(Kinds) /\ <<>> \in Seq(Task)
        OBVIOUS
    <2> QED
        BY <2>1 DEF AgentInit, PipeInit, TalkInv
<1>5. WritesInv
    <2>1. <<>> \in Seq(Nat)
        OBVIOUS
    <2> QED
        BY <2>1, AgentAssumption DEF AgentInit, WritesInv
<1> QED
    BY <1>1, <1>3, <1>4, <1>5 DEF LoopInv

LEMMA LoopInvStep == LoopInv /\ [AgentNext]_agentVars => LoopInv'
<1> SUFFICES ASSUME LoopInv, [AgentNext]_agentVars
             PROVE  LoopInv'
    OBVIOUS
<1>1. PipeTypeOK'
    BY LoopInvTyped, PipeStep, PipeTypedStep DEF LoopInv
<1> QED
    BY <1>1, CountersStep, TalkStep, WritesStep DEF LoopInv

LEMMA LoopInvariant == AgentSpec => []LoopInv
BY LoopInvInit, LoopInvStep, PTL DEF AgentSpec

(* Every counter of the loop and of the provider's retries stays within    *)
(* its limit, and a call is in the pipeline only while the loop waits for  *)
(* it (run_turn and _one_completion, agent/runtime.py).                    *)
THEOREM AgentTypeCorrect == AgentSpec => []AgentTypeOK
BY LoopInvariant, LoopInvTyped, PTL

(* The turn loop, the approver and the tool threads, with every Ctrl+C,    *)
(* mode change and restart, only do to the pipeline what ToolRuntime.execute *)
(* and its callers may: what is proved of the pipeline holds in a session. *)
THEOREM AgentImplementsPipeline == AgentSpec => ImplementsPipeline
<1>1. AgentInit => PipeInit
    BY DEF AgentInit
<1>2. LoopInv /\ [AgentNext]_agentVars => [PipeNext]_pipeVars
    BY LoopInvTyped, PipeStep
<1> QED
    BY <1>1, <1>2, LoopInvariant, PTL DEF AgentSpec, ImplementsPipeline, PipeSpec

(* The only step that hands a call to the pipeline looks at the token.     *)
LEMMA OnlyExecuteStarts ==
    ASSUME [AgentNext]_agentVars, ~Execute
    PROVE  serial' = serial
<1>1. CASE LoopStep
    BY <1>1
       DEF LoopStep, CheckStop, Exhausted, Iterate, Build, Overflow, OverflowError, Hint, CallsDone,
           LoopStop, TakeResult, Deliver, pipeVars
<1>2. CASE StreamEnds
    BY <1>2, StreamEndsOffPipe DEF pipeVars
<1>3. CASE ToolSide
    BY <1>3, ToolSideStage
<1>4. CASE StartTurn \/ CtrlC \/ ModeCommand \/ Crash
    BY <1>4 DEF StartTurn, CancelReset, CtrlC, CancelSet, ModeCommand, SetMode, Crash, Restart
<1>5. CASE Compact \/ Delta \/ BackoffOver \/ Expire \/ Clear \/ CompactCommand
    BY <1>5 DEF Compact, Delta, BackoffOver, Expire, Clear, CompactCommand, pipeVars
<1>6. CASE UNCHANGED agentVars
    BY <1>6 DEF agentVars, pipeVars
<1> QED
    BY <1>1, <1>2, <1>3, <1>4, <1>5, <1>6 DEF AgentNext

(* Once Ctrl+C was pressed, at whatever step, the rest of the turn hands   *)
(* no further call to the pipeline (_check_stop, agent/runtime.py).        *)
THEOREM NothingStarts == AgentSpec => NothingStartsAfterCtrlC
<1>1. LoopInv /\ [AgentNext]_agentVars => [pressed => serial' = serial]_agentVars
    <2> SUFFICES ASSUME LoopInv, [AgentNext]_agentVars, pressed
                 PROVE  serial' = serial
        OBVIOUS
    <2>1. ~Execute
        BY DEF Execute, MustStop, LoopInv, CountersInv
    <2> QED
        BY <2>1, OnlyExecuteStarts
<1> QED
    BY <1>1, LoopInvariant, PTL DEF AgentSpec, NothingStartsAfterCtrlC
-----------------------------------------------------------------------------
(* Rounds, and what may follow them.                                       *)

LEMMA MessageFields ==
    ASSUME NEW s \in Seq(Kinds), NEW i \in 1..Len(s)
    PROVE  /\ s[i] \in Kinds /\ s[i].calls \in Seq(Nat) /\ Len(s[i].calls) \in Nat
           /\ s[i].id \in Nat
           /\ s[i].role # "tool" => s[i].id = 0
           /\ s[i].role # "assistant" => s[i].calls = <<>>
<1>1. s[i] \in Kinds
    OBVIOUS
<1> QED
    BY <1>1, KindOfMessage

(* A message that is not a result ends a round; so does any message.       *)
LEMMA RoundKept ==
    ASSUME NEW s \in Seq(Kinds), NEW i \in 1..Len(s), NEW n \in Nat, Round(s, i, n),
           NEW m \in Kinds, m.id = 0 \/ i + n < Len(s)
    PROVE  Round(Append(s, m), i, n)
<1> DEFINE t == Append(s, m)
<1>1. Len(t) = Len(s) + 1 /\ t[Len(s) + 1] = m /\ \A k \in 1..Len(s) : t[k] = s[k]
    BY AppendShape
<1> HIDE DEF t
<1>2. i + n <= Len(s) /\ n <= Len(s[i].calls) /\ t[i] = s[i] /\ Len(s) \in Nat
    BY <1>1 DEF Round
<1>3. \A k \in 1..n : i + k \in 1..Len(s)
    BY <1>2
<1>4. i + n < Len(t) => t[i + n + 1].id = 0
    <2>1. CASE i + n < Len(s)
        <3>1. i + n + 1 \in 1..Len(s)
            BY <2>1, <1>2
        <3> QED
            BY <1>1, <2>1, <3>1 DEF Round
    <2>2. CASE i + n = Len(s)
        BY <1>1, <2>2
    <2> QED
        BY <1>2, <2>1, <2>2
<1>5. i + n <= Len(t)
    BY <1>1, <1>2
<1> QED
    BY <1>1, <1>2, <1>3, <1>4, <1>5 DEF Round, t

(* Nothing that follows the message of an open round is a call, so it is   *)
(* the only one.                                                           *)
LEMMA OpenAtMostOne ==
    ASSUME NEW s \in Seq(Kinds), NEW tasks, Len(tasks) \in Nat, NEW i, OpenRound(s, i, tasks),
           NEW j \in 1..Len(s), s[j].role = "assistant"
    PROVE  i \in 1..Len(s) /\ j <= i
<1>1. i \in 1..Len(s) /\ Len(s) \in Nat
    BY DEF OpenRound
<1>2. ASSUME j > i
      PROVE  FALSE
    <2>1. j - i \in 1..(Len(s) - i) /\ i + (j - i) = j
        BY <1>1, <1>2
    <2>2. s[j] = Result(s[i].calls[j - i])
        BY <2>1 DEF OpenRound
    <2> QED
        BY <2>2 DEF Result
<1> QED
    BY <1>1, <1>2

(* A round before the open one is over.                                    *)
LEMMA OverBefore ==
    ASSUME NEW s \in Seq(Kinds), NEW i \in 1..Len(s), NEW j \in 1..Len(s), i < j,
           s[j].role = "assistant", NEW n \in Nat, Round(s, i, n)
    PROVE  i + n < j
<1>1. ASSUME i + n >= j
      PROVE  FALSE
    <2>1. j - i \in 1..n /\ i + (j - i) = j
        BY <1>1
    <2>2. s[j] = Result(s[i].calls[j - i])
        BY <2>1 DEF Round
    <2> QED
        BY <2>2 DEF Result
<1> QED
    BY <1>1

(* The next result of the open round.                                      *)
LEMMA ResultOpen ==
    ASSUME NEW s \in Seq(Kinds), NEW tasks \in Seq(Task), tasks # <<>>,
           NEW i, OpenRound(s, i, tasks)
    PROVE  LET t == Append(s, Result(Head(tasks).id)) IN
              /\ Result(Head(tasks).id) \in Kinds /\ Head(tasks).id # 0
              /\ OpenRound(t, i, Tail(tasks))
              /\ Round(t, i, Len(s) - i + 1)
<1> DEFINE m == Result(Head(tasks).id)
           t == Append(s, m)
           n == Len(s) - i
<1>1. Head(tasks) = tasks[1] /\ tasks[1] \in Task /\ Len(tasks) \in Nat /\ Len(tasks) >= 1
      /\ Len(Tail(tasks)) = Len(tasks) - 1
      /\ \A k \in 1..(Len(tasks) - 1) : Tail(tasks)[k] = tasks[k + 1]
    OBVIOUS
<1>2. Head(tasks).id \in Nat /\ Head(tasks).id # 0
    BY <1>1 DEF Task
<1>3. m \in Kinds
    BY <1>2, KindFields
<1>4. t \in Seq(Kinds) /\ Len(t) = Len(s) + 1 /\ t[Len(s) + 1] = m
      /\ \A k \in 1..Len(s) : t[k] = s[k]
    BY <1>3, AppendShape
<1>5. i \in 1..Len(s) /\ Len(s) \in Nat /\ n \in Nat /\ i + n = Len(s) /\ t[i] = s[i]
    <2>1. i \in 1..Len(s) /\ Len(s) \in Nat
        BY DEF OpenRound
    <2> QED
        BY <1>4, <2>1
<1>6. /\ s[i].role = "assistant"
      /\ Len(s[i].calls) = n + Len(tasks)
      /\ \A k \in 1..n : s[i].calls[k] # 0 /\ s[i + k] = Result(s[i].calls[k])
      /\ \A k \in 1..Len(tasks) : s[i].calls[n + k] = tasks[k].id
    BY DEF OpenRound
<1> HIDE DEF n, t
<1>7. m = Result(s[i].calls[n + 1]) /\ s[i].calls[n + 1] # 0
    BY <1>1, <1>2, <1>6
<1>8. \A k \in 1..(n + 1) : t[i].calls[k] # 0 /\ t[i + k] = Result(t[i].calls[k])
    <2> SUFFICES ASSUME NEW k \in 1..(n + 1)
                 PROVE  t[i].calls[k] # 0 /\ t[i + k] = Result(t[i].calls[k])
        OBVIOUS
    <2>1. CASE k = n + 1
        <3>1. i + k = Len(s) + 1
            BY <1>5, <2>1
        <3> QED
            BY <1>4, <1>5, <1>7, <2>1, <3>1
    <2>2. CASE k \in 1..n
        <3>1. i + k \in 1..Len(s)
            BY <1>5, <2>2
        <3> QED
            BY <1>4, <1>5, <1>6, <2>2, <3>1
    <2> QED
        BY <1>5, <2>1, <2>2
<1>9. Len(t) - i = n + 1 /\ i \in DOMAIN t /\ i + (n + 1) = Len(t)
    <2>1. DOMAIN t = 1..Len(t) /\ Len(t) = Len(s) + 1
        BY <1>4
    <2>2. i \in 1..(Len(s) + 1) /\ (Len(s) + 1) - i = n + 1 /\ i + (n + 1) = Len(s) + 1
        BY ONLY <1>5
    <2> QED
        BY ONLY <2>1, <2>2
<1>10. Len(t[i].calls) = (n + 1) + Len(Tail(tasks)) /\ n + 1 <= Len(t[i].calls)
    BY <1>1, <1>5, <1>6
<1>11. \A k \in 1..Len(Tail(tasks)) : t[i].calls[(n + 1) + k] = Tail(tasks)[k].id
    <2> SUFFICES ASSUME NEW k \in 1..Len(Tail(tasks))
                 PROVE  t[i].calls[(n + 1) + k] = Tail(tasks)[k].id
        OBVIOUS
    <2>1. k + 1 \in 1..Len(tasks) /\ n + (k + 1) = (n + 1) + k /\ k \in 1..(Len(tasks) - 1)
        BY <1>1, <1>5
    <2>2. s[i].calls[n + (k + 1)] = tasks[k + 1].id
        BY <1>6, <2>1
    <2> QED
        BY <1>1, <1>5, <2>1, <2>2
<1>12. OpenRound(t, i, Tail(tasks))
    BY <1>5, <1>6, <1>8, <1>9, <1>10, <1>11 DEF OpenRound
<1>13. Round(t, i, n + 1)
    <2>1. \A k \in 1..(n + 1) : t[i].calls[k] # 0 /\ t[i + k] = Result(t[i].calls[k])
        BY <1>8
    <2>2. Len(t) \in Nat /\ i + (n + 1) = Len(t)
        BY <1>4, <1>9
    <2>3. i + (n + 1) <= Len(t) /\ ~(i + (n + 1) < Len(t))
        BY ONLY <2>2
    <2> QED
        BY <1>10, <2>1, <2>3 DEF Round
<1> QED
    BY <1>2, <1>3, <1>12, <1>13 DEF t, n

(* A compaction keeps what is left of the rounds of the last two messages. *)
LEMMA CompactedRound ==
    ASSUME NEW s \in Seq(Kinds), Len(s) > 2, NEW i \in {2, 3}, NEW n \in Nat,
           Round(s, Len(s) - 3 + i, n)
    PROVE  Round(Compacted(s), i, n)
<1> DEFINE t == Compacted(s)
           L == Len(s)
           b == L - 3 + i
<1>1. t \in Seq(Kinds) /\ Len(t) = 3 /\ t[1] = Summary /\ t[2] = s[L - 1] /\ t[3] = s[L]
    BY CompactedShape
<1>2. L \in Nat /\ L > 2 /\ DOMAIN s = 1..L /\ L - 1 \in 1..L /\ L \in 1..L
    BY <1>1
<1>3. Round(s, b, n)
    OBVIOUS
<1> HIDE DEF t, L
<1>4. b \in 1..L /\ b # 1 /\ t[i] = s[b]
    BY <1>1, <1>2
<1>5. b + n <= L /\ n <= Len(s[b].calls)
    BY <1>3 DEF Round, L
<1>6. i + n <= 3
    BY <1>2, <1>5
<1>7. CASE n = 0
    <2>1. i < 3 => t[i + 1].id = 0
        <3>1. i < 3 => i = 2 /\ b = L - 1 /\ b + 0 < L /\ b + 0 + 1 = L
            BY <1>2
        <3>2. i < 3 => s[b + 0 + 1].id = 0
            BY <1>3, <1>7, <3>1 DEF Round, L
        <3> QED
            BY <1>1, <3>1, <3>2
    <2>2. Round(t, i, 0)
        BY <1>1, <1>4, <1>5, <1>7, <2>1 DEF Round
    <2> QED
        BY <1>7, <2>2 DEF t
<1>8. CASE n # 0
    <2>1. n = 1 /\ i = 2 /\ b = L - 1 /\ b + 1 = L
        BY <1>2, <1>5, <1>8
    <2>2. s[b].calls[1] # 0 /\ s[b + 1] = Result(s[b].calls[1])
        BY <1>3, <2>1 DEF Round
    <2>3. t[2].calls[1] # 0 /\ t[3] = Result(t[2].calls[1])
        BY <1>1, <1>4, <2>1, <2>2
    <2>4. Round(t, 2, 1)
        BY <1>1, <1>4, <1>5, <2>1, <2>3 DEF Round
    <2> QED
        BY <2>1, <2>4 DEF t
<1> QED
    BY <1>7, <1>8

-----------------------------------------------------------------------------
(* Every message of the turn but the one in hand has all its results.      *)

LEMMA SettledKept ==
    ASSUME NEW s \in Seq(Kinds), NEW i \in 1..Len(s), Settled(s, i), NEW m \in Kinds, m.id = 0
    PROVE  Settled(Append(s, m), i)
<1> DEFINE t == Append(s, m)
<1>1. Len(t) = Len(s) + 1 /\ t[i] = s[i] /\ \A k \in 1..Len(s) : t[k] = s[k]
    BY AppendShape
<1>2. Len(s) \in Nat /\ Len(s[i].calls) \in Nat
    BY MessageFields
<1> HIDE DEF t
<1>3. CASE s[i].role # "assistant" \/ s[i] = Summary
    BY <1>1, <1>3 DEF Settled, t
<1>4. CASE Round(s, i, Len(s[i].calls))
    <2>1. Round(t, i, Len(s[i].calls))
        BY <1>2, <1>4, RoundKept DEF t
    <2> QED
        BY <1>1, <2>1 DEF Settled, t
<1>5. ASSUME NEW j \in i + 1..Len(s), s[j].role = "user"
      PROVE  Settled(Append(s, m), i)
    <2>1. j \in 1..Len(s) /\ j \in i + 1..Len(t)
        BY <1>1, <1>2
    <2> QED
        BY <1>1, <1>5, <2>1 DEF Settled, t
<1> QED
    BY <1>3, <1>4, <1>5 DEF Settled

LEMMA SettledAppend ==
    ASSUME NEW s \in Seq(Kinds), \A i \in DOMAIN s : Settled(s, i),
           NEW m \in Kinds, m.id = 0, m.role # "assistant" \/ m = Summary
    PROVE  \A i \in DOMAIN Append(s, m) : Settled(Append(s, m), i)
<1>1. DOMAIN s = 1..Len(s) /\ DOMAIN Append(s, m) = 1..(Len(s) + 1) /\ Len(s) \in Nat
      /\ Append(s, m)[Len(s) + 1] = m
    BY AppendShape
<1>2. Settled(Append(s, m), Len(s) + 1)
    BY <1>1 DEF Settled
<1>3. \A i \in 1..Len(s) : Settled(Append(s, m), i)
    BY <1>1, SettledKept
<1> QED
    BY <1>1, <1>2, <1>3

(* The next turn leaves the rounds of the turns before it as they are.     *)
LEMMA UserSettles ==
    ASSUME NEW s \in Seq(Kinds)
    PROVE  \A i \in DOMAIN Append(s, User) : Settled(Append(s, User), i)
<1> DEFINE t == Append(s, User)
<1>1. DOMAIN t = 1..(Len(s) + 1) /\ Len(s) \in Nat /\ t[Len(s) + 1] = User /\ Len(t) = Len(s) + 1
      /\ User.role = "user"
    BY AppendShape, KindFields
<1> HIDE DEF t
<1>2. Settled(t, Len(s) + 1)
    BY <1>1 DEF Settled
<1>3. ASSUME NEW i \in 1..Len(s)
      PROVE  Settled(t, i)
    <2>1. Len(s) + 1 \in i + 1..Len(t)
        BY <1>1
    <2> QED
        BY <1>1, <2>1 DEF Settled
<1> QED
    BY <1>1, <1>2, <1>3 DEF t

LEMMA SettledResult ==
    ASSUME NEW s \in Seq(Kinds), NEW tasks \in Seq(Task), tasks # <<>>,
           NEW io, OpenRound(s, io, tasks),
           \A i \in DOMAIN s : Settled(s, i) \/ OpenRound(s, i, tasks)
    PROVE  LET t == Append(s, Result(Head(tasks).id)) IN
              \A i \in DOMAIN t : Settled(t, i) \/ OpenRound(t, i, Tail(tasks))
<1> DEFINE m == Result(Head(tasks).id)
           t == Append(s, m)
<1>1. m \in Kinds /\ OpenRound(t, io, Tail(tasks)) /\ io \in 1..Len(s) /\ m.role = "tool"
    <2>1. m \in Kinds /\ OpenRound(t, io, Tail(tasks))
        BY ResultOpen
    <2>2. m.role = "tool"
        BY KindFields
    <2>3. io \in 1..Len(s)
        BY DEF OpenRound
    <2> QED
        BY <2>1, <2>2, <2>3
<1> HIDE DEF m
<1>2. Len(t) = Len(s) + 1 /\ t[Len(s) + 1] = m /\ \A k \in 1..Len(s) : t[k] = s[k]
      /\ DOMAIN t = 1..(Len(s) + 1) /\ DOMAIN s = 1..Len(s) /\ Len(s) \in Nat /\ Len(tasks) \in Nat
    BY <1>1, AppendShape
<1> HIDE DEF t
<1>3. Settled(t, Len(s) + 1)
    BY <1>1, <1>2 DEF Settled
<1>4. ASSUME NEW i \in 1..Len(s)
      PROVE  Settled(t, i) \/ OpenRound(t, i, Tail(tasks))
    <2>0. t[i] = s[i] /\ Len(s[i].calls) \in Nat
        BY <1>2, MessageFields
    <2>1. CASE i = io
        BY <1>1, <2>1
    <2>2. CASE OpenRound(s, i, tasks)
        <3>1. OpenRound(Append(s, Result(Head(tasks).id)), i, Tail(tasks))
            BY <2>2, ResultOpen
        <3> QED
            BY <3>1 DEF t, m
    <2>3. CASE s[i].role # "assistant" \/ s[i] = Summary
        BY <2>0, <2>3 DEF Settled
    <2>4. CASE i # io /\ s[i].role = "assistant" /\ Round(s, i, Len(s[i].calls))
        <3>1. i < io
            BY <1>1, <1>2, <2>4, OpenAtMostOne
        <3>2. i + Len(s[i].calls) < io
            BY <1>1, <2>0, <2>4, <3>1, OverBefore DEF OpenRound
        <3>3. i + Len(s[i].calls) < Len(s)
            BY <1>1, <1>2, <2>0, <3>2
        <3>4. Round(t, i, Len(s[i].calls))
            BY <1>1, <2>0, <2>4, <3>3, RoundKept DEF t
        <3> QED
            BY <2>0, <3>4 DEF Settled
    <2>5. ASSUME NEW j \in i + 1..Len(s), s[j].role = "user"
          PROVE  Settled(t, i)
        <3>1. j \in 1..Len(s) /\ j \in i + 1..Len(t)
            BY <1>2
        <3> QED
            BY <1>2, <2>5, <3>1 DEF Settled
    <2>6. Settled(s, i) \/ OpenRound(s, i, tasks)
        BY <1>2
    <2> QED
        BY <2>1, <2>2, <2>3, <2>4, <2>5, <2>6 DEF Settled
<1> QED
    BY <1>2, <1>3, <1>4 DEF t, m

LEMMA OpenIsOver ==
    ASSUME NEW s \in Seq(Kinds), NEW i, OpenRound(s, i, <<>>)
    PROVE  Settled(s, i)
<1>0. i \in 1..Len(s) /\ Len(s) \in Nat /\ Len(s[i].calls) = Len(s) - i + Len(<<>>)
    BY DEF OpenRound
<1>z. Len(<<>>) = 0
    OBVIOUS
<1>1. i \in 1..Len(s) /\ Len(s) \in Nat /\ Len(s[i].calls) = Len(s) - i /\ Len(s) - i \in Nat
      /\ i + (Len(s) - i) = Len(s)
    BY <1>0, <1>z
<1>2. Round(s, i, Len(s) - i)
    BY <1>1 DEF Round, OpenRound
<1> QED
    BY <1>1, <1>2 DEF Settled

LEMMA OpenStarts ==
    ASSUME NEW s \in Seq(Kinds), NEW m \in Kinds, m.role = "assistant",
           NEW tasks \in Seq(Task), Len(tasks) = Len(m.calls),
           \A k \in 1..Len(tasks) : tasks[k].id = m.calls[k]
    PROVE  OpenRound(Append(s, m), Len(s) + 1, tasks)
<1> DEFINE t == Append(s, m)
<1>1. DOMAIN t = 1..(Len(s) + 1) /\ Len(t) = Len(s) + 1 /\ Len(s) \in Nat /\ t[Len(s) + 1] = m
      /\ Len(tasks) \in Nat
    BY AppendShape
<1> HIDE DEF t
<1>2. Len(t) - (Len(s) + 1) = 0 /\ \A k \in 1..Len(tasks) : 0 + k = k
    BY <1>1
<1> QED
    BY <1>1, <1>2 DEF OpenRound, t

LEMMA CompactedSettled ==
    ASSUME NEW s \in Seq(Kinds), Len(s) > 2, \A i \in DOMAIN s : Settled(s, i)
    PROVE  \A i \in DOMAIN Compacted(s) : Settled(Compacted(s), i)
<1> DEFINE t == Compacted(s)
           L == Len(s)
<1>1. t \in Seq(Kinds) /\ Len(t) = 3 /\ t[1] = Summary /\ t[2] = s[L - 1] /\ t[3] = s[L]
    BY CompactedShape
<1>2. L \in Nat /\ L > 2 /\ DOMAIN s = 1..L /\ DOMAIN t = 1..3 /\ L - 1 \in 1..L /\ L \in 1..L
    BY <1>1
<1> HIDE DEF t, L
<1>3. Settled(t, 1)
    BY <1>1 DEF Settled
<1>4. ASSUME NEW i \in {2, 3}
      PROVE  Settled(t, i)
    <2> DEFINE b == L - 3 + i
    <2>1. b \in 1..L /\ t[i] = s[b] /\ (i = 2 => b = L - 1) /\ (i = 3 => b = L)
        BY <1>1, <1>2
    <2>2. Settled(s, b) /\ Len(s[b].calls) \in Nat
        BY <1>2, <2>1, MessageFields DEF L
    <2>3. CASE s[b].role # "assistant" \/ s[b] = Summary
        BY <2>1, <2>3 DEF Settled
    <2>4. CASE Round(s, b, Len(s[b].calls))
        <3>1. Round(t, i, Len(s[b].calls))
            BY <1>2, <2>2, <2>4, CompactedRound DEF t, L
        <3> QED
            BY <2>1, <3>1 DEF Settled
    <2>5. ASSUME NEW j \in b + 1..Len(s), s[j].role = "user"
          PROVE  Settled(t, i)
        <3>0. Len(s) = L
            BY DEF L
        <3>1. i = 2 /\ j = L
            <4>1. CASE i = 2
                BY <1>2, <2>1, <2>5, <3>0, <4>1
            <4>2. CASE i = 3
                BY <1>2, <2>1, <2>5, <3>0, <4>2
            <4> QED
                BY <4>1, <4>2
        <3>2. t[3].role = "user" /\ 3 \in 2 + 1..Len(t)
            BY <1>1, <2>5, <3>1
        <3> QED
            BY <3>1, <3>2 DEF Settled
    <2> QED
        BY <2>2, <2>3, <2>4, <2>5 DEF Settled
<1>5. \A i \in DOMAIN t : i = 1 \/ i \in {2, 3}
    BY <1>2
<1> QED
    BY <1>3, <1>4, <1>5 DEF t

-----------------------------------------------------------------------------
(* A reply without calls is a message without calls.                       *)
LEMMA PlainReply ==
    ASSUME issued \in Nat, NEW r \in Replies, r.calls = <<>>, Received(r)
    PROVE  AppendMessage(Summary)
<1>1. Len(r.calls) = 0
    BY ReplyFields
<1>2. Ids(0) \in Seq(Nat) /\ Len(Ids(0)) = 0
    BY IdsTyped
<1>3. Ids(0) = <<>>
    BY <1>2
<1> QED
    BY <1>1, <1>3 DEF Received, Summary

(* A reply with calls opens its round.                                     *)
LEMMA ProposedRound ==
    ASSUME LoopInv, LoopInv', NEW r \in Replies, Proposes(r)
    PROVE  LET m == Says(Ids(Len(r.calls))) IN
              /\ m \in Kinds /\ m.id = 0
              /\ messages' = Append(messages, m)
              /\ OpenRound(messages', Len(messages) + 1, todo')
<1> DEFINE k == Len(r.calls)
           m == Says(Ids(k))
<1>1. issued \in Nat /\ k \in Nat
    BY ReplyFields DEF LoopInv, CountersInv
<1>2. Ids(k) \in Seq(Nat) /\ Len(Ids(k)) = k /\ \A i \in 1..k : Ids(k)[i] = issued + i
    BY <1>1, IdsTyped
<1>3. m \in Kinds /\ m.role = "assistant" /\ m.calls = Ids(k) /\ m.id = 0
    BY <1>2, KindFields
<1>4. messages' = Append(messages, m)
    BY DEF Proposes, Received, AppendMessage
<1>5. todo' = [i \in DOMAIN r.calls |-> [call |-> r.calls[i], id |-> issued + i]]
    BY DEF Proposes
<1>6. todo' \in Seq(Task) /\ Len(todo') = k /\ \A i \in 1..k : todo'[i].id = issued + i
    BY <1>1, <1>5, TodoOfReply
<1>7. messages \in Seq(Kinds)
    BY DEF LoopInv, TalkInv
<1> HIDE DEF m, k
<1>8. Len(todo') = Len(m.calls) /\ \A i \in 1..Len(todo') : todo'[i].id = m.calls[i]
    BY <1>2, <1>3, <1>6
<1>9. OpenRound(Append(messages, m), Len(messages) + 1, todo')
    BY <1>3, <1>6, <1>7, <1>8, OpenStarts
<1> QED
    BY <1>3, <1>4, <1>9 DEF m, k

-----------------------------------------------------------------------------
(* Memory, file and request stay readable.                                 *)

LEMMA AnsweredAppend ==
    ASSUME NEW s \in Seq(Kinds), NEW m \in Kinds, NEW i \in 1..Len(s), NEW id
    PROVE  /\ AnsweredAfter(s, i, id) => AnsweredAfter(Append(s, m), i, id)
           /\ m.id = id => AnsweredAfter(Append(s, m), i, id)
           /\ AnsweredAfter(Append(s, m), i, id) => m.id = id \/ AnsweredAfter(s, i, id)
<1> DEFINE t == Append(s, m)
<1>1. Len(t) = Len(s) + 1 /\ t[Len(s) + 1] = m /\ (\A k \in 1..Len(s) : t[k] = s[k])
      /\ Len(s) \in Nat
    BY AppendShape
<1> HIDE DEF t
<1>2. \A j \in (i + 1)..Len(t) : j = Len(s) + 1 \/ j \in (i + 1)..Len(s)
    BY <1>1
<1>3. \A j \in (i + 1)..Len(s) : j \in 1..Len(s) /\ j \in (i + 1)..Len(t)
    BY <1>1
<1>4. Len(s) + 1 \in (i + 1)..Len(t)
    BY <1>1
<1> QED
    BY <1>1, <1>2, <1>3, <1>4 DEF AnsweredAfter, t

LEMMA CalledKept ==
    ASSUME NEW s \in Seq(Kinds), NEW j \in 1..Len(s), NEW m \in Kinds
    PROVE  /\ Called(s, j) => Called(Append(s, m), j)
           /\ CutOff(s, j) => CutOff(Append(s, m), j)
<1> DEFINE t == Append(s, m)
<1>1. (\A k \in 1..Len(s) : t[k] = s[k]) /\ 1 \in 1..Len(s) /\ Len(s) \in Nat
    BY AppendShape
<1> HIDE DEF t
<1>2. \A i \in 1..(j - 1) : i \in 1..Len(s) /\ \A l \in (i + 1)..j : l \in 1..Len(s)
    BY <1>1
<1>3. \A l \in 2..j : l \in 1..Len(s)
    BY <1>1
<1>4. Called(s, j) => Called(t, j)
    BY <1>1, <1>2 DEF Called
<1>5. CutOff(s, j) => CutOff(t, j)
    BY <1>1, <1>3 DEF CutOff
<1> QED
    BY <1>4, <1>5 DEF t

(* A message may follow if it is newer than every result, has its call     *)
(* right before it, and leaves out no call of the same message.            *)
LEMMA AppendReadable ==
    ASSUME NEW s \in Seq(Kinds), NEW n, Numbered(s, n), NEW gone, Readable(s, gone),
           NEW m \in Kinds,
           m.id # 0 => Newest(s, m.id) /\ (m.id \in gone \/ CallsFor(s, m.id)),
           \A i \in DOMAIN s : \A l \in DOMAIN s[i].calls : s[i].calls[l] = m.id =>
               \A k \in 1..(l - 1) : s[i].calls[k] \in gone \/ AnsweredAfter(s, i, s[i].calls[k])
    PROVE  Readable(Append(s, m), gone)
<1> DEFINE t == Append(s, m)
           L == Len(s)
<1>1. Len(t) = L + 1 /\ t[L + 1] = m /\ (\A k \in 1..L : t[k] = s[k]) /\ L \in Nat
      /\ DOMAIN t = 1..(L + 1) /\ DOMAIN s = 1..L
    BY AppendShape
<1>a. \A i \in 1..L : \A id :
        /\ AnsweredAfter(s, i, id) => AnsweredAfter(t, i, id)
        /\ AnsweredAfter(t, i, id) => m.id = id \/ AnsweredAfter(s, i, id)
    BY AnsweredAppend
<1>b. \A j \in 1..L : (Called(s, j) => Called(t, j)) /\ (CutOff(s, j) => CutOff(t, j))
    BY CalledKept
<1> HIDE DEF t, L
<1>2. \A j \in DOMAIN t : j \in 1..L \/ j = L + 1
    BY <1>1
<1>3. InOrder(t)
    <2> SUFFICES ASSUME NEW i \in DOMAIN t, NEW j \in DOMAIN t, i < j, t[i].id # 0, t[j].id # 0
                 PROVE  t[i].id < t[j].id
        BY DEF InOrder
    <2>1. i \in 1..L
        BY <1>1
    <2>2. CASE j \in 1..L
        BY <1>1, <2>1, <2>2 DEF Readable, InOrder
    <2>3. CASE j = L + 1
        BY <1>1, <2>1, <2>3 DEF Newest
    <2> QED
        BY <1>2, <2>2, <2>3
<1>4. HaveCalls(t, gone)
    <2> SUFFICES ASSUME NEW j \in DOMAIN t, t[j].id # 0
                 PROVE  t[j].id \in gone \/ Called(t, j) \/ CutOff(t, j)
        BY DEF HaveCalls
    <2>1. CASE j \in 1..L
        BY <1>1, <1>b, <2>1 DEF Readable, HaveCalls
    <2>2. CASE j = L + 1 /\ CallsFor(s, m.id)
        <3>1. PICK i \in DOMAIN s :
                /\ \E k \in DOMAIN s[i].calls : s[i].calls[k] = m.id
                /\ \A l \in (i + 1)..Len(s) : s[l].id # 0
            BY <2>2 DEF CallsFor
        <3>2. i \in 1..(j - 1) /\ t[i] = s[i] /\ t[j] = m
            BY <1>1, <2>2
        <3>3. ASSUME NEW l \in (i + 1)..j
              PROVE  t[l].id # 0
            <4>1. l = j \/ l \in (i + 1)..L
                BY <1>1, <2>2
            <4>2. \A x \in (i + 1)..L : x \in 1..L
                BY <1>1
            <4> QED
                BY <1>1, <3>1, <3>2, <4>1, <4>2 DEF L
        <3> QED
            BY <3>1, <3>2, <3>3 DEF Called
    <2>3. CASE j = L + 1 /\ m.id \in gone
        BY <1>1, <2>3
    <2> QED
        BY <1>1, <1>2, <2>1, <2>2, <2>3
<1>5. NoneSkipped(t, gone)
    <2> SUFFICES ASSUME NEW i \in DOMAIN t, NEW l \in DOMAIN t[i].calls,
                        AnsweredAfter(t, i, t[i].calls[l]), NEW k \in 1..(l - 1)
                 PROVE  t[i].calls[k] \in gone \/ AnsweredAfter(t, i, t[i].calls[k])
        BY DEF NoneSkipped
    <2>1. i \in 1..L
        <3>1. i # L + 1
            BY <1>1 DEF AnsweredAfter
        <3> QED
            BY <1>2, <3>1
    <2>2. t[i] = s[i] /\ i \in DOMAIN s
        BY <1>1, <2>1
    <2>3. s[i].calls[k] \in gone \/ AnsweredAfter(s, i, s[i].calls[k])
        <3>1. CASE AnsweredAfter(s, i, s[i].calls[l])
            BY <2>2, <3>1 DEF Readable, NoneSkipped
        <3>2. CASE m.id = s[i].calls[l]
            BY <2>2, <3>2
        <3> QED
            BY <1>a, <2>1, <2>2, <3>1, <3>2
    <2> QED
        BY <1>a, <2>1, <2>2, <2>3
<1> QED
    BY <1>3, <1>4, <1>5 DEF Readable, t

(* Any message but a result may be said at any time.                       *)
LEMMA PlainReadable ==
    ASSUME NEW s \in Seq(Kinds), NEW n, Numbered(s, n), NEW gone, Readable(s, gone),
           NEW m \in Kinds, m.id = 0
    PROVE  Readable(Append(s, m), gone)
<1>1. \A i \in DOMAIN s : \A l \in DOMAIN s[i].calls : s[i].calls[l] # m.id
    <2>1. \A i \in DOMAIN s : \A l \in DOMAIN s[i].calls : s[i].calls[l] \in 1..n
        BY DEF Numbered
    <2>2. 0 \notin 1..n
        OBVIOUS
    <2> QED
        BY <2>1, <2>2
<1> QED
    BY <1>1, AppendReadable

(* The result of the next task may be said, or be lost.                    *)
LEMMA ResultReadable ==
    ASSUME NEW s \in Seq(Kinds), NEW n, Numbered(s, n), NEW gone, Readable(s, gone),
           NEW tasks \in Seq(Task), tasks # <<>>, Awaits(s, gone, tasks)
    PROVE  Readable(Append(s, Result(tasks[1].id)), gone)
<1> DEFINE m == Result(tasks[1].id)
<1>1. tasks[1] \in Task /\ 1 \in DOMAIN tasks
    OBVIOUS
<1>2. m \in Kinds /\ m.id = tasks[1].id
    BY <1>1, KindFields DEF Task
<1> HIDE DEF m
<1>3. Newest(s, m.id) /\ (m.id \in gone \/ CallsFor(s, m.id)) /\ NextIn(s, gone, tasks, 1)
    BY <1>1, <1>2 DEF Awaits
<1>4. \A i \in DOMAIN s : \A l \in DOMAIN s[i].calls : s[i].calls[l] = m.id =>
          \A k \in 1..(l - 1) : s[i].calls[k] \in gone \/ AnsweredAfter(s, i, s[i].calls[k])
    <2>1. 1..(1 - 1) = {}
        OBVIOUS
    <2> QED
        BY <1>2, <1>3, <2>1 DEF NextIn
<1> QED
    BY <1>2, <1>3, <1>4, AppendReadable DEF m

(* The tasks after the first.                                              *)
LEMMA LaterTasks ==
    ASSUME NEW tasks \in Seq(Task), tasks # <<>>, NEW n, Increasing(tasks, n)
    PROVE  /\ Increasing(Tail(tasks), n)
           /\ \A t \in DOMAIN Tail(tasks) :
                 t \in Nat /\ t >= 1 /\ t + 1 \in DOMAIN tasks /\ Tail(tasks)[t] = tasks[t + 1]
                 /\ tasks[1].id < tasks[t + 1].id
<1>1. /\ Len(tasks) \in Nat /\ DOMAIN tasks = 1..Len(tasks) /\ 1 \in DOMAIN tasks
      /\ DOMAIN Tail(tasks) = 1..(Len(tasks) - 1)
      /\ \A t \in 1..(Len(tasks) - 1) : Tail(tasks)[t] = tasks[t + 1]
    OBVIOUS
<1>2. \A t \in DOMAIN Tail(tasks) :
        t \in Nat /\ t >= 1 /\ t + 1 \in DOMAIN tasks /\ Tail(tasks)[t] = tasks[t + 1]
    BY <1>1
<1>3. \A t \in DOMAIN Tail(tasks) : tasks[1].id < tasks[t + 1].id
    <2>1. \A t \in DOMAIN Tail(tasks) : 1 < t + 1
        BY <1>2
    <2> QED
        BY <1>1, <1>2, <2>1 DEF Increasing
<1>4. \A t \in DOMAIN Tail(tasks) : Tail(tasks)[t].id <= n
    BY <1>2 DEF Increasing
<1>5. ASSUME NEW t \in DOMAIN Tail(tasks), NEW u \in DOMAIN Tail(tasks), t < u
      PROVE  Tail(tasks)[t].id < Tail(tasks)[u].id
    <2>1. t + 1 < u + 1
        BY <1>2, <1>5
    <2> QED
        BY <1>2, <2>1 DEF Increasing
<1> QED
    BY <1>2, <1>3, <1>4, <1>5 DEF Increasing

LEMMA CallsForKept ==
    ASSUME NEW s \in Seq(Kinds), NEW m \in Kinds, m.id # 0, NEW id, CallsFor(s, id)
    PROVE  CallsFor(Append(s, m), id)
<1> DEFINE v == Append(s, m)
<1>1. Len(v) = Len(s) + 1 /\ v[Len(s) + 1] = m /\ (\A k \in 1..Len(s) : v[k] = s[k])
      /\ Len(s) \in Nat /\ DOMAIN v = 1..(Len(s) + 1) /\ DOMAIN s = 1..Len(s)
    BY AppendShape
<1> HIDE DEF v
<1>2. PICK i \in DOMAIN s : /\ \E k \in DOMAIN s[i].calls : s[i].calls[k] = id
                            /\ \A l \in (i + 1)..Len(s) : s[l].id # 0
    BY DEF CallsFor
<1>3. i \in DOMAIN v /\ v[i] = s[i]
    BY <1>1, <1>2
<1>4. ASSUME NEW l \in (i + 1)..Len(v)
      PROVE  v[l].id # 0
    <2>1. l = Len(s) + 1 \/ (l \in (i + 1)..Len(s) /\ l \in 1..Len(s))
        BY <1>1, <1>2
    <2> QED
        BY <1>1, <1>2, <2>1
<1> QED
    BY <1>2, <1>3, <1>4 DEF CallsFor, v

LEMMA ResultAwaits ==
    ASSUME NEW s \in Seq(Kinds), NEW gone, NEW tasks \in Seq(Task), tasks # <<>>,
           Awaits(s, gone, tasks), NEW n, Increasing(tasks, n)
    PROVE  Awaits(Append(s, Result(tasks[1].id)), gone, Tail(tasks))
<1> DEFINE m == Result(tasks[1].id)
           v == Append(s, m)
           rest == Tail(tasks)
<1>1. tasks[1] \in Task /\ 1 \in DOMAIN tasks
    OBVIOUS
<1>2. m \in Kinds /\ m.id = tasks[1].id /\ m.id # 0 /\ m.calls = <<>>
    BY <1>1, KindFields DEF Task
<1>3. \A t \in DOMAIN rest : t \in Nat /\ t >= 1 /\ t + 1 \in DOMAIN tasks /\ rest[t] = tasks[t + 1]
                             /\ tasks[1].id < tasks[t + 1].id
    BY LaterTasks
<1> HIDE DEF m
<1>4. v[Len(s) + 1] = m /\ (\A k \in 1..Len(s) : v[k] = s[k])
      /\ Len(s) \in Nat /\ DOMAIN v = 1..(Len(s) + 1) /\ DOMAIN s = 1..Len(s)
    BY <1>2, AppendShape
<1>a. \A i \in 1..Len(s) : \A id :
        /\ AnsweredAfter(s, i, id) => AnsweredAfter(v, i, id)
        /\ m.id = id => AnsweredAfter(v, i, id)
    BY <1>2, AnsweredAppend
<1>b. \A id : CallsFor(s, id) => CallsFor(v, id)
    BY <1>2, CallsForKept
<1> HIDE DEF v, rest
<1>5. \A i \in DOMAIN v : i \in DOMAIN s \/ i = Len(s) + 1
    BY <1>4
<1>6. ASSUME NEW t \in DOMAIN rest
      PROVE  /\ Newest(v, rest[t].id)
             /\ rest[t].id \in gone \/ CallsFor(v, rest[t].id)
             /\ NextIn(v, gone, rest, t)
    <2>1. rest[t].id = tasks[t + 1].id /\ t + 1 \in DOMAIN tasks /\ t \in Nat /\ t >= 1
        BY <1>3
    <2>2. /\ Newest(s, tasks[t + 1].id)
          /\ tasks[t + 1].id \in gone \/ CallsFor(s, tasks[t + 1].id)
          /\ NextIn(s, gone, tasks, t + 1)
        BY <2>1 DEF Awaits
    <2>3. Newest(v, rest[t].id)
        BY <1>2, <1>3, <1>4, <1>5, <2>1, <2>2 DEF Newest
    <2>4. rest[t].id \in gone \/ CallsFor(v, rest[t].id)
        BY <1>b, <2>1, <2>2
    <2>5. NextIn(v, gone, rest, t)
        <3> SUFFICES ASSUME NEW i \in DOMAIN v, NEW l \in DOMAIN v[i].calls,
                            v[i].calls[l] = rest[t].id, NEW k \in 1..(l - 1)
                     PROVE  \/ v[i].calls[k] \in gone \/ AnsweredAfter(v, i, v[i].calls[k])
                            \/ \E u \in 1..(t - 1) : rest[u].id = v[i].calls[k]
            BY DEF NextIn
        <3>1. i \in 1..Len(s) /\ v[i] = s[i] /\ i \in DOMAIN s
            <4>1. i # Len(s) + 1
                BY <1>2, <1>4
            <4> QED
                BY <1>4, <1>5, <4>1
        <3>2. \/ s[i].calls[k] \in gone \/ AnsweredAfter(s, i, s[i].calls[k])
              \/ \E u \in 1..((t + 1) - 1) : tasks[u].id = s[i].calls[k]
            BY <2>1, <2>2, <3>1 DEF NextIn
        <3>3. ASSUME NEW u \in 1..((t + 1) - 1), tasks[u].id = s[i].calls[k]
              PROVE  \/ AnsweredAfter(v, i, v[i].calls[k])
                     \/ \E x \in 1..(t - 1) : rest[x].id = v[i].calls[k]
            <4>1. CASE u = 1
                BY <1>2, <1>a, <3>1, <3>3, <4>1
            <4>2. CASE u # 1
                <5>1. u - 1 \in 1..(t - 1) /\ (u - 1) + 1 = u
                    BY <2>1, <4>2
                <5>2. u - 1 \in DOMAIN rest
                    BY <2>1, <5>1 DEF rest
                <5>3. rest[u - 1] = tasks[u]
                    BY <1>3, <5>1, <5>2
                <5> QED
                    BY <3>1, <3>3, <5>1, <5>3
            <4> QED
                BY <4>1, <4>2
        <3> QED
            BY <1>a, <3>1, <3>2, <3>3
    <2> QED
        BY <2>3, <2>4, <2>5
<1> QED
    BY <1>6 DEF Awaits, v, m, rest

LEMMA LostAwaits ==
    ASSUME NEW s \in Seq(Kinds), NEW gone, NEW tasks \in Seq(Task), tasks # <<>>,
           Awaits(s, gone, tasks), NEW n, Increasing(tasks, n),
           NEW more, gone \subseteq more, tasks[1].id \in more
    PROVE  Awaits(s, more, Tail(tasks))
<1> DEFINE rest == Tail(tasks)
<1>3. \A t \in DOMAIN rest : t \in Nat /\ t >= 1 /\ t + 1 \in DOMAIN tasks /\ rest[t] = tasks[t + 1]
                             /\ tasks[1].id < tasks[t + 1].id
    BY LaterTasks
<1>4. \A t \in DOMAIN rest : \A x \in 1..(t - 1) : x \in DOMAIN rest
    OBVIOUS
<1> HIDE DEF rest
<1>6. ASSUME NEW t \in DOMAIN rest
      PROVE  /\ Newest(s, rest[t].id)
             /\ rest[t].id \in more \/ CallsFor(s, rest[t].id)
             /\ NextIn(s, more, rest, t)
    <2>1. rest[t].id = tasks[t + 1].id /\ t + 1 \in DOMAIN tasks /\ t \in Nat /\ t >= 1
        BY <1>3
    <2>2. /\ Newest(s, tasks[t + 1].id)
          /\ tasks[t + 1].id \in gone \/ CallsFor(s, tasks[t + 1].id)
          /\ NextIn(s, gone, tasks, t + 1)
        BY <2>1 DEF Awaits
    <2>5. NextIn(s, more, rest, t)
        <3> SUFFICES ASSUME NEW i \in DOMAIN s, NEW l \in DOMAIN s[i].calls,
                            s[i].calls[l] = rest[t].id, NEW k \in 1..(l - 1)
                     PROVE  \/ s[i].calls[k] \in more \/ AnsweredAfter(s, i, s[i].calls[k])
                            \/ \E u \in 1..(t - 1) : rest[u].id = s[i].calls[k]
            BY DEF NextIn
        <3>2. \/ s[i].calls[k] \in gone \/ AnsweredAfter(s, i, s[i].calls[k])
              \/ \E u \in 1..((t + 1) - 1) : tasks[u].id = s[i].calls[k]
            BY <2>1, <2>2 DEF NextIn
        <3>3. ASSUME NEW u \in 1..((t + 1) - 1), tasks[u].id = s[i].calls[k]
              PROVE  \/ s[i].calls[k] \in more
                     \/ \E x \in 1..(t - 1) : rest[x].id = s[i].calls[k]
            <4>1. CASE u = 1
                BY <3>3, <4>1
            <4>2. CASE u # 1
                <5>1. u - 1 \in 1..(t - 1) /\ (u - 1) + 1 = u
                    BY <2>1, <4>2
                <5>2. rest[u - 1] = tasks[u]
                    BY <1>3, <1>4, <5>1
                <5> QED
                    BY <3>3, <5>1, <5>2
            <4> QED
                BY <4>1, <4>2
        <3> QED
            BY <3>2, <3>3
    <2> QED
        BY <2>1, <2>2, <2>5
<1> QED
    BY <1>6 DEF Awaits, rest

(* What is missing excuses as much, and more.                              *)
LEMMA GoneReadable ==
    ASSUME NEW s, NEW gone, NEW more, gone \subseteq more, Readable(s, gone)
    PROVE  Readable(s, more)
BY DEF Readable, HaveCalls, NoneSkipped

LEMMA NumberedAppend ==
    ASSUME NEW s \in Seq(Kinds), NEW n \in Nat, Numbered(s, n), NEW k \in Nat, n <= k,
           NEW m \in Kinds, m.id <= k, \A l \in DOMAIN m.calls : m.calls[l] \in 1..k
    PROVE  Numbered(s, k) /\ Numbered(Append(s, m), k)
<1> DEFINE v == Append(s, m)
<1>1. v[Len(s) + 1] = m /\ (\A i \in 1..Len(s) : v[i] = s[i]) /\ DOMAIN s = 1..Len(s)
      /\ Len(s) \in Nat /\ DOMAIN v = 1..(Len(s) + 1)
    BY AppendShape
<1> HIDE DEF v
<1>2. Numbered(s, k)
    <2>1. \A i \in DOMAIN s : s[i].id \in Nat /\ s[i].id <= n
        BY <1>1, MessageFields DEF Numbered
    <2>2. 1..n \subseteq 1..k
        OBVIOUS
    <2> QED
        BY <2>1, <2>2 DEF Numbered
<1>3. \A i \in DOMAIN v : i \in DOMAIN s \/ i = Len(s) + 1
    BY <1>1
<1> QED
    BY <1>1, <1>2, <1>3 DEF Numbered, v

(* The calls of a reply are the tasks: its message awaits them, and a      *)
(* conversation without it does when it is known to be missing.            *)
LEMMA ProposedAwaits ==
    ASSUME NEW s \in Seq(Kinds), NEW n \in Nat, Numbered(s, n), NEW gone,
           NEW tasks \in Seq(Task), \A t \in DOMAIN tasks : tasks[t].id = n + t
    PROVE  /\ Increasing(tasks, n + Len(tasks))
           /\ (\A t \in DOMAIN tasks : n + t \in gone) => Awaits(s, gone, tasks)
           /\ \A m \in Kinds :
                 /\ m.id = 0 /\ DOMAIN m.calls = DOMAIN tasks
                 /\ \A t \in DOMAIN tasks : m.calls[t] = n + t
                 => Awaits(Append(s, m), gone, tasks)
<1>1. DOMAIN tasks = 1..Len(tasks) /\ Len(tasks) \in Nat /\ DOMAIN s = 1..Len(s) /\ Len(s) \in Nat
    OBVIOUS
<1>2. Increasing(tasks, n + Len(tasks))
    <2>1. \A t \in DOMAIN tasks : tasks[t].id = n + t
        OBVIOUS
    <2>2. \A t \in DOMAIN tasks : n + t <= n + Len(tasks) /\ t \in Nat
        BY ONLY <1>1, n \in Nat
    <2>3. \A t, u \in DOMAIN tasks : t < u => n + t < n + u
        BY ONLY <2>2, n \in Nat
    <2> QED
        BY ONLY <2>1, <2>2, <2>3 DEF Increasing
<1>3. \A i \in DOMAIN s : s[i].id \in Nat /\ s[i].id <= n /\ \A l \in DOMAIN s[i].calls : s[i].calls[l] \in 1..n
    BY <1>1, MessageFields DEF Numbered
<1>4. \A t \in DOMAIN tasks : n + t \notin 1..n /\ n + t > n /\ t \in Nat /\ t > 0
    BY <1>1
<1>5. ASSUME \A t \in DOMAIN tasks : n + t \in gone
      PROVE  Awaits(s, gone, tasks)
    <2> SUFFICES ASSUME NEW t \in DOMAIN tasks
                 PROVE  /\ Newest(s, tasks[t].id) /\ tasks[t].id \in gone
                        /\ NextIn(s, gone, tasks, t)
        BY DEF Awaits
    <2>1. tasks[t].id = n + t
        OBVIOUS
    <2>2. Newest(s, tasks[t].id)
        BY <1>3, <1>4, <2>1 DEF Newest
    <2>3. NextIn(s, gone, tasks, t)
        BY <1>3, <1>4, <2>1 DEF NextIn
    <2> QED
        BY <1>5, <2>1, <2>2, <2>3
<1>6. ASSUME NEW m \in Kinds, m.id = 0, DOMAIN m.calls = DOMAIN tasks,
             \A t \in DOMAIN tasks : m.calls[t] = n + t
      PROVE  Awaits(Append(s, m), gone, tasks)
    <2> DEFINE v == Append(s, m)
    <2>1. v[Len(s) + 1] = m /\ (\A i \in 1..Len(s) : v[i] = s[i]) /\ DOMAIN v = 1..(Len(s) + 1)
          /\ Len(v) = Len(s) + 1
        BY <1>6, AppendShape
    <2> HIDE DEF v
    <2>2. \A i \in DOMAIN v : i \in DOMAIN s \/ i = Len(s) + 1
        BY <1>1, <2>1
    <2>3. ASSUME NEW t \in DOMAIN tasks
          PROVE  /\ Newest(v, tasks[t].id) /\ CallsFor(v, tasks[t].id)
                 /\ NextIn(v, gone, tasks, t)
        <3>1. tasks[t].id = n + t
            OBVIOUS
        <3>2. Newest(v, tasks[t].id)
            BY <1>1, <1>3, <1>4, <1>6, <2>1, <2>2, <3>1 DEF Newest
        <3>3. CallsFor(v, tasks[t].id)
            <4>1. Len(s) + 1 \in DOMAIN v /\ v[Len(s) + 1].calls[t] = tasks[t].id
                  /\ t \in DOMAIN v[Len(s) + 1].calls
                BY <1>1, <1>6, <2>1, <3>1
            <4>2. ((Len(s) + 1) + 1)..Len(v) = {}
                BY <1>1, <2>1
            <4> QED
                BY <4>1, <4>2 DEF CallsFor
        <3>4. NextIn(v, gone, tasks, t)
            <4> SUFFICES ASSUME NEW i \in DOMAIN v, NEW l \in DOMAIN v[i].calls,
                                v[i].calls[l] = tasks[t].id, NEW k \in 1..(l - 1)
                         PROVE  \E u \in 1..(t - 1) : tasks[u].id = v[i].calls[k]
                BY DEF NextIn
            <4>1. i = Len(s) + 1
                BY <1>1, <1>3, <1>4, <2>1, <2>2, <3>1
            <4>2. v[i] = m /\ l \in DOMAIN tasks /\ n + l = n + t
                BY <1>6, <2>1, <3>1, <4>1
            <4>3. l = t /\ k \in 1..(t - 1)
                <5>1. l \in Nat /\ t \in Nat
                    BY <1>4, <4>2
                <5>2. n + l = n + t
                    BY <4>2
                <5>3. l = t
                    BY ONLY <5>1, <5>2, n \in Nat
                <5> QED
                    BY <5>3
            <4>4. k \in DOMAIN tasks
                BY <1>1, <4>3
            <4> QED
                BY <1>6, <4>2, <4>3, <4>4
        <3> QED
            BY <3>2, <3>3, <3>4
    <2> QED
        BY <2>3 DEF Awaits, v
<1> QED
    BY <1>2, <1>5, <1>6

LEMMA CutShape ==
    ASSUME NEW s \in Seq(Kinds), NEW c \in Cuts(s)
    PROVE  LET t == SubSeq(s, c, Len(s)) IN
              /\ c \in Nat /\ c >= 1 /\ Len(s) \in Nat /\ t \in Seq(Kinds)
              /\ Len(t) = Len(s) - c + 1
              /\ \A k \in DOMAIN t : t[k] = s[c + k - 1] /\ c + k - 1 \in DOMAIN s
              /\ c = 1 \/ (c \in DOMAIN s /\ s[c].id = 0)
<1> DEFINE t == SubSeq(s, c, Len(s))
<1>1. c \in 1..(Len(s) + 1) /\ Len(s) \in Nat /\ DOMAIN s = 1..Len(s)
    BY DEF Cuts
<1>2. c = 1 \/ (c \in DOMAIN s /\ s[c].id = 0)
    <2>1. c = 1 \/ (c \in DOMAIN s /\ s[c].role = "user")
        BY DEF Cuts
    <2>2. \A i \in 1..Len(s) : s[i].role # "tool" => s[i].id = 0
        BY MessageFields
    <2> QED
        BY <1>1, <2>1, <2>2
<1>3. t \in Seq(Kinds) /\ Len(t) = Len(s) - c + 1 /\ \A k \in 1..Len(t) : t[k] = s[c + k - 1]
    BY <1>1, SuffixShape
<1> HIDE DEF t
<1>4. DOMAIN t = 1..Len(t) /\ \A k \in 1..Len(t) : c + k - 1 \in 1..Len(s)
    BY <1>1, <1>3
<1> QED
    BY <1>1, <1>2, <1>3, <1>4 DEF t

(* A request is readable: it begins with the first message or a user's.    *)
LEMMA CutReadable ==
    ASSUME NEW s \in Seq(Kinds), NEW gone, Readable(s, gone), NEW c \in Cuts(s)
    PROVE  Readable(SubSeq(s, c, Len(s)), gone)
<1> DEFINE t == SubSeq(s, c, Len(s))
           L == Len(s)
<1>1. /\ c \in Nat /\ c >= 1 /\ L \in Nat /\ t \in Seq(Kinds)
      /\ Len(t) = L - c + 1
      /\ \A k \in DOMAIN t : t[k] = s[c + k - 1] /\ c + k - 1 \in DOMAIN s
      /\ c = 1 \/ (c \in DOMAIN s /\ s[c].id = 0)
    BY CutShape
<1> HIDE DEF t
<1>2. DOMAIN t = 1..Len(t) /\ DOMAIN s = 1..L
    BY <1>1
<1> HIDE DEF L
<1>3. InOrder(t)
    <2> SUFFICES ASSUME NEW i \in DOMAIN t, NEW j \in DOMAIN t, i < j, t[i].id # 0, t[j].id # 0
                 PROVE  t[i].id < t[j].id
        BY DEF InOrder
    <2>1. c + i - 1 < c + j - 1
        BY <1>1, <1>2
    <2> QED
        BY <1>1, <2>1 DEF Readable, InOrder
<1>4. ASSUME NEW j \in DOMAIN t, t[j].id # 0
      PROVE  t[j].id \in gone \/ Called(t, j) \/ CutOff(t, j)
    <2> DEFINE a == c + j - 1
    <2>1. a \in DOMAIN s /\ t[j] = s[a] /\ a >= c /\ a \in Nat /\ j \in Nat
        BY <1>1, <1>2
    <2>2. CASE Called(s, a)
        <3>1. PICK i \in 1..(a - 1) : /\ \E k \in DOMAIN s[i].calls : s[i].calls[k] = s[a].id
                                      /\ \A l \in (i + 1)..a : s[l].id # 0
            BY <2>2 DEF Called
        <3>2. i >= c
            <4>1. CASE c = 1
                BY <3>1, <4>1
            <4>2. CASE s[c].id = 0 /\ i < c
                <5>1. c \in (i + 1)..a
                    BY <1>1, <2>1, <3>1, <4>2
                <5> QED
                    BY <3>1, <4>2, <5>1
            <4> QED
                BY <1>1, <3>1, <4>1, <4>2
        <3>3. i - c + 1 \in 1..(j - 1) /\ i - c + 1 \in DOMAIN t /\ c + (i - c + 1) - 1 = i
            BY <1>1, <1>2, <2>1, <3>1, <3>2
        <3>4. t[i - c + 1] = s[i]
            BY <1>1, <3>3
        <3>5. ASSUME NEW l \in ((i - c + 1) + 1)..j
              PROVE  t[l].id # 0
            <4>1. l \in DOMAIN t /\ c + l - 1 \in (i + 1)..a
                BY <1>1, <1>2, <2>1, <3>1, <3>2
            <4> QED
                BY <1>1, <3>1, <4>1
        <3>6. Called(t, j)
            BY <2>1, <3>1, <3>3, <3>4, <3>5 DEF Called
        <3> QED
            BY <3>6
    <2>3. CASE CutOff(s, a)
        <3>1. s[1] = Summary /\ a <= 3 /\ \A l \in 2..a : s[l].id # 0
            BY <2>3 DEF CutOff
        <3>2. c = 1
            <4>1. c # 1 => c \in 2..a
                BY <1>1, <2>1
            <4> QED
                BY <1>1, <3>1, <4>1
        <3>3. a = j /\ 1 \in DOMAIN t /\ \A l \in 2..j : l \in DOMAIN t
            BY <1>1, <1>2, <2>1, <3>2
        <3>4. \A l \in DOMAIN t : t[l] = s[l]
            BY <1>1, <1>2, <3>2
        <3>5. CutOff(t, j)
            BY <3>1, <3>3, <3>4 DEF CutOff
        <3> QED
            BY <3>5
    <2>4. s[a].id \in gone \/ Called(s, a) \/ CutOff(s, a)
        BY <1>4, <2>1 DEF Readable, HaveCalls
    <2> QED
        BY <2>1, <2>2, <2>3, <2>4
<1>5. ASSUME NEW i \in DOMAIN t, NEW id
      PROVE  AnsweredAfter(t, i, id) <=> AnsweredAfter(s, c + i - 1, id)
    <2>1. ASSUME NEW j \in (i + 1)..Len(t)
          PROVE  c + j - 1 \in ((c + i - 1) + 1)..L /\ t[j] = s[c + j - 1]
        <3>1. i \in Nat /\ i >= 1 /\ Len(t) \in Nat /\ Len(t) = L - c + 1
            BY <1>1, <1>2
        <3>2. j \in DOMAIN t
            BY <1>2, <3>1
        <3>3. c \in Nat /\ L \in Nat
            BY <1>1
        <3>4. j \in Nat /\ i + 1 <= j /\ j <= L - c + 1
            BY <3>1, <3>3
        <3>5. c + j - 1 \in Int /\ c + i <= c + j - 1 /\ c + j - 1 <= L
            BY ONLY <3>1, <3>3, <3>4
        <3>6. c + j - 1 \in ((c + i - 1) + 1)..L
            BY ONLY <3>1, <3>3, <3>5
        <3> QED
            BY <1>1, <3>2, <3>6
    <2>2. ASSUME NEW j \in ((c + i - 1) + 1)..L
          PROVE  j - c + 1 \in (i + 1)..Len(t) /\ t[j - c + 1] = s[j]
        <3>1. j - c + 1 \in (i + 1)..Len(t) /\ c + (j - c + 1) - 1 = j /\ j - c + 1 \in DOMAIN t
            BY <1>1, <1>2
        <3> QED
            BY <1>1, <3>1
    <2>3. Len(s) = L
        BY DEF L
    <2>4. ASSUME AnsweredAfter(t, i, id)
          PROVE  AnsweredAfter(s, c + i - 1, id)
        BY <2>1, <2>3, <2>4 DEF AnsweredAfter
    <2>5. ASSUME AnsweredAfter(s, c + i - 1, id)
          PROVE  AnsweredAfter(t, i, id)
        BY <2>2, <2>3, <2>5 DEF AnsweredAfter
    <2> QED
        BY <2>4, <2>5
<1>6. NoneSkipped(t, gone)
    <2> SUFFICES ASSUME NEW i \in DOMAIN t, NEW l \in DOMAIN t[i].calls,
                        AnsweredAfter(t, i, t[i].calls[l]), NEW k \in 1..(l - 1)
                 PROVE  t[i].calls[k] \in gone \/ AnsweredAfter(t, i, t[i].calls[k])
        BY DEF NoneSkipped
    <2>1. c + i - 1 \in DOMAIN s /\ t[i] = s[c + i - 1]
        BY <1>1
    <2> QED
        BY <1>5, <2>1 DEF Readable, NoneSkipped
<1> QED
    BY <1>3, <1>4, <1>6 DEF Readable, HaveCalls, t

(* So is what a compaction keeps.                                          *)
LEMMA CompactedReadable ==
    ASSUME NEW s \in Seq(Kinds), Len(s) > 2, NEW gone, Readable(s, gone), NEW n \in Nat,
           Numbered(s, n)
    PROVE  Readable(Compacted(s), gone) /\ Numbered(Compacted(s), n)
<1> DEFINE t == Compacted(s)
           L == Len(s)
<1>1. /\ t \in Seq(Kinds) /\ Len(t) = 3 /\ t[1] = Summary /\ t[2] = s[L - 1] /\ t[3] = s[L]
    BY CompactedShape
<1>2. L \in Nat /\ L > 2 /\ DOMAIN s = 1..L /\ L - 1 \in 1..L /\ L \in 1..L /\ L - 1 < L
    OBVIOUS
<1> HIDE DEF t
<1>3. DOMAIN t = {1, 2, 3}
    BY <1>1
<1>s. t[1].id = 0 /\ t[1].calls = <<>> /\ DOMAIN t[1].calls = {}
    BY <1>1, KindFields
<1>l. Len(s) = L
    OBVIOUS
<1> HIDE DEF L
<1>4. InOrder(t)
    <2>1. t[2].id # 0 /\ t[3].id # 0 => t[2].id < t[3].id
        BY <1>1, <1>2 DEF Readable, InOrder
    <2> QED
        BY <1>3, <1>s, <2>1 DEF InOrder
<1>5. HaveCalls(t, gone)
    <2>1. t[2].id # 0 => CutOff(t, 2)
        BY <1>1 DEF CutOff
    <2>2. t[2].id # 0 /\ t[3].id # 0 => CutOff(t, 3)
        BY <1>1 DEF CutOff
    <2>3. ASSUME t[2].id = 0, t[3].id # 0
          PROVE  t[3].id \in gone \/ Called(t, 3)
        <3>1. s[L].id \in gone \/ Called(s, L) \/ CutOff(s, L)
            BY <1>1, <1>2, <2>3 DEF Readable, HaveCalls
        <3>2. ~CutOff(s, L)
            <4>1. L - 1 \in 2..L
                BY <1>2
            <4> QED
                BY <1>1, <2>3, <4>1 DEF CutOff
        <3>3. CASE Called(s, L)
            <4>1. PICK i \in 1..(L - 1) : /\ \E k \in DOMAIN s[i].calls : s[i].calls[k] = s[L].id
                                          /\ \A l \in (i + 1)..L : s[l].id # 0
                BY <3>3 DEF Called
            <4>2. i = L - 1
                <5>1. i < L - 1 => L - 1 \in (i + 1)..L
                    BY <1>2
                <5> QED
                    BY <1>1, <1>2, <2>3, <4>1, <5>1
            <4>3. \A l \in (2 + 1)..3 : t[l].id # 0
                BY <2>3
            <4> QED
                BY <1>1, <4>1, <4>2, <4>3 DEF Called
        <3> QED
            BY <1>1, <3>1, <3>2, <3>3
    <2> QED
        BY <1>3, <1>s, <2>1, <2>2, <2>3 DEF HaveCalls
<1>6. NoneSkipped(t, gone)
    <2>1. \A id : AnsweredAfter(t, 2, id) <=> t[3].id = id
        BY <1>1 DEF AnsweredAfter
    <2>2. \A id : ~AnsweredAfter(t, 3, id)
        BY <1>1 DEF AnsweredAfter
    <2>3. \A id : AnsweredAfter(s, L - 1, id) <=> s[L].id = id
        BY <1>2, <1>l DEF AnsweredAfter
    <2>4. \A l \in DOMAIN t[2].calls :
            AnsweredAfter(t, 2, t[2].calls[l]) =>
                \A k \in 1..(l - 1) : t[2].calls[k] \in gone \/ AnsweredAfter(t, 2, t[2].calls[k])
        BY <1>1, <1>2, <2>1, <2>3 DEF Readable, NoneSkipped
    <2> QED
        BY <1>3, <1>s, <2>2, <2>4 DEF NoneSkipped
<1>7. Numbered(t, n)
    BY <1>1, <1>2, <1>3, <1>s DEF Numbered
<1> QED
    BY <1>4, <1>5, <1>6, <1>7 DEF Readable, t

LEMMA NothingReadable ==
    /\ \A gone : Readable(<<>>, gone)
    /\ \A n : Numbered(<<>>, n) /\ Increasing(<<>>, n)
    /\ \A s, gone : Awaits(s, gone, <<>>)
<1>1. DOMAIN <<>> = {}
    OBVIOUS
<1> QED
    BY <1>1 DEF Readable, InOrder, HaveCalls, NoneSkipped, Numbered, Increasing, Awaits

(* Whatever but a result is said, and written or not, keeps both readable. *)
LEMMA SaidReadable ==
    ASSUME LoopInv, ReadInv, NEW m \in Kinds, m.id = 0, AppendMessage(m),
           NEW k \in Nat, issued <= k, \A l \in DOMAIN m.calls : m.calls[l] \in 1..k
    PROVE  /\ Readable(messages', missed') /\ Numbered(messages', k)
           /\ Readable(log', lost') /\ Numbered(log', k)
<1>1. messages \in Seq(Kinds) /\ log \in Seq(Kinds) /\ issued \in Nat
    BY DEF LoopInv, TalkInv, CountersInv
<1>2. /\ Readable(messages, missed) /\ Numbered(messages, issued)
      /\ Readable(log, lost) /\ Numbered(log, issued)
    BY DEF ReadInv, Sound
<1>3. messages' = Append(messages, m) /\ missed' = missed
    BY AppendWrites
<1>4. \/ log' = Append(log, m) /\ lost' = lost
      \/ log' = log /\ lost' = lost \cup IdsOf(m)
    BY AppendWrites
<1>5. \A s \in Seq(Kinds) : Numbered(s, issued) =>
          /\ Numbered(s, k) /\ Numbered(Append(s, m), k)
          /\ \A gone : Readable(s, gone) => Readable(Append(s, m), gone)
    <2> SUFFICES ASSUME NEW s \in Seq(Kinds), Numbered(s, issued)
                 PROVE  /\ Numbered(s, k) /\ Numbered(Append(s, m), k)
                        /\ \A gone : Readable(s, gone) => Readable(Append(s, m), gone)
        OBVIOUS
    <2>1. m.id <= k
        OBVIOUS
    <2>2. Numbered(s, k) /\ Numbered(Append(s, m), k)
        BY <1>1, <2>1, NumberedAppend
    <2>3. \A gone : Readable(s, gone) => Readable(Append(s, m), gone)
        BY PlainReadable
    <2> QED
        BY <2>2, <2>3
<1>6. Readable(messages', missed') /\ Numbered(messages', k)
    BY <1>1, <1>2, <1>3, <1>5
<1>7. Readable(log', lost') /\ Numbered(log', k)
    <2>1. CASE log' = Append(log, m) /\ lost' = lost
        BY <1>1, <1>2, <1>5, <2>1
    <2>2. CASE log' = log /\ lost' = lost \cup IdsOf(m)
        <3>1. lost \subseteq lost'
            BY <2>2
        <3> QED
            BY <1>1, <1>2, <1>5, <2>2, <3>1, GoneReadable
    <2> QED
        BY <1>4, <2>1, <2>2
<1> QED
    BY <1>6, <1>7

(* A reply opens its tasks in the memory, and in the file or among what    *)
(* the file never got.                                                     *)
LEMMA ProposedReads ==
    ASSUME LoopInv, ReadInv, NEW r \in Replies, Proposes(r)
    PROVE  ReadInv'
<1> DEFINE k == Len(r.calls)
           m == Says(Ids(k))
<1>1. issued \in Nat /\ k \in Nat /\ issued' = issued + k /\ AppendMessage(m) /\ request' = <<>>
    BY ReplyFields DEF LoopInv, CountersInv, Proposes, Received
<1>2. Ids(k) \in Seq(Nat) /\ Len(Ids(k)) = k /\ \A i \in 1..k : Ids(k)[i] = issued + i
    BY <1>1, IdsTyped
<1>3. m \in Kinds /\ m.calls = Ids(k) /\ m.id = 0
    BY <1>2, KindFields
<1>4. todo' = [i \in DOMAIN r.calls |-> [call |-> r.calls[i], id |-> issued + i]]
    BY DEF Proposes
<1>5. todo' \in Seq(Task) /\ Len(todo') = k /\ \A i \in 1..k : todo'[i].id = issued + i
    BY <1>1, <1>4, TodoOfReply
<1> HIDE DEF m, k
<1>6. /\ m.calls \in Seq(Nat) /\ DOMAIN m.calls = 1..k /\ DOMAIN todo' = 1..k
      /\ \A i \in 1..k : m.calls[i] = issued + i /\ todo'[i].id = issued + i
    BY <1>2, <1>3, <1>5
<1>7. \A l \in DOMAIN m.calls : m.calls[l] \in 1..(issued + k)
    <2>1. issued \in Nat /\ k \in Nat
        BY <1>1
    <2>2. \A l \in 1..k : issued + l \in 1..(issued + k)
        BY ONLY <2>1
    <2> QED
        BY <1>6, <2>2
<1>8. /\ Readable(messages', missed') /\ Numbered(messages', issued')
      /\ Readable(log', lost') /\ Numbered(log', issued')
    <2>1. issued + k \in Nat /\ issued <= issued + k
        BY <1>1
    <2> QED
        BY <1>1, <1>3, <1>7, <2>1, SaidReadable
<1>9. messages \in Seq(Kinds) /\ log \in Seq(Kinds)
      /\ Numbered(messages, issued) /\ Numbered(log, issued)
    BY DEF LoopInv, TalkInv, ReadInv, Sound
<1>10. /\ Increasing(todo', issued')
       /\ \A gone :
            /\ Awaits(Append(messages, m), gone, todo')
            /\ Awaits(Append(log, m), gone, todo')
            /\ (\A t \in DOMAIN todo' : issued + t \in gone) => Awaits(log, gone, todo')
    <2>1. \A s \in Seq(Kinds) : Numbered(s, issued) =>
            /\ Increasing(todo', issued + Len(todo'))
            /\ \A gone :
                 /\ Awaits(Append(s, m), gone, todo')
                 /\ (\A t \in DOMAIN todo' : issued + t \in gone) => Awaits(s, gone, todo')
        <3> DEFINE tasks == todo'
        <3>1. /\ tasks \in Seq(Task) /\ DOMAIN tasks = 1..k
              /\ DOMAIN m.calls = 1..k
              /\ \A t \in 1..k : tasks[t].id = issued + t /\ m.calls[t] = issued + t
            BY <1>5, <1>6
        <3> HIDE DEF tasks
        <3>2. \A s \in Seq(Kinds) : Numbered(s, issued) =>
                /\ Increasing(tasks, issued + Len(tasks))
                /\ \A gone :
                     /\ Awaits(Append(s, m), gone, tasks)
                     /\ (\A t \in DOMAIN tasks : issued + t \in gone) => Awaits(s, gone, tasks)
            BY <1>1, <1>3, <3>1, ProposedAwaits
        <3> QED
            BY <3>2 DEF tasks
    <2> QED
        BY <1>1, <1>5, <1>9, <2>1
<1>11. messages' = Append(messages, m) /\ Awaits(messages', missed', todo')
    BY <1>1, <1>3, <1>10, AppendWrites
<1>12. Awaits(log', lost', todo')
    <2>1. CASE log' = Append(log, m)
        BY <1>10, <2>1
    <2>2. CASE log' = log /\ lost' = lost \cup IdsOf(m)
        <3>1. \A t \in DOMAIN todo' : issued + t \in lost'
            <4>1. \A t \in 1..k : issued + t \in ToSet(m.calls)
                BY <1>6 DEF ToSet
            <4> QED
                BY <1>6, <2>2, <4>1 DEF IdsOf
        <3> QED
            BY <1>10, <2>2, <3>1
    <2> QED
        BY <1>1, <1>3, <2>1, <2>2, AppendWrites
<1> QED
    BY <1>1, <1>8, <1>10, <1>11, <1>12, NothingReadable DEF ReadInv, Sound

(* A result comes behind its call, or is known to be missing in the file.  *)
LEMMA ResultReads ==
    ASSUME LoopInv, ReadInv, TakeResult
    PROVE  ReadInv'
<1> DEFINE m == Result(todo[1].id)
<1>1. messages \in Seq(Kinds) /\ log \in Seq(Kinds) /\ issued \in Nat /\ todo \in Seq(Task)
      /\ todo # <<>>
    BY DEF LoopInv, TalkInv, CountersInv, TakeResult
<1>2. todo' = Tail(todo) /\ AppendMessage(m) /\ request' = request /\ issued' = issued
    <2>1. Head(todo) = todo[1]
        BY <1>1, HeadTask DEF LoopInv
    <2> QED
        BY <2>1 DEF TakeResult
<1>3. todo[1] \in Task /\ 1 \in DOMAIN todo
    BY <1>1
<1>4. m \in Kinds /\ m.id = todo[1].id /\ m.calls = <<>> /\ m.id # 0
    BY <1>3, KindFields DEF Task
<1>5. m.id <= issued /\ \A l \in DOMAIN m.calls : m.calls[l] \in 1..issued
    BY <1>3, <1>4 DEF ReadInv, Increasing
<1>6. /\ Readable(messages, missed) /\ Numbered(messages, issued) /\ Awaits(messages, missed, todo)
      /\ Readable(log, lost) /\ Numbered(log, issued) /\ Awaits(log, lost, todo)
      /\ Readable(request, missed) /\ Increasing(todo, issued)
    BY DEF ReadInv, Sound
<1>7. ASSUME NEW s \in Seq(Kinds), NEW gone, Readable(s, gone), Numbered(s, issued),
             Awaits(s, gone, todo)
      PROVE  /\ Readable(Append(s, m), gone) /\ Numbered(Append(s, m), issued)
             /\ Awaits(Append(s, m), gone, Tail(todo))
    <2>1. Readable(Append(s, m), gone)
        BY <1>1, <1>7, ResultReadable
    <2>2. Awaits(Append(s, m), gone, Tail(todo))
        BY <1>1, <1>6, <1>7, ResultAwaits
    <2>3. Numbered(Append(s, m), issued)
        BY <1>1, <1>4, <1>5, <1>7, NumberedAppend
    <2> QED
        BY <2>1, <2>2, <2>3
<1> HIDE DEF m
<1>8. messages' = Append(messages, m) /\ missed' = missed
    BY <1>2, <1>4, AppendWrites
<1>9. Sound(messages, missed, todo)'
    BY <1>1, <1>2, <1>6, <1>7, <1>8 DEF Sound
<1>10. Sound(log, lost, todo)'
    <2>1. CASE log' = Append(log, m) /\ lost' = lost
        BY <1>1, <1>2, <1>6, <1>7, <2>1 DEF Sound
    <2>2. CASE log' = log /\ lost' = lost \cup IdsOf(m)
        <3>1. lost \subseteq lost' /\ todo[1].id \in lost'
            BY <1>4, <2>2 DEF IdsOf
        <3>2. Readable(log, lost')
            BY <1>6, <3>1, GoneReadable
        <3>3. Awaits(log, lost', Tail(todo))
            BY <1>1, <1>6, <3>1, LostAwaits
        <3> QED
            BY <1>2, <1>6, <2>2, <3>2, <3>3 DEF Sound
    <2> QED
        BY <1>2, <1>4, <2>1, <2>2, AppendWrites
<1>11. Increasing(todo, issued)'
    BY <1>1, <1>2, <1>6, LaterTasks
<1> QED
    BY <1>2, <1>6, <1>8, <1>9, <1>10, <1>11 DEF ReadInv

LEMMA ReadStep ==
    ASSUME LoopInv, LoopInv', ReadInv, [AgentNext]_agentVars
    PROVE  ReadInv'
<1>t. /\ messages \in Seq(Kinds) /\ log \in Seq(Kinds) /\ issued \in Nat
      /\ \A l \in DOMAIN <<>> : FALSE
    BY DEF LoopInv, TalkInv, CountersInv
<1>r. /\ Readable(messages, missed) /\ Numbered(messages, issued)
      /\ Readable(log, lost) /\ Numbered(log, issued)
      /\ Readable(request, missed)
    BY DEF ReadInv, Sound
<1>e. ASSUME todo' = <<>>, issued' = issued,
             Readable(messages', missed'), Numbered(messages', issued),
             Readable(log', lost'), Numbered(log', issued), Readable(request', missed')
      PROVE  ReadInv'
    <2>1. Increasing(todo', issued')
        BY <1>e, NothingReadable
    <2>2. Awaits(messages', missed', todo') /\ Awaits(log', lost', todo')
        BY <1>e, NothingReadable
    <2> QED
        BY <1>e, <2>1, <2>2 DEF ReadInv, Sound
<1>d. pc' \notin {"calls", "exec"} => todo' = <<>>
    BY DEF LoopInv, TalkInv
<1>1. ASSUME NEW m \in {User, Note, Summary}, AppendMessage(m), pc' \notin {"calls", "exec"},
             issued' = issued, request' = request \/ request' = <<>>
      PROVE  ReadInv'
    <2>1. m \in Kinds /\ m.id = 0 /\ m.calls = <<>>
        BY KindFields
    <2>2. \A l \in DOMAIN m.calls : m.calls[l] \in 1..issued
        BY <2>1
    <2>3. missed' = missed
        BY <1>1, <2>1, AppendWrites
    <2>4. Readable(request', missed')
        BY <1>1, <1>r, <2>3, NothingReadable
    <2> QED
        BY <1>1, <1>t, <1>d, <1>e, <2>1, <2>2, <2>4, SaidReadable
<1>2. CASE StartTurn \/ Hint
    <2>1. \E m \in {User, Note, Summary} : AppendMessage(m)
        BY <1>2 DEF StartTurn, Hint
    <2>2. pc' \notin {"calls", "exec"} /\ issued' = issued /\ request' = request
        BY <1>2 DEF StartTurn, Hint
    <2> QED
        BY <1>1, <2>1, <2>2
<1>3. ASSUME NEW r \in Replies, FinalAnswer(r) \/ NeedsHint(r)
      PROVE  ReadInv'
    <2>1. AppendMessage(Summary)
        BY <1>3, <1>t, PlainReply DEF FinalAnswer, NeedsHint
    <2>2. pc' \notin {"calls", "exec"} /\ issued' = issued /\ request' = <<>>
        BY <1>3 DEF FinalAnswer, NeedsHint, EndTurn
    <2> QED
        BY <1>1, <2>1, <2>2
<1>4. ASSUME NEW r \in Replies, Proposes(r)
      PROVE  ReadInv'
    BY <1>4, ProposedReads
<1>5. CASE TakeResult
    BY <1>5, ResultReads
<1>6. CASE Build
    <2>1. PICK c \in Cuts(messages) : request' = SubSeq(messages, c, Len(messages))
        BY <1>6 DEF Build, Pack
    <2>2. Readable(request', missed)
        BY <1>t, <1>r, <2>1, CutReadable
    <2>3. UNCHANGED <<messages, log, lost, missed, issued>> /\ pc' = "stream"
        BY <1>6 DEF Build, Pack, stored
    <2> QED
        BY <1>d, <1>e, <1>r, <2>2, <2>3
<1>7. CASE Compact \/ CompactCommand
    <2>1. Readable(messages', missed) /\ Numbered(messages', issued)
          /\ UNCHANGED <<log, lost, missed>>
        BY <1>7, <1>t, <1>r, CompactWrites, CompactedReadable
    <2>2. pc' \notin {"calls", "exec"} /\ issued' = issued /\ request' = request
        BY <1>7 DEF Compact, CompactCommand
    <2> QED
        BY <1>d, <1>e, <1>r, <2>1, <2>2
<1>8. CASE Clear
    <2>1. messages' = <<>> /\ log' = Append(log, Note) /\ lost' = lost /\ missed' = missed
          /\ pc' = "prompt" /\ issued' = issued /\ request' = request
        BY <1>8 DEF Clear
    <2>2. Note \in Kinds /\ Note.id = 0 /\ Note.calls = <<>>
        BY KindFields
    <2>3. Readable(Append(log, Note), lost)
        BY <1>t, <1>r, <2>2, PlainReadable
    <2>4. Numbered(Append(log, Note), issued)
        <3>1. 0 <= issued /\ issued <= issued /\ \A l \in DOMAIN Note.calls : Note.calls[l] \in 1..issued
            BY <1>t, <2>2
        <3> QED
            BY <1>t, <1>r, <2>2, <3>1, NumberedAppend
    <2>5. Readable(messages', missed') /\ Numbered(messages', issued)
        BY <2>1, NothingReadable
    <2> QED
        BY <1>d, <1>e, <1>r, <2>1, <2>3, <2>4, <2>5
<1>9. CASE Crash
    <2>1. messages' = log /\ log' = log /\ missed' = lost /\ lost' = lost
        BY <1>9 DEF Crash
    <2>2. pc' = "prompt" /\ issued' = issued /\ request' = <<>>
        BY <1>9 DEF Crash, EndTurn
    <2> QED
        BY <1>d, <1>e, <1>r, <2>1, <2>2, NothingReadable
<1>10. CASE ~Telling
    <2>1. /\ UNCHANGED <<messages, log, lost, missed, issued>>
          /\ request' = request \/ request' = <<>>
          /\ Working' => todo' = todo
        BY <1>10, QuietStep DEF Quiet, stored
    <2>2. Readable(request', missed')
        BY <1>r, <2>1, NothingReadable
    <2>3. CASE Working'
        BY <2>1, <2>2, <2>3 DEF ReadInv, Sound
    <2>4. CASE ~Working'
        BY <1>d, <1>e, <1>r, <2>1, <2>2, <2>4 DEF Working
    <2> QED
        BY <2>3, <2>4
<1> QED
    BY <1>2, <1>3, <1>4, <1>5, <1>6, <1>7, <1>8, <1>9, <1>10 DEF Telling

-----------------------------------------------------------------------------
(* The model is asked again with every result, and a completed turn ends   *)
(* on an answer.                                                           *)

LEMMA QuietSettles ==
    ASSUME LoopInv, SettledInv, Quiet
    PROVE  SettledInv'
<1>1. ASSUME pc' \in Asking \cup {"hint"}
      PROVE  \A i \in DOMAIN messages' : Settled(messages', i)
    <2>1. messages' = messages /\ messages \in Seq(Kinds)
        BY DEF Quiet, LoopInv, TalkInv
    <2>2. CASE pc \in Asking \cup {"hint"}
        BY <2>1, <2>2 DEF SettledInv
    <2>3. CASE pc = "calls" /\ todo = <<>>
        <3>1. \A i \in DOMAIN messages : Settled(messages, i) \/ OpenRound(messages, i, <<>>)
            BY <2>3 DEF SettledInv, Working
        <3> QED
            BY <2>1, <3>1, OpenIsOver
    <2> QED
        BY <1>1, <2>2, <2>3 DEF Quiet
<1>2. ASSUME Working'
      PROVE  /\ \E i \in DOMAIN messages' : OpenRound(messages', i, todo')
             /\ \A i \in DOMAIN messages' :
                   Settled(messages', i) \/ OpenRound(messages', i, todo')
    BY <1>2 DEF SettledInv, Quiet
<1> QED
    BY <1>1, <1>2 DEF SettledInv

LEMMA SettledStep ==
    ASSUME LoopInv, LoopInv', SettledInv, [AgentNext]_agentVars
    PROVE  SettledInv'
<1>t. messages \in Seq(Kinds) /\ todo \in Seq(Task) /\ issued \in Nat
    BY DEF LoopInv, TalkInv, CountersInv
<1>k. User \in Kinds /\ User.id = 0 /\ Note \in Kinds /\ Note.id = 0 /\ Note.role = "tool"
      /\ Summary \in Kinds /\ Summary.id = 0
    BY KindFields
<1>p. pc' = "prompt" => SettledInv'
    BY DEF SettledInv, Working, Asking
<1>1. CASE StartTurn
    <2>1. messages' = Append(messages, User) /\ pc' = "head"
        BY <1>1 DEF StartTurn, AppendMessage
    <2> QED
        BY <1>t, <2>1, UserSettles DEF SettledInv, Working
<1>2. CASE Build
    <2>1. messages' = messages /\ pc \in Asking /\ pc' = "stream"
        BY <1>2 DEF Build, Pack, Asking
    <2> QED
        BY <2>1 DEF SettledInv, Working
<1>3. CASE Hint
    <2>1. messages' = Append(messages, Note) /\ pc = "hint" /\ pc' = "head"
        BY <1>3 DEF Hint, AppendMessage
    <2>2. \A i \in DOMAIN messages : Settled(messages, i)
        BY <2>1 DEF SettledInv
    <2>3. \A i \in DOMAIN messages' : Settled(messages', i)
        BY <1>t, <1>k, <2>1, <2>2, SettledAppend
    <2> QED
        BY <2>1, <2>3 DEF SettledInv, Working
<1>4. CASE TakeResult
    <2>1. pc = "exec" /\ todo # <<>> /\ pc' = "calls" /\ todo' = Tail(todo)
          /\ messages' = Append(messages, Result(Head(todo).id))
        BY <1>4 DEF TakeResult, AppendMessage, LoopInv, TalkInv
    <2>2. PICK i \in DOMAIN messages : OpenRound(messages, i, todo)
        BY <2>1 DEF SettledInv, Working
    <2>3. \A j \in DOMAIN messages : Settled(messages, j) \/ OpenRound(messages, j, todo)
        BY <2>1 DEF SettledInv, Working
    <2>4. \A j \in DOMAIN messages' : Settled(messages', j) \/ OpenRound(messages', j, todo')
        BY <1>t, <2>1, <2>2, <2>3, SettledResult
    <2>5. OpenRound(messages', i, todo')
        BY <1>t, <2>1, <2>2, ResultOpen
    <2>6. i \in DOMAIN messages'
        BY <2>5 DEF OpenRound
    <2> QED
        BY <2>1, <2>4, <2>5, <2>6 DEF SettledInv, Asking
<1>5. CASE Compact
    <2>1. Len(messages) > 2 /\ messages' = Compacted(messages) /\ pc \in Asking /\ pc' = "rebuild"
        BY <1>5 DEF Compact, CompactMemory, Asking, LoopInv, TalkInv
    <2>2. \A i \in DOMAIN messages : Settled(messages, i)
        BY <2>1 DEF SettledInv
    <2>3. \A i \in DOMAIN messages' : Settled(messages', i)
        BY <1>t, <2>1, <2>2, CompactedSettled
    <2> QED
        BY <2>1, <2>3 DEF SettledInv, Working
<1>6. ASSUME NEW r \in Replies, NeedsHint(r)
      PROVE  SettledInv'
    <2>1. AppendMessage(Summary)
        BY <1>6, <1>t, PlainReply DEF NeedsHint
    <2>2. messages' = Append(messages, Summary) /\ pc = "stream" /\ pc' = "hint"
        BY <1>6, <2>1 DEF NeedsHint, Received, AppendMessage
    <2>3. \A i \in DOMAIN messages : Settled(messages, i)
        BY <2>2 DEF SettledInv, Asking
    <2>4. \A i \in DOMAIN messages' : Settled(messages', i)
        BY <1>t, <1>k, <2>2, <2>3, SettledAppend
    <2> QED
        BY <2>2, <2>4 DEF SettledInv, Working
<1>7. ASSUME NEW r \in Replies, Proposes(r)
      PROVE  SettledInv'
    <2> DEFINE m == Says(Ids(Len(r.calls)))
    <2>1. /\ m \in Kinds /\ m.id = 0
          /\ messages' = Append(messages, m)
          /\ OpenRound(messages', Len(messages) + 1, todo')
        BY <1>7, ProposedRound
    <2> HIDE DEF m
    <2>2. pc = "stream" /\ pc' = "calls"
        BY <1>7 DEF Proposes, Received
    <2>3. \A i \in DOMAIN messages : Settled(messages, i)
        BY <2>2 DEF SettledInv, Asking
    <2>4. \A i \in 1..Len(messages) : Settled(messages', i)
        <3>1. \A i \in 1..Len(messages) : Settled(messages, i)
            BY <1>t, <2>3
        <3>2. \A i \in 1..Len(messages) : Settled(Append(messages, m), i)
            BY <1>t, <2>1, <3>1, SettledKept
        <3> QED
            BY <2>1, <3>2
    <2>5. DOMAIN messages' = 1..(Len(messages) + 1) /\ Len(messages) \in Nat
        BY <1>t, <2>1, AppendShape
    <2>6. \A i \in DOMAIN messages' : Settled(messages', i) \/ OpenRound(messages', i, todo')
        BY <2>1, <2>4, <2>5
    <2>7. Len(messages) + 1 \in DOMAIN messages'
        BY <2>5
    <2> QED
        BY <2>1, <2>2, <2>6, <2>7 DEF SettledInv, Asking
<1>8. CASE Clear \/ CompactCommand \/ Crash \/ \E r \in Replies : FinalAnswer(r)
    BY <1>8, <1>p DEF Clear, CompactCommand, Crash, FinalAnswer, EndTurn
<1>9. CASE ~Telling
    BY <1>9, QuietStep, QuietSettles
<1> QED
    BY <1>1, <1>2, <1>3, <1>4, <1>5, <1>6, <1>7, <1>8, <1>9 DEF Telling

LEMMA AnswerStep ==
    ASSUME LoopInv, LoopInv', AnswerInv, [AgentNext]_agentVars
    PROVE  AnswerInv'
<1>t. messages \in Seq(Kinds) /\ issued \in Nat
    BY DEF LoopInv, TalkInv, CountersInv
<1>1. ASSUME NEW r \in Replies, FinalAnswer(r)
      PROVE  AnswerInv'
    <2>1. messages' = Append(messages, Summary)
        BY <1>1, <1>t, PlainReply DEF FinalAnswer, AppendMessage
    <2>2. Last(messages') = Summary
        BY <1>t, <2>1, KindFields, AppendShape DEF Last
    <2>3. ~pressed' /\ ~expired'
        BY <1>1 DEF FinalAnswer, Received, MustStop, LoopInv, CountersInv
    <2> QED
        BY <2>2, <2>3 DEF AnswerInv
<1>2. CASE CompactCommand
    <2>1. Len(messages) > 2 /\ messages' = Compacted(messages)
          /\ UNCHANGED <<pc, stop, pressed, expired>>
        BY <1>2 DEF CompactCommand, CompactMemory
    <2>2. Len(messages') = 3 /\ messages'[3] = messages[Len(messages)] /\ messages # <<>>
        BY <1>t, <2>1, CompactedShape
    <2>3. Last(messages') = Last(messages)
        BY <2>2 DEF Last
    <2> QED
        BY <2>1, <2>2, <2>3 DEF AnswerInv
<1>3. CASE Clear
    BY <1>3 DEF Clear, AnswerInv
<1>4. CASE CheckStop \/ Exhausted \/ OverflowError \/ LoopStop \/ ProviderFails \/ StreamStopped
           \/ Crash
    BY <1>4
       DEF CheckStop, Exhausted, OverflowError, LoopStop, ProviderFails, StreamStopped, Crash,
           EndTurn, StopReason, AnswerInv
<1>5. CASE StartTurn \/ Iterate \/ Build \/ Overflow \/ Hint \/ CallsDone \/ Execute \/ TakeResult
    BY <1>5 DEF StartTurn, Iterate, Build, Pack, Overflow, Hint, CallsDone, Execute, TakeResult,
                AnswerInv
<1>6. CASE Compact \/ Delta \/ Retry \/ BackoffOver \/ CtrlC \/ Expire
    BY <1>6 DEF Compact, Delta, Retry, BackoffOver, CtrlC, Expire, AnswerInv
<1>7. ASSUME NEW r \in Replies, NeedsHint(r) \/ Proposes(r)
      PROVE  AnswerInv'
    BY <1>7 DEF NeedsHint, Proposes, AnswerInv
<1>8. CASE ToolSide \/ ModeCommand \/ UNCHANGED agentVars
    BY <1>8 DEF ToolSide, ModeCommand, agentVars, loopVars, AnswerInv
<1> QED
    BY <1>1, <1>2, <1>3, <1>4, <1>5, <1>6, <1>7, <1>8 DEF AgentNext, LoopStep, StreamEnds

-----------------------------------------------------------------------------
LEMMA ResultsAppend ==
    ASSUME NEW s \in Seq(Kinds), NEW m \in Kinds
    PROVE  LET n == Cardinality(ResultsIn(s))
               k == Cardinality(ResultsIn(Append(s, m))) IN
              n \in Nat /\ k = IF m.id = 0 THEN n ELSE n + 1
<1> DEFINE t == Append(s, m)
<1>1. Len(s) \in Nat /\ DOMAIN s = 1..Len(s) /\ DOMAIN t = 1..(Len(s) + 1) /\ t[Len(s) + 1] = m
      /\ \A k \in 1..Len(s) : t[k] = s[k]
    BY AppendShape
<1> HIDE DEF t
<1>2. IsFiniteSet(1..Len(s)) /\ ResultsIn(s) \in SUBSET (1..Len(s))
    BY <1>1, FS_Interval DEF ResultsIn
<1>3. IsFiniteSet(ResultsIn(s))
    BY <1>2, FS_Subset
<1>4. Cardinality(ResultsIn(s)) \in Nat
    BY <1>3, FS_CardinalityType
<1>5. 1..(Len(s) + 1) = (1..Len(s)) \cup {Len(s) + 1} /\ Len(s) + 1 \notin 1..Len(s)
    BY <1>1
<1>6. CASE m.id = 0
    <2>1. ResultsIn(t) = ResultsIn(s)
        BY <1>1, <1>5, <1>6 DEF ResultsIn
    <2> QED
        BY <1>4, <1>6, <2>1 DEF t
<1>7. CASE m.id # 0
    <2>1. ResultsIn(t) = ResultsIn(s) \cup {Len(s) + 1} /\ Len(s) + 1 \notin ResultsIn(s)
        BY <1>1, <1>5, <1>7 DEF ResultsIn
    <2>2. Cardinality(ResultsIn(t)) = Cardinality(ResultsIn(s)) + 1
        BY <1>3, <2>1, FS_AddElement
    <2> QED
        BY <1>4, <1>7, <2>2 DEF t
<1> QED
    BY <1>6, <1>7

LEMMA BusySame ==
    ASSUME [AgentNext]_agentVars, ~Execute, ~TakeResult, ~Crash
    PROVE  serial' = serial /\ crashes' = crashes /\ (stage' = "idle" <=> stage = "idle")
<1>1. CASE CheckStop \/ Exhausted \/ Iterate \/ Build \/ Overflow \/ OverflowError \/ Hint
           \/ CallsDone \/ LoopStop
    BY <1>1 DEF CheckStop, Exhausted, Iterate, Build, Overflow, OverflowError, Hint, CallsDone,
                LoopStop, pipeVars
<1>2. CASE Retry \/ ProviderFails \/ StreamStopped \/ Compact \/ Delta \/ BackoffOver \/ Expire
           \/ Clear \/ CompactCommand \/ UNCHANGED agentVars
    BY <1>2 DEF Retry, ProviderFails, StreamStopped, Compact, Delta, BackoffOver, Expire, Clear,
                CompactCommand, agentVars, loopVars, pipeVars
<1>3. ASSUME NEW r \in Replies, FinalAnswer(r) \/ NeedsHint(r) \/ Proposes(r)
      PROVE  serial' = serial /\ crashes' = crashes /\ stage' = stage
    BY <1>3 DEF FinalAnswer, NeedsHint, Proposes, pipeVars
<1>4. CASE ToolSide
    BY <1>4, ToolSideStage DEF loopVars
<1>5. CASE StartTurn \/ CtrlC \/ ModeCommand
    BY <1>5 DEF StartTurn, CancelReset, CtrlC, CancelSet, ModeCommand, SetMode, loopVars
<1> QED
    BY <1>1, <1>2, <1>3, <1>4, <1>5 DEF AgentNext, LoopStep, StreamEnds

(* No step takes a message out of the file.                                *)
LEMMA LogGrows ==
    ASSUME LoopInv, [AgentNext]_agentVars
    PROVE  /\ log' = log \/ \E m \in Kinds : log' = Append(log, m)
           /\ faults' \in Nat /\ faults \in Nat /\ faults <= faults'
<1>f. faults \in Nat
    BY AgentAssumption DEF LoopInv, WritesInv
<1>1. CASE Appending
    BY <1>1, <1>f, AppendingAppends, AppendWrites
<1>2. CASE Clear
    BY <1>2, <1>f, KindFields DEF Clear
<1>3. CASE Compact \/ CompactCommand
    BY <1>3, <1>f, CompactWrites
<1>4. CASE Crash
    BY <1>4, <1>f, ResumeWrites
<1>5. CASE Build \/ ~Telling
    BY <1>5, <1>f, QuietStep DEF Build, Quiet, stored
<1> QED
    BY <1>1, <1>2, <1>3, <1>4, <1>5 DEF Telling, Appending

LEMMA CountStep ==
    ASSUME LoopInv, CountInv, [AgentNext]_agentVars
    PROVE  CountInv'
<1> DEFINE n == Cardinality(ResultsIn(log))
           k == Cardinality(ResultsIn(log'))
           before == n + crashes + faults
           after == k + crashes' + faults'
<1>t. log \in Seq(Kinds) /\ serial \in Nat /\ crashes \in Nat
    BY AgentAssumption DEF LoopInv, TalkInv, CountersInv, PipeTypeOK
<1>f. faults \in Nat /\ faults' \in Nat /\ faults <= faults'
    BY LogGrows
<1>1. n \in Nat /\ k \in Nat /\ n <= k
    <2>1. CASE log' = log
        BY <1>t, <2>1, KindFields, ResultsAppend
    <2>2. ASSUME NEW m \in Kinds, log' = Append(log, m)
          PROVE  n \in Nat /\ k \in Nat /\ n <= k
        <3>1. n \in Nat /\ (k = n \/ k = n + 1)
            BY <1>t, <2>2, ResultsAppend
        <3> HIDE DEF n, k
        <3> QED
            BY <3>1
    <2> QED
        BY <2>1, <2>2, LogGrows
(* A call is only in the pipeline anew, or has left it with a new result   *)
(* in the file, a failed write or a death.                                 *)
<1>2. before \in Nat /\ serial <= before + (IF stage = "idle" THEN 0 ELSE 1)
    <2>1. before \in Nat
        <3> HIDE DEF n
        <3> QED
            BY <1>t, <1>f, <1>1
    <2> QED
        BY <2>1 DEF CountInv
<1>3. CASE Execute
    <2>1. stage = "idle" /\ stage' # "idle" /\ serial' = serial + 1 /\ crashes' = crashes
          /\ faults' = faults /\ log' = log
        BY <1>3 DEF Execute, stored, Refuse, Admit, AskUser, Enter
    <2>2. after = before
        BY <2>1
    <2> HIDE DEF before, after
    <2>3. serial' <= after + (IF stage' = "idle" THEN 0 ELSE 1)
        BY <1>t, <1>2, <2>1, <2>2
    <2> QED
        BY <2>3 DEF CountInv, after
<1>4. CASE TakeResult
    <2>1. stage = "done" /\ stage' = "idle" /\ serial' = serial /\ crashes' = crashes
          /\ AppendMessage(Result(Head(todo).id)) /\ todo # <<>>
        BY <1>4 DEF TakeResult, Deliver, LoopInv, TalkInv
    <2>2. Result(Head(todo).id) \in Kinds /\ Result(Head(todo).id).id # 0
        BY <2>1, HeadTask, KindFields DEF LoopInv
    <2>3. \/ log' = Append(log, Result(Head(todo).id)) /\ faults' = faults
          \/ faults' = faults + 1
        BY <2>1, <2>2, AppendWrites
    <2>4. (k = n + 1 /\ faults' = faults) \/ faults' = faults + 1
        BY <1>t, <2>2, <2>3, ResultsAppend
    <2>5. after \in Nat /\ after >= before + 1
        <3> HIDE DEF n, k
        <3>1. CASE k = n + 1 /\ faults' = faults
            <4>1. after = (n + 1) + crashes + faults
                BY <2>1, <3>1
            <4> QED
                BY <1>t, <1>f, <1>1, <4>1
        <3>2. CASE faults' = faults + 1
            <4>1. after = k + crashes + (faults + 1)
                BY <2>1, <3>2
            <4> QED
                BY <1>t, <1>f, <1>1, <4>1
        <3> QED
            BY <2>4, <3>1, <3>2
    <2> HIDE DEF before, after
    <2>6. serial' <= after + (IF stage' = "idle" THEN 0 ELSE 1)
        BY <1>t, <1>2, <2>1, <2>5
    <2> QED
        BY <2>6 DEF CountInv, after
<1>5. CASE Crash
    <2>1. stage' = "idle" /\ serial' = serial /\ crashes' = crashes + 1 /\ faults' = faults
        BY <1>5, ResumeWrites DEF Crash, Restart
    <2>2. after = k + (crashes + 1) + faults
        BY <2>1
    <2>3. after \in Nat /\ after >= before + 1
        <3> HIDE DEF n, k
        <3> QED
            BY <1>t, <1>f, <1>1, <2>2
    <2> HIDE DEF before, after
    <2>4. serial' <= after + (IF stage' = "idle" THEN 0 ELSE 1)
        BY <1>t, <1>2, <2>1, <2>3
    <2> QED
        BY <2>4 DEF CountInv, after
<1>6. CASE ~Execute /\ ~TakeResult /\ ~Crash
    <2>1. serial' = serial /\ crashes' = crashes /\ (stage' = "idle" <=> stage = "idle")
        BY <1>6, BusySame
    <2>2. after = k + crashes + faults'
        BY <2>1
    <2>3. after \in Nat /\ after >= before
        <3> HIDE DEF n, k
        <3>1. k + crashes \in Nat /\ n + crashes \in Nat /\ n + crashes <= k + crashes
            BY <1>t, <1>1
        <3> QED
            BY <1>f, <2>2, <3>1
    <2> HIDE DEF before, after
    <2>4. serial' <= after + (IF stage' = "idle" THEN 0 ELSE 1)
        BY <1>t, <1>2, <2>1, <2>3
    <2> QED
        BY <2>4 DEF CountInv, after
<1> QED
    BY <1>3, <1>4, <1>5, <1>6

-----------------------------------------------------------------------------
(* The file keeps up with the memory.                                      *)

(* What is said is written behind the last record, or is one more message  *)
(* without one, for one more failed write.                                 *)
LEMMA AppendPersists ==
    ASSUME LoopInv, MemoryIsPersisted, NEW m \in Kinds, AppendMessage(m)
    PROVE  MemoryIsPersisted'
<1> DEFINE M == Len(messages)
           L == Len(log)
           v == messages'
           w == saved'
<1>1. /\ messages \in Seq(Kinds) /\ log \in Seq(Kinds) /\ saved \in Seq(Nat) /\ Len(saved) = M
      /\ faults \in Nat /\ M \in Nat /\ L \in Nat
      /\ DOMAIN messages = 1..M /\ DOMAIN log = 1..L
    BY AgentAssumption DEF LoopInv, TalkInv, WritesInv
<1>2. /\ DOMAIN v = 1..(M + 1) /\ v[M + 1] = m /\ \A i \in 1..M : v[i] = messages[i]
    <2>1. v = Append(messages, m)
        BY AppendWrites
    <2>2. /\ DOMAIN Append(messages, m) = 1..(M + 1) /\ Append(messages, m)[M + 1] = m
          /\ \A i \in 1..M : Append(messages, m)[i] = messages[i]
        BY <1>1, AppendShape
    <2> HIDE DEF v
    <2> QED
        BY <2>1, <2>2
<1>3. \A x : Append(saved, x)[M + 1] = x /\ \A i \in 1..M : Append(saved, x)[i] = saved[i]
    BY <1>1
<1>4. \/ log' = Append(log, m) /\ faults' = faults /\ w[M + 1] = L + 1
      \/ log' = log /\ faults' = faults + 1 /\ w[M + 1] = 0
    BY <1>3, AppendWrites
<1>5. \A i \in 1..M : w[i] = saved[i] /\ w[i] \in Nat
    <2>1. \A i \in 1..M : w[i] = saved[i]
        BY <1>3, AppendWrites
    <2>2. \A i \in 1..M : saved[i] \in Nat
        BY <1>1
    <2> QED
        BY <2>1, <2>2
<1>6. /\ \A i \in 1..L : log'[i] = log[i]
      /\ \/ DOMAIN log' = 1..(L + 1) /\ Len(log') = L + 1 /\ log'[L + 1] = m
            /\ faults' = faults /\ w[M + 1] = L + 1
         \/ DOMAIN log' = 1..L /\ Len(log') = L /\ faults' = faults + 1 /\ w[M + 1] = 0
    <2>1. Append(log, m)[L + 1] = m /\ (\A i \in 1..L : Append(log, m)[i] = log[i])
          /\ DOMAIN Append(log, m) = 1..(L + 1) /\ Len(Append(log, m)) = L + 1
        BY <1>1, AppendShape
    <2> QED
        BY <1>1, <1>4, <2>1
<1>7. /\ \A i \in 1..M : saved[i] # 0 => saved[i] \in 1..L /\ log[saved[i]] = messages[i]
      /\ \A i, j \in 1..M : i < j /\ saved[i] # 0 /\ saved[j] # 0 => saved[i] < saved[j]
      /\ \A i \in 1..M : saved[i] # 0 =>
            \A p \in saved[i]..L : \E k \in 1..M : saved[k] = p
      /\ Cardinality(Unsaved) <= faults
    BY <1>1 DEF MemoryIsPersisted
<1>8. Unsaved' = {i \in 1..(M + 1) : w[i] = 0 /\ ~(i = 1 /\ v[1] = Summary)}
    BY <1>2 DEF Unsaved
<1>9. Unsaved = {i \in 1..M : saved[i] = 0 /\ ~(i = 1 /\ messages[1] = Summary)}
    BY <1>1 DEF Unsaved
<1> HIDE DEF M, L, v, w
<1>10. \A i \in 1..(M + 1) : i \in 1..M \/ i = M + 1
    BY <1>1
<1>11. \A i \in 1..(M + 1) : w[i] # 0 => w[i] \in DOMAIN log' /\ log'[w[i]] = v[i]
    <2>1. ASSUME NEW i \in 1..M, w[i] # 0
          PROVE  w[i] \in DOMAIN log' /\ log'[w[i]] = v[i]
        <3>1. w[i] \in 1..L /\ log[w[i]] = v[i]
            BY <1>2, <1>5, <1>7, <2>1
        <3>2. 1..L \subseteq DOMAIN log'
            BY <1>1, <1>6
        <3> QED
            BY <1>6, <3>1, <3>2
    <2>2. w[M + 1] # 0 => w[M + 1] \in DOMAIN log' /\ log'[w[M + 1]] = v[M + 1]
        BY <1>1, <1>2, <1>6
    <2> QED
        BY <1>10, <2>1, <2>2
<1>12. \A i, j \in 1..(M + 1) : i < j /\ w[i] # 0 /\ w[j] # 0 => w[i] < w[j]
    <2> SUFFICES ASSUME NEW i \in 1..(M + 1), NEW j \in 1..(M + 1), i < j, w[i] # 0, w[j] # 0
                 PROVE  w[i] < w[j]
        OBVIOUS
    <2>1. i \in 1..M
        BY <1>1
    <2>2. CASE j \in 1..M
        BY <1>5, <1>7, <2>1, <2>2
    <2>3. CASE j = M + 1
        <3>1. w[i] \in 1..L /\ w[j] = L + 1
            BY <1>5, <1>6, <1>7, <2>1, <2>3
        <3> QED
            BY <1>1, <3>1
    <2> QED
        BY <1>10, <2>2, <2>3
<1>13. \A i \in 1..(M + 1) : w[i] # 0 =>
          \A p \in w[i]..Len(log') : \E k \in 1..(M + 1) : w[k] = p
    <2> SUFFICES ASSUME NEW i \in 1..(M + 1), w[i] # 0, NEW p \in w[i]..Len(log')
                 PROVE  \E k \in 1..(M + 1) : w[k] = p
        OBVIOUS
    <2>0. M + 1 \in 1..(M + 1) /\ \A k \in 1..M : k \in 1..(M + 1)
        BY <1>1
    <2>1. CASE i \in 1..M /\ p \in w[i]..L
        BY <1>5, <1>7, <2>0, <2>1
    <2>2. CASE p = w[M + 1]
        BY <2>0, <2>2
    <2>3. (i \in 1..M /\ p \in w[i]..L) \/ p = w[M + 1]
        <3>1. CASE i \in 1..M
            <4>1. w[i] \in Nat
                BY <1>5, <3>1
            <4> QED
                BY <1>1, <1>6, <3>1, <4>1
        <3>2. CASE i = M + 1
            BY <1>1, <1>6, <3>2
        <3> QED
            BY <1>10, <3>1, <3>2
    <2> QED
        BY <2>1, <2>2, <2>3
<1>14. Cardinality(Unsaved') <= faults'
    <2>1. IsFiniteSet(Unsaved) /\ Cardinality(Unsaved) \in Nat
        <3>1. IsFiniteSet(1..M) /\ Unsaved \subseteq 1..M
            BY <1>1, <1>9, FS_Interval
        <3>2. IsFiniteSet(Unsaved)
            BY <3>1, FS_Subset
        <3> QED
            BY <3>2, FS_CardinalityType
    <2>2. \A i \in 1..M : i \in Unsaved' <=> i \in Unsaved
        <3>1. \A i \in 1..M : i \in 1..(M + 1) /\ (i = 1 => 1 \in 1..M)
            BY <1>1
        <3> QED
            BY <1>2, <1>5, <1>8, <1>9, <3>1
    <2>3. CASE w[M + 1] = 0 /\ faults' = faults + 1
        <3>1. Unsaved' \subseteq Unsaved \cup {M + 1}
            BY <1>8, <1>10, <2>2
        <3>2. M + 1 \notin Unsaved
            BY <1>1, <1>9
        <3>3. IsFiniteSet(Unsaved \cup {M + 1})
              /\ Cardinality(Unsaved \cup {M + 1}) = Cardinality(Unsaved) + 1
            BY <2>1, <3>2, FS_AddElement
        <3>4. Cardinality(Unsaved') <= Cardinality(Unsaved \cup {M + 1})
              /\ IsFiniteSet(Unsaved')
            BY <3>1, <3>3, FS_Subset
        <3>5. Cardinality(Unsaved') \in Nat
            BY <3>4, FS_CardinalityType
        <3> QED
            BY <1>1, <1>7, <2>1, <2>3, <3>3, <3>4, <3>5
    <2>4. CASE w[M + 1] = L + 1 /\ faults' = faults
        <3>1. M + 1 \notin Unsaved'
            BY <1>1, <1>8, <2>4
        <3>2. Unsaved' = Unsaved
            BY <1>8, <1>9, <1>10, <2>2, <3>1
        <3> QED
            BY <1>7, <2>4, <3>2
    <2> QED
        BY <1>6, <2>3, <2>4
<1> QED
    BY <1>2, <1>11, <1>12, <1>13, <1>14 DEF MemoryIsPersisted, v, w

(* A compaction keeps the last two messages and their records.             *)
LEMMA CompactPersists ==
    ASSUME LoopInv, MemoryIsPersisted, Compact \/ CompactCommand
    PROVE  MemoryIsPersisted'
<1> DEFINE M == Len(messages)
           L == Len(log)
           v == messages'
           w == saved'
           from(i) == M - 3 + i
<1>1. /\ messages \in Seq(Kinds) /\ saved \in Seq(Nat) /\ Len(saved) = M
      /\ faults \in Nat /\ M \in Nat /\ L \in Nat /\ M > 2 /\ DOMAIN messages = 1..M
      /\ log' = log /\ faults' = faults /\ DOMAIN log = 1..L /\ Len(log') = L
    <2>1. Len(messages) > 2 /\ UNCHANGED <<log, faults>>
        BY CompactWrites
    <2>2. messages \in Seq(Kinds) /\ log \in Seq(Kinds)
        BY DEF LoopInv, TalkInv
    <2>3. saved \in Seq(Nat) /\ Len(saved) = Len(messages) /\ faults \in Nat
        BY AgentAssumption DEF LoopInv, WritesInv
    <2> QED
        BY <2>1, <2>2, <2>3
<1>2. /\ Len(v) = 3 /\ v \in Seq(Kinds) /\ v[1] = Summary
      /\ v[2] = messages[M - 1] /\ v[3] = messages[M]
      /\ w[1] = 0 /\ w[2] = saved[M - 1] /\ w[3] = saved[M]
    BY <1>1, CompactWrites, CompactedShape
<1>3. DOMAIN v = {1, 2, 3}
    BY <1>2
<1>4. /\ \A i \in 1..M : saved[i] \in Nat
      /\ \A i \in 1..M : saved[i] # 0 => saved[i] \in 1..L /\ log[saved[i]] = messages[i]
      /\ \A i, j \in 1..M : i < j /\ saved[i] # 0 /\ saved[j] # 0 => saved[i] < saved[j]
      /\ \A i \in 1..M : saved[i] # 0 =>
            \A p \in saved[i]..L : \E k \in 1..M : saved[k] = p
      /\ Cardinality(Unsaved) <= faults
    <2>1. \A i \in 1..M : saved[i] \in Nat
        BY <1>1
    <2>2. DOMAIN messages = 1..M /\ DOMAIN log = 1..L /\ Len(log) = L
        BY <1>1
    <2>3. \A i \in 1..M : saved[i] # 0 => saved[i] \in 1..L /\ log[saved[i]] = messages[i]
        BY <2>2 DEF MemoryIsPersisted
    <2>4. \A i, j \in 1..M : i < j /\ saved[i] # 0 /\ saved[j] # 0 => saved[i] < saved[j]
        BY <2>2 DEF MemoryIsPersisted
    <2>5. \A i \in 1..M : saved[i] # 0 => \A p \in saved[i]..L : \E k \in 1..M : saved[k] = p
        BY <2>2 DEF MemoryIsPersisted
    <2>6. Cardinality(Unsaved) <= faults
        BY DEF MemoryIsPersisted
    <2> QED
        BY <2>1, <2>3, <2>4, <2>5, <2>6
<1>5. Unsaved' = {i \in {1, 2, 3} : w[i] = 0 /\ ~(i = 1 /\ v[1] = Summary)}
    BY <1>3 DEF Unsaved
<1>6. Unsaved = {i \in 1..M : saved[i] = 0 /\ ~(i = 1 /\ messages[1] = Summary)}
    BY <1>1 DEF Unsaved
<1> HIDE DEF v, w, L, M
<1>7. M - 1 \in 1..M /\ M \in 1..M /\ M - 1 < M /\ M - 1 # 1 /\ M # 1
    BY <1>1
<1>8. \A i \in DOMAIN v : w[i] # 0 => w[i] \in DOMAIN log' /\ log'[w[i]] = v[i]
    BY <1>1, <1>2, <1>3, <1>4, <1>7
<1>9. \A i, j \in DOMAIN v : i < j /\ w[i] # 0 /\ w[j] # 0 => w[i] < w[j]
    <2>1. saved[M - 1] # 0 /\ saved[M] # 0 => saved[M - 1] < saved[M]
        BY <1>4, <1>7
    <2>2. \A i, j \in {1, 2, 3} : i < j /\ i # 1 => i = 2 /\ j = 3
        OBVIOUS
    <2> QED
        BY <1>2, <1>3, <2>1, <2>2
<1>10. \A i \in DOMAIN v : w[i] # 0 => \A p \in w[i]..Len(log') : \E k \in DOMAIN v : w[k] = p
    <2> SUFFICES ASSUME NEW i \in DOMAIN v, w[i] # 0, NEW p \in w[i]..L
                 PROVE  \E k \in DOMAIN v : w[k] = p
        BY <1>1
    <2>1. i = 2 \/ i = 3
        BY <1>2, <1>3
    <2> DEFINE a == IF i = 2 THEN M - 1 ELSE M
    <2>2. a \in 1..M /\ w[i] = saved[a] /\ saved[a] # 0 /\ p \in saved[a]..L
        BY <1>2, <1>7, <2>1
    <2>3. PICK k \in 1..M : saved[k] = p
        BY <1>4, <2>2
    <2>4. k >= a
        <3> SUFFICES ASSUME k < a
                     PROVE  FALSE
            BY <1>1, <2>2
        <3>0. saved[k] \in Nat /\ saved[a] \in Nat /\ p >= saved[a]
            BY <1>4, <2>2
        <3>1. saved[k] # 0
            BY <2>2, <2>3, <3>0
        <3>2. saved[k] < saved[a]
            BY <1>4, <2>2, <2>3, <3>1
        <3> QED
            BY <2>3, <3>0, <3>2
    <2>5. k = M - 1 \/ k = M
        BY <1>1, <2>1, <2>2, <2>4
    <2> QED
        BY <1>2, <1>3, <2>3, <2>5
<1>11. Cardinality(Unsaved') <= Cardinality(Unsaved) /\ Cardinality(Unsaved') \in Nat
       /\ Cardinality(Unsaved) \in Nat
    <2>1. IsFiniteSet(Unsaved)
        <3>1. IsFiniteSet(1..M) /\ Unsaved \subseteq 1..M
            BY <1>1, <1>6, FS_Interval
        <3> QED
            BY <3>1, FS_Subset
    <2> DEFINE back == {i \in Unsaved : i = M - 1 \/ i = M}
               place == [i \in back |-> IF i = M THEN 3 ELSE 2]
    <2>2. IsFiniteSet(back) /\ Cardinality(back) <= Cardinality(Unsaved)
        BY <2>1, FS_Subset
    <2>3. ASSUME NEW x \in Unsaved'
          PROVE  \E i \in back : x = place[i]
        <3>1. (x = 2 /\ saved[M - 1] = 0) \/ (x = 3 /\ saved[M] = 0)
            BY <1>2, <1>5
        <3>2. CASE x = 2 /\ saved[M - 1] = 0
            <4>1. M - 1 \in back /\ M - 1 # M
                BY <1>6, <1>7, <3>2
            <4> QED
                BY <3>2, <4>1
        <3>3. CASE x = 3 /\ saved[M] = 0
            <4>1. M \in back
                BY <1>6, <1>7, <3>3
            <4> QED
                BY <3>3, <4>1
        <3> QED
            BY <3>1, <3>2, <3>3
    <2>4. Unsaved' \subseteq {place[i] : i \in back}
        BY <2>3
    <2>5. IsFiniteSet({place[i] : i \in back})
          /\ Cardinality({place[i] : i \in back}) <= Cardinality(back)
        <3> DEFINE D == {place[i] : i \in back}
        <3>1. place \in Surjection(back, D)
            BY DEF Surjection
        <3> QED
            BY <2>2, <3>1, FS_Surjection
    <2> HIDE DEF back, place
    <2>6. IsFiniteSet(Unsaved') /\ Cardinality(Unsaved') <= Cardinality({place[i] : i \in back})
        BY <2>4, <2>5, FS_Subset
    <2>7. Cardinality(Unsaved') \in Nat /\ Cardinality(Unsaved) \in Nat
          /\ Cardinality(back) \in Nat /\ Cardinality({place[i] : i \in back}) \in Nat
        BY <2>1, <2>2, <2>5, <2>6, FS_CardinalityType
    <2> QED
        BY <2>2, <2>5, <2>6, <2>7
<1>12. Cardinality(Unsaved') <= faults'
    BY <1>1, <1>4, <1>11
<1> QED
    BY <1>8, <1>9, <1>10, <1>12 DEF MemoryIsPersisted, v, w

(* What is read from the file has the records it was read from.            *)
LEMMA ResumePersists ==
    ASSUME LoopInv, Crash
    PROVE  MemoryIsPersisted'
<1>1. /\ messages' = log /\ log' = log /\ faults' = faults /\ faults \in Nat
      /\ \A p \in 1..Len(log) : saved'[p] = p
      /\ DOMAIN log = 1..Len(log) /\ Len(log) \in Nat
    BY ResumeWrites, AgentAssumption DEF LoopInv, TalkInv, WritesInv
<1>2. Unsaved' = {}
    BY <1>1 DEF Unsaved
<1>3. Cardinality(Unsaved') <= faults'
    BY <1>1, <1>2, FS_EmptySet
<1>4. \A i \in 1..Len(log) : \A p \in saved'[i]..Len(log) : p \in 1..Len(log) /\ saved'[p] = p
    BY <1>1
<1>5. \A i \in DOMAIN messages' : saved'[i] = i /\ i \in DOMAIN log' /\ log'[i] = messages'[i]
    BY <1>1
<1> QED
    BY <1>1, <1>3, <1>4, <1>5 DEF MemoryIsPersisted

LEMMA ForgottenPersists ==
    ASSUME messages' = <<>>, faults' \in Nat
    PROVE  MemoryIsPersisted'
<1>1. DOMAIN messages' = {}
    OBVIOUS
<1>2. Unsaved' = {}
    BY <1>1 DEF Unsaved
<1>3. Cardinality(Unsaved') <= faults'
    BY <1>2, FS_EmptySet
<1> QED
    BY <1>1, <1>3 DEF MemoryIsPersisted

LEMMA PersistStep ==
    ASSUME LoopInv, LoopInv', MemoryIsPersisted, [AgentNext]_agentVars
    PROVE  MemoryIsPersisted'
<1>1. CASE Appending
    BY <1>1, AppendingAppends, AppendPersists
<1>2. CASE Compact \/ CompactCommand
    BY <1>2, CompactPersists
<1>3. CASE Crash
    BY <1>3, ResumePersists
<1>4. CASE Clear
    BY <1>4, ForgottenPersists, AgentAssumption DEF Clear, LoopInv, WritesInv
<1>5. CASE Build \/ ~Telling
    <2>1. UNCHANGED <<messages, log, faults, saved>>
        BY <1>5, QuietStep DEF Build, Quiet, stored
    <2> QED
        BY <2>1 DEF MemoryIsPersisted, Unsaved
<1> QED
    BY <1>1, <1>2, <1>3, <1>4, <1>5 DEF Telling, Appending

-----------------------------------------------------------------------------
(* The invariant of a session.                                             *)

LEMMA AgentInvInit == AgentInit => AgentInv
<1> SUFFICES ASSUME AgentInit
             PROVE  AgentInv
    OBVIOUS
<1>1. /\ pc = "prompt" /\ messages = <<>> /\ log = <<>> /\ request = <<>> /\ todo = <<>>
      /\ stop = "none" /\ serial = 0 /\ crashes = 0 /\ stage = "idle" /\ faults = 0
    BY DEF AgentInit, PipeInit
<1>2. AnswerInv /\ ReadInv /\ SettledInv
    <2>1. ReadInv
        BY <1>1, NothingReadable DEF ReadInv, Sound
    <2> QED
        BY <1>1, <2>1 DEF AnswerInv, SettledInv, Working, Asking
<1>e. <<>> \in Seq(Kinds)
    OBVIOUS
<1>3. MemoryIsPersisted
    <2>1. DOMAIN messages = {}
        BY <1>1
    <2>2. Unsaved = {}
        BY <2>1 DEF Unsaved
    <2>3. Cardinality(Unsaved) <= faults
        BY <1>1, <2>2, FS_EmptySet
    <2> QED
        BY <2>1, <2>3 DEF MemoryIsPersisted
<1>5. CountInv
    <2>1. Cardinality(ResultsIn(log)) \in Nat
        BY <1>1, <1>e, KindFields, ResultsAppend
    <2> QED
        BY <1>1, <2>1 DEF CountInv
<1> QED
    BY <1>2, <1>3, <1>5, LoopInvInit DEF AgentInv, FileInv

LEMMA AgentInvStep == AgentInv /\ [AgentNext]_agentVars => AgentInv'
<1> SUFFICES ASSUME AgentInv, [AgentNext]_agentVars
             PROVE  AgentInv'
    OBVIOUS
<1>1. LoopInv /\ LoopInv'
    BY LoopInvStep DEF AgentInv
<1>2. AnswerInv'
    BY <1>1, AnswerStep DEF AgentInv
<1>3. ReadInv'
    BY <1>1, ReadStep DEF AgentInv
<1>4. SettledInv'
    BY <1>1, SettledStep DEF AgentInv
<1>5. MemoryIsPersisted'
    BY <1>1, PersistStep DEF AgentInv, FileInv
<1>6. CountInv'
    BY <1>1, CountStep DEF AgentInv, FileInv
<1> QED
    BY <1>1, <1>2, <1>3, <1>4, <1>5, <1>6 DEF AgentInv, FileInv

LEMMA AgentInvariant == AgentSpec => []AgentInv
BY AgentInvInit, AgentInvStep, PTL DEF AgentSpec

-----------------------------------------------------------------------------
(* The results of a round are its first calls.                             *)
LEMMA ResultsOfRound ==
    ASSUME NEW s \in Seq(Kinds), NEW i \in 1..Len(s), NEW n \in Nat, Round(s, i, n)
    PROVE  ResultsOf(s, i) = [k \in 1..n |-> s[i].calls[k]]
<1> DEFINE round == {j \in i + 1..Len(s) :
                       \A k \in i + 1..j : s[k].role = "tool" /\ s[k].id # 0}
<1>1. Len(s) \in Nat /\ i \in Nat /\ i + n <= Len(s)
    BY DEF Round
<1>2. \A k \in 1..n : s[i + k].role = "tool" /\ s[i + k].id = s[i].calls[k] /\ s[i + k].id # 0
    <2>1. \A k \in 1..n : s[i].calls[k] # 0 /\ s[i + k] = Result(s[i].calls[k])
        BY DEF Round
    <2>2. \A id : Result(id).role = "tool" /\ Result(id).id = id
        BY KindFields
    <2> QED
        BY <2>1, <2>2
<1>3. ASSUME NEW j \in i + 1..i + n
      PROVE  j \in round
    <2>1. j \in i + 1..Len(s)
        BY <1>1
    <2>2. ASSUME NEW k \in i + 1..j
          PROVE  s[k].role = "tool" /\ s[k].id # 0
        <3>1. k - i \in 1..n /\ i + (k - i) = k
            BY <1>1
        <3> QED
            BY <1>2, <3>1
    <2> QED
        BY <2>1, <2>2
<1>4. ASSUME NEW j \in round
      PROVE  j \in i + 1..i + n
    <2>1. j \in i + 1..Len(s)
        OBVIOUS
    <2>2. ASSUME j > i + n
          PROVE  FALSE
        <3>1. i + n + 1 \in i + 1..j /\ i + n < Len(s)
            BY <1>1, <2>1, <2>2
        <3>2. s[i + n + 1].id = 0
            BY <3>1 DEF Round
        <3> QED
            BY <3>1, <3>2
    <2> QED
        BY <1>1, <2>1, <2>2
<1>5. round = i + 1..i + n
    BY <1>3, <1>4
<1> HIDE DEF round
<1>6. Cardinality(round) = n
    <2>1. i + 1 \in Int /\ i + n \in Int
        BY <1>1
    <2>2. Cardinality(i + 1..i + n) = IF i + 1 > i + n THEN 0 ELSE (i + n) - (i + 1) + 1
        BY <2>1, FS_Interval
    <2> QED
        BY <1>1, <1>5, <2>2
<1>7. ResultsOf(s, i) = [k \in 1..Cardinality(round) |-> s[i + k].id]
    BY DEF ResultsOf, round
<1> QED
    BY <1>2, <1>6, <1>7

LEMMA SettledAnswered ==
    ASSUME NEW s \in Seq(Kinds), NEW i \in DOMAIN s, Round(s, i, Len(s[i].calls))
    PROVE  Answered(s, i)
<1>1. i \in 1..Len(s) /\ s[i].calls \in Seq(Nat) /\ Len(s[i].calls) \in Nat
    BY MessageFields
<1>2. ResultsOf(s, i) = [k \in 1..Len(s[i].calls) |-> s[i].calls[k]]
    BY <1>1, ResultsOfRound
<1>3. s[i].calls = [k \in 1..Len(s[i].calls) |-> s[i].calls[k]]
    <2> DEFINE c == s[i].calls
    <2>1. c \in Seq(Nat)
        BY <1>1
    <2> HIDE DEF c
    <2>2. c = [k \in 1..Len(c) |-> c[k]]
        BY <2>1
    <2> QED
        BY <2>2 DEF c
<1> QED
    BY <1>2, <1>3 DEF Answered

-----------------------------------------------------------------------------

(* Whatever mixture of cut turns, packing, compaction, /clear, failed      *)
(* writes and deaths produced them, the session file stays readable but    *)
(* for the calls it never got, memory and request but for those missing at *)
(* the resume: results right behind their calls, in call order, none left  *)
(* out (agent/runtime.py, agent/context.py).                               *)
THEOREM ConversationsStayReadable == AgentSpec => []ConversationsReadable
<1>1. AgentInv => ConversationsReadable
    BY DEF AgentInv, ReadInv, Sound, ConversationsReadable
<1> QED
    BY <1>1, AgentInvariant, PTL

(* What a turn tells of itself is so: the model is asked again only with   *)
(* every result of the turn, the user sees one attempt, and a turn told    *)
(* completed was not cut and ended on an answer (_loop, agent/runtime.py). *)
THEOREM TurnsStayTruthful == AgentSpec => []TurnsAreTruthful
<1>1. AgentInv => TurnsAreTruthful
    <2> SUFFICES ASSUME AgentInv
                 PROVE  TurnsAreTruthful
        OBVIOUS
    <2>1. TurnAnswered
        <3> SUFFICES ASSUME pc \in Asking, NEW i \in DOMAIN messages
                     PROVE  \/ messages[i].role # "assistant" \/ messages[i] = Summary
                            \/ Answered(messages, i)
                            \/ \E j \in i + 1..Len(messages) : messages[j].role = "user"
            BY DEF TurnAnswered, Asking
        <3>1. Settled(messages, i)
            BY DEF AgentInv, SettledInv
        <3> QED
            BY <3>1, SettledAnswered DEF Settled, AgentInv, LoopInv, TalkInv
    <2>2. OneVoice
        BY DEF AgentInv, LoopInv, CountersInv, OneVoice
    <2>3. CompletedMeansAnswered
        BY DEF AgentInv, AnswerInv, CompletedMeansAnswered
    <2> QED
        BY <2>1, <2>2, <2>3 DEF TurnsAreTruthful
<1> QED
    BY <1>1, AgentInvariant, PTL

(* Everything is persisted as it happens, but for the writes that failed:  *)
(* the memory beyond a summary is the end of the session file except for   *)
(* at most one message a failed write, no result is there twice, and no    *)
(* executed call is missing but the one in hand and one for every death    *)
(* and every failed write (_append, agent/runtime.py).                     *)
THEOREM FileAlwaysKeepsUp == AgentSpec => []FileKeepsUp
<1>1. AgentInv => FileKeepsUp
    <2> SUFFICES ASSUME AgentInv
                 PROVE  FileKeepsUp
        OBVIOUS
    <2>1. MemoryIsPersisted
        BY DEF AgentInv, FileInv
    <2>2. \A i, j \in ResultsIn(log) : log[i].id = log[j].id => i = j
        <3> SUFFICES ASSUME NEW i \in ResultsIn(log), NEW j \in ResultsIn(log), i # j
                     PROVE  log[i].id # log[j].id
            OBVIOUS
        <3>1. log \in Seq(Kinds) /\ InOrder(log)
            BY DEF AgentInv, LoopInv, TalkInv, ReadInv, Sound, Readable
        <3>2. /\ i \in 1..Len(log) /\ j \in 1..Len(log) /\ log[i].id # 0 /\ log[j].id # 0
              /\ i \in DOMAIN log /\ j \in DOMAIN log
            BY <3>1 DEF ResultsIn
        <3>3. log[i].id \in Nat /\ log[j].id \in Nat
            BY <3>1, <3>2, MessageFields
        <3>4. i < j \/ j < i
            BY <3>2
        <3> QED
            BY <3>1, <3>2, <3>3, <3>4 DEF InOrder
    <2>3. AtMostOneResultLost
        BY <2>2 DEF AgentInv, FileInv, CountInv, ResultsIn, AtMostOneResultLost
    <2> QED
        BY <2>1, <2>3 DEF FileKeepsUp
<1> QED
    BY <1>1, AgentInvariant, PTL

-------------------------------------------------------------------------------
(* The pipeline: what changed the world was within the ceiling, was        *)
(* consented to, was never something refused, and is in the audit log.     *)

(* The call's ordinals order everything the history holds: nothing is      *)
(* newer than the call in the pipeline, and until that call is finished    *)
(* nothing but its own grant and effect is as new.                         *)
Ordered ==
    /\ stage # "idle" => cur.n = serial /\ serial > boot /\ cur.mode = mode
    /\ \A w \in orphans : w.n > boot /\ w.n <= serial
    /\ \A e \in effects : e.n <= serial
    /\ \A g \in grants : g.n <= serial
    /\ \A i \in DOMAIN audit : audit[i].n <= serial
    /\ stage \in {"approval", "running"} =>
          /\ \A w \in orphans : w.n < serial
          /\ \A i \in DOMAIN audit : audit[i].n < serial
    /\ stage = "approval" =>
          /\ \A e \in effects : e.n < serial
          /\ \A g \in grants : g.n < serial

(* What the guard let through may run: the call in the pipeline, the       *)
(* abandoned threads and the effects were all permitted when they began.   *)
Permitted(w) ==
    /\ ModeAllows(w.mode, Attr[w.call].effect)
    /\ Attr[w.call].known /\ Attr[w.call].valid
    /\ ~Absolute(w.call)

AllPermitted ==
    /\ stage \in {"approval", "running"} => Permitted(cur)
    /\ \A w \in orphans : Permitted(w)
    /\ \A e \in effects : Permitted(e)

(* Every worker that can still change the world, and every one that did,   *)
(* was free or granted; and a remembered path has the grant it came from.  *)
Consented(w) == Mutating(w.call) => Free(w) \/ Granted(w)

AllConsented ==
    /\ stage = "running" => Consented(cur)
    /\ \A w \in orphans : Consented(w)
    /\ \A e \in effects : e.n > boot => Free(e) \/ Granted(e)
    /\ \A k \in approved :
          \E g \in grants :
              /\ g.n > boot
              /\ Attr[g.call].effect = "workspace_write"
              /\ Attr[g.call].key = k

(* A remembered "always" has the answer it came from, which was not about  *)
(* a command.                                                              *)
AlwaysBacked ==
    /\ \A t \in always :
          \E h \in grants :
              /\ h.how = "always" /\ h.n > boot
              /\ Attr[h.call].tool = t
              /\ Attr[h.call].effect # "process"
    /\ UnaskedIsBacked

RefusedCodes == {"tool_not_found", "permission_denied"}

(* One record a call; every effect and every abandoned thread has one,     *)
(* unless it is the call running now; and none of them was refused.        *)
AllAudited ==
    /\ EffectsAudited
    /\ RefusedNeverLands
    /\ \A w \in orphans :
          \E i \in DOMAIN audit : audit[i].n = w.n
    /\ \A i \in DOMAIN audit, w \in orphans :
          audit[i].n = w.n => audit[i].code \notin RefusedCodes

ToolInv ==
    /\ ToolTypeOK
    /\ Ordered
    /\ AllPermitted
    /\ AllConsented
    /\ AlwaysBacked
    /\ AllAudited

-----------------------------------------------------------------------------
(* The types, as the proofs below use them.                                *)
LEMMA Typed ==
    ASSUME ToolInv
    PROVE  /\ serial \in Nat /\ boot \in Nat /\ boot <= serial /\ mode \in Modes
           /\ stage # "idle" => cur \in Worker /\ cur.n = serial /\ cur.call \in Calls
           /\ \A w \in orphans : w \in Worker /\ w.n \in Nat /\ w.n <= serial
           /\ \A e \in effects : e \in Worker /\ e.n \in Nat /\ e.n <= serial
           /\ \A g \in grants : g \in Grant /\ g.n \in Nat /\ g.n <= serial
           /\ \A i \in DOMAIN audit : audit[i].n \in Nat /\ audit[i].n <= serial
<1>1. /\ serial \in Nat /\ boot \in Nat /\ boot <= serial /\ mode \in Modes
      /\ orphans \subseteq Worker /\ effects \subseteq Worker
      /\ grants \subseteq Grant /\ audit \in Seq(AuditRecord)
      /\ stage # "idle" => cur \in Worker
  BY DEF ToolInv, ToolTypeOK, PipeTypeOK
<1>2. /\ \A w \in Worker : w.n \in Nat /\ w.call \in Calls
      /\ \A g \in Grant : g.n \in Nat
      /\ \A r \in AuditRecord : r.n \in Nat
  BY DEF Worker, Grant, AuditRecord
<1>3. \A i \in DOMAIN audit : audit[i] \in AuditRecord
  BY <1>1
<1>4. /\ stage # "idle" => cur.n = serial
      /\ \A w \in orphans : w.n <= serial
      /\ \A e \in effects : e.n <= serial
      /\ \A g \in grants : g.n <= serial
      /\ \A i \in DOMAIN audit : audit[i].n <= serial
  BY DEF ToolInv, Ordered
<1>5. QED
  BY <1>1, <1>2, <1>3, <1>4

-----------------------------------------------------------------------------
(* What a record says about the rest once it is written: the log grows by  *)
(* exactly one entry, at a fresh place.                                    *)
LEMMA AuditGrows ==
    ASSUME audit \in Seq(AuditRecord), NEW decision, Audited(decision)
    PROVE  /\ UNCHANGED <<boot, grants, effects>>
           /\ \E k \in Nat :
                /\ k \notin DOMAIN audit
                /\ DOMAIN audit' = DOMAIN audit \cup {k}
                /\ audit'[k] = [n |-> cur'.n, decision |-> decision, code |-> outcome']
                /\ \A i \in DOMAIN audit : audit'[i] = audit[i]
<1> DEFINE r == [n |-> cur'.n, decision |-> decision, code |-> outcome']
<1>1. audit' = Append(audit, r) /\ UNCHANGED <<boot, grants, effects>>
  BY DEF Audited
<1> HIDE DEF r
<1>2. Len(audit) \in Nat /\ DOMAIN audit = 1..Len(audit)
  OBVIOUS
<1>3. /\ DOMAIN audit' = 1..(Len(audit) + 1)
      /\ audit'[Len(audit) + 1] = r
      /\ \A i \in 1..Len(audit) : audit'[i] = audit[i]
  BY <1>1, <1>2
<1>4. Len(audit) + 1 \notin DOMAIN audit /\ DOMAIN audit' = DOMAIN audit \cup {Len(audit) + 1}
  BY <1>2, <1>3
<1>5. QED
  BY <1>1, <1>2, <1>3, <1>4 DEF r

(* What the guard's answers mean: nothing gets past it above the ceiling   *)
(* or against an absolute rule, and what it does not ask about is free,    *)
(* harmless or a write to an approved path.                                *)
LEMMA GuardSound ==
    ASSUME NEW c \in Calls, ~Refused(c)
    PROVE  /\ ModeAllows(mode, Attr[c].effect)
           /\ Attr[c].known /\ Attr[c].valid
           /\ ~Absolute(c)
           /\ Authorize(mode, approved, c) = "allow" =>
                 \/ mode = "trusted"
                 \/ ~Mutating(c)
                 \/ Attr[c].effect = "process" /\ Attr[c].allowlisted
                 \/ Attr[c].effect = "workspace_write" /\ Attr[c].key \in approved
BY DEF Refused, Hidden, IsVisible, Authorize, NeedsConfirm, Mutating

(* Recording the newest call leaves the log complete: nothing older loses  *)
(* its record, and the call itself gains its only one.                     *)
LEMMA RecordKeepsAudited ==
    ASSUME ToolInv, NEW decision, Audited(decision), stage' = "done",
           cur'.n = serial', serial' \in Nat,
           stage = "running" => cur.n = serial',
           \A i \in DOMAIN audit : audit[i].n < serial',
           \A w \in orphans' : w \in orphans \/ w.n = serial',
           outcome' \in RefusedCodes =>
               \A w \in effects \cup orphans' : w.n # serial'
    PROVE  AllAudited'
<1>1. UNCHANGED <<boot, grants, effects>>
  BY AuditGrows DEF ToolInv, ToolTypeOK
<1>2. PICK k \in Nat :
        /\ k \notin DOMAIN audit
        /\ DOMAIN audit' = DOMAIN audit \cup {k}
        /\ audit'[k] = [n |-> cur'.n, decision |-> decision, code |-> outcome']
        /\ \A i \in DOMAIN audit : audit'[i] = audit[i]
  BY AuditGrows DEF ToolInv, ToolTypeOK
<1>3. audit'[k].n = serial' /\ audit'[k].code = outcome'
  BY <1>2
<1>4. \A i \in DOMAIN audit : audit[i].n # serial'
  BY Typed
<1>5. \A i, j \in DOMAIN audit' : audit'[i].n = audit'[j].n => i = j
  BY <1>2, <1>3, <1>4 DEF ToolInv, AllAudited, EffectsAudited
<1>6. \A e \in effects : e.n > boot => \E i \in DOMAIN audit' : audit'[i].n = e.n
  BY <1>2, <1>3 DEF ToolInv, AllAudited, EffectsAudited
<1>7. \A w \in orphans' : \E i \in DOMAIN audit' : audit'[i].n = w.n
  BY <1>2, <1>3 DEF ToolInv, AllAudited
<1>8. \A i \in DOMAIN audit' : audit'[i].code \in RefusedCodes =>
          \A w \in effects \cup orphans' : w.n # audit'[i].n
  BY <1>2, <1>3, <1>4 DEF ToolInv, AllAudited, RefusedNeverLands, RefusedCodes
<1>9. QED
  BY <1>1, <1>5, <1>6, <1>7, <1>8 DEF AllAudited, EffectsAudited, RefusedNeverLands, RefusedCodes

(* A call enters with the newest ordinal.                                  *)
LEMMA EnterOrdered ==
    ASSUME ToolInv, NEW c \in Calls, Enter(c)
    PROVE  /\ cur'.call = c /\ cur'.n = serial' /\ cur'.mode = mode /\ cur' \in Worker
           /\ serial' \in Nat /\ serial' > serial /\ serial' > boot
           /\ \A w \in orphans : w.n < serial' /\ w.n # serial'
           /\ \A e \in effects : e.n < serial' /\ e.n # serial'
           /\ \A g \in grants : g.n < serial'
           /\ \A i \in DOMAIN audit : audit[i].n < serial'
<1>1. serial' = serial + 1 /\ cur' = [call |-> c, n |-> serial + 1, mode |-> mode, landed |-> FALSE]
  BY DEF Enter
<1>2. cur' \in Worker /\ cur'.call = c /\ cur'.n = serial' /\ cur'.mode = mode
  BY <1>1, Typed DEF Worker
<1>3. QED
  BY <1>1, <1>2, Typed

(* A refused call is recorded as the newest one, and is done.              *)
LEMMA RefusalOrdered ==
    ASSUME ToolInv, NEW c \in Calls, Refuse(c), Audited("deny")
    PROVE  Ordered'
<1>1. PICK k \in Nat :
        /\ k \notin DOMAIN audit
        /\ DOMAIN audit' = DOMAIN audit \cup {k}
        /\ audit'[k] = [n |-> cur'.n, decision |-> "deny", code |-> outcome']
        /\ \A i \in DOMAIN audit : audit'[i] = audit[i]
  BY AuditGrows DEF ToolInv, ToolTypeOK
<1>2. /\ UNCHANGED <<boot, grants, effects>> /\ UNCHANGED <<mode, orphans>>
      /\ stage' = "done" /\ Enter(c)
  BY AuditGrows DEF ToolInv, ToolTypeOK, Refuse
<1>3. audit'[k].n = serial'
  BY <1>1, <1>2, EnterOrdered
<1>4. \A i \in DOMAIN audit' : audit'[i].n <= serial'
  BY <1>1, <1>2, <1>3, EnterOrdered, Typed
<1>5. \A w \in orphans : w.n > boot
  BY DEF ToolInv, Ordered
<1>6. QED
  BY <1>2, <1>4, <1>5, EnterOrdered, Typed DEF Ordered

(* A call that may run, or waits for a yes, is newer than all the rest.    *)
LEMMA AdmissionOrdered ==
    ASSUME ToolInv, NEW c \in Calls, Admit(c) \/ AskUser(c), Silent
    PROVE  Ordered'
<1>1. UNCHANGED <<audit, boot, grants, effects>> /\ UNCHANGED <<mode, orphans>> /\ Enter(c)
  BY DEF Admit, AskUser, Silent
<1>2. \A w \in orphans : w.n > boot
  BY DEF ToolInv, Ordered
<1>3. QED
  BY <1>1, <1>2, EnterOrdered, Typed DEF Ordered

(* The record of a refusal is of a call that has no effect and no thread.  *)
LEMMA RefusalRecorded ==
    ASSUME ToolInv, NEW c \in Calls, Refuse(c), Audited("deny")
    PROVE  AllAudited'
<1>1. Enter(c) /\ stage = "idle" /\ stage' = "done" /\ UNCHANGED orphans
  BY DEF Refuse, Enter
<1>2. QED
  BY <1>1, EnterOrdered, RecordKeepsAudited

(* The same of a call the approver turned down.                            *)
LEMMA RejectionRecorded ==
    ASSUME ToolInv, Reject, Audited("rejected")
    PROVE  AllAudited'
<1>1. /\ stage = "approval" /\ stage' = "done" /\ UNCHANGED <<cur, orphans, serial>>
  BY DEF Reject, Finish
<1>2. /\ \A i \in DOMAIN audit : audit[i].n < serial
      /\ \A w \in effects \cup orphans : w.n < serial
  BY <1>1 DEF ToolInv, Ordered
<1>3. QED
  BY <1>1, <1>2, Typed, RecordKeepsAudited

(* However a run ends, its record is the only one of its call.             *)
LEMMA RunRecorded ==
    ASSUME ToolInv, NEW code, NEW decision, stage = "running", Finish(code),
           code \notin RefusedCodes, UNCHANGED <<cur, serial>>,
           orphans' \subseteq orphans \cup {cur}, Audited(decision)
    PROVE  AllAudited'
<1>1. stage' = "done" /\ outcome' = code
  BY DEF Finish
<1>2. \A i \in DOMAIN audit : audit[i].n < serial
  BY DEF ToolInv, Ordered
<1>3. QED
  BY <1>1, <1>2, Typed, RecordKeepsAudited

(* A restart leaves well-typed state.                                      *)
LEMMA RestartTyped ==
    ASSUME ToolInv, NEW m \in Modes, Restart(m), Dies
    PROVE  ToolTypeOK'
<1>1. PipeTypeOK'
  BY DEF ToolInv, ToolTypeOK, PipeTypeOK, Restart, Codes
<1>2. QED
  BY <1>1, Typed DEF ToolInv, ToolTypeOK, Restart, Dies

(* A finished call keeps its place, in the log and among the threads.      *)
LEMMA RunOrdered ==
    ASSUME ToolInv, NEW decision, Audited(decision), stage # "idle", stage' = "done",
           UNCHANGED <<mode, cur, serial>>, orphans' \subseteq orphans \cup {cur}
    PROVE  Ordered'
<1>1. PICK k \in Nat :
        /\ k \notin DOMAIN audit
        /\ DOMAIN audit' = DOMAIN audit \cup {k}
        /\ audit'[k] = [n |-> cur'.n, decision |-> decision, code |-> outcome']
        /\ \A i \in DOMAIN audit : audit'[i] = audit[i]
  BY AuditGrows DEF ToolInv, ToolTypeOK
<1>2. UNCHANGED <<boot, grants, effects>>
  BY AuditGrows DEF ToolInv, ToolTypeOK
<1>3. cur.n = serial /\ serial > boot /\ cur.mode = mode
  BY DEF ToolInv, Ordered
<1>4. \A i \in DOMAIN audit' : audit'[i].n <= serial
  BY <1>1, <1>3, Typed
<1>5. \A w \in orphans' : w.n > boot /\ w.n <= serial
  BY <1>3, Typed DEF ToolInv, Ordered
<1>6. QED
  BY <1>2, <1>3, <1>4, <1>5, Typed DEF Ordered

(* A yes adds one grant, of the call being asked about and of this process.*)
LEMMA GrantAdded ==
    ASSUME ToolInv, NEW how, Yes, Granting(how)
    PROVE  /\ UNCHANGED <<boot, audit, effects>> /\ UNCHANGED <<mode, cur, orphans, serial>>
           /\ stage = "approval" /\ stage' = "running"
           /\ cur \in Worker /\ cur.call \in Calls /\ cur.n = serial
           /\ serial \in Nat /\ boot \in Nat /\ serial > boot
           /\ \E g \in grants' :
                /\ grants' = grants \cup {g}
                /\ g.n = serial /\ g.call = cur.call /\ g.how = how
           /\ \A g \in grants : g.n \in Nat /\ g.n < serial
<1>1. stage = "approval"
  BY DEF Yes
<1>2. \A g \in grants : g.n \in Nat /\ g.n < serial
  BY <1>1, Typed DEF ToolInv, Ordered
<1>3. serial > boot
  BY <1>1 DEF ToolInv, Ordered
<1>4. \E g \in grants' :
                /\ grants' = grants \cup {g}
                /\ g.n = serial /\ g.call = cur.call /\ g.how = how
  <2> DEFINE g == [n |-> cur.n, call |-> cur.call, how |-> how]
  <2>1. g.n = serial /\ g.call = cur.call /\ g.how = how
    BY <1>1, Typed
  <2>2. grants' = grants \cup {g}
    BY DEF Granting
  <2> HIDE DEF g
  <2>3. QED
    BY <2>1, <2>2
<1>5. QED
  BY <1>1, <1>2, <1>3, <1>4, Typed DEF Granting, Yes

(* A yes covers the call asked about, and the path it lets be remembered.  *)
LEMMA GrantKeepsConsent ==
    ASSUME ToolInv, NEW how, Yes, Granting(how)
    PROVE  AllConsented'
<1>1. PICK g \in grants' :
                /\ grants' = grants \cup {g}
                /\ g.n = serial /\ g.call = cur.call /\ g.how = how
  BY GrantAdded
<1>2. g.n > boot'
  BY <1>1, GrantAdded
<1>3. \A w : Granted(w) => Granted(w)'
  BY <1>1, GrantAdded DEF Granted
<1>4. Granted(cur)'
  BY <1>1, <1>2, GrantAdded DEF Granted
<1>5. \A k \in approved' :
          \E h \in grants' :
              /\ h.n > boot'
              /\ Attr[h.call].effect = "workspace_write"
              /\ Attr[h.call].key = k
  <2>1. approved' \subseteq approved \cup {Attr[cur.call].key}
    BY DEF Yes
  <2>2. approved' # approved => Attr[cur.call].effect = "workspace_write"
    BY DEF Yes
  <2>3. \A k \in approved :
          \E h \in grants' :
              /\ h.n > boot'
              /\ Attr[h.call].effect = "workspace_write"
              /\ Attr[h.call].key = k
    BY <1>1, GrantAdded DEF ToolInv, AllConsented
  <2>4. QED
    BY <1>1, <1>2, <2>1, <2>2, <2>3
<1>6. /\ \A w \in orphans : Consented(w)
      /\ \A e \in effects : e.n > boot => Free(e) \/ Granted(e)
  BY DEF ToolInv, AllConsented
<1>7. QED
  BY <1>3, <1>4, <1>5, <1>6, GrantAdded DEF AllConsented, Consented, Free, Mutating

(* An "always" that is remembered has just been granted, and no command.   *)
LEMMA AnswerKeepsBacking ==
    ASSUME ToolInv, NEW how \in {"yes", "always"}, Answer(how), Granting(how)
    PROVE  AlwaysBacked'
<1>1. Yes
  BY DEF Answer
<1>2. PICK g \in grants' :
                /\ grants' = grants \cup {g}
                /\ g.n = serial /\ g.call = cur.call /\ g.how = how
  BY <1>1, GrantAdded
<1>3. \A t \in always' :
          \E h \in grants' :
              /\ h.how = "always" /\ h.n > boot'
              /\ Attr[h.call].tool = t
              /\ Attr[h.call].effect # "process"
  BY <1>1, <1>2, GrantAdded DEF ToolInv, AlwaysBacked, Answer
<1>4. g.how # "unasked"
  BY <1>2
<1>5. UnaskedIsBacked'
  BY <1>1, <1>2, <1>4, GrantAdded DEF ToolInv, AlwaysBacked, UnaskedIsBacked
<1>6. QED
  BY <1>3, <1>5 DEF AlwaysBacked

(* A call approved unasked carries the name of an older "always".          *)
LEMMA UnaskedKeepsBacking ==
    ASSUME ToolInv, ApproveUnasked, Granting("unasked")
    PROVE  AlwaysBacked'
<1>1. Yes /\ Unasked /\ UNCHANGED always
  BY DEF ApproveUnasked
<1>2. PICK g \in grants' :
                /\ grants' = grants \cup {g}
                /\ g.n = serial /\ g.call = cur.call /\ g.how = "unasked"
  BY <1>1, GrantAdded
<1>3. \A t \in always :
          \E h \in grants :
              /\ h.how = "always" /\ h.n > boot
              /\ Attr[h.call].tool = t
              /\ Attr[h.call].effect # "process"
  BY DEF ToolInv, AlwaysBacked
<1>4. Approver = "tty" =>
        /\ Attr[cur.call].effect # "process"
        /\ \E h \in grants :
              /\ h.how = "always" /\ h.n > boot /\ h.n < serial
              /\ Attr[h.call].tool = Attr[cur.call].tool
  <2>1. Approver = "tty" => Attr[cur.call].tool \in always
    BY <1>1 DEF Unasked
  <2>2. \A h \in grants : h \in Grant /\ h.call \in Calls
    BY Typed DEF Grant
  <2>3. QED
    BY <1>1, <1>3, <2>1, <2>2, GrantAdded, GuardAssumption
<1>5. UnaskedIsBacked'
  BY <1>1, <1>2, <1>4, GrantAdded DEF ToolInv, AlwaysBacked, UnaskedIsBacked
<1>6. QED
  BY <1>1, <1>2, <1>3, <1>5, GrantAdded DEF AlwaysBacked

-----------------------------------------------------------------------------
(* The initial state satisfies the invariant.                              *)
LEMMA ToolInvInit == ToolInit => ToolInv
<1> SUFFICES ASSUME ToolInit PROVE ToolInv
  OBVIOUS
<1>1. ToolTypeOK
  <2>1. PipeTypeOK
    BY DEF ToolInit, PipeInit, PipeTypeOK, Codes
  <2>2. serial = 0 /\ boot = 0 /\ audit = <<>> /\ grants = {} /\ effects = {}
    BY DEF ToolInit, PipeInit
  <2>3. QED
    BY <2>1, <2>2 DEF ToolTypeOK
<1>2. Ordered
  BY DEF ToolInit, PipeInit, Ordered
<1>3. AllPermitted
  BY DEF ToolInit, PipeInit, AllPermitted
<1>4. AllConsented
  BY DEF ToolInit, PipeInit, AllConsented
<1>5. AlwaysBacked
  BY DEF ToolInit, PipeInit, AlwaysBacked, UnaskedIsBacked
<1>6. AllAudited
  BY DEF ToolInit, PipeInit, AllAudited, EffectsAudited, RefusedNeverLands
<1>7. QED
  BY <1>1, <1>2, <1>3, <1>4, <1>5, <1>6 DEF ToolInv

(* Every step preserves the invariant: of the call pipeline, of a thread   *)
(* left behind, of the user, and a restart.                                *)
LEMMA ToolInvStep == ToolInv /\ [ToolNext]_toolVars => ToolInv'
<1> SUFFICES ASSUME ToolInv, [ToolNext]_toolVars PROVE ToolInv'
  OBVIOUS
<1>1. ASSUME NEW c \in Calls, Refuse(c), Audited("deny")
      PROVE  ToolInv'
  <2>1. ToolTypeOK'
    BY <1>1 DEF ToolInv, ToolTypeOK, PipeTypeOK, Worker, NoWorker, Codes, Grant,
       AuditRecord, Decisions, Refuse, Enter, Audited
  <2>2. Ordered'
    BY <1>1, RefusalOrdered
  <2>3. AllPermitted'
    BY <1>1 DEF ToolInv, AllPermitted, Permitted, ToolTypeOK, PipeTypeOK, Worker,
       Refuse, Enter, Audited
  <2>4. AllConsented'
    BY <1>1 DEF ToolInv, AllConsented, Consented, Free, Granted, Mutating, Ordered,
       ToolTypeOK, PipeTypeOK, Worker, Grant, Refuse, Enter, Audited
  <2>5. AlwaysBacked'
    BY <1>1 DEF ToolInv, AlwaysBacked, UnaskedIsBacked, Ordered, ToolTypeOK, PipeTypeOK,
       Worker, Unasked, Grant, Refuse, Enter, Audited
  <2>6. AllAudited'
    BY <1>1, RefusalRecorded
  <2>7. QED
    BY <2>1, <2>2, <2>3, <2>4, <2>5, <2>6 DEF ToolInv
<1>2. ASSUME NEW c \in Calls, Admit(c), Silent
      PROVE  ToolInv'
  <2>1. ToolTypeOK'
    BY <1>2 DEF ToolInv, ToolTypeOK, PipeTypeOK, Worker, NoWorker, Codes, Grant,
       AuditRecord, Decisions, Admit, Enter, Silent
  <2>2. Ordered'
    BY <1>2, AdmissionOrdered
  <2>3. AllPermitted'
    BY <1>2, GuardSound DEF ToolInv, AllPermitted, Permitted, ToolTypeOK, PipeTypeOK,
       Worker, Admit, Enter, Silent
  <2>4. AllConsented'
    BY <1>2, GuardAssumption, GuardSound DEF ToolInv, AllConsented, Consented, Free,
       Granted, Mutating, Ordered, ToolTypeOK, PipeTypeOK, Worker, Grant, Admit, Enter,
       Silent
  <2>5. AlwaysBacked'
    BY <1>2 DEF ToolInv, AlwaysBacked, UnaskedIsBacked, Ordered, ToolTypeOK, PipeTypeOK,
       Worker, Unasked, Grant, Admit, Enter, Silent
  <2>6. AllAudited'
    BY <1>2 DEF ToolInv, AllAudited, EffectsAudited, RefusedNeverLands, RefusedCodes,
       Ordered, ToolTypeOK, PipeTypeOK, Worker, AuditRecord, Admit, Enter, Silent
  <2>7. QED
    BY <2>1, <2>2, <2>3, <2>4, <2>5, <2>6 DEF ToolInv
<1>3. ASSUME NEW c \in Calls, AskUser(c), Silent
      PROVE  ToolInv'
  <2>1. ToolTypeOK'
    BY <1>3 DEF ToolInv, ToolTypeOK, PipeTypeOK, Worker, NoWorker, Codes, Grant,
       AuditRecord, Decisions, AskUser, Enter, Silent
  <2>2. Ordered'
    BY <1>3, AdmissionOrdered
  <2>3. AllPermitted'
    BY <1>3, GuardSound DEF ToolInv, AllPermitted, Permitted, ToolTypeOK, PipeTypeOK,
       Worker, AskUser, Enter, Silent
  <2>4. AllConsented'
    BY <1>3, GuardSound DEF ToolInv, AllConsented, Consented, Free, Granted, Mutating,
       Ordered, ToolTypeOK, PipeTypeOK, Worker, Grant, AskUser, Enter, Silent
  <2>5. AlwaysBacked'
    BY <1>3 DEF ToolInv, AlwaysBacked, UnaskedIsBacked, Ordered, ToolTypeOK, PipeTypeOK,
       Worker, Unasked, Grant, AskUser, Enter, Silent
  <2>6. AllAudited'
    BY <1>3 DEF ToolInv, AllAudited, EffectsAudited, RefusedNeverLands, RefusedCodes,
       Ordered, ToolTypeOK, PipeTypeOK, Worker, AuditRecord, AskUser, Enter, Silent
  <2>7. QED
    BY <2>1, <2>2, <2>3, <2>4, <2>5, <2>6 DEF ToolInv
<1>4. ASSUME NEW how \in {"yes", "always"}, Answer(how), Granting(how)
      PROVE  ToolInv'
  <2>1. ToolTypeOK'
    BY <1>4, GuardAssumption DEF ToolInv, ToolTypeOK, PipeTypeOK, Worker, NoWorker,
       Codes, Grant, AuditRecord, Decisions, CallAttr, Answer, Yes, Granting
  <2>2. Ordered'
    BY <1>4 DEF ToolInv, Ordered, ToolTypeOK, PipeTypeOK, Worker, NoWorker, AuditRecord,
       Grant, Answer, Yes, Granting
  <2>3. AllPermitted'
    BY <1>4 DEF ToolInv, AllPermitted, Permitted, ToolTypeOK, PipeTypeOK, Worker,
       Answer, Yes, Granting
  <2>4. AllConsented'
    BY <1>4, GrantKeepsConsent DEF Answer
  <2>5. AlwaysBacked'
    BY <1>4, AnswerKeepsBacking
  <2>6. AllAudited'
    BY <1>4 DEF ToolInv, AllAudited, EffectsAudited, RefusedNeverLands, RefusedCodes,
       Ordered, ToolTypeOK, PipeTypeOK, Worker, AuditRecord, Answer, Yes, Granting
  <2>7. QED
    BY <2>1, <2>2, <2>3, <2>4, <2>5, <2>6 DEF ToolInv
<1>5. ASSUME ApproveUnasked, Granting("unasked")
      PROVE  ToolInv'
  <2>1. ToolTypeOK'
    BY <1>5, GuardAssumption DEF ToolInv, ToolTypeOK, PipeTypeOK, Worker, NoWorker,
       Codes, Grant, AuditRecord, Decisions, CallAttr, ApproveUnasked, Yes, Granting
  <2>2. Ordered'
    BY <1>5 DEF ToolInv, Ordered, ToolTypeOK, PipeTypeOK, Worker, NoWorker, AuditRecord,
       Grant, ApproveUnasked, Yes, Granting
  <2>3. AllPermitted'
    BY <1>5 DEF ToolInv, AllPermitted, Permitted, ToolTypeOK, PipeTypeOK, Worker,
       ApproveUnasked, Yes, Granting
  <2>4. AllConsented'
    BY <1>5, GrantKeepsConsent DEF ApproveUnasked
  <2>5. AlwaysBacked'
    BY <1>5, UnaskedKeepsBacking
  <2>6. AllAudited'
    BY <1>5 DEF ToolInv, AllAudited, EffectsAudited, RefusedNeverLands, RefusedCodes,
       Ordered, ToolTypeOK, PipeTypeOK, Worker, AuditRecord, ApproveUnasked, Yes,
       Granting
  <2>7. QED
    BY <2>1, <2>2, <2>3, <2>4, <2>5, <2>6 DEF ToolInv
<1>6. ASSUME Reject, Audited("rejected")
      PROVE  ToolInv'
  <2>1. ToolTypeOK'
    BY <1>6 DEF ToolInv, ToolTypeOK, PipeTypeOK, Worker, NoWorker, Codes, Grant,
       AuditRecord, Decisions, Reject, Finish, Audited
  <2>2. Ordered'
    BY <1>6, RunOrdered DEF Reject, Finish
  <2>3. AllPermitted'
    BY <1>6 DEF ToolInv, AllPermitted, Permitted, ToolTypeOK, PipeTypeOK, Worker,
       Reject, Finish, Audited
  <2>4. AllConsented'
    BY <1>6 DEF ToolInv, AllConsented, Consented, Free, Granted, Mutating, Ordered,
       ToolTypeOK, PipeTypeOK, Worker, Grant, Reject, Finish, Audited
  <2>5. AlwaysBacked'
    BY <1>6 DEF ToolInv, AlwaysBacked, UnaskedIsBacked, Ordered, ToolTypeOK, PipeTypeOK,
       Worker, Unasked, Grant, Reject, Finish, Audited
  <2>6. AllAudited'
    BY <1>6, RejectionRecorded
  <2>7. QED
    BY <2>1, <2>2, <2>3, <2>4, <2>5, <2>6 DEF ToolInv
<1>7. ASSUME LandActive, Landing(cur)
      PROVE  ToolInv'
  <2>1. ToolTypeOK'
    BY <1>7 DEF ToolInv, ToolTypeOK, PipeTypeOK, Worker, NoWorker, Codes, Grant,
       AuditRecord, Decisions, LandActive, Landing, Landed, Pending
  <2>2. Ordered'
    BY <1>7 DEF ToolInv, Ordered, ToolTypeOK, PipeTypeOK, Worker, NoWorker, AuditRecord,
       Grant, LandActive, Landing, Landed, Pending
  <2>3. AllPermitted'
    BY <1>7 DEF ToolInv, AllPermitted, Permitted, ToolTypeOK, PipeTypeOK, Worker,
       LandActive, Landing, Landed, Pending
  <2>4. AllConsented'
    BY <1>7 DEF ToolInv, AllConsented, Consented, Free, Granted, Mutating, Ordered,
       ToolTypeOK, PipeTypeOK, Worker, Grant, LandActive, Landing, Landed, Pending
  <2>5. AlwaysBacked'
    BY <1>7 DEF ToolInv, AlwaysBacked, UnaskedIsBacked, Ordered, ToolTypeOK, PipeTypeOK,
       Worker, Unasked, Grant, LandActive, Landing, Landed, Pending
  <2>6. AllAudited'
    BY <1>7 DEF ToolInv, AllAudited, EffectsAudited, RefusedNeverLands, RefusedCodes,
       Ordered, ToolTypeOK, PipeTypeOK, Worker, AuditRecord, LandActive, Landing,
       Landed, Pending
  <2>7. QED
    BY <2>1, <2>2, <2>3, <2>4, <2>5, <2>6 DEF ToolInv
<1>8. ASSUME NEW w \in orphans, LandOrphan(w), Landing(w)
      PROVE  ToolInv'
  <2>1. ToolTypeOK'
    BY <1>8 DEF ToolInv, ToolTypeOK, PipeTypeOK, Worker, NoWorker, Codes, Grant,
       AuditRecord, Decisions, LandOrphan, Landing, Landed, Pending
  <2>2. Ordered'
    BY <1>8 DEF ToolInv, Ordered, ToolTypeOK, PipeTypeOK, Worker, NoWorker, AuditRecord,
       Grant, LandOrphan, Landing, Landed, Pending
  <2>3. AllPermitted'
    BY <1>8 DEF ToolInv, AllPermitted, Permitted, ToolTypeOK, PipeTypeOK, Worker,
       LandOrphan, Landing, Landed, Pending
  <2>4. AllConsented'
    BY <1>8 DEF ToolInv, AllConsented, Consented, Free, Granted, Mutating, Ordered,
       ToolTypeOK, PipeTypeOK, Worker, Grant, LandOrphan, Landing, Landed, Pending
  <2>5. AlwaysBacked'
    BY <1>8 DEF ToolInv, AlwaysBacked, UnaskedIsBacked, Ordered, ToolTypeOK, PipeTypeOK,
       Worker, Unasked, Grant, LandOrphan, Landing, Landed, Pending
  <2>6. AllAudited'
    BY <1>8 DEF ToolInv, AllAudited, EffectsAudited, RefusedNeverLands, RefusedCodes,
       Ordered, ToolTypeOK, PipeTypeOK, Worker, AuditRecord, LandOrphan, Landing,
       Landed, Pending
  <2>7. QED
    BY <2>1, <2>2, <2>3, <2>4, <2>5, <2>6 DEF ToolInv
<1>9. ASSUME NEW w \in orphans, OrphanExit(w), Silent
      PROVE  ToolInv'
  <2>1. ToolTypeOK'
    BY <1>9 DEF ToolInv, ToolTypeOK, PipeTypeOK, Worker, NoWorker, Codes, Grant,
       AuditRecord, Decisions, OrphanExit, Silent
  <2>2. Ordered'
    BY <1>9 DEF ToolInv, Ordered, ToolTypeOK, PipeTypeOK, Worker, NoWorker, AuditRecord,
       Grant, OrphanExit, Silent
  <2>3. AllPermitted'
    BY <1>9 DEF ToolInv, AllPermitted, Permitted, ToolTypeOK, PipeTypeOK, Worker,
       OrphanExit, Silent
  <2>4. AllConsented'
    BY <1>9 DEF ToolInv, AllConsented, Consented, Free, Granted, Mutating, Ordered,
       ToolTypeOK, PipeTypeOK, Worker, Grant, OrphanExit, Silent
  <2>5. AlwaysBacked'
    BY <1>9 DEF ToolInv, AlwaysBacked, UnaskedIsBacked, Ordered, ToolTypeOK, PipeTypeOK,
       Worker, Unasked, Grant, OrphanExit, Silent
  <2>6. AllAudited'
    BY <1>9 DEF ToolInv, AllAudited, EffectsAudited, RefusedNeverLands, RefusedCodes,
       Ordered, ToolTypeOK, PipeTypeOK, Worker, AuditRecord, OrphanExit, Silent
  <2>7. QED
    BY <2>1, <2>2, <2>3, <2>4, <2>5, <2>6 DEF ToolInv
<1>10. ASSUME ToolReturns, Audited("allow")
      PROVE  ToolInv'
  <2>1. ToolTypeOK'
    BY <1>10 DEF ToolInv, ToolTypeOK, PipeTypeOK, Worker, NoWorker, Codes, Grant,
       AuditRecord, Decisions, ToolReturns, Finish, Audited
  <2>2. Ordered'
    BY <1>10, RunOrdered DEF ToolReturns, Finish
  <2>3. AllPermitted'
    BY <1>10 DEF ToolInv, AllPermitted, Permitted, ToolTypeOK, PipeTypeOK, Worker,
       ToolReturns, Finish, Audited
  <2>4. AllConsented'
    BY <1>10 DEF ToolInv, AllConsented, Consented, Free, Granted, Mutating, Ordered,
       ToolTypeOK, PipeTypeOK, Worker, Grant, ToolReturns, Finish, Audited
  <2>5. AlwaysBacked'
    BY <1>10 DEF ToolInv, AlwaysBacked, UnaskedIsBacked, Ordered, ToolTypeOK,
       PipeTypeOK, Worker, Unasked, Grant, ToolReturns, Finish, Audited
  <2>6. AllAudited'
    BY <1>10, RunRecorded DEF ToolReturns, RefusedCodes
  <2>7. QED
    BY <2>1, <2>2, <2>3, <2>4, <2>5, <2>6 DEF ToolInv
<1>11. ASSUME ToolRaises, Audited("deny")
      PROVE  ToolInv'
  <2>1. ToolTypeOK'
    BY <1>11 DEF ToolInv, ToolTypeOK, PipeTypeOK, Worker, NoWorker, Codes, Grant,
       AuditRecord, Decisions, ToolRaises, Finish, Audited
  <2>2. Ordered'
    BY <1>11, RunOrdered DEF ToolRaises, Finish
  <2>3. AllPermitted'
    BY <1>11 DEF ToolInv, AllPermitted, Permitted, ToolTypeOK, PipeTypeOK, Worker,
       ToolRaises, Finish, Audited
  <2>4. AllConsented'
    BY <1>11 DEF ToolInv, AllConsented, Consented, Free, Granted, Mutating, Ordered,
       ToolTypeOK, PipeTypeOK, Worker, Grant, ToolRaises, Finish, Audited
  <2>5. AlwaysBacked'
    BY <1>11 DEF ToolInv, AlwaysBacked, UnaskedIsBacked, Ordered, ToolTypeOK,
       PipeTypeOK, Worker, Unasked, Grant, ToolRaises, Finish, Audited
  <2>6. AllAudited'
    BY <1>11, RunRecorded DEF ToolRaises, RefusedCodes
  <2>7. QED
    BY <2>1, <2>2, <2>3, <2>4, <2>5, <2>6 DEF ToolInv
<1>12. ASSUME ToolCancelled, Audited("cancelled")
      PROVE  ToolInv'
  <2>1. ToolTypeOK'
    BY <1>12 DEF ToolInv, ToolTypeOK, PipeTypeOK, Worker, NoWorker, Codes, Grant,
       AuditRecord, Decisions, ToolCancelled, Finish, Audited
  <2>2. Ordered'
    BY <1>12, RunOrdered DEF ToolCancelled, Finish
  <2>3. AllPermitted'
    BY <1>12 DEF ToolInv, AllPermitted, Permitted, ToolTypeOK, PipeTypeOK, Worker,
       ToolCancelled, Finish, Audited
  <2>4. AllConsented'
    BY <1>12 DEF ToolInv, AllConsented, Consented, Free, Granted, Mutating, Ordered,
       ToolTypeOK, PipeTypeOK, Worker, Grant, ToolCancelled, Finish, Audited
  <2>5. AlwaysBacked'
    BY <1>12 DEF ToolInv, AlwaysBacked, UnaskedIsBacked, Ordered, ToolTypeOK,
       PipeTypeOK, Worker, Unasked, Grant, ToolCancelled, Finish, Audited
  <2>6. AllAudited'
    BY <1>12, RunRecorded DEF ToolCancelled, RefusedCodes
  <2>7. QED
    BY <2>1, <2>2, <2>3, <2>4, <2>5, <2>6 DEF ToolInv
<1>13. ASSUME Backstop, Audited("deny")
      PROVE  ToolInv'
  <2>1. ToolTypeOK'
    BY <1>13 DEF ToolInv, ToolTypeOK, PipeTypeOK, Worker, NoWorker, Codes, Grant,
       AuditRecord, Decisions, Backstop, Finish, Audited
  <2>2. Ordered'
    BY <1>13, RunOrdered DEF Backstop, Finish
  <2>3. AllPermitted'
    BY <1>13 DEF ToolInv, AllPermitted, Permitted, ToolTypeOK, PipeTypeOK, Worker,
       Backstop, Finish, Audited
  <2>4. AllConsented'
    BY <1>13 DEF ToolInv, AllConsented, Consented, Free, Granted, Mutating, Ordered,
       ToolTypeOK, PipeTypeOK, Worker, Grant, Backstop, Finish, Audited
  <2>5. AlwaysBacked'
    BY <1>13 DEF ToolInv, AlwaysBacked, UnaskedIsBacked, Ordered, ToolTypeOK,
       PipeTypeOK, Worker, Unasked, Grant, Backstop, Finish, Audited
  <2>6. AllAudited'
    BY <1>13, RunRecorded DEF Backstop, RefusedCodes
  <2>7. QED
    BY <2>1, <2>2, <2>3, <2>4, <2>5, <2>6 DEF ToolInv
<1>14. ASSUME Deliver \/ CancelSet \/ CancelReset, Silent
      PROVE  ToolInv'
  <2>1. ToolTypeOK'
    BY <1>14 DEF ToolInv, ToolTypeOK, PipeTypeOK, Worker, NoWorker, Codes, Grant,
       AuditRecord, Decisions, Deliver, CancelSet, CancelReset, Silent
  <2>2. Ordered'
    BY <1>14 DEF ToolInv, Ordered, ToolTypeOK, PipeTypeOK, Worker, NoWorker,
       AuditRecord, Grant, Deliver, CancelSet, CancelReset, Silent
  <2>3. AllPermitted'
    BY <1>14 DEF ToolInv, AllPermitted, Permitted, ToolTypeOK, PipeTypeOK, Worker,
       Deliver, CancelSet, CancelReset, Silent
  <2>4. AllConsented'
    BY <1>14 DEF ToolInv, AllConsented, Consented, Free, Granted, Mutating, Ordered,
       ToolTypeOK, PipeTypeOK, Worker, Grant, Deliver, CancelSet, CancelReset, Silent
  <2>5. AlwaysBacked'
    BY <1>14 DEF ToolInv, AlwaysBacked, UnaskedIsBacked, Ordered, ToolTypeOK,
       PipeTypeOK, Worker, Unasked, Grant, Deliver, CancelSet, CancelReset, Silent
  <2>6. AllAudited'
    BY <1>14 DEF ToolInv, AllAudited, EffectsAudited, RefusedNeverLands, RefusedCodes,
       Ordered, ToolTypeOK, PipeTypeOK, Worker, AuditRecord, Deliver, CancelSet,
       CancelReset, Silent
  <2>7. QED
    BY <2>1, <2>2, <2>3, <2>4, <2>5, <2>6 DEF ToolInv
<1>15. ASSUME NEW m \in Modes, SetMode(m), Silent
      PROVE  ToolInv'
  <2>1. ToolTypeOK'
    BY <1>15 DEF ToolInv, ToolTypeOK, PipeTypeOK, Worker, NoWorker, Codes, Grant,
       AuditRecord, Decisions, SetMode, Silent
  <2>2. Ordered'
    BY <1>15 DEF ToolInv, Ordered, ToolTypeOK, PipeTypeOK, Worker, NoWorker,
       AuditRecord, Grant, SetMode, Silent
  <2>3. AllPermitted'
    BY <1>15 DEF ToolInv, AllPermitted, Permitted, ToolTypeOK, PipeTypeOK, Worker,
       SetMode, Silent
  <2>4. AllConsented'
    BY <1>15 DEF ToolInv, AllConsented, Consented, Free, Granted, Mutating, Ordered,
       ToolTypeOK, PipeTypeOK, Worker, Grant, SetMode, Silent
  <2>5. AlwaysBacked'
    BY <1>15 DEF ToolInv, AlwaysBacked, UnaskedIsBacked, Ordered, ToolTypeOK,
       PipeTypeOK, Worker, Unasked, Grant, SetMode, Silent
  <2>6. AllAudited'
    BY <1>15 DEF ToolInv, AllAudited, EffectsAudited, RefusedNeverLands, RefusedCodes,
       Ordered, ToolTypeOK, PipeTypeOK, Worker, AuditRecord, SetMode, Silent
  <2>7. QED
    BY <2>1, <2>2, <2>3, <2>4, <2>5, <2>6 DEF ToolInv
<1>16. ASSUME NEW m \in Modes, Restart(m), Dies
      PROVE  ToolInv'
  <2>1. ToolTypeOK'
    BY <1>16, RestartTyped
  <2>2. Ordered'
    BY <1>16 DEF ToolInv, Ordered, ToolTypeOK, PipeTypeOK, Worker, NoWorker,
       AuditRecord, Grant, Restart, Dies
  <2>3. AllPermitted'
    BY <1>16 DEF ToolInv, AllPermitted, Permitted, ToolTypeOK, PipeTypeOK, Worker,
       Restart, Dies
  <2>4. AllConsented'
    BY <1>16 DEF ToolInv, AllConsented, Consented, Free, Granted, Mutating, Ordered,
       ToolTypeOK, PipeTypeOK, Worker, Grant, Restart, Dies
  <2>5. AlwaysBacked'
    BY <1>16 DEF ToolInv, AlwaysBacked, UnaskedIsBacked, Ordered, ToolTypeOK,
       PipeTypeOK, Worker, Unasked, Grant, Restart, Dies
  <2>6. AllAudited'
    BY <1>16 DEF ToolInv, AllAudited, EffectsAudited, RefusedNeverLands, RefusedCodes,
       Ordered, ToolTypeOK, PipeTypeOK, Worker, AuditRecord, Restart, Dies
  <2>7. QED
    BY <2>1, <2>2, <2>3, <2>4, <2>5, <2>6 DEF ToolInv
<1>17. ASSUME UNCHANGED toolVars
      PROVE  ToolInv'
  <2>1. ToolTypeOK'
    BY <1>17 DEF ToolInv, ToolTypeOK, PipeTypeOK, Worker, NoWorker, Codes, Grant,
       AuditRecord, Decisions, toolVars, pipeVars
  <2>2. Ordered'
    BY <1>17 DEF ToolInv, Ordered, ToolTypeOK, PipeTypeOK, Worker, NoWorker,
       AuditRecord, Grant, toolVars, pipeVars
  <2>3. AllPermitted'
    BY <1>17 DEF ToolInv, AllPermitted, Permitted, ToolTypeOK, PipeTypeOK, Worker,
       toolVars, pipeVars
  <2>4. AllConsented'
    BY <1>17 DEF ToolInv, AllConsented, Consented, Free, Granted, Mutating, Ordered,
       ToolTypeOK, PipeTypeOK, Worker, Grant, toolVars, pipeVars
  <2>5. AlwaysBacked'
    BY <1>17 DEF ToolInv, AlwaysBacked, UnaskedIsBacked, Ordered, ToolTypeOK,
       PipeTypeOK, Worker, Unasked, Grant, toolVars, pipeVars
  <2>6. AllAudited'
    BY <1>17 DEF ToolInv, AllAudited, EffectsAudited, RefusedNeverLands, RefusedCodes,
       Ordered, ToolTypeOK, PipeTypeOK, Worker, AuditRecord, toolVars, pipeVars
  <2>7. QED
    BY <2>1, <2>2, <2>3, <2>4, <2>5, <2>6 DEF ToolInv
<1>18. QED
  BY <1>1, <1>2, <1>3, <1>4, <1>5, <1>6, <1>7, <1>8, <1>9, <1>10, <1>11, <1>12, <1>13,
     <1>14, <1>15, <1>16, <1>17 DEF ToolNext

(* The invariant holds in every reachable state.                           *)
THEOREM ToolInvariant == ToolSpec => []ToolInv
<1>1. ToolInit => ToolInv
  BY ToolInvInit
<1>2. ToolInv /\ [ToolNext]_toolVars => ToolInv'
  BY ToolInvStep
<1>3. QED
  BY <1>1, <1>2, PTL DEF ToolSpec

(* Type correctness of the pipeline, the audit log and the history.        *)
THEOREM ToolTypeCorrect == ToolSpec => []ToolTypeOK
<1>1. ToolInv => ToolTypeOK
  BY DEF ToolInv
<1>2. QED
  BY <1>1, ToolInvariant, PTL

(* Outside trusted mode and the allowlist nothing changes the workspace    *)
(* that the approver of this process did not grant (base.py execute).      *)
THEOREM EffectsAreConsented == ToolSpec => []EffectsConsented
<1>1. ToolInv => EffectsConsented
  BY DEF ToolInv, AllConsented, EffectsConsented
<1>2. QED
  BY <1>1, ToolInvariant, PTL

(* TtyApprover says yes unasked only after an "always" for that tool.      *)
THEOREM UnaskedIsBackedAlways == ToolSpec => []UnaskedIsBacked
<1>1. ToolInv => UnaskedIsBacked
  BY DEF ToolInv, AlwaysBacked
<1>2. QED
  BY <1>1, ToolInvariant, PTL

(* Both halves of consent, for every toolset, every approver and any       *)
(* number of calls, threads and restarts (agent/ui/approvals.py).          *)
THEOREM ConsentHolds == ToolSpec => []ConsentIsKept
<1>1. EffectsConsented /\ UnaskedIsBacked => ConsentIsKept
  BY DEF ConsentIsKept
<1>2. QED
  BY <1>1, EffectsAreConsented, UnaskedIsBackedAlways, PTL

(* No approval, no approver and no mode change lifts the mode ceiling or   *)
(* an absolute rule for anything that runs (permissions.py authorize).     *)
THEOREM CeilingHolds == ToolSpec => []EffectsWithinCeiling
<1>1. ToolInv => EffectsWithinCeiling
  BY DEF ToolInv, AllPermitted, Permitted, EffectsWithinCeiling
<1>2. QED
  BY <1>1, ToolInvariant, PTL

(* What was refused has no effect, then or later.                          *)
THEOREM RefusalsHold == ToolSpec => []RefusedNeverLands
<1>1. ToolInv => RefusedNeverLands
  BY DEF ToolInv, AllAudited
<1>2. QED
  BY <1>1, ToolInvariant, PTL

(* No effect escapes the audit log, and no call is in it twice, abandoned  *)
(* threads included.                                                       *)
THEOREM EffectsAreAudited == ToolSpec => []EffectsAudited
<1>1. ToolInv => EffectsAudited
  BY DEF ToolInv, AllAudited
<1>2. QED
  BY <1>1, ToolInvariant, PTL
===============================================================================
