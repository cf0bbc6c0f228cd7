------------------------------ MODULE CallsProofs ------------------------------
(***************************************************************************)
(* The theorems of what somebody waits for: a call of the shell            *)
(* (ShellCommand), a generation on the page (WebPage), and a generation at *)
(* the server (Serving), of which for any number of requests               *)
(* and callers, any limits and any interleaving of limiter calls,          *)
(* deadlines, failures and disconnects: the slots are balanced, nobody is  *)
(* refused for a rate he did not use up, and what a key gets beyond its    *)
(* rate is paid for by calls that overlapped.  Last, what of a             *)
(* conversation is sent at all (Packing).                                  *)
(***************************************************************************)
EXTENDS MCCalls, GateProofs, Recursion, SequenceTheorems, FiniteSetTheorems, TLAPS

-----------------------------------------------------------------------------
(* A command, for every limit and number of polls, and whatever it and its *)
(* child do.                                                               *)

(* Nobody waits for longer than he may, and who waits still has time.      *)
InTime ==
    /\ waited \in Nat /\ waited <= Timeout
    /\ runner \in {"called", "waiting"} => waited < Timeout

(* Before its command there is no process.                                 *)
NothingStarted ==
    runner = "called" \/ ending \in {"invalid", "refused", "not started"} =>
        process = [p \in Processes |-> NoProcess]

(* From SIGTERM on nobody of the group is left out, and none joins it.     *)
AllSignalled ==
    runner = "polling" \/ ending \in {"cancelled", "timeout"} =>
        \A p \in Processes : process[p].alive => process[p].signal # "none"

(* A leader that is left has been killed, with its group.                  *)
GroupIsKilled ==
    runner = "over" /\ process["leader"].alive =>
        \A p \in Processes : process[p].alive => process[p].signal = "KILL"

ShellInv ==
    /\ ShellTypeOK
    /\ InTime
    /\ NothingStarted
    /\ AllSignalled
    /\ GroupIsKilled

(* What a process is.                                                      *)
Proc == [alive : BOOLEAN, stubborn : BOOLEAN, piped : BOOLEAN, signal : Signals]

LEMMA TimeoutWithin ==
    ASSUME call \in ShellCalls
    PROVE  /\ Timeout \in Nat \ {0} /\ Timeout <= Limit
           /\ call.timeout # 0 => Timeout <= call.timeout
<1>1. call.timeout \in 0..(Limit + 1)
    BY DEF ShellCalls
<1> QED
    BY <1>1, ShellAssumption DEF Timeout

LEMMA ShellInitially == ShellInit => ShellInv
<1> SUFFICES ASSUME ShellInit PROVE ShellInv
    OBVIOUS
<1>1. NoProcess \in Proc /\ ~NoProcess.alive
    BY DEF NoProcess, Proc, Signals
<1>2. process \in [Processes -> Proc] /\ \A p \in Processes : ~process[p].alive
    BY <1>1 DEF ShellInit
<1>3. ShellTypeOK
    <2>1. process \in [Processes -> [alive : BOOLEAN, stubborn : BOOLEAN, piped : BOOLEAN, signal : Signals]]
        BY <1>2 DEF Proc
    <2>2. waited \in Nat /\ polled \in 0..Polls
        BY ShellAssumption DEF ShellInit
    <2> QED
        BY <2>1, <2>2 DEF ShellInit, ShellTypeOK
<1>4. InTime
    BY TimeoutWithin DEF ShellInit, InTime
<1> QED
    BY <1>2, <1>3, <1>4 DEF ShellInit, ShellInv, NothingStarted, AllSignalled, GroupIsKilled

(* What any step does to the processes keeps their shape.                  *)
LEMMA ProcessesTyped ==
    ASSUME process \in [Processes -> Proc], [ShellNext]_shellVars
    PROVE  process' \in [Processes -> Proc]
<1>1. \A p \in Processes : process[p] \in Proc
    OBVIOUS
<1>2. CASE Spawn \/ Fork
    <2>1. PICK p \in Processes, new \in Proc : process' = process \/ process' = [process EXCEPT ![p] = new]
        <3>1. \A a \in BOOLEAN, b \in BOOLEAN :
                 [alive |-> TRUE, stubborn |-> a, piped |-> b, signal |-> "none"] \in Proc
            BY DEF Proc, Signals
        <3>2. {"leader", "child"} \subseteq Processes
            BY DEF Processes
        <3>3. TRUE \in BOOLEAN
            OBVIOUS
        <3>4. CASE Spawn
            BY <3>1, <3>2, <3>3, <3>4 DEF Spawn
        <3>5. CASE Fork
            BY <3>1, <3>2, <3>5 DEF Fork
        <3> QED
            BY <1>2, <3>4, <3>5
    <2> QED
        BY <2>1
<1>3. CASE Slice \/ Poll
    BY <1>1, <1>3 DEF Slice, Poll, Term, Proc, Signals
<1>4. CASE \E p \in Processes : EndProcess(p)
    BY <1>1, <1>4 DEF EndProcess, Proc
<1>5. CASE Reject \/ Complete \/ CancelShell \/ UNCHANGED shellVars
    BY <1>5 DEF Reject, Complete, CancelShell, shellVars
<1> QED
    BY <1>2, <1>3, <1>4, <1>5 DEF ShellNext

(* The rest of the type.                                                   *)
LEMMA ShellTyped ==
    ASSUME ShellInv, [ShellNext]_shellVars
    PROVE  ShellTypeOK'
<1>1. process' \in [Processes -> Proc]
    BY ProcessesTyped DEF ShellInv, ShellTypeOK, Proc
<1>2. call' \in ShellCalls /\ machine' \in BOOLEAN /\ cancelled' \in BOOLEAN
    BY DEF ShellInv, ShellTypeOK, ShellNext, shellVars, Reject, Spawn, Complete, Slice, Poll, Fork,
           CancelShell, EndProcess
<1>3. waited' \in Nat /\ polled' \in 0..Polls
    <2>1. waited \in Nat /\ polled \in 0..Polls /\ Polls \in Nat
        BY ShellAssumption DEF ShellInv, ShellTypeOK
    <2>2. /\ waited' = waited \/ waited' = waited + 1
          /\ polled' = polled \/ (polled # Polls /\ polled' = polled + 1)
        BY DEF ShellNext, shellVars, Reject, Spawn, Complete, Slice, Poll, Fork, CancelShell, EndProcess
    <2> QED
        BY <2>1, <2>2
<1>4. /\ runner' \in {"called", "waiting", "polling", "over"}
      /\ ending' \in {"none", "invalid", "refused", "not started", "done", "cancelled", "timeout"}
      /\ runner' = "over" <=> ending' # "none"
    BY DEF ShellInv, ShellTypeOK, ShellNext, shellVars, Reject, Spawn, Complete, Slice, Poll, Fork,
           CancelShell, EndProcess, Concludes, Stopped
<1> QED
    BY <1>1, <1>2, <1>3, <1>4 DEF ShellTypeOK, Proc

LEMMA InTimeStep ==
    ASSUME ShellInv, [ShellNext]_shellVars
    PROVE  InTime'
<1>1. Timeout \in Nat /\ Timeout' = Timeout /\ waited \in Nat
    BY TimeoutWithin
    DEF ShellInv, ShellTypeOK, ShellNext, shellVars, Reject, Spawn, Complete, Slice, Poll, Fork,
        CancelShell, EndProcess, Timeout
<1>2. CASE Slice
    BY <1>1, <1>2 DEF Slice, ShellInv, InTime
<1>3. CASE ~Slice
    <2>1. waited' = waited /\ (runner' \in {"called", "waiting"} => runner \in {"called", "waiting"})
        BY <1>3 DEF ShellNext, shellVars, Reject, Spawn, Complete, Poll, Fork, CancelShell,
                    EndProcess, Concludes, ShellInv, ShellTypeOK
    <2> QED
        BY <1>1, <2>1 DEF ShellInv, InTime
<1> QED
    BY <1>2, <1>3

(* The processes, step by step.                                            *)
LEMMA GroupStep ==
    ASSUME ShellInv, [ShellNext]_shellVars
    PROVE  NothingStarted' /\ AllSignalled' /\ GroupIsKilled'
<1>1. /\ process \in [Processes -> Proc]
      /\ runner = "over" <=> ending # "none"
      /\ "leader" \in Processes
    BY DEF ShellInv, ShellTypeOK, Proc, Processes
<1>2. ~NoProcess.alive
    BY DEF NoProcess
<1>3. CASE Reject
    <2>1. \A p \in Processes : ~process[p].alive
        BY <1>2, <1>3 DEF Reject, ShellInv, NothingStarted
    <2> QED
        BY <1>1, <1>3, <2>1
        DEF Reject, Concludes, ShellInv, NothingStarted, AllSignalled, GroupIsKilled
<1>4. CASE Spawn
    <2>1. CASE call.program = "missing"
        <3>1. \A p \in Processes : ~process[p].alive
            BY <1>2, <1>4 DEF Spawn, ShellInv, NothingStarted
        <3> QED
            BY <1>1, <1>4, <2>1, <3>1
            DEF Spawn, Concludes, ShellInv, NothingStarted, AllSignalled, GroupIsKilled
    <2>2. CASE call.program # "missing"
        BY <1>1, <1>4, <2>2 DEF Spawn, NothingStarted, AllSignalled, GroupIsKilled
    <2> QED
        BY <2>1, <2>2
<1>5. CASE Complete
    BY <1>1, <1>5
    DEF Complete, Concludes, Exited, ShellInv, NothingStarted, AllSignalled, GroupIsKilled
<1>6. CASE Slice
    <2>1. runner = "waiting" /\ runner' \in {"waiting", "polling"} /\ ending' = "none"
        BY <1>1, <1>6 DEF Slice
    <2>2. runner' = "polling" => Term
        BY <1>6 DEF Slice
    <2>3. ASSUME Term, NEW p \in Processes, process'[p].alive
          PROVE  process'[p].signal # "none"
        BY <1>1, <2>3 DEF Term, Proc
    <2> QED
        BY <2>1, <2>2, <2>3 DEF NothingStarted, AllSignalled, GroupIsKilled
<1>7. CASE Poll
    <2>1. ending = "none" /\ \A p \in Processes : process[p].alive => process[p].signal # "none"
        BY <1>1, <1>7 DEF Poll, ShellInv, AllSignalled
    <2>2. CASE Exited("leader")
        BY <1>1, <1>7, <2>1, <2>2
        DEF Poll, Concludes, Stopped, Exited, NothingStarted, AllSignalled, GroupIsKilled
    <2>3. CASE ~Exited("leader") /\ polled = Polls
        <3>1. /\ runner' = "over" /\ ending' \in {"cancelled", "timeout"}
              /\ process' = [p \in Processes |-> IF process[p].alive
                                THEN [process[p] EXCEPT !.signal = "KILL"] ELSE process[p]]
            BY <1>7, <2>3 DEF Poll, Concludes, Stopped
        <3>2. \A p \in Processes : process'[p].alive => process'[p].signal = "KILL"
            BY <1>1, <3>1 DEF Proc
        <3> QED
            BY <3>1, <3>2 DEF NothingStarted, AllSignalled, GroupIsKilled
    <2>4. CASE ~Exited("leader") /\ polled # Polls
        BY <1>1, <1>7, <2>1, <2>4 DEF Poll, NothingStarted, AllSignalled, GroupIsKilled
    <2> QED
        BY <2>2, <2>3, <2>4
<1>8. CASE Fork
    <2>1. /\ process["leader"].alive /\ process["leader"].signal = "none"
          /\ runner' = runner /\ ending' = ending
        BY <1>8 DEF Fork
    <2>2. runner # "polling" /\ ending \notin {"cancelled", "timeout"}
        BY <1>1, <2>1 DEF ShellInv, AllSignalled
    <2>3. runner # "over"
        BY <1>1, <2>1 DEF ShellInv, GroupIsKilled
    <2>4. runner # "called"
        BY <1>1, <1>2, <2>1 DEF ShellInv, NothingStarted
    <2> QED
        BY <1>1, <2>1, <2>2, <2>3, <2>4 DEF NothingStarted, AllSignalled, GroupIsKilled
<1>9. ASSUME NEW q \in Processes, EndProcess(q)
      PROVE  NothingStarted' /\ AllSignalled' /\ GroupIsKilled'
    <2>1. /\ process[q].alive /\ runner' = runner /\ ending' = ending
          /\ process' = [process EXCEPT ![q].alive = FALSE]
        BY <1>9 DEF EndProcess
    <2>2. \A p \in Processes : /\ process'[p].alive => process[p].alive
                               /\ process'[p].signal = process[p].signal
        BY <1>1, <2>1 DEF Proc
    <2>3. ~(runner = "called" \/ ending \in {"invalid", "refused", "not started"})
        BY <1>2, <2>1 DEF ShellInv, NothingStarted
    <2> QED
        BY <1>1, <2>1, <2>2, <2>3 DEF ShellInv, NothingStarted, AllSignalled, GroupIsKilled
<1>10. CASE CancelShell \/ UNCHANGED shellVars
    BY <1>10 DEF CancelShell, shellVars, ShellInv, NothingStarted, AllSignalled, GroupIsKilled
<1> QED
    BY <1>3, <1>4, <1>5, <1>6, <1>7, <1>8, <1>9, <1>10 DEF ShellNext

LEMMA ShellStep == ShellInv /\ [ShellNext]_shellVars => ShellInv'
<1> QED
    BY ShellTyped, InTimeStep, GroupStep DEF ShellInv

LEMMA ShellInvStops == ShellInv => CommandsAreStopped
<1> SUFFICES ASSUME ShellInv PROVE CommandsAreStopped
    OBVIOUS
<1>1. /\ process \in [Processes -> Proc] /\ call \in ShellCalls /\ Limit \in Nat
      /\ runner = "over" <=> ending # "none"
      /\ Processes = {"leader", "child"}
    BY ShellAssumption DEF ShellInv, ShellTypeOK, Proc, Processes
<1>2. WithinLimit
    <2>1. waited <= Limit /\ (call.timeout # 0 => waited <= call.timeout)
        <3>1. call.timeout \in Nat
            BY <1>1 DEF ShellCalls
        <3> QED
            BY <1>1, <3>1, TimeoutWithin DEF ShellInv, InTime
    <2>2. ending \in {"invalid", "refused", "not started"} => \A p \in Processes : process[p] = NoProcess
        BY DEF ShellInv, NothingStarted
    <2> QED
        BY <2>1, <2>2 DEF WithinLimit
<1>3. LeaderIsStopped
    BY <1>1 DEF ShellInv, GroupIsKilled, LeaderIsStopped
<1>4. SurvivorIgnoredTerm
    <2> SUFFICES ASSUME ending \in {"cancelled", "timeout"}, NEW p \in Processes, process[p].alive,
                        ~Doomed(p)
                 PROVE  p = "child" /\ process[p].stubborn /\ process[p].signal = "TERM" /\ Exited("leader")
        BY DEF SurvivorIgnoredTerm
    <2>1. runner = "over" /\ process[p].signal \in {"TERM", "KILL"}
        BY <1>1 DEF ShellInv, AllSignalled, Proc, Signals
    <2>2. process[p].signal = "TERM" /\ process[p].stubborn
        BY <2>1 DEF Doomed
    <2>3. ~process["leader"].alive
        BY <2>1, <2>2 DEF ShellInv, GroupIsKilled
    <2> QED
        BY <1>1, <2>2, <2>3 DEF Exited
<1> QED
    BY <1>2, <1>3, <1>4 DEF CommandsAreStopped

LEMMA ShellInvariant == ShellSpec => []ShellInv
<1> QED
    BY ShellInitially, ShellStep, PTL DEF ShellSpec

(* The variables of a call of the shell have their types.                  *)
THEOREM ShellTypeCorrect == ShellSpec => []ShellTypeOK
<1>1. ShellInv => ShellTypeOK
    BY DEF ShellInv
<1> QED
    BY <1>1, ShellInvariant, PTL

(* When a call is over its command is gone or was sent SIGKILL; whatever a *)
(* stopped call leaves alive was told to stop, and a child that ignores it *)
(* is left only by a leader that obeyed; and no call outlasts its limit    *)
(* (agent/tools/shell.py).                                                 *)
THEOREM CommandsStayStopped == ShellSpec => []CommandsAreStopped
<1> QED
    BY ShellInvStops, ShellInvariant, PTL

-----------------------------------------------------------------------------
(* The page, for every server and tenant, every length of a stream and any *)
(* number of sign-ins.                                                     *)

(* A tab that is not ready has neither a token nor anything on show.       *)
TabInv ==
    /\ page \in {"loading", "exchanging", "ready", "away"}
    /\ url \in {Plain, Denied} \cup 1..MaxLogins
    /\ pkce \in 0..MaxLogins /\ logins \in 0..MaxLogins
    /\ config \in {"unknown", "sso", "none"}
    /\ token \in {NoToken} \cup Token
    /\ shown \in {"nothing", "gate", "workspace"}
    /\ page # "ready" => token = NoToken /\ shown = "nothing"
    /\ page = "exchanging" \/ token # NoToken => pkce = 0
    /\ ComposerNeedsSession

Events == {"text", "done", "error"}

Generation == [at : {"idle", "sent", "answered", "reading"}, by : Credential,
               status : Status \cup {"declined"}, aborted : BOOLEAN]

Bubble == [text : Nat, end : {"none", "open", "complete", "empty", "error", "network",
                              "cancelled", "refused"}]

Stream == [at : {"none", "open", "closed", "broken"}, made : 0..MaxPieces,
           word : Events \cup {"none"}, wire : Seq(Events)]

(* On the wire are pieces, and at the end of a closed stream its last word.*)
WireEndsWell ==
    /\ \A i \in 1..Len(stream.wire) :
          \/ stream.wire[i] = "text"
          \/ i = Len(stream.wire) /\ stream.at = "closed"
    /\ stream.at = "closed" =>
          /\ stream.word \in {"done", "error"}
          /\ stream.wire # <<>> => stream.wire[Len(stream.wire)] = stream.word

LastWord == IF stream.at = "closed" /\ stream.wire # <<>> THEN 1 ELSE 0

(* While the page reads, every piece is shown or on the wire, and an error *)
(* that was sent has not been taken for an end.                            *)
NothingLost ==
    bubble.end = "open" =>
        /\ stream.made = bubble.text + Len(stream.wire) - LastWord
        /\ stream.at = "closed" /\ stream.word = "error" => stream.wire # <<>>

SendInv ==
    /\ request \in Generation /\ bubble \in Bubble /\ stream \in Stream
    /\ request.at = "idle" <=> request = Idle
    /\ request.at = "idle" <=> bubble.end # "open"
    /\ bubble.text <= MaxPieces
    /\ request.at # "idle" => page = "ready"
    /\ request.at = "sent" => stream = NoStream
    /\ stream.at \in {"open", "broken"} => bubble.end = "open"
    /\ WireEndsWell
    /\ NothingLost
    /\ bubble.end \in {"complete", "empty"} =>
          stream.at = "closed" /\ stream.word = "done" /\ bubble.text = stream.made

PageInv == GateInv /\ TabInv /\ SendInv

LEMMA PageInitially == PageInit => PageInv
<1> SUFFICES ASSUME PageInit PROVE PageInv
    OBVIOUS
<1>1. GateInv
    BY GateInitially DEF PageInit
<1>2. TabInv
    BY PageAssumption DEF PageInit, TabInv, ComposerNeedsSession, Plain
<1>3. Idle \in Generation /\ NoBubble \in Bubble /\ NoStream \in Stream
    BY PageAssumption
    DEF Idle, NoBubble, NoStream, Generation, Bubble, Stream, Header, Credential, Status
<1>4. SendInv
    BY <1>3, PageAssumption
    DEF PageInit, SendInv, Idle, NoBubble, NoStream, WireEndsWell, NothingLost
<1> QED
    BY <1>1, <1>2, <1>4 DEF PageInv

(* What the page does leaves the server as it is, but for its answer.      *)
LEMMA ServerStep ==
    ASSUME PageInv, [PageNext]_pageVars
    PROVE  GateInv'
<1>1. CASE Quiet
    <2>1. NoReply \in [route : {"none", "generate", "admin"}, by : Credential, status : Status]
        BY DEF NoReply, Header, Credential, Status
    <2> QED
        BY <1>1, <2>1 DEF Quiet, PageInv, GateInv, GateTypeOK, ProdHasAuth
<1>2. CASE Serve
    <2>1. request.by \in Credential /\ Generate(request.by)
        BY <1>2 DEF Serve, PageInv, SendInv, Generation
    <2> QED
        BY <2>1, GenerateStep DEF PageInv
<1>3. CASE PageTick
    BY <1>3, QuietStep DEF PageTick, PageInv
<1>4. CASE UNCHANGED pageVars
    BY <1>4 DEF pageVars, gateVars, PageInv, GateInv, GateTypeOK, ProdHasAuth
<1>5. CASE Boot \/ BootBlind \/ Exchange \/ Login \/ Logout \/ Return \/ Reload
    BY <1>1, <1>5 DEF Boot, BootBlind, Exchange, Login, Logout, Return, Reload, Leave
<1>6. CASE Send \/ Receive \/ NetworkError \/ Cancel \/ AbortError
    BY <1>1, <1>6 DEF Send, Receive, TakeStatus, TakeEvent, TakeEnd, NetworkError, Cancel, AbortError, Finish
<1>7. CASE StreamPiece \/ Done \/ Fails \/ Breaks
    BY <1>1, <1>7 DEF StreamPiece, Done, Fails, Breaks, Says
<1> QED
    BY <1>2, <1>3, <1>4, <1>5, <1>6, <1>7 DEF PageNext

-----------------------------------------------------------------------------
(* The tab.                                                                *)

LEMMA LeaveTab ==
    ASSUME NEW to \in {"loading", "away"}, NEW address \in {Plain, Denied} \cup 1..MaxLogins,
           Leave(to, address), pkce' \in 0..MaxLogins, logins' \in 0..MaxLogins
    PROVE  TabInv'
BY DEF Leave, TabInv, ComposerNeedsSession

LEMMA TabStep ==
    ASSUME PageInv, [PageNext]_pageVars
    PROVE  TabInv'
<1>1. TabInv /\ MaxLogins \in Nat /\ Life \in Nat
    BY PageAssumption DEF PageInv
<1>2. CASE Boot
    <2>1. token = NoToken /\ shown = "nothing" /\ page = "loading"
        BY <1>1, <1>2 DEF Boot, TabInv
    <2>2. url' \in {Plain, Denied} \cup 1..MaxLogins /\ pkce' \in 0..MaxLogins
          /\ page' \in {"exchanging", "ready"} /\ (page' = "exchanging" => pkce' = 0)
          /\ logins' = logins /\ token' = token /\ config' \in {"sso", "none"}
        BY <1>1, <1>2 DEF Boot, TabInv, SignsIn
    <2>3. shown' = IF page' = "ready" THEN IF config' = "sso" THEN "gate" ELSE "workspace" ELSE shown
        BY <1>2, <2>1 DEF Boot, View
    <2> QED
        BY <1>1, <2>1, <2>2, <2>3 DEF TabInv, ComposerNeedsSession
<1>3. CASE BootBlind
    BY <1>1, <1>3 DEF BootBlind, TabInv, ComposerNeedsSession
<1>4. CASE Exchange
    <2>1. pkce = 0 /\ page = "exchanging"
        BY <1>1, <1>4 DEF Exchange, TabInv
    <2>2. time \in 0..MaxTime /\ published \in SUBSET Kids /\ MaxTime \in Nat
        BY GateAssumption DEF PageInv, GateInv, GateTypeOK
    <2>3. token' \in {NoToken} \cup Token
        <3>1. CASE token' = NoToken
            BY <3>1
        <3>2. CASE token' # NoToken
            <4>1. PICK k \in published : token' = [kind |-> "jwt", kid |-> k, exp |-> time + Life,
                                                  admin |-> FALSE, right |-> TRUE]
                BY <1>4, <3>2 DEF Exchange
            <4>2. token'.exp <= MaxTime
                BY <1>4, <3>2 DEF Exchange
            <4>3. time + Life \in 0..MaxTime
                BY <1>1, <2>2, <4>1, <4>2
            <4> QED
                BY <2>2, <4>1, <4>3 DEF Token
        <3> QED
            BY <3>1, <3>2
    <2>4. /\ page' = "ready" /\ UNCHANGED <<url, pkce, logins, config>>
          /\ shown' \in {"gate", "workspace"}
          /\ config = "sso" /\ shown' = "workspace" => token' # NoToken
        BY <1>4 DEF Exchange, View
    <2> QED
        BY <1>1, <2>1, <2>3, <2>4 DEF TabInv, ComposerNeedsSession
<1>5. CASE Login \/ Logout \/ Return \/ Reload
    <2>1. /\ pkce' \in 0..MaxLogins /\ logins' \in 0..MaxLogins
          /\ \E to \in {"loading", "away"}, address \in {Plain, Denied} \cup 1..MaxLogins : Leave(to, address)
        BY <1>1, <1>5 DEF TabInv, Login, Logout, Return, Reload
    <2> QED
        BY <2>1, LeaveTab
<1>6. CASE TakeStatus
    <2>1. CASE UNCHANGED tabVars
        BY <1>1, <2>1 DEF tabVars, TabInv, ComposerNeedsSession
    <2>2. CASE token' = NoToken /\ shown' = View(config, NoToken)
               /\ UNCHANGED <<clientId, page, url, pkce, logins, config>>
        <3>1. page = "ready" => TabInv'
            BY <1>1, <2>2 DEF TabInv, ComposerNeedsSession, View
        <3>2. page = "ready"
            BY <1>6 DEF TakeStatus, PageInv, SendInv
        <3> QED
            BY <3>1, <3>2
    <2> QED
        BY <1>6, <2>1, <2>2 DEF TakeStatus, tabVars
<1>7. CASE UNCHANGED tabVars
    BY <1>1, <1>7 DEF tabVars, TabInv, ComposerNeedsSession
<1>8. CASE Send \/ Serve \/ TakeEvent \/ TakeEnd \/ NetworkError \/ Cancel \/ AbortError
    BY <1>7, <1>8 DEF Send, Serve, TakeEvent, TakeEnd, NetworkError, Cancel, AbortError
<1>9. CASE StreamPiece \/ Done \/ Fails \/ Breaks \/ PageTick \/ UNCHANGED pageVars
    BY <1>7, <1>9 DEF StreamPiece, Done, Fails, Breaks, Says, PageTick, pageVars
<1> QED
    BY <1>2, <1>3, <1>4, <1>5, <1>6, <1>8, <1>9 DEF PageNext, Receive

-----------------------------------------------------------------------------
(* The generation.                                                         *)

LEMMA AppendFacts ==
    ASSUME NEW S, NEW s \in Seq(S), NEW e \in S
    PROVE  /\ Len(s) \in Nat /\ Append(s, e) \in Seq(S) /\ Len(Append(s, e)) = Len(s) + 1
           /\ Append(s, e)[Len(s) + 1] = e
           /\ \A i \in 1..Len(s) : Append(s, e)[i] = s[i]
           /\ Append(s, e) # <<>>
OBVIOUS

LEMMA TailFacts ==
    ASSUME NEW S, NEW s \in Seq(S), s # <<>>
    PROVE  /\ Len(s) \in Nat /\ Len(s) > 0 /\ Tail(s) \in Seq(S) /\ Len(Tail(s)) = Len(s) - 1
           /\ \A i \in 1..(Len(s) - 1) : Tail(s)[i] = s[i + 1]
           /\ Tail(s) = <<>> <=> Len(s) = 1
<1>1. /\ Len(s) \in Nat /\ Len(s) > 0 /\ Tail(s) \in Seq(S) /\ Len(Tail(s)) = Len(s) - 1
      /\ \A i \in 1..(Len(s) - 1) : Tail(s)[i] = s[i + 1]
    OBVIOUS
<1>2. \A r \in Seq(S) : r = <<>> <=> Len(r) = 0
    OBVIOUS
<1>3. Tail(s) = <<>> <=> Len(Tail(s)) = 0
    BY <1>1, <1>2, Zenon
<1>4. Len(Tail(s)) = 0 <=> Len(s) = 1
    <2> DEFINE n == Len(s)
               m == Len(Tail(s))
    <2>1. n \in Nat /\ m = n - 1
        BY <1>1
    <2> HIDE DEF n, m
    <2>2. m = 0 <=> n = 1
        BY <2>1
    <2> QED
        BY <2>2 DEF n, m
<1> QED
    BY <1>1, <1>3, <1>4, Zenon

LEMMA FieldsTyped ==
    ASSUME SendInv
    PROVE  /\ request.at \in {"idle", "sent", "answered", "reading"} /\ request.by \in Credential
           /\ request.status \in Status \cup {"declined"} /\ request.aborted \in BOOLEAN
           /\ bubble.text \in Nat /\ bubble.text <= MaxPieces
           /\ stream.at \in {"none", "open", "closed", "broken"}
           /\ stream.made \in Nat /\ stream.made <= MaxPieces
           /\ stream.word \in Events \cup {"none"} /\ stream.wire \in Seq(Events)
           /\ MaxPieces \in Nat
<1>1. /\ request \in Generation /\ bubble \in Bubble /\ stream \in Stream /\ MaxPieces \in Nat
      /\ bubble.text <= MaxPieces
    BY PageAssumption DEF SendInv
<1>2. /\ request.at \in {"idle", "sent", "answered", "reading"} /\ request.by \in Credential
      /\ request.status \in Status \cup {"declined"} /\ request.aborted \in BOOLEAN
    BY <1>1 DEF Generation
<1>3. bubble.text \in Nat
    BY <1>1 DEF Bubble
<1>4. /\ stream.at \in {"none", "open", "closed", "broken"} /\ stream.made \in 0..MaxPieces
      /\ stream.word \in Events \cup {"none"} /\ stream.wire \in Seq(Events)
    BY <1>1 DEF Stream
<1> QED
    BY <1>1, <1>2, <1>3, <1>4

(* Nothing is in flight any more, and no answer was completed.             *)
LEMMA NothingInFlight ==
    ASSUME NEW text \in 0..MaxPieces,
           NEW end \in {"none", "error", "network", "cancelled", "refused"},
           request' = Idle, bubble' = [text |-> text, end |-> end], stream' = NoStream
    PROVE  SendInv'
<1>1. Idle \in Generation /\ NoStream \in Stream
    BY PageAssumption DEF Idle, NoStream, Generation, Stream, Header, Credential, Status
<1>2. bubble' \in Bubble /\ bubble'.end = end /\ bubble'.text <= MaxPieces
    BY PageAssumption DEF Bubble
<1>3. Idle.at = "idle" /\ NoStream.at = "none" /\ NoStream.wire = <<>>
    BY DEF Idle, NoStream
<1> QED
    BY <1>1, <1>2, <1>3 DEF SendInv, WireEndsWell, NothingLost

LEMMA ServeSends ==
    ASSUME GateInv, SendInv, Serve
    PROVE  SendInv'
<1>1. /\ request.at = "sent" /\ stream = NoStream /\ bubble' = bubble /\ page' = page
      /\ request.by \in Credential /\ request.aborted \in BOOLEAN
    BY FieldsTyped DEF Serve, SendInv, tabVars
<1>2. PICK s \in Status \cup {"declined"} :
        request' = [request EXCEPT !.at = "answered", !.status = s]
    <2>1. Authenticate(request.by) \in Status
        BY <1>1, AuthenticateStatus DEF Status
    <2> QED
        BY <2>1 DEF Serve
<1>3. request' \in Generation /\ request'.at = "answered" /\ request' # Idle
    BY <1>1, <1>2 DEF SendInv, Generation, Idle
<1>4. stream' = stream \/ stream' = [stream EXCEPT !.at = "open"]
    BY DEF Serve
<1>5. /\ stream' \in Stream /\ stream'.at \in {"none", "open"}
      /\ stream'.wire = <<>> /\ stream'.made = 0
    <2>1. stream' = NoStream \/ stream' = [NoStream EXCEPT !.at = "open"]
        BY <1>1, <1>4
    <2>2. 0 \in 0..MaxPieces /\ <<>> \in Seq(Events)
        BY PageAssumption
    <2>3. NoStream \in Stream /\ [NoStream EXCEPT !.at = "open"] \in Stream
        BY <2>2 DEF NoStream, Stream
    <2>4. NoStream.wire = <<>> /\ NoStream.made = 0 /\ NoStream.at = "none"
        BY DEF NoStream
    <2>5. /\ [NoStream EXCEPT !.at = "open"].wire = <<>>
          /\ [NoStream EXCEPT !.at = "open"].made = 0
          /\ [NoStream EXCEPT !.at = "open"].at = "open"
        BY DEF NoStream
    <2> QED
        BY <2>1, <2>3, <2>4, <2>5
<1>6. bubble.end = "open" /\ bubble.text = 0
    BY <1>1, FieldsTyped DEF SendInv, NothingLost, NoStream, LastWord
<1>7. WireEndsWell' /\ NothingLost'
    BY <1>1, <1>5, <1>6 DEF WireEndsWell, NothingLost, LastWord
<1> QED
    BY <1>1, <1>3, <1>5, <1>6, <1>7 DEF SendInv

(* The page takes what has arrived.                                        *)
LEMMA StatusSends ==
    ASSUME SendInv, TakeStatus
    PROVE  SendInv'
<1>1. CASE request.status = "200"
    <2>1. /\ request.at = "answered" /\ request' = [request EXCEPT !.at = "reading"]
          /\ bubble' = bubble /\ stream' = stream /\ page' = page
        BY <1>1 DEF TakeStatus, tabVars
    <2>2. request' \in Generation /\ request'.at = "reading" /\ request' # Idle
        BY <2>1 DEF SendInv, Generation, Idle
    <2> QED
        BY <2>1, <2>2 DEF SendInv, WireEndsWell, NothingLost, LastWord
<1>2. CASE request.status # "200"
    BY <1>2, NothingInFlight, PageAssumption DEF TakeStatus, Finish
<1> QED
    BY <1>1, <1>2

LEMMA EventSends ==
    ASSUME SendInv, TakeEvent
    PROVE  SendInv'
<1> DEFINE w == stream.wire
<1>1. CASE Head(w) = "error"
    BY <1>1, NothingInFlight, PageAssumption DEF TakeEvent, Finish
<1>2. CASE Head(w) # "error"
    <2>1. /\ request.at = "reading" /\ w # <<>> /\ request' = request /\ page' = page
          /\ bubble' = IF w[1] = "text" THEN [bubble EXCEPT !.text = @ + 1] ELSE bubble
          /\ stream' = [stream EXCEPT !.wire = Tail(w)]
        BY <1>2 DEF TakeEvent, tabVars
    <2>2. /\ w \in Seq(Events) /\ Len(w) \in Nat /\ Len(w) > 0
          /\ Tail(w) \in Seq(Events) /\ Len(Tail(w)) = Len(w) - 1
          /\ \A i \in 1..(Len(w) - 1) : Tail(w)[i] = w[i + 1]
          /\ Tail(w) = <<>> <=> Len(w) = 1
        <3>1. w \in Seq(Events)
            BY FieldsTyped
        <3> QED
            BY <2>1, <3>1, TailFacts
    <2>3. /\ stream' \in Stream /\ stream'.wire = Tail(w) /\ stream'.at = stream.at
          /\ stream'.made = stream.made /\ stream'.word = stream.word
        BY <2>1, <2>2 DEF SendInv, Stream
    <2>4. bubble.end = "open" /\ bubble' \in Bubble /\ bubble'.end = "open"
          /\ bubble'.text = IF w[1] = "text" THEN bubble.text + 1 ELSE bubble.text
        BY <2>1, FieldsTyped DEF SendInv, Bubble
    <2>5. w[1] # "text" => Len(w) = 1 /\ stream.at = "closed"
        <3>1. 1 \in 1..Len(w)
            BY <2>2
        <3> QED
            BY <3>1 DEF SendInv, WireEndsWell
    <2>6. stream.at = "closed" => stream.word \in {"done", "error"} /\ w[Len(w)] = stream.word
        BY <2>1 DEF SendInv, WireEndsWell
    <2>7. w[1] # "error"
        BY <1>2, <2>1
    <2>8. WireEndsWell'
        <3>1. ASSUME NEW i \in 1..(Len(w) - 1)
              PROVE  Tail(w)[i] = "text" \/ (i = Len(w) - 1 /\ stream.at = "closed")
            <4>1. i + 1 \in 1..Len(w) /\ Tail(w)[i] = w[i + 1]
                BY <2>2
            <4>2. w[i + 1] = "text" \/ (i + 1 = Len(w) /\ stream.at = "closed")
                BY <4>1 DEF SendInv, WireEndsWell
            <4> QED
                BY <2>2, <4>1, <4>2
        <3>2. stream.at = "closed" /\ Tail(w) # <<>> => Tail(w)[Len(w) - 1] = stream.word
            BY <2>2, <2>6
        <3> QED
            BY <2>2, <2>3, <2>6, <3>1, <3>2 DEF WireEndsWell
    <2>9. NothingLost'
        <3>0. Tail(w) = <<>> <=> Len(w) = 1
            BY <2>2, Zenon
        <3>1. stream.made = bubble.text + Len(w) - LastWord
            BY <2>4 DEF SendInv, NothingLost
        <3>2. LastWord = IF stream.at = "closed" THEN 1 ELSE 0
            BY <2>1 DEF LastWord
        <3>3. LastWord' = IF stream.at = "closed" /\ Len(w) # 1 THEN 1 ELSE 0
            <4>1. LastWord' = IF stream.at = "closed" /\ Tail(w) # <<>> THEN 1 ELSE 0
                BY <2>3 DEF LastWord
            <4> QED
                BY <3>0, <4>1, Zenon
        <3>4. Len(w) = 1 /\ stream.at = "closed" => w[1] = stream.word
            BY <2>6
        <3>5. bubble'.text + (Len(w) - 1) - LastWord' = bubble.text + Len(w) - LastWord
            <4>1. bubble.text \in Nat /\ Len(w) \in Nat
                BY <2>2, FieldsTyped
            <4>2. w[1] = "text" => ~(Len(w) = 1 /\ stream.at = "closed")
                BY <2>6, <3>4
            <4>3. LastWord \in {0, 1} /\ LastWord' \in {0, 1}
                BY <3>2, <3>3
            <4>4. CASE w[1] = "text"
                <5>1. bubble'.text = bubble.text + 1 /\ LastWord' = LastWord
                    BY <2>4, <3>2, <3>3, <4>2, <4>4, Zenon
                <5> QED
                    BY <4>1, <4>3, <5>1
            <4>5. CASE w[1] # "text"
                <5>1. bubble'.text = bubble.text /\ LastWord' = 0 /\ LastWord = 1
                    BY <2>4, <2>5, <3>2, <3>3, <4>5, Zenon
                <5> QED
                    BY <4>1, <4>3, <5>1
            <4> QED
                BY <4>4, <4>5
        <3>6. stream.at = "closed" /\ stream.word = "error" => Tail(w) # <<>>
            <4>1. stream.at = "closed" /\ stream.word = "error" => Len(w) # 1
                BY <2>7, <3>4
            <4> QED
                BY <3>0, <4>1, Zenon
        <3> QED
            BY <2>2, <2>3, <2>4, <3>1, <3>5, <3>6 DEF NothingLost
    <2>10. bubble'.text <= MaxPieces
        <3>1. stream'.made = bubble'.text + Len(stream'.wire) - LastWord'
            BY <2>4, <2>9 DEF NothingLost
        <3>2. Len(stream'.wire) >= LastWord' /\ Len(stream'.wire) \in Nat /\ LastWord' \in {0, 1}
            BY <2>2, <2>3 DEF LastWord
        <3>3. stream'.made <= MaxPieces /\ stream'.made \in Nat /\ bubble'.text \in Nat /\ MaxPieces \in Nat
            BY <2>3, <2>4, FieldsTyped
        <3> QED
            BY <3>1, <3>2, <3>3
    <2> QED
        BY <2>1, <2>3, <2>4, <2>8, <2>9, <2>10 DEF SendInv
<1> QED
    BY <1>1, <1>2

LEMMA EndSends ==
    ASSUME SendInv, TakeEnd
    PROVE  SendInv'
<1>1. /\ request.at = "reading" /\ stream.wire = <<>> /\ stream.at = "closed"
      /\ request' = Idle /\ stream' = stream /\ page' = page
      /\ bubble' = [bubble EXCEPT !.end = IF bubble.text = 0 THEN "empty" ELSE "complete"]
    BY DEF TakeEnd, tabVars
<1>2. bubble.end = "open"
    BY <1>1 DEF SendInv
<1>3. stream.word = "done" /\ stream.made = bubble.text
    BY <1>1, <1>2, FieldsTyped DEF SendInv, WireEndsWell, NothingLost, LastWord
<1>4. bubble' \in Bubble /\ bubble'.end \in {"empty", "complete"} /\ bubble'.text = bubble.text
    BY <1>1 DEF SendInv, Bubble
<1>5. Idle \in Generation /\ Idle.at = "idle"
    BY DEF Idle, Generation, Header, Credential, Status
<1> QED
    BY <1>1, <1>3, <1>4, <1>5 DEF SendInv, WireEndsWell, NothingLost

(* The server says another piece, or its last word.                        *)
LEMMA SaysSends ==
    ASSUME SendInv, stream.at = "open", NEW event \in Events, NEW at \in {"open", "closed"},
           event = "text" => at = "open" /\ stream.made < MaxPieces,
           event # "text" => at = "closed", Says(event, at)
    PROVE  SendInv'
<1> DEFINE w == stream.wire
<1>1. /\ request' = request /\ bubble' = bubble /\ page' = page
      /\ stream' = [stream EXCEPT !.wire = Append(w, event), !.at = at, !.word = event,
                                  !.made = IF event = "text" THEN stream.made + 1 ELSE stream.made]
    BY DEF Says, tabVars
<1>2. /\ w \in Seq(Events) /\ Len(w) \in Nat /\ Append(w, event) \in Seq(Events)
      /\ Len(Append(w, event)) = Len(w) + 1 /\ Append(w, event)[Len(w) + 1] = event
      /\ \A i \in 1..Len(w) : Append(w, event)[i] = w[i]
      /\ Append(w, event) # <<>>
    <2>1. w \in Seq(Events)
        BY FieldsTyped
    <2> QED
        BY <2>1, AppendFacts
<1>3. /\ stream' \in Stream /\ stream'.wire = Append(w, event) /\ stream'.at = at /\ stream'.word = event
      /\ stream'.made = IF event = "text" THEN stream.made + 1 ELSE stream.made
    <2>1. stream \in Stream /\ MaxPieces \in Nat /\ stream.made \in 0..MaxPieces
        BY FieldsTyped DEF SendInv
    <2>2. (IF event = "text" THEN stream.made + 1 ELSE stream.made) \in 0..MaxPieces
        BY <2>1
    <2>3. /\ stream'.wire = Append(w, event) /\ stream'.at = at /\ stream'.word = event
          /\ stream'.made = IF event = "text" THEN stream.made + 1 ELSE stream.made
        BY <1>1, <2>1 DEF Stream
    <2>4. stream' \in Stream
        BY <1>1, <1>2, <2>1, <2>2 DEF Stream
    <2> QED
        BY <2>3, <2>4
<1>4. \A i \in 1..Len(w) : w[i] = "text"
    BY DEF SendInv, WireEndsWell
<1>5. WireEndsWell'
    <2>1. ASSUME NEW i \in 1..(Len(w) + 1)
          PROVE  Append(w, event)[i] = "text" \/ (i = Len(w) + 1 /\ at = "closed")
        BY <1>2, <1>4
    <2> QED
        BY <1>2, <1>3, <2>1 DEF WireEndsWell, Events
<1>6. bubble.end = "open" /\ stream.made = bubble.text + Len(w)
    BY <1>2, FieldsTyped DEF SendInv, NothingLost, LastWord
<1>7. NothingLost'
    <2>1. LastWord' = IF at = "closed" THEN 1 ELSE 0
        BY <1>2, <1>3 DEF LastWord
    <2>2. stream'.made = bubble.text + (Len(w) + 1) - LastWord'
        <3>1. bubble.text \in Nat /\ Len(w) \in Nat
            BY <1>2, FieldsTyped
        <3>2. event = "text" <=> at = "open"
            OBVIOUS
        <3>3. CASE event = "text"
            BY <1>3, <1>6, <2>1, <3>1, <3>2, <3>3
        <3>4. CASE event # "text"
            BY <1>3, <1>6, <2>1, <3>1, <3>4
        <3> QED
            BY <3>3, <3>4
    <2> QED
        BY <1>1, <1>2, <1>3, <2>2 DEF NothingLost
<1>8. request' \in Generation /\ bubble' \in Bubble /\ request.at # "sent" /\ bubble'.text <= MaxPieces
    BY <1>1 DEF SendInv, NoStream
<1> QED
    BY <1>1, <1>3, <1>5, <1>6, <1>7, <1>8 DEF SendInv

LEMMA SendStep ==
    ASSUME PageInv, [PageNext]_pageVars
    PROVE  SendInv'
<1>1. SendInv /\ TabInv /\ MaxPieces \in Nat
    BY PageAssumption DEF PageInv
<1>2. CASE Boot \/ BootBlind \/ Exchange
    <2>1. request.at = "idle" /\ UNCHANGED sendVars
        BY <1>1, <1>2 DEF Boot, BootBlind, Exchange, SendInv
    <2> QED
        BY <1>1, <2>1 DEF sendVars, SendInv, WireEndsWell, NothingLost, LastWord
<1>3. CASE Login \/ Logout \/ Return \/ Reload
    <2>1. request' = Idle /\ bubble' = [text |-> 0, end |-> "none"] /\ stream' = NoStream
        BY <1>3 DEF Login, Logout, Return, Reload, Leave, NoBubble
    <2> QED
        BY <1>1, <2>1, 0 \in 0..MaxPieces, NothingInFlight
<1>4. CASE Send
    <2>1. /\ page' = "ready" /\ stream' = NoStream /\ bubble' = [text |-> 0, end |-> "open"]
          /\ request' = [Idle EXCEPT !.at = "sent", !.by = IF SignedIn THEN token ELSE Header("none")]
        BY <1>4 DEF Send, tabVars
    <2>2. (IF SignedIn THEN token ELSE Header("none")) \in Credential
        BY <1>1 DEF TabInv, SignedIn, Credential
    <2>3. request' \in Generation /\ request'.at = "sent" /\ request' # Idle
        BY <2>1, <2>2 DEF Idle, Generation, Status
    <2>4. NoStream \in Stream /\ NoStream.at = "none" /\ NoStream.wire = <<>> /\ NoStream.made = 0
        BY <1>1 DEF NoStream, Stream
    <2>5. bubble' \in Bubble /\ bubble'.end = "open" /\ bubble'.text = 0
        BY <2>1 DEF Bubble
    <2> QED
        BY <1>1, <2>1, <2>3, <2>4, <2>5 DEF SendInv, WireEndsWell, NothingLost, LastWord
<1>5. CASE Serve
    BY <1>1, <1>5, ServeSends DEF PageInv
<1>6. CASE NetworkError \/ AbortError
    BY <1>1, <1>6, NothingInFlight, FieldsTyped DEF NetworkError, AbortError, Finish
<1>7. CASE Receive
    BY <1>1, <1>6, <1>7, StatusSends, EventSends, EndSends DEF Receive
<1>8. CASE Cancel
    <2>1. /\ request.at # "idle" /\ request' = [request EXCEPT !.aborted = TRUE]
          /\ bubble' = bubble /\ stream' = stream /\ page' = page
        BY <1>1, <1>8 DEF Cancel, tabVars, SendInv
    <2>2. request' \in Generation /\ request'.at = request.at /\ request' # Idle
        BY <1>1, <2>1 DEF SendInv, Generation, Idle
    <2> QED
        BY <1>1, <2>1, <2>2 DEF SendInv, WireEndsWell, NothingLost, LastWord
<1>9. CASE StreamPiece \/ Done \/ Fails
    BY <1>1, <1>9, SaysSends DEF StreamPiece, Done, Fails, Events
<1>10. CASE Breaks
    <2>1. /\ stream.at = "open" /\ stream' = [stream EXCEPT !.at = "broken"]
          /\ bubble' = bubble /\ request' = request /\ page' = page
        BY <1>10 DEF Breaks, tabVars
    <2>2. /\ stream' \in Stream /\ stream'.at = "broken" /\ stream'.wire = stream.wire
          /\ stream'.made = stream.made
        BY <1>1, <2>1 DEF SendInv, Stream
    <2>3. request.at # "sent"
        BY <1>1, <2>1 DEF SendInv, NoStream
    <2> QED
        BY <1>1, <2>1, <2>2, <2>3 DEF SendInv, WireEndsWell, NothingLost, LastWord
<1>11. CASE PageTick \/ UNCHANGED pageVars
    BY <1>1, <1>11 DEF PageTick, pageVars, tabVars, sendVars, SendInv, WireEndsWell, NothingLost, LastWord
<1> QED
    BY <1>2, <1>3, <1>4, <1>5, <1>6, <1>7, <1>8, <1>9, <1>10, <1>11 DEF PageNext

-----------------------------------------------------------------------------
LEMMA PageStep == PageInv /\ [PageNext]_pageVars => PageInv'
<1> QED
    BY ServerStep, TabStep, SendStep DEF PageInv

LEMMA PageInvariant == PageSpec => []PageInv
<1> QED
    BY PageInitially, PageStep, PTL DEF PageSpec

LEMMA PageInvTyped == PageInv => PageTypeOK
BY FieldsTyped DEF PageInv, GateInv, TabInv, SendInv, Bubble, PageTypeOK

(* The variables of the server, of the tab and of the generation have      *)
(* their types.                                                            *)
THEOREM PageTypeCorrect == PageSpec => []PageTypeOK
BY PageInvTyped, PageInvariant, PTL

(* Whatever the server, the tenant, the network and the user do: where the *)
(* page has to sign in it shows the form with a token only, no verifier is *)
(* left once there is a token, and an answer shown as complete is one that *)
(* the server ended, with every piece it sent (api/web/app.js).            *)
THEOREM PageStaysHonest == PageSpec => []PageIsHonest
<1>1. PageInv => PageIsHonest
    BY DEF PageInv, TabInv, SendInv, PageIsHonest, VerifierIsSpent, SignedIn, CompleteMeansDone
<1> QED
    BY <1>1, PageInvariant, PTL

-------------------------------------------------------------------------------
(* The limits of the server.                                               *)

(* A request has a time of entry once the limiter has let it in.           *)
EnteredByLimiter ==
    \A r \in Requests : stage[r] \in {"new", "limiting"} => entered[r] = Never

(* Every hit on a list is the entry of a request of that key: a list may   *)
(* have lost hits, and has none that did not happen.                       *)
HitIsEntry(h, k) == KeyOf[h.by] = k /\ entered[h.by] = h.at

HitsHappened ==
    \A k \in Keys : \A h \in hits[k] : HitIsEntry(h, k) /\ h.at <= clock

(* The same of the list a call of the limiter works on, which is in the    *)
(* window of that call.                                                    *)
SeenHappened ==
    \A r \in Requests :
        /\ seen[r].at <= clock
        /\ \A h \in seen[r].kept :
              HitIsEntry(h, KeyOf[r]) /\ seen[r].at - Window <= h.at /\ h.at <= seen[r].at

(* A thread that waits to try again has an attempt left.                   *)
BackoffMayRetry ==
    \A r \in Requests : thread[r].pc = "backoff" => thread[r].attempt < MaxAttempts

ServingInv ==
    /\ ServingTypeOK
    /\ SlotsBalanced
    /\ BackoffMayRetry
    /\ EnteredByLimiter
    /\ HitsHappened
    /\ SeenHappened

-----------------------------------------------------------------------------
LEMMA KeysOfRequests == \A r \in Requests : KeyOf[r] \in Keys
BY DEF Keys

(* Moving a request between stages that hold no slot leaves the holders.   *)
LEMMA HoldingSame ==
    ASSUME ServingTypeOK, NEW r \in Requests, NEW s \in Stage,
           stage' = [stage EXCEPT ![r] = s],
           r \notin Holding, s \notin {"waiting", "streaming", "leaving"}
    PROVE  Holding' = Holding
BY DEF ServingTypeOK, Holding

LEMMA HoldingFinite ==
    ASSUME ServingTypeOK
    PROVE  IsFiniteSet(Holding) /\ Cardinality(Holding) \in Nat
BY ServingAssumption, FS_Subset, FS_CardinalityType DEF Holding

(* A release gives one slot back, the one of the request that ends.        *)
LEMMA ReleaseBalanced ==
    ASSUME ServingTypeOK, SlotsBalanced, NEW r \in Holding,
           Goes(r, "done"), Release
    PROVE  SlotsBalanced' /\ active' \in Nat
<1>1. Holding' = Holding \ {r}
  BY DEF ServingTypeOK, Holding, Goes
<1>2. IsFiniteSet(Holding) /\ Cardinality(Holding) \in Nat
  BY HoldingFinite
<1>3. Cardinality(Holding') = Cardinality(Holding) - 1
  BY <1>1, <1>2, FS_RemoveElement
<1>4. Cardinality(Holding) # 0
  BY <1>2, FS_EmptySet
<1>5. active' = active - 1 /\ active' \in Nat
  BY <1>2, <1>4 DEF SlotsBalanced, Release
<1>6. MaxGenerations \in Nat
  BY ServingAssumption
<1>7. QED
  BY <1>2, <1>3, <1>5, <1>6 DEF SlotsBalanced

(* What is known of the lists stays known when they are left alone.        *)
LEMMA ListsUntouched ==
    ASSUME ServingInv, UNCHANGED <<hits, seen, entered>>, clock' \in Time, clock <= clock'
    PROVE  HitsHappened' /\ SeenHappened'
<1>1. clock \in Int /\ clock' \in Int /\ \A h \in Hit : h.at \in Int
  BY ServingAssumption DEF ServingInv, ServingTypeOK, Time, Hit
<1>2. \A k \in Keys : \A h \in hits[k] : h \in Hit
  BY DEF ServingInv, ServingTypeOK
<1>3. \A r \in Requests : seen[r].at \in Int
  BY ServingAssumption DEF ServingInv, ServingTypeOK, Time
<1>4. HitsHappened'
  BY <1>1, <1>2 DEF ServingInv, HitsHappened, HitIsEntry
<1>5. SeenHappened'
  BY <1>1, <1>3 DEF ServingInv, SeenHappened, HitIsEntry
<1>6. QED
  BY <1>4, <1>5

-----------------------------------------------------------------------------
LEMMA ServingInitInv == ServingInit => ServingInv
<1> SUFFICES ASSUME ServingInit PROVE ServingInv
  OBVIOUS
<1>1. ServingTypeOK
  BY ServingAssumption
     DEF ServingInit, ServingTypeOK, Nothing, NoThread, Thread, Stage, Time
<1>2. SlotsBalanced
  <2>1. Holding = {}
    BY DEF ServingInit, Holding
  <2>2. QED
    BY <2>1, FS_EmptySet, ServingAssumption DEF ServingInit, SlotsBalanced
<1>3. EnteredByLimiter /\ HitsHappened /\ SeenHappened /\ BackoffMayRetry
  BY DEF ServingInit, EnteredByLimiter, HitsHappened, SeenHappened, Nothing,
         BackoffMayRetry, NoThread
<1>4. QED
  BY <1>1, <1>2, <1>3 DEF ServingInv

(* Steps of the handler and of the threads that take and release no slot.  *)
LEMMA QuietServing ==
    ASSUME ServingInv, ServingTypeOK', BackoffMayRetry', Holding' = Holding,
           UNCHANGED <<clock, hits, active, seen, entered>>,
           \A r \in Requests : stage'[r] \in {"new", "limiting"} => stage'[r] = stage[r]
    PROVE  ServingInv'
<1>1. SlotsBalanced'
  BY DEF ServingInv, SlotsBalanced
<1>2. EnteredByLimiter'
  BY DEF ServingInv, EnteredByLimiter
<1>3. HitsHappened' /\ SeenHappened'
  BY DEF ServingInv, HitsHappened, SeenHappened, HitIsEntry
<1>4. QED
  BY <1>1, <1>2, <1>3 DEF ServingInv

(* Steps that end a request and give back its slot.                        *)
LEMMA ReleaseStep ==
    ASSUME ServingInv, NEW r \in Holding, Goes(r, "done"), Release,
           thread' \in [Requests -> Thread], BackoffMayRetry',
           UNCHANGED <<clock, hits, seen, entered, overlaps>>
    PROVE  ServingInv'
<1>1. SlotsBalanced' /\ active' \in Nat
  BY ReleaseBalanced DEF ServingInv
<1>2. ServingTypeOK'
  BY <1>1 DEF ServingInv, ServingTypeOK, Goes, Stage
<1>3. EnteredByLimiter'
  BY DEF ServingInv, ServingTypeOK, EnteredByLimiter, Goes
<1>4. HitsHappened' /\ SeenHappened'
  BY DEF ServingInv, HitsHappened, SeenHappened, HitIsEntry
<1>5. QED
  BY <1>1, <1>2, <1>3, <1>4 DEF ServingInv

(* Steps of a thread.                                                      *)
LEMMA ThreadStepInv ==
    ASSUME ServingInv, NEW r \in Requests, NEW t \in Thread, Steps(r, t),
           t.pc = "backoff" => t.attempt < MaxAttempts
    PROVE  ServingInv'
<1>1. ServingTypeOK'
  BY DEF ServingInv, ServingTypeOK, Steps
<1>2. Holding' = Holding
  BY DEF Steps, Holding
<1>3. BackoffMayRetry'
  BY DEF ServingInv, ServingTypeOK, BackoffMayRetry, Steps
<1>4. QED
  BY <1>1, <1>2, <1>3, QuietServing DEF Steps

LEMMA ThreadPc ==
    ASSUME ServingInv, NEW r \in Requests,
           NEW pc \in {"none", "calling", "backoff", "paused", "ended"}
    PROVE  [thread[r] EXCEPT !.pc = pc] \in Thread
BY DEF ServingInv, ServingTypeOK, Thread
-----------------------------------------------------------------------------
(* The limiter.  The list it reads is a part of the key's own, and the     *)
(* list it puts back is that part, with its own entry or without.          *)
LEMMA ReadHitsInv ==
    ASSUME ServingInv, NEW r \in Requests, ReadHits(r)
    PROVE  ServingInv'
<1> DEFINE k == KeyOf[r]
<1>1. k \in Keys
  BY KeysOfRequests
<1>2. Kept(k) \subseteq hits[k] /\ \A h \in Kept(k) : clock - Window <= h.at
  BY ServingAssumption, <1>1 DEF Kept, ServingInv, ServingTypeOK, Hit, Time
<1>3. Holding' = Holding
  <2>1. /\ stage' = [stage EXCEPT ![r] = "limiting"]
        /\ r \notin Holding
        /\ "limiting" \in Stage \ {"waiting", "streaming", "leaving"}
    BY DEF ReadHits, Goes, Holding, Stage
  <2>2. QED
    BY <2>1, HoldingSame DEF ServingInv
<1>4. ServingTypeOK'
  <2>1. overlaps' \in [Keys -> Nat]
    BY <1>1 DEF ReadHits, ServingInv, ServingTypeOK
  <2>2. seen' \in [Requests -> [at : Time, kept : SUBSET Hit]]
    BY <1>1, <1>2 DEF ReadHits, ServingInv, ServingTypeOK
  <2>3. stage' \in [Requests -> Stage]
    BY DEF ReadHits, Goes, ServingInv, ServingTypeOK, Stage
  <2>4. QED
    BY <2>1, <2>2, <2>3 DEF ReadHits, ServingInv, ServingTypeOK
<1>5. SlotsBalanced'
  BY <1>3 DEF ReadHits, ServingInv, SlotsBalanced
<1>6. EnteredByLimiter'
  BY DEF ReadHits, Goes, ServingInv, ServingTypeOK, EnteredByLimiter
<1>7. HitsHappened'
  BY DEF ReadHits, ServingInv, HitsHappened, HitIsEntry
<1>8. SeenHappened'
  <2> SUFFICES ASSUME NEW q \in Requests
               PROVE  /\ seen'[q].at <= clock
                      /\ \A h \in seen'[q].kept :
                            /\ HitIsEntry(h, KeyOf[q])
                            /\ seen'[q].at - Window <= h.at /\ h.at <= seen'[q].at
    BY DEF ReadHits, SeenHappened, HitIsEntry
  <2>1. CASE q = r
    <3>1. seen'[q] = [at |-> clock, kept |-> Kept(k)]
      BY <2>1 DEF ReadHits, ServingInv, ServingTypeOK
    <3>2. clock <= clock
      BY ServingAssumption DEF ServingInv, ServingTypeOK, Time
    <3>3. QED
      BY <1>1, <1>2, <2>1, <3>1, <3>2 DEF ServingInv, HitsHappened
  <2>2. CASE q # r
    BY <2>2 DEF ReadHits, ServingInv, ServingTypeOK, SeenHappened
  <2>3. QED
    BY <2>1, <2>2
<1>9. BackoffMayRetry'
  BY DEF ReadHits, ServingInv, BackoffMayRetry
<1>10. QED
  BY <1>4, <1>5, <1>6, <1>7, <1>8, <1>9 DEF ServingInv

(* Only r gets an entry, and no list has a hit of r before.                *)
LEMMA NoHitYet ==
    ASSUME ServingInv, NEW r \in Requests, stage[r] \in {"new", "limiting"}
    PROVE  /\ \A k \in Keys : \A h \in hits[k] : h.by # r
           /\ \A q \in Requests : \A h \in seen[q].kept : h.by # r
<1>1. entered[r] = Never
  BY DEF ServingInv, EnteredByLimiter
<1>2. \A h \in Hit : h.at # Never
  BY ServingAssumption DEF Hit, Time, Never
<1>3. QED
  BY <1>1, <1>2 DEF ServingInv, ServingTypeOK, HitsHappened, SeenHappened, HitIsEntry

LEMMA AllowInv ==
    ASSUME ServingInv, NEW r \in Requests, Allow(r)
    PROVE  ServingInv'
<1> DEFINE k == KeyOf[r]
           new == [by |-> r, at |-> seen[r].at]
<1>1. k \in Keys /\ new \in Hit /\ seen[r].kept \subseteq Hit /\ seen[r].at <= clock
  BY KeysOfRequests DEF ServingInv, ServingTypeOK, Hit, SeenHappened
<1>2. Holding' = Holding
  <2>1. /\ stage' = [stage EXCEPT ![r] = "routed"]
        /\ r \notin Holding
        /\ "routed" \in Stage \ {"waiting", "streaming", "leaving"}
    BY DEF Allow, Goes, Holding, Stage
  <2>2. QED
    BY <2>1, HoldingSame DEF ServingInv
<1>3. ServingTypeOK'
  <2>1. hits' \in [Keys -> SUBSET Hit]
    BY <1>1 DEF Allow, ServingInv, ServingTypeOK
  <2>2. seen' \in [Requests -> [at : Time, kept : SUBSET Hit]] /\ stage' \in [Requests -> Stage]
    BY ServingAssumption
       DEF Allow, Goes, Nothing, ServingInv, ServingTypeOK, Stage, Time
  <2>3. entered' \in [Requests -> Time \cup {Never}]
    BY DEF Allow, ServingInv, ServingTypeOK
  <2>4. QED
    BY <2>1, <2>2, <2>3 DEF Allow, ServingInv, ServingTypeOK
<1>4. SlotsBalanced'
  BY <1>2 DEF Allow, ServingInv, SlotsBalanced
<1>5. EnteredByLimiter'
  BY DEF Allow, Goes, ServingInv, ServingTypeOK, EnteredByLimiter
<1>6. /\ \A j \in Keys : \A h \in hits[j] : h.by # r
      /\ \A q \in Requests : \A h \in seen[q].kept : h.by # r
  BY NoHitYet DEF Allow
<1>7. /\ entered'[r] = seen[r].at
      /\ \A q : q # r => entered'[q] = entered[q]
  BY DEF Allow, ServingInv, ServingTypeOK
<1>8. HitsHappened'
  <2> SUFFICES ASSUME NEW j \in Keys, NEW h \in hits'[j]
               PROVE  KeyOf[h.by] = j /\ entered'[h.by] = h.at /\ h.at <= clock
    BY DEF Allow, HitsHappened, HitIsEntry
  <2>1. CASE h \in hits[j]
    BY <1>6, <1>7, <2>1 DEF ServingInv, HitsHappened, HitIsEntry
  <2>2. CASE j = k /\ h = new
    BY <1>1, <1>7, <2>2
  <2>3. CASE j = k /\ h \in seen[r].kept
    <3>1. h \in Hit /\ KeyOf[h.by] = k /\ entered[h.by] = h.at /\ h.at <= seen[r].at
      BY <1>1, <2>3 DEF ServingInv, SeenHappened, HitIsEntry
    <3>2. h.at <= clock
      BY <1>1, <3>1, ServingAssumption DEF ServingInv, ServingTypeOK, Hit, Time
    <3>3. QED
      BY <1>6, <1>7, <2>3, <3>1, <3>2
  <2>4. QED
    BY <1>1, <2>1, <2>2, <2>3 DEF Allow, ServingInv, ServingTypeOK
<1>9. SeenHappened'
  <2> SUFFICES ASSUME NEW q \in Requests
               PROVE  /\ seen'[q].at <= clock
                      /\ \A h \in seen'[q].kept :
                            /\ KeyOf[h.by] = KeyOf[q] /\ entered'[h.by] = h.at
                            /\ seen'[q].at - Window <= h.at /\ h.at <= seen'[q].at
    BY DEF Allow, SeenHappened, HitIsEntry
  <2>1. CASE q = r
    BY <2>1, ServingAssumption DEF Allow, Nothing, ServingInv, ServingTypeOK, Time
  <2>2. CASE q # r
    BY <1>6, <1>7, <2>2 DEF Allow, ServingInv, ServingTypeOK, SeenHappened, HitIsEntry
  <2>3. QED
    BY <2>1, <2>2
<1>10. BackoffMayRetry'
  BY DEF Allow, ServingInv, BackoffMayRetry
<1>11. QED
  BY <1>3, <1>4, <1>5, <1>8, <1>9, <1>10 DEF ServingInv

LEMMA RefuseInv ==
    ASSUME ServingInv, NEW r \in Requests, Refuse(r)
    PROVE  ServingInv'
<1> DEFINE k == KeyOf[r]
<1>1. k \in Keys /\ seen[r].kept \subseteq Hit /\ seen[r].at <= clock
  BY KeysOfRequests DEF ServingInv, ServingTypeOK, SeenHappened
<1>2. Holding' = Holding
  <2>1. /\ stage' = [stage EXCEPT ![r] = "refused"]
        /\ r \notin Holding
        /\ "refused" \in Stage \ {"waiting", "streaming", "leaving"}
    BY DEF Refuse, Goes, Holding, Stage
  <2>2. QED
    BY <2>1, HoldingSame DEF ServingInv
<1>3. ServingTypeOK'
  <2>1. hits' \in [Keys -> SUBSET Hit]
    BY <1>1 DEF Refuse, ServingInv, ServingTypeOK
  <2>2. seen' \in [Requests -> [at : Time, kept : SUBSET Hit]] /\ stage' \in [Requests -> Stage]
    BY ServingAssumption
       DEF Refuse, Goes, Nothing, ServingInv, ServingTypeOK, Stage, Time
  <2>3. QED
    BY <2>1, <2>2 DEF Refuse, ServingInv, ServingTypeOK
<1>4. SlotsBalanced'
  BY <1>2 DEF Refuse, ServingInv, SlotsBalanced
<1>5. EnteredByLimiter'
  BY DEF Refuse, Goes, ServingInv, ServingTypeOK, EnteredByLimiter
<1>6. HitsHappened'
  <2> SUFFICES ASSUME NEW j \in Keys, NEW h \in hits'[j]
               PROVE  HitIsEntry(h, j) /\ h.at <= clock
    BY DEF Refuse, HitsHappened, HitIsEntry
  <2>1. CASE h \in hits[j]
    BY <2>1 DEF ServingInv, HitsHappened
  <2>2. CASE j = k /\ h \in seen[r].kept
    <3>1. h \in Hit /\ HitIsEntry(h, k) /\ h.at <= seen[r].at
      BY <1>1, <2>2 DEF ServingInv, SeenHappened
    <3>2. h.at <= clock
      BY <1>1, <3>1, ServingAssumption DEF ServingInv, ServingTypeOK, Hit, Time
    <3>3. QED
      BY <2>2, <3>1, <3>2
  <2>3. QED
    BY <1>1, <2>1, <2>2 DEF Refuse, ServingInv, ServingTypeOK
<1>7. SeenHappened'
  <2> SUFFICES ASSUME NEW q \in Requests
               PROVE  /\ seen'[q].at <= clock
                      /\ \A h \in seen'[q].kept :
                            /\ HitIsEntry(h, KeyOf[q])
                            /\ seen'[q].at - Window <= h.at /\ h.at <= seen'[q].at
    BY DEF Refuse, SeenHappened, HitIsEntry
  <2>1. CASE q = r
    BY <2>1, ServingAssumption DEF Refuse, Nothing, ServingInv, ServingTypeOK, Time
  <2>2. CASE q # r
    BY <2>2 DEF Refuse, ServingInv, ServingTypeOK, SeenHappened
  <2>3. QED
    BY <2>1, <2>2
<1>8. BackoffMayRetry'
  BY DEF Refuse, ServingInv, BackoffMayRetry
<1>9. QED
  BY <1>3, <1>4, <1>5, <1>6, <1>7, <1>8 DEF ServingInv

-----------------------------------------------------------------------------
(* The handler.                                                            *)
LEMMA UnauthenticatedInv ==
    ASSUME ServingInv, NEW r \in Requests, Unauthenticated(r)
    PROVE  ServingInv'
<1>1. ServingTypeOK'
  BY DEF Unauthenticated, Goes, ServingInv, ServingTypeOK, Stage
<1>2. Holding' = Holding
  BY HoldingSame DEF Unauthenticated, Goes, ServingInv, Holding, Stage
<1>3. BackoffMayRetry'
  BY DEF Unauthenticated, ServingInv, BackoffMayRetry
<1>4. \A q \in Requests : stage'[q] \in {"new", "limiting"} => stage'[q] = stage[q]
  BY DEF Unauthenticated, Goes, ServingInv, ServingTypeOK
<1>5. QED
  BY <1>1, <1>2, <1>3, <1>4, QuietServing DEF Unauthenticated

LEMMA TurnedAwayInv ==
    ASSUME ServingInv, NEW r \in Requests, TurnedAway(r)
    PROVE  ServingInv'
<1>1. ServingTypeOK'
  BY DEF TurnedAway, Goes, ServingInv, ServingTypeOK, Stage
<1>2. Holding' = Holding
  BY HoldingSame DEF TurnedAway, Goes, ServingInv, Holding, Stage
<1>3. BackoffMayRetry'
  BY DEF TurnedAway, ServingInv, BackoffMayRetry
<1>4. \A q \in Requests : stage'[q] \in {"new", "limiting"} => stage'[q] = stage[q]
  BY DEF TurnedAway, Goes, ServingInv, ServingTypeOK
<1>5. QED
  BY <1>1, <1>2, <1>3, <1>4, QuietServing DEF TurnedAway

LEMMA StartInv ==
    ASSUME ServingInv, NEW r \in Requests, Start(r)
    PROVE  ServingInv'
<1>1. r \notin Holding /\ Holding' = Holding \cup {r}
  BY DEF Start, Goes, Holding, ServingInv, ServingTypeOK
<1>2. IsFiniteSet(Holding) /\ Cardinality(Holding) \in Nat
  BY HoldingFinite DEF ServingInv
<1>3. Cardinality(Holding') = Cardinality(Holding) + 1
  BY <1>1, <1>2, FS_AddElement
<1>4. SlotsBalanced'
  BY <1>2, <1>3, ServingAssumption DEF Start, Saturated, ServingInv, SlotsBalanced
<1>5. [pc |-> "calling", attempt |-> 1] \in Thread
  BY ServingAssumption DEF Thread
<1>6. ServingTypeOK'
  BY <1>5 DEF Start, Goes, ServingInv, ServingTypeOK, Stage
<1>7. EnteredByLimiter'
  BY DEF Start, Goes, ServingInv, ServingTypeOK, EnteredByLimiter
<1>8. HitsHappened' /\ SeenHappened'
  BY DEF Start, ServingInv, HitsHappened, SeenHappened, HitIsEntry
<1>9. BackoffMayRetry'
  BY DEF Start, ServingInv, ServingTypeOK, BackoffMayRetry
<1>10. QED
  BY <1>4, <1>6, <1>7, <1>8, <1>9 DEF ServingInv

LEMMA NoThreadIsThread == NoThread \in Thread /\ NoThread.pc # "backoff"
BY ServingAssumption DEF NoThread, Thread

LEMMA AnswerInv ==
    ASSUME ServingInv, NEW r \in Requests, Answer(r)
    PROVE  ServingInv'
<1>1. r \in Holding
  BY DEF Answer, Holding
<1>2. thread' \in [Requests -> Thread] /\ BackoffMayRetry'
  BY NoThreadIsThread DEF Answer, ServingInv, ServingTypeOK, BackoffMayRetry
<1>3. QED
  BY <1>1, <1>2, ReleaseStep DEF Answer

LEMMA ExpireInv ==
    ASSUME ServingInv, NEW r \in Requests, Expire(r)
    PROVE  ServingInv'
<1>1. r \in Holding
  BY DEF Expire, Holding
<1>2. thread' \in [Requests -> Thread] /\ BackoffMayRetry'
  BY NoThreadIsThread DEF Expire, ServingInv, ServingTypeOK, BackoffMayRetry
<1>3. QED
  BY <1>1, <1>2, ReleaseStep DEF Expire

LEMMA StreamOverInv ==
    ASSUME ServingInv, NEW r \in Requests, StreamOver(r)
    PROVE  ServingInv'
<1>1. r \in Holding
  BY DEF StreamOver, Holding
<1>2. thread' \in [Requests -> Thread] /\ BackoffMayRetry'
  BY NoThreadIsThread DEF StreamOver, ServingInv, ServingTypeOK, BackoffMayRetry
<1>3. QED
  BY <1>1, <1>2, ReleaseStep DEF StreamOver

LEMMA DisconnectInv ==
    ASSUME ServingInv, NEW r \in Requests, Disconnect(r)
    PROVE  ServingInv'
<1>1. ServingTypeOK'
  BY DEF Disconnect, Goes, ServingInv, ServingTypeOK, Stage
<1>2. Holding' = Holding
  BY DEF Disconnect, Goes, ServingInv, ServingTypeOK, Holding
<1>3. BackoffMayRetry'
  BY DEF Disconnect, ServingInv, BackoffMayRetry
<1>4. \A q \in Requests : stage'[q] \in {"new", "limiting"} => stage'[q] = stage[q]
  BY DEF Disconnect, Goes, ServingInv, ServingTypeOK
<1>5. QED
  BY <1>1, <1>2, <1>3, <1>4, QuietServing DEF Disconnect

LEMMA NextPieceInv ==
    ASSUME ServingInv, NEW r \in Requests, NextPiece(r)
    PROVE  ServingInv'
<1>1. [thread[r] EXCEPT !.pc = "calling"] \in Thread
  BY ThreadPc
<1>2. Steps(r, [thread[r] EXCEPT !.pc = "calling"])
  BY DEF NextPiece, Steps
<1>3. thread[r] \in Thread
  BY DEF ServingInv, ServingTypeOK
<1>4. [thread[r] EXCEPT !.pc = "calling"].pc # "backoff"
  BY <1>3 DEF Thread
<1>5. QED
  BY <1>1, <1>2, <1>4, ThreadStepInv

-----------------------------------------------------------------------------
(* The thread.                                                             *)
LEMMA EndsInv ==
    ASSUME ServingInv, NEW r \in Requests, Ends(r)
    PROVE  ServingInv'
<1> DEFINE t == IF r \in Holding THEN [thread[r] EXCEPT !.pc = "ended"] ELSE NoThread
<1>1. t \in Thread
  BY ThreadPc, NoThreadIsThread
<1>2. thread[r] \in Thread
  BY DEF ServingInv, ServingTypeOK
<1>3. t.pc # "backoff"
  BY <1>2, NoThreadIsThread DEF Thread
<1>4. Steps(r, t)
  BY DEF Ends
<1> HIDE DEF t
<1>5. QED
  BY <1>1, <1>3, <1>4, ThreadStepInv

LEMMA CallFailsInv ==
    ASSUME ServingInv, NEW r \in Requests, CallFails(r)
    PROVE  ServingInv'
<1>1. CASE MayRetry(r)
  <2> DEFINE t == [thread[r] EXCEPT !.pc = "backoff"]
  <2>1. t \in Thread
    BY ThreadPc
  <2>2. thread[r] \in Thread
    BY DEF ServingInv, ServingTypeOK
  <2>3. t.attempt < MaxAttempts
    BY <1>1, <2>2 DEF MayRetry, Thread
  <2>4. Steps(r, t)
    BY <1>1 DEF CallFails
  <2> HIDE DEF t
  <2>5. QED
    BY <2>1, <2>3, <2>4, ThreadStepInv
<1>2. CASE ~MayRetry(r)
  BY <1>2, EndsInv DEF CallFails
<1>3. QED
  BY <1>1, <1>2

LEMMA PieceInv ==
    ASSUME ServingInv, NEW r \in Requests, Piece(r)
    PROVE  ServingInv'
<1> DEFINE t == [thread[r] EXCEPT !.pc = "paused"]
<1>1. t \in Thread
  BY ThreadPc
<1>2. thread[r] \in Thread
  BY DEF ServingInv, ServingTypeOK
<1>3. t.pc # "backoff"
  BY <1>2 DEF Thread
<1>4. Steps(r, t)
  BY DEF Piece
<1> HIDE DEF t
<1>5. QED
  BY <1>1, <1>3, <1>4, ThreadStepInv

LEMMA BackoffOverInv ==
    ASSUME ServingInv, NEW r \in Requests, BackoffOver(r)
    PROVE  ServingInv'
<1> DEFINE t == [pc |-> "calling", attempt |-> thread[r].attempt + 1]
<1>1. thread[r] \in Thread /\ thread[r].attempt < MaxAttempts
  BY DEF BackoffOver, ServingInv, ServingTypeOK, BackoffMayRetry
<1>2. t \in Thread /\ t.pc # "backoff"
  BY <1>1, ServingAssumption DEF Thread
<1>3. Steps(r, t)
  BY DEF BackoffOver
<1> HIDE DEF t
<1>4. QED
  BY <1>2, <1>3, ThreadStepInv

LEMMA TickInv ==
    ASSUME ServingInv, Tick
    PROVE  ServingInv'
<1>1. clock \in Time /\ clock' \in Time /\ clock <= clock'
  BY ServingAssumption DEF Tick, ServingInv, ServingTypeOK, Time
<1>2. ServingTypeOK'
  BY <1>1 DEF Tick, ServingInv, ServingTypeOK
<1>3. SlotsBalanced' /\ EnteredByLimiter' /\ BackoffMayRetry'
  BY DEF Tick, ServingInv, SlotsBalanced, Holding, EnteredByLimiter, BackoffMayRetry
<1>4. HitsHappened' /\ SeenHappened'
  BY <1>1, ListsUntouched DEF Tick
<1>5. QED
  BY <1>2, <1>3, <1>4 DEF ServingInv

-----------------------------------------------------------------------------
LEMMA ServingStepInv == ServingInv /\ [ServingNext]_servingVars => ServingInv'
<1> SUFFICES ASSUME ServingInv, [ServingNext]_servingVars PROVE ServingInv'
  OBVIOUS
<1>1. ASSUME NEW r \in Requests,
             \/ Unauthenticated(r) \/ ReadHits(r) \/ Allow(r) \/ Refuse(r)
             \/ TurnedAway(r) \/ Start(r) \/ Expire(r) \/ Disconnect(r)
      PROVE  ServingInv'
  BY <1>1, UnauthenticatedInv, ReadHitsInv, AllowInv, RefuseInv,
     TurnedAwayInv, StartInv, ExpireInv, DisconnectInv
<1>2. ASSUME NEW r \in Requests, LoopStep(r)
      PROVE  ServingInv'
  BY <1>2, AnswerInv, StreamOverInv, NextPieceInv DEF LoopStep
<1>3. ASSUME NEW r \in Requests, ThreadStep(r) \/ Piece(r)
      PROVE  ServingInv'
  BY <1>3, EndsInv, CallFailsInv, BackoffOverInv, PieceInv DEF ThreadStep, CallEnds
<1>4. CASE Tick
  BY <1>4, TickInv
<1>5. CASE UNCHANGED servingVars
  <2>1. UNCHANGED <<clock, hits, active, stage, seen, thread, entered, overlaps>>
    BY <1>5 DEF servingVars
  <2>2. ServingTypeOK' /\ SlotsBalanced' /\ BackoffMayRetry' /\ EnteredByLimiter'
    BY <2>1 DEF ServingInv, ServingTypeOK, SlotsBalanced, Holding, BackoffMayRetry,
                EnteredByLimiter
  <2>3. HitsHappened' /\ SeenHappened'
    BY <2>1 DEF ServingInv, HitsHappened, SeenHappened, HitIsEntry
  <2>4. QED
    BY <2>2, <2>3 DEF ServingInv
<1>6. QED
  BY <1>1, <1>2, <1>3, <1>4, <1>5 DEF ServingNext

LEMMA ServingInvariant == ServingSpec => []ServingInv
<1>1. ServingInit => ServingInv
  BY ServingInitInv
<1>2. ServingInv /\ [ServingNext]_servingVars => ServingInv'
  BY ServingStepInv
<1>3. QED
  BY <1>1, <1>2, PTL DEF ServingSpec

(* The variables keep their types: no thread goes on for an attempt more   *)
(* than the engine has, and no count of slots goes below zero.             *)
THEOREM ServingTypeCorrect == ServingSpec => []ServingTypeOK
<1>1. ServingInv => ServingTypeOK
  BY DEF ServingInv
<1>2. QED
  BY <1>1, ServingInvariant, PTL

(* The count of Capacity is the number of requests that hold a slot, and   *)
(* never above the bound, whatever ends the requests.                      *)
THEOREM SlotsAreBalanced == ServingSpec => []SlotsBalanced
<1>1. ServingInv => SlotsBalanced
  BY DEF ServingInv
<1>2. QED
  BY <1>1, ServingInvariant, PTL

(* The hits a call of the limiter kept are entries of as many requests of  *)
(* its key, in its window: hits of one request would be one hit.           *)
LEMMA KeptAreEntries ==
    ASSUME ServingInv, NEW r \in Requests
    PROVE  IsFiniteSet(seen[r].kept)
           /\ Cardinality(seen[r].kept) <= Cardinality(InWindow(KeyOf[r], seen[r].at))
           /\ Cardinality(seen[r].kept) \in Nat
           /\ Cardinality(InWindow(KeyOf[r], seen[r].at)) \in Nat
<1> DEFINE kept == seen[r].kept
           W == InWindow(KeyOf[r], seen[r].at)
           f == [h \in kept |-> h.by]
<1>1. kept \subseteq Hit /\ seen[r].at \in Time
  BY DEF ServingInv, ServingTypeOK
<1>2. \A h \in kept : /\ h \in Hit /\ HitIsEntry(h, KeyOf[r])
                      /\ seen[r].at - Window <= h.at /\ h.at <= seen[r].at
  BY <1>1 DEF ServingInv, SeenHappened
<1>3. \A h \in kept : h.by \in W
  BY <1>2, ServingAssumption DEF InWindow, HitIsEntry, Hit, Time, Never
<1>4. \A h, g \in kept : h.by = g.by => h = g
  BY <1>2 DEF HitIsEntry, Hit
<1>5. IsFiniteSet(W)
  BY ServingAssumption, FS_Subset DEF InWindow
<1>6. f \in Injection(kept, W)
  BY <1>3, <1>4 DEF Injection, IsInjective
<1>7. IsFiniteSet(kept) /\ Cardinality(kept) <= Cardinality(W)
  BY <1>5, <1>6, FS_Injection
<1>8. QED
  BY <1>5, <1>7, FS_CardinalityType

(* Nobody is refused for a rate below the limit: in its window the key has *)
(* had RateLimit requests let in, however the limiter's calls overlapped.  *)
THEOREM RefusalsAreJustified == ServingSpec => RefusalsJustified
<1> DEFINE Justified ==
      \A r \in Requests : stage'[r] = "refused" /\ stage[r] # "refused" =>
          Cardinality(InWindow(KeyOf[r], seen[r].at)) >= RateLimit
<1>1. ServingInv /\ [ServingNext]_servingVars => [Justified]_servingVars
  <2> SUFFICES ASSUME ServingInv, ServingNext,
                      NEW r \in Requests, stage'[r] = "refused", stage[r] # "refused"
               PROVE  Cardinality(InWindow(KeyOf[r], seen[r].at)) >= RateLimit
    BY DEF servingVars
  <2>1. Refuse(r)
    <3>1. ASSUME NEW q \in Requests,
                 \/ Unauthenticated(q) \/ ReadHits(q) \/ Allow(q) \/ TurnedAway(q)
                 \/ Start(q) \/ Expire(q) \/ Disconnect(q) \/ Answer(q) \/ StreamOver(q)
          PROVE  FALSE
      BY <3>1 DEF Unauthenticated, ReadHits, Allow, TurnedAway, Start, Expire,
                  Disconnect, Answer, StreamOver, Goes, ServingInv, ServingTypeOK
    <3>2. ASSUME NEW q \in Requests, NextPiece(q) \/ ThreadStep(q) \/ Piece(q)
          PROVE  FALSE
      BY <3>2 DEF NextPiece, ThreadStep, CallEnds, CallFails, BackoffOver, Piece,
                  Ends, Steps
    <3>3. ASSUME NEW q \in Requests, Refuse(q)
          PROVE  q = r
      BY <3>3 DEF Refuse, Goes, ServingInv, ServingTypeOK
    <3>4. ~Tick
      BY DEF Tick
    <3>5. QED
      BY <3>1, <3>2, <3>3, <3>4 DEF ServingNext, LoopStep
  <2>2. QED
    BY <2>1, KeptAreEntries, ServingAssumption DEF Refuse, AtLimit
<1>2. QED
  BY <1>1, ServingInvariant, PTL DEF ServingSpec, RefusalsJustified

-----------------------------------------------------------------------------
(* The rate.  Calls of the limiter that overlap put back lists without     *)
(* each other's hits.  Whatever list is put back next, the key's own or    *)
(* that of a call under way, and whoever of the other calls is let in      *)
(* before, the entries it has lost are no more than the overlaps.          *)

CallersOf(st, k) == {r \in Requests : st[r] = "limiting" /\ KeyOf[r] = k}

OthersOf(st, k) ==
    IF CallersOf(st, k) = {} THEN 0 ELSE Cardinality(CallersOf(st, k)) - 1

By(list) == {h.by : h \in list}

(* The entries of a key since t that are not on the list.                  *)
LostOf(e, k, list, t) ==
    {q \in Requests : KeyOf[q] = k /\ e[q] # Never /\ t <= e[q]} \ By(list)

EntriesOf(e, k, t) ==
    {q \in Requests : KeyOf[q] = k /\ e[q] # Never /\ t - Window <= e[q] /\ e[q] <= t}

(* The calls under way that have read an earlier time than t.              *)
BehindOf(st, sn, k, t) == {s \in CallersOf(st, k) : sn[s].at < t}

NobodyAhead == \A r \in Requests : entered[r] <= clock

ListsLose ==
    \A k \in Keys :
        Cardinality(LostOf(entered, k, hits[k], clock - Window)) + OthersOf(stage, k)
            <= overlaps[k]

CallsLose ==
    \A s \in Requests : stage[s] = "limiting" =>
        Cardinality(LostOf(entered, KeyOf[s], seen[s].kept, seen[s].at - Window))
            + OthersOf(stage, KeyOf[s]) <= overlaps[KeyOf[s]]

(* Room for the entries that calls behind may still make in the window.    *)
RoomLeft ==
    \A r \in Requests : entered[r] # Never =>
        Cardinality(EntriesOf(entered, KeyOf[r], entered[r]))
            + Cardinality(BehindOf(stage, seen, KeyOf[r], entered[r]))
            <= RateLimit + overlaps[KeyOf[r]]

RateInv == NobodyAhead /\ ListsLose /\ CallsLose /\ RoomLeft

LEMMA CountRequests ==
    /\ \A S \in SUBSET Requests : IsFiniteSet(S) /\ Cardinality(S) \in Nat
    /\ \A S, T \in SUBSET Requests : S \subseteq T => Cardinality(S) <= Cardinality(T)
    /\ \A S \in SUBSET Requests, r \in Requests :
          /\ Cardinality(S \cup {r}) <= Cardinality(S) + 1
          /\ r \notin S => Cardinality(S \cup {r}) = Cardinality(S) + 1
          /\ r \in S => Cardinality(S \ {r}) = Cardinality(S) - 1
    /\ \A S, T \in SUBSET Requests : Cardinality(S \cup T) <= Cardinality(S) + Cardinality(T)
<1>1. \A S \in SUBSET Requests : IsFiniteSet(S) /\ Cardinality(S) \in Nat
  BY ServingAssumption, FS_Subset, FS_CardinalityType
<1>2. ASSUME NEW S \in SUBSET Requests, NEW T \in SUBSET Requests, S \subseteq T
      PROVE  Cardinality(S) <= Cardinality(T)
  BY <1>1, <1>2, FS_Subset
<1>3. ASSUME NEW S \in SUBSET Requests, NEW r \in Requests
      PROVE  /\ Cardinality(S \cup {r}) <= Cardinality(S) + 1
             /\ r \notin S => Cardinality(S \cup {r}) = Cardinality(S) + 1
             /\ r \in S => Cardinality(S \ {r}) = Cardinality(S) - 1
  <2>1. Cardinality(S) \in Nat /\ IsFiniteSet(S)
    BY <1>1
  <2>2. Cardinality(S \cup {r}) = IF r \in S THEN Cardinality(S) ELSE Cardinality(S) + 1
    BY <2>1, FS_AddElement
  <2>3. Cardinality(S \ {r}) = IF r \in S THEN Cardinality(S) - 1 ELSE Cardinality(S)
    BY <2>1, FS_RemoveElement
  <2>4. QED
    BY <2>1, <2>2, <2>3
<1>4. ASSUME NEW S \in SUBSET Requests, NEW T \in SUBSET Requests
      PROVE  Cardinality(S \cup T) <= Cardinality(S) + Cardinality(T)
  <2>1. /\ IsFiniteSet(S) /\ IsFiniteSet(T) /\ Cardinality(S) \in Nat /\ Cardinality(T) \in Nat
        /\ Cardinality(S \cap T) \in Nat
    BY <1>1
  <2>2. Cardinality(S \cup T) = Cardinality(S) + Cardinality(T) - Cardinality(S \cap T)
    BY <2>1, FS_Union
  <2>3. QED
    BY <2>1, <2>2
<1>5. QED
  BY <1>1, <1>2, <1>3, <1>4

(* A list names no more requests than it has hits.                         *)
LEMMA ByNoMore ==
    ASSUME NEW list \in SUBSET Hit, IsFiniteSet(list)
    PROVE  By(list) \in SUBSET Requests /\ Cardinality(By(list)) <= Cardinality(list)
<1> DEFINE f == [h \in list |-> h.by]
<1>1. By(list) \in SUBSET Requests
  BY DEF By, Hit
<1>2. f \in Surjection(list, By(list))
  BY DEF Surjection, By
<1>3. QED
  BY <1>1, <1>2, FS_Surjection

LEMMA OthersTyped ==
    ASSUME NEW st, NEW k
    PROVE  /\ CallersOf(st, k) \in SUBSET Requests
           /\ Cardinality(CallersOf(st, k)) \in Nat
           /\ OthersOf(st, k) \in Nat
           /\ CallersOf(st, k) # {} => OthersOf(st, k) = Cardinality(CallersOf(st, k)) - 1
<1>1. CallersOf(st, k) \in SUBSET Requests /\ IsFiniteSet(CallersOf(st, k))
      /\ Cardinality(CallersOf(st, k)) \in Nat
  BY CountRequests DEF CallersOf
<1>2. CallersOf(st, k) # {} => Cardinality(CallersOf(st, k)) # 0
  BY <1>1, FS_EmptySet
<1>3. QED
  BY <1>1, <1>2 DEF OthersOf

(* When a call is over, so is one of those that overlap.                   *)
LEMMA OneCallerLess ==
    ASSUME NEW r \in Requests, stage \in [Requests -> Stage], stage[r] = "limiting",
           NEW to \in {"routed", "refused"}, Goes(r, to)
    PROVE  /\ \A k \in Keys : OthersOf(stage', k) <= OthersOf(stage, k)
           /\ \A s \in Requests : stage'[s] = "limiting" =>
                 s # r /\ stage[s] = "limiting"
                 /\ (KeyOf[s] = KeyOf[r] =>
                        OthersOf(stage', KeyOf[s]) = OthersOf(stage, KeyOf[s]) - 1)
           /\ \A k : CallersOf(stage', k) \subseteq CallersOf(stage, k) \ {r}
           /\ r \in CallersOf(stage, KeyOf[r])
           /\ Cardinality(CallersOf(stage, KeyOf[r]) \ {r}) = OthersOf(stage, KeyOf[r])
<1> DEFINE k == KeyOf[r]
           L == CallersOf(stage, k)
<1>1. /\ stage' = [stage EXCEPT ![r] = to] /\ stage'[r] # "limiting"
      /\ \A s \in Requests : s # r => stage'[s] = stage[s]
  BY DEF Goes
<1>2. \A j : CallersOf(stage', j) = CallersOf(stage, j) \ {r}
  BY <1>1 DEF CallersOf
<1>3. \A j : j # k => CallersOf(stage', j) = CallersOf(stage, j)
  BY <1>1 DEF CallersOf
<1>4. r \in L /\ L \in SUBSET Requests /\ Cardinality(L) \in Nat
  <2>1. r \in L
    BY DEF CallersOf
  <2>2. QED
    BY <2>1, OthersTyped
<1>5. Cardinality(L \ {r}) = Cardinality(L) - 1
  BY <1>4, CountRequests
<1>6. OthersOf(stage, k) = Cardinality(L) - 1 /\ OthersOf(stage, k) \in Nat
  BY <1>4, OthersTyped
<1>7. CallersOf(stage', k) # {} => OthersOf(stage', k) = OthersOf(stage, k) - 1
  BY <1>2, <1>4, <1>5, <1>6, OthersTyped
<1>8. ASSUME NEW j \in Keys
      PROVE  OthersOf(stage', j) <= OthersOf(stage, j)
  <2>1. CASE j = k
    <3>1. CallersOf(stage', k) = {} => OthersOf(stage', k) = 0
      BY DEF OthersOf
    <3>2. QED
      BY <1>6, <1>7, <2>1, <3>1
  <2>2. CASE j # k
    <3>1. OthersOf(stage', j) = OthersOf(stage, j) /\ OthersOf(stage, j) \in Nat
      BY <1>3, <2>2, OthersTyped DEF OthersOf
    <3>2. QED
      BY <3>1
  <2>3. QED
    BY <2>1, <2>2
<1>9. ASSUME NEW s \in Requests, stage'[s] = "limiting"
      PROVE  s # r /\ stage[s] = "limiting"
             /\ (KeyOf[s] = KeyOf[r] =>
                    OthersOf(stage', KeyOf[s]) = OthersOf(stage, KeyOf[s]) - 1)
  <2>1. s # r /\ stage[s] = "limiting"
    BY <1>1, <1>9
  <2>2. KeyOf[s] = k => s \in CallersOf(stage', k)
    BY <1>9 DEF CallersOf
  <2>3. QED
    BY <1>7, <2>1, <2>2
<1>10. QED
  BY <1>2, <1>4, <1>5, <1>6, <1>8, <1>9

(* Steps outside the limiter, and of time.                                 *)
LEMMA RateUntouched ==
    ASSUME ServingInv, RateInv, UNCHANGED <<hits, seen, entered, overlaps>>,
           clock' \in Time, clock <= clock',
           \A r \in Requests : stage'[r] = "limiting" <=> stage[r] = "limiting"
    PROVE  RateInv'
<1>1. clock \in Int /\ clock' \in Int /\ Window \in Nat
  BY ServingAssumption DEF ServingInv, ServingTypeOK, Time
<1>2. entered \in [Requests -> Time \cup {Never}] /\ \A q \in Requests : entered[q] \in Int
  BY ServingAssumption DEF ServingInv, ServingTypeOK, Time, Never
<1>3. \A k : CallersOf(stage', k) = CallersOf(stage, k)
  BY DEF CallersOf
<1>4. \A k : OthersOf(stage', k) = OthersOf(stage, k)
  BY <1>3 DEF OthersOf
<1>5. NobodyAhead'
  BY <1>1, <1>2 DEF RateInv, NobodyAhead
<1>6. ListsLose'
  <2> SUFFICES ASSUME NEW k \in Keys
               PROVE  Cardinality(LostOf(entered, k, hits[k], clock' - Window))
                        + OthersOf(stage', k) <= overlaps[k]
    BY DEF ListsLose
  <2>1. LostOf(entered, k, hits[k], clock' - Window)
          \subseteq LostOf(entered, k, hits[k], clock - Window)
    BY <1>1, <1>2 DEF LostOf
  <2>2. /\ LostOf(entered, k, hits[k], clock' - Window) \in SUBSET Requests
        /\ LostOf(entered, k, hits[k], clock - Window) \in SUBSET Requests
    BY DEF LostOf
  <2>3. /\ Cardinality(LostOf(entered, k, hits[k], clock' - Window)) \in Nat
        /\ Cardinality(LostOf(entered, k, hits[k], clock - Window)) \in Nat
        /\ Cardinality(LostOf(entered, k, hits[k], clock' - Window))
              <= Cardinality(LostOf(entered, k, hits[k], clock - Window))
    BY <2>1, <2>2, CountRequests
  <2>4. OthersOf(stage', k) = OthersOf(stage, k) /\ OthersOf(stage, k) \in Nat
        /\ overlaps[k] \in Nat
    BY <1>4, OthersTyped DEF ServingInv, ServingTypeOK
  <2>5. Cardinality(LostOf(entered, k, hits[k], clock - Window)) + OthersOf(stage, k)
          <= overlaps[k]
    BY DEF RateInv, ListsLose
  <2>6. QED
    BY <2>3, <2>4, <2>5
<1>7. CallsLose'
  BY <1>4 DEF RateInv, CallsLose
<1>8. RoomLeft'
  <2>1. \A k, t : BehindOf(stage', seen, k, t) = BehindOf(stage, seen, k, t)
    BY <1>3 DEF BehindOf
  <2>2. QED
    BY <2>1 DEF RateInv, RoomLeft
<1>9. QED
  BY <1>5, <1>6, <1>7, <1>8 DEF RateInv

(* A call that begins loses nothing; the overlap pays for it.              *)
LEMMA RateReadHits ==
    ASSUME ServingInv, RateInv, NEW r \in Requests, ReadHits(r)
    PROVE  RateInv'
<1> DEFINE k == KeyOf[r]
           L == CallersOf(stage, k)
<1>1. /\ k \in Keys /\ clock \in Int /\ Window \in Nat
      /\ \A h \in Hit : h.at \in Int
      /\ \A q \in Requests : entered[q] \in Int /\ seen[q].at \in Int /\ seen[q].kept \in SUBSET Hit
      /\ \A j \in Keys : overlaps[j] \in Nat /\ hits[j] \in SUBSET Hit
  BY KeysOfRequests, ServingAssumption DEF ServingInv, ServingTypeOK, Time, Never, Hit
<1>2. /\ stage[r] = "new" /\ stage'[r] = "limiting"
      /\ \A s \in Requests : s # r => stage'[s] = stage[s]
      /\ seen'[r] = [at |-> clock, kept |-> Kept(k)]
      /\ \A s \in Requests : s # r => seen'[s] = seen[s]
      /\ UNCHANGED <<clock, hits, entered>>
  BY DEF ReadHits, Goes, ServingInv, ServingTypeOK
<1>3. /\ CallersOf(stage', k) = L \cup {r} /\ r \notin L
      /\ \A j : j # k => CallersOf(stage', j) = CallersOf(stage, j)
  BY <1>2 DEF CallersOf
<1>4. OthersOf(stage', k) = Cardinality(L) /\ Cardinality(L) \in Nat
  <2>1. L \in SUBSET Requests /\ Cardinality(L) \in Nat
    BY OthersTyped
  <2>2. Cardinality(L \cup {r}) = Cardinality(L) + 1
    BY <1>3, <2>1, CountRequests
  <2>3. OthersOf(stage', k) = Cardinality(L \cup {r}) - 1
    BY <1>3, OthersTyped
  <2>4. QED
    BY <2>1, <2>2, <2>3
<1>5. /\ overlaps'[k] = IF L = {} THEN overlaps[k] ELSE overlaps[k] + 1
      /\ \A j \in Keys : j # k => overlaps'[j] = overlaps[j]
  BY <1>1 DEF ReadHits, CallersOf, ServingInv, ServingTypeOK
<1>6. ASSUME NEW j \in Keys
      PROVE  /\ OthersOf(stage', j) \in Nat /\ OthersOf(stage, j) \in Nat
             /\ overlaps[j] \in Nat /\ overlaps'[j] \in Nat /\ overlaps[j] <= overlaps'[j]
             /\ OthersOf(stage', j) - overlaps'[j] = OthersOf(stage, j) - overlaps[j]
  <2>1. OthersOf(stage', j) \in Nat /\ OthersOf(stage, j) \in Nat /\ overlaps[j] \in Nat
    BY <1>1, OthersTyped
  <2>2. CASE j = k /\ L = {}
    <3>1. Cardinality(L) = 0 /\ OthersOf(stage, k) = 0
      BY <2>2, FS_EmptySet DEF OthersOf
    <3>2. QED
      BY <1>4, <1>5, <2>1, <2>2, <3>1
  <2>3. CASE j = k /\ L # {}
    <3>1. OthersOf(stage, k) = Cardinality(L) - 1
      BY <2>3, OthersTyped
    <3>2. QED
      BY <1>4, <1>5, <2>1, <2>3, <3>1
  <2>4. CASE j # k
    <3>1. OthersOf(stage', j) = OthersOf(stage, j) /\ overlaps'[j] = overlaps[j]
      BY <1>3, <1>5, <2>4 DEF OthersOf
    <3>2. QED
      BY <2>1, <3>1
  <2>5. QED
    BY <2>2, <2>3, <2>4
<1>7. NobodyAhead'
  BY <1>2 DEF RateInv, NobodyAhead
<1>8. ListsLose'
  <2> SUFFICES ASSUME NEW j \in Keys
               PROVE  Cardinality(LostOf(entered, j, hits[j], clock - Window))
                        + OthersOf(stage', j) <= overlaps'[j]
    BY <1>2 DEF ListsLose
  <2>1. Cardinality(LostOf(entered, j, hits[j], clock - Window)) \in Nat
    BY CountRequests DEF LostOf
  <2>2. Cardinality(LostOf(entered, j, hits[j], clock - Window)) + OthersOf(stage, j)
          <= overlaps[j]
    BY DEF RateInv, ListsLose
  <2>3. QED
    BY <1>6, <2>1, <2>2
<1>9. CallsLose'
  <2> SUFFICES ASSUME NEW s \in Requests, stage'[s] = "limiting"
               PROVE  Cardinality(LostOf(entered, KeyOf[s], seen'[s].kept, seen'[s].at - Window))
                        + OthersOf(stage', KeyOf[s]) <= overlaps'[KeyOf[s]]
    BY <1>2 DEF CallsLose
  <2>0. KeyOf[s] \in Keys
    BY KeysOfRequests
  <2>1. CASE s # r
    <3>1. stage[s] = "limiting" /\ seen'[s] = seen[s]
      BY <1>2, <2>1
    <3>2. Cardinality(LostOf(entered, KeyOf[s], seen[s].kept, seen[s].at - Window)) \in Nat
      BY CountRequests DEF LostOf
    <3>3. Cardinality(LostOf(entered, KeyOf[s], seen[s].kept, seen[s].at - Window))
            + OthersOf(stage, KeyOf[s]) <= overlaps[KeyOf[s]]
      BY <3>1 DEF RateInv, CallsLose
    <3>4. QED
      BY <1>6, <2>0, <3>1, <3>2, <3>3
  <2>2. CASE s = r
    <3>1. \A h \in hits[k] : clock - Window <= entered[h.by] => h \in Kept(k)
      BY <1>1 DEF Kept, ServingInv, HitsHappened, HitIsEntry
    <3>2. LostOf(entered, k, Kept(k), clock - Window)
            \subseteq LostOf(entered, k, hits[k], clock - Window)
      BY <3>1 DEF LostOf, By
    <3>3. /\ LostOf(entered, k, Kept(k), clock - Window) \in SUBSET Requests
          /\ LostOf(entered, k, hits[k], clock - Window) \in SUBSET Requests
      BY DEF LostOf
    <3>4. /\ Cardinality(LostOf(entered, k, Kept(k), clock - Window)) \in Nat
          /\ Cardinality(LostOf(entered, k, hits[k], clock - Window)) \in Nat
          /\ Cardinality(LostOf(entered, k, Kept(k), clock - Window))
               <= Cardinality(LostOf(entered, k, hits[k], clock - Window))
      BY <3>2, <3>3, CountRequests
    <3>5. Cardinality(LostOf(entered, k, hits[k], clock - Window)) + OthersOf(stage, k)
            <= overlaps[k]
      BY <1>1 DEF RateInv, ListsLose
    <3>6. Cardinality(LostOf(entered, k, Kept(k), clock - Window)) + OthersOf(stage', k)
            <= overlaps'[k]
      BY <1>1, <1>6, <3>4, <3>5
    <3>7. seen'[s].kept = Kept(k) /\ seen'[s].at = clock
      BY <1>2, <2>2
    <3>8. QED
      BY <2>2, <3>6, <3>7
  <2>3. QED
    BY <2>1, <2>2
<1>10. RoomLeft'
  <2> SUFFICES ASSUME NEW q \in Requests, entered[q] # Never
               PROVE  Cardinality(EntriesOf(entered, KeyOf[q], entered[q]))
                        + Cardinality(BehindOf(stage', seen', KeyOf[q], entered[q]))
                        <= RateLimit + overlaps'[KeyOf[q]]
    BY <1>2 DEF RoomLeft
  <2>1. KeyOf[q] \in Keys /\ entered[q] <= clock /\ entered[q] \in Int /\ seen'[r].at = clock
    BY <1>1, <1>2, KeysOfRequests DEF RateInv, NobodyAhead
  <2>2. BehindOf(stage', seen', KeyOf[q], entered[q])
          \subseteq BehindOf(stage, seen, KeyOf[q], entered[q])
    <3>1. ASSUME NEW s \in BehindOf(stage', seen', KeyOf[q], entered[q])
          PROVE  s \in BehindOf(stage, seen, KeyOf[q], entered[q])
      <4>1. s \in Requests /\ stage'[s] = "limiting" /\ KeyOf[s] = KeyOf[q]
            /\ seen'[s].at < entered[q]
        BY DEF BehindOf, CallersOf
      <4>2. s # r
        BY <1>1, <2>1, <4>1
      <4>3. QED
        BY <1>2, <4>1, <4>2 DEF BehindOf, CallersOf
    <3>2. QED
      BY <3>1
  <2>3. /\ BehindOf(stage', seen', KeyOf[q], entered[q]) \in SUBSET Requests
        /\ BehindOf(stage, seen, KeyOf[q], entered[q]) \in SUBSET Requests
        /\ EntriesOf(entered, KeyOf[q], entered[q]) \in SUBSET Requests
    BY DEF BehindOf, CallersOf, EntriesOf
  <2>4. /\ Cardinality(BehindOf(stage', seen', KeyOf[q], entered[q])) \in Nat
        /\ Cardinality(BehindOf(stage, seen, KeyOf[q], entered[q])) \in Nat
        /\ Cardinality(EntriesOf(entered, KeyOf[q], entered[q])) \in Nat
        /\ Cardinality(BehindOf(stage', seen', KeyOf[q], entered[q]))
             <= Cardinality(BehindOf(stage, seen, KeyOf[q], entered[q]))
    BY <2>2, <2>3, CountRequests
  <2>5. Cardinality(EntriesOf(entered, KeyOf[q], entered[q]))
          + Cardinality(BehindOf(stage, seen, KeyOf[q], entered[q]))
          <= RateLimit + overlaps[KeyOf[q]]
    BY DEF RateInv, RoomLeft
  <2>6. QED
    BY <1>6, <2>1, <2>4, <2>5, ServingAssumption
<1>11. QED
  BY <1>7, <1>8, <1>9, <1>10 DEF RateInv

(* What a call puts back has lost what the call would lose.                *)
LEMMA CallFacts ==
    ASSUME ServingInv, RateInv, NEW r \in Requests, stage[r] = "limiting"
    PROVE  /\ KeyOf[r] \in Keys /\ clock \in Int /\ Window \in Nat
           /\ \A q \in Requests : entered[q] \in Int
           /\ seen[r].at \in Int /\ seen[r].at <= clock /\ seen[r].at # Never
           /\ seen[r].kept \in SUBSET Hit
           /\ \A j \in Keys : overlaps[j] \in Nat
           /\ Cardinality(LostOf(entered, KeyOf[r], seen[r].kept, seen[r].at - Window))
                + OthersOf(stage, KeyOf[r]) <= overlaps[KeyOf[r]]
<1>1. KeyOf[r] \in Keys
  BY KeysOfRequests
<1>2. clock \in Int /\ Window \in Nat /\ \A q \in Requests : entered[q] \in Int
  BY ServingAssumption DEF ServingInv, ServingTypeOK, Time, Never
<1>3. seen[r].at \in Int /\ seen[r].at # Never /\ seen[r].kept \in SUBSET Hit
  BY ServingAssumption DEF ServingInv, ServingTypeOK, Time, Never
<1>4. seen[r].at <= clock /\ \A j \in Keys : overlaps[j] \in Nat
  BY DEF ServingInv, ServingTypeOK, SeenHappened
<1>5. QED
  BY <1>1, <1>2, <1>3, <1>4 DEF RateInv, CallsLose

LEMMA RateRefuse ==
    ASSUME ServingInv, RateInv, NEW r \in Requests, Refuse(r)
    PROVE  RateInv'
<1> DEFINE k == KeyOf[r]
<1>1. /\ stage[r] = "limiting" /\ Goes(r, "refused") /\ stage \in [Requests -> Stage]
      /\ hits'[k] = seen[r].kept /\ \A j \in Keys : j # k => hits'[j] = hits[j]
      /\ \A s \in Requests : s # r => seen'[s] = seen[s]
      /\ UNCHANGED <<clock, entered, overlaps>>
  BY KeysOfRequests DEF Refuse, ServingInv, ServingTypeOK
<1>2. /\ k \in Keys /\ clock \in Int /\ Window \in Nat
      /\ \A q \in Requests : entered[q] \in Int
      /\ seen[r].at \in Int /\ seen[r].at <= clock
      /\ \A j \in Keys : overlaps[j] \in Nat
      /\ Cardinality(LostOf(entered, k, seen[r].kept, seen[r].at - Window))
           + OthersOf(stage, k) <= overlaps[k]
  BY <1>1, CallFacts
<1>3. /\ \A j \in Keys : OthersOf(stage', j) <= OthersOf(stage, j)
      /\ \A s \in Requests : stage'[s] = "limiting" => s # r /\ stage[s] = "limiting"
      /\ \A j : CallersOf(stage', j) \subseteq CallersOf(stage, j) \ {r}
  BY <1>1, OneCallerLess
<1>4. \A j \in Keys : OthersOf(stage', j) \in Nat /\ OthersOf(stage, j) \in Nat
  BY OthersTyped
<1>5. NobodyAhead'
  BY <1>1 DEF RateInv, NobodyAhead
<1>6. ListsLose'
  <2> SUFFICES ASSUME NEW j \in Keys
               PROVE  Cardinality(LostOf(entered, j, hits'[j], clock - Window))
                        + OthersOf(stage', j) <= overlaps[j]
    BY <1>1 DEF ListsLose
  <2>1. CASE j # k
    <3>1. Cardinality(LostOf(entered, j, hits[j], clock - Window)) \in Nat
      BY CountRequests DEF LostOf
    <3>2. Cardinality(LostOf(entered, j, hits[j], clock - Window)) + OthersOf(stage, j)
            <= overlaps[j]
      BY DEF RateInv, ListsLose
    <3>3. QED
      BY <1>1, <1>2, <1>3, <1>4, <2>1, <3>1, <3>2
  <2>2. CASE j = k
    <3> DEFINE A == LostOf(entered, k, seen[r].kept, clock - Window)
               B == LostOf(entered, k, seen[r].kept, seen[r].at - Window)
    <3>1. A \subseteq B /\ A \in SUBSET Requests /\ B \in SUBSET Requests
      BY <1>2 DEF LostOf
    <3>2. Cardinality(A) \in Nat /\ Cardinality(B) \in Nat /\ Cardinality(A) <= Cardinality(B)
      BY <3>1, CountRequests
    <3>3. Cardinality(B) + OthersOf(stage, k) <= overlaps[k]
      BY <1>2
    <3>4. Cardinality(A) + OthersOf(stage', k) <= overlaps[k]
      BY <1>2, <1>3, <1>4, <3>2, <3>3
    <3>5. QED
      BY <1>1, <2>2, <3>4
  <2>3. QED
    BY <2>1, <2>2
<1>7. CallsLose'
  <2> SUFFICES ASSUME NEW s \in Requests, stage'[s] = "limiting"
               PROVE  Cardinality(LostOf(entered, KeyOf[s], seen'[s].kept, seen'[s].at - Window))
                        + OthersOf(stage', KeyOf[s]) <= overlaps[KeyOf[s]]
    BY <1>1 DEF CallsLose
  <2>1. KeyOf[s] \in Keys /\ s # r /\ stage[s] = "limiting" /\ seen'[s] = seen[s]
    BY <1>1, <1>3, KeysOfRequests
  <2>2. Cardinality(LostOf(entered, KeyOf[s], seen[s].kept, seen[s].at - Window)) \in Nat
    BY CountRequests DEF LostOf
  <2>3. Cardinality(LostOf(entered, KeyOf[s], seen[s].kept, seen[s].at - Window))
          + OthersOf(stage, KeyOf[s]) <= overlaps[KeyOf[s]]
    BY <2>1 DEF RateInv, CallsLose
  <2>4. QED
    BY <1>2, <1>3, <1>4, <2>1, <2>2, <2>3
<1>8. RoomLeft'
  <2> SUFFICES ASSUME NEW q \in Requests, entered[q] # Never
               PROVE  Cardinality(EntriesOf(entered, KeyOf[q], entered[q]))
                        + Cardinality(BehindOf(stage', seen', KeyOf[q], entered[q]))
                        <= RateLimit + overlaps[KeyOf[q]]
    BY <1>1 DEF RoomLeft
  <2> DEFINE A == BehindOf(stage', seen', KeyOf[q], entered[q])
             B == BehindOf(stage, seen, KeyOf[q], entered[q])
             E == EntriesOf(entered, KeyOf[q], entered[q])
  <2>1. A \subseteq B
    BY <1>1, <1>3 DEF BehindOf, CallersOf
  <2>2. A \in SUBSET Requests /\ B \in SUBSET Requests /\ E \in SUBSET Requests
    BY DEF BehindOf, CallersOf, EntriesOf
  <2>3. Cardinality(A) \in Nat /\ Cardinality(B) \in Nat /\ Cardinality(E) \in Nat
        /\ Cardinality(A) <= Cardinality(B)
    BY <2>1, <2>2, CountRequests
  <2>4. Cardinality(E) + Cardinality(B) <= RateLimit + overlaps[KeyOf[q]]
    BY DEF RateInv, RoomLeft
  <2>5. KeyOf[q] \in Keys /\ overlaps[KeyOf[q]] \in Nat /\ RateLimit \in Nat
    BY <1>2, KeysOfRequests, ServingAssumption
  <2> HIDE DEF A, B, E
  <2>6. Cardinality(E) + Cardinality(A) <= RateLimit + overlaps[KeyOf[q]]
    BY <2>3, <2>4, <2>5
  <2>7. QED
    BY <2>6 DEF A, E
<1>9. QED
  BY <1>5, <1>6, <1>7, <1>8 DEF RateInv

LEMMA RateAllow ==
    ASSUME ServingInv, RateInv, NEW r \in Requests, Allow(r)
    PROVE  RateInv'
<1> DEFINE k == KeyOf[r]
           a == seen[r].at
           kept == seen[r].kept
           L == CallersOf(stage, k)
           new == [by |-> r, at |-> a]
<1>1. /\ stage[r] = "limiting" /\ Goes(r, "routed") /\ stage \in [Requests -> Stage]
      /\ ~AtLimit(kept)
      /\ hits'[k] = kept \cup {new} /\ \A j \in Keys : j # k => hits'[j] = hits[j]
      /\ entered'[r] = a /\ \A s \in Requests : s # r => entered'[s] = entered[s]
      /\ \A s \in Requests : s # r => seen'[s] = seen[s]
      /\ UNCHANGED <<clock, overlaps>>
  BY KeysOfRequests DEF Allow, ServingInv, ServingTypeOK
<1>2. /\ k \in Keys /\ clock \in Int /\ Window \in Nat
      /\ \A q \in Requests : entered[q] \in Int
      /\ a \in Int /\ a <= clock /\ a # Never /\ kept \in SUBSET Hit
      /\ \A j \in Keys : overlaps[j] \in Nat
      /\ Cardinality(LostOf(entered, k, kept, a - Window)) + OthersOf(stage, k) <= overlaps[k]
  BY <1>1, CallFacts
<1>3. /\ \A j \in Keys : OthersOf(stage', j) <= OthersOf(stage, j)
      /\ \A s \in Requests : stage'[s] = "limiting" =>
            s # r /\ stage[s] = "limiting"
            /\ (KeyOf[s] = k => OthersOf(stage', KeyOf[s]) = OthersOf(stage, KeyOf[s]) - 1)
      /\ \A j : CallersOf(stage', j) \subseteq CallersOf(stage, j) \ {r}
      /\ r \in L /\ Cardinality(L \ {r}) = OthersOf(stage, k)
  BY <1>1, OneCallerLess
<1>4. \A j \in Keys : OthersOf(stage', j) \in Nat /\ OthersOf(stage, j) \in Nat
  BY OthersTyped
<1>5. entered[r] = Never
  BY <1>1 DEF ServingInv, EnteredByLimiter
<1>6. \A q \in Requests : entered'[q] \in Int
  BY <1>1, <1>2
<1>6a. By(kept \cup {new}) = By(kept) \cup {r}
  <2>1. new.by = r
    OBVIOUS
  <2>2. \A x : (\E h \in kept \cup {new} : h.by = x) <=> (x = new.by \/ \E h \in kept : h.by = x)
    OBVIOUS
  <2> HIDE DEF new, kept
  <2>3. QED
    BY <2>1, <2>2 DEF By
<1> HIDE DEF a, kept
<1>7. NobodyAhead'
  BY <1>1, <1>2 DEF RateInv, NobodyAhead
<1>8. ASSUME NEW j \in Keys, NEW list, NEW t, j # k
      PROVE  LostOf(entered', j, list, t) = LostOf(entered, j, list, t)
  BY <1>1, <1>8 DEF LostOf
<1>9. ListsLose'
  <2> SUFFICES ASSUME NEW j \in Keys
               PROVE  Cardinality(LostOf(entered', j, hits'[j], clock - Window))
                        + OthersOf(stage', j) <= overlaps[j]
    BY <1>1 DEF ListsLose
  <2>1. CASE j # k
    <3>1. Cardinality(LostOf(entered, j, hits[j], clock - Window)) \in Nat
      BY CountRequests DEF LostOf
    <3>2. Cardinality(LostOf(entered, j, hits[j], clock - Window)) + OthersOf(stage, j)
            <= overlaps[j]
      BY DEF RateInv, ListsLose
    <3>3. LostOf(entered', j, hits'[j], clock - Window) = LostOf(entered, j, hits[j], clock - Window)
      BY <1>1, <1>8, <2>1
    <3>4. QED
      BY <1>2, <1>3, <1>4, <3>1, <3>2, <3>3
  <2>2. CASE j = k
    <3> DEFINE A == LostOf(entered', k, kept \cup {new}, clock - Window)
               B == LostOf(entered, k, kept, a - Window)
    <3>1. A \subseteq B
      <4>1. ASSUME NEW q \in A
            PROVE  q \in B
        <5>1. q \in Requests /\ KeyOf[q] = k /\ entered'[q] # Never
              /\ clock - Window <= entered'[q] /\ q \notin By(kept \cup {new})
          BY DEF LostOf
        <5>2. q # r /\ q \notin By(kept)
          BY <1>6a, <5>1
        <5>3. entered[q] = entered'[q] /\ a - Window <= entered[q]
          BY <1>1, <1>2, <5>1, <5>2
        <5>4. QED
          BY <5>1, <5>2, <5>3 DEF LostOf
      <4>2. QED
        BY <4>1
    <3>2. A \in SUBSET Requests /\ B \in SUBSET Requests
      BY DEF LostOf
    <3>3. Cardinality(A) \in Nat /\ Cardinality(B) \in Nat /\ Cardinality(A) <= Cardinality(B)
      BY <3>1, <3>2, CountRequests
    <3>4. Cardinality(B) + OthersOf(stage, k) <= overlaps[k]
      BY <1>2
    <3> HIDE DEF A, B
    <3>5. Cardinality(A) + OthersOf(stage', k) <= overlaps[k]
      BY <1>2, <1>3, <1>4, <3>3, <3>4
    <3>6. QED
      BY <1>1, <2>2, <3>5 DEF A
  <2>3. QED
    BY <2>1, <2>2
<1>10. CallsLose'
  <2> SUFFICES ASSUME NEW s \in Requests, stage'[s] = "limiting"
               PROVE  Cardinality(LostOf(entered', KeyOf[s], seen'[s].kept, seen'[s].at - Window))
                        + OthersOf(stage', KeyOf[s]) <= overlaps[KeyOf[s]]
    BY <1>1 DEF CallsLose
  <2> DEFINE j == KeyOf[s]
             A == LostOf(entered', j, seen[s].kept, seen[s].at - Window)
             B == LostOf(entered, j, seen[s].kept, seen[s].at - Window)
  <2>1. j \in Keys /\ s # r /\ stage[s] = "limiting" /\ seen'[s] = seen[s]
    BY <1>1, <1>3, KeysOfRequests
  <2>2. Cardinality(B) + OthersOf(stage, j) <= overlaps[j]
    BY <2>1 DEF RateInv, CallsLose
  <2>3. A \in SUBSET Requests /\ B \in SUBSET Requests
    BY DEF LostOf
  <2>4. A \subseteq B \cup {r}
    BY <1>1 DEF LostOf
  <2>5. B \cup {r} \in SUBSET Requests
    BY <2>3
  <2>6. Cardinality(A) \in Nat /\ Cardinality(B) \in Nat /\ Cardinality(A) <= Cardinality(B) + 1
    <3>1. Cardinality(A) <= Cardinality(B \cup {r}) /\ Cardinality(B \cup {r}) <= Cardinality(B) + 1
      BY <2>3, <2>4, <2>5, CountRequests
    <3>2. Cardinality(A) \in Nat /\ Cardinality(B) \in Nat /\ Cardinality(B \cup {r}) \in Nat
      BY <2>3, <2>5, CountRequests
    <3>3. QED
      BY <3>1, <3>2
  <2>7. j # k => A = B
    BY <1>8, <2>1
  <2>8. OthersOf(stage', j) \in Nat /\ OthersOf(stage, j) \in Nat /\ overlaps[j] \in Nat
        /\ OthersOf(stage', j) <= OthersOf(stage, j)
        /\ (j = k => OthersOf(stage', j) = OthersOf(stage, j) - 1)
    BY <1>2, <1>3, <1>4, <2>1
  <2> HIDE DEF A, B
  <2>9. Cardinality(A) + OthersOf(stage', j) <= overlaps[j]
    <3>1. CASE j = k
      BY <2>2, <2>6, <2>8, <3>1
    <3>2. CASE j # k
      BY <2>2, <2>6, <2>7, <2>8, <3>2
    <3>3. QED
      BY <3>1, <3>2
  <2>10. QED
    BY <2>1, <2>9 DEF A
<1>11. RoomLeft'
  <2> SUFFICES ASSUME NEW q \in Requests, entered'[q] # Never
               PROVE  Cardinality(EntriesOf(entered', KeyOf[q], entered'[q]))
                        + Cardinality(BehindOf(stage', seen', KeyOf[q], entered'[q]))
                        <= RateLimit + overlaps[KeyOf[q]]
    BY <1>1 DEF RoomLeft
  <2> DEFINE j == KeyOf[q]
             t == entered'[q]
             A == EntriesOf(entered', j, t)
             C == BehindOf(stage', seen', j, t)
             B == EntriesOf(entered, j, t)
             D == BehindOf(stage, seen, j, t)
  <2>1. j \in Keys /\ t \in Int /\ overlaps[j] \in Nat /\ RateLimit \in Nat /\ Window \in Nat
    BY <1>2, <1>6, KeysOfRequests, ServingAssumption
  <2>2. /\ A \in SUBSET Requests /\ B \in SUBSET Requests
        /\ C \in SUBSET Requests /\ D \in SUBSET Requests
    BY DEF EntriesOf, BehindOf, CallersOf
  <2>3. /\ Cardinality(A) \in Nat /\ Cardinality(B) \in Nat
        /\ Cardinality(C) \in Nat /\ Cardinality(D) \in Nat
    BY <2>2, CountRequests
  <2>4. C \subseteq D \ {r} /\ C \subseteq CallersOf(stage, j) \ {r}
    BY <1>1, <1>3 DEF BehindOf, CallersOf
  <2>5. q # r => entered[q] = t /\ entered[q] # Never
    BY <1>1
  <2>6. q # r => Cardinality(B) + Cardinality(D) <= RateLimit + overlaps[j]
    BY <2>5 DEF RateInv, RoomLeft
  <2>7. A \subseteq B \cup {r} /\ (r \in A => j = k /\ a <= t)
    BY <1>1 DEF EntriesOf
  <2>8. CASE j = k /\ t = a
    <3> DEFINE S == By(kept)
               M == LostOf(entered, k, kept, a - Window)
    <3>1. IsFiniteSet(kept) /\ Cardinality(kept) \in Nat
      BY KeptAreEntries DEF kept
    <3>2. Cardinality(kept) + 1 <= RateLimit
      BY <1>1, <2>1, <3>1 DEF AtLimit
    <3>3. S \in SUBSET Requests /\ Cardinality(S) <= Cardinality(kept)
      BY <1>2, <3>1, ByNoMore
    <3>4. M \in SUBSET Requests /\ Cardinality(M) + OthersOf(stage, k) <= overlaps[k]
      BY <1>2 DEF LostOf
    <3>5. A \subseteq (S \cup M) \cup {r}
      BY <1>1, <2>8 DEF EntriesOf, LostOf
    <3>6. S \cup M \in SUBSET Requests /\ (S \cup M) \cup {r} \in SUBSET Requests
      BY <3>3, <3>4
    <3>7. /\ Cardinality(A) <= Cardinality((S \cup M) \cup {r})
          /\ Cardinality((S \cup M) \cup {r}) <= Cardinality(S \cup M) + 1
          /\ Cardinality(S \cup M) <= Cardinality(S) + Cardinality(M)
      BY <2>2, <3>3, <3>4, <3>5, <3>6, CountRequests
    <3>8. /\ Cardinality(S) \in Nat /\ Cardinality(M) \in Nat /\ Cardinality(S \cup M) \in Nat
          /\ Cardinality((S \cup M) \cup {r}) \in Nat
      BY <3>3, <3>4, <3>6, CountRequests
    <3>9. Cardinality(C) <= OthersOf(stage, k)
      <4>1. L \ {r} \in SUBSET Requests /\ C \subseteq L \ {r}
        BY <2>4, <2>8 DEF CallersOf
      <4>2. Cardinality(C) <= Cardinality(L \ {r})
        BY <2>2, <4>1, CountRequests
      <4>3. QED
        BY <1>3, <4>2
    <3>10. OthersOf(stage, k) \in Nat /\ overlaps[k] \in Nat
      BY <1>2, <1>4
    <3> HIDE DEF A, C, S, M
    <3>11. Cardinality(A) + Cardinality(C) <= RateLimit + overlaps[k]
      BY <2>1, <2>3, <3>1, <3>2, <3>3, <3>4, <3>7, <3>8, <3>9, <3>10
    <3>12. QED
      BY <2>8, <3>11 DEF A, C
  <2>9. CASE j = k /\ t > a
    <3>1. q # r
      BY <1>1, <1>2, <2>1, <2>9
    <3>2. r \in D
      BY <1>3, <2>9 DEF BehindOf, a
    <3>3. Cardinality(A) <= Cardinality(B) + 1
      <4>1. B \cup {r} \in SUBSET Requests
        BY <2>2
      <4>2. Cardinality(A) <= Cardinality(B \cup {r})
            /\ Cardinality(B \cup {r}) <= Cardinality(B) + 1
            /\ Cardinality(B \cup {r}) \in Nat
        BY <2>2, <2>7, <4>1, CountRequests
      <4>3. QED
        BY <2>3, <4>2
    <3>4. Cardinality(C) <= Cardinality(D) - 1
      <4>1. D \ {r} \in SUBSET Requests
        BY <2>2
      <4>2. Cardinality(C) <= Cardinality(D \ {r}) /\ Cardinality(D \ {r}) = Cardinality(D) - 1
        BY <2>2, <2>4, <3>2, <4>1, CountRequests
      <4>3. QED
        BY <4>2
    <3> HIDE DEF A, B, C, D
    <3>5. Cardinality(A) + Cardinality(C) <= RateLimit + overlaps[j]
      BY <2>1, <2>3, <2>6, <3>1, <3>3, <3>4
    <3>6. QED
      BY <3>5 DEF A, C
  <2>10. CASE j # k \/ t < a
    <3>1. q # r
      BY <1>1, <1>2, <2>1, <2>10
    <3>2. r \notin A
      BY <1>2, <2>1, <2>7, <2>10
    <3>3. A \subseteq B /\ C \subseteq D
      BY <2>4, <2>7, <3>2
    <3>4. Cardinality(A) <= Cardinality(B) /\ Cardinality(C) <= Cardinality(D)
      BY <2>2, <3>3, CountRequests
    <3> HIDE DEF A, B, C, D
    <3>5. Cardinality(A) + Cardinality(C) <= RateLimit + overlaps[j]
      BY <2>1, <2>3, <2>6, <3>1, <3>4
    <3>6. QED
      BY <3>5 DEF A, C
  <2>11. QED
    BY <1>2, <2>1, <2>8, <2>9, <2>10
<1>12. QED
  BY <1>7, <1>9, <1>10, <1>11 DEF RateInv

-----------------------------------------------------------------------------
LEMMA RateInit == ServingInit => RateInv
<1> SUFFICES ASSUME ServingInit PROVE RateInv
  OBVIOUS
<1>1. \A k, list, t : LostOf(entered, k, list, t) = {}
  BY DEF ServingInit, LostOf
<1>2. \A k : OthersOf(stage, k) = 0
  BY DEF ServingInit, OthersOf, CallersOf
<1>3. Cardinality({}) = 0
  BY FS_EmptySet
<1>4. ListsLose /\ CallsLose
  BY <1>1, <1>2, <1>3, KeysOfRequests DEF ServingInit, ListsLose, CallsLose
<1>5. NobodyAhead /\ RoomLeft
  BY DEF ServingInit, NobodyAhead, RoomLeft, Never
<1>6. QED
  BY <1>4, <1>5 DEF RateInv

LEMMA RateStep == ServingInv /\ RateInv /\ [ServingNext]_servingVars => RateInv'
<1> SUFFICES ASSUME ServingInv, RateInv, [ServingNext]_servingVars PROVE RateInv'
  OBVIOUS
<1>0. clock \in Time /\ clock <= clock /\ stage \in [Requests -> Stage]
  BY ServingAssumption DEF ServingInv, ServingTypeOK, Time
<1>1. ASSUME NEW r \in Requests, ReadHits(r) \/ Allow(r) \/ Refuse(r)
      PROVE  RateInv'
  BY <1>1, RateReadHits, RateAllow, RateRefuse
<1>2. ASSUME NEW r \in Requests, NEW from \in Stage \ {"limiting"},
             NEW to \in Stage \ {"limiting"}, stage[r] = from, Goes(r, to),
             UNCHANGED <<clock, hits, seen, entered, overlaps>>
      PROVE  RateInv'
  <2>1. \A s \in Requests : stage'[s] = "limiting" <=> stage[s] = "limiting"
    BY <1>0, <1>2 DEF Goes
  <2>2. QED
    BY <1>0, <1>2, <2>1, RateUntouched
<1>3. ASSUME NEW r \in Requests, \/ Unauthenticated(r) \/ TurnedAway(r) \/ Start(r) \/ Expire(r)
                                 \/ Disconnect(r) \/ Answer(r) \/ StreamOver(r)
      PROVE  RateInv'
  <2>1. stage[r] \in Stage \ {"limiting"}
    BY <1>0, <1>3 DEF Unauthenticated, TurnedAway, Start, Expire, Disconnect, Answer, StreamOver
  <2>2. \E to \in Stage \ {"limiting"} : Goes(r, to)
    BY <1>3 DEF Unauthenticated, TurnedAway, Start, Expire, Disconnect, Answer, StreamOver, Stage
  <2>3. UNCHANGED <<clock, hits, seen, entered, overlaps>>
    BY <1>3 DEF Unauthenticated, TurnedAway, Start, Expire, Disconnect, Answer, StreamOver
  <2>4. QED
    BY <1>2, <2>1, <2>2, <2>3
<1>4. ASSUME NEW r \in Requests, NextPiece(r) \/ ThreadStep(r) \/ Piece(r)
      PROVE  RateInv'
  <2>1. UNCHANGED <<clock, hits, seen, entered, overlaps, stage>>
    BY <1>4 DEF NextPiece, ThreadStep, CallEnds, CallFails, BackoffOver, Piece, Ends, Steps
  <2>2. QED
    BY <1>0, <2>1, RateUntouched
<1>5. CASE Tick
  <2>1. UNCHANGED <<hits, seen, entered, overlaps, stage>> /\ clock' \in Time /\ clock <= clock'
    BY <1>0, <1>5, ServingAssumption DEF Tick, Time
  <2>2. QED
    BY <2>1, RateUntouched
<1>6. CASE UNCHANGED servingVars
  BY <1>0, <1>6, RateUntouched DEF servingVars
<1>7. QED
  BY <1>1, <1>3, <1>4, <1>5, <1>6 DEF ServingNext, LoopStep

(* "requests per 60s per key": in no window that ends with an entry has a  *)
(* key had more requests let in than its limit and one for every call of   *)
(* the limiter that began during another (RateLimiter.allow,               *)
(* api/security.py).                                                       *)
THEOREM RateIsBounded == ServingSpec => []RateBounded
<1>1. ServingInit => RateInv
  BY RateInit
<1>2. ServingInv /\ RateInv /\ [ServingNext]_servingVars => RateInv'
  BY RateStep
<1>3. ServingInv /\ RateInv => RateBounded
  <2> SUFFICES ASSUME ServingInv, RateInv, NEW r \in Requests, entered[r] # Never
               PROVE  Cardinality(InWindow(KeyOf[r], entered[r])) <= RateLimit + overlaps[KeyOf[r]]
    BY DEF RateBounded
  <2> DEFINE A == EntriesOf(entered, KeyOf[r], entered[r])
             C == BehindOf(stage, seen, KeyOf[r], entered[r])
  <2>1. A = InWindow(KeyOf[r], entered[r])
    BY DEF EntriesOf, InWindow
  <2>2. Cardinality(A) \in Nat /\ Cardinality(C) \in Nat
    BY CountRequests DEF EntriesOf, BehindOf, CallersOf
  <2>3. Cardinality(A) + Cardinality(C) <= RateLimit + overlaps[KeyOf[r]]
    BY DEF RateInv, RoomLeft
  <2>4. RateLimit \in Nat /\ overlaps[KeyOf[r]] \in Nat
    BY KeysOfRequests, ServingAssumption DEF ServingInv, ServingTypeOK
  <2> HIDE DEF A, C
  <2>5. QED
    BY <2>1, <2>2, <2>3, <2>4
<1>4. QED
  BY <1>1, <1>2, <1>3, ServingInvariant, PTL DEF ServingSpec

-----------------------------------------------------------------------------
(***************************************************************************)
(* Packing.  What is left of a conversation is one of its admissible       *)
(* parts, and everything longer has been found too dear; Conversation and  *)
(* Cost are recursive functions, so that they are first shown to exist.    *)
(***************************************************************************)

(* A sequence without its last element.                                    *)
LEMMA FrontIs ==
    ASSUME NEW S, NEW l \in Seq(S), l # <<>>
    PROVE  /\ Front(l) \in Seq(S) /\ Len(Front(l)) = Len(l) - 1 /\ Len(l) \in Nat \ {0}
           /\ \A i \in 1..Len(l) - 1 : Front(l)[i] = l[i]
           /\ Last(l) \in S /\ Last(l) = l[Len(l)]
<1>1. Len(l) \in Nat \ {0}
    BY EmptySeq
<1>2. \A i \in 1..Len(l) - 1 : l[i] \in S
    BY <1>1, ElementOfSeq
<1>3. 1 \in Int /\ Len(l) - 1 \in Int
    BY <1>1
<1>4. /\ SubSeq(l, 1, Len(l) - 1) \in Seq(S)
      /\ Len(SubSeq(l, 1, Len(l) - 1)) = IF 1 <= Len(l) - 1 THEN Len(l) - 1 - 1 + 1 ELSE 0
      /\ \A i \in 1..Len(l) - 1 - 1 + 1 : SubSeq(l, 1, Len(l) - 1)[i] = l[1 + i - 1]
    BY <1>2, <1>3, SubSeqProperties
<1>5. l[Len(l)] \in S
    BY <1>1, ElementOfSeq
<1>6. Len(SubSeq(l, 1, Len(l) - 1)) = Len(l) - 1
    <2> DEFINE k == Len(l) - 1
               t == SubSeq(l, 1, Len(l) - 1)
    <2>1. k \in Nat /\ Len(t) = IF 1 <= k THEN k - 1 + 1 ELSE 0
        BY <1>1, <1>4
    <2> HIDE DEF k, t
    <2>2. Len(t) = k
        BY <2>1
    <2> QED
        BY <2>2 DEF k, t
<1>7. \A i \in 1..Len(l) - 1 : SubSeq(l, 1, Len(l) - 1)[i] = l[i]
    BY <1>1, <1>4
<1> QED
    BY <1>1, <1>4, <1>5, <1>6, <1>7 DEF Front, Last

CostBody(f, conv) == IF conv = <<>> THEN 0 ELSE f[Front(conv)] + Last(conv).cost

(* A conversation has a cost.                                              *)
LEMMA CostIs ==
    \A conv \in Seq(Messages) : Cost[conv] \in Nat
<1> DEFINE D == Seq(Messages)
           stop == {<<>>}
           m == [l \in D |-> Len(l)]
           next == [l \in D |-> IF l = <<>> THEN l ELSE Front(l)]
           out == [l \in D |-> 0]
           comb == [l \in D |-> [v \in Nat |-> IF l = <<>> THEN v ELSE v + Last(l).cost]]
<1>0. \A l \in D : l # <<>> => /\ Front(l) \in D /\ Len(Front(l)) < Len(l) /\ Last(l).cost \in Nat
    <2> TAKE l \in D
    <2> SUFFICES ASSUME l # <<>>
                 PROVE  Front(l) \in D /\ Len(Front(l)) < Len(l) /\ Last(l).cost \in Nat
        OBVIOUS
    <2>1. Front(l) \in D /\ Len(Front(l)) = Len(l) - 1 /\ Len(l) \in Nat /\ Last(l) \in Messages
        BY FrontIs
    <2> QED
        BY <2>1 DEF Messages
<1>1. m \in [D -> Nat] /\ next \in [D -> D] /\ out \in [D -> Nat]
    BY <1>0
<1>2. stop \subseteq D
    BY EmptySeq
<1>3. comb \in [D -> [Nat -> Nat]]
    BY <1>0
<1>4. \A l \in D \ stop : m[next[l]] < m[l]
    BY <1>0
<1>5. IsRecursion(D, Nat, m, stop, next, out, comb)
    BY <1>1, <1>2, <1>3, <1>4 DEF IsRecursion
<1> HIDE DEF D, stop, m, next, out, comb
<1>6. PICK f \in [D -> Nat] : \A l \in D : f[l] = IF l \in stop THEN out[l] ELSE comb[l][f[next[l]]]
    BY <1>5, RecursionIsDefined
<1>7. ASSUME NEW l \in D
      PROVE  f[l] = CostBody(f, l)
    <2>1. CASE l = <<>>
        BY <1>6, <2>1 DEF stop, out, CostBody
    <2>2. CASE l # <<>>
        <3>1. f[l] = comb[l][f[next[l]]] /\ f[next[l]] \in Nat /\ next[l] = Front(l)
            BY <1>1, <1>6, <2>2 DEF stop, next
        <3> QED
            BY <2>2, <3>1 DEF comb, CostBody
    <2> QED
        BY <2>1, <2>2
<1>8. f = [l \in Seq(Messages) |-> CostBody(f, l)]
    BY <1>6, <1>7 DEF D
<1>9. Cost = CHOOSE g : g = [l \in Seq(Messages) |-> CostBody(g, l)]
    BY DEF Cost, CostBody
<1>10. Cost = [l \in Seq(Messages) |-> CostBody(Cost, l)]
    BY <1>8, <1>9
<1>11. \A l \in D : Cost[l] = CostBody(Cost, l)
    BY <1>10 DEF D
<1> DEFINE S == {l \in D : Cost[l] \in Nat}
<1>12. ASSUME NEW l \in D, \A y \in D : m[y] < m[l] => y \in S
       PROVE  l \in S
    <2>1. CASE l = <<>>
        BY <1>11, <2>1 DEF CostBody
    <2>2. CASE l # <<>>
        <3>1. Front(l) \in D /\ m[Front(l)] < m[l] /\ Last(l).cost \in Nat
            BY <1>0, <2>2 DEF m
        <3>2. Cost[Front(l)] \in Nat
            BY <1>12, <3>1
        <3> QED
            BY <1>11, <2>2, <3>1, <3>2 DEF CostBody
    <2> QED
        BY <2>1, <2>2
<1> HIDE DEF S
<1>13. D \subseteq S
    BY <1>1, <1>12, MeasureInduction
<1> QED
    BY <1>13 DEF S, D

ConversationBody(f, h) ==
    IF h = <<>> THEN <<>>
    ELSE IF Last(h).role = "system" THEN f[Front(h)]
    ELSE Append(f[Front(h)], Bounded(Last(h)))

Speakable(x) == x.role # "system" /\ (x.role = "tool" => x.cost <= MaxResult + 1)

(* What is spoken is a sequence of messages, none of the system's and no   *)
(* tool result longer than the limit.                                      *)
LEMMA ConversationIs ==
    \A h \in Seq(Messages) :
        /\ Conversation[h] \in Seq(Messages)
        /\ \A i \in 1..Len(Conversation[h]) : Speakable(Conversation[h][i])
<1> DEFINE D == Seq(Messages)
           V == {l \in D : \A i \in 1..Len(l) : Speakable(l[i])}
           stop == {<<>>}
           m == [l \in D |-> Len(l)]
           next == [l \in D |-> IF l = <<>> THEN l ELSE Front(l)]
           out == [l \in D |-> <<>>]
           comb == [l \in D |-> [v \in V |->
                      IF l = <<>> THEN v
                      ELSE IF Last(l).role = "system" THEN v ELSE Append(v, Bounded(Last(l)))]]
<1>0. \A l \in D : l # <<>> => /\ Front(l) \in D /\ Len(Front(l)) < Len(l) /\ Last(l) \in Messages
    <2> TAKE l \in D
    <2> SUFFICES ASSUME l # <<>>
                 PROVE  Front(l) \in D /\ Len(Front(l)) < Len(l) /\ Last(l) \in Messages
        OBVIOUS
    <2>1. Front(l) \in D /\ Len(Front(l)) = Len(l) - 1 /\ Len(l) \in Nat /\ Last(l) \in Messages
        BY FrontIs
    <2> QED
        BY <2>1
<1>b. \A x \in Messages : x.role # "system" => Bounded(x) \in Messages /\ Speakable(Bounded(x))
    BY PackingAssumption DEF Messages, Bounded, Speakable
<1>c. \A v \in V, x \in Messages : Speakable(x) => Append(v, x) \in V
    <2> TAKE v \in V, x \in Messages
    <2> SUFFICES ASSUME Speakable(x)
                 PROVE  Append(v, x) \in V
        OBVIOUS
    <2>1. /\ Append(v, x) \in D /\ Len(Append(v, x)) = Len(v) + 1
          /\ \A i \in 1..Len(v) : Append(v, x)[i] = v[i]
          /\ Append(v, x)[Len(v) + 1] = x
        BY AppendProperties
    <2>2. \A i \in 1..Len(v) + 1 : Speakable(Append(v, x)[i])
        <3> TAKE i \in 1..Len(v) + 1
        <3>1. i \in 1..Len(v) \/ i = Len(v) + 1
            OBVIOUS
        <3>2. CASE i \in 1..Len(v)
            <4>1. Append(v, x)[i] = v[i] /\ Speakable(v[i])
                BY <2>1, <3>2
            <4> QED
                BY <4>1, Zenon
        <3>3. CASE i = Len(v) + 1
            BY <2>1, <3>3, Zenon
        <3> QED
            BY <3>1, <3>2, <3>3
    <2> QED
        BY <2>1, <2>2
<1>e. <<>> \in D /\ Len(<<>>) = 0
    BY EmptySeq
<1>a. <<>> \in V /\ V # {} /\ stop \subseteq D
    <2>1. \A i \in 1..Len(<<>>) : FALSE
        BY <1>e
    <2>2. <<>> \in V
        BY <1>e, <2>1, Zenon
    <2> QED
        BY <1>e, <2>2
<1>1. m \in [D -> Nat] /\ next \in [D -> D]
    BY <1>0
<1>2. out \in [D -> V]
    BY <1>a
<1> HIDE DEF V
<1>d. \A l \in D, v \in V : l # <<>> /\ Last(l).role # "system" => Append(v, Bounded(Last(l))) \in V
    BY <1>0, <1>b, <1>c
<1>3. comb \in [D -> [V -> V]]
    BY <1>d
<1>4. \A l \in D \ stop : m[next[l]] < m[l]
    BY <1>0
<1>5. IsRecursion(D, V, m, stop, next, out, comb)
    BY <1>a, <1>1, <1>2, <1>3, <1>4 DEF IsRecursion
<1> HIDE DEF D, stop, m, next, out, comb
<1>6. PICK f \in [D -> V] : \A l \in D : f[l] = IF l \in stop THEN out[l] ELSE comb[l][f[next[l]]]
    BY <1>5, RecursionIsDefined
<1>7. ASSUME NEW l \in D
      PROVE  f[l] = ConversationBody(f, l)
    <2>1. CASE l = <<>>
        BY <1>6, <2>1 DEF stop, out, ConversationBody
    <2>2. CASE l # <<>>
        <3>1. f[l] = comb[l][f[next[l]]] /\ f[next[l]] \in V /\ next[l] = Front(l)
            BY <1>1, <1>6, <2>2 DEF stop, next
        <3> QED
            BY <2>2, <3>1 DEF comb, ConversationBody
    <2> QED
        BY <2>1, <2>2
<1>8. f = [l \in Seq(Messages) |-> ConversationBody(f, l)]
    BY <1>6, <1>7 DEF D
<1>9. Conversation = CHOOSE g : g = [l \in Seq(Messages) |-> ConversationBody(g, l)]
    BY DEF Conversation, ConversationBody
<1>10. Conversation = [l \in Seq(Messages) |-> ConversationBody(Conversation, l)]
    BY <1>8, <1>9
<1>11. \A l \in D : Conversation[l] = ConversationBody(Conversation, l)
    BY <1>10 DEF D
<1> DEFINE S == {l \in D : Conversation[l] \in V}
<1>12. ASSUME NEW l \in D, \A y \in D : m[y] < m[l] => y \in S
       PROVE  l \in S
    <2>1. CASE l = <<>>
        BY <1>a, <1>11, <2>1 DEF ConversationBody
    <2>2. CASE l # <<>>
        <3>1. Front(l) \in D /\ m[Front(l)] < m[l]
            BY <1>0, <2>2 DEF m
        <3>2. Conversation[Front(l)] \in V
            BY <1>12, <3>1
        <3> QED
            BY <1>d, <1>11, <2>2, <3>2 DEF ConversationBody
    <2> QED
        BY <2>1, <2>2
<1> HIDE DEF S
<1>13. D \subseteq S
    BY <1>1, <1>12, MeasureInduction
<1> QED
    BY <1>13 DEF S, D, V

-----------------------------------------------------------------------------
(* The parts of a conversation that may be sent, each by where it starts.  *)
Suffix(conv, i) == SubSeq(conv, i, Len(conv))

PartStarts(conv) == {1} \cup Users(conv)

LEMMA StartsTyped ==
    ASSUME NEW conv \in Seq(Messages)
    PROVE  /\ Len(conv) \in Nat
           /\ Users(conv) \subseteq 1..Len(conv)
           /\ \A i \in PartStarts(conv) : i \in Nat /\ 1 <= i /\ i <= Len(conv) + 1
<1>1. Len(conv) \in Nat
    BY EmptySeq
<1>2. Users(conv) \subseteq 1..Len(conv)
    BY DEF Users
<1> QED
    BY <1>1, <1>2 DEF PartStarts

LEMMA SuffixIs ==
    ASSUME NEW conv \in Seq(Messages), NEW i \in Nat, 1 <= i, i <= Len(conv) + 1
    PROVE  /\ Suffix(conv, i) \in Seq(Messages)
           /\ Len(Suffix(conv, i)) = Len(conv) - i + 1
           /\ \A k \in 1..Len(conv) - i + 1 : Suffix(conv, i)[k] = conv[i + k - 1]
<1>1. Len(conv) \in Nat
    BY EmptySeq
<1>2. \A k \in i..Len(conv) : conv[k] \in Messages
    BY <1>1, ElementOfSeq
<1>3. i \in Int /\ Len(conv) \in Int
    BY <1>1
<1>4. /\ Suffix(conv, i) \in Seq(Messages)
      /\ Len(Suffix(conv, i)) = IF i <= Len(conv) THEN Len(conv) - i + 1 ELSE 0
      /\ \A k \in 1..Len(conv) - i + 1 : Suffix(conv, i)[k] = conv[i + k - 1]
    BY <1>2, <1>3, SubSeqProperties DEF Suffix
<1>5. Len(Suffix(conv, i)) = Len(conv) - i + 1
    <2> DEFINE n == Len(conv)
               k == Len(Suffix(conv, i))
    <2>1. n \in Nat /\ i <= n + 1 /\ k = IF i <= n THEN n - i + 1 ELSE 0
        BY <1>1, <1>4
    <2> HIDE DEF n, k
    <2>2. k = n - i + 1
        BY <2>1
    <2> QED
        BY <2>2 DEF n, k
<1> QED
    BY <1>4, <1>5

LEMMA WholeIsSuffix ==
    ASSUME NEW conv \in Seq(Messages)
    PROVE  Suffix(conv, 1) = conv
    BY SubSeqFull DEF Suffix

LEMMA SuffixOfSuffix ==
    ASSUME NEW conv \in Seq(Messages), NEW i \in Nat, 1 <= i, i <= Len(conv) + 1,
           NEW j \in Nat, 1 <= j, j <= Len(conv) - i + 2
    PROVE  Suffix(Suffix(conv, i), j) = Suffix(conv, i + j - 1)
<1> DEFINE n == Len(conv)
           a == Suffix(conv, i)
           b == Suffix(a, j)
           c == Suffix(conv, i + j - 1)
<1>1. n \in Nat
    BY EmptySeq
<1>2. /\ a \in Seq(Messages) /\ Len(a) = n - i + 1
      /\ \A k \in 1..n - i + 1 : a[k] = conv[i + k - 1]
    BY SuffixIs
<1>3. j <= Len(a) + 1
    BY <1>1, <1>2
<1> HIDE DEF a
<1>4. /\ b \in Seq(Messages) /\ Len(b) = Len(a) - j + 1
      /\ \A k \in 1..Len(a) - j + 1 : b[k] = a[j + k - 1]
    BY <1>2, <1>3, SuffixIs
<1>5. i + j - 1 \in Nat /\ 1 <= i + j - 1 /\ i + j - 1 <= Len(conv) + 1
    BY <1>1
<1>6. /\ c \in Seq(Messages) /\ Len(c) = n - (i + j - 1) + 1
      /\ \A k \in 1..n - (i + j - 1) + 1 : c[k] = conv[(i + j - 1) + k - 1]
    BY ONLY <1>5, conv \in Seq(Messages), SuffixIs, SMTT(30)
<1> HIDE DEF n, b, c
<1>7. Len(b) = Len(c)
    BY <1>1, <1>2, <1>4, <1>6
<1>8. ASSUME NEW k \in 1..Len(b)
      PROVE  b[k] = c[k]
    <2>1. b[k] = a[j + k - 1] /\ j + k - 1 \in 1..n - i + 1
        BY <1>1, <1>2, <1>4
    <2>2. a[j + k - 1] = conv[i + (j + k - 1) - 1]
        BY <1>2, <2>1
    <2>3. c[k] = conv[(i + j - 1) + k - 1]
        BY <1>1, <1>2, <1>4, <1>6
    <2>4. i + (j + k - 1) - 1 = (i + j - 1) + k - 1
        <3>1. i \in Nat /\ j \in Nat /\ k \in Nat
            BY <1>1, <1>2, <1>4
        <3> QED
            BY ONLY <3>1
    <2> QED
        BY <2>1, <2>2, <2>3, <2>4
<1>a. \A s, t \in Seq(Messages) : Len(s) = Len(t) /\ (\A k \in 1..Len(s) : s[k] = t[k]) => s = t
    BY SeqEqual
<1>9. b = c
    BY ONLY <1>4, <1>6, <1>7, <1>8, <1>a
<1> QED
    BY <1>9 DEF a, b, c

(* The user's messages of a part are those of the whole from there on.     *)
LEMMA UsersOfSuffix ==
    ASSUME NEW conv \in Seq(Messages), NEW i \in Nat, 1 <= i, i <= Len(conv) + 1
    PROVE  /\ \A j \in Users(Suffix(conv, i)) : j \in Nat /\ 1 <= j /\ i + j - 1 \in Users(conv)
           /\ \A u \in Users(conv) : u >= i => u - i + 1 \in Users(Suffix(conv, i))
<1> DEFINE n == Len(conv)
           a == Suffix(conv, i)
<1>1. n \in Nat
    BY EmptySeq
<1>2. /\ Len(a) = n - i + 1
      /\ \A k \in 1..n - i + 1 : a[k] = conv[i + k - 1]
    BY SuffixIs
<1> HIDE DEF a
<1>3. ASSUME NEW j \in Users(a)
      PROVE  j \in Nat /\ 1 <= j /\ i + j - 1 \in Users(conv)
    <2>1. j \in 1..n - i + 1 /\ a[j].role = "user"
        BY <1>2 DEF Users
    <2>2. a[j] = conv[i + j - 1] /\ i + j - 1 \in 1..n
        BY <1>1, <1>2, <2>1
    <2> QED
        BY <1>1, <2>1, <2>2 DEF Users
<1>4. ASSUME NEW u \in Users(conv), u >= i
      PROVE  u - i + 1 \in Users(a)
    <2>1. u \in 1..n /\ conv[u].role = "user"
        BY DEF Users
    <2>2. u - i + 1 \in 1..n - i + 1 /\ i + (u - i + 1) - 1 = u
        BY <1>1, <1>4, <2>1
    <2>3. a[u - i + 1] = conv[u]
        BY <1>2, <2>2
    <2> QED
        BY <1>2, <2>1, <2>2, <2>3 DEF Users
<1> QED
    BY <1>3, <1>4 DEF a

(* The floor is the latest exchange.                                       *)
LEMMA FloorIs ==
    ASSUME NEW conv \in Seq(Messages)
    PROVE  Len(conv) > KeepFloor(conv) <=> \E j \in Users(conv) : j > 1
<1> DEFINE n == Len(conv)
           U == Users(conv)
<1>1. n \in Nat /\ U \subseteq 1..n
    BY StartsTyped
<1> HIDE DEF U
<1>2. CASE U = {}
    BY <1>1, <1>2 DEF KeepFloor, U
<1>3. CASE U # {}
    <2> DEFINE T == {n - u : u \in U}
    <2>a. \A u \in U : n - u \in Nat
        <3> TAKE u \in U
        <3>1. n \in Nat /\ u \in 1..n
            BY <1>1
        <3> QED
            BY ONLY <3>1
    <2>1. T \in SUBSET Nat /\ T # {}
        BY <1>3, <2>a
    <2>2. PICK d \in T : \A t \in T : d <= t
        BY <2>1, LeastNatural, Zenon
    <2>3. PICK x \in U : d = n - x
        BY <2>2
    <2>4. \A y \in U : x >= y
        <3> TAKE y \in U
        <3>1. n - y \in T
            OBVIOUS
        <3>2. n - x <= n - y
            BY <2>2, <2>3, <3>1
        <3> QED
            BY <1>1, <3>2
    <2> DEFINE M == Max(U)
    <2>5. M \in U /\ \A y \in U : M >= y
        BY <2>4 DEF Max
    <2>6. KeepFloor(conv) = n - M + 1
        BY <1>3 DEF KeepFloor, U
    <2> HIDE DEF M
    <2>7. n > KeepFloor(conv) <=> M > 1
        BY <1>1, <2>5, <2>6
    <2>8. M > 1 <=> \E j \in U : j > 1
        BY <1>1, <2>5
    <2> QED
        BY <2>7, <2>8 DEF U
<1> QED
    BY <1>2, <1>3

LEMMA FloorTyped ==
    ASSUME NEW conv \in Seq(Messages)
    PROVE  KeepFloor(conv) \in Int
<1> DEFINE n == Len(conv)
           U == Users(conv)
<1>1. n \in Nat /\ U \subseteq 1..n
    BY StartsTyped
<1>2. CASE U = {}
    BY <1>1, <1>2 DEF KeepFloor
<1>3. CASE U # {}
    <2> HIDE DEF U
    <2> DEFINE T == {n - u : u \in U}
    <2>a. \A u \in U : n - u \in Nat
        <3> TAKE u \in U
        <3>1. n \in Nat /\ u \in 1..n
            BY <1>1
        <3> QED
            BY ONLY <3>1
    <2>1. T \in SUBSET Nat /\ T # {}
        BY <1>3, <2>a
    <2>2. PICK d \in T : \A t \in T : d <= t
        BY <2>1, LeastNatural, Zenon
    <2>3. PICK x \in U : d = n - x
        BY <2>2
    <2>4. \A y \in U : x >= y
        <3> TAKE y \in U
        <3>1. n - x <= n - y
            BY <2>2, <2>3
        <3> QED
            BY <1>1, <3>1
    <2> DEFINE M == Max(U)
    <2>5. M \in U
        BY <2>4 DEF Max
    <2>6. KeepFloor(conv) = n - M + 1
        BY <1>3 DEF KeepFloor, U
    <2> HIDE DEF M
    <2> QED
        BY <1>1, <2>5, <2>6
<1> QED
    BY <1>2, <1>3

(* What is dropped is what comes before the next user message.             *)
LEMMA DropIs ==
    ASSUME NEW conv \in Seq(Messages), \E j \in Users(conv) : j > 1
    PROVE  \E u \in Users(conv) : /\ u > 1 /\ DropOldest(conv) = Suffix(conv, u)
                                  /\ \A j \in Users(conv) : j > 1 => u <= j
<1> DEFINE U == Users(conv)
           later == U \ {1}
<1>1. Len(conv) \in Nat /\ U \subseteq 1..Len(conv)
    BY StartsTyped
<1> HIDE DEF U
<1>2. \A j \in U : j > 1 <=> j # 1
    <2> TAKE j \in U
    <2>1. j \in Nat /\ 1 <= j
        BY <1>1
    <2> QED
        BY <2>1
<1>3. later \in SUBSET Nat /\ later # {}
    BY <1>1, <1>2 DEF U
<1>4. PICK x \in later : \A y \in later : x <= y
    BY <1>3, LeastNatural, Zenon
<1> DEFINE u == Min(later)
<1>5. u \in later /\ \A y \in later : u <= y
    BY <1>4 DEF Min
<1>6. DropOldest(conv) = Suffix(conv, u)
    BY <1>3 DEF DropOldest, Suffix, U
<1> HIDE DEF u
<1> QED
    BY <1>2, <1>5, <1>6 DEF U

-----------------------------------------------------------------------------
(* What build has found so far: every part of the conversation that starts *)
(* earlier costs too much, and a block goes only when nothing but the      *)
(* latest exchange is left and the block before did not fit.               *)
IsLatest(conv, s) == \A t \in PartStarts(conv) : t <= s

Found(conv, s) ==
    /\ packed = Suffix(conv, s)
    /\ \A t \in PartStarts(conv) : t < s => TotalCost(Suffix(conv, t), offered) > budget
    /\ \/ blocks = offered
       \/ /\ IsLatest(conv, s) /\ Len(blocks) < Len(offered)
          /\ PolicyCost + BlockCost * (Len(blocks) + 1) + Cost[packed] > budget
    /\ packing = "sent" => Fits
    /\ packing = "overflow" => IsLatest(conv, s) /\ blocks = <<>> /\ ~Fits

PackInv ==
    /\ PackTypeOK
    /\ packing \in {"dropping", "sent", "overflow"} =>
          \E s \in PartStarts(Conversation[history]) : Found(Conversation[history], s)

LEMMA TotalCostIs ==
    ASSUME NEW conv \in Seq(Messages), NEW kept \in Seq({"instructions", "workspace-stub"})
    PROVE  TotalCost(conv, kept) = 1 + Len(kept) + Cost[conv] /\ Cost[conv] \in Nat /\ Len(kept) \in Nat
<1>1. Cost[conv] \in Nat /\ Len(kept) \in Nat
    BY CostIs, EmptySeq
<1> QED
    BY <1>1 DEF TotalCost, PolicyCost, BlockCost

Kinds == {"instructions", "workspace-stub"}

LEMMA PrefixOfAll ==
    ASSUME NEW o \in Seq(Kinds)
    PROVE  IsPrefix(o, o) /\ IsPrefix(<<>>, o)
<1>1. Len(o) \in Nat /\ Len(<<>>) = 0
    BY EmptySeq
<1>2. SubSeq(<<>>, 1, 0) = SubSeq(o, 1, 0)
    OBVIOUS
<1> QED
    BY <1>1, <1>2 DEF IsPrefix

LEMMA PrefixWithoutLast ==
    ASSUME NEW o \in Seq(Kinds), NEW b \in Seq(Kinds), IsPrefix(b, o), b # <<>>
    PROVE  IsPrefix(Front(b), o)
<1> DEFINE c == Front(b)
           n == Len(b)
<1>1. n \in Nat \ {0} /\ Len(o) \in Nat /\ n <= Len(o)
    BY EmptySeq DEF IsPrefix
<1>2. c \in Seq(Kinds) /\ Len(c) = n - 1 /\ \A i \in 1..n - 1 : c[i] = b[i]
    BY FrontIs
<1>3. ASSUME NEW i \in 1..n
      PROVE  b[i] = o[i]
    <2>1. SubSeq(b, 1, n) = b
        BY SubSeqFull
    <2>2. SubSeq(b, 1, n) = SubSeq(o, 1, n)
        BY DEF IsPrefix
    <2>3. \A k \in 1..n : o[k] \in Kinds
        BY <1>1, ElementOfSeq
    <2>4. 1 \in Int /\ n \in Int
        BY <1>1
    <2>5. \A k \in 1..n - 1 + 1 : SubSeq(o, 1, n)[k] = o[1 + k - 1]
        BY <2>3, <2>4, SubSeqProperties
    <2>6. SubSeq(o, 1, n)[i] = o[i]
        BY <1>1, <2>5
    <2> QED
        BY <2>1, <2>2, <2>6
<1>4. SubSeq(c, 1, n - 1) = SubSeq(o, 1, n - 1)
    <2>1. SubSeq(c, 1, n - 1) = c
        BY <1>2, SubSeqFull
    <2>2. \A k \in 1..n - 1 : o[k] \in Kinds
        BY <1>1, ElementOfSeq
    <2>3. 1 \in Int /\ n - 1 \in Int
        BY <1>1
    <2> DEFINE d == SubSeq(o, 1, n - 1)
    <2>4. /\ d \in Seq(Kinds) /\ Len(d) = IF 1 <= n - 1 THEN n - 1 - 1 + 1 ELSE 0
          /\ \A k \in 1..n - 1 - 1 + 1 : d[k] = o[1 + k - 1]
        BY <2>2, <2>3, SubSeqProperties
    <2> HIDE DEF d, n, c
    <2>5. Len(c) = Len(d)
        BY <1>1, <1>2, <2>4
    <2>6. ASSUME NEW k \in 1..Len(c)
          PROVE  c[k] = d[k]
        <3>1. k \in 1..n - 1 /\ k \in 1..n /\ k \in 1..n - 1 - 1 + 1 /\ 1 + k - 1 = k
            BY <1>1, <1>2
        <3>2. c[k] = b[k] /\ b[k] = o[k] /\ d[k] = o[k]
            BY <1>2, <1>3, <2>4, <3>1
        <3> QED
            BY <3>2
    <2>7. c = d
        BY <1>2, <2>4, <2>5, <2>6, SeqEqual
    <2> QED
        BY <2>1, <2>7 DEF d
<1> QED
    BY <1>1, <1>2, <1>4 DEF IsPrefix

(* A part of what is spoken is spoken.                                     *)
LEMMA SuffixSpoken ==
    ASSUME NEW h \in Seq(Messages), NEW s \in PartStarts(Conversation[h])
    PROVE  LET part == Suffix(Conversation[h], s)
           IN  /\ part \in Seq(Messages)
               /\ \A x \in ToSet(part) : x.role # "system" /\ (x.role = "tool" => x.cost <= MaxResult + 1)
<1> DEFINE all == Conversation[h]
           part == Suffix(all, s)
           n == Len(all)
<1>1. all \in Seq(Messages) /\ \A i \in 1..n : Speakable(all[i])
    BY ConversationIs
<1> HIDE DEF all
<1>2. n \in Nat /\ s \in Nat /\ 1 <= s /\ s <= n + 1
    BY <1>1, StartsTyped DEF all
<1>3. /\ part \in Seq(Messages) /\ Len(part) = n - s + 1
      /\ \A k \in 1..n - s + 1 : part[k] = all[s + k - 1]
    BY <1>1, <1>2, SuffixIs
<1> HIDE DEF part
<1>4. \A k \in 1..n - s + 1 : s + k - 1 \in 1..n
    BY <1>2
<1>5. ASSUME NEW x \in ToSet(part)
      PROVE  Speakable(x)
    <2>1. PICK k \in DOMAIN part : x = part[k]
        BY DEF ToSet
    <2>2. k \in 1..n - s + 1
        BY <1>3, <2>1, LenProperties
    <2> QED
        BY <1>1, <1>3, <1>4, <2>1, <2>2
<1> QED
    BY <1>3, <1>5 DEF part, all, Speakable

LEMMA PackInitially == PackInit => PackInv
<1> SUFFICES ASSUME PackInit
             PROVE  PackInv
    OBVIOUS
<1> USE DEF PackInit
<1>1. PICK h \in SeqOf([role : Roles \ {"system"}, cost : Costs], MaxLength) :
          history \in {h, <<[role |-> "system", cost |-> 1]>> \o h}
    OBVIOUS
<1>2. h \in Seq(Messages)
    <2>1. PICK n \in 0..MaxLength : h \in [1..n -> [role : Roles \ {"system"}, cost : Costs]]
        BY DEF SeqOf
    <2>2. [role : Roles \ {"system"}, cost : Costs] \subseteq Messages
        BY PackingAssumption DEF Messages
    <2>3. n \in Nat /\ \A i \in 1..n : h[i] \in Messages
        BY PackingAssumption, <2>1, <2>2
    <2>4. h = [i \in 1..n |-> h[i]]
        BY <2>1
    <2> QED
        BY <2>3, <2>4, IsASeq
<1>3. <<[role |-> "system", cost |-> 1]>> \in Seq(Messages)
    BY DEF Messages, Roles
<1>4. history \in Seq(Messages)
    BY <1>1, <1>2, <1>3, ConcatProperties
<1>5. offered \in Seq(Kinds) /\ <<>> \in Seq(Kinds) /\ packed \in Seq(Messages)
    <2>1. /\ <<"instructions">> \in Seq(Kinds) /\ <<"workspace-stub">> \in Seq(Kinds)
          /\ <<"instructions", "workspace-stub">> \in Seq(Kinds)
        BY DEF Kinds
    <2>2. <<>> \in Seq(Kinds) /\ <<>> \in Seq(Messages)
        BY EmptySeq
    <2> QED
        BY <2>1, <2>2
<1>6. IsPrefix(blocks, offered)
    BY <1>5, PrefixOfAll
<1>7. ToSet(packed) = {}
    BY DEF ToSet
<1>8. PackTypeOK
    BY <1>4, <1>5, <1>6, <1>7 DEF PackTypeOK, Kinds
<1> QED
    BY <1>8 DEF PackInv

LEMMA PrepareStep ==
    ASSUME PackInv, Prepare
    PROVE  PackInv'
<1> USE DEF Prepare
<1>1. CASE PolicyCost >= budget
    <2>1. PackTypeOK'
        BY <1>1 DEF PackInv, PackTypeOK
    <2> QED
        BY <1>1, <2>1 DEF PackInv
<1>2. CASE ~(PolicyCost >= budget)
    <2> DEFINE all == Conversation[history]
    <2>1. history \in Seq(Messages) /\ offered \in Seq(Kinds) /\ budget \in Budgets
        BY DEF PackInv, PackTypeOK, Kinds
    <2>2. all \in Seq(Messages) /\ 1 \in PartStarts(all)
        BY <2>1, ConversationIs DEF PartStarts
    <2>3. packed' = Suffix(all, 1) /\ blocks' = offered /\ packing' = "dropping"
        BY <1>2, <2>2, WholeIsSuffix
    <2>4. \A t \in PartStarts(all) : ~(t < 1)
        <3> TAKE t \in PartStarts(all)
        <3>1. t \in Nat /\ 1 <= t
            BY <2>2, StartsTyped
        <3> QED
            BY ONLY <3>1
    <2>5. IsPrefix(offered, offered)
        BY <2>1, PrefixOfAll
    <2>6. /\ packed' \in Seq(Messages)
          /\ \A x \in ToSet(packed') : x.role # "system" /\ (x.role = "tool" => x.cost <= MaxResult + 1)
        BY <2>1, <2>2, <2>3, SuffixSpoken
    <2>7. PackTypeOK'
        BY <2>1, <2>3, <2>5, <2>6 DEF PackTypeOK, Kinds
    <2>8. Found(all, 1)'
        BY <2>3, <2>4 DEF Found
    <2> QED
        BY <2>2, <2>7, <2>8 DEF PackInv
<1> QED
    BY <1>1, <1>2

(* There is a later start if and only if there is more than the floor.     *)
LEMMA LaterStart ==
    ASSUME NEW all \in Seq(Messages), NEW s \in PartStarts(all)
    PROVE  /\ Suffix(all, s) \in Seq(Messages)
           /\ IsLatest(all, s) <=> Len(Suffix(all, s)) <= KeepFloor(Suffix(all, s))
           /\ ~IsLatest(all, s) =>
                 \E t \in PartStarts(all) :
                    /\ t > s /\ DropOldest(Suffix(all, s)) = Suffix(all, t)
                    /\ \A r \in PartStarts(all) : r < t => r <= s
<1> DEFINE n == Len(all)
           part == Suffix(all, s)
           U == Users(part)
<1>1. /\ n \in Nat /\ Users(all) \subseteq 1..n
      /\ \A i \in PartStarts(all) : i \in Nat /\ 1 <= i /\ i <= n + 1
    BY StartsTyped
<1>2. s \in Nat /\ 1 <= s /\ s <= n + 1
    BY <1>1
<1>3. part \in Seq(Messages) /\ Len(part) = n - s + 1
    BY <1>2, SuffixIs
<1>4. /\ \A j \in U : j \in Nat /\ 1 <= j /\ s + j - 1 \in Users(all)
      /\ \A u \in Users(all) : u >= s => u - s + 1 \in U
    BY <1>2, UsersOfSuffix
<1>5. Len(part) > KeepFloor(part) <=> \E j \in U : j > 1
    BY <1>3, FloorIs
<1>6. Len(part) \in Nat /\ KeepFloor(part) \in Int
    BY <1>3, FloorTyped, EmptySeq
<1> HIDE DEF part, U
<1>7. (\E j \in U : j > 1) <=> ~IsLatest(all, s)
    <2>1. ASSUME NEW j \in U, j > 1
          PROVE  ~IsLatest(all, s)
        <3>1. s + j - 1 \in PartStarts(all) /\ s + j - 1 > s
            BY <1>2, <1>4, <2>1 DEF PartStarts
        <3>2. ~(s + j - 1 <= s)
            BY <1>2, <1>4, <3>1
        <3> QED
            BY <3>1, <3>2 DEF IsLatest
    <2>2. ASSUME NEW t \in PartStarts(all), ~(t <= s)
          PROVE  \E j \in U : j > 1
        <3>1. t \in Nat /\ t > s /\ t # 1
            BY <1>1, <1>2, <2>2
        <3>2. t \in Users(all) /\ t >= s
            BY <1>2, <3>1 DEF PartStarts
        <3>3. t - s + 1 \in U /\ t - s + 1 > 1
            BY <1>2, <1>4, <3>1, <3>2
        <3> QED
            BY <3>3
    <2> QED
        BY <2>1, <2>2 DEF IsLatest
<1>8. IsLatest(all, s) <=> Len(part) <= KeepFloor(part)
    BY <1>5, <1>6, <1>7
<1>9. ASSUME ~IsLatest(all, s)
      PROVE  \E t \in PartStarts(all) :
                /\ t > s /\ DropOldest(part) = Suffix(all, t)
                /\ \A r \in PartStarts(all) : r < t => r <= s
    <2>1. PICK u \in Users(part) :
             /\ u > 1 /\ DropOldest(part) = Suffix(part, u)
             /\ \A j \in Users(part) : j > 1 => u <= j
        BY <1>3, <1>7, <1>9, DropIs DEF U
    <2>2. u \in Nat /\ s + u - 1 \in Users(all) /\ u > 1
        BY <1>4, <2>1 DEF U
    <2> DEFINE t == s + u - 1
    <2>3. t \in Nat /\ t > s /\ t <= n /\ t \in PartStarts(all)
        BY <1>1, <1>2, <2>2 DEF PartStarts
    <2>4. 1 <= u /\ u <= Len(all) - s + 2
        BY <1>1, <1>2, <2>2, <2>3
    <2>5. Suffix(part, u) = Suffix(all, t)
        BY <1>2, <2>2, <2>4, SuffixOfSuffix DEF part
    <2>6. ASSUME NEW r \in PartStarts(all), r < t, ~(r <= s)
          PROVE  FALSE
        <3>1. r \in Nat /\ r > s /\ r # 1
            BY <1>1, <1>2, <2>6
        <3>2. r \in Users(all) /\ r >= s
            BY <1>2, <3>1 DEF PartStarts
        <3>3. r - s + 1 \in Users(part) /\ r - s + 1 > 1
            BY <1>2, <1>4, <3>1, <3>2 DEF U
        <3>4. u <= r - s + 1
            BY <2>1, <3>3
        <3> QED
            BY <1>2, <2>2, <2>6, <3>1, <3>4
    <2> QED
        BY <2>1, <2>3, <2>5, <2>6
<1> QED
    BY <1>3, <1>8, <1>9 DEF part

LEMMA DropExchangeStep ==
    ASSUME PackInv, DropExchange
    PROVE  PackInv'
<1> USE DEF DropExchange
<1> DEFINE all == Conversation[history]
<1>1. /\ history \in Seq(Messages) /\ {offered, blocks} \subseteq Seq(Kinds) /\ budget \in Budgets
      /\ packed \in Seq(Messages) /\ IsPrefix(blocks, offered)
    BY DEF PackInv, PackTypeOK, Kinds
<1>2. all \in Seq(Messages)
    BY <1>1, ConversationIs
<1>3. PICK s \in PartStarts(all) : Found(all, s)
    BY DEF PackInv
<1>4. packed = Suffix(all, s)
    BY <1>3 DEF Found
<1> HIDE DEF all
<1>5. /\ Suffix(all, s) \in Seq(Messages) /\ Len(Suffix(all, s)) \in Nat
      /\ IsLatest(all, s) <=> Len(Suffix(all, s)) <= KeepFloor(Suffix(all, s))
    BY <1>2, LaterStart, EmptySeq
<1>6. ~IsLatest(all, s)
    <2>1. Len(packed) > KeepFloor(packed) /\ KeepFloor(packed) \in Int /\ Len(packed) \in Nat
        BY <1>1, FloorTyped, EmptySeq
    <2> QED
        BY <1>4, <1>5, <2>1
<1>7. PICK t \in PartStarts(all) :
         /\ t > s /\ DropOldest(Suffix(all, s)) = Suffix(all, t)
         /\ \A r \in PartStarts(all) : r < t => r <= s
    BY <1>2, <1>6, LaterStart
<1>8. packed' = Suffix(all, t)
    BY <1>4, <1>7
<1>9. blocks = offered
    BY <1>3, <1>6 DEF Found
<1>10. TotalCost(Suffix(all, s), offered) > budget
    <2>1. /\ TotalCost(packed, offered) = 1 + Len(offered) + Cost[packed]
          /\ Cost[packed] \in Nat /\ Len(offered) \in Nat
        BY <1>1, TotalCostIs DEF Kinds
    <2>2. ~(TotalCost(packed, offered) <= budget)
        BY <1>9 DEF Fits
    <2> QED
        BY <1>1, <1>4, <2>1, <2>2, PackingAssumption
<1>11. \A r \in PartStarts(all) : r < t => TotalCost(Suffix(all, r), offered) > budget
    <2> SUFFICES ASSUME NEW r \in PartStarts(all), r < t
                 PROVE  TotalCost(Suffix(all, r), offered) > budget
        OBVIOUS
    <2>1. r \in Nat /\ s \in Nat /\ r <= s
        BY <1>2, <1>7, StartsTyped
    <2>2. CASE r = s
        BY <1>10, <2>2
    <2>3. CASE r < s
        BY <1>3, <2>3 DEF Found
    <2> QED
        BY <2>1, <2>2, <2>3
<1>12. /\ packed' \in Seq(Messages)
       /\ \A x \in ToSet(packed') : x.role # "system" /\ (x.role = "tool" => x.cost <= MaxResult + 1)
    BY <1>1, <1>8, SuffixSpoken DEF all
<1>13. PackTypeOK'
    BY <1>1, <1>12 DEF PackTypeOK, Kinds, PackInv
<1>14. Found(all, t)'
    BY <1>8, <1>9, <1>11 DEF Found, all
<1> QED
    BY <1>13, <1>14 DEF PackInv, all

LEMMA DropBlockStep ==
    ASSUME PackInv, DropBlock
    PROVE  PackInv'
<1> USE DEF DropBlock
<1> DEFINE all == Conversation[history]
           len == Len(blocks)
           cut == Front(blocks)
<1>1. /\ history \in Seq(Messages) /\ offered \in Seq(Kinds) /\ blocks \in Seq(Kinds)
      /\ budget \in Budgets /\ packed \in Seq(Messages) /\ IsPrefix(blocks, offered)
    BY DEF PackInv, PackTypeOK, Kinds
<1>2. all \in Seq(Messages)
    BY <1>1, ConversationIs
<1>3. PICK s \in PartStarts(all) : Found(all, s)
    BY DEF PackInv
<1>4. packed = Suffix(all, s)
    BY <1>3 DEF Found
<1> HIDE DEF all
<1>5. /\ IsLatest(all, s) <=> Len(Suffix(all, s)) <= KeepFloor(Suffix(all, s))
    BY <1>2, LaterStart
<1>6. IsLatest(all, s)
    BY <1>4, <1>5
<1>7. /\ cut \in Seq(Kinds) /\ Len(cut) = len - 1 /\ len \in Nat \ {0}
    BY <1>1, FrontIs
<1>8. IsPrefix(cut, offered)
    BY <1>1, PrefixWithoutLast
<1>9. len <= Len(offered) /\ Len(offered) \in Nat
    BY <1>1, EmptySeq DEF IsPrefix
<1>10. /\ TotalCost(packed, blocks) = 1 + len + Cost[packed] /\ Cost[packed] \in Nat
    BY <1>1, TotalCostIs DEF Kinds
<1>11. ~(TotalCost(packed, blocks) <= budget) /\ budget \in Int
    BY <1>1, PackingAssumption DEF Fits
<1> HIDE DEF len, cut
<1>12. Len(cut) < Len(offered) /\ PolicyCost + BlockCost * (Len(cut) + 1) + Cost[packed] > budget
    BY <1>7, <1>9, <1>10, <1>11 DEF PolicyCost, BlockCost
<1>13. PackTypeOK'
    BY <1>1, <1>7, <1>8 DEF PackTypeOK, Kinds, PackInv, cut
<1>14. Found(all, s)'
    BY <1>3, <1>6, <1>12 DEF Found, all, cut, IsLatest
<1> QED
    BY <1>13, <1>14 DEF PackInv, all

LEMMA OverflowStep ==
    ASSUME PackInv, Overflow
    PROVE  PackInv'
<1> USE DEF Overflow
<1> DEFINE all == Conversation[history]
<1>1. history \in Seq(Messages)
    BY DEF PackInv, PackTypeOK
<1>2. all \in Seq(Messages)
    BY <1>1, ConversationIs
<1>3. PICK s \in PartStarts(all) : Found(all, s)
    BY DEF PackInv
<1>4. packed = Suffix(all, s)
    BY <1>3 DEF Found
<1> HIDE DEF all
<1>5. IsLatest(all, s)
    BY <1>2, <1>4, LaterStart
<1>6. PackTypeOK'
    BY DEF PackTypeOK, PackInv
<1>7. Found(all, s)'
    BY <1>3, <1>5 DEF Found, all, IsLatest, Fits
<1> QED
    BY <1>6, <1>7 DEF PackInv, all

LEMMA PackStepSent ==
    ASSUME PackInv, Pack
    PROVE  PackInv'
<1> USE DEF Pack
<1>1. PICK s \in PartStarts(Conversation[history]) : Found(Conversation[history], s)
    BY DEF PackInv
<1>2. PackTypeOK'
    BY DEF PackTypeOK, PackInv
<1>3. Found(Conversation[history], s)'
    BY <1>1 DEF Found, Fits
<1> QED
    BY <1>2, <1>3 DEF PackInv

LEMMA PackStep == PackInv /\ [PackNext]_packVars => PackInv'
<1> SUFFICES ASSUME PackInv, [PackNext]_packVars
             PROVE  PackInv'
    OBVIOUS
<1>1. CASE Prepare
    BY <1>1, PrepareStep
<1>2. CASE DropExchange
    BY <1>2, DropExchangeStep
<1>3. CASE DropBlock
    BY <1>3, DropBlockStep
<1>4. CASE Overflow
    BY <1>4, OverflowStep
<1>5. CASE Pack
    BY <1>5, PackStepSent
<1>6. CASE UNCHANGED packVars
    <2>1. PackTypeOK'
        BY <1>6 DEF PackTypeOK, PackInv, packVars
    <2>2. ASSUME NEW s \in PartStarts(Conversation[history]), Found(Conversation[history], s)
          PROVE  Found(Conversation[history], s)'
        BY <1>6, <2>2 DEF Found, Fits, packVars
    <2> QED
        BY <1>6, <2>1, <2>2 DEF PackInv, packVars
<1> QED
    BY <1>1, <1>2, <1>3, <1>4, <1>5, <1>6 DEF PackNext

LEMMA PackInvariant == PackSpec => []PackInv
<1> QED
    BY PackInitially, PackStep, PTL DEF PackSpec

(* Every state of a packing is of the types of Packing, for conversations  *)
(* and budgets of any size: nothing of the system's and no tool result     *)
(* beyond its limit is left in what build packs (agent/context.py).        *)
THEOREM PackTypeCorrect == PackSpec => []PackTypeOK
<1>1. PackInv => PackTypeOK
    BY DEF PackInv
<1> QED
    BY <1>1, PackInvariant, PTL

-----------------------------------------------------------------------------
(* The parts, each by its start; where it starts gives its length.         *)
LEMMA AdmissibleIs ==
    ASSUME NEW conv \in Seq(Messages)
    PROVE  /\ Admissible(conv) = {Suffix(conv, i) : i \in PartStarts(conv)}
           /\ \A i \in PartStarts(conv) : Len(Suffix(conv, i)) = Len(conv) - i + 1
<1>1. Suffix(conv, 1) = conv
    BY WholeIsSuffix
<1>2. Admissible(conv) = {Suffix(conv, i) : i \in PartStarts(conv)}
    BY <1>1 DEF Admissible, PartStarts, Suffix
<1>3. \A i \in PartStarts(conv) : Len(Suffix(conv, i)) = Len(conv) - i + 1
    BY StartsTyped, SuffixIs
<1> QED
    BY <1>2, <1>3

LEMMA ShortestIs ==
    ASSUME NEW conv \in Seq(Messages), NEW s \in PartStarts(conv), IsLatest(conv, s)
    PROVE  Shortest(Admissible(conv)) = Suffix(conv, s)
<1> DEFINE A == Admissible(conv)
           x == Shortest(A)
<1>1. /\ A = {Suffix(conv, i) : i \in PartStarts(conv)}
      /\ \A i \in PartStarts(conv) : Len(Suffix(conv, i)) = Len(conv) - i + 1
    BY AdmissibleIs
<1>2. Len(conv) \in Nat /\ \A i \in PartStarts(conv) : i \in Nat
    BY StartsTyped
<1>3. \A t \in A : Len(Suffix(conv, s)) <= Len(t)
    <2> TAKE t \in A
    <2>1. PICK i \in PartStarts(conv) : t = Suffix(conv, i)
        BY <1>1
    <2>2. i <= s /\ i \in Nat /\ s \in Nat
        BY <1>2 DEF IsLatest
    <2>3. Len(t) = Len(conv) - i + 1 /\ Len(Suffix(conv, s)) = Len(conv) - s + 1
        BY <1>1, <2>1
    <2> QED
        BY <1>2, <2>2, <2>3
<1>4. Suffix(conv, s) \in A
    BY <1>1
<1> HIDE DEF A
<1>5. x \in A /\ \A t \in A : Len(x) <= Len(t)
    BY <1>3, <1>4 DEF Shortest
<1> HIDE DEF x
<1>6. PICK i \in PartStarts(conv) : x = Suffix(conv, i)
    BY <1>1, <1>5
<1>7. Len(conv) - i + 1 <= Len(conv) - s + 1
    BY <1>1, <1>4, <1>5, <1>6
<1>8. i = s
    BY <1>2, <1>7 DEF IsLatest
<1> QED
    BY <1>6, <1>8 DEF x, A

LEMMA LongestIs ==
    ASSUME NEW conv \in Seq(Messages), NEW good, good \subseteq Admissible(conv),
           NEW s \in PartStarts(conv), Suffix(conv, s) \in good,
           \A i \in PartStarts(conv) : Suffix(conv, i) \in good => s <= i
    PROVE  Longest(good) = Suffix(conv, s)
<1> DEFINE x == Longest(good)
<1>1. /\ Admissible(conv) = {Suffix(conv, i) : i \in PartStarts(conv)}
      /\ \A i \in PartStarts(conv) : Len(Suffix(conv, i)) = Len(conv) - i + 1
    BY AdmissibleIs
<1>2. Len(conv) \in Nat /\ \A i \in PartStarts(conv) : i \in Nat
    BY StartsTyped
<1>3. \A t \in good : Len(t) <= Len(Suffix(conv, s))
    <2> TAKE t \in good
    <2>1. PICK i \in PartStarts(conv) : t = Suffix(conv, i)
        BY <1>1
    <2>2. s <= i /\ i \in Nat /\ s \in Nat
        BY <1>2, <2>1
    <2>3. Len(t) = Len(conv) - i + 1 /\ Len(Suffix(conv, s)) = Len(conv) - s + 1
        BY <1>1, <2>1
    <2> QED
        BY <1>2, <2>2, <2>3
<1>5. x \in good /\ \A t \in good : Len(t) <= Len(x)
    BY <1>3 DEF Longest
<1> HIDE DEF x
<1>6. PICK i \in PartStarts(conv) : x = Suffix(conv, i)
    BY <1>1, <1>5
<1>7. Len(conv) - s + 1 <= Len(conv) - i + 1
    BY <1>1, <1>5, <1>6
<1>8. s <= i
    BY <1>5, <1>6
<1>9. i = s
    BY <1>2, <1>7, <1>8
<1> QED
    BY <1>6, <1>9 DEF x

LEMMA MostIsSent ==
    ASSUME PackInv
    PROVE  SendsTheMostThatFits
<1> SUFFICES ASSUME packing = "sent"
             PROVE  LET all  == Conversation[history]
                        good == {p \in Admissible(all) : TotalCost(p, offered) <= budget}
                        last == Shortest(Admissible(all))
                    IN  /\ TotalCost(packed, blocks) <= budget
                        /\ IF good # {} THEN packed = Longest(good) /\ blocks = offered
                           ELSE /\ packed = last
                                /\ \A n \in (Len(blocks) + 1)..Len(offered) :
                                      TotalCost(last, SubSeq(offered, 1, n)) > budget
    BY DEF SendsTheMostThatFits
<1> DEFINE all == Conversation[history]
           good == {p \in Admissible(all) : TotalCost(p, offered) <= budget}
           last == Shortest(Admissible(all))
<1>1. /\ history \in Seq(Messages) /\ offered \in Seq(Kinds) /\ blocks \in Seq(Kinds)
      /\ budget \in Int /\ packed \in Seq(Messages) /\ IsPrefix(blocks, offered)
    BY PackingAssumption DEF PackInv, PackTypeOK, Kinds
<1>2. all \in Seq(Messages)
    BY <1>1, ConversationIs
<1>3. PICK s \in PartStarts(all) : Found(all, s)
    BY DEF PackInv
<1>4. packed = Suffix(all, s) /\ TotalCost(packed, blocks) <= budget
    BY <1>3 DEF Found, Fits
<1> HIDE DEF all
<1>5. /\ Admissible(all) = {Suffix(all, i) : i \in PartStarts(all)}
    BY <1>2, AdmissibleIs
<1>6. /\ \A p \in Seq(Messages) : TotalCost(p, offered) = 1 + Len(offered) + Cost[p] /\ Cost[p] \in Nat
      /\ TotalCost(packed, blocks) = 1 + Len(blocks) + Cost[packed]
      /\ Len(offered) \in Nat /\ Len(blocks) \in Nat
    BY <1>1, TotalCostIs, CostIs, EmptySeq DEF Kinds
<1>7. \A i \in PartStarts(all) : i \in Nat /\ Suffix(all, i) \in Seq(Messages)
    BY <1>2, StartsTyped, LaterStart
<1>8. \A i \in PartStarts(all) : Suffix(all, i) \in good => s <= i
    <2> SUFFICES ASSUME NEW i \in PartStarts(all), Suffix(all, i) \in good, ~(s <= i)
                 PROVE  FALSE
        OBVIOUS
    <2>1. i < s
        BY <1>7
    <2>2. TotalCost(Suffix(all, i), offered) > budget
        BY <1>3, <2>1 DEF Found
    <2>3. TotalCost(Suffix(all, i), offered) <= budget
        OBVIOUS
    <2>4. TotalCost(Suffix(all, i), offered) \in Int
        BY <1>6, <1>7
    <2> QED
        BY <1>1, <2>2, <2>3, <2>4
<1>9. blocks # offered =>
         /\ IsLatest(all, s) /\ Len(blocks) < Len(offered)
         /\ 1 + (Len(blocks) + 1) + Cost[packed] > budget
    BY <1>3, <1>6, <1>1, CostIs DEF Found, PolicyCost, BlockCost
<1>10. CASE good # {}
    <2>1. PICK p \in good : TRUE
        BY <1>10
    <2>2. PICK i \in PartStarts(all) : p = Suffix(all, i)
        BY <1>5
    <2>3. blocks = offered
        <3> SUFFICES ASSUME blocks # offered
                     PROVE  FALSE
            OBVIOUS
        <3>1. s <= i /\ i <= s
            BY <1>8, <1>9, <2>2 DEF IsLatest
        <3>2. p = packed
            BY <1>4, <1>7, <2>2, <3>1
        <3>3. TotalCost(packed, offered) <= budget
            BY <3>2
        <3>4. 1 + Len(offered) + Cost[packed] <= budget /\ Cost[packed] \in Nat
            BY <1>1, <1>6, <3>3
        <3> QED
            BY <1>1, <1>6, <1>9, <3>4
    <2>4. Suffix(all, s) \in good /\ good \subseteq Admissible(all)
        BY <1>4, <1>5, <2>3
    <2> HIDE DEF good
    <2>5. Longest(good) = packed
        BY <1>2, <1>4, <1>8, <2>4, LongestIs
    <2> QED
        BY <1>4, <1>10, <2>3, <2>5 DEF good, all
<1>11. CASE good = {}
    <2>1. blocks # offered
        BY <1>4, <1>5, <1>11
    <2>2. last = packed
        BY <1>2, <1>4, <1>9, <2>1, ShortestIs
    <2>3. ASSUME NEW n \in (Len(blocks) + 1)..Len(offered)
          PROVE  TotalCost(packed, SubSeq(offered, 1, n)) > budget
        <3> DEFINE d == SubSeq(offered, 1, n)
        <3>1. n \in Nat /\ 1 <= n /\ n <= Len(offered) /\ n >= Len(blocks) + 1
            BY <1>6
        <3>2. \A k \in 1..n : offered[k] \in Kinds
            BY <1>1, <3>1, ElementOfSeq
        <3>3. 1 \in Int /\ n \in Int
            BY <3>1
        <3>4. d \in Seq(Kinds) /\ Len(d) = IF 1 <= n THEN n - 1 + 1 ELSE 0
            BY <3>2, <3>3, SubSeqProperties
        <3> HIDE DEF d
        <3>5. Len(d) = n
            BY <3>1, <3>4
        <3>6. TotalCost(packed, d) = 1 + n + Cost[packed] /\ Cost[packed] \in Nat
            BY <1>1, <3>4, <3>5, TotalCostIs DEF Kinds
        <3>7. TotalCost(packed, d) > budget
            BY <1>1, <1>6, <1>9, <2>1, <3>1, <3>6
        <3> QED
            BY <3>7 DEF d
    <2> HIDE DEF good, last
    <2> QED
        BY <1>4, <1>11, <2>2, <2>3 DEF good, last, all
<1> QED
    BY <1>10, <1>11

LEMMA RefusalIsReal ==
    ASSUME PackInv
    PROVE  OverflowIsReal
<1> SUFFICES ASSUME packing = "overflow"
             PROVE  TotalCost(Shortest(Admissible(Conversation[history])), <<>>) > budget
    BY DEF OverflowIsReal
<1> DEFINE all == Conversation[history]
<1>1. /\ history \in Seq(Messages) /\ blocks \in Seq(Kinds) /\ budget \in Int /\ packed \in Seq(Messages)
    BY PackingAssumption DEF PackInv, PackTypeOK, Kinds
<1>2. all \in Seq(Messages)
    BY <1>1, ConversationIs
<1>3. PICK s \in PartStarts(all) : Found(all, s)
    BY DEF PackInv
<1>4. packed = Suffix(all, s) /\ IsLatest(all, s) /\ blocks = <<>> /\ ~(TotalCost(packed, blocks) <= budget)
    BY <1>3 DEF Found, Fits
<1> HIDE DEF all
<1>5. Shortest(Admissible(all)) = packed
    BY <1>2, <1>4, ShortestIs
<1>6. TotalCost(packed, blocks) = 1 + Len(blocks) + Cost[packed] /\ Cost[packed] \in Nat /\ Len(blocks) \in Nat
    BY <1>1, TotalCostIs DEF Kinds
<1>7. TotalCost(packed, blocks) > budget
    BY <1>1, <1>4, <1>6
<1> QED
    BY <1>4, <1>5, <1>7 DEF all

(* For every conversation and every budget: what is sent is the longest    *)
(* part of the conversation that fits next to every block, or the latest   *)
(* exchange next to as many blocks as fit, and a refusal means that the    *)
(* latest exchange alone does not fit (agent/context.py:254-296, 314-335). *)
THEOREM WhatIsSentIsTheMost == PackSpec => []PacksTheMost
<1>1. PackInv => PacksTheMost
    BY MostIsSent, RefusalIsReal DEF PacksTheMost
<1> QED
    BY <1>1, PackInvariant, PTL

-----------------------------------------------------------------------------
(* The four beside each other: each behaviour moves one of them.           *)

LEMMA ShellIdles == ShellIdle => ShellInit
<1> SUFFICES ASSUME ShellIdle
             PROVE  ShellInit
    OBVIOUS
<1>1. 0 \in 0..(Limit + 1)
    BY ShellAssumption
<1>2. [form |-> "argv", program |-> "batch", timeout |-> 0] \in ShellCalls
    BY <1>1 DEF ShellCalls
<1>3. call = [form |-> "argv", program |-> "batch", timeout |-> 0] /\ machine = FALSE
    BY DEF ShellIdle
<1> QED
    BY <1>2, <1>3 DEF ShellIdle, ShellInit

LEMMA PackIdles == PackIdle => PackInv
<1> SUFFICES ASSUME PackIdle
             PROVE  PackInv
    OBVIOUS
<1>1. <<>> \in Seq(Messages) /\ <<>> \in Seq(Kinds)
    BY EmptySeq
<1>2. offered = <<>> /\ blocks = <<>> /\ history = <<>> /\ packed = <<>> /\ budget = 1 /\ packing = "called"
    BY DEF PackIdle
<1>3. IsPrefix(blocks, offered)
    BY <1>1, <1>2, PrefixOfAll
<1>4. ToSet(packed) = {}
    BY <1>2 DEF ToSet
<1>5. PackTypeOK
    BY <1>1, <1>2, <1>3, <1>4, IdleAssumption DEF PackTypeOK, Kinds
<1> QED
    BY <1>2, <1>5 DEF PackInv

CallsInv == PageInv /\ ServingInv /\ ShellInv /\ PackInv

LEMMA CallsInitially == CallsInit => CallsInv
<1> SUFFICES ASSUME CallsInit
             PROVE  CallsInv
    OBVIOUS
<1>1. PageInit /\ ServingInit
    BY DEF CallsInit, PageIdle
<1>2. ShellInit
    BY ShellIdles DEF CallsInit
<1>3. PackInv
    BY PackInitially, PackIdles DEF CallsInit
<1> QED
    BY <1>1, <1>2, <1>3, PageInitially, ServingInitInv, ShellInitially DEF CallsInv

LEMMA CallsStep == CallsInv /\ [CallsNext]_callsVars => CallsInv'
<1> SUFFICES ASSUME CallsInv, [CallsNext]_callsVars
             PROVE  CallsInv'
    OBVIOUS
<1>1. [PageNext]_pageVars /\ [ServingNext]_servingVars /\ [ShellNext]_shellVars /\ [PackNext]_packVars
    BY DEF CallsNext, callsVars
<1> QED
    BY <1>1, PageStep, ServingStepInv, ShellStep, PackStep DEF CallsInv

(* A request of the page, the server, a command and a packing beside each  *)
(* other, in every behaviour of the run of the four, have the types of all *)
(* of them.                                                                *)
THEOREM CallsStayTyped == CallsSpec => []CallsTypeOK
<1>1. CallsInv => CallsTypeOK
    BY PageInvTyped DEF CallsInv, ServingInv, ShellInv, PackInv, CallsTypeOK
<1> QED
    BY <1>1, CallsInitially, CallsStep, PTL DEF CallsSpec
===============================================================================
