------------------------------ MODULE ShellCommand ------------------------------
(***************************************************************************)
(* One call of shell.exec: ShellArgs, run, _spawn and _terminate of        *)
(* agent/tools/shell.py, with the processes it starts.                     *)
(*                                                                         *)
(* The command is the leader of a process group of its own.  It may start  *)
(* a child, which may keep the output pipes open, may ignore SIGTERM, and  *)
(* may outlive it.  Time passes in the slices of 0.1 s that communicate    *)
(* waits and in the polls of _terminate.                                   *)
(***************************************************************************)
EXTENDS Naturals, FiniteSets

CONSTANTS
    Limit,      \* ctx.shell_timeout_s, in slices
    Polls       \* the polls between SIGTERM and SIGKILL: 20 in the code

ASSUME ShellAssumption == Limit \in Nat \ {0} /\ Polls \in Nat

VARIABLES
    call,       \* the arguments: form, what the program is, timeout_s
    machine,    \* machine output, where a command string is refused
    cancelled,  \* the cancel token of the turn is set
    runner,     \* where the tool is
    waited,     \* slices waited
    polled,     \* polls since SIGTERM
    process,    \* the leader and its child
    ending      \* what the call returns or raises

shellVars == <<call, machine, cancelled, runner, waited, polled, process, ending>>

Processes == {"leader", "child"}

Signals == {"none", "TERM", "KILL"}

NoProcess == [alive |-> FALSE, stubborn |-> FALSE, piped |-> FALSE, signal |-> "none"]

ShellCalls == [form : {"argv", "string", "both", "neither"}, program : {"batch", "interactive", "missing"},
          timeout : 0..(Limit + 1)]

ShellTypeOK ==
    /\ call \in ShellCalls /\ machine \in BOOLEAN /\ cancelled \in BOOLEAN
    /\ runner \in {"called", "waiting", "polling", "over"}
    /\ waited \in Nat /\ polled \in 0..Polls
    /\ process \in [Processes -> [alive : BOOLEAN, stubborn : BOOLEAN, piped : BOOLEAN, signal : Signals]]
    /\ ending \in {"none", "invalid", "refused", "not started", "done", "cancelled", "timeout"}
    /\ runner = "over" <=> ending # "none"

(* A timeout of 0 stands for none given.                                   *)
ShellInit ==
    /\ call \in ShellCalls /\ machine \in BOOLEAN /\ cancelled = FALSE
    /\ runner = "called" /\ waited = 0 /\ polled = 0
    /\ process = [p \in Processes |-> NoProcess]
    /\ ending = "none"

Concludes(result) == runner' = "over" /\ ending' = result

(* ShellArgs: exactly one of argv and command.  _reject_interactive.       *)
Reject ==
    /\ runner = "called"
    /\ \/ call.form \in {"both", "neither"} /\ Concludes("invalid")
       \/ call.form = "string" /\ machine /\ Concludes("refused")
       \/ call.form \in {"argv", "string"} /\ call.program = "interactive" /\ Concludes("refused")
    /\ UNCHANGED <<call, machine, cancelled, waited, polled, process>>

Runs == \/ call.form = "argv" /\ call.program # "interactive"
        \/ call.form = "string" /\ ~machine /\ call.program # "interactive"

(* Popen, in a session of its own.                                         *)
Spawn ==
    /\ runner = "called" /\ Runs
    /\ IF call.program = "missing"
       THEN Concludes("not started") /\ UNCHANGED process
       ELSE /\ \E stubborn \in BOOLEAN :
                 process' = [process EXCEPT !["leader"] =
                               [alive |-> TRUE, stubborn |-> stubborn, piped |-> TRUE, signal |-> "none"]]
            /\ runner' = "waiting" /\ UNCHANGED ending
    /\ UNCHANGED <<call, machine, cancelled, waited, polled>>

(* The call may ask for less than the limit, and for no more.              *)
Timeout == IF call.timeout = 0 \/ call.timeout > Limit THEN Limit ELSE call.timeout

Exited(p) == ~process[p].alive

(* The pipes are at their end when nobody holds them.                      *)
Drained == \A p \in Processes : Exited(p) \/ ~process[p].piped

(* communicate returns.                                                    *)
Complete ==
    /\ runner = "waiting" /\ Exited("leader") /\ Drained
    /\ Concludes("done")
    /\ UNCHANGED <<call, machine, cancelled, waited, polled, process>>

(* Mutant of Term: the signal goes to the leader alone.                    *)
TermLeader == process' = [process EXCEPT !["leader"] =
                            IF @.alive /\ @.signal = "none" THEN [@ EXCEPT !.signal = "TERM"] ELSE @]

(* SIGTERM to the whole group.                                             *)
Term == process' = [p \in Processes |-> IF process[p].alive /\ process[p].signal = "none"
                                          THEN [process[p] EXCEPT !.signal = "TERM"] ELSE process[p]]

(* communicate gives up for a slice: the token first, then the deadline.   *)
Slice ==
    /\ runner = "waiting" /\ ~(Exited("leader") /\ Drained)
    /\ waited' = waited + 1
    /\ IF cancelled \/ waited' >= Timeout
       THEN runner' = "polling" /\ Term
       ELSE UNCHANGED <<runner, process>>
    /\ UNCHANGED <<call, machine, cancelled, polled, ending>>

Stopped == IF cancelled THEN "cancelled" ELSE "timeout"

(* _terminate polls the leader alone: once it is gone the group is left as *)
(* it is; SIGKILL is for a group whose leader stays.                       *)
Poll ==
    /\ runner = "polling"
    /\ IF Exited("leader")
       THEN Concludes(Stopped) /\ UNCHANGED <<process, polled>>
       ELSE IF polled = Polls
       THEN /\ process' = [p \in Processes |-> IF process[p].alive
                                               THEN [process[p] EXCEPT !.signal = "KILL"] ELSE process[p]]
            /\ Concludes(Stopped) /\ UNCHANGED polled
       ELSE polled' = polled + 1 /\ UNCHANGED <<runner, ending, process>>
    /\ UNCHANGED <<call, machine, cancelled, waited>>

-----------------------------------------------------------------------------
(* The processes, and who sets the token: Ctrl+C, the deadline of the turn *)
(* or the backstop of the pipeline.                                        *)
Fork ==
    /\ process["leader"].alive /\ process["child"] = NoProcess /\ process["leader"].signal = "none"
    /\ \E stubborn \in BOOLEAN, piped \in BOOLEAN :
          process' = [process EXCEPT !["child"] =
                        [alive |-> TRUE, stubborn |-> stubborn, piped |-> piped, signal |-> "none"]]
    /\ UNCHANGED <<call, machine, cancelled, runner, waited, polled, ending>>

EndProcess(p) ==
    /\ process[p].alive
    /\ process' = [process EXCEPT ![p].alive = FALSE]
    /\ UNCHANGED <<call, machine, cancelled, runner, waited, polled, ending>>

Doomed(p) ==
    /\ process[p].alive
    /\ process[p].signal = "KILL" \/ (process[p].signal = "TERM" /\ ~process[p].stubborn)

CancelShell ==
    /\ ~cancelled /\ runner # "over"
    /\ cancelled' = TRUE
    /\ UNCHANGED <<call, machine, runner, waited, polled, process, ending>>

Calling == Reject \/ Spawn \/ Complete \/ Slice \/ Poll

ShellNext ==
    \/ Reject \/ Spawn \/ Complete \/ Slice \/ Poll \/ Fork \/ CancelShell
    \/ \E p \in Processes : EndProcess(p)

(* The tool is scheduled; nothing is assumed of the processes.             *)
ShellSpec == ShellInit /\ [][ShellNext]_shellVars /\ WF_shellVars(Calling)

-----------------------------------------------------------------------------
(* When the call is over the command itself is gone or killed, whatever it *)
(* does with signals (agent/tools/shell.py:241-280).                       *)
LeaderIsStopped ==
    runner = "over" /\ process["leader"].alive => process["leader"].signal = "KILL"

(* What a stopped call leaves running has been told to stop and is ignoring*)
(* it, and its leader was not: only a group whose leader obeyed SIGTERM is *)
(* spared SIGKILL (agent/tools/shell.py:263-280).                          *)
SurvivorIgnoredTerm ==
    ending \in {"cancelled", "timeout"} =>
        \A p \in Processes : process[p].alive =>
            Doomed(p) \/ (p = "child" /\ process[p].stubborn /\ process[p].signal = "TERM" /\ Exited("leader"))

(* A call is not over the limit of the configuration, whatever it asks for *)
(* and whoever holds its pipes; nothing runs for a call that was refused   *)
(* (agent/tools/shell.py:149-168, 239-254).                                *)
WithinLimit ==
    /\ waited <= Limit /\ (call.timeout # 0 => waited <= call.timeout)
    /\ ending \in {"invalid", "refused", "not started"} => \A p \in Processes : process[p] = NoProcess

(* A command does not outstay its call: neither its leader nor its         *)
(* children, unless they ignore SIGTERM, nor the call its limit            *)
(* (agent/tools/shell.py).                                                 *)
CommandsAreStopped ==
    /\ LeaderIsStopped
    /\ SurvivorIgnoredTerm
    /\ WithinLimit

(* Every call ends, whatever the command does: it may never exit, and a    *)
(* child that outlives it may hold the pipes for ever                      *)
(* (agent/tools/shell.py:241-257, 263-280).                                *)
CommandEnds == <>(runner = "over")
=============================================================================
