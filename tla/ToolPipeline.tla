----------------------------- MODULE ToolPipeline ------------------------------
(***************************************************************************)
(* How one tool call is executed: ToolRuntime.execute and                  *)
(* _run_with_timeout (agent/tools/base.py), the approvers it consults      *)
(* (base.py, agent/ui/approvals.py) and the worker thread a tool runs on.  *)
(*                                                                         *)
(* One call is in the pipeline at a time (stage), but the thread of a tool *)
(* that overran its backstop is abandoned, not stopped: it stays in        *)
(* orphans and may still change the workspace.  The cancel token is one    *)
(* object, shared by the turn loop, the provider and every tool thread.    *)
(***************************************************************************)
EXTENDS PermissionGuard, Sequences, FiniteSets

CONSTANT
    Approver   \* who answers: the terminal prompt, -y, or a refusing policy

ASSUME ApproverAssumption == Approver \in {"tty", "auto", "policy"}

VARIABLES
    mode,       \* guard.mode (AgentApp.set_mode keeps state.mode equal)
    approved,   \* state.approved_writes: keys a yes has been given for
    always,     \* TtyApprover._session_yes: tools answered "always"
    cancel,     \* state.cancel, the shared CancelToken
    stage,      \* where execute() is
    cur,        \* the worker of the call in the pipeline
    outcome,    \* the error code of the call that has finished, or "ok"
    orphans,    \* the workers the backstop abandoned
    serial      \* calls handed to the pipeline so far

pipeVars == <<mode, approved, always, cancel, stage, cur, outcome, orphans, serial>>

Mutating(c) == Attr[c].effect \in {"workspace_write", "process"}

(* The call, its ordinal, the guard's mode when it was handed over, and    *)
(* whether its effect on the world has landed.                             *)
Worker == [call : Calls, n : Nat \ {0}, mode : Modes, landed : BOOLEAN]

NoWorker == [n |-> 0]

Codes == {"ok", "tool_not_found", "tool_error", "permission_denied",
          "cancelled", "command_timeout"}

PipeTypeOK ==
    /\ mode \in Modes
    /\ approved \subseteq Paths
    /\ always \subseteq ToolNames
    /\ cancel \in BOOLEAN
    /\ stage \in {"idle", "approval", "running", "done"}
    /\ IF stage = "idle" THEN cur = NoWorker ELSE cur \in Worker
    /\ outcome \in Codes
    /\ orphans \subseteq Worker
    /\ serial \in Nat

PipeInit ==
    /\ mode \in Modes
    /\ approved = {}
    /\ always = {}
    /\ cancel = FALSE
    /\ stage = "idle"
    /\ cur = NoWorker
    /\ outcome = "ok"
    /\ orphans = {}
    /\ serial = 0

-----------------------------------------------------------------------------
(* execute(), up to the worker thread.                                     *)

Enter(c) ==
    /\ stage = "idle"
    /\ serial' = serial + 1
    /\ cur' = [call |-> c, n |-> serial + 1, mode |-> mode, landed |-> FALSE]

(* What is refused before anyone is asked: an unknown tool, a tool hidden  *)
(* by the mode, arguments that do not validate, the guard.                 *)
Hidden(c) == ~Attr[c].known \/ ~IsVisible(mode, c)

Refused(c) ==
    Hidden(c) \/ ~Attr[c].valid \/ Authorize(mode, approved, c) = "deny"

Refuse(c) ==
    /\ Enter(c)
    /\ Refused(c)
    /\ stage' = "done"
    /\ outcome' = CASE Hidden(c)        -> "tool_not_found"
                    [] ~Attr[c].valid   -> "tool_error"
                    [] OTHER            -> "permission_denied"
    /\ UNCHANGED <<mode, approved, always, cancel, orphans>>

Admit(c) ==
    /\ Enter(c)
    /\ ~Refused(c)
    /\ Authorize(mode, approved, c) = "allow"
    /\ stage' = "running"
    /\ UNCHANGED <<mode, approved, always, cancel, outcome, orphans>>

AskUser(c) ==
    /\ Enter(c)
    /\ ~Refused(c)
    /\ Authorize(mode, approved, c) = "confirm"
    /\ stage' = "approval"
    /\ UNCHANGED <<mode, approved, always, cancel, outcome, orphans>>

(* A yes: execute() remembers the write key, whoever the approver was.     *)
Yes ==
    /\ stage = "approval"
    /\ stage' = "running"
    /\ approved' = IF Attr[cur.call].effect = "workspace_write"
                   THEN approved \cup ({Attr[cur.call].key} \ {NoPath})
                   ELSE approved
    /\ UNCHANGED <<mode, cancel, cur, outcome, orphans, serial>>

(* approve() does not ask under -y, nor about a tool answered "always".    *)
Unasked ==
    \/ Approver = "auto"
    \/ Approver = "tty" /\ Attr[cur.call].tool \in always

ApproveUnasked == Yes /\ Unasked /\ UNCHANGED always

(* The user typed y, or a: a is not remembered for a command.              *)
Answer(how) ==
    /\ Yes
    /\ Approver = "tty" /\ ~Unasked
    /\ always' = IF how = "always" /\ Attr[cur.call].effect # "process"
                 THEN always \cup {Attr[cur.call].tool} ELSE always

Finish(code) ==
    /\ outcome' = code
    /\ stage' = "done"

Reject ==
    /\ stage = "approval"
    /\ ~Unasked
    /\ Finish("permission_denied")
    /\ UNCHANGED <<mode, approved, always, cancel, cur, orphans, serial>>

-----------------------------------------------------------------------------
(* The worker thread and its backstop.                                     *)

Pending(w) == Mutating(w.call) /\ ~w.landed

Landed(w) == [w EXCEPT !.landed = TRUE]

(* Mutant of LandActive: the tool is started while the user is still asked.*)
LandActiveEarly ==
    /\ stage \in {"approval", "running"}
    /\ Pending(cur)
    /\ cur' = Landed(cur)
    /\ UNCHANGED <<mode, approved, always, cancel, stage, outcome, orphans, serial>>

(* The effect on the world lands at some point of the run.                 *)
LandActive ==
    /\ stage = "running"
    /\ Pending(cur)
    /\ cur' = Landed(cur)
    /\ UNCHANGED <<mode, approved, always, cancel, stage, outcome, orphans, serial>>

(* An orphan is a thread like any other, only nobody waits for it.         *)
LandOrphan(w) ==
    /\ Pending(w)
    /\ orphans' = (orphans \ {w}) \cup {Landed(w)}
    /\ UNCHANGED <<mode, approved, always, cancel, stage, cur, outcome, serial>>

OrphanExit(w) ==
    /\ orphans' = orphans \ {w}
    /\ UNCHANGED <<mode, approved, always, cancel, stage, cur, outcome, serial>>

(* run() returned a result.                                                *)
ToolReturns ==
    /\ stage = "running"
    /\ ~Pending(cur)
    /\ Finish("ok")
    /\ UNCHANGED <<mode, approved, always, cancel, cur, orphans, serial>>

(* run() raised a typed error, or crashed; a command, or a write that      *)
(* fails half-way, may have had its effect before.                         *)
ToolRaises ==
    /\ stage = "running"
    /\ Finish("tool_error")
    /\ UNCHANGED <<mode, approved, always, cancel, cur, orphans, serial>>

(* shell.exec polls the token and kills its process group.                 *)
ToolCancelled ==
    /\ stage = "running"
    /\ cancel
    /\ Attr[cur.call].effect = "process"
    /\ Finish("cancelled")
    /\ UNCHANGED <<mode, approved, always, cancel, cur, orphans, serial>>

(* wait_for() expired: the shared token is set and the thread left behind. *)
Backstop ==
    /\ stage = "running"
    /\ Finish("command_timeout")
    /\ cancel' = TRUE
    /\ orphans' = orphans \cup {cur}
    /\ UNCHANGED <<mode, approved, always, cur, serial>>

(* Mutant of Deliver: the finished call is kept as the current one.        *)
DeliverKeepsCall ==
    /\ stage = "done"
    /\ stage' = "idle"
    /\ outcome' = "ok"
    /\ UNCHANGED <<mode, approved, always, cancel, cur, orphans, serial>>

(* execute() returns its result to the turn loop.                          *)
Deliver ==
    /\ stage = "done"
    /\ stage' = "idle"
    /\ cur' = NoWorker
    /\ outcome' = "ok"
    /\ UNCHANGED <<mode, approved, always, cancel, orphans, serial>>

-----------------------------------------------------------------------------
(* What happens around the pipeline.                                       *)

(* The SIGINT handler of a turn.                                           *)
CancelSet ==
    /\ cancel' = TRUE
    /\ UNCHANGED <<mode, approved, always, stage, cur, outcome, orphans, serial>>

(* The start of a turn.                                                    *)
CancelReset ==
    /\ stage = "idle"
    /\ cancel' = FALSE
    /\ UNCHANGED <<mode, approved, always, stage, cur, outcome, orphans, serial>>

(* The /mode command: between turns only, and never into trusted.          *)
SetMode(m) ==
    /\ stage = "idle"
    /\ m # "trusted"
    /\ mode' = m
    /\ UNCHANGED <<approved, always, cancel, stage, cur, outcome, orphans, serial>>

(* Mutant of Restart: the resumed session keeps the write approvals.       *)
RestartKeepsApprovals(m) ==
    /\ mode' = m
    /\ always' = {}
    /\ cancel' = FALSE
    /\ stage' = "idle"
    /\ cur' = NoWorker
    /\ outcome' = "ok"
    /\ orphans' = {}
    /\ UNCHANGED <<approved, serial>>

(* The process dies and another one resumes the session: threads,          *)
(* approvals and the token are gone.                                       *)
Restart(m) ==
    /\ mode' = m
    /\ approved' = {}
    /\ always' = {}
    /\ cancel' = FALSE
    /\ stage' = "idle"
    /\ cur' = NoWorker
    /\ outcome' = "ok"
    /\ orphans' = {}
    /\ UNCHANGED serial

Approval == Answer("yes") \/ Answer("always") \/ ApproveUnasked \/ Reject

ToolThread == LandActive \/ ToolReturns \/ ToolRaises \/ ToolCancelled \/ Backstop

(* The pipeline under the most general caller.                             *)
PipeNext ==
    \/ \E c \in Calls : Refuse(c) \/ Admit(c) \/ AskUser(c)
    \/ Approval
    \/ ToolThread
    \/ \E w \in orphans : LandOrphan(w) \/ OrphanExit(w)
    \/ Deliver
    \/ CancelSet
    \/ CancelReset
    \/ \E m \in Modes : SetMode(m) \/ Restart(m)

PipeSpec == PipeInit /\ [][PipeNext]_pipeVars
=============================================================================
