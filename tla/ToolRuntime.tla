------------------------------ MODULE ToolRuntime ------------------------------
(***************************************************************************)
(* The tool pipeline with what it leaves behind: the audit log it writes   *)
(* (agent/audit.py, AuditRecord) and the history the safety properties are *)
(* about, namely who granted what and which calls changed the world.       *)
(***************************************************************************)
EXTENDS ToolPipeline

VARIABLES
    audit,      \* the audit log: one record per finished call
    boot,       \* history: the value of serial when this process started
    grants,     \* history: the approver's yes answers
    effects     \* history: what the tool threads did to the world

toolVars == <<pipeVars, audit, boot, grants, effects>>

Decisions == {"allow", "deny", "rejected", "cancelled"}

AuditRecord == [n : Nat \ {0}, decision : Decisions, code : Codes]

(* "yes" and "always" are keys the user pressed; "unasked" is the approver *)
(* answering in the user's place.                                          *)
Grant == [n : Nat \ {0}, call : Calls, how : {"yes", "always", "unasked"}]

ToolTypeOK ==
    /\ PipeTypeOK
    /\ boot \in Nat /\ boot <= serial
    /\ audit \in Seq(AuditRecord)
    /\ grants \subseteq Grant
    /\ effects \subseteq Worker

ToolInit ==
    /\ PipeInit
    /\ boot = 0
    /\ audit = <<>>
    /\ grants = {}
    /\ effects = {}

-----------------------------------------------------------------------------
(* Mutant of Audited: a call that hit its backstop is not recorded.        *)
AuditedUnlessTimeout(decision) ==
    /\ audit' = IF outcome' = "command_timeout" THEN audit
                ELSE Append(audit, [n |-> cur'.n, decision |-> decision, code |-> outcome'])
    /\ UNCHANGED <<boot, grants, effects>>

(* _record_failure, whose decision defaults to "deny", and the success     *)
(* path of execute() each write one audit record.                          *)
Audited(decision) ==
    /\ audit' = Append(audit, [n |-> cur'.n, decision |-> decision, code |-> outcome'])
    /\ UNCHANGED <<boot, grants, effects>>

Granting(how) ==
    /\ grants' = grants \cup {[n |-> cur.n, call |-> cur.call, how |-> how]}
    /\ UNCHANGED <<boot, audit, effects>>

Landing(w) ==
    /\ effects' = effects \cup {Landed(w)}
    /\ UNCHANGED <<boot, audit, grants>>

Silent == UNCHANGED <<boot, audit, grants, effects>>

Dies == boot' = serial /\ UNCHANGED <<audit, grants, effects>>

ToolNext ==
    \/ \E c \in Calls : Refuse(c) /\ Audited("deny")
    \/ \E c \in Calls : (Admit(c) \/ AskUser(c)) /\ Silent
    \/ \E how \in {"yes", "always"} : Answer(how) /\ Granting(how)
    \/ ApproveUnasked /\ Granting("unasked")
    \/ Reject /\ Audited("rejected")
    \/ LandActive /\ Landing(cur)
    \/ \E w \in orphans : LandOrphan(w) /\ Landing(w)
    \/ \E w \in orphans : OrphanExit(w) /\ Silent
    \/ ToolReturns /\ Audited("allow")
    \/ ToolRaises /\ Audited("deny")
    \/ ToolCancelled /\ Audited("cancelled")
    \/ Backstop /\ Audited("deny")
    \/ (Deliver \/ CancelSet \/ CancelReset) /\ Silent
    \/ \E m \in Modes : SetMode(m) /\ Silent
    \/ \E m \in Modes : Restart(m) /\ Dies

ToolSpec == ToolInit /\ [][ToolNext]_toolVars

-----------------------------------------------------------------------------
(* Outside trusted mode and the allowlist, no tool thread changes a file   *)
(* or runs a command that this process's approver did not grant: the grant *)
(* is of this very call or, for a write, of a write to the same path.  No  *)
(* approval covers another path, a command, or a later process.            *)
Granted(w) ==
    \E g \in grants :
        /\ g.n > boot
        /\ \/ g.n = w.n
           \/ /\ Attr[w.call].effect = "workspace_write"
              /\ Attr[g.call].effect = "workspace_write"
              /\ Attr[w.call].key # NoPath
              /\ Attr[g.call].key = Attr[w.call].key

Free(w) ==
    \/ w.mode = "trusted"
    \/ Attr[w.call].effect = "process" /\ Attr[w.call].allowlisted

EffectsConsented ==
    \A e \in effects : e.n > boot => Free(e) \/ Granted(e)

(* At the prompt, a grant nobody was asked for goes back to an "always"    *)
(* this process's user gave earlier for the same tool, never to a command. *)
UnaskedIsBacked ==
    Approver = "tty" =>
    \A g \in grants :
        (g.how = "unasked" /\ g.n > boot) =>
            /\ Attr[g.call].effect # "process"
            /\ \E h \in grants :
                  /\ h.how = "always"
                  /\ h.n > boot /\ h.n < g.n
                  /\ Attr[h.call].tool = Attr[g.call].tool

(* Consent covers what was asked about, and an unasked grant goes back to  *)
(* somebody's word, through every mode change, abandoned thread and        *)
(* restart (agent/ui/approvals.py).                                        *)
ConsentIsKept ==
    /\ EffectsConsented
    /\ UnaskedIsBacked

(* No effect comes from a call above the ceiling of the mode it was        *)
(* started in, whatever was approved in a higher mode before and whoever   *)
(* approves, nor from a call an absolute rule forbids, trusted or not.     *)
EffectsWithinCeiling ==
    \A e \in effects :
        /\ ModeAllows(e.mode, Attr[e.call].effect)
        /\ Attr[e.call].known /\ Attr[e.call].valid
        /\ ~Absolute(e.call)

(* A call the guard or the approver refused has no effect, then or later.  *)
RefusedNeverLands ==
    \A i \in DOMAIN audit :
        audit[i].code \in {"tool_not_found", "permission_denied"} =>
            \A e \in effects : e.n # audit[i].n

(* Every effect is accounted for: unless the process died, the call that   *)
(* caused it has its one audit record or is still in the pipeline, also    *)
(* when its thread was abandoned.                                          *)
EffectsAudited ==
    /\ \A e \in effects :
          e.n > boot =>
              \/ \E i \in DOMAIN audit : audit[i].n = e.n
              \/ stage = "running" /\ cur.n = e.n
    /\ \A i, j \in DOMAIN audit : audit[i].n = audit[j].n => i = j
=============================================================================
