-------------------------------- MODULE MCCalls --------------------------------
(***************************************************************************)
(* What somebody waits for: a request of the page, through the gate, and   *)
(* its stream (WebPage, Gate), the requests the server admits (Serving),   *)
(* a command (ShellCommand) and the packing of a prompt (Packing).  They   *)
(* share no state, so each behaviour moves one of them, the subject.       *)
(***************************************************************************)
EXTENDS WebPage, Serving, ShellCommand, Packing

VARIABLE subject

callsVars == <<subject, pageVars, servingVars, shellVars, packVars>>

(* Three requests of one caller, one of them a stream.                     *)
AllRequests == {"a", "b", "c"}
Caller == [r \in AllRequests |-> "alice"]
Streaming == {"c"}

(* The budget of a packing that is not the subject.                        *)
ASSUME IdleAssumption == 1 \in Budgets

(* A component that another is the subject of the behaviour of.            *)
PageIdle == PageInit /\ posture.name = "dev" /\ ~clientId /\ ~up /\ published = Kids

ShellIdle ==
    /\ call = [form |-> "argv", program |-> "batch", timeout |-> 0] /\ machine = FALSE
    /\ cancelled = FALSE /\ runner = "called" /\ waited = 0 /\ polled = 0
    /\ process = [p \in Processes |-> NoProcess] /\ ending = "none"

PackIdle ==
    /\ history = <<>> /\ budget = 1 /\ offered = <<>>
    /\ packed = <<>> /\ blocks = <<>> /\ packing = "called"

CallsInit ==
    /\ subject \in {"page", "serving", "shell", "pack"}
    /\ IF subject = "page" THEN PageInit ELSE PageIdle
    /\ ServingInit
    /\ IF subject = "shell" THEN ShellInit ELSE ShellIdle
    /\ IF subject = "pack" THEN PackInit ELSE PackIdle

CallsNext ==
    /\ UNCHANGED subject
    /\ \/ subject = "page" /\ PageNext /\ UNCHANGED <<servingVars, shellVars, packVars>>
       \/ subject = "serving" /\ ServingNext /\ UNCHANGED <<pageVars, shellVars, packVars>>
       \/ subject = "shell" /\ ShellNext /\ UNCHANGED <<pageVars, servingVars, packVars>>
       \/ subject = "pack" /\ PackNext /\ UNCHANGED <<pageVars, servingVars, shellVars>>

(* The fairness of each specification, for the behaviours of its subject.  *)
CallsSpec ==
    /\ CallsInit /\ [][CallsNext]_callsVars
    /\ WF_pageVars(subject = "page" /\ Serve)
    /\ WF_pageVars(subject = "page" /\ Receive)
    /\ WF_pageVars(subject = "page" /\ (Done \/ Fails \/ Breaks))
    /\ \A r \in Requests :
          /\ WF_servingVars(subject = "serving" /\ LoopStep(r))
          /\ SF_servingVars(subject = "serving" /\ (CallEnds(r) \/ CallFails(r)))
          /\ WF_servingVars(subject = "serving" /\ BackoffOver(r))
    /\ WF_shellVars(subject = "shell" /\ Calling)
    /\ WF_packVars(subject = "pack" /\ PackNext)

(* SendEnds of the behaviours of the page: a request ends, whatever comes  *)
(* of it, and the page can send again (app.js:354-362).                    *)
PageSendEnds == subject = "page" => SendEnds

(* SlotsReturn of the behaviours of the server: a request that holds a     *)
(* slot gives it back (api/app.py:524-571).                                *)
EverySlotReturns == subject = "serving" => SlotsReturn

(* CommandEnds of the behaviours of a command: the call returns, whatever  *)
(* the command and its children do (agent/tools/shell.py:236-263).         *)
ACommandEnds == subject = "shell" => CommandEnds

(* PackingEnds of the behaviours of a packing: it comes to a prompt or to  *)
(* an error (agent/context.py:284-311).                                    *)
APackingEnds == subject = "pack" => PackingEnds

(* Nobody waits for ever: every request of the page, every slot, every     *)
(* command and every packing comes to its end.                             *)
EverythingEnds ==
    /\ PageSendEnds
    /\ EverySlotReturns
    /\ ACommandEnds
    /\ APackingEnds

(* The components have their types.                                        *)
CallsTypeOK ==
    /\ PageTypeOK
    /\ ServingTypeOK
    /\ ShellTypeOK
    /\ PackTypeOK
=============================================================================
