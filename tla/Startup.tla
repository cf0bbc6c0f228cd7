-------------------------------- MODULE Startup --------------------------------
(***************************************************************************)
(* From the command line to the exit code of gemma4: discover_root         *)
(* (agent/workspace.py), load_config (agent/config.py), and build_app, the *)
(* commands and their exit codes (agent/cli.py).                           *)
(*                                                                         *)
(* Four layers may say something: the user's file, the project's file, the *)
(* environment and the flags.  Of what they can say the model keeps the    *)
(* provider, the model of a provider, the permission mode, and a key that  *)
(* is misspelt or looks like a credential.  A model is named after the     *)
(* layer that sets it.  build_app reads the files twice, to find out for   *)
(* which provider --model is meant, and somebody may save the project's    *)
(* file in between.                                                        *)
(***************************************************************************)
EXTENDS Naturals

VARIABLES
    command,    \* what gemma4 was asked to do
    options,    \* the flags
    environ,    \* the GEMMA4_* variables
    tty,        \* stdin and stdout are a terminal
    root,       \* what discover_root finds: "project", "home" or "missing"
    user,       \* the user's configuration file
    project,    \* the project's, from the workspace
    saved,      \* the project's file was saved since gemma4 started
    phase,      \* how far it has got
    probe,      \* the default provider of the first load
    config,     \* what a load returned last, or NoConfig
    session,    \* a session directory: "none", "created" or "loaded"
    declined,   \* approver.blocked
    approved,   \* a call that needs a human was let through
    turn,       \* how the turn ended
    exit        \* the exit code, or Running

startVars == <<command, options, environ, tty, root, user, project, saved, phase, probe,
               config, session, declined, approved, turn, exit>>

Asked == <<command, options, environ, tty, root, user>>

Names == {"default", "local"}

Modes == {"read-only", "agent", "trusted"}

Spoken == Modes \cup {"none", "bad"}

Commands == {"repl", "resume", "run", "ask", "doctor"}

NoModel == [n \in {} |-> "none"]

(* A layer: default_provider (possibly blank), the models of its providers,*)
(* the mode, and a key that no schema knows or that looks like a credential. *)
Silent == [default |-> "none", models |-> NoModel, mode |-> "none", key |-> "none"]

Said(name, models, layer) == [Silent EXCEPT !.default = name, !.models = [n \in models |-> layer]]

Quiet == [mode |-> "none", provider |-> "none", model |-> FALSE, home |-> FALSE, risk |-> FALSE,
          yes |-> FALSE, machine |-> FALSE, approval |-> "fail", findings |-> FALSE]

Unset == [provider |-> "none", model |-> FALSE, mode |-> "none"]

NoConfig == [default |-> "none"]

Running == 99

(* The turns run_turn reports: ok, cancelled, or failed for some reason.   *)
Turns == {"ok", "findings", "cancelled", "provider down", "no model", "failed"}

Layer(names) ==
    [default : Names \cup {"none", " "}, models : UNION {[S -> {"user", "project"}] : S \in SUBSET names},
     mode : Spoken, key : {"none", "secret", "typo"}]

StartupTypeOK ==
    /\ user \in Layer(Names) /\ project \in Layer(Names)
    /\ phase \in {"start", "rooted", "probed", "loaded", "gated", "composed", "turn", "checking", "over"}
    /\ phase = "over" <=> exit # Running
    /\ phase \in {"loaded", "gated", "composed", "turn", "checking"} =>
          /\ config.mode \in Modes
          /\ config.default \in DOMAIN config.models
          /\ config.models[config.default] \in {"built-in", "user", "project", "env", "cli"}
    /\ phase \in {"composed", "turn"} => session # "none"
    /\ exit \in {0, 1, 4, 5, 6, 7, Running}
    /\ turn \in Turns \cup {"none"}

(* What of the start is varied while the rest is silent: the provider and  *)
(* its model, the mode and a bad key, what a turn may do, and the root.     *)
VaryProvider ==
    /\ command \in {"ask", "doctor"} /\ tty = TRUE /\ root = "project"
    /\ \E n \in {"none", "local"}, ms \in SUBSET Names : user = Said(n, ms, "user")
    /\ \E n \in Names \cup {"none", " "}, ms \in SUBSET Names : project = Said(n, ms, "project")
    /\ environ \in [provider : {"none", "local"}, model : BOOLEAN, mode : {"none"}]
    /\ \E n \in Names \cup {"none"}, m \in BOOLEAN : options = [Quiet EXCEPT !.provider = n, !.model = m]

VaryMode ==
    /\ command = "ask" /\ tty \in BOOLEAN /\ root = "project"
    /\ \E m \in {"none", "agent", "trusted"} : user = [Silent EXCEPT !.mode = m]
    /\ \E m \in Spoken \ {"read-only"}, k \in {"none", "secret", "typo"} :
          project = [Silent EXCEPT !.mode = m, !.key = k]
    /\ environ \in [provider : {"none"}, model : {FALSE}, mode : Spoken]
    /\ \E m \in Spoken \ {"agent"}, r \in BOOLEAN, j \in BOOLEAN :
          options = [Quiet EXCEPT !.mode = m, !.risk = r, !.machine = j]

VaryTurn ==
    /\ command \in Commands /\ tty \in BOOLEAN /\ root = "project"
    /\ user = Silent /\ project = Silent /\ environ = Unset
    /\ \E y \in BOOLEAN, j \in BOOLEAN, f \in BOOLEAN, p \in {"fail", "reject", "allowlist", "bad"} :
          \E m \in {"none", "agent"} :
             options = [Quiet EXCEPT !.mode = m, !.yes = y, !.machine = j, !.approval = p, !.findings = f]

VaryRoot ==
    /\ command \in Commands /\ tty = TRUE /\ root \in {"project", "home", "missing"}
    /\ user = Silent /\ project = Silent /\ environ = Unset
    /\ \E h \in BOOLEAN : options = [Quiet EXCEPT !.home = h]

StartupInit ==
    /\ VaryProvider \/ VaryMode \/ VaryTurn \/ VaryRoot
    /\ saved = FALSE /\ phase = "start" /\ probe = "none" /\ config = NoConfig
    /\ session = "none" /\ declined = FALSE /\ approved = FALSE /\ turn = "none" /\ exit = Running

-----------------------------------------------------------------------------
(* The layers of load_config.                                              *)

(* Mutant of Stripped: the project's file is stripped of keys only.        *)
StrippedOfKeys(file) == [file EXCEPT !.key = IF @ = "secret" THEN "none" ELSE @]

(* _strip_trusted and _strip_forbidden: what a file may not say is dropped *)
(* with a warning.                                                         *)
Stripped(file) ==
    [file EXCEPT !.mode = IF @ = "trusted" THEN "none" ELSE @,
                 !.key = IF @ = "secret" THEN "none" ELSE @]

Warned(file) == file.mode = "trusted" \/ file.key = "secret"

(* _env_overlay: a mode nobody knows is ignored; the model is for whatever *)
(* provider is selected.                                                   *)
EnvLayer(target) ==
    [Said(environ.provider, IF environ.model THEN {target} ELSE {}, "env")
        EXCEPT !.mode = IF environ.mode = "bad" THEN "none" ELSE environ.mode]

(* _cli_overrides: --model is for --provider, or else for target.          *)
CliLayer(target) ==
    [Said(options.provider,
          IF ~options.model THEN {} ELSE {IF options.provider = "none" THEN target ELSE options.provider},
          "cli")
        EXCEPT !.mode = options.mode]

(* _merge: the later layer wins, key by key.                               *)
Merge(base, overlay) ==
    [default |-> IF overlay.default = "none" THEN base.default ELSE overlay.default,
     models |-> [n \in DOMAIN base.models \cup DOMAIN overlay.models |->
                    IF n \in DOMAIN overlay.models THEN overlay.models[n] ELSE base.models[n]],
     mode |-> IF overlay.mode = "none" THEN base.mode ELSE overlay.mode,
     key |-> IF overlay.key = "none" THEN base.key ELSE overlay.key]

(* _select_default_provider: the highest layer that has a name, a blank    *)
(* one not counting.                                                       *)
Select ==
    LET Passing(name, below) == IF name \in {"none", " "} THEN below ELSE name
    IN Passing(options.provider, Passing(environ.provider,
          Passing(project.default, Passing(user.default, "default"))))

(* load_config: --model of the flags goes to selected.                     *)
Merged(selected) ==
    Merge(Merge(Merge(Stripped(user), Stripped(project)), EnvLayer(Select)), CliLayer(selected))

Valid(selected) == Merged(selected).key = "none" /\ Merged(selected).mode # "bad"

(* _ensure_default_provider and the defaults of AgentConfig.               *)
Loaded(selected) ==
    LET merged == Merged(selected)
        name == IF merged.default = "none" THEN "default" ELSE merged.default
    IN [default |-> name,
        models |-> [n \in DOMAIN merged.models \cup {name, "default"} |->
                       IF n \in DOMAIN merged.models THEN merged.models[n] ELSE "built-in"],
        mode |-> IF merged.mode = "none" THEN "read-only" ELSE merged.mode]

-----------------------------------------------------------------------------
Leave(code) == phase' = "over" /\ exit' = code

(* discover_root.  Its refusal is exit 1 for every command.                *)
Discover ==
    /\ phase = "start"
    /\ IF root = "project" \/ (root = "home" /\ options.home)
       THEN phase' = "rooted" /\ UNCHANGED exit
       ELSE Leave(1)
    /\ UNCHANGED <<Asked, project, saved, probe, config, session, declined, approved, turn>>

(* The first load.  --model without --provider waits under a name of its   *)
(* own; doctor looks no further.                                           *)
Probe ==
    /\ phase = "rooted"
    /\ IF ~Valid("__selected__")
       THEN /\ Leave(IF command = "doctor" THEN 1 ELSE 4)
            /\ UNCHANGED <<probe, config>>
       ELSE /\ probe' = Loaded("__selected__").default
            /\ config' = Loaded("__selected__")
            /\ phase' = IF command = "doctor" THEN "checking" ELSE "probed"
            /\ UNCHANGED exit
    /\ UNCHANGED <<Asked, project, saved, session, declined, approved, turn>>

(* _resolve_model_override, and the second load.                           *)
LoadAgain ==
    /\ phase = "probed"
    /\ IF ~Valid(probe)
       THEN Leave(4) /\ UNCHANGED config
       ELSE config' = Loaded(probe) /\ phase' = "loaded" /\ UNCHANGED exit
    /\ UNCHANGED <<Asked, project, saved, probe, session, declined, approved, turn>>

(* allow_home of the configuration, which comes too late to matter: the    *)
(* root it would allow has been refused before.  Then _resolve_mode.       *)
GateMode ==
    /\ phase = "loaded"
    /\ IF config.mode = "trusted" /\ (options.machine \/ ~options.risk \/ ~tty)
       THEN Leave(4)
       ELSE phase' = "gated" /\ UNCHANGED exit
    /\ UNCHANGED <<Asked, project, saved, probe, config, session, declined, approved, turn>>

(* The session is created, or loaded, which may fail.                      *)
OpenSession ==
    /\ phase = "gated"
    /\ \/ /\ session' = IF command = "resume" THEN "loaded" ELSE "created"
          /\ phase' = "composed" /\ UNCHANGED exit
       \/ Leave(1) /\ UNCHANGED session
    /\ UNCHANGED <<Asked, project, saved, probe, config, declined, approved, turn>>

(* _make_approver.                                                         *)
Approver ==
    IF options.yes THEN "auto" ELSE IF options.machine \/ ~tty THEN "policy" ELSE "prompt"

(* The policy is looked at only now; one that nobody knows is a ValueError *)
(* that nothing catches: a traceback, and Python's exit code 1.            *)
MakeApprover ==
    /\ phase = "composed"
    /\ IF Approver = "policy" /\ options.approval = "bad"
       THEN Leave(1)
       ELSE phase' = "turn" /\ UNCHANGED exit
    /\ UNCHANGED <<Asked, project, saved, probe, config, session, declined, approved, turn>>

(* A mode in which a call may need a human: agent, which stands here for   *)
(* workspace too, whose writes are confirmed.  Read-only mode refuses what *)
(* would be, and trusted mode confirms nothing.  /mode moves a prompt from *)
(* either to agent.                                                        *)
Confirms == config.mode = "agent" \/ command \in {"repl", "resume"}

(* A call of the turn needs a human.  ask is no exception: it empties the  *)
(* registry that requests are built from, so none of its tools is offered, *)
(* and the ToolRuntime keeps its own, so a call the model writes all the   *)
(* same goes the way of any other.                                         *)
Confirm ==
    /\ phase = "turn" /\ turn = "none" /\ Confirms
    /\ \/ Approver \in {"auto", "prompt"} /\ approved' = TRUE /\ UNCHANGED declined
       \/ Approver = "prompt" /\ UNCHANGED <<approved, declined>>
       \/ Approver = "policy" /\ declined' = (declined \/ options.approval = "fail") /\ UNCHANGED approved
    /\ UNCHANGED <<Asked, project, saved, phase, probe, config, session, turn, exit>>

(* A turn ends; the prompt of repl and resume may then take another.       *)
EndTurn(result) ==
    /\ phase = "turn" /\ turn = "none"
    /\ turn' = result
    /\ UNCHANGED <<Asked, project, saved, phase, probe, config, session, declined, approved, exit>>

NextTurn ==
    /\ phase = "turn" /\ turn # "none" /\ command \in {"repl", "resume"}
    /\ turn' = "none"
    /\ UNCHANGED <<Asked, project, saved, phase, probe, config, session, declined, approved, exit>>

Answered == turn \in {"ok", "findings"}

OfTurn ==
    IF turn = "cancelled" THEN 7
    ELSE IF ~Answered THEN 1
    ELSE IF turn = "findings" /\ options.findings THEN 5 ELSE 0

(* _run_exit_code.                                                         *)
ExitCode == IF declined THEN 6 ELSE OfTurn

FinishRun ==
    /\ phase = "turn" /\ turn # "none" /\ command = "run"
    /\ Leave(ExitCode)
    /\ UNCHANGED <<Asked, project, saved, probe, config, session, declined, approved, turn>>

FinishAsk ==
    /\ phase = "turn" /\ turn # "none" /\ command = "ask"
    /\ Leave(IF Answered THEN 0 ELSE 1)
    /\ UNCHANGED <<Asked, project, saved, probe, config, session, declined, approved, turn>>

(* /exit and Ctrl+D, or Ctrl+C twice.                                      *)
LeavePrompt ==
    /\ phase = "turn" /\ turn = "none" /\ command \in {"repl", "resume"}
    /\ \E code \in {0, 7} : Leave(code)
    /\ UNCHANGED <<Asked, project, saved, probe, config, session, declined, approved, turn>>

(* cmd_doctor asks the provider for its models: it may be down, and it may *)
(* not have the configured one.                                            *)
Diagnose ==
    /\ phase = "checking"
    /\ \/ ~Warned(user) /\ ~Warned(project) /\ environ.mode # "bad" /\ Leave(0)
       \/ Leave(1)
    /\ UNCHANGED <<Asked, project, saved, probe, config, session, declined, approved, turn>>

(* Somebody saves another project file in the meantime.                    *)
SaveProject ==
    /\ phase \in {"rooted", "probed"} /\ ~saved
    /\ project' \in {[project EXCEPT !.default = "local"], [project EXCEPT !.default = "none"],
                     [project EXCEPT !.mode = "trusted"], [project EXCEPT !.key = "typo"]}
    /\ saved' = TRUE
    /\ UNCHANGED <<Asked, phase, probe, config, session, declined, approved, turn, exit>>

StartupNext ==
    \/ Discover \/ Probe \/ LoadAgain \/ GateMode \/ OpenSession \/ MakeApprover
    \/ Confirm \/ NextTurn \/ FinishRun \/ FinishAsk \/ LeavePrompt \/ Diagnose \/ SaveProject
    \/ \E result \in Turns : EndTurn(result)

StartupSpec == StartupInit /\ [][StartupNext]_startVars

-----------------------------------------------------------------------------
(* The highest layer that names a provider, and the highest that has a     *)
(* model for it.                                                           *)
TopName ==
    LET Over(name, below) == IF name = "none" THEN below ELSE name
    IN Over(options.provider, Over(environ.provider, Over(project.default, Over(user.default, "default"))))

TopModel(name) ==
    IF options.model THEN "cli"
    ELSE IF environ.model THEN "env"
    ELSE IF name \in DOMAIN project.models THEN "project"
    ELSE IF name \in DOMAIN user.models THEN "user" ELSE "built-in"

(* Flags over environment over project over user over defaults, for the    *)
(* provider and for the model it is asked for, though --model and          *)
(* GEMMA4_MODEL do not say for which provider they are meant.  A blank     *)
(* default_provider is left out, and so is a file saved between the two    *)
(* loads (agent/config.py:379-436, agent/cli.py:267-271).                  *)
TopLayerWins ==
    phase \in {"loaded", "gated", "composed", "turn"} /\ ~saved /\ TopName # " " =>
        /\ config.default = TopName
        /\ config.models[config.default] = TopModel(TopName)

(* However the files are written, and whenever they are saved, confirmations *)
(* are off only for somebody at a terminal who accepted the risk by flag,  *)
(* and who asked for it by flag or by GEMMA4_MODE (agent/cli.py:229-250).  *)
(* The variable is not what docs/agent.md:89 says ("--mode trusted         *)
(* --i-accept-risk + TTY") nor agent/config.py:389-390 ("the only layer    *)
(* allowed to select trusted mode", of the flags): no file selects it, and *)
(* the environment does.                                                   *)
TrustedIsDeliberate ==
    phase \in {"gated", "composed", "turn"} /\ config.mode = "trusted" =>
        /\ "trusted" \in {options.mode, environ.mode}
        /\ options.risk /\ tty /\ ~options.machine

(* A start refused for its configuration leaves no session behind, the one *)
(* a later resume would pick up (agent/cli.py:265-307).                    *)
RefusedLeavesNothing == exit = 4 => session = "none"

(* Exit 0 of `run` means an answer, and that no call was declined under    *)
(* the policy fail (agent/cli.py:515-524).  `ask` promises less: it exits  *)
(* 0 with an answer, whatever was declined on the way (agent/cli.py:447).  *)
ZeroMeansDone ==
    command = "run" /\ exit = 0 =>
        Answered /\ ~declined /\ (turn = "findings" => ~options.findings)

(* Where nobody can be asked, nothing that needs a human is let through,   *)
(* unless -y said so, whatever the command, ask included                   *)
(* (agent/cli.py:351-359).                                                 *)
NobodyMeansNo == approved => options.yes \/ (tty /\ ~options.machine)

(* From the files to the exit code, nothing the user did not say is taken  *)
(* as said (agent/config.py, agent/cli.py).                                *)
StartsAsTold ==
    /\ TopLayerWins
    /\ TrustedIsDeliberate
    /\ RefusedLeavesNothing
    /\ ZeroMeansDone
    /\ NobodyMeansNo
=============================================================================
