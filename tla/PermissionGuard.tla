---------------------------- MODULE PermissionGuard ----------------------------
(***************************************************************************)
(* The authorisation rules of the terminal agent:                          *)
(* src/gemma_cyber/agent/permissions.py, with the permission vocabulary of *)
(* agent/types.py.  Pure operators: the guard keeps no state of its own.   *)
(*                                                                         *)
(* A "call" is one canonical tool call: a tool name with its arguments.    *)
(* What the guard looks at is summed up in the record Attr[c]; the path,   *)
(* command and host rules are one flag, since all of them refuse the call  *)
(* in every mode.                                                          *)
(***************************************************************************)

EXTENDS Naturals

CONSTANTS
    Calls,         \* the canonical tool calls the model may propose
    Attr,          \* Attr[c]: what the guard and the pipeline look at in c
    ToolNames,     \* the names a call can carry
    Paths,         \* the workspace paths a write approval is remembered for
    NoPath,        \* the write key of a call without a path argument
    AllowNetwork   \* PermissionGuard.allow_network

Modes == {"read-only", "workspace", "agent", "trusted"}

SideEffects == {"read", "workspace_write", "process", "network",
                "security_sensitive"}

CallAttr ==
    [ tool        : ToolNames,
      known       : BOOLEAN,       \* the registry has a tool of that name
      effect      : SideEffects,   \* Tool.side_effect
      valid       : BOOLEAN,       \* the arguments pass Tool.input_model
      forbidden   : BOOLEAN,       \* an absolute path/command/host rule hits
      network     : BOOLEAN,       \* Tool.network
      allowlisted : BOOLEAN,       \* the command matches shell_allowlist
      confirms    : BOOLEAN,       \* Tool.requires_confirm
      key         : Paths \cup {NoPath} ]   \* PermissionGuard.write_key

ASSUME GuardAssumption ==
    /\ Attr \in [Calls -> CallAttr]
    /\ AllowNetwork \in BOOLEAN
    /\ NoPath \notin Paths
    \* known and effect belong to the tool, not to one call of it
    /\ \A c, d \in Calls : Attr[c].tool = Attr[d].tool =>
           Attr[c].known = Attr[d].known /\ Attr[c].effect = Attr[d].effect

ModeRank == [ m \in Modes |-> CASE m = "read-only" -> 0
                                [] m = "workspace" -> 1
                                [] m = "agent"     -> 2
                                [] m = "trusted"   -> 3 ]

AtLeast(mode, floor) == ModeRank[mode] >= ModeRank[floor]

ModeAllows(mode, effect) ==
    \/ effect \in {"read", "security_sensitive"}
    \/ effect = "workspace_write" /\ AtLeast(mode, "workspace")
    \/ effect = "process" /\ AtLeast(mode, "agent")
    \/ effect = "network" /\ AllowNetwork

IsVisible(mode, c) ==
    /\ ModeAllows(mode, Attr[c].effect)
    /\ Attr[c].network => AllowNetwork

(* The controls no mode and no prompt can lift: _check_paths,              *)
(* _check_command and _check_network run before anything else.             *)
Absolute(c) == Attr[c].forbidden \/ (Attr[c].network /\ ~AllowNetwork)

NeedsConfirm(mode, approved, c) ==
    /\ mode # "trusted"
    /\ CASE Attr[c].effect = "workspace_write" -> Attr[c].key \notin approved
         [] Attr[c].effect = "process"         -> ~Attr[c].allowlisted
         [] OTHER                              -> Attr[c].confirms

(* Mutant of Authorize: the prompt comes before the absolute rules and the ceiling. *)
AuthorizePromptFirst(mode, approved, c) ==
    IF NeedsConfirm(mode, approved, c) THEN "confirm"
    ELSE IF Absolute(c) \/ ~ModeAllows(mode, Attr[c].effect) THEN "deny"
    ELSE "allow"

(* authorize(): "deny" stands for a raised PermissionDenied.               *)
Authorize(mode, approved, c) ==
    IF Absolute(c) \/ ~ModeAllows(mode, Attr[c].effect) THEN "deny"
    ELSE IF NeedsConfirm(mode, approved, c) THEN "confirm"
    ELSE "allow"
=============================================================================
