----------------------------- MODULE MCToolRuntime -----------------------------
(***************************************************************************)
(* A small toolbelt for ToolRuntime: an edit and a new file on one path,   *)
(* an edit of a second path, a command that is not allowlisted, an edit an *)
(* absolute rule forbids, a tool that does not exist and arguments that do *)
(* not validate.  The bounds are on the history: calls handed to the       *)
(* pipeline and abandoned threads alive at one time.                       *)
(***************************************************************************)
EXTENDS ToolRuntime

CONSTANTS
    MaxCalls,    \* calls in one history
    MaxOrphans   \* abandoned threads alive at one time

CONSTANTS editA, writeA, editB, run, escape, bogus, badArgs, pathA, pathB

Call(tool, effect, key) ==
    [tool |-> tool, known |-> TRUE, effect |-> effect, valid |-> TRUE,
     forbidden |-> FALSE, network |-> FALSE, allowlisted |-> FALSE,
     confirms |-> FALSE, key |-> key]

MCCalls == {editA, writeA, editB, run, escape, bogus, badArgs}

MCAttr == [ c \in Calls |->
    CASE c = editA   -> Call("fs.edit", "workspace_write", pathA)
      [] c = writeA  -> Call("fs.write", "workspace_write", pathA)
      [] c = editB   -> Call("fs.edit", "workspace_write", pathB)
      [] c = run     -> Call("shell.exec", "process", NoPath)
      [] c = escape  -> [Call("fs.edit", "workspace_write", pathB) EXCEPT !.forbidden = TRUE]
      [] c = bogus   -> [Call("no.tool", "read", NoPath) EXCEPT !.known = FALSE]
      [] c = badArgs -> [Call("fs.write", "workspace_write", pathB) EXCEPT !.valid = FALSE] ]

MCPaths == {pathA, pathB}

Bound ==
    /\ serial <= MaxCalls
    /\ Cardinality(orphans) <= MaxOrphans
=============================================================================
