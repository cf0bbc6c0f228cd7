---------------------------- MODULE MCAgentRuntime -----------------------------
(***************************************************************************)
(* A session with one edit and one command, and completions that answer,   *)
(* misspell a call, make one call or make two.                             *)
(***************************************************************************)
EXTENDS AgentRuntime

CONSTANTS edit, run, path

MCCalls == {edit, run}

MCAttr == [ c \in Calls |->
    [tool        |-> IF c = edit THEN "fs.edit" ELSE "shell.exec",
     known       |-> TRUE,
     effect      |-> IF c = edit THEN "workspace_write" ELSE "process",
     valid       |-> TRUE,
     forbidden   |-> FALSE,
     network     |-> FALSE,
     allowlisted |-> c = run,
     confirms    |-> FALSE,
     key         |-> IF c = edit THEN path ELSE NoPath] ]

MCPaths == {path}

R(calls) == [calls |-> calls, malformed |-> FALSE, attempted |-> FALSE]

MCReplies ==
    { R(<<>>), [R(<<>>) EXCEPT !.malformed = TRUE], [R(<<>>) EXCEPT !.attempted = TRUE],
      R(<<edit>>), R(<<run, edit>>) }

(* The completions of a longer session.                                    *)
MCFewReplies == { R(<<>>), R(<<run, edit>>) }
=============================================================================
