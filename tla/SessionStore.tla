----------------------------- MODULE SessionStore ------------------------------
(***************************************************************************)
(* The sessions on disk (SessionStore, agent/sessions.py) and the          *)
(* processes that use them: the REPL, a one-shot `ask`, and `session rm`   *)
(* (agent/cli.py, agent/ui/repl.py).  Two terminals may have the same      *)
(* session open, one of them may delete it, a write may fail half-way and  *)
(* a process may die at any step.                                          *)
(*                                                                         *)
(* A session is a directory with meta.json, written whole through a        *)
(* temporary file of the process, and messages.jsonl, a line per message.  *)
(* A line that was cut short has no newline, so that the next one is glued *)
(* to it; `open` says that the last line is such a line.                   *)
(***************************************************************************)
EXTENDS Naturals, SequencesExt, FiniteSets

CONSTANTS
    Sessions,     \* session ids
    Agents,       \* processes
    Providers,    \* the configured providers
    Default,      \* the one the configuration selects
    MaxMessages,  \* bound: messages in a behaviour
    MaxFaults     \* bound: failed writes and process deaths in a behaviour

ASSUME StoreAssumption ==
    Default \in Providers /\ MaxMessages \in Nat /\ MaxFaults \in Nat

VARIABLES
    dir,      \* the directory of each session
    agent,    \* the process in each slot
    removal,  \* the deletion in progress
    said,     \* the number of the latest message
    faults,   \* history: failed writes and deaths, per session
    kept,     \* history: the messages whose append succeeded, per session
    gone,     \* history: the messages a deletion has unlinked
    deleted   \* history: the sessions a deletion was begun for

storeVars == <<dir, agent, removal, said, faults, kept, gone, deleted>>

Message == 1..MaxMessages
Bad == 0    \* a line that does not parse

NoDir == [made |-> FALSE, meta |-> FALSE, temps |-> {}, log |-> FALSE,
          lines |-> <<>>, open |-> FALSE]

Free == [stage |-> "free"]

NoRemoval == [left |-> <<"nothing">>]

Busy(a)   == agent[a] # Free
At(a, st) == agent[a].stage = st

StoreTypeOK ==
    /\ \A s \in Sessions :
          /\ dir[s].lines \in Seq(Message \cup {Bad})
          /\ dir[s].temps \subseteq Agents
          /\ ~dir[s].made => dir[s] = NoDir
          /\ ~dir[s].log => dir[s].lines = <<>> /\ ~dir[s].open
          /\ dir[s].open => dir[s].lines # <<>>
    /\ \A a \in Agents : Busy(a) =>
          /\ agent[a].sid \in Sessions
          /\ agent[a].memory \in Seq(Message \cup {Bad})
          /\ agent[a].stage \in {"mkdir", "touch", "idle", "turn", "save", "replace"}
    /\ said \in 0..MaxMessages
    /\ \A s \in Sessions : kept[s] \subseteq Message /\ faults[s] \in 0..MaxFaults
    /\ gone \subseteq Message

StoreInit ==
    /\ dir = [s \in Sessions |-> NoDir]
    /\ agent = [a \in Agents |-> Free]
    /\ removal = NoRemoval
    /\ said = 0
    /\ faults = [s \in Sessions |-> 0]
    /\ kept = [s \in Sessions |-> {}]
    /\ gone = {}
    /\ deleted = {}

(* What load and list make of a directory.                                 *)
Listed(s) == dir[s].meta
Shown(d)  == d.lines

-----------------------------------------------------------------------------
(* Starting: build_app.                                                    *)

Started(kind, s, memory, stage) ==
    [kind |-> kind, sid |-> s, memory |-> memory, stage |-> stage, after |-> "idle",
     shown |-> Default, used |-> Default]

(* create: the directory comes first.  The id is a new one.                *)
CreateDir(a, s, kind) ==
    /\ ~Busy(a)
    /\ ~dir[s].made /\ s \notin deleted /\ \A b \in Agents : Busy(b) => agent[b].sid # s
    /\ dir' = [dir EXCEPT ![s].made = TRUE]
    /\ agent' = [agent EXCEPT ![a] =
                    [Started(kind, s, <<>>, "save") EXCEPT !.after = "touch"]]
    /\ UNCHANGED <<removal, said, faults, kept, gone, deleted>>

(* Then meta.json (Save and Install below), then an empty messages.jsonl.  *)
Touch(a) ==
    /\ At(a, "touch")
    /\ dir[agent[a].sid].made
    /\ dir' = [dir EXCEPT ![agent[a].sid].log = TRUE]
    /\ agent' = [agent EXCEPT ![a].stage = "idle"]
    /\ UNCHANGED <<removal, said, faults, kept, gone, deleted>>

(* touch does not make the directory: the process ends if it is gone.      *)
TouchFails(a) ==
    /\ At(a, "touch")
    /\ ~dir[agent[a].sid].made
    /\ agent' = [agent EXCEPT ![a] = Free]
    /\ UNCHANGED <<dir, removal, said, faults, kept, gone, deleted>>

(* resume, with an id or with the newest of the workspace.  What is shown  *)
(* for a damaged line is a message of the conversation like any other.     *)
Resume(a, s) ==
    /\ ~Busy(a)
    /\ Listed(s)
    /\ agent' = [agent EXCEPT ![a] = Started("repl", s, Shown(dir[s]), "idle")]
    /\ UNCHANGED <<dir, removal, said, faults, kept, gone, deleted>>

-----------------------------------------------------------------------------
(* Appending: SessionStore.append.                                         *)

(* The directory is made again if it is gone.                              *)
Opened(d) == [d EXCEPT !.made = TRUE, !.log = TRUE]

(* Mutant of Wrote: a file opened for writing instead of appending.        *)
WroteOver(d, m) == [Opened(d) EXCEPT !.lines = <<m>>, !.open = FALSE]

(* The whole line: after a line cut short it is part of that one.          *)
Wrote(d, m) ==
    [Opened(d) EXCEPT
        !.lines = IF d.open THEN Append(Front(@), Bad) ELSE Append(@, m),
        !.open = FALSE]

(* Cut short: the JSON alone, without its newline, or less than that.      *)
Torn(d, m) ==
    { [Opened(d) EXCEPT
        !.lines = IF d.open THEN Append(Front(@), Bad) ELSE Append(@, x),
        !.open = TRUE] : x \in {m, Bad} }

Fault(s) ==
    /\ faults[s] < MaxFaults
    /\ faults' = [faults EXCEPT ![s] = @ + 1]

(* The append succeeds, or the file system refuses some or all of it.      *)
Stores(s, m, ok) ==
    IF ok THEN /\ dir' = [dir EXCEPT ![s] = Wrote(@, m)]
               /\ kept' = [kept EXCEPT ![s] = @ \cup {m}]
               /\ UNCHANGED faults
    ELSE /\ Fault(s)
         /\ \E d \in Torn(dir[s], m) \cup {dir[s], Opened(dir[s])} :
                dir' = [dir EXCEPT ![s] = d]
         /\ UNCHANGED kept

NewMessage == said < MaxMessages /\ said' = said + 1

(* _append of the turn loop: the memory first; a failure is only logged.   *)
Say(a) ==
    /\ At(a, "idle") \/ At(a, "turn")
    /\ NewMessage
    /\ \E ok \in BOOLEAN : Stores(agent[a].sid, said', ok)
    /\ agent' = [agent EXCEPT ![a].stage = "turn", ![a].memory = Append(@, said')]
    /\ UNCHANGED <<removal, gone, deleted>>

(* /clear forgets the conversation and says so in the file; if it cannot,  *)
(* the error ends the process, which still saves its metadata.             *)
Clear(a) ==
    /\ At(a, "idle") /\ agent[a].kind = "repl"
    /\ NewMessage
    /\ \E ok \in BOOLEAN :
          /\ Stores(agent[a].sid, said', ok)
          /\ agent' = [agent EXCEPT ![a].memory = <<>>,
                          ![a].stage = IF ok THEN "idle" ELSE "save",
                          ![a].after = IF ok THEN "idle" ELSE "free"]
    /\ UNCHANGED <<removal, gone, deleted>>

-----------------------------------------------------------------------------
(* Metadata: persist_meta, update_meta, _secure_write.                     *)

(* Mutant of EndTurn: the session is written again from memory.            *)
EndTurnRewrites(a) ==
    /\ At(a, "turn")
    /\ dir' = [dir EXCEPT ![agent[a].sid] =
                 [Opened(@) EXCEPT !.lines = agent[a].memory, !.open = FALSE]]
    /\ agent' = [agent EXCEPT ![a].stage = "save"]
    /\ UNCHANGED <<removal, said, faults, kept, gone, deleted>>

(* The turn is over: the REPL saves, `ask` just ends.                      *)
EndTurn(a) ==
    /\ At(a, "turn")
    /\ agent' = [agent EXCEPT ![a] = IF @.kind = "ask" THEN Free
                                     ELSE [@ EXCEPT !.stage = "save", !.after = "idle"]]
    /\ UNCHANGED <<dir, removal, said, faults, kept, gone, deleted>>

(* /exit, Ctrl+D, or Ctrl+C twice.                                         *)
Exit(a) ==
    /\ At(a, "idle") /\ agent[a].kind = "repl"
    /\ agent' = [agent EXCEPT ![a].stage = "save", ![a].after = "free"]
    /\ UNCHANGED <<dir, removal, said, faults, kept, gone, deleted>>

(* The directory is made again if it is gone, and the temporary file       *)
(* opened in it.                                                           *)
Save(a) ==
    /\ At(a, "save")
    /\ dir' = [dir EXCEPT ![agent[a].sid].made = TRUE, ![agent[a].sid].temps = @ \cup {a}]
    /\ agent' = [agent EXCEPT ![a].stage = "replace"]
    /\ UNCHANGED <<removal, said, faults, kept, gone, deleted>>

Saved(a) ==
    LET next == agent[a].after IN
    [agent EXCEPT ![a] = IF next = "free" THEN Free ELSE [@ EXCEPT !.stage = next]]

(* os.replace, unless the temporary file has been deleted.                 *)
Install(a) ==
    /\ At(a, "replace")
    /\ a \in dir[agent[a].sid].temps
    /\ dir' = [dir EXCEPT ![agent[a].sid].meta = TRUE, ![agent[a].sid].temps = @ \ {a}]
    /\ agent' = Saved(a)
    /\ UNCHANGED <<removal, said, faults, kept, gone, deleted>>

(* A SessionError: create lets it end the process, persist_meta ignores it.*)
SaveFails(a) ==
    /\ At(a, "save") \/ At(a, "replace")
    /\ LET s == agent[a].sid IN
       /\ IF At(a, "replace") /\ a \notin dir[s].temps THEN UNCHANGED faults ELSE Fault(s)
       /\ dir' = [dir EXCEPT ![s].temps = @ \ {a}]
       /\ agent' = IF agent[a].after = "touch" THEN [agent EXCEPT ![a] = Free] ELSE Saved(a)
    /\ UNCHANGED <<removal, said, kept, gone, deleted>>

-----------------------------------------------------------------------------
(* /provider: the turn loop keeps the provider it was built with.          *)

SwitchProvider(a) ==
    /\ At(a, "idle") /\ agent[a].kind = "repl"
    /\ \E p \in Providers : agent' = [agent EXCEPT ![a].shown = p]
    /\ UNCHANGED <<dir, removal, said, faults, kept, gone, deleted>>

-----------------------------------------------------------------------------
(* `session rm` and /session rm: SessionStore.delete.                      *)

Children(d) ==
    (IF d.meta THEN <<"meta">> ELSE <<>>) \o (IF d.log THEN <<"log">> ELSE <<>>)
        \o (IF d.temps # {} THEN <<"temps">> ELSE <<>>)

(* The children are listed once, in reverse order of their names.          *)
BeginDelete(s) ==
    /\ removal = NoRemoval
    /\ dir[s].made
    /\ removal' = [sid |-> s, left |-> Children(dir[s])]
    /\ deleted' = deleted \cup {s}
    /\ UNCHANGED <<dir, agent, said, faults, kept, gone>>

(* Mutant of Unlinked: the file is emptied, not removed.                   *)
UnlinkedEmptied(d, child) ==
    CASE child = "meta"  -> [d EXCEPT !.meta = FALSE]
      [] child = "log"   -> [d EXCEPT !.lines = <<>>]
      [] child = "temps" -> [d EXCEPT !.temps = {}]

Unlinked(d, child) ==
    CASE child = "meta"  -> [d EXCEPT !.meta = FALSE]
      [] child = "log"   -> [d EXCEPT !.log = FALSE, !.lines = <<>>, !.open = FALSE]
      [] child = "temps" -> [d EXCEPT !.temps = {}]

(* Then they are unlinked one by one.                                      *)
Unlink ==
    /\ removal # NoRemoval /\ removal.left # <<>>
    /\ LET s == removal.sid
           child == Head(removal.left)
       IN /\ dir' = [dir EXCEPT ![s] = Unlinked(@, child)]
          /\ IF child = "log"
             THEN /\ gone' = gone \cup (Message \cap ToSet(dir[s].lines))
                  /\ kept' = [kept EXCEPT ![s] = {}]
             ELSE UNCHANGED <<gone, kept>>
    /\ removal' = [removal EXCEPT !.left = Tail(@)]
    /\ UNCHANGED <<agent, said, faults, deleted>>

(* And the directory, unless a running process has put something in it.    *)
EndDelete ==
    /\ removal # NoRemoval /\ removal.left = <<>>
    /\ LET s == removal.sid IN
       dir' = [dir EXCEPT ![s] = IF Children(@) = <<>> THEN NoDir ELSE @]
    /\ removal' = NoRemoval
    /\ UNCHANGED <<agent, said, faults, kept, gone, deleted>>

-----------------------------------------------------------------------------

(* A process dies, perhaps in the middle of an append.                     *)
Die(a) ==
    /\ Busy(a)
    /\ LET s == agent[a].sid IN
       /\ Fault(s)
       /\ \/ UNCHANGED <<dir, said>>
          \/ /\ At(a, "idle") \/ At(a, "turn")
             /\ NewMessage
             /\ \E d \in Torn(dir[s], said') : dir' = [dir EXCEPT ![s] = d]
    /\ agent' = [agent EXCEPT ![a] = Free]
    /\ UNCHANGED <<removal, kept, gone, deleted>>

AgentStep(a) ==
    \/ \E s \in Sessions : Resume(a, s) \/ \E k \in {"repl", "ask"} : CreateDir(a, s, k)
    \/ Touch(a) \/ TouchFails(a)
    \/ Say(a) \/ Clear(a) \/ EndTurn(a) \/ Exit(a)
    \/ Save(a) \/ Install(a) \/ SaveFails(a)
    \/ SwitchProvider(a)
    \/ Die(a)

StoreNext ==
    \/ \E a \in Agents : AgentStep(a)
    \/ \E s \in Sessions : BeginDelete(s)
    \/ Unlink \/ EndDelete

StoreSpec == StoreInit /\ [][StoreNext]_storeVars

-----------------------------------------------------------------------------

(* What the files promise (SessionLog): whatever processes, failures and   *)
(* deletions meet, what a resume shows of a session only grows by a record *)
(* at its end, or has its last record damaged, until it is deleted.        *)
Promise == INSTANCE SessionLog WITH
    Message <- Message, Unreadable <- Bad,
    history <- [s \in Sessions |-> Shown(dir[s])]

ImplementsLog == Promise!LogSpec

(* "One corrupt line must not lose the whole conversation" (load): of the  *)
(* messages whose append was reported as done, a session that was not      *)
(* deleted lacks one at most for every write that failed or process that   *)
(* died.                                                                   *)
OneLossPerFault ==
    \A s \in Sessions :
        Cardinality(kept[s] \ ToSet(dir[s].lines)) <= faults[s]

(* A deletion is final: a process that still has the session open may      *)
(* make its directory again, but what was deleted never comes back.        *)
DeletedStaysDeleted ==
    \A s \in Sessions : gone \cap ToSet(dir[s].lines) = {}

(* No conversation is kept where `session ls` does not show it: a          *)
(* directory with messages has its metadata, unless a deletion met a       *)
(* process that went on writing.                                           *)
HeldIsListed ==
    \A s \in Sessions : dir[s].lines # <<>> /\ s \notin deleted => Listed(s)

(* What failures, deaths, deletions and a second terminal cannot do to a   *)
(* session (agent/sessions.py).                                            *)
SessionsAreKept ==
    /\ OneLossPerFault
    /\ DeletedStaysDeleted
    /\ HeldIsListed

-----------------------------------------------------------------------------
(* What the repository says and the code does not do.                      *)

(* "/provider [name]  show or switch the configured provider" (SLASH_HELP):*)
(* a turn goes to the provider that /status shows.                         *)
TurnsGoWhereShown ==
    \A a \in Agents : At(a, "turn") => agent[a].used = agent[a].shown
=============================================================================
