# Verification of the gemma-cyber agent, registry and serving stack

This directory holds TLA+ models of the program in `src/` (the Python package
`src/gemma_cyber`), TLC configurations that check them on small instances, and
theorems about them whose proofs TLAPS checks. Paths below are relative to
`src/src/gemma_cyber/` unless they say otherwise.

    tlc -workers 2 -config MCToolRuntime.cfg MCToolRuntime     # one run
    tlapm AgentProofs.tla                                      # one proof module

`PROJECT.json` is the index: components, runs, the lines of code each definition
stands for, the hazards and which property watches each, the mutants that show
that every property can fail, the theorems, and the disagreements found.

## 1. Inventory

The program is two systems that share an inference layer: a terminal agent
(`agent/`), in which a local model proposes tool calls and a user approves them,
and a serving stack (`api/`, `inference/`, `clients/`) with a model registry.
Offline tooling (`data/`, `training/`, `evaluation/`) surrounds both.

### Terminal agent

| Part | State | Operations | Talks to |
|---|---|---|---|
| Permission guard (`agent/permissions.py`, `agent/types.py`) | the session's mode; reads the approvals | `authorize`, `is_visible`, `write_key` | called by the tool pipeline and by the request builder |
| Tool pipeline (`agent/tools/base.py`, `agent/ui/approvals.py`, `agent/audit.py`) | approved write keys, tools answered "always", the call being executed, its worker thread, abandoned threads, the audit log | `execute`, `_run_with_timeout`, `_finalise`, `_record_failure`, `approve`, `AuditLog.record` | guard, approver, tools (one thread each), audit file |
| Tools (`agent/tools/fs.py`, `shell.py`, `security.py`) | the workspace, sub-processes, undo snapshots | `run` of each tool | workspace jail, undo store, operating system |
| Turn loop (`agent/runtime.py`) | messages, iteration, call counts, cancel token, `_compacted_once` | `run_turn`, `_loop`, `_one_completion`, `_stream`, `compact`, `_append` | provider, context manager, pipeline, session store |
| Context packing (`agent/context.py`) | calibration of the token estimate | `build`, `observe` | turn loop |
| Codec (`agent/codec.py`) | the buffer of a partially received completion | `feed`, `finish`, `parse` | turn loop |
| Providers (`agent/providers/`) | one HTTP stream | `complete`, `capabilities` | Ollama, OpenAI-compatible servers |
| Sessions and undo (`agent/sessions.py`) | `messages.jsonl`, `meta.json`, `index.jsonl`, one blob per file version | `create`, `append`, `load`, `list`, `delete`, `snapshot`, `pop_latest` | turn loop, `fs.edit`, `/undo`, `gemma4 resume` |
| Workspace and scans (`agent/workspace.py`, `agent/tools/fs.py`, `agent/tools/security.py`) | none; reads the tree under the root | `resolve`, `iter_files`, `tree_stub`, `instruction_files`, `fs.read`, `fs.glob`, `fs.grep`, `sec.secrets`, `sec.deps`, `sec.semgrep` | file system, `rg`, `gitleaks`, `semgrep` |
| Shell tool (`agent/tools/shell.py`) | a process group, time waited, polls since SIGTERM | `run`, `_spawn`, `_terminate` | operating system |
| Configuration (`agent/config.py`) | four layers and what they merge to | `load_config`, `_strip_forbidden`, `_strip_trusted`, `_env_overlay`, `_merge` | files, environment, flags |
| REPL and wiring (`agent/ui/repl.py`, `agent/cli.py`) | the running turn, the SIGINT handler, the exit code | `_turn`, `/mode`, `/clear`, `/compact`, `/undo`, `/provider`, `session rm`, `build_app`, `cmd_run`, `cmd_ask` | everything above |

What makes it hard:

* one cancel token is shared by the SIGINT handler, the provider stream, the tool
  thread and the pipeline's backstop, and is reset by the next turn;
* a tool that overruns its backstop is abandoned, not stopped: its effect can land
  while later calls, or later turns, are running;
* approvals outlive the call they were given for, by path or by tool name;
* a turn can stop (cancel, deadline, loop, error, crash) between any two messages
  it appends, and what is left must still be a conversation a provider can read,
  after packing, compaction, `/clear` and a resume from the session file;
* retries, hints, compaction and iterations nest, and each is separately bounded;
* a write to the session file may fail, and the turn goes on without it: memory and
  file are then apart, and a resume starts from a file with gaps;
* a session directory belongs to whoever has it open: two terminals may append to it
  while a third command deletes it, child by child, and an append makes the directory
  again;
* a command's children may ignore SIGTERM, hold its pipes and outlive it;
* the configuration is read twice, a project's file is not trusted with everything it
  may say, and what a one-shot run says with its exit code must be what happened.

What makes it correct: nothing changes the world that the mode, the absolute rules
and the user did not allow; every effect is in the audit log; memory and session
file agree but for the writes that failed; a conversation is readable but for what those
writes left out; every turn comes back to the prompt and names its reason truthfully.

### Serving stack

| Part | State | Operations | Talks to |
|---|---|---|---|
| Model registry (`inference/registry.py`) | one JSON file, one copy of it per process | `register`, `mark_evaluated`, `promote`, `production`, `save` | admin routes (`api/app.py`), `cli/main.py`, seeding script |
| API (`api/app.py`, `api/security.py`) | rate-limit windows per key, in-flight counter, readiness cache, engine | `/v1/generate`, `/v1/ready`, `/health`, `/admin/*` | engine, registry |
| Authentication (`api/auth.py`, `inference/config.py`) | the posture chosen at start, resolved signing keys | `validate`, `get_principal`, `verify`, `require_scopes` | the tenant's key set |
| Engine (`inference/engine.py`, `clients/ollama_client.py`) | the attempt a call is at, the tag it was built for | `generate`, `stream`, `health`, `from_settings` | Ollama, registry |
| Web page (`api/web/app.js`) | token, verifier and state, the request in flight, the bubble it fills, the badge | `boot`, `login`, `send`, `cancel`, `refreshStatus`, `refreshLiveness` | API, the tenant |

What makes it hard: several processes write the registry file from stale copies, and a
save may fail after the copy has changed; the server reads the registry once and an
engine reads it again; requests are admitted under a counter and a window which worker
threads, timeouts and disconnecting clients must all give back; signing keys rotate
while tokens live; the page's timers overtake each other, its user goes back, reloads,
signs in twice and cancels, and its stream may break at any event.

What makes it correct: one production version at most; nothing ships without having
cleared its gate, and nothing else is served; every admitted request gives its slot back
exactly once; in every environment a server can be started with, the registry is written
by nobody but an administrator; the page calls complete what is.

### Offline tooling

| Part | State | Operations | Talks to |
|---|---|---|---|
| Evaluation (`evaluation/`, `cli/main.py`) | records, `results.json`, `scorecard.md` | `run_benchmark`, `rescore_results`, the scorers, the judge, the gate of `gemma-cyber eval` | engine, files |
| Datasets (`data/`, `scripts/`) | items collected, the exported file | `add`, `export_dataset_to_jsonl`, `load_training_dataset`, `check_contamination` | files |
| Training data (`training/mlx_data.py`, `training/sft.py`, `data/formatting.py`) | train, valid and manifest files | `build_mlx_dataset`, `to_gemma_chat_text`, `completion_mask_start` and the collator | files, external trainer |

They run one process at a time, but each writes several files one after the other, in
place, and is run again over what an earlier run left. What makes them hard is a death
between two writes, and the edges of their rules: a letter named twice, an identifier
contained in another, a rate that was rounded, a text shorter than an n-gram, files given
in the other order. What makes them correct: figures are those of the records, a held-out
item never trains, a copy of a benchmark question is noticed by a comparison that looks
at it, and it is known exactly which part of a conversation trains.

## 2. Modules

    PermissionGuard --- ToolPipeline --+-- ToolRuntime --+
                                       |                 +-- AgentProofs
                                       +-- AgentRuntime -+
    ModelRegistry --- ModelRegistryProofs
    SessionStore (implements SessionLog) --+-- MCStorage --- StorageProofs
    FileEdits -----------------------------+
    Gate --+-- GateProofs
           +-- WebPage --------------------+
    Serving -------------------------------+-- MCCalls --- CallsProofs
    ShellCommand --------------------------+
    Packing -------------------------------+
    Codec --- Completion ------------------+-- MCStreams --- StreamsProofs
    Readiness -----------------------------+
    Startup   Evaluation   Datasets -------+-- MCRules --- RulesProofs
    Scanning  Gate         Catalogue ------+
    Recursion: StreamsProofs, CallsProofs, RulesProofs
    GateProofs: CallsProofs, RulesProofs

Each line is an EXTENDS, left to right (the last two name who extends the module
in front). `MC*` modules give the constants of a component the values the configurations
use. Four of them check several components in
one run: `MCStorage` (FileEdits, SessionStore), `MCCalls` (WebPage with Gate, Serving,
ShellCommand, Packing), `MCStreams` (Completion, Readiness) and `MCRules` (Startup,
Evaluation, Datasets, Scanning, Gate, Catalogue). The components of one such module share
no variable, so their product would only multiply the states; a variable `subject` names
the component a behaviour moves, and the others keep one initial state each. Every
behaviour of every component is a behaviour of the run, and no property relates two of
them. Temporal properties are stated for the behaviours of their subject, and fairness is
assumed of the subject's actions only.

**PermissionGuard** is `permissions.py` as operators: `ModeAllows`, `IsVisible`,
`Absolute` (the path, command and host rules, which refuse in every mode),
`NeedsConfirm` and `Authorize`, in the order the code tests them. A call is an
element of `Calls`; what the guard looks at in it is the record `Attr[c]`. The
matching of path, command and host patterns is one flag of that record.

**ToolPipeline** is `ToolRuntime.execute` and `_run_with_timeout`. `stage` says
where the call is (idle, approval, running, done), `cur` is its worker, `orphans`
the workers left behind. Actions: `Refuse`, `Admit` and `AskUser` (up to the
worker), `Answer`, `ApproveUnasked` and `Reject` (the approvers), `LandActive`
and `LandOrphan` (a thread's effect), `ToolReturns`, `ToolRaises`,
`ToolCancelled`, `Backstop`, `Deliver`; around it `CancelSet`, `CancelReset`,
`SetMode`, `Restart`. `PipeSpec` runs it under the most general caller.

**ToolRuntime** is the same machine with what it leaves behind: the audit log, and
as history variables the grants the approver gave and the effects the threads had.
The safety properties of the pipeline are stated here.

**AgentRuntime** is a session: `pc` walks through `run_turn`, `_loop`,
`_one_completion` and `compact`; each completion the model may give is a member of
`Replies`. `messages` is the conversation in memory, `request` the packed one being
streamed, `log` the session file. `AppendMessage` is `_append`: the message goes to the
memory, and then to the file (`Written`) or, when `sessions.append` raises, not
(`NotWritten`); the error is logged and the turn goes on. A write that fails leaves
nothing in this file; the torn record it may leave, and what is glued to it, are
`SessionStore`'s. `saved`, `lost` and `missed` remember which messages the file
has, for the properties only. Provider errors, Ctrl+C (between any two steps),
the passing of the deadline, a crash with a resume, and the commands of the prompt
are actions. The pipeline's actions are conjuncts of the loop's, so that a call
takes the pipeline's own steps; `ImplementsPipeline` states that the composition
implements `PipeSpec`.

**ModelRegistry** is `registry.py` with its writers as processes: each `Open`s the
file, changes its copy, and saves it or fails to (`ChangeAndSave`).

**FileEdits** is what happens inside a `LandActive` or `LandOrphan` of the pipeline
when the tool is `fs.edit` or `fs.write`: one file, at the grain of the file system.
An edit is a thread that compares the hash (`Check`), records a snapshot
(`Snapshot`), opens the temporary file (`OpenTemp`, or `Jam` when its fixed name is
taken), fills it (`Fill`) and moves it into place (`Replace`), and may fail at each
step; a creation writes in place (`Create`, `FillCreated`). `/undo` reads the index,
rewrites it, truncates the file and writes it (`UndoRead` ... `UndoWrite`). A user
saves the file at any time, the pipeline may abandon the thread it waits for, and the
process may die at every step and resume the session (`Restart`). A content is the
sequence of changes that made it, so that "an earlier state of" is "a prefix of". The
model has one file, a user who saves what he sees with a change of his own, and
nobody who deletes the file.

**Serving** is `POST /v1/generate`. A request goes through `stage`: `new`, in the rate
limiter (`limiting`), let in (`routed`) or `refused`, with a slot of the capacity
(`waiting` for its answer, `streaming`, or `leaving` when the client of a stream is
gone), `done`. The limiter is a plain function that the framework runs on threads of
its pool, so `allow` is two steps: `ReadHits` (the time and the filtered list) and
`Allow` or `Refuse` (the list put back); what a call has read is `seen[r]`. The handler
is a coroutine and atomic between awaits: `TurnedAway`, `Start` (acquire, and the
thread), `Answer`, `Expire` (the deadline), `StreamOver`, `NextPiece`, each with its
`Release`. `thread[r]` is the thread in `InferenceEngine.generate` or `stream`:
`CallEnds`, `CallFails` (with `MayRetry`), `BackoffOver`, `Piece`. A thread lives on
after `Expire`; a stream's thread is waited for up to its next piece. Hits are records
of a request and a time; the code's are times only, and which request one counts is
what the properties are about. `entered` and `overlaps` are history variables.

**Codec** is `codec.py` as operators on sequences of characters. `Feed` and `Finish`
are `ToolCallStreamParser`: `Digest` is its loop, `Held` the part of the buffer that may
be the beginning of a tag, `Accept` the limit on calls. `Whole` and `WholeCalls` are
`parse_tool_calls`. What `_decode_payload` makes a call of is the set `Decodable`.

**Completion** is one attempt of `_one_completion`: a provider reads the server's
lines on a thread (`TextLine`, `CallLine`, `FragmentLine`, `JunkLine`, `OtherLine`,
`ErrorLine`, `DoneLine`) until its stream ends (`BodyEnds`, `Breaks`, `CancelSeen`);
`Puts` and `Stops` are the pump of `_stream`, and `Take` is the coroutine that takes an
event from the queue. Both adapters are there, as `provider`: Ollama's knows a marker of
the end, counts bad lines and sends a call as a whole; the OpenAI one collects the
fragments of calls and makes calls of them at the end (`Finished`). What the server may
send is the environment. `AgentRuntime` starts where this module ends: an attempt there
gives output, and then returns or fails.

**SessionLog** is the promise of the session store: what a resume of a session would show
grows by a record at its end, may have its last record damaged, and is taken away by a
deletion only. **SessionStore** is the code under it: `create` as `CreateDir`, `Save`,
`Install`, `Touch`; `append` as `Say` and `Clear` with `Stores` (the line is written, or
cut short, or not at all); `persist_meta` as `EndTurn`, `Exit`, `Save`, `Install`,
`SaveFails`; `delete` as `BeginDelete`, one `Unlink` for each child listed at its start,
`EndDelete`; `Resume`, `SwitchProvider` and `Die`. Up to two processes use a session while
it is deleted. A message is a number, a damaged line is `Bad`, and `open` says that the
last line has no newline, so that the next append is glued to it. `ImplementsLog` is the
refinement: `SessionLog` with `history` as what `load` makes of the lines.

**Gate** is `create_app`'s posture (`Starts`, `Posture`), for every combination of the
environment variables that matter to it, and a request against it: `Authenticate` and
`Verify` (with the keys the client has resolved), `Authorize`, `Generate`, `Admin`. The
clock, the tenant's keys and whether its key set can be fetched are the environment.

**WebPage** is one tab of `app.js`, on top of `Gate`: `Boot`, `Login`, `Return` (with the
code of the latest or of an earlier login, with an error, or by Back), `Exchange`,
`Logout`, `Reload`, and a generation: `Send`, `Serve` (Gate answers, or the server turns it
away), `TakeStatus`, `TakeEvent`, `TakeEnd`, `Cancel`, `AbortError`, `NetworkError`. The
server's stream is `StreamPiece`, `Done`, `Fails` and `Breaks` (`_sse` of `api/app.py`).

**Readiness** is the badge: polls of `/health` and `/v1/ready` in flight (`Begin`,
`Health`, `Ready`, `Unanswered`, `TakeHealth`, `TakeReady`), the server's cached answer and
its age, and a server and a runtime that come and go.

**Catalogue** is the choice of a model: `Start` reads the registry once and builds an
engine, `SelectModel` is `_resolve_engine` with its policy (`Allowed`) and the resolution
of a reference by the file of the moment (`ResolveReference`), while `OtherWrites` and
`AdminWrites` change file and copy. What a legal write is belongs to `ModelRegistry`.

**ShellCommand** is one call of `shell.exec`: `Reject`, `Spawn`, a `Slice` of `communicate`
at a time, `Complete`, and `_terminate` as SIGTERM to the group (`Term`), `Poll`s of the
leader, SIGKILL. The command and one child are processes that may ignore SIGTERM, hold the
pipes, `Fork` and end (`EndProcess`) when they like; `CancelShell` is the cancel token.

**Packing** is `ContextManager.build`: `Prepare` (the budget and the bounded tool results),
`DropExchange` (`DropOldest` with its floor), `DropBlock`, `Overflow`, `Pack`. It is checked
against a definition that does not drop but chooses: the longest part that may be sent and
fits (`Admissible`, `Longest`).

**Startup** goes from the command line to the exit code: the layers (`Stripped`, `EnvLayer`,
`CliLayer`, `Merge`, `Select`), the two loads with a save of the project's file possible
between them (`Probe`, `SaveProject`, `LoadAgain`), the gate on trusted mode, the session,
the approver, the calls of a turn that need a human (`Confirm`, under the mode and the
approver of the start, for `ask` as for any other command: it empties the registry of the
agent and of the turn loop, and the `ToolRuntime` that executes has its own), the turns as
outcomes, and `ExitCode`.

**Scanning** is one call of a reading tool over a tree of three paths, each a regular,
large, binary or unreadable file, a named pipe, a link inside or outside, absent, and
plain, ignored, hidden or in a low-signal place. A walk is one `Visit` per file, with the
cap and the cancel token checked where the code checks them; `ReadFile`, `TreeStub`,
`InstructionFiles`, `Ripgrep`, `Gitleaks`, `DepsAudit` and `Semgrep` are single steps.
`Ripgrep` searches the scope that `grep` resolved, knows `.gitignore` and hidden names and
nothing of `.gemma4ignore`, gives its hits file by file in any order, and is cut at the cap.
Two manifests are audited and one is only listed; each is absent, read, unreadable (too
large, binary, a link) or away.

**Evaluation** is `run_benchmark` and `rescore_results`: `Ask` and `AskFails` per item, the
scorers over short token sequences (`Letter`, `Factual`, `Keyword`), the judge's output as
read by `Verdict`, `Aggregate`, `Report`, `Truncate` and `Fill` of `results.json`,
`WriteCard`, the gate, and `Die` at every step.

**Datasets** has the builder (`Add`, `Fresh`, export in two steps with a death between),
`build_mlx_dataset` (`BeginPrepare`, `WriteSide`, `WriteManifest`, each of which may be cut
short), the two comparisons as one step each (`Examine` with `Normal`, `Grams`, `Similar`,
over training rows with and without a system message and a later question, and benchmark
rows with and without a context), and the formatter with the mask (`ChatText`, `MaskStart`, `Collate`).

## 3. Runs

| Run | Question | Result |
|---|---|---|
| `tool_runtime` | Over seven kinds of calls, mode changes, abandoned threads, Ctrl+C and restarts: is every effect permitted, consented to, audited, and never one of a refused call? | holds |
| `agent_session` | Two turns with two calls each, every stop, compaction, a failed write of the session file, a crash and a resume: are conversations readable, answered and persisted but for what the failed write left out, is at most one result lost per crash and per failed write, are stop reasons true, does what is shown come from one attempt, does nothing start after Ctrl+C, and does the loop drive the pipeline only as the pipeline allows? | holds |
| `agent_turn` | With every kind of completion and retry, does a turn end? | holds |
| `agent_dangling` | Does every request carry a result for every call? | violated |
| `registry` | With two writers, stale copies and failing saves, is there one production version at most, and did all that is shipped clear its gate? | holds |
| `storage` | Edits, creations, user saves and `/undo` on one file, and a session directory that two terminals use and one deletes, each failing or dying at any step: does `/undo` walk back, is an edit never seen half-written, does it keep what was saved before its hash was compared; does the store keep `SessionLog`'s promise, lose one message at most for every fault, and never bring back what was deleted? | holds |
| `provider` | After `/provider`, do the turns go where `/status` says? | violated |
| `calls` | Does everybody who waits get the right end: a request of the page (complete means done), three requests that race through limiter, capacity, deadlines, retries, a stream and disconnects (slots, rates, refusals), a command with a stubborn child, the packing of a prompt? | holds |
| `serving_capacity` | Do no more generations run than the capacity allows? | violated |
| `streams` | Texts cut at every character, native calls whole and in fragments, bad lines, errors, early ends, Ctrl+C: is the answer the one the model gave? Polls that overlap and a cached answer: is the badge right once the service stays as it is? | holds |
| `rules` | Do layers, exit codes, scores, gates, splits, comparisons, masks, scans, admissions and model choices decide what they should, for every small input and through every failure? | holds |
| `leaks` | Does `check_contamination.py` stop a training file that holds the benchmark's very questions? | violated |

The violated ones are statements of the repository's own documents or comments
that the code does not keep; "findings" in `PROJECT.json` quotes each.

A property of these runs is often a conjunction of named parts, each with its own
comment beside it in the module: `SessionsAreKept`, `FiguresAreEarned`, `StartsAsTold`.

### Bounds, and why they are enough

* `tool_runtime`: two calls handed over and one abandoned thread at a time. Every
  property relates one effect to one grant, one record or one earlier "always", so
  two calls show every pair; the theorems drop the bound. The calls are chosen so
  that each pair of interest is there: two tools on one path, two paths for one
  tool, a command, a forbidden, an unknown and an
  invalid call. Modes and restarts are unbounded.
* `agent_session`: two turns, two completions each, two calls in a completion, one
  crash, one failed write (`MaxFaults`), two attempts. Two turns are the least for a
  stale cut, an abandoned thread landing in a later turn, and a compaction that keeps
  half a round; a crash in either, before or behind the failed write. `LoopLimit` is 2,
  so that it is reached within a completion, between two and in the second turn.
* `agent_turn`: one turn with three iterations and three attempts (the code's
  `MAX_PROVIDER_ATTEMPTS`), and `LoopLimit` 2, so that each bound is reached before
  the others in some behaviour; one write may fail.
* `storage`, the file: five changes, one abandoned thread, one death of the process. The
  properties relate two neighbouring snapshots, or the newest and the file, and an
  edit, its undo and the next edit with a save between any two of them need four
  changes. `UndoWalksBack` and `EditsAreAtomic` are stated for behaviours without an
  abandoned thread (`abandoned = 0`): that condition is not for convenience. Without
  it TLC violates both. An abandoned edit and a later one share the temporary name,
  so the first one's clean-up frees the name and its `os.replace` moves the second
  one's half-written file into place; and an abandoned thread may record its snapshot
  after that of the edit that overtook it. `LeftoversJamOnce` holds with overlap too.
* `storage`, the session: one session, two terminals (alike, hence the symmetry), four
  messages, two faults. `VIEW Remembered` leaves out what a running process remembers of
  the conversation: no step and no property of the store depends on it. Sessions do not touch each other's directories; `OneLossPerFault`
  needs a torn record, one glued to it and one after that; two faults are the least for
  two torn records in a row and for a death after a failed write. `CHECK_DEADLOCK FALSE`,
  here and in the other runs that have it: what is asked for comes to its end.
* `registry`: two versions and two writers, each as often as it likes. The history field
  `cleared` doubles the records, so a behaviour lets any subset of the writers (`crew`)
  write any subset of the versions (`stock`); where both are everything, `VIEW MCView`
  tells states apart without the history, which `SingleProduction` does not depend on
  (stages depend on stages and `passed`). `ShippedHasCleared` is therefore decided for two
  writers of one version and for one writer of two; the theorem covers the rest.
* `calls`, the server: three requests of one caller, one of them a stream, a limit of 1 in a
  window of 1 tick, a capacity of 1, two attempts, a clock of 2. Keys do not touch each
  other's lists, so one caller is the case of interest. Three requests are the least for
  two overlapping calls of the limiter with a third after them, and for a slot that goes
  from one request to another while an abandoned thread goes on. Two ticks are the least
  for a hit on the edge of the window and one outside it. `CHECK_DEADLOCK FALSE`: the
  server is idle when its clients are done. What `RateBounded` allows is what TLC finds
  to be so: each overlapping call of the limiter may cost the list one hit, and no more.
  The theorems about slots and refusals drop the bounds.
* `calls`, the page: two signing keys, four ticks (0 to 3) with a leeway of 1, tokens that
  live two ticks, two logins, two pieces of a stream. Two logins are the least for the
  callback of an earlier one; two pieces for a stream that breaks half-way; with four ticks
  a token expires, and is then past its leeway, while the page has it. One request is in
  flight at a time, as in the code.
* `calls`, a command: a limit of three slices, two polls (20 in the code), one child.
  Requested timeouts lie below and above the limit. The child is the least for a group that
  outlives its leader; what more children would add is more of the same.
* `calls`, a packing: conversations of up to three messages of cost 1 or 3 with every
  sequence of roles, budgets from 1 to 8, up to two optional blocks: three messages are the
  least for an exchange to drop, one to keep and a floor between them, and the budgets
  cover "too small for the policy" to "everything fits". Every conversation is an initial
  state.
* `streams`, a completion: tags of three characters with the shape of the code's (`<t>`,
  `</>`: the first character is shared and comes once), every text of up to three of six
  fragments (the tags, a call, pieces of tags, a letter), cut at every character: three
  fragments are the least for a call, a second opening and a second close in any order,
  and texts that nearly are tags. One native call of three fragments and one of a
  single one; one call per message and one bad line, so that both limits are passed;
  one event in the queue, because what is queued later is read later in any case.
* `streams`, the badge: two polls in flight, a time to live of two ticks. Two polls are the
  least for one answer to overtake another.
* `rules`: `MaxTokens` 3 and ten tokens give responses of up to three words, among
  them each letter next to each other letter; benchmarks have up to three items of two
  categories and splits, and `Scale` is 10 (1000 in the code), so that a third is rounded;
  two jobs, so that a rescoring meets a complete and a torn file. Datasets: three ids in different
  buckets, two items per build, two exports and two preparations with fractions 0.2 and
  0.6: from one manifest to the next items come, go and change places. N-grams of two
  words; questions of one to four words, two system messages that share a word with a
  context of a benchmark, or none, so that a training row may have the very words of a
  benchmark record with a context. Scans: three files with a cap of two, so that each list
  may be cut within a file and between files. Catalogue: two versions. Gate: two keys, four ticks. Startup: two
  provider names, four layers. A conversation that trains has up to `MaxTurns` 4 messages,
  and its text is cut to each of `Limits` (2, 5, 8, 20 tokens): before, between and behind the
  markers, and not at all. `IdleAssumption`, here and in `MCCalls`, says that the state a
  component waits in while it is not the subject is one of its states.
* `provider`, `serving_capacity`, `agent_dangling` and `leaks` have the bounds of the passing
  run of the same component, or smaller ones.

### Fairness

`AgentFairness` assumes weak fairness of: the loop's own steps (one asyncio task,
nothing preempts it for ever); the tool thread (`_run_with_timeout` ends it at its
backstop whatever the tool does); the approver (the user answers the prompt: without
that a turn may wait for ever, since the prompt has no timeout); the end of a backoff
sleep and of a summarising completion. `FairSpec` adds that a provider stream ends,
by finishing, failing, or the HTTP read timeout of the provider. No fairness is
assumed of the user's commands, Ctrl+C, the deadline, orphans or crashes.
A provider that keeps sending for ever is what the read timeout does not catch and
`TurnEnds` does not cover: nothing looks at the deadline while a stream goes on.

`ServingFairness`: the event loop takes a request's next step (`LoopStep`; a stream's
client reads on or leaves, since a response has no write timeout), a backoff sleep ends,
and a call to Ollama ends, by the client's timeout or by what it may generate
(`num_predict`, 512 unless the request says otherwise, at most 4096). The last is strong
fairness, because each piece of a stream disables it for a moment. Nothing is assumed of
deadlines, disconnects, the clock, or requests that arrive.

`FairCompletionSpec`: the event loop runs the coroutine (`Take`), and the server's stream
ends: the client's read timeout breaks a silent one, and a model that generates comes to
its end or its token limit. That is strong fairness, since a full queue holds the pump
up for a moment (a bound of the model; the code's queue has none). Nothing is assumed
about Ctrl+C.

The page (`WebPage`): the server answers (`Serve`) and its stream ends in one of its three
ways (Ollama caps what it generates and the client's timeout breaks a silent one); the
browser delivers what has arrived (`Receive`). Nothing is assumed of the user or the tenant.

`ShellCommand`: the thread of the tool takes its next step (`Calling`); it waits with
timeouts only. Nothing is assumed of the processes, of Ctrl+C, or of what they do with
signals other than SIGKILL. `Packing` is one loop on one thread.

`Readiness`: an answer or a failure comes to every poll (`PollStep`), the status timer keeps
finding a free poll (strong fairness of `Begin(p, "status")`), and the server's clock goes on
(`Age`). `BadgeSettles` asks for nothing unless server and runtime stay as they are.

`MCCalls` and `MCStreams` state the same fairness, each condition for the behaviours of its
subject.

## 4. Proofs

Every invariant the runs check is also a theorem, of the specification its module gives the
component, and so is every action property and both refinements. `TypeOK`s that several
components share a run for (`StorageTypeOK`, `CallsTypeOK`, `StreamsTypeOK`, `RulesTypeOK`) are
proved of the specification of that run, from the invariants of its components: a step moves
the variables of one subject, and the others' invariants do not notice. The components wait in
a state of their own (`ShellIdle`, `GateIdle`, ...), which is shown to be one of their
states; `IdleAssumption` of `MCCalls` and of `MCRules` is what that needs of the constants.

**Induction over data.** **Recursion** is how the proofs speak of what a recursive function
computes. The induction theorems of the library take an operator and cannot be used; these say
the same of sets: a set of naturals that is not empty has a least element (`LeastNatural`, from
the well-foundedness of the order on the naturals, which is stated of a relation), so a set
`S` that contains every `x` of `D` whose smaller elements, by a measure `m`, are all in `S`,
contains all of `D` (`MeasureInduction`, `StepInduction`). `RecursionIsDefined` says that there is a function that
satisfies an equation whose right-hand side asks for the value at one smaller element only, so
that the CHOOSE behind a recursive definition is that function. With it, `Digest`, `Whole`,
`Accepted`, `Cost`, `Conversation` and `ChatText` are proved to do what their equations say,
for every input.

**AgentProofs**, the pipeline: it proves, for every toolset, every approver and any number
of calls, threads and restarts, `ToolSpec => []` of `ToolTypeOK`, `ConsentIsKept`
(`EffectsConsented` and `UnaskedIsBacked`), `EffectsWithinCeiling`, `RefusedNeverLands` and
`EffectsAudited`, from `GuardAssumption` (the shape of `Attr`; a tool's kind is the
same for all its calls) and `ApproverAssumption`. None of these is inductive: they speak of effects,
and say nothing of threads whose effect is still to come. `ToolInv` adds

* `Ordered`: serial numbers of workers, records and grants are in the past, and a
  number belongs to one worker;
* `AllPermitted` and `AllConsented`: what the properties say of effects holds already
  of the running worker and of every orphan, whose effect may come at any time;
* `AlwaysBacked`: every tool in `always` has the grant that put it there;
* `AllAudited`: every finished call has its record, and the worker in the pipeline
  has none yet.

One lemma per kind of action (`AdmissionOrdered`, `RefusalRecorded`, `GrantAdded`,
...) carries each part over a step; `ToolInvStep` assembles them.

**ModelRegistryProofs** proves `RegistryTypeOK`, `SingleProduction` and
`ShippedHasCleared` for any number of versions and writers, with no assumption. The
argument is about one set of records: `Sound` is closed under every operation, and a
load or a save, complete or failed, moves whole sets. `FlagIsHonest` (a record whose
`passed` flag is set has cleared its gate) makes the gate inductive.

**AgentProofs**, the loop: it proves, for every tool, reply and mode, every limit of the loop
and any number of turns and deaths, `AgentTypeOK`, `ConversationsReadable`, `TurnsAreTruthful`,
`FileKeepsUp`, the action property `NothingStartsAfterCtrlC`, and that the loop implements the
pipeline (`ImplementsPipeline`), from the assumptions of the modules it extends. `AgentInv` is
five invariants, each inductive with the ones before it:

* `LoopInv`: what the program counter says of the calls to do and of the pipeline; the
  refinement and the Ctrl+C property need no more, because the pipeline is typed
  (`PipeTypedStep`) and only one action of the loop hands it a call (`OnlyExecuteStarts`);
* `AnswerInv`: what a completed turn ends on;
* `ReadInv`: `Readable(s, gone)` says that every result stands behind its call with no other
  call of the message left out, but for the calls and results in `gone`. No step keeps that by
  itself: while calls are executed, the conversation has to wait for the right ones. `Sound`
  adds what it waits for (`Awaits`): the next task is newer than every result, its call is
  right before it or was lost, and every earlier call of the message is answered, lost or an
  earlier task. `AppendReadable`, `CutReadable` and `CompactedReadable` say what an append, a
  cut and a compaction keep; the memory is sound with what the last resume missed (`missed`),
  the file with what was ever lost (`lost`);
* `SettledInv`: every other message of the turn has all its results in the memory, whatever
  happened to the file;
* `FileInv`: every message of memory stands where `saved` says, in order and without a gap
  (`MemoryIsPersisted`), and results, deaths and failed writes together are no fewer than the
  calls that were executed (`CountInv`).

**StorageProofs**, the sessions: it proves, for any number of sessions, terminals, messages
and faults, the type invariant, `SessionsAreKept` and the refinement of `SessionLog`. `LogInv` adds to the
property what makes it inductive: messages are numbered and live in one session
(`Numbered`, `InOneSession`), the record a torn write left open was not reported as done
(`CutIsNotKept`), and the loss it may still bring, when the next record is glued to it, is
already paid by a fault (`LossesPaid`). Every action has one of three effects on the lines of a
session, none, an append that may be torn, or a wipe (`Settles`, `Appends`, `Wipes`), so that
the argument is made once per effect and not once per action.
`ListedInv` follows a process that is founding its session (`Founding`). The refinement maps
the shown lines of a directory to the abstract list and every such effect to a step of
`SessionLog` or to a stutter.

**StorageProofs**, the file: it proves, for any number of edits, saves, abandoned threads and
deaths, the type invariant, `EditsAreSafe` and the action property `EditsKeepEarlierSaves`. While no
thread overlaps another (`WithoutOverlap`), one thread works at a time (`OneAtATime`), the
snapshots and an `/undo` in hand are a chain of earlier states (`SnapshotsBehind`), and an edit
under way has the text it compared, which the file has gone on from (`EditInHand`). With
overlap, what stays true is an account: every thread that can still cause a jam, and a temp
name nobody holds, is paid for by an abandoned thread or a death (`JamsPaid`).

**CallsProofs**, the server: it proves, for any number of requests and callers, every limit
and every interleaving, `ServingTypeOK`, `SlotsBalanced`, `RateBounded` and the action property
`RefusalsJustified`, from `ServingAssumption` (finitely many requests, a positive rate
limit). `ServingInv` adds

* `BackoffMayRetry`: a thread that sleeps has an attempt left, which keeps the attempt
  within its type;
* `EnteredByLimiter`: a request has no time of entry before the limiter let it in, so
  that an entry never disturbs a list written earlier;
* `HitsHappened` and `SeenHappened`: every hit on a list, and on the list a call of the
  limiter is working on, is the entry of a request of that key at that time, for `seen`
  within the window of the call. Overlapping calls lose hits and never invent one.

`RefusalsJustified` follows by an injection: the hits a refusing call counted go to as
many different requests that were let in within its window (`KeptAreEntries`).

`RateBounded` is about the hits that calls of the limiter lose when they put back a list they
read before. `RateInv` counts them ahead of time: whatever list is put back next, that of the
key (`ListsLose`) or that of a call under way (`CallsLose`), the entries it lacks, with one for
each of the other calls under way, are no more than the overlaps counted so far. A call that is
let in may read an earlier time than one that was let in before it, and its entry then falls
within the window of that one: `RoomLeft` keeps room for every call behind.

**GateProofs** has the gate, which `CallsProofs` and `RulesProofs` both need; **CallsProofs**
has, besides the server, the shell, the page and a packing:

* The gate, for every environment a server can be started with, every set of signing keys,
  every leeway, every length of time and every rotation: `GateTypeOK` and `AccessIsGuarded`
  (`WritesAuthorised`, `ProductionIsClosed`, `RotationIsSeamless`). What has to be added is
  small, because a reply is judged at the moment it is made: `ProdHasAuth`, a server in
  production is never open, which `Starts` gives (`PostureOfStart`) and no step changes.
  `AuthenticatedIsKnown` and `RightTokenPasses` say who passes `Authenticate` and who must;
  the keys kept in `resolved` only ever help.
* The shell, for every call, every timeout and limit, every number of polls and however the
  processes behave: `ShellTypeOK` and `CommandsAreStopped`. The property says what a call
  leaves behind; `GroupIsKilled` says it of the leader and its child together, and holds
  only because of `AllSignalled`: from the SIGTERM on, every process that is alive was
  signalled, because a leader forks only before it is.
  `InTime` keeps the time waited within `Timeout`.
* The page, for every server and tenant, every length of a stream and any number of sign-ins:
  `PageTypeOK` and `PageIsHonest`. `TabInv` is about a tab that is not ready, which has
  neither a token nor anything on show. That a complete answer has every piece needs an
  account of the stream while it is read: `NothingLost` (the pieces made are those shown and
  those on the wire) and `WireEndsWell` (the wire is pieces, and the last word of a closed
  stream behind them), so that an error cannot be taken for an end.
* A packing, for every history of messages of any cost, every budget and every bound on a
  result: `PackTypeOK` and `PacksTheMost`. The loop drops from the front, and the property
  chooses among all that may be sent. `PackInv` (`Found`) stands between the two: what is left
  is a part that may be sent, every longer one next to all blocks was too dear, and a block
  went only when nothing but the latest exchange was left and the block before it did not fit.
  `DropIs` says what `_drop_oldest_pair` makes of such a part (`FloorIs`: its floor is the last
  user message); what a part costs is the recursion of `Cost` (`CostIs`).

**StreamsProofs** proves two things about what arrives in pieces.

* A completion, for any characters, any two tags that do not overlap themselves (their first
  character comes once, as `<` does in the code's; `CodecAssumption`), any reply, any cut of it
  into deltas, any fragments of calls and any limits: `CompletionTypeOK` and `AnswersAreWhole`.
  The text the model sends is read by `Feed`, delta by delta, and the property compares with
  `Whole`, which sees it at once. What is true of a parser between two deltas is `Faithful(p, r)`:
  whatever `d` may still come, reading `r \o d` as a whole gives what the parser has already given,
  followed by what a whole reading gives of `d` behind the parser's buffer. Each turn of the
  loop of `feed` keeps it (`CloseIsFaithful`, `OpenIsFaithful`, `ShownIsFaithful`), and the loop
  ends because the buffer gets shorter (`DigestReads`). Text is shown before the rest is known,
  and a tag may be half there: `Held` keeps back the longest end that may be the beginning of
  one (`HeldTyped`), and no tag can begin before it, whatever follows (`HeldBack`).
  `Settled` is what the loop leaves: no tag in the buffer to be acted upon.
  The other half is about the queue between the thread and the coroutine: `SentinelIsLast`,
  `ReportIsQueued` and `BreakIsQueued` say of an open attempt that an error, or an end without
  its marker, is still ahead of it, so that it cannot come back as an answer.
* The badge, for any number of polls and any time to live (`ReadinessAssumption`):
  `ReadinessTypeOK` and the action property `ReadyIsRecent`. An answer of `/v1/ready` comes from
  the runtime or from the cache, and `CacheIsRecent` says of the cache at any age below the time
  to live that what it says was so within that age. `AliveIsHealth`, that only `/health` answers
  "alive", keeps the type of an answer.

**RulesProofs** has five parts, for what the run `rules` checks on small inputs.

* The choice of a model, for any number of versions, writers and servers (`CatalogueAssumption`:
  finitely many versions, and two reserved names are none of them): `ServesReleases`. It needs
  `Single`, at most one version in production, of the file: otherwise the alias, resolved by the
  file of the moment, would not mean what was promoted (`InStageOfOne`, `Resolves`).
* The datasets, for any ids, any hash, any number of items, builds and preparations, and a death
  at any step: `SplitIsStable`, and `ExportLoads` and `HeldOutStaysOut` together. `PipelineInv`
  follows the rows: what is being built has no id twice (`BuilderInv`), what is being prepared
  is a file that loaded (`PrepareInv`), and a manifest that is there speaks of two sides chosen
  by the hash of each item at its fraction (`ManifestInv`). An item's side depends on nothing
  else (`SideTakes`), hence the stability. `RankIsOnto` and `KeepTakes` say that the rows at
  chosen positions, taken in order, are those rows and no others.
  The comparisons, for every length of an n-gram and every threshold: `CopiesAreCaught` and
  `GateIsSymmetric`. `ExamInv` is that a passed comparison has no match among its rows; that two
  texts of the same words have one normal form is `SameWordsNormal`, and that the text of a row
  that is compared is not empty after normalisation is `TextsHaveWords`, without which a copy
  could slip through: it holds of benchmark rows, and of training rows under `validate_dataset`.
  `CopiesAreCaught` names the rows for which there is nothing to be had: those of a training
  file under `check_contamination`, and those that ask something after their first question.
  The labels, for conversations of any length cut anywhere: `OnlyCompletionsTrain`. `MaskIs` says
  that the mask begins behind the first marker of an answer or, if the text was cut before one, at
  its end. By induction over the conversation, the text of every answer has its marker before
  it (`Announced`), and of any stretch of the text every marker but the one of the last turn
  has the text of an answer behind it (`Marked`); `OneAnswer` is the case of a conversation
  whose only answer is its last message. Together they are `TrainsOnlyWhatItMay`; the rest of the types is `DatasetsTyped`.
* The scans, for any cap and any size of the outline: `ReportsAreTrue`. `WalkInv` is the account
  of a walk that is not over: a candidate already visited has been counted, as far as the cap
  allows (`Counted`), and whatever has been counted may be shown (`MayShow`), under whatever
  name the walk came to it; the property says both when a clean report may be given over
  findings and that, where everything is passed over, it is given. `ScanBounds`, for `ScanTypeOK`, bounds every count by what there is in
  the tree (`AllOf`). The tools that do not walk are single steps, each with its lemma.
* The evaluation, for any scale of a rate, any length of a response and any number of jobs:
  `EvalTypeOK` and `FiguresAreEarned`. `EvalInv` says how far a job has got (`EvalProgress`),
  that its records are those of the items asked so far (`EvalRecords`), and that `results.json`
  is absent, torn, or the report of a full set of records (`EvalResults`). The rest is about the
  operators: where one letter is named, and no lower-case one stands behind "answer", it is the one
  found (`SoleLetter`), a forbidden identifier
  fails and one that merely contains it does not (`FactualText`), the figures of the categories add up to those of the whole
  (`CategoriesAddUp`), and a rounded rate is within half a step of the rate (`RoundedAgainst`).
* The start: `EveryStartIsAsTold` is of more starts than the run has. `StartupInit` varies one
  layer or one question at a time; `AnyStart` lets the files, the environment, the flags, the
  terminal and the root be anything at once, and a project's file be saved at any step.
  `MergedModels` says which layer each part of a merge of four comes from, `LoadedIs` what the
  selected provider and its model are then; `StartInv` keeps of the two loads what they were
  told (`ProbeRight`, `ConfigRight`) and how far a start has got (`Progress`). Nothing in it
  depends on `ask` having no tools, which it has (section 5).

Only model-checked: the liveness properties `TurnEnds`, `EverythingEnds` and `StreamsSettle`. The
provers have no rule for fairness and ENABLED. The statements of the violated runs are refuted by
TLC and not by a proof. What the theorems say is of the models: that these are the code is a matter
of reading, line by line, with the map in `PROJECT.json`.

## 5. What is left out of the models

* Text: prompts, rendering, redaction and sanitising (`agent/sanitize.py`), the matching of
  patterns, argument validation. Each is a flag, a count or a choice of the environment.
* The knowledge tools (`knowledge/facts.py`): lookups in tables loaded at start, without
  state. The families of items in `data/builder.py` and `data/builder_v2.py`: tables of
  prose; their builders, de-duplication and export are modelled. The trainer itself.
* Token counting: whether a request fits is a free choice in `AgentRuntime` and a cost per
  message in `Packing`; the calibration of the estimate is not modelled.
* In `AgentRuntime` a failed write of the session file leaves no record: the torn ones, and
  what is glued to them, are `SessionStore`'s. `/clear` has no handler for the error; a write that
  fails there ends the REPL, and `SessionStore` and the crash of `AgentRuntime` stand for that.
* The audit log's writes are taken to succeed; a failing one raises out of `execute`.
* A shell command's output, its cap and its redaction.
* `/model`, `/session` inside a REPL and the commands that only display.
* A call whose approval is asked for when Ctrl+C is pressed: the prompt goes on, and
  a "y" still starts the tool, in the code as in the model.
* The codec strips white space off the text it returns; what JSON decodes to is a set.
* Of the adapters: payloads, the kinds of HTTP errors, usage figures, several fragments
  of one name, and arguments that parse before they are complete. The thread that outlives
  a cancelled attempt is modelled up to its next line.
* Of the API: the validation of a body, headers, logging, the size of the thread pool, and a
  stream whose body is never iterated (its slot is given back by a `finally` that then never
  runs; whether the framework can leave it so is a question about the framework).
* Which of several files `/undo` picks, and the sweep of old snapshots by another session.

Read in the code and its documents while modelling, and not turned into a run, because one
sentence says it all:

* `docs/agent.md:271-273` gives a run exit code 2 for an unreachable provider and 3 for a
  missing model; a turn that failed for either ends with 1 (`agent/cli.py:515-524`), and
  `EXIT_MODEL_UNAVAILABLE` is never used.
* `docs/auth.md:110-111` says 401 for a malformed token; `api/auth.py:208-212` takes a text
  that is no token at all for an outage and answers 503. `Verify` is as the code is.
* `cmd_ask` "creates no session" (`docs/agent.md:65`); `build_app` always makes the directory.
* `agent/tools/shell.py:264` says "SIGTERM the group, then SIGKILL what survives"; a child
  that ignores SIGTERM survives when its leader obeys (`SurvivorIgnoredTerm` says exactly
  this much).
* `agent/runtime.py:405` says of a failed write "it must be visible": it is a line of the log
  and nothing on the screen, and the user of a session that was not saved learns of it at the
  resume. `ConversationsReadable`, `MemoryIsPersisted` and `AtMostOneResultLost` count what it costs: the
  running session nothing, the file one message for each failure, and so a result whose call is
  not there, or a call whose result is not.
* `agent/cli.py:435` says "an `ask` must not be able to touch the filesystem at all", its help text "No
  tools are used" (`agent/cli.py:426`). `cmd_ask` empties
  the registries requests are built from (`agent/cli.py:436-437`), and the `ToolRuntime` keeps the
  one it was built with (`agent/cli.py:324-325`): the model is offered no tool, and a call it
  writes all the same is executed (`agent/runtime.py:200-209`) under the mode and the approver of
  the start. `Confirm` has no case for `ask`, and `ZeroMeansDone` promises of it nothing: it exits
  0 with an answer, whatever was declined (`agent/cli.py:447`). What is proved is that without a
  terminal nothing that needs a human is let through, in `ask` too (`NobodyMeansNo`).
* Trusted mode may come from `GEMMA4_MODE`, behind the same prompt as the flag
  (`TrustedIsDeliberate` allows both). `docs/agent.md:89-95` and the comment at
  `agent/config.py:389-390` say that it can only be asked for by an explicit flag.
* `evaluation/scorers.py:63-67` says that option letters are matched case-sensitively; the pattern
  behind "answer" is compiled with IGNORECASE (`evaluation/scorers.py:78-81`), which takes "a" from
  "answer a B". `Letter` does so, and `SoleLetterCounts` makes that exception (`Distracting`).
* "ripgrep is an optimisation ... its absence changes nothing observable" (`agent/tools/fs.py:208-209`):
  with it, files that only `.gemma4ignore` ignores are shown (`NothingIgnoredIsShown` says of
  what and when), and the order of the hits is its own.
* A clean report is not about everything that is there. "no hygiene issues in N manifest(s)" counts
  those that could not be read, and lock files, which nobody opens
  (`agent/tools/security.py:276-307`); "semgrep reported no findings" is also said when semgrep
  printed nothing, and gitleaks' output need not be JSON (`security.py:176-179, 387`); "no committed
  credentials found" is said of a scan that was cancelled, of files too large or unreadable, and
  when findings in test files used up the cap and were then left out (`security.py:144-217`).
  `CleanLeavesOut` is the exact list, in both directions.
* `data/formatting.py:20` says "only completion tokens (the model turns) should contribute to the
  loss". Everything behind the first marker of an answer trains, the later questions of the
  user and their markers included (`training/sft.py:58`). `OnlyCompletionsTrain` says what trains
  of every conversation; that it is the answer alone holds of conversations with one.
* `scripts/validate_dataset.py:144-158` compares the first question with the first system message
  of a row: a later question is not looked at, and the system message is part of the text, so
  that a benchmark question under a system message of its own is a copy only when the two are
  similar enough. `CopiesAreCaught` is about rows that ask nothing later and have the words of
  a benchmark record, its context included.
* Between the comparison of the hash and `os.replace` a save by the user is lost
  (`EditsKeepEarlierSaves` says which saves are kept).
* `check_contamination` compares a text shorter than an n-gram by its words and a longer one by
  its n-grams, so that the two are never similar; a benchmark file that is
  missing is skipped with a warning and the verdict is still "all clean".
* A rescoring writes over `results.json` in place; a death in between leaves neither the old
  nor the new one (`Truncate`, `Die`).
* A server configured for the alias "production" when nothing is in production keeps the bare
  name until it is started again (`AliasServesPromoted` makes that exception).

## 6. Plan

1. (done) Pipeline, turn loop, registry; the safety theorems of pipeline and registry.
2. (done) File edits and undo; sessions on disk, with the abstract `SessionLog`.
3. (done) Serving, the gate, the page, the badge and the choice of the model; the theorems
   about slots, refusals and access.
4. (done) The codec and the providers' streams; packing; the shell; start-up; scans.
5. (done) Evaluation and datasets.
6. (done) The theorems of the turn loop and its refinement, of the session store and its
   refinement, of file edits, of the rate, of the shell and of the page; of the badge, the
   choice of a model, the split and the comparisons, the scans, and the evaluation.
7. (done) Induction over data (`Recursion`); the two parsers, the packing, the mask, the start;
   the types of each run as a whole.
8. Not proved: the three liveness properties. Not modelled: section 5.
