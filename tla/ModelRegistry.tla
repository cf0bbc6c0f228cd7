----------------------------- MODULE ModelRegistry -----------------------------
(***************************************************************************)
(* The registry of model versions and their promotion lifecycle:           *)
(* src/gemma_cyber/inference/registry.py, as its writers use it (the admin *)
(* routes of api/app.py, the `models` commands of cli/main.py and          *)
(* scripts/seed_registry.py).  Each writer is a process with its own copy  *)
(* of the records; the JSON file is replaced as a whole by a save, which   *)
(* may fail after the copy has changed.                                    *)
(***************************************************************************)
CONSTANTS
    Versions,   \* the model versions
    Procs       \* the processes that open the registry: API server, CLI, scripts

VARIABLES
    open,       \* the processes that hold a ModelRegistry
    mem,        \* mem[p]: the _records of p
    file        \* registry.json

registryVars == <<open, mem, file>>

Stages == {"experimental", "evaluated", "candidate", "production", "archived"}

(* A version without a record is "absent".  The field cleared is history:  *)
(* the version has passed an evaluation since it was registered.           *)
Row == [stage   : Stages \cup {"absent"},
        passed  : BOOLEAN,
        cleared : BOOLEAN]

New(stage) == [stage |-> stage, passed |-> FALSE, cleared |-> FALSE]

NoRecord == New("absent")

Record == {r \in Row : r.stage = "absent" => r = NoRecord}

Records == [Versions -> Record]

(* _ALLOWED                                                                *)
Allowed(stage) ==
    CASE stage = "experimental" -> {"evaluated", "archived"}
      [] stage = "evaluated"    -> {"candidate", "archived"}
      [] stage = "candidate"    -> {"production", "evaluated", "archived"}
      [] stage = "production"   -> {"candidate", "archived"}
      [] stage = "archived"     -> {"experimental"}
      [] OTHER                  -> {}

RequiresEval == {"candidate", "production"}

RegistryInit ==
    /\ open = {}
    /\ mem = [p \in Procs |-> [v \in Versions |-> NoRecord]]
    /\ file = [v \in Versions |-> NoRecord]

(* _load reads the whole file.                                             *)
Open(p) ==
    /\ p \notin open
    /\ open' = open \cup {p}
    /\ mem' = [mem EXCEPT ![p] = file]
    /\ UNCHANGED file

(* The process ends, or dies: a save that was under way had replaced the   *)
(* file or not.                                                            *)
Close(p) ==
    /\ p \in open
    /\ open' = open \ {p}
    /\ mem' = [mem EXCEPT ![p] = [v \in Versions |-> NoRecord]]
    /\ UNCHANGED file

(* Every write changes the copy, then saves it; a save that raises leaves  *)
(* the file alone and the copy changed.                                    *)
ChangeAndSave(p, records) ==
    /\ p \in open
    /\ mem' = [mem EXCEPT ![p] = records]
    /\ file' \in {records, file}
    /\ UNCHANGED open

(* The routes and commands register experimental versions; the seeding     *)
(* script also an evaluated one.  No new record has passed.                *)
Register(p, v, stage, overwrite) ==
    /\ mem[p][v] = NoRecord \/ overwrite
    /\ ChangeAndSave(p, [mem[p] EXCEPT ![v] = New(stage)])

(* Mutant of MarkEvaluated: the version need not be registered.            *)
MarkEvaluatedUnknown(p, v, passed) ==
    LET old == mem[p][v] IN
    ChangeAndSave(p, [mem[p] EXCEPT ![v] =
           [stage   |-> IF passed /\ old.stage = "experimental"
                        THEN "evaluated" ELSE old.stage,
            passed  |-> passed,
            cleared |-> old.cleared \/ passed]])

MarkEvaluated(p, v, passed) ==
    LET old == mem[p][v] IN
    /\ old.stage # "absent"
    /\ ChangeAndSave(p, [mem[p] EXCEPT ![v] =
           [stage   |-> IF passed /\ old.stage = "experimental"
                        THEN "evaluated" ELSE old.stage,
            passed  |-> passed,
            cleared |-> old.cleared \/ passed]])

Incumbents(records) == {v \in Versions : records[v].stage = "production"}

(* Mutant of Demotions: the incumbent stays in production.                 *)
DemotionsNone(records, to) == {records}

(* A promotion to production demotes one incumbent, the first production() *)
(* comes across.                                                           *)
Demotions(records, to) ==
    IF to = "production" /\ Incumbents(records) # {}
    THEN {[records EXCEPT ![u].stage = "candidate"] : u \in Incumbents(records)}
    ELSE {records}

(* Mutant of MayPromote: the evaluation gate is not tested.                *)
MayPromoteUngated(record, to) == to \in Allowed(record.stage)

MayPromote(record, to) ==
    /\ to \in Allowed(record.stage)
    /\ to \in RequiresEval => record.passed

Moved(record, to) == [record EXCEPT !.stage = to]

Promote(p, v, to) ==
    /\ MayPromote(mem[p][v], to)
    /\ \E records \in Demotions(mem[p], to) :
           ChangeAndSave(p, [records EXCEPT ![v] = Moved(@, to)])

RegistryNext ==
    \E p \in Procs :
        \/ Open(p)
        \/ Close(p)
        \/ \E v \in Versions :
              \/ \E stage \in {"experimental", "evaluated"}, overwrite \in BOOLEAN :
                    Register(p, v, stage, overwrite)
              \/ \E passed \in BOOLEAN : MarkEvaluated(p, v, passed)
              \/ \E to \in Stages : Promote(p, v, to)

RegistrySpec == RegistryInit /\ [][RegistryNext]_registryVars

-----------------------------------------------------------------------------
RegistryTypeOK ==
    /\ open \subseteq Procs
    /\ mem \in [Procs -> Records]
    /\ file \in Records

AtMostOne(records) ==
    \A u, v \in Versions :
        records[u].stage = "production" /\ records[v].stage = "production" => u = v

(* "At most one version may be production at a time" (registry.py): in the *)
(* file and in every process's copy, whatever the writers interleave,      *)
(* however stale their copies and however many of their saves fail.        *)
SingleProduction == AtMostOne(file) /\ \A p \in Procs : AtMostOne(mem[p])

Shipped(record) == record.stage \in RequiresEval

(* "You cannot ship a version that has not cleared its gate" (registry.py):*)
(* a candidate or production record, in the file or in any copy, has       *)
(* passed an evaluation since it was registered, however it got there.     *)
Cleared(records) ==
    \A v \in Versions : Shipped(records[v]) => records[v].cleared

ShippedHasCleared == Cleared(file) /\ \A p \in Procs : Cleared(mem[p])
=============================================================================
