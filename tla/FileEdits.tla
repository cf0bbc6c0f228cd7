------------------------------- MODULE FileEdits -------------------------------
(***************************************************************************)
(* One workspace file under the agent's hands: fs.edit and fs.write        *)
(* (agent/tools/fs.py), the undo snapshots of the session (UndoStore,      *)
(* agent/sessions.py) and the /undo command (agent/ui/repl.py), next to a  *)
(* user who saves the file from an editor.                                 *)
(*                                                                         *)
(* The pipeline runs one tool at a time, but a tool that overran its       *)
(* backstop is only abandoned: its thread goes on from the step it had     *)
(* reached.  The process may die at any step and be started again on the   *)
(* same session.                                                           *)
(*                                                                         *)
(* A content is the sequence of the changes that went into it, each named  *)
(* by a number; equal sequences stand for equal bytes, hence equal hashes. *)
(***************************************************************************)
EXTENDS Naturals, SequencesExt

CONSTANTS
    MaxChanges,   \* bound: edits, creations and saves in a behaviour
    MaxOrphans,   \* bound: threads abandoned in a behaviour
    MaxCrashes    \* bound: process deaths in a behaviour

ASSUME FileAssumption ==
    MaxChanges \in Nat /\ MaxOrphans \in Nat /\ MaxCrashes \in Nat

VARIABLES
    file,       \* the workspace file
    temp,       \* .<name>.gemma4.tmp: the edit whose data it is, or NoTemp
    workers,    \* the live tool threads
    active,     \* the thread the pipeline waits for, or NoThread
    index,      \* index.jsonl, each record with the content of its snapshot
    undo,       \* the /undo in progress
    last,       \* the number of the latest change
    abandoned,  \* history: threads abandoned
    crashes,    \* history: process deaths
    jammed      \* history: edits that failed because the temp name was taken

fileVars == <<file, temp, workers, active, index, undo, last, abandoned,
              crashes, jammed>>

Content == Seq(1..MaxChanges)

(* The file: whose bytes it holds, and whether they are all there.         *)
File == [text : Content, whole : BOOLEAN, by : {"edit", "write", "undo", "user"},
         n : 0..MaxChanges]

NoFile   == [by |-> "nobody"]
NoTemp   == 0
NoThread == 0

Existing == file # NoFile

(* An edit keeps the content whose hash it compared.                       *)
Worker == [n : 1..MaxChanges, base : Content,
           pc : {"checked", "snapped", "opened", "filled", "creating"}]

Undo == [pc : {"idle", "read", "taken", "writing"}, rest : Seq(Content), data : Content]

NoUndo == [pc |-> "idle", rest |-> <<>>, data |-> <<>>]

FilesTypeOK ==
    /\ file \in File \cup {NoFile}
    /\ temp \in 0..MaxChanges
    /\ workers \subseteq Worker
    /\ active # NoThread => \E w \in workers : w.n = active
    /\ index \in Seq(Content)
    /\ undo \in Undo
    /\ last \in 0..MaxChanges
    /\ abandoned \in 0..MaxOrphans
    /\ crashes \in 0..MaxCrashes
    /\ jammed \in Nat

FilesInit ==
    /\ file \in {NoFile, [text |-> <<>>, whole |-> TRUE, by |-> "user", n |-> 0]}
    /\ temp = NoTemp
    /\ workers = {}
    /\ active = NoThread
    /\ index = <<>>
    /\ undo = NoUndo
    /\ last = 0
    /\ abandoned = 0
    /\ crashes = 0
    /\ jammed = 0

-----------------------------------------------------------------------------
(* Threads.                                                                *)

Quiet == active = NoThread /\ undo = NoUndo

NewChange ==
    /\ last < MaxChanges
    /\ last' = last + 1

Moves(w, pc) == workers' = (workers \ {w}) \cup {[w EXCEPT !.pc = pc]}

(* run() returned or raised: the pipeline no longer waits for the thread.  *)
Ends(w) ==
    /\ workers' = workers \ {w}
    /\ active' = IF active = w.n THEN NoThread ELSE active

(* The contents an edit and a creation make.                               *)
Made(w) == Append(w.base, w.n)

(* Mutant of Check: the hash is not compared, and the model's text is old. *)
CheckUnhashed ==
    /\ Quiet
    /\ Existing
    /\ NewChange
    /\ \E seen \in {file.text} \cup ToSet(index) :
          workers' = workers \cup {[n |-> last', base |-> seen, pc |-> "checked"]}
    /\ active' = last'
    /\ UNCHANGED <<file, temp, index, undo, abandoned, crashes, jammed>>

(* EditFileTool.run, up to the hash: the edit goes on when the file is     *)
(* what the model has read and old_string occurs once.  A torn file is     *)
(* read and edited like any other.                                         *)
Check ==
    /\ Quiet
    /\ Existing
    /\ NewChange
    /\ workers' = workers \cup {[n |-> last', base |-> file.text, pc |-> "checked"]}
    /\ active' = last'
    /\ UNCHANGED <<file, temp, index, undo, abandoned, crashes, jammed>>

(* Otherwise it raises a PatchConflict, and nothing has happened.          *)
Conflict == Quiet /\ Existing /\ UNCHANGED fileVars

(* UndoStore.snapshot: the blob, then its record; a blob without a record  *)
(* is never looked at.                                                     *)
Snapshot(w) ==
    /\ w.pc = "checked"
    /\ index' = Append(index, w.base)
    /\ Moves(w, "snapped")
    /\ UNCHANGED <<file, temp, active, undo, last, abandoned, crashes, jammed>>

(* _atomic_write: O_EXCL creates the temp file.                            *)
OpenTemp(w) ==
    /\ w.pc = "snapped"
    /\ temp = NoTemp
    /\ temp' = w.n
    /\ Moves(w, "opened")
    /\ UNCHANGED <<file, active, index, undo, last, abandoned, crashes, jammed>>

(* The name is taken: the handler removes whatever has it.                 *)
Jam(w) ==
    /\ w.pc = "snapped"
    /\ temp # NoTemp
    /\ temp' = NoTemp
    /\ jammed' = jammed + 1
    /\ Ends(w)
    /\ UNCHANGED <<file, index, undo, last, abandoned, crashes>>

(* The data is in the file the thread has open, which another thread may   *)
(* have unlinked, or moved into place, meanwhile.                          *)
Completed(w) ==
    IF Existing /\ file.n = w.n THEN [file EXCEPT !.whole = TRUE] ELSE file

Fill(w) ==
    /\ w.pc = "opened"
    /\ file' = Completed(w)
    /\ Moves(w, "filled")
    /\ UNCHANGED <<temp, active, index, undo, last, abandoned, crashes, jammed>>

(* Mutant of Replace: it does not wait for the data.                       *)
ReplaceEarly(w) ==
    /\ w.pc \in {"opened", "filled"}
    /\ temp # NoTemp
    /\ \E o \in workers :
          /\ o.n = temp
          /\ file' = [text |-> Made(o), whole |-> o.pc = "filled", by |-> "edit", n |-> o.n]
    /\ temp' = NoTemp
    /\ Ends(w)
    /\ UNCHANGED <<index, undo, last, abandoned, crashes, jammed>>

(* os.replace moves what has the name into place: this thread's data, or   *)
(* that of the thread that took the name over.                             *)
Replace(w) ==
    /\ w.pc = "filled"
    /\ temp # NoTemp
    /\ \E o \in workers :
          /\ o.n = temp
          /\ file' = [text |-> Made(o), whole |-> o.pc = "filled", by |-> "edit", n |-> o.n]
    /\ temp' = NoTemp
    /\ Ends(w)
    /\ UNCHANGED <<index, undo, last, abandoned, crashes, jammed>>

(* An OSError of the snapshot; or one of the open, the write or the        *)
(* replace, whose handler unlinks the temp name.                           *)
EditFails(w) ==
    /\ \/ w.pc = "checked" /\ UNCHANGED temp
       \/ /\ w.pc \in {"opened", "filled"} \/ (w.pc = "snapped" /\ temp = NoTemp)
          /\ temp' = NoTemp
    /\ Ends(w)
    /\ UNCHANGED <<file, index, undo, last, abandoned, crashes, jammed>>

(* WriteFileTool.run creates the file in its place and then fills it; a    *)
(* write that fails leaves what is there.                                  *)
Create ==
    /\ Quiet
    /\ ~Existing
    /\ NewChange
    /\ file' = [text |-> <<last'>>, whole |-> FALSE, by |-> "write", n |-> last']
    /\ workers' = workers \cup {[n |-> last', base |-> <<>>, pc |-> "creating"]}
    /\ active' = last'
    /\ UNCHANGED <<temp, index, undo, abandoned, crashes, jammed>>

FillCreated(w) ==
    /\ w.pc = "creating"
    /\ file' \in {Completed(w), file}
    /\ Ends(w)
    /\ UNCHANGED <<temp, index, undo, last, abandoned, crashes, jammed>>

(* The backstop of the pipeline.                                           *)
Abandon ==
    /\ active # NoThread
    /\ abandoned < MaxOrphans
    /\ abandoned' = abandoned + 1
    /\ active' = NoThread
    /\ UNCHANGED <<file, temp, workers, index, undo, last, crashes, jammed>>

-----------------------------------------------------------------------------
(* /undo, at the prompt.                                                   *)

(* pop_latest reads the records and picks the newest.                      *)
UndoRead ==
    /\ Quiet
    /\ index # <<>>
    /\ undo' = [pc |-> "read", rest |-> Front(index), data |-> Last(index)]
    /\ UNCHANGED <<file, temp, workers, active, index, last, abandoned, crashes, jammed>>

(* It rewrites the index from the records it read, and drops the blob.     *)
UndoTake ==
    /\ undo.pc = "read"
    /\ index' = undo.rest
    /\ undo' = [undo EXCEPT !.pc = "taken", !.rest = <<>>]
    /\ UNCHANGED <<file, temp, workers, active, last, abandoned, crashes, jammed>>

(* write_bytes truncates the file, then fills it.                          *)
UndoTruncate ==
    /\ undo.pc = "taken"
    /\ undo' = [undo EXCEPT !.pc = "writing"]
    /\ file' = [text |-> undo.data, whole |-> FALSE, by |-> "undo", n |-> 0]
    /\ UNCHANGED <<temp, workers, active, index, last, abandoned, crashes, jammed>>

UndoWrite ==
    /\ undo.pc = "writing"
    /\ undo' = NoUndo
    /\ file' = IF file.by = "undo" THEN [file EXCEPT !.whole = TRUE] ELSE file
    /\ UNCHANGED <<temp, workers, active, index, last, abandoned, crashes, jammed>>

(* The index cannot be rewritten, or the file not written.                 *)
UndoFails ==
    /\ undo # NoUndo
    /\ undo' = NoUndo
    /\ UNCHANGED <<file, temp, workers, active, index, last, abandoned, crashes, jammed>>

-----------------------------------------------------------------------------
(* The rest of the world.                                                  *)

(* The user saves the file from an editor that shows what is in it.        *)
UserSaves ==
    /\ NewChange
    /\ file' = [text |-> Append(IF Existing THEN file.text ELSE <<>>, last'),
                whole |-> TRUE, by |-> "user", n |-> last']
    /\ UNCHANGED <<temp, workers, active, index, undo, abandoned, crashes, jammed>>

(* The process dies and the session is resumed, perhaps so much later that *)
(* cleanup_expired has swept the snapshots.                                *)
Restart ==
    /\ crashes < MaxCrashes
    /\ crashes' = crashes + 1
    /\ workers' = {}
    /\ active' = NoThread
    /\ undo' = NoUndo
    /\ index' \in {index, <<>>}
    /\ UNCHANGED <<file, temp, last, abandoned, jammed>>

EditStep(w) ==
    \/ Snapshot(w) \/ OpenTemp(w) \/ Jam(w) \/ Fill(w) \/ Replace(w)
    \/ EditFails(w) \/ FillCreated(w)

FilesNext ==
    \/ Check \/ Conflict \/ Create
    \/ \E w \in workers : EditStep(w)
    \/ Abandon
    \/ UndoRead \/ UndoTake \/ UndoTruncate \/ UndoWrite \/ UndoFails
    \/ UserSaves
    \/ Restart

FilesSpec == FilesInit /\ [][FilesNext]_fileVars

-----------------------------------------------------------------------------
(* "Repeated /undo walks backwards through that file's history"            *)
(* (UndoStore): unless threads overlap, every snapshot holds an earlier    *)
(* state of the next one, and the newest an earlier state of the file,     *)
(* whatever the user saves in between, whatever fails, dies or expires.    *)
UndoWalksBack ==
    (abandoned = 0 /\ index # <<>>) =>
        /\ \A i \in 1..(Len(index) - 1) : IsPrefix(index[i], index[i + 1])
        /\ Existing /\ IsPrefix(Last(index), file.text)

(* "Writes are atomic (temp file in the same directory, then os.replace)"  *)
(* (docs/agent.md): unless threads overlap, the file never holds part of   *)
(* an edit, at whatever step the edit fails or the process dies.           *)
EditsAreAtomic == (abandoned = 0 /\ Existing /\ ~file.whole) => file.by # "edit"

(* The temp name is fixed, so a leftover blocks the next edit; but it      *)
(* blocks one edit only, and only a dead process or an abandoned thread    *)
(* leaves one.                                                             *)
LeftoversJamOnce == jammed <= abandoned + crashes

(* What failures, deaths, saves and leftovers cannot do to a file the      *)
(* agent edits (agent/tools/fs.py, agent/sessions.py).                     *)
EditsAreSafe ==
    /\ UndoWalksBack
    /\ EditsAreAtomic
    /\ LeftoversJamOnce

(* "Hash-checked edits; stale hash never writes" (docs/security.md): what  *)
(* was in the file when the hash was compared survives the edit, and only  *)
(* a save after that, numbered higher, can be lost to it.                  *)
EditsKeepEarlierSaves ==
    [][ (abandoned = 0 /\ Existing /\ file'.by = "edit" /\ file'.n # file.n)
            => \A u \in ToSet(file.text) :
                  u < file'.n => u \in ToSet(file'.text) ]_fileVars
=============================================================================
