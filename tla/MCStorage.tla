------------------------------- MODULE MCStorage -------------------------------
(***************************************************************************)
(* What a session keeps on disk: the snapshots of the files it edits       *)
(* (FileEdits) and its own directory (SessionStore).  The two share no     *)
(* state, so each behaviour moves one of them, the subject.                *)
(***************************************************************************)
EXTENDS FileEdits, SessionStore

VARIABLE subject

StorageVars == <<subject, fileVars, storeVars>>

StorageInit ==
    /\ subject \in {"file", "session"}
    /\ FilesInit /\ StoreInit
    /\ subject = "session" => file = NoFile

StorageNext ==
    /\ UNCHANGED subject
    /\ \/ subject = "file" /\ FilesNext /\ UNCHANGED storeVars
       \/ subject = "session" /\ StoreNext /\ UNCHANGED fileVars

StorageSpec == StorageInit /\ [][StorageNext]_StorageVars

(* The components have their types.                                        *)
StorageTypeOK ==
    /\ FilesTypeOK
    /\ StoreTypeOK

(* No step and no property depends on what a running process remembers of  *)
(* the conversation.                                                       *)
Remembered == <<subject, fileVars, dir, removal, said, faults, kept, gone, deleted,
                [a \in Agents |-> IF Busy(a) THEN [agent[a] EXCEPT !.memory = <<>>]
                                             ELSE agent[a]]>>

(* Terminals are alike.                                                    *)
Terminals == Permutations(Agents)
=============================================================================
