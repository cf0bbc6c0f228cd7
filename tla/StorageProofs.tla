----------------------------- MODULE StorageProofs -----------------------------
(***************************************************************************)
(* The theorems of what is written to disk: FileEdits, for every number of *)
(* changes, abandoned threads and deaths of the process, and SessionStore, *)
(* for every number of sessions, terminals, messages and faults.           *)
(***************************************************************************)
EXTENDS MCStorage, SequenceTheorems, FiniteSetTheorems, TLAPS

-------------------------------------------------------------------------------
(* The edits of one file.                                                  *)

(* Threads are finitely many, each with a number of its own; the temp name *)
(* is that of a thread that has opened it, or nobody's.                    *)
ThreadsNumbered ==
    /\ IsFiniteSet(workers)
    /\ \A w \in workers : w.n <= last
    /\ \A v, w \in workers : v.n = w.n => v = w
    /\ \A w \in workers : temp = w.n => w.pc \in {"opened", "filled"}
    /\ temp <= last

Chain(snapshots) ==
    \A i \in 1..(Len(snapshots) - 1) : IsPrefix(snapshots[i], snapshots[i + 1])

(* Where threads do not overlap: one works at a time, and not during an    *)
(* /undo.                                                                  *)
OneAtATime ==
    /\ \A w \in workers : w.n = active
    /\ undo # NoUndo => active = NoThread

(* What the snapshots, the file and an /undo under way hold.               *)
SnapshotsBehind ==
    /\ index # <<>> => Existing /\ Chain(index) /\ IsPrefix(Last(index), file.text)
    /\ undo.pc = "read" => index # <<>> /\ undo.rest = Front(index) /\ undo.data = Last(index)
    /\ undo.pc = "taken" => Existing /\ (index # <<>> => IsPrefix(Last(index), undo.data))

(* What an edit has in hand: what was in the file when its hash was        *)
(* compared, which the file has gone on from.                              *)
EditInHand(w) ==
    /\ Existing
    /\ IsPrefix(w.base, file.text)
    /\ \A u \in ToSet(file.text) : u < w.n => u \in ToSet(w.base)
    /\ w.pc = "checked" /\ index # <<>> => IsPrefix(Last(index), w.base)
    /\ w.pc # "checked" => index # <<>> /\ Last(index) = w.base

NoHalfEdit == Existing /\ ~file.whole => file.by # "edit"

WithoutOverlap ==
    /\ OneAtATime
    /\ SnapshotsBehind
    /\ \A w \in workers : w.pc # "creating" => EditInHand(w)
    /\ NoHalfEdit

(* An abandoned thread can still cause a jam: it has the temp name, or has *)
(* not tried to take it.  So does a name that a dead process left.         *)
MayJam(w) ==
    /\ w.n # active
    /\ w.pc \in {"checked", "snapped"} \/ temp = w.n

Leftover == IF temp # NoTemp /\ \A w \in workers : w.n # temp THEN 1 ELSE 0

Jammers == {w \in workers : MayJam(w)}

JamsPaid == jammed + Cardinality(Jammers) + Leftover <= abandoned + crashes

FilesInv ==
    /\ FilesTypeOK
    /\ ThreadsNumbered
    /\ abandoned = 0 => WithoutOverlap
    /\ JamsPaid
-----------------------------------------------------------------------------
(* Prefixes, element by element.                                           *)

LEMMA PrefixElements ==
    ASSUME NEW S, NEW s \in Seq(S), NEW t \in Seq(S)
    PROVE  IsPrefix(s, t) <=> Len(s) <= Len(t) /\ \A i \in 1..Len(s) : s[i] = t[i]
<1> DEFINE n == Len(s)
<1>1. n \in Nat /\ \A i \in 1..n : s[i] \in S
    OBVIOUS
<1>2. ASSUME n <= Len(t)
      PROVE  \A i \in 1..n : t[i] \in S
    BY <1>2
<1>3. IsPrefix(s, t) <=> n <= Len(t) /\ SubSeq(s, 1, n) = SubSeq(t, 1, n)
    BY DEF IsPrefix
<1> HIDE DEF n
<1>4. /\ SubSeq(s, 1, n) \in Seq(S)
      /\ Len(SubSeq(s, 1, n)) = n
      /\ \A i \in 1..n : SubSeq(s, 1, n)[i] = s[i]
    <2>1. /\ SubSeq(s, 1, n) \in Seq(S)
          /\ Len(SubSeq(s, 1, n)) = IF 1 <= n THEN n - 1 + 1 ELSE 0
          /\ \A i \in 1..(n - 1 + 1) : SubSeq(s, 1, n)[i] = s[1 + i - 1]
        BY ONLY <1>1, SubSeqProperties
    <2> QED
        BY ONLY <2>1, <1>1
<1>5. ASSUME n <= Len(t)
      PROVE  /\ SubSeq(t, 1, n) \in Seq(S)
             /\ Len(SubSeq(t, 1, n)) = n
             /\ \A i \in 1..n : SubSeq(t, 1, n)[i] = t[i]
    <2>1. /\ SubSeq(t, 1, n) \in Seq(S)
          /\ Len(SubSeq(t, 1, n)) = IF 1 <= n THEN n - 1 + 1 ELSE 0
          /\ \A i \in 1..(n - 1 + 1) : SubSeq(t, 1, n)[i] = t[1 + i - 1]
        BY ONLY <1>1, <1>2, <1>5, SubSeqProperties
    <2> QED
        BY ONLY <2>1, <1>1
<1>6. ASSUME n <= Len(t), SubSeq(s, 1, n) = SubSeq(t, 1, n)
      PROVE  \A i \in 1..n : s[i] = t[i]
    BY ONLY <1>4, <1>5, <1>6
<1>7. ASSUME n <= Len(t), \A i \in 1..n : s[i] = t[i]
      PROVE  SubSeq(s, 1, n) = SubSeq(t, 1, n)
    <2>1. \A i \in 1..n : SubSeq(s, 1, n)[i] = SubSeq(t, 1, n)[i]
        BY ONLY <1>4, <1>5, <1>7
    <2> QED
        BY ONLY <2>1, <1>4, <1>5, <1>7, SeqEqual
<1> QED
    BY <1>3, <1>6, <1>7 DEF n

LEMMA PrefixOfItself ==
    ASSUME NEW S, NEW s \in Seq(S)
    PROVE  IsPrefix(s, s)
BY DEF IsPrefix

LEMMA PrefixOfPrefix ==
    ASSUME NEW S, NEW s \in Seq(S), NEW t \in Seq(S), NEW u \in Seq(S),
           IsPrefix(s, t), IsPrefix(t, u)
    PROVE  IsPrefix(s, u)
<1>1. Len(s) <= Len(t) /\ \A i \in 1..Len(s) : s[i] = t[i]
    BY PrefixElements
<1>2. Len(t) <= Len(u) /\ \A i \in 1..Len(t) : t[i] = u[i]
    BY PrefixElements
<1>3. Len(s) <= Len(u) /\ \A i \in 1..Len(s) : s[i] = u[i]
    BY ONLY <1>1, <1>2, s \in Seq(S), t \in Seq(S), u \in Seq(S)
<1> QED
    BY <1>3, PrefixElements

LEMMA PrefixOfLonger ==
    ASSUME NEW S, NEW s \in Seq(S), NEW t \in Seq(S), NEW x \in S, IsPrefix(s, t)
    PROVE  IsPrefix(s, Append(t, x))
<1>1. Append(t, x) \in Seq(S) /\ Len(Append(t, x)) = Len(t) + 1
    OBVIOUS
<1>2. Len(s) <= Len(t) /\ \A i \in 1..Len(s) : s[i] = t[i]
    BY PrefixElements
<1>3. \A i \in 1..Len(s) : s[i] = Append(t, x)[i]
    BY <1>2
<1>4. Len(s) <= Len(Append(t, x))
    BY <1>1, <1>2
<1> QED
    BY <1>1, <1>3, <1>4, PrefixElements

(* What one change adds to a content.                                      *)
LEMMA AppendedSet ==
    ASSUME NEW S, NEW s \in Seq(S), NEW x \in S
    PROVE  ToSet(Append(s, x)) = ToSet(s) \cup {x}
<1>1. Len(Append(s, x)) = Len(s) + 1 /\ Append(s, x)[Len(s) + 1] = x
      /\ \A i \in 1..Len(s) : Append(s, x)[i] = s[i]
    OBVIOUS
<1> QED
    BY <1>1 DEF ToSet

-----------------------------------------------------------------------------
(* Counting threads.                                                       *)

LEMMA NoMore ==
    ASSUME NEW S, IsFiniteSet(S), NEW T, T \subseteq S
    PROVE  IsFiniteSet(T) /\ Cardinality(T) \in Nat /\ Cardinality(S) \in Nat
           /\ Cardinality(T) <= Cardinality(S)
<1>1. T \in SUBSET S
    OBVIOUS
<1>2. IsFiniteSet(T) /\ Cardinality(T) <= Cardinality(S)
    BY <1>1, FS_Subset
<1> QED
    BY <1>2, FS_CardinalityType

LEMMA OneLess ==
    ASSUME NEW S, IsFiniteSet(S), NEW x \in S, NEW T, T \subseteq S \ {x}
    PROVE  Cardinality(T) \in Nat /\ Cardinality(S) \in Nat
           /\ Cardinality(T) + 1 <= Cardinality(S)
<1>1. IsFiniteSet(S \ {x}) /\ Cardinality(S \ {x}) = Cardinality(S) - 1
    BY FS_RemoveElement
<1>2. Cardinality(T) \in Nat /\ Cardinality(T) <= Cardinality(S \ {x})
    BY <1>1, NoMore
<1>3. Cardinality(S) \in Nat
    BY FS_CardinalityType
<1> QED
    BY <1>1, <1>2, <1>3

LEMMA OneMore ==
    ASSUME NEW S, IsFiniteSet(S), NEW x, NEW T, T \subseteq S \cup {x}
    PROVE  Cardinality(T) \in Nat /\ Cardinality(S) \in Nat
           /\ Cardinality(T) <= Cardinality(S) + 1
<1>1. IsFiniteSet(S \cup {x})
      /\ Cardinality(S \cup {x}) = IF x \in S THEN Cardinality(S) ELSE Cardinality(S) + 1
    BY FS_AddElement
<1>2. Cardinality(T) \in Nat /\ Cardinality(T) <= Cardinality(S \cup {x})
    BY <1>1, NoMore
<1>3. Cardinality(S) \in Nat
    BY FS_CardinalityType
<1> QED
    BY <1>1, <1>2, <1>3

(* A thread that takes a step is counted again.                            *)
LEMMA OneForAnother ==
    ASSUME NEW S, IsFiniteSet(S), NEW x \in S, NEW y, NEW T, T \subseteq (S \ {x}) \cup {y}
    PROVE  Cardinality(T) \in Nat /\ Cardinality(S) \in Nat
           /\ Cardinality(T) <= Cardinality(S)
<1>1. IsFiniteSet(S \ {x}) /\ Cardinality(S \ {x}) = Cardinality(S) - 1
    BY FS_RemoveElement
<1>2. Cardinality(T) \in Nat /\ Cardinality(T) <= Cardinality(S \ {x}) + 1
    BY <1>1, OneMore
<1>3. Cardinality(S) \in Nat
    BY FS_CardinalityType
<1> QED
    BY <1>1, <1>2, <1>3

-----------------------------------------------------------------------------
(* What a step does to the threads: one starts, goes on, or ends.          *)

Starts ==
    /\ NewChange
    /\ active = NoThread
    /\ \E base \in Content, pc \in {"checked", "creating"} :
          workers' = workers \cup {[n |-> last', base |-> base, pc |-> pc]}
    /\ active' = last'
    /\ temp' = temp

GoesOn(w, pc) ==
    /\ Moves(w, pc)
    /\ active' = active
    /\ last' = last
    /\ \/ pc = "snapped" /\ w.pc = "checked" /\ temp' = temp
       \/ pc = "opened" /\ w.pc = "snapped" /\ temp = NoTemp /\ temp' = w.n
       \/ pc = "filled" /\ w.pc = "opened" /\ temp' = temp

EndsWell(w) ==
    /\ Ends(w)
    /\ last' = last
    /\ temp' = NoTemp \/ (temp' = temp /\ w.pc \in {"checked", "creating"})

ThreadsTyped ==
    /\ workers \subseteq Worker
    /\ active # NoThread => \E w \in workers : w.n = active
    /\ temp \in 0..MaxChanges
    /\ last \in 0..MaxChanges
    /\ ThreadsNumbered

LEMMA MovedWorker ==
    ASSUME NEW w \in Worker, NEW pc \in {"snapped", "opened", "filled"}
    PROVE  LET v == [w EXCEPT !.pc = pc] IN
              v \in Worker /\ v.n = w.n /\ v.base = w.base /\ v.pc = pc
BY DEF Worker

LEMMA StartsTyped ==
    ASSUME ThreadsTyped, Starts
    PROVE  ThreadsTyped'
<1>1. PICK base \in Content, pc \in {"checked", "creating"} :
        workers' = workers \cup {[n |-> last', base |-> base, pc |-> pc]}
    BY DEF Starts
<1> DEFINE v == [n |-> last', base |-> base, pc |-> pc]
<1>2. last \in Nat /\ last' = last + 1 /\ last' \in 1..MaxChanges
    BY FileAssumption DEF Starts, NewChange, ThreadsTyped
<1>3. v \in Worker /\ v.n = last'
    BY <1>2 DEF Worker
<1>4. IsFiniteSet(workers')
    BY <1>1, FS_AddElement DEF ThreadsTyped, ThreadsNumbered
<1>5. \A w \in workers : w.n \in Nat /\ w.n <= last /\ w.n # last'
    BY <1>2 DEF ThreadsTyped, ThreadsNumbered, Worker
<1>6. temp' = temp /\ temp \in Nat /\ temp <= last /\ active' = last' /\ v \in workers'
    BY <1>1 DEF Starts, ThreadsTyped, ThreadsNumbered
<1> HIDE DEF v
<1>7. workers' = workers \cup {v}
    BY <1>1 DEF v
<1> QED
    BY <1>2, <1>3, <1>4, <1>5, <1>6, <1>7 DEF ThreadsTyped, ThreadsNumbered

LEMMA GoesOnTyped ==
    ASSUME ThreadsTyped, NEW w \in workers, NEW pc \in {"snapped", "opened", "filled"},
           GoesOn(w, pc)
    PROVE  ThreadsTyped'
<1> DEFINE v == [w EXCEPT !.pc = pc]
<1>1. workers' = (workers \ {w}) \cup {v}
    BY DEF GoesOn, Moves
<1>2. v \in Worker /\ v.n = w.n /\ v.pc = pc /\ w.n \in 1..MaxChanges
    BY MovedWorker DEF ThreadsTyped, Worker
<1> HIDE DEF v
<1>3. IsFiniteSet(workers \ {w})
    BY FS_RemoveElement DEF ThreadsTyped, ThreadsNumbered
<1>4. IsFiniteSet(workers')
    BY <1>1, <1>3, FS_AddElement
<1>5. temp' \in 0..MaxChanges /\ temp' <= last
    BY <1>2 DEF GoesOn, ThreadsTyped, ThreadsNumbered
<1>6. ASSUME NEW x \in workers', temp' = x.n
      PROVE  x.pc \in {"opened", "filled"}
    <2>1. CASE x = v
        BY <1>2, <1>6, <2>1 DEF GoesOn, ThreadsTyped, ThreadsNumbered, NoTemp
    <2>2. CASE x \in workers /\ x # w
        <3>1. x.n # w.n
            BY <2>2 DEF ThreadsTyped, ThreadsNumbered
        <3>2. temp' = temp
            BY <1>6, <3>1 DEF GoesOn
        <3> QED
            BY <1>6, <2>2, <3>2 DEF ThreadsTyped, ThreadsNumbered
    <2> QED
        BY <1>1, <2>1, <2>2
<1>7. \A x, y \in workers' : x.n = y.n => x = y
    BY <1>1, <1>2 DEF ThreadsTyped, ThreadsNumbered
<1>8. active' # NoThread => \E x \in workers' : x.n = active'
    BY <1>1, <1>2 DEF GoesOn, ThreadsTyped
<1>9. \A x \in workers' : x.n <= last' /\ x \in Worker
    BY <1>1, <1>2 DEF GoesOn, ThreadsTyped, ThreadsNumbered
<1>10. last' = last
    BY DEF GoesOn
<1> QED
    BY <1>4, <1>5, <1>6, <1>7, <1>8, <1>9, <1>10 DEF ThreadsTyped, ThreadsNumbered

LEMMA EndsTyped ==
    ASSUME ThreadsTyped, NEW w \in workers, EndsWell(w)
    PROVE  ThreadsTyped'
<1>1. workers' = workers \ {w} /\ last' = last /\ active' \in {active, NoThread}
      /\ (active' = active /\ active # NoThread => active # w.n)
    BY DEF EndsWell, Ends
<1>2. IsFiniteSet(workers')
    BY <1>1, FS_RemoveElement DEF ThreadsTyped, ThreadsNumbered
<1>3. temp' \in {temp, NoTemp} /\ \A x \in workers : x.n # NoTemp
    BY DEF EndsWell, ThreadsTyped, Worker, NoTemp
<1>4. active' # NoThread => \E x \in workers' : x.n = active'
    BY <1>1 DEF ThreadsTyped
<1> QED
    BY <1>1, <1>2, <1>3, <1>4, FileAssumption DEF ThreadsTyped, ThreadsNumbered, NoTemp
(* The steps of a tool are such steps.                                     *)
LEMMA ThreadOfStep ==
    ASSUME NEW w \in workers, EditStep(w)
    PROVE  (\E pc \in {"snapped", "opened", "filled"} : GoesOn(w, pc)) \/ EndsWell(w)
<1>1. CASE Snapshot(w)
    BY <1>1 DEF Snapshot, GoesOn
<1>2. CASE OpenTemp(w)
    BY <1>2 DEF OpenTemp, GoesOn
<1>3. CASE Jam(w)
    BY <1>3 DEF Jam, EndsWell
<1>4. CASE Fill(w)
    BY <1>4 DEF Fill, GoesOn
<1>5. CASE Replace(w)
    BY <1>5 DEF Replace, EndsWell
<1>6. CASE EditFails(w)
    BY <1>6 DEF EditFails, EndsWell
<1>7. CASE FillCreated(w)
    BY <1>7 DEF FillCreated, EndsWell
<1> QED
    BY <1>1, <1>2, <1>3, <1>4, <1>5, <1>6, <1>7 DEF EditStep

LEMMA ThreadOfStart ==
    ASSUME FilesTypeOK, Check \/ Create
    PROVE  Starts
<1>1. CASE Check
    <2>1. file.text \in Content
        BY <1>1 DEF Check, Existing, FilesTypeOK, File
    <2> QED
        BY <1>1, <2>1 DEF Check, Starts, Quiet
<1>2. CASE Create
    <2>1. <<>> \in Content
        BY DEF Content
    <2> QED
        BY <1>2, <2>1 DEF Create, Starts, Quiet
<1> QED
    BY <1>1, <1>2

LEMMA ThreadsStep ==
    ASSUME FilesTypeOK, ThreadsNumbered, [FilesNext]_fileVars
    PROVE  ThreadsTyped'
<1> USE DEF NoThread
<1>t. ThreadsTyped
    BY DEF FilesTypeOK, ThreadsTyped
<1>1. CASE Check \/ Create
    BY <1>1, <1>t, ThreadOfStart, StartsTyped
<1>2. ASSUME NEW w \in workers, EditStep(w)
      PROVE  ThreadsTyped'
    BY <1>2, <1>t, ThreadOfStep, GoesOnTyped, EndsTyped
<1>3. CASE Abandon
    BY <1>3, <1>t DEF Abandon, ThreadsTyped, ThreadsNumbered
<1>4. CASE Restart
    <2>1. IsFiniteSet(workers') /\ workers' = {} /\ active' = NoThread /\ UNCHANGED <<temp, last>>
        BY <1>4, FS_EmptySet DEF Restart
    <2> QED
        BY <1>t, <2>1 DEF ThreadsTyped, ThreadsNumbered
<1>5. CASE UserSaves
    <2>1. last' = last + 1 /\ last' \in 0..MaxChanges /\ UNCHANGED <<workers, active, temp>>
        BY <1>5, <1>t, FileAssumption DEF UserSaves, NewChange, ThreadsTyped
    <2>2. last \in Nat /\ temp \in Nat /\ \A w \in workers : w.n \in Nat
        BY <1>t, FileAssumption DEF ThreadsTyped, Worker
    <2> QED
        BY <1>t, <2>1, <2>2 DEF ThreadsTyped, ThreadsNumbered
<1>6. CASE UNCHANGED <<workers, active, temp, last>>
    BY <1>6, <1>t DEF ThreadsTyped, ThreadsNumbered
<1>7. CASE Conflict \/ UndoRead \/ UndoTake \/ UndoTruncate \/ UndoWrite \/ UndoFails
             \/ UNCHANGED fileVars
    BY <1>6, <1>7 DEF Conflict, UndoRead, UndoTake, UndoTruncate, UndoWrite, UndoFails, fileVars
<1> QED
    BY <1>1, <1>2, <1>3, <1>4, <1>5, <1>7 DEF FilesNext

-----------------------------------------------------------------------------
(* Type correctness.                                                       *)

FileTyped ==
    /\ file \in File \cup {NoFile}
    /\ index \in Seq(Content)
    /\ undo \in Undo
    /\ abandoned \in 0..MaxOrphans
    /\ crashes \in 0..MaxCrashes
    /\ jammed \in Nat

LEMMA CompletedTyped ==
    ASSUME file \in File \cup {NoFile}, NEW w
    PROVE  Completed(w) \in File \cup {NoFile}
<1>1. CASE file \in File
    BY <1>1 DEF Completed, File
<1>2. CASE file = NoFile
    BY <1>2 DEF Completed, Existing
<1> QED
    BY <1>1, <1>2

LEMMA MadeTyped ==
    ASSUME NEW w \in Worker
    PROVE  Made(w) \in Content
BY DEF Worker, Made, Content

LEMMA EditStepTyped ==
    ASSUME FilesTypeOK, NEW w \in workers, EditStep(w)
    PROVE  FileTyped'
<1>t. FileTyped /\ w \in Worker /\ workers \subseteq Worker
    BY DEF FilesTypeOK, FileTyped
<1>1. CASE Snapshot(w)
    <2>1. Append(index, w.base) \in Seq(Content)
        BY <1>t DEF FileTyped, Worker
    <2> QED
        BY <1>1, <1>t, <2>1 DEF Snapshot, FileTyped
<1>2. CASE OpenTemp(w)
    BY <1>2, <1>t DEF OpenTemp, FileTyped
<1>3. CASE Jam(w)
    BY <1>3, <1>t DEF Jam, FileTyped
<1>4. CASE Fill(w)
    BY <1>4, <1>t, CompletedTyped DEF Fill, FileTyped
<1>5. CASE Replace(w)
    <2>1. PICK o \in workers : file' = [text |-> Made(o), whole |-> o.pc = "filled",
                                        by |-> "edit", n |-> o.n]
        BY <1>5 DEF Replace
    <2>2. Made(o) \in Content /\ o.n \in 0..MaxChanges
        BY <1>t, MadeTyped, FileAssumption DEF Worker
    <2>3. (o.pc = "filled") \in BOOLEAN
        OBVIOUS
    <2>4. file' \in File
        BY <2>1, <2>2, <2>3 DEF File
    <2> QED
        BY <1>5, <1>t, <2>4 DEF Replace, FileTyped
<1>6. CASE EditFails(w)
    BY <1>6, <1>t DEF EditFails, FileTyped
<1>7. CASE FillCreated(w)
    BY <1>7, <1>t, CompletedTyped DEF FillCreated, FileTyped
<1> QED
    BY <1>1, <1>2, <1>3, <1>4, <1>5, <1>6, <1>7 DEF EditStep

LEMMA UndoStepTyped ==
    ASSUME FilesTypeOK, UndoRead \/ UndoTake \/ UndoTruncate \/ UndoWrite \/ UndoFails
    PROVE  FileTyped'
<1>t. FileTyped
    BY DEF FilesTypeOK, FileTyped
<1>e. <<>> \in Seq(Content) /\ <<>> \in Content
    BY DEF Content
<1>n. NoUndo \in Undo
    BY <1>e DEF NoUndo, Undo
<1>1. CASE UndoRead
    <2>1. Len(index) \in Nat /\ Len(index) >= 1
        BY <1>1, <1>t DEF UndoRead, FileTyped
    <2>2. Front(index) \in Seq(Content) /\ Last(index) \in Content
        BY <1>t, <2>1 DEF Front, Last, FileTyped
    <2>3. undo' \in Undo
        BY <1>1, <2>2 DEF UndoRead, Undo
    <2> QED
        BY <1>1, <1>t, <2>3 DEF UndoRead, FileTyped
<1>2. CASE UndoTake
    <2>1. undo' \in Undo /\ index' \in Seq(Content)
        BY <1>2, <1>t, <1>e DEF UndoTake, FileTyped, Undo
    <2> QED
        BY <1>2, <1>t, <2>1 DEF UndoTake, FileTyped
<1>3. CASE UndoTruncate
    <2>1. undo' \in Undo /\ undo.data \in Content
        BY <1>3, <1>t DEF UndoTruncate, FileTyped, Undo
    <2>2. file' \in File
        BY <1>3, <2>1, FileAssumption DEF UndoTruncate, File
    <2> QED
        BY <1>3, <1>t, <2>1, <2>2 DEF UndoTruncate, FileTyped
<1>4. CASE UndoWrite
    <2>1. file' \in File \cup {NoFile}
        <3>1. CASE file \in File
            BY <1>4, <3>1 DEF UndoWrite, File
        <3>2. CASE file = NoFile
            BY <1>4, <3>2 DEF UndoWrite, NoFile
        <3> QED
            BY <1>t, <3>1, <3>2 DEF FileTyped
    <2> QED
        BY <1>4, <1>t, <1>n, <2>1 DEF UndoWrite, FileTyped
<1>5. CASE UndoFails
    BY <1>5, <1>t, <1>n DEF UndoFails, FileTyped
<1> QED
    BY <1>1, <1>2, <1>3, <1>4, <1>5

LEMMA FilesTypedStep ==
    FilesTypeOK /\ ThreadsNumbered /\ [FilesNext]_fileVars => FilesTypeOK' /\ ThreadsNumbered'
<1> SUFFICES ASSUME FilesTypeOK, ThreadsNumbered, [FilesNext]_fileVars
             PROVE  FilesTypeOK' /\ ThreadsNumbered'
    OBVIOUS
<1>t. FileTyped
    BY DEF FilesTypeOK, FileTyped
<1>e. <<>> \in Seq(Content) /\ <<>> \in Content
    BY DEF Content
<1>f. FileTyped'
    <2>1. CASE Check
        BY <2>1, <1>t DEF Check, FileTyped
    <2>2. CASE Create
        <3>1. last' \in 1..MaxChanges
            BY <2>2, FileAssumption DEF Create, NewChange, FilesTypeOK
        <3>2. <<last'>> \in Content
            BY <3>1 DEF Content
        <3>3. file' \in File
            BY <2>2, <3>1, <3>2, FileAssumption DEF Create, File
        <3> QED
            BY <2>2, <1>t, <3>3 DEF Create, FileTyped
    <2>3. CASE \E w \in workers : EditStep(w)
        BY <2>3, EditStepTyped
    <2>4. CASE UndoRead \/ UndoTake \/ UndoTruncate \/ UndoWrite \/ UndoFails
        BY <2>4, UndoStepTyped
    <2>5. CASE UserSaves
        <3>1. last' \in 1..MaxChanges
            BY <2>5, FileAssumption DEF UserSaves, NewChange, FilesTypeOK
        <3>2. (IF Existing THEN file.text ELSE <<>>) \in Content
            BY <1>t, <1>e DEF FileTyped, Existing, File
        <3>3. Append(IF Existing THEN file.text ELSE <<>>, last') \in Content
            BY <3>1, <3>2 DEF Content
        <3>4. file' \in File
            BY <2>5, <3>1, <3>3, FileAssumption DEF UserSaves, File
        <3> QED
            BY <2>5, <1>t, <3>4 DEF UserSaves, FileTyped
    <2>6. CASE Abandon
        BY <2>6, <1>t, FileAssumption DEF Abandon, FileTyped
    <2>7. CASE Restart
        <3>1. NoUndo \in Undo
            BY <1>e DEF NoUndo, Undo
        <3>2. undo' \in Undo
            BY <2>7, <3>1 DEF Restart
        <3>3. index' \in Seq(Content)
            <4>1. CASE index' = index
                BY <4>1, <1>t DEF FileTyped
            <4>2. CASE index' = <<>>
                BY <4>2, <1>e
            <4> QED
                BY <2>7, <4>1, <4>2 DEF Restart
        <3>4. crashes' \in 0..MaxCrashes
            BY <2>7, <1>t, FileAssumption DEF Restart, FileTyped
        <3> QED
            BY <2>7, <1>t, <3>2, <3>3, <3>4 DEF Restart, FileTyped
    <2>8. CASE Conflict \/ UNCHANGED fileVars
        BY <2>8, <1>t DEF Conflict, fileVars, FileTyped
    <2> QED
        BY <2>1, <2>2, <2>3, <2>4, <2>5, <2>6, <2>7, <2>8 DEF FilesNext
<1> QED
    BY <1>f, ThreadsStep DEF FileTyped, ThreadsTyped, FilesTypeOK

LEMMA FilesTypedInit == FilesInit => FilesTypeOK /\ ThreadsNumbered
<1> SUFFICES ASSUME FilesInit
             PROVE  FilesTypeOK /\ ThreadsNumbered
    OBVIOUS
<1>e. <<>> \in Seq(Content) /\ <<>> \in Content
    BY DEF Content
<1>0. 0 \in 0..MaxChanges
    BY FileAssumption
<1>1. file \in File \cup {NoFile}
    <2>1. [text |-> <<>>, whole |-> TRUE, by |-> "user", n |-> 0] \in File
        BY <1>e, <1>0 DEF File
    <2> QED
        BY <2>1 DEF FilesInit
<1>2. undo \in Undo
    BY <1>e DEF FilesInit, Undo, NoUndo
<1> QED
    BY <1>1, <1>2, <1>e, FileAssumption, FS_EmptySet
       DEF FilesInit, FilesTypeOK, ThreadsNumbered, NoThread, NoTemp

(* Each thread has a number of its own, no more of them are abandoned than *)
(* the bound, and the snapshots and the file are contents (types of        *)
(* agent/tools/fs.py and UndoStore of agent/sessions.py as modelled).      *)
THEOREM FilesTypeCorrect == FilesSpec => []FilesTypeOK
<1>1. FilesInit => FilesTypeOK /\ ThreadsNumbered
    BY FilesTypedInit
<1>2. FilesTypeOK /\ ThreadsNumbered /\ [FilesNext]_fileVars => FilesTypeOK' /\ ThreadsNumbered'
    BY FilesTypedStep
<1> QED
    BY <1>1, <1>2, PTL DEF FilesSpec
-----------------------------------------------------------------------------
(* The snapshots, and an edit at work, while no thread has been abandoned. *)

LEMMA ChainAppended ==
    ASSUME NEW s \in Seq(Content), NEW c \in Content,
           s # <<>> => Chain(s) /\ IsPrefix(Last(s), c)
    PROVE  LET t == Append(s, c) IN
              t \in Seq(Content) /\ t # <<>> /\ Chain(t) /\ Last(t) = c
<1> DEFINE t == Append(s, c)
<1>1. t \in Seq(Content) /\ t # <<>> /\ Len(t) = Len(s) + 1 /\ t[Len(s) + 1] = c
      /\ \A i \in 1..Len(s) : t[i] = s[i]
    BY AppendProperties
<1>2. Last(t) = c
    BY <1>1 DEF Last
<1>3. ASSUME NEW i \in 1..(Len(t) - 1)
      PROVE  IsPrefix(t[i], t[i + 1])
    <2>1. i \in 1..Len(s) /\ s # <<>> /\ t[i] = s[i] /\ Len(s) \in Nat
        BY <1>1
    <2>2. CASE i = Len(s)
        BY <1>1, <2>1, <2>2 DEF Last
    <2>3. CASE i # Len(s)
        <3>1. i \in 1..(Len(s) - 1) /\ i + 1 \in 1..Len(s)
            BY <2>1, <2>3
        <3> QED
            BY <1>1, <2>1, <3>1 DEF Chain
    <2> QED
        BY <2>2, <2>3
<1> QED
    BY <1>1, <1>2, <1>3 DEF Chain

LEMMA ChainFront ==
    ASSUME NEW s \in Seq(Content), s # <<>>, Chain(s)
    PROVE  /\ Last(s) \in Content
           /\ Front(s) \in Seq(Content)
           /\ Front(s) # <<>> => /\ Chain(Front(s))
                                 /\ Last(Front(s)) \in Content
                                 /\ IsPrefix(Last(Front(s)), Last(s))
<1> DEFINE n == Len(s) - 1
           f == SubSeq(s, 1, n)
<1>1. n \in Nat /\ Len(s) = n + 1 /\ \A i \in 1..n : s[i] \in Content
    <2>1. Len(s) \in Nat /\ Len(s) # 0
        OBVIOUS
    <2> QED
        BY <2>1
<1>2. s[n + 1] \in Content /\ \A i \in 1..n : IsPrefix(s[i], s[i + 1])
    BY <1>1 DEF Chain
<1>d. Front(s) = f /\ Last(s) = s[n + 1]
    BY <1>1 DEF Front, Last
<1> HIDE DEF n
<1>3. f \in Seq(Content) /\ Len(f) = n /\ \A i \in 1..n : f[i] = s[i]
    <2>1. /\ f \in Seq(Content)
          /\ Len(f) = IF 1 <= n THEN n - 1 + 1 ELSE 0
          /\ \A i \in 1..(n - 1 + 1) : f[i] = s[1 + i - 1]
        BY ONLY <1>1, SubSeqProperties
    <2> QED
        BY ONLY <2>1, <1>1
<1> HIDE DEF f
<1>4. ASSUME f # <<>>
      PROVE  Chain(f) /\ Last(f) \in Content /\ IsPrefix(Last(f), s[n + 1])
    <2>1. n >= 1
        BY <1>1, <1>3, <1>4
    <2>2. Chain(f)
        BY <1>1, <1>2, <1>3 DEF Chain
    <2>3. Last(f) = s[n]
        BY <1>1, <1>3, <2>1 DEF Last
    <2> QED
        BY <1>1, <1>2, <2>1, <2>2, <2>3
<1> QED
    BY <1>2, <1>3, <1>4, <1>d

LEMMA Alone ==
    ASSUME FilesTypeOK, ThreadsNumbered, OneAtATime
    PROVE  /\ active = NoThread => workers = {}
           /\ undo # NoUndo => workers = {}
           /\ \A w \in workers : workers = {w} /\ active = w.n /\ undo = NoUndo
<1>1. \A w \in workers : w.n = active /\ active # NoThread
    BY DEF FilesTypeOK, OneAtATime, NoThread, Worker
<1> QED
    BY <1>1 DEF OneAtATime, ThreadsNumbered

LEMMA TextTyped ==
    ASSUME FilesTypeOK, Existing
    PROVE  file \in File /\ file.text \in Content
BY DEF FilesTypeOK, Existing, File

(* What a step leaves behind where it ends or starts threads only.         *)
LEMMA NoWorkerLeft ==
    ASSUME workers' = {}, SnapshotsBehind', NoHalfEdit', undo' # NoUndo => active' = NoThread
    PROVE  WithoutOverlap'
BY DEF WithoutOverlap, OneAtATime

(* The file keeps its text, and who made it; no edit is torn.              *)
TextKept ==
    \/ file' = file
    \/ /\ Existing /\ Existing'
       /\ file'.text = file.text
       /\ file'.by = file.by
       /\ file'.whole \/ file'.whole = file.whole

LEMMA CompletedKeepsText ==
    ASSUME FilesTypeOK, NEW w, file' = Completed(w)
    PROVE  TextKept
<1>1. CASE file \in File
    BY <1>1 DEF Completed, TextKept, File, Existing, NoFile
<1>2. CASE file = NoFile
    BY <1>2 DEF Completed, TextKept, Existing
<1> QED
    BY <1>1, <1>2 DEF FilesTypeOK

LEMMA TextKeptKeeps ==
    ASSUME TextKept, index' = index, undo' = undo, SnapshotsBehind, NoHalfEdit
    PROVE  SnapshotsBehind' /\ NoHalfEdit'
BY DEF TextKept, SnapshotsBehind, NoHalfEdit, Existing

LEMMA EndKeepsSnapshots ==
    ASSUME FilesTypeOK, ThreadsNumbered, WithoutOverlap, NEW w \in workers, Ends(w),
           undo' = undo, SnapshotsBehind', NoHalfEdit'
    PROVE  WithoutOverlap'
<1>1. workers = {w} /\ undo = NoUndo
    BY Alone DEF WithoutOverlap
<1>2. workers' = {}
    BY <1>1 DEF Ends
<1> QED
    BY <1>1, <1>2, NoWorkerLeft

LEMMA EditStepSafe ==
    ASSUME FilesTypeOK, ThreadsNumbered, WithoutOverlap, NEW w \in workers, EditStep(w)
    PROVE  WithoutOverlap'
<1>a. /\ workers = {w} /\ active = w.n /\ undo = NoUndo /\ undo.pc = "idle"
      /\ OneAtATime /\ SnapshotsBehind /\ NoHalfEdit
      /\ w \in Worker /\ w.base \in Content /\ w.n \in 1..MaxChanges
      /\ w.pc # "creating" => EditInHand(w)
    BY Alone DEF WithoutOverlap, FilesTypeOK, Worker, NoUndo
<1>g. ASSUME NEW pc \in {"snapped", "opened", "filled"}, Moves(w, pc), active' = active,
             undo' = undo, SnapshotsBehind', NoHalfEdit',
             EditInHand([w EXCEPT !.pc = pc])'
      PROVE  WithoutOverlap'
    <2>1. workers' = {[w EXCEPT !.pc = pc]}
        BY <1>a, <1>g DEF Moves
    <2>2. [w EXCEPT !.pc = pc].n = w.n
        BY <1>a, MovedWorker
    <2> QED
        BY <1>a, <1>g, <2>1, <2>2 DEF WithoutOverlap, OneAtATime
<1>1. CASE Snapshot(w)
    <2> DEFINE v == [w EXCEPT !.pc = "snapped"]
    <2>0. v.n = w.n /\ v.base = w.base /\ v.pc = "snapped"
        BY <1>a, MovedWorker
    <2>1. EditInHand(w) /\ w.pc = "checked"
        BY <1>1, <1>a DEF Snapshot
    <2>2. index \in Seq(Content) /\ (index # <<>> => Chain(index) /\ IsPrefix(Last(index), w.base))
        BY <1>a, <2>1 DEF FilesTypeOK, SnapshotsBehind, EditInHand
    <2>3. index' # <<>> /\ Chain(index') /\ Last(index') = w.base
        BY <1>1, <1>a, <2>2, ChainAppended DEF Snapshot
    <2>4. UNCHANGED <<file, active, undo>> /\ Moves(w, "snapped")
        BY <1>1 DEF Snapshot
    <2>5. SnapshotsBehind' /\ NoHalfEdit'
        BY <1>a, <2>1, <2>3, <2>4 DEF SnapshotsBehind, NoHalfEdit, EditInHand, Existing
    <2> HIDE DEF v
    <2>6. EditInHand(v)'
        BY <2>0, <2>1, <2>3, <2>4 DEF EditInHand, Existing
    <2> QED
        BY <1>g, <2>4, <2>5, <2>6 DEF v
<1>2. CASE OpenTemp(w)
    <2> DEFINE v == [w EXCEPT !.pc = "opened"]
    <2>0. v.n = w.n /\ v.base = w.base /\ v.pc = "opened"
        BY <1>a, MovedWorker
    <2>1. EditInHand(w) /\ w.pc = "snapped"
        BY <1>2, <1>a DEF OpenTemp
    <2>2. UNCHANGED <<file, active, undo, index>> /\ Moves(w, "opened")
        BY <1>2 DEF OpenTemp
    <2>3. SnapshotsBehind' /\ NoHalfEdit'
        BY <1>a, <2>2 DEF SnapshotsBehind, NoHalfEdit, Existing
    <2> HIDE DEF v
    <2>4. EditInHand(v)'
        BY <2>0, <2>1, <2>2 DEF EditInHand, Existing
    <2> QED
        BY <1>g, <2>2, <2>3, <2>4 DEF v
<1>3. CASE Jam(w)
    BY <1>3, <1>a, EndKeepsSnapshots DEF Jam, SnapshotsBehind, NoHalfEdit, Existing
<1>4. CASE Fill(w)
    <2> DEFINE v == [w EXCEPT !.pc = "filled"]
    <2>0. v.n = w.n /\ v.base = w.base /\ v.pc = "filled"
        BY <1>a, MovedWorker
    <2>1. EditInHand(w) /\ w.pc = "opened"
        BY <1>4, <1>a DEF Fill
    <2>2. UNCHANGED <<active, undo, index>> /\ Moves(w, "filled") /\ TextKept
        BY <1>4, CompletedKeepsText DEF Fill
    <2>3. SnapshotsBehind' /\ NoHalfEdit'
        BY <1>a, <2>2, TextKeptKeeps
    <2> HIDE DEF v
    <2>4. EditInHand(v)'
        BY <2>0, <2>1, <2>2 DEF EditInHand, Existing, TextKept
    <2> QED
        BY <1>g, <2>2, <2>3, <2>4 DEF v
<1>5. CASE Replace(w)
    <2>1. file' = [text |-> Made(w), whole |-> w.pc = "filled", by |-> "edit", n |-> w.n]
          /\ w.pc = "filled" /\ UNCHANGED <<index, undo>> /\ Ends(w)
        BY <1>5, <1>a DEF Replace
    <2>2. Existing' /\ file'.text = Made(w) /\ file'.whole
        <3>1. "text" \in DOMAIN file' /\ "text" \notin DOMAIN NoFile
            BY <2>1 DEF NoFile
        <3> QED
            BY <2>1, <3>1 DEF Existing
    <2>3. index # <<>> /\ Last(index) = w.base /\ Chain(index)
        BY <1>a, <2>1 DEF EditInHand, SnapshotsBehind
    <2>4. IsPrefix(w.base, Made(w))
        BY <1>a, PrefixOfItself, PrefixOfLonger DEF Content, Made
    <2>5. SnapshotsBehind' /\ NoHalfEdit'
        BY <1>a, <2>1, <2>2, <2>3, <2>4 DEF SnapshotsBehind, NoHalfEdit
    <2> QED
        BY <2>1, <2>5, EndKeepsSnapshots
<1>6. CASE EditFails(w)
    BY <1>6, <1>a, EndKeepsSnapshots DEF EditFails, SnapshotsBehind, NoHalfEdit, Existing
<1>7. CASE FillCreated(w)
    <2>1. TextKept
        BY <1>7, CompletedKeepsText DEF FillCreated, TextKept
    <2> QED
        BY <1>7, <1>a, <2>1, TextKeptKeeps, EndKeepsSnapshots DEF FillCreated
<1> QED
    BY <1>1, <1>2, <1>3, <1>4, <1>5, <1>6, <1>7 DEF EditStep
LEMMA UndoStepSafe ==
    ASSUME FilesTypeOK, ThreadsNumbered, WithoutOverlap,
           UndoRead \/ UndoTake \/ UndoTruncate \/ UndoWrite \/ UndoFails
    PROVE  WithoutOverlap'
<1>a. SnapshotsBehind /\ NoHalfEdit /\ OneAtATime
    BY DEF WithoutOverlap
<1>b. workers = {} /\ active = NoThread
    <2>1. CASE UndoRead
        BY <2>1, Alone, <1>a DEF UndoRead, Quiet
    <2>2. CASE UndoTake \/ UndoTruncate \/ UndoWrite
        BY <2>2, Alone, <1>a DEF UndoTake, UndoTruncate, UndoWrite, OneAtATime, NoUndo
    <2>3. CASE UndoFails
        BY <2>3, Alone, <1>a DEF UndoFails, OneAtATime
    <2> QED
        BY <2>1, <2>2, <2>3
<1>c. workers' = {} /\ active' = NoThread
    BY <1>b DEF UndoRead, UndoTake, UndoTruncate, UndoWrite, UndoFails
<1>1. CASE UndoRead
    <2>1. undo'.pc = "read" /\ undo'.rest = Front(index) /\ undo'.data = Last(index)
          /\ index # <<>> /\ UNCHANGED <<file, index>>
        BY <1>1 DEF UndoRead
    <2>2. SnapshotsBehind' /\ NoHalfEdit'
        BY <1>a, <2>1 DEF SnapshotsBehind, NoHalfEdit, Existing
    <2> QED
        BY <1>c, <2>2, NoWorkerLeft
<1>2. CASE UndoTake
    <2>1. index # <<>> /\ undo.data = Last(index) /\ undo.rest = Front(index)
          /\ Existing /\ Chain(index) /\ IsPrefix(Last(index), file.text)
        BY <1>2, <1>a DEF UndoTake, SnapshotsBehind
    <2>2. undo'.pc = "taken" /\ undo'.data = Last(index) /\ index' = Front(index)
          /\ file' = file
        BY <1>2, <2>1 DEF UndoTake, FilesTypeOK, Undo
    <2>3. Last(index) \in Content
          /\ (index' # <<>> => /\ Chain(index') /\ Last(index') \in Content
                               /\ IsPrefix(Last(index'), Last(index)))
        BY <2>1, <2>2, ChainFront DEF FilesTypeOK
    <2>4. ASSUME index' # <<>>
          PROVE  IsPrefix(Last(index'), file.text)
        BY <2>1, <2>3, <2>4, TextTyped, PrefixOfPrefix DEF Content
    <2>5. SnapshotsBehind' /\ NoHalfEdit'
        BY <1>a, <2>1, <2>2, <2>3, <2>4 DEF SnapshotsBehind, NoHalfEdit, Existing
    <2> QED
        BY <1>c, <2>5, NoWorkerLeft
<1>3. CASE UndoTruncate
    <2>1. Existing /\ (index # <<>> => Chain(index) /\ IsPrefix(Last(index), undo.data))
        BY <1>3, <1>a DEF UndoTruncate, SnapshotsBehind
    <2>2. undo'.pc = "writing" /\ index' = index /\ file'.text = undo.data /\ file'.by = "undo"
        BY <1>3 DEF UndoTruncate, FilesTypeOK, Undo
    <2>3. Existing'
        <3>1. "text" \in DOMAIN file' /\ "text" \notin DOMAIN NoFile
            BY <1>3 DEF UndoTruncate, NoFile
        <3> QED
            BY <3>1 DEF Existing
    <2>4. SnapshotsBehind' /\ NoHalfEdit'
        BY <2>1, <2>2, <2>3 DEF SnapshotsBehind, NoHalfEdit
    <2> QED
        BY <1>c, <2>4, NoWorkerLeft
<1>4. CASE UndoWrite
    <2>1. TextKept
        <3>1. CASE file \in File
            BY <1>4, <3>1 DEF UndoWrite, TextKept, File, Existing, NoFile
        <3>2. CASE file = NoFile
            BY <1>4, <3>2 DEF UndoWrite, TextKept, NoFile
        <3> QED
            BY <3>1, <3>2 DEF FilesTypeOK
    <2>2. undo'.pc = "idle" /\ index' = index
        BY <1>4 DEF UndoWrite, NoUndo
    <2>3. SnapshotsBehind' /\ NoHalfEdit'
        BY <1>a, <2>1, <2>2 DEF TextKept, SnapshotsBehind, NoHalfEdit, Existing
    <2> QED
        BY <1>c, <2>3, NoWorkerLeft
<1>5. CASE UndoFails
    <2>1. undo'.pc = "idle" /\ UNCHANGED <<file, index>>
        BY <1>5 DEF UndoFails, NoUndo
    <2>2. SnapshotsBehind' /\ NoHalfEdit'
        BY <1>a, <2>1 DEF SnapshotsBehind, NoHalfEdit, Existing
    <2> QED
        BY <1>c, <2>2, NoWorkerLeft
<1> QED
    BY <1>1, <1>2, <1>3, <1>4, <1>5

LEMMA StartSafe ==
    ASSUME FilesTypeOK, ThreadsNumbered, WithoutOverlap, Check \/ Create
    PROVE  WithoutOverlap'
<1>a. SnapshotsBehind /\ NoHalfEdit /\ OneAtATime
    BY DEF WithoutOverlap
<1>b. workers = {} /\ undo = NoUndo /\ undo.pc = "idle"
    BY <1>a, Alone DEF Check, Create, Quiet, NoUndo
<1>1. CASE Check
    <2> DEFINE v == [n |-> last', base |-> file.text, pc |-> "checked"]
    <2>1. workers' = {v} /\ active' = last' /\ UNCHANGED <<file, index, undo>> /\ Existing
        BY <1>1, <1>b DEF Check
    <2>2. SnapshotsBehind' /\ NoHalfEdit'
        BY <1>a, <2>1 DEF SnapshotsBehind, NoHalfEdit, Existing
    <2>3. IsPrefix(file.text, file.text)
        BY <2>1, TextTyped, PrefixOfItself DEF Content
    <2>4. v.n = last' /\ v.base = file.text /\ v.pc = "checked"
        OBVIOUS
    <2> HIDE DEF v
    <2>5. ASSUME NEW w \in workers'
          PROVE  w.n = active' /\ EditInHand(w)'
        <3>1. w.n = last' /\ w.base = file.text /\ w.pc = "checked"
            BY <2>1, <2>4
        <3> QED
            BY <1>a, <2>1, <2>3, <3>1 DEF EditInHand, Existing, SnapshotsBehind
    <2> QED
        BY <1>b, <2>1, <2>2, <2>5 DEF WithoutOverlap, OneAtATime
<1>2. CASE Create
    <2> DEFINE v == [n |-> last', base |-> <<>>, pc |-> "creating"]
    <2>1. workers' = {v} /\ active' = last' /\ UNCHANGED <<index, undo>> /\ ~Existing
          /\ file'.by = "write"
        BY <1>2, <1>b DEF Create
    <2>2. index = <<>>
        BY <1>a, <2>1 DEF SnapshotsBehind
    <2>3. SnapshotsBehind' /\ NoHalfEdit'
        BY <1>b, <2>1, <2>2 DEF SnapshotsBehind, NoHalfEdit
    <2>4. v.n = last' /\ v.pc = "creating"
        OBVIOUS
    <2> QED
        BY <1>b, <2>1, <2>3, <2>4 DEF WithoutOverlap, OneAtATime
<1> QED
    BY <1>1, <1>2

LEMMA SaveSafe ==
    ASSUME FilesTypeOK, ThreadsNumbered, WithoutOverlap, UserSaves
    PROVE  WithoutOverlap'
<1>a. SnapshotsBehind /\ NoHalfEdit /\ OneAtATime
    BY DEF WithoutOverlap
<1>1. last' = last + 1 /\ last \in Nat /\ last' \in 1..MaxChanges
      /\ UNCHANGED <<workers, active, index, undo>>
    BY FileAssumption DEF UserSaves, NewChange, FilesTypeOK
<1>2. file'.text = Append(IF Existing THEN file.text ELSE <<>>, last') /\ file'.whole
    BY DEF UserSaves
<1>3. Existing'
    <2>1. "text" \in DOMAIN file' /\ "text" \notin DOMAIN NoFile
        BY DEF UserSaves, NoFile
    <2> QED
        BY <2>1 DEF Existing
<1>4. CASE ~Existing
    <2>1. index = <<>> /\ undo.pc # "taken" /\ undo.pc # "read" /\ \A w \in workers : w.pc = "creating"
        BY <1>4, <1>a DEF SnapshotsBehind, WithoutOverlap, EditInHand
    <2> QED
        BY <1>a, <1>1, <1>2, <1>3, <2>1 DEF WithoutOverlap, SnapshotsBehind, NoHalfEdit, OneAtATime
<1>5. CASE Existing
    <2>1. file'.text = Append(file.text, last') /\ file.text \in Content
        BY <1>2, <1>5, TextTyped
    <2>2. \A c \in Content : IsPrefix(c, file.text) => IsPrefix(c, file'.text)
        BY <1>1, <2>1, PrefixOfLonger DEF Content
    <2>3. ToSet(file'.text) = ToSet(file.text) \cup {last'}
        <3>1. file.text \in Seq(1..MaxChanges) /\ last' \in 1..MaxChanges
            BY <1>1, <2>1 DEF Content
        <3>2. \A c \in Seq(1..MaxChanges), u \in 1..MaxChanges :
                 ToSet(Append(c, u)) = ToSet(c) \cup {u}
            BY AppendedSet
        <3> QED
            BY <2>1, <3>1, <3>2, Zenon
    <2>4. index # <<>> => Last(index) \in Content
        <3>1. index # <<>> => Len(index) \in 1..Len(index)
            BY DEF FilesTypeOK
        <3> QED
            BY <3>1 DEF Last, FilesTypeOK
    <2>5. SnapshotsBehind' /\ NoHalfEdit'
        BY <1>a, <1>1, <1>2, <1>3, <1>5, <2>2, <2>4 DEF SnapshotsBehind, NoHalfEdit, Existing
    <2>6. ASSUME NEW w \in workers, w.pc # "creating"
          PROVE  EditInHand(w)'
        <3>1. EditInHand(w) /\ w.base \in Content /\ w.n <= last /\ w.n \in Nat
            BY <2>6 DEF WithoutOverlap, FilesTypeOK, Worker, ThreadsNumbered
        <3>2. \A u \in ToSet(file'.text) : u < w.n => u \in ToSet(w.base)
            BY <1>1, <2>3, <3>1 DEF EditInHand
        <3> QED
            BY <1>1, <1>3, <2>2, <3>1, <3>2 DEF EditInHand
    <2> QED
        BY <1>a, <1>1, <2>5, <2>6 DEF WithoutOverlap, OneAtATime
<1> QED
    BY <1>4, <1>5

LEMMA RestartSafe ==
    ASSUME WithoutOverlap, Restart
    PROVE  WithoutOverlap'
<1>1. workers' = {} /\ active' = NoThread /\ undo' = NoUndo /\ undo'.pc = "idle" /\ file' = file
      /\ index' \in {index, <<>>}
    BY DEF Restart, NoUndo
<1>2. SnapshotsBehind' /\ NoHalfEdit'
    BY <1>1 DEF WithoutOverlap, SnapshotsBehind, NoHalfEdit, Existing
<1> QED
    BY <1>1, <1>2, NoWorkerLeft

LEMMA WithoutOverlapStep ==
    ASSUME FilesTypeOK, ThreadsNumbered, abandoned = 0 => WithoutOverlap,
           [FilesNext]_fileVars, abandoned' = 0
    PROVE  abandoned = 0 /\ WithoutOverlap'
<1>1. ~Abandon
    BY DEF Abandon, FilesTypeOK
<1>2. abandoned = 0
    BY <1>1 DEF FilesNext, Check, Conflict, Create, EditStep, Snapshot, OpenTemp, Jam, Fill,
                Replace, EditFails, FillCreated, UndoRead, UndoTake, UndoTruncate, UndoWrite,
                UndoFails, UserSaves, Restart, fileVars
<1>3. WithoutOverlap
    BY <1>2
<1>4. CASE UNCHANGED fileVars
    BY <1>3, <1>4
       DEF fileVars, WithoutOverlap, OneAtATime, SnapshotsBehind, EditInHand, NoHalfEdit, Existing
<1>5. CASE Conflict
    BY <1>4, <1>5 DEF Conflict
<1>6. CASE \E w \in workers : EditStep(w)
    BY <1>2, <1>3, <1>6, EditStepSafe
<1>7. CASE UndoRead \/ UndoTake \/ UndoTruncate \/ UndoWrite \/ UndoFails
    BY <1>2, <1>3, <1>7, UndoStepSafe
<1>8. CASE Check \/ Create
    BY <1>2, <1>3, <1>8, StartSafe
<1> QED
    BY <1>1, <1>2, <1>3, <1>4, <1>5, <1>6, <1>7, <1>8, SaveSafe, RestartSafe DEF FilesNext

-----------------------------------------------------------------------------
(* Every jam is paid for by a death or an abandoned thread.                *)

LEMMA JammersFinite ==
    ASSUME ThreadsNumbered
    PROVE  IsFiniteSet(Jammers) /\ Cardinality(Jammers) \in Nat /\ Leftover \in {0, 1}
BY NoMore DEF Jammers, Leftover, ThreadsNumbered

LEMMA JammersFiniteNext ==
    ASSUME ThreadsNumbered'
    PROVE  IsFiniteSet(Jammers') /\ Cardinality(Jammers') \in Nat /\ Leftover' \in {0, 1}
<1>1. Jammers' \subseteq workers' /\ IsFiniteSet(workers')
    BY DEF Jammers, ThreadsNumbered
<1>2. IsFiniteSet(Jammers') /\ Cardinality(Jammers') \in Nat
    BY <1>1, NoMore
<1> QED
    BY <1>2 DEF Leftover

(* A thread that starts is waited for, and one that ends can no longer     *)
(* cause a jam.                                                            *)
LEMMA StartsPaid ==
    ASSUME ThreadsTyped, Starts
    PROVE  Cardinality(Jammers') <= Cardinality(Jammers) /\ Leftover' <= Leftover
<1>1. PICK base \in Content, pc \in {"checked", "creating"} :
        workers' = workers \cup {[n |-> last', base |-> base, pc |-> pc]}
    BY DEF Starts
<1> DEFINE v == [n |-> last', base |-> base, pc |-> pc]
<1>2. last \in Nat /\ last' = last + 1 /\ temp' = temp /\ active' = last' /\ temp \in Nat
      /\ temp <= last /\ active = NoThread
    BY FileAssumption DEF Starts, NewChange, ThreadsTyped, ThreadsNumbered
<1>3. v.n = last'
    OBVIOUS
<1> HIDE DEF v
<1>4. workers' = workers \cup {v}
    BY <1>1 DEF v
<1>5. \A w \in workers : w.n \in 1..MaxChanges
    BY DEF ThreadsTyped, Worker
<1>6. Jammers' \subseteq Jammers
    BY <1>2, <1>3, <1>4, <1>5 DEF Jammers, MayJam, NoThread
<1>7. Leftover' <= Leftover
    BY <1>2, <1>3, <1>4 DEF Leftover
<1> QED
    BY <1>6, <1>7, JammersFinite, NoMore DEF ThreadsTyped

LEMMA GoesOnPaid ==
    ASSUME ThreadsTyped, NEW w \in workers, NEW pc \in {"snapped", "opened", "filled"},
           GoesOn(w, pc)
    PROVE  Cardinality(Jammers') <= Cardinality(Jammers) /\ Leftover' <= Leftover
<1> DEFINE v == [w EXCEPT !.pc = pc]
<1>1. workers' = (workers \ {w}) \cup {v}
    BY DEF GoesOn, Moves
<1>2. v.n = w.n /\ v.pc = pc /\ w.n \in 1..MaxChanges
    BY MovedWorker DEF ThreadsTyped, Worker
<1> HIDE DEF v
<1>3. \A x \in workers : x # w => x.n # w.n /\ x.n \in 1..MaxChanges
    BY DEF ThreadsTyped, ThreadsNumbered, Worker
<1>4. ASSUME NEW x \in workers, x # w, MayJam(x)'
      PROVE  MayJam(x)
    BY <1>3, <1>4 DEF MayJam, GoesOn
<1>5. MayJam(v)' => MayJam(w)
    BY <1>2 DEF MayJam, GoesOn
<1>6. Cardinality(Jammers') <= Cardinality(Jammers)
    <2>1. CASE MayJam(w)
        <3>1. w \in Jammers /\ Jammers' \subseteq (Jammers \ {w}) \cup {v}
            BY <1>1, <1>4, <2>1 DEF Jammers
        <3> QED
            BY <3>1, JammersFinite, OneForAnother DEF ThreadsTyped
    <2>2. CASE ~MayJam(w)
        <3>1. Jammers' \subseteq Jammers
            BY <1>1, <1>4, <1>5, <2>2 DEF Jammers
        <3> QED
            BY <3>1, JammersFinite, NoMore DEF ThreadsTyped
    <2> QED
        BY <2>1, <2>2
<1>7. Leftover' <= Leftover
    <2>1. CASE pc = "opened"
        <3>1. v \in workers' /\ temp' = v.n
            BY <1>1, <1>2, <2>1 DEF GoesOn
        <3>2. Leftover' = 0
            BY <3>1 DEF Leftover
        <3> QED
            BY <3>2 DEF Leftover
    <2>2. CASE pc # "opened"
        <3>1. temp' = temp
            BY <2>2 DEF GoesOn
        <3> QED
            BY <1>1, <1>2, <3>1 DEF Leftover
    <2> QED
        BY <2>1, <2>2
<1> QED
    BY <1>6, <1>7

LEMMA EndsPaid ==
    ASSUME ThreadsTyped, NEW w \in workers, EndsWell(w)
    PROVE  Cardinality(Jammers') <= Cardinality(Jammers) /\ Leftover' <= Leftover
           /\ Jammers' \subseteq Jammers \ {w}
<1>1. workers' = workers \ {w} /\ (active' = active \/ (active = w.n /\ active' = NoThread))
    BY DEF EndsWell, Ends
<1>2. temp' = NoTemp \/ (temp' = temp /\ temp # w.n)
    BY DEF EndsWell, ThreadsTyped, ThreadsNumbered
<1>3. \A x \in workers : x # w => x.n # w.n /\ x.n \in 1..MaxChanges
    BY DEF ThreadsTyped, ThreadsNumbered, Worker
<1>4. Jammers' \subseteq Jammers \ {w}
    BY <1>1, <1>2, <1>3 DEF Jammers, MayJam, NoTemp
<1>5. Leftover' <= Leftover
    <2>1. CASE temp' = NoTemp
        BY <2>1 DEF Leftover
    <2>2. CASE temp' = temp /\ temp # w.n
        BY <1>1, <2>2 DEF Leftover
    <2> QED
        BY <1>2, <2>1, <2>2
<1> QED
    BY <1>4, <1>5, JammersFinite, NoMore DEF ThreadsTyped
(* An edit that meets a taken name consumes a leftover, or the credit of   *)
(* the abandoned thread that it is, or of the one that has the name.       *)
LEMMA JamPaid ==
    ASSUME ThreadsTyped, NEW w \in workers, Jam(w)
    PROVE  Cardinality(Jammers') + Leftover' + 1 <= Cardinality(Jammers) + Leftover
<1>e. EndsWell(w) /\ temp' = NoTemp /\ temp # NoTemp /\ w.pc = "snapped"
    BY DEF Jam, EndsWell
<1>1. Leftover' = 0 /\ Leftover \in {0, 1}
    BY <1>e DEF Leftover
<1>f. IsFiniteSet(Jammers) /\ Cardinality(Jammers) \in Nat /\ Cardinality(Jammers') \in Nat
      /\ Cardinality(Jammers') <= Cardinality(Jammers) /\ Jammers' \subseteq Jammers \ {w}
    <2>1. ThreadsTyped' /\ Jammers' \subseteq Jammers \ {w}
          /\ Cardinality(Jammers') <= Cardinality(Jammers)
        BY <1>e, EndsPaid, EndsTyped
    <2> QED
        BY <2>1, JammersFinite, JammersFiniteNext DEF ThreadsTyped
<1>2. CASE MayJam(w)
    <2>1. w \in Jammers
        BY <1>2 DEF Jammers
    <2>2. Cardinality(Jammers') + 1 <= Cardinality(Jammers)
        BY <1>f, <2>1, OneLess
    <2> QED
        BY <1>1, <1>f, <2>2
<1>3. CASE ~MayJam(w) /\ \E v \in workers : v.n = temp
    <2>1. PICK v \in workers : v.n = temp
        BY <1>3
    <2>2. v.pc \in {"opened", "filled"} /\ v # w /\ v.n # w.n /\ v.n # NoTemp
        BY <1>e, <2>1 DEF ThreadsTyped, ThreadsNumbered
    <2>3. w.n = active
        BY <1>e, <1>3 DEF MayJam
    <2>4. v \in Jammers /\ v \notin Jammers'
        BY <1>e, <2>1, <2>2, <2>3 DEF Jammers, MayJam
    <2>5. Cardinality(Jammers') + 1 <= Cardinality(Jammers)
        <3>1. Jammers' \subseteq Jammers \ {v}
            BY <1>f, <2>4
        <3> QED
            BY <1>f, <2>4, <3>1, OneLess
    <2> QED
        BY <1>1, <1>f, <2>5
<1>4. CASE \A v \in workers : v.n # temp
    <2>1. Leftover = 1
        BY <1>e, <1>4 DEF Leftover
    <2> QED
        BY <1>1, <1>f, <2>1
<1> QED
    BY <1>2, <1>3, <1>4

LEMMA AbandonPaid ==
    ASSUME ThreadsTyped, Abandon
    PROVE  Cardinality(Jammers') <= Cardinality(Jammers) + 1 /\ Leftover' = Leftover
<1>1. PICK w \in workers : w.n = active
    BY DEF Abandon, ThreadsTyped
<1>2. UNCHANGED <<temp, workers>> /\ active' = NoThread
    BY DEF Abandon
<1>3. \A x \in workers : x # w => x.n # active
    BY <1>1 DEF ThreadsTyped, ThreadsNumbered
<1>4. Jammers' \subseteq Jammers \cup {w}
    BY <1>2, <1>3 DEF Jammers, MayJam
<1>5. Leftover' = Leftover
    BY <1>2 DEF Leftover
<1> QED
    BY <1>4, <1>5, JammersFinite, OneMore DEF ThreadsTyped

LEMMA JamsPaidStep ==
    ASSUME FilesTypeOK, ThreadsNumbered, JamsPaid, [FilesNext]_fileVars
    PROVE  JamsPaid'
<1>t. ThreadsTyped /\ ThreadsTyped'
    BY ThreadsStep DEF FilesTypeOK, ThreadsTyped, NoThread
<1>n. /\ Cardinality(Jammers) \in Nat /\ Leftover \in {0, 1}
      /\ Cardinality(Jammers') \in Nat /\ Leftover' \in {0, 1}
      /\ jammed \in Nat /\ abandoned \in Nat /\ crashes \in Nat
    BY <1>t, JammersFinite, JammersFiniteNext, FileAssumption DEF ThreadsTyped, FilesTypeOK
<1>p. jammed + Cardinality(Jammers) + Leftover <= abandoned + crashes
    BY DEF JamsPaid
<1>g. ASSUME Cardinality(Jammers') <= Cardinality(Jammers), Leftover' <= Leftover,
             UNCHANGED <<jammed, abandoned, crashes>>
      PROVE  JamsPaid'
    BY <1>n, <1>p, <1>g DEF JamsPaid
<1>1. CASE Check \/ Create
    <2>1. Cardinality(Jammers') <= Cardinality(Jammers) /\ Leftover' <= Leftover
        BY <1>1, <1>t, ThreadOfStart, StartsPaid
    <2> QED
        BY <1>1, <1>g, <2>1 DEF Check, Create
<1>2. ASSUME NEW w \in workers, EditStep(w)
      PROVE  JamsPaid'
    <2>1. CASE Jam(w)
        <3>1. Cardinality(Jammers') + Leftover' + 1 <= Cardinality(Jammers) + Leftover
            BY <1>t, <2>1, JamPaid
        <3>2. jammed' = jammed + 1 /\ UNCHANGED <<abandoned, crashes>>
            BY <2>1 DEF Jam
        <3> QED
            BY <1>n, <1>p, <3>1, <3>2 DEF JamsPaid
    <2>2. CASE ~Jam(w)
        <3>1. Cardinality(Jammers') <= Cardinality(Jammers) /\ Leftover' <= Leftover
            BY <1>2, <1>t, ThreadOfStep, GoesOnPaid, EndsPaid
        <3>2. UNCHANGED <<jammed, abandoned, crashes>>
            BY <1>2, <2>2 DEF EditStep, Snapshot, OpenTemp, Fill, Replace, EditFails, FillCreated
        <3> QED
            BY <1>g, <3>1, <3>2
    <2> QED
        BY <2>1, <2>2
<1>3. CASE Abandon
    <2>1. Cardinality(Jammers') <= Cardinality(Jammers) + 1 /\ Leftover' = Leftover
        BY <1>3, <1>t, AbandonPaid
    <2>2. abandoned' = abandoned + 1 /\ UNCHANGED <<jammed, crashes>>
        BY <1>3 DEF Abandon
    <2> QED
        BY <1>n, <1>p, <2>1, <2>2 DEF JamsPaid
<1>4. CASE Restart
    <2>1. crashes' = crashes + 1 /\ jammed' = jammed /\ abandoned' = abandoned
        BY <1>4 DEF Restart
    <2>2. Cardinality(Jammers') = 0
        <3>1. Jammers' = {}
            BY <1>4 DEF Restart, Jammers
        <3> QED
            BY <3>1, FS_EmptySet
    <2>3. jammed <= abandoned + crashes /\ Leftover' <= 1
        BY <1>n, <1>p
    <2>4. jammed' + Leftover' <= abandoned' + crashes'
        <3>1. jammed \in Nat /\ abandoned \in Nat /\ crashes \in Nat /\ Leftover' \in Nat
            BY <1>n
        <3>2. \A j, a, c, l \in Nat : j <= a + c /\ l <= 1 => j + l <= a + (c + 1)
            OBVIOUS
        <3>3. jammed + Leftover' <= abandoned + (crashes + 1)
            BY <2>3, <3>1, <3>2
        <3> QED
            BY <2>1, <3>1, <3>3
    <2> QED
        <3>1. jammed' + Cardinality(Jammers') = jammed'
            BY <1>n, <2>1, <2>2
        <3> QED
            BY <2>4, <3>1 DEF JamsPaid
<1>5. CASE UNCHANGED <<workers, active, temp, jammed, abandoned, crashes>>
    <2>1. Jammers' = Jammers /\ Leftover' = Leftover
        BY <1>5 DEF Jammers, MayJam, Leftover
    <2> QED
        BY <1>5, <1>p, <2>1 DEF JamsPaid
<1>6. CASE Conflict \/ UndoRead \/ UndoTake \/ UndoTruncate \/ UndoWrite \/ UndoFails
             \/ UserSaves \/ UNCHANGED fileVars
    BY <1>5, <1>6
       DEF Conflict, UndoRead, UndoTake, UndoTruncate, UndoWrite, UndoFails, UserSaves, fileVars
<1> QED
    BY <1>1, <1>2, <1>3, <1>4, <1>6 DEF FilesNext

-----------------------------------------------------------------------------
(* The invariant, and what follows from it.                                *)

LEMMA FilesInvInit == FilesInit => FilesInv
<1> SUFFICES ASSUME FilesInit
             PROVE  FilesInv
    OBVIOUS
<1>1. FilesTypeOK /\ ThreadsNumbered
    BY FilesTypedInit
<1>2. WithoutOverlap
    BY DEF FilesInit, WithoutOverlap, OneAtATime, SnapshotsBehind, NoHalfEdit, NoUndo, Existing
<1>3. JamsPaid
    <2>1. Jammers = {} /\ Leftover = 0
        BY DEF FilesInit, Jammers, Leftover
    <2>2. Cardinality(Jammers) = 0
        BY <2>1, FS_EmptySet
    <2> QED
        BY <2>1, <2>2 DEF FilesInit, JamsPaid
<1> QED
    BY <1>1, <1>2, <1>3 DEF FilesInv

LEMMA FilesInvStep == FilesInv /\ [FilesNext]_fileVars => FilesInv'
BY FilesTypedStep, WithoutOverlapStep, JamsPaidStep DEF FilesInv

LEMMA FilesInvariant == FilesSpec => []FilesInv
BY FilesInvInit, FilesInvStep, PTL DEF FilesSpec

LEMMA InvIsSafe == FilesInv => EditsAreSafe
<1> SUFFICES ASSUME FilesInv
             PROVE  EditsAreSafe
    OBVIOUS
<1>1. UndoWalksBack
    BY DEF FilesInv, WithoutOverlap, SnapshotsBehind, Chain, UndoWalksBack
<1>2. EditsAreAtomic
    BY DEF FilesInv, WithoutOverlap, NoHalfEdit, EditsAreAtomic
<1>3. LeftoversJamOnce
    <2>1. Cardinality(Jammers) \in Nat /\ Leftover \in {0, 1}
        BY JammersFinite DEF FilesInv
    <2> QED
        BY <2>1, FileAssumption DEF FilesInv, FilesTypeOK, JamsPaid, LeftoversJamOnce
<1> QED
    BY <1>1, <1>2, <1>3 DEF EditsAreSafe

(* "Repeated /undo walks backwards", "writes are atomic" (UndoStore,       *)
(* docs/agent.md), and a leftover temp file of fs.edit blocks one edit:    *)
(* for every number of edits, saves, deaths and abandoned threads.         *)
THEOREM EditsStaySafe == FilesSpec => []EditsAreSafe
BY FilesInvariant, InvIsSafe, PTL

(* An edit takes over what was in the file when it compared the hash       *)
(* (EditFileTool.run), so an earlier save is never lost to it.             *)
LEMMA ReplaceKeepsSaves ==
    ASSUME FilesInv, [FilesNext]_fileVars, abandoned = 0, Existing,
           file'.by = "edit", file'.n # file.n
    PROVE  \A u \in ToSet(file.text) : u < file'.n => u \in ToSet(file'.text)
<1>1. PICK w \in workers : Replace(w)
    <2>1. \A w : file' # Completed(w)
        <3>1. file \in File
            BY TextTyped DEF FilesInv
        <3> QED
            BY <3>1 DEF Completed, File
    <2>2. file' # file
        OBVIOUS
    <2>3. ~UndoWrite
        <3>1. file \in File
            BY TextTyped DEF FilesInv
        <3> QED
            BY <3>1 DEF UndoWrite, File
    <2> QED
        BY <2>1, <2>2, <2>3
           DEF FilesNext, EditStep, Check, Conflict, Create, Snapshot, OpenTemp, Jam, Fill,
               EditFails, FillCreated, Abandon, UndoRead, UndoTake, UndoTruncate, UndoFails,
               UserSaves, Restart, fileVars
<1>2. workers = {w} /\ EditInHand(w) /\ w \in Worker
    BY <1>1, Alone DEF FilesInv, WithoutOverlap, Replace, FilesTypeOK
<1>3. file'.text = Made(w) /\ file'.n = w.n
    BY <1>1, <1>2 DEF Replace
<1>4. ToSet(Made(w)) = ToSet(w.base) \cup {w.n}
    <2>1. w.base \in Seq(1..MaxChanges) /\ w.n \in 1..MaxChanges
        BY <1>2 DEF Worker, Content
    <2>2. \A c \in Seq(1..MaxChanges), u \in 1..MaxChanges :
             ToSet(Append(c, u)) = ToSet(c) \cup {u}
        BY AppendedSet
    <2> QED
        BY <2>1, <2>2, Zenon DEF Made
<1> QED
    BY <1>2, <1>3, <1>4 DEF EditInHand

(* "Hash-checked edits; stale hash never writes" (docs/security.md), with  *)
(* the user saving the file at any moment of any number of edits.          *)
THEOREM EarlierSavesKept == FilesSpec => EditsKeepEarlierSaves
<1>1. FilesInv /\ [FilesNext]_fileVars =>
        [ (abandoned = 0 /\ Existing /\ file'.by = "edit" /\ file'.n # file.n)
            => \A u \in ToSet(file.text) :
                  u < file'.n => u \in ToSet(file'.text) ]_fileVars
    BY ReplaceKeepsSaves
<1> QED
    BY <1>1, FilesInvariant, PTL DEF FilesSpec, EditsKeepEarlierSaves

-------------------------------------------------------------------------------
(* The directories of sessions.                                            *)

Line == Message \cup {Bad}

(* What a directory, a process and a deletion are.                         *)
Dir == [made : BOOLEAN, meta : BOOLEAN, temps : SUBSET Agents, log : BOOLEAN,
        lines : Seq(Line), open : BOOLEAN]

Running == [kind : {"repl", "ask"}, sid : Sessions, memory : Seq(Line),
            stage : {"mkdir", "touch", "idle", "turn", "save", "replace"},
            after : {"idle", "touch", "free"}, shown : Providers, used : Providers]

Removing == [sid : Sessions, left : Seq({"meta", "log", "temps"})]

(* A directory that is gone is empty, and a log that is gone has no lines. *)
Tidy(d) ==
    /\ ~d.made => ~d.meta /\ d.temps = {} /\ ~d.log
    /\ ~d.log => d.lines = <<>> /\ ~d.open
    /\ d.open => d.lines # <<>>

StoreTyped ==
    /\ dir \in [Sessions -> Dir]
    /\ \A s \in Sessions : Tidy(dir[s])
    /\ agent \in [Agents -> Running \cup {Free}]
    /\ removal \in Removing \cup {NoRemoval}
    /\ said \in 0..MaxMessages
    /\ faults \in [Sessions -> 0..MaxFaults]
    /\ kept \in [Sessions -> SUBSET Message]
    /\ gone \subseteq Message
    /\ deleted \subseteq Sessions

LEMMA EmptyIsNoDir ==
    ASSUME NEW d \in Dir, Tidy(d), ~d.made
    PROVE  d = NoDir
<1>1. d = [made |-> d.made, meta |-> d.meta, temps |-> d.temps, log |-> d.log,
           lines |-> d.lines, open |-> d.open]
    BY DEF Dir
<1>2. d.made = FALSE /\ d.meta = FALSE /\ d.log = FALSE /\ d.open = FALSE
    BY DEF Dir, Tidy
<1>3. d.temps = {} /\ d.lines = <<>>
    BY DEF Tidy
<1> QED
    BY ONLY <1>1, <1>2, <1>3, Zenon DEF NoDir

LEMMA TypedIsTypeOK == StoreTyped => StoreTypeOK
BY EmptyIsNoDir DEF StoreTyped, StoreTypeOK, Dir, Running, Tidy, Line, Busy, Free

LEMMA NoDirTidy == NoDir \in Dir /\ Tidy(NoDir)
BY DEF NoDir, Dir, Tidy, Line

(* A record at the end of a log, or glued to the one cut short there.      *)
LEMMA WroteTidy ==
    ASSUME NEW d \in Dir, Tidy(d), NEW m \in Message
    PROVE  Wrote(d, m) \in Dir /\ Tidy(Wrote(d, m))
<1>1. CASE d.open
    <2>1. Front(d.lines) \in Seq(Line)
        BY <1>1 DEF Dir, Tidy, Front
    <2>2. Append(Front(d.lines), Bad) \in Seq(Line) /\ Append(Front(d.lines), Bad) # <<>>
        BY <2>1 DEF Line
    <2> QED
        BY <1>1, <2>2 DEF Wrote, Opened, Dir, Tidy
<1>2. CASE ~d.open
    <2>1. Append(d.lines, m) \in Seq(Line) /\ Append(d.lines, m) # <<>>
        BY DEF Dir, Line
    <2> QED
        BY <1>2, <2>1 DEF Wrote, Opened, Dir, Tidy
<1> QED
    BY <1>1, <1>2

LEMMA TornTidy ==
    ASSUME NEW d \in Dir, Tidy(d), NEW m \in Message, NEW t \in Torn(d, m)
    PROVE  t \in Dir /\ Tidy(t)
<1>1. PICK x \in {m, Bad} :
        t = [Opened(d) EXCEPT !.lines = IF d.open THEN Append(Front(@), Bad) ELSE Append(@, x),
                              !.open = TRUE]
    BY DEF Torn
<1>2. x \in Line
    BY DEF Line
<1>3. CASE d.open
    <2>1. Front(d.lines) \in Seq(Line)
        BY <1>3 DEF Dir, Tidy, Front
    <2>2. Append(Front(d.lines), Bad) \in Seq(Line) /\ Append(Front(d.lines), Bad) # <<>>
        BY <2>1 DEF Line
    <2> QED
        BY <1>1, <1>3, <2>2 DEF Opened, Dir, Tidy
<1>4. CASE ~d.open
    <2>1. Append(d.lines, x) \in Seq(Line) /\ Append(d.lines, x) # <<>>
        BY <1>2 DEF Dir
    <2> QED
        BY <1>1, <1>4, <2>1 DEF Opened, Dir, Tidy
<1> QED
    BY <1>3, <1>4

(* The directory of a session after an append, whatever comes of it.       *)
FailedAppend(d, m) == {d, Opened(d)} \cup Torn(d, m)

AfterAppend(d, m) == {Wrote(d, m)} \cup FailedAppend(d, m)

LEMMA AfterAppendTidy ==
    ASSUME NEW d \in Dir, Tidy(d), NEW m \in Message, NEW e \in AfterAppend(d, m)
    PROVE  e \in Dir /\ Tidy(e)
<1>1. Opened(d) \in Dir /\ Tidy(Opened(d))
    BY DEF Opened, Dir, Tidy
<1> QED
    BY <1>1, WroteTidy, TornTidy DEF AfterAppend, FailedAppend

LEMMA StoresAfterAppend ==
    ASSUME NEW s \in Sessions, NEW m, NEW ok \in BOOLEAN, Stores(s, m, ok)
    PROVE  \E d \in AfterAppend(dir[s], m) : dir' = [dir EXCEPT ![s] = d]
BY DEF Stores, AfterAppend, FailedAppend

-----------------------------------------------------------------------------
(* Type correctness, part by part.                                         *)

(* Messages, failures and what has been kept.                              *)
CountsTyped ==
    /\ said \in 0..MaxMessages
    /\ faults \in [Sessions -> 0..MaxFaults]
    /\ kept \in [Sessions -> SUBSET Message]

DirsTyped == dir \in [Sessions -> Dir] /\ \A s \in Sessions : Tidy(dir[s])

AgentsTyped == agent \in [Agents -> Running \cup {Free}]

RemovalTyped ==
    /\ removal \in Removing \cup {NoRemoval}
    /\ gone \subseteq Message
    /\ deleted \subseteq Sessions

LEMMA DirsKeepType ==
    ASSUME DirsTyped, NEW s \in Sessions, NEW d \in Dir, Tidy(d),
           dir' = [dir EXCEPT ![s] = d]
    PROVE  DirsTyped'
BY DEF DirsTyped

LEMMA FaultTyped ==
    ASSUME StoreTyped, NEW s \in Sessions, Fault(s)
    PROVE  faults' \in [Sessions -> 0..MaxFaults]
BY StoreAssumption DEF StoreTyped, Fault

LEMMA AppendTyped ==
    ASSUME StoreTyped, NEW s \in Sessions, NewMessage, NEW ok \in BOOLEAN, Stores(s, said', ok)
    PROVE  DirsTyped' /\ CountsTyped'
<1>1. said' \in 0..MaxMessages /\ said' \in Message
    BY StoreAssumption DEF StoreTyped, NewMessage, Message
<1>2. PICK d \in AfterAppend(dir[s], said') : dir' = [dir EXCEPT ![s] = d]
    BY <1>1, StoresAfterAppend
<1>3. dir[s] \in Dir /\ Tidy(dir[s])
    BY DEF StoreTyped
<1>4. DirsTyped'
    BY <1>1, <1>2, <1>3, AfterAppendTidy, DirsKeepType DEF StoreTyped, DirsTyped
<1>5. faults' \in [Sessions -> 0..MaxFaults]
    BY FaultTyped DEF Stores, StoreTyped
<1>6. kept' \in [Sessions -> SUBSET Message]
    BY <1>1 DEF Stores, StoreTyped
<1> QED
    BY <1>1, <1>4, <1>5, <1>6 DEF CountsTyped

LEMMA SavingTidy ==
    ASSUME NEW d \in Dir, Tidy(d), NEW a \in Agents
    PROVE  LET e == [d EXCEPT !.made = TRUE, !.temps = @ \cup {a}] IN e \in Dir /\ Tidy(e)
BY DEF Dir, Tidy

LEMMA AgentStepTyped ==
    ASSUME StoreTyped, NEW a \in Agents, AgentStep(a)
    PROVE  StoreTyped'
<1>t. DirsTyped /\ CountsTyped /\ AgentsTyped /\ RemovalTyped
    BY DEF StoreTyped, DirsTyped, CountsTyped, AgentsTyped, RemovalTyped
<1>g. DirsTyped' /\ CountsTyped' /\ AgentsTyped' /\ RemovalTyped' => StoreTyped'
    BY DEF StoreTyped, DirsTyped, CountsTyped, AgentsTyped, RemovalTyped
<1>r. agent[a] \in Running \cup {Free}
    BY <1>t DEF AgentsTyped
<1>b. \A st : At(a, st) /\ st # "free" => agent[a] \in Running
    BY <1>r DEF At, Free
<1>d. \A s \in Sessions : dir[s] \in Dir /\ Tidy(dir[s])
    BY <1>t DEF DirsTyped
<1>1. ASSUME NEW s \in Sessions, NEW k \in {"repl", "ask"}, CreateDir(a, s, k)
      PROVE  StoreTyped'
    <2>1. [dir[s] EXCEPT !.made = TRUE] \in Dir /\ Tidy([dir[s] EXCEPT !.made = TRUE])
        BY <1>d DEF Dir, Tidy
    <2>2. DirsTyped'
        BY <1>1, <1>t, <2>1, DirsKeepType DEF CreateDir
    <2>e. <<>> \in Seq(Line)
        OBVIOUS
    <2>3. [Started(k, s, <<>>, "save") EXCEPT !.after = "touch"] \in Running
        BY <2>e, StoreAssumption DEF Started, Running
    <2>4. AgentsTyped'
        BY <1>1, <1>t, <2>3 DEF CreateDir, AgentsTyped
    <2> QED
        BY <1>1, <1>t, <1>g, <2>2, <2>4 DEF CreateDir, CountsTyped, RemovalTyped
<1>2. ASSUME NEW s \in Sessions, Resume(a, s)
      PROVE  StoreTyped'
    <2>1. Started("repl", s, Shown(dir[s]), "idle") \in Running
        BY <1>d, StoreAssumption DEF Started, Running, Shown, Dir
    <2>2. AgentsTyped'
        BY <1>2, <1>t, <2>1 DEF Resume, AgentsTyped
    <2> QED
        BY <1>2, <1>t, <1>g, <2>2 DEF Resume, CountsTyped, RemovalTyped, DirsTyped
<1>3. CASE Touch(a)
    <2>1. agent[a] \in Running
        BY <1>3, <1>b DEF Touch
    <2> DEFINE s == agent[a].sid
               d == [dir[s] EXCEPT !.log = TRUE]
    <2>2. s \in Sessions /\ dir[s].made
        BY <1>3, <2>1 DEF Touch, Running
    <2>3. d \in Dir /\ Tidy(d)
        BY <1>d, <2>2 DEF Dir, Tidy
    <2>4. DirsTyped'
        BY <1>3, <1>t, <2>2, <2>3, DirsKeepType DEF Touch
    <2>5. AgentsTyped'
        BY <1>3, <1>t, <2>1 DEF Touch, AgentsTyped, Running
    <2> QED
        BY <1>3, <1>t, <1>g, <2>4, <2>5 DEF Touch, CountsTyped, RemovalTyped
<1>4. CASE TouchFails(a)
    BY <1>4, <1>t, <1>g DEF TouchFails, CountsTyped, RemovalTyped, DirsTyped, AgentsTyped
<1>5. CASE Say(a)
    <2>1. agent[a] \in Running
        BY <1>5, <1>b DEF Say
    <2>2. PICK ok \in BOOLEAN : Stores(agent[a].sid, said', ok)
        BY <1>5 DEF Say
    <2>3. DirsTyped' /\ CountsTyped'
        BY <1>5, <2>1, <2>2, AppendTyped DEF Say, Running
    <2>4. said' \in Line
        BY <1>5, StoreAssumption DEF Say, NewMessage, StoreTyped, Message, Line
    <2>5. Append(agent[a].memory, said') \in Seq(Line)
        BY <2>1, <2>4 DEF Running
    <2>6. AgentsTyped'
        BY <1>5, <1>t, <2>1, <2>5 DEF Say, AgentsTyped, Running
    <2> QED
        BY <1>5, <1>t, <1>g, <2>3, <2>6 DEF Say, RemovalTyped
<1>6. CASE Clear(a)
    <2>1. agent[a] \in Running
        BY <1>6, <1>b DEF Clear
    <2>2. PICK ok \in BOOLEAN :
            /\ Stores(agent[a].sid, said', ok)
            /\ agent' = [agent EXCEPT ![a].memory = <<>>,
                                      ![a].stage = IF ok THEN "idle" ELSE "save",
                                      ![a].after = IF ok THEN "idle" ELSE "free"]
        BY <1>6 DEF Clear
    <2>3. DirsTyped' /\ CountsTyped'
        BY <1>6, <2>1, <2>2, AppendTyped DEF Clear, Running
    <2>e. <<>> \in Seq(Line)
        OBVIOUS
    <2>4. AgentsTyped'
        <3>1. CASE ok
            BY <1>t, <2>1, <2>2, <2>e, <3>1 DEF AgentsTyped, Running
        <3>2. CASE ~ok
            BY <1>t, <2>1, <2>2, <2>e, <3>2 DEF AgentsTyped, Running
        <3> QED
            BY <3>1, <3>2
    <2> QED
        BY <1>6, <1>t, <1>g, <2>3, <2>4 DEF Clear, RemovalTyped
<1>7. CASE EndTurn(a) \/ Exit(a) \/ SwitchProvider(a)
    <2>1. agent[a] \in Running
        BY <1>7, <1>b DEF EndTurn, Exit, SwitchProvider
    <2>2. AgentsTyped'
        <3>1. CASE EndTurn(a)
            <4>1. CASE agent[a].kind = "ask"
                BY <1>t, <2>1, <3>1, <4>1 DEF EndTurn, AgentsTyped
            <4>2. CASE agent[a].kind # "ask"
                BY <1>t, <2>1, <3>1, <4>2 DEF EndTurn, AgentsTyped, Running
            <4> QED
                BY <4>1, <4>2
        <3>2. CASE Exit(a)
            BY <1>t, <2>1, <3>2 DEF Exit, AgentsTyped, Running
        <3>3. CASE SwitchProvider(a)
            BY <1>t, <2>1, <3>3 DEF SwitchProvider, AgentsTyped, Running
        <3> QED
            BY <1>7, <3>1, <3>2, <3>3
    <2> QED
        BY <1>7, <1>t, <1>g, <2>2
        DEF EndTurn, Exit, SwitchProvider, CountsTyped, RemovalTyped, DirsTyped
<1>8. CASE Save(a)
    <2>1. agent[a] \in Running
        BY <1>8, <1>b DEF Save
    <2> DEFINE s == agent[a].sid
               d == [dir[s] EXCEPT !.made = TRUE, !.temps = @ \cup {a}]
    <2>2. s \in Sessions
        BY <2>1 DEF Running
    <2>3. d \in Dir /\ Tidy(d)
        BY <1>d, <2>2, SavingTidy
    <2>4. dir' = [dir EXCEPT ![s] = d]
        BY <1>8, <1>t, <2>2 DEF Save, DirsTyped, Dir
    <2>5. DirsTyped'
        BY <1>t, <2>2, <2>3, <2>4, DirsKeepType
    <2>6. AgentsTyped'
        BY <1>8, <1>t, <2>1 DEF Save, AgentsTyped, Running
    <2> QED
        BY <1>8, <1>t, <1>g, <2>5, <2>6 DEF Save, CountsTyped, RemovalTyped
<1>9. ASSUME agent[a] \in Running PROVE AgentsTyped /\ agent' = Saved(a) => AgentsTyped'
    BY <1>9 DEF AgentsTyped, Saved, Running
<1>10. CASE Install(a)
    <2>1. agent[a] \in Running
        BY <1>10, <1>b DEF Install
    <2> DEFINE s == agent[a].sid
               d == [dir[s] EXCEPT !.meta = TRUE, !.temps = @ \ {a}]
    <2>2. s \in Sessions /\ a \in dir[s].temps
        BY <1>10, <2>1 DEF Running, Install
    <2> HIDE DEF s
    <2>m. dir[s].made
        BY <1>d, <2>2 DEF Tidy, NoDir
    <2>3. d \in Dir /\ Tidy(d)
        BY <1>d, <2>2, <2>m DEF Dir, Tidy
    <2> USE DEF s
    <2>4. dir' = [dir EXCEPT ![s] = d]
        BY <1>10, <1>t, <2>2 DEF Install, DirsTyped, Dir
    <2>5. DirsTyped'
        BY <1>t, <2>2, <2>3, <2>4, DirsKeepType
    <2>6. AgentsTyped'
        BY <1>10, <1>t, <1>9, <2>1 DEF Install
    <2> QED
        BY <1>10, <1>t, <1>g, <2>5, <2>6 DEF Install, CountsTyped, RemovalTyped
<1>11. CASE SaveFails(a)
    <2>1. agent[a] \in Running
        BY <1>11, <1>b DEF SaveFails
    <2> DEFINE s == agent[a].sid
               d == [dir[s] EXCEPT !.temps = @ \ {a}]
    <2>2. s \in Sessions
        BY <2>1 DEF Running
    <2>3. d \in Dir /\ Tidy(d)
        BY <1>d, <2>2 DEF Dir, Tidy
    <2>4. dir' = [dir EXCEPT ![s] = d]
        BY <1>11, <1>t, <2>2 DEF SaveFails, DirsTyped, Dir
    <2>5. DirsTyped'
        BY <1>t, <2>2, <2>3, <2>4, DirsKeepType
    <2>6. AgentsTyped'
        BY <1>11, <1>t, <1>9, <2>1 DEF SaveFails, AgentsTyped
    <2>7. faults' \in [Sessions -> 0..MaxFaults]
        BY <1>11, <2>2, FaultTyped DEF SaveFails, StoreTyped
    <2>8. CountsTyped'
        BY <1>11, <1>t, <2>7 DEF SaveFails, CountsTyped
    <2> QED
        BY <1>11, <1>t, <1>g, <2>5, <2>6, <2>8 DEF SaveFails, RemovalTyped
<1>12. CASE Die(a)
    <2>1. agent[a] \in Running
        BY <1>12, <1>r DEF Die, Busy
    <2> DEFINE s == agent[a].sid
    <2>2. s \in Sessions
        BY <2>1 DEF Running
    <2>3. faults' \in [Sessions -> 0..MaxFaults]
        BY <1>12, <2>2, FaultTyped DEF Die
    <2>4. AgentsTyped'
        BY <1>12, <1>t DEF Die, AgentsTyped
    <2>5. CASE UNCHANGED <<dir, said>>
        BY <1>12, <1>t, <1>g, <2>3, <2>4, <2>5 DEF Die, CountsTyped, RemovalTyped, DirsTyped
    <2>6. CASE NewMessage /\ \E d \in Torn(dir[s], said') : dir' = [dir EXCEPT ![s] = d]
        <3>1. said' \in 0..MaxMessages /\ said' \in Message
            BY <2>6, StoreAssumption DEF StoreTyped, NewMessage, Message
        <3>2. DirsTyped'
            BY <1>t, <1>d, <2>2, <2>6, <3>1, TornTidy, DirsKeepType
        <3> QED
            BY <1>12, <1>t, <1>g, <2>3, <2>4, <3>1, <3>2 DEF Die, CountsTyped, RemovalTyped
    <2> QED
        BY <1>12, <2>5, <2>6 DEF Die
<1> QED
    BY <1>1, <1>2, <1>3, <1>4, <1>5, <1>6, <1>7, <1>8, <1>10, <1>11, <1>12 DEF AgentStep

LEMMA ChildrenTyped ==
    ASSUME NEW d PROVE Children(d) \in Seq({"meta", "log", "temps"})
<1> DEFINE C == {"meta", "log", "temps"}
<1>1. <<"meta">> \in Seq(C) /\ <<"log">> \in Seq(C) /\ <<"temps">> \in Seq(C) /\ <<>> \in Seq(C)
    OBVIOUS
<1>2. \A x, y, z \in Seq(C) : x \o y \o z \in Seq(C)
    OBVIOUS
<1> QED
    BY <1>1, <1>2 DEF Children

LEMMA UnlinkedTidy ==
    ASSUME NEW d \in Dir, Tidy(d), NEW child \in {"meta", "log", "temps"}
    PROVE  Unlinked(d, child) \in Dir /\ Tidy(Unlinked(d, child))
<1>1. CASE child = "meta"
    BY <1>1 DEF Unlinked, Dir, Tidy
<1>2. CASE child = "log"
    <2>1. <<>> \in Seq(Line)
        OBVIOUS
    <2>2. Unlinked(d, child) = [d EXCEPT !.log = FALSE, !.lines = <<>>, !.open = FALSE]
        BY <1>2 DEF Unlinked
    <2> QED
        BY <2>1, <2>2 DEF Dir, Tidy
<1>3. CASE child = "temps"
    BY <1>3 DEF Unlinked, Dir, Tidy
<1> QED
    BY <1>1, <1>2, <1>3

LEMMA RemovalStepTyped ==
    ASSUME StoreTyped, Unlink \/ EndDelete \/ \E s \in Sessions : BeginDelete(s)
    PROVE  StoreTyped'
<1>t. DirsTyped /\ CountsTyped /\ AgentsTyped /\ RemovalTyped
    BY DEF StoreTyped, DirsTyped, CountsTyped, AgentsTyped, RemovalTyped
<1>g. DirsTyped' /\ CountsTyped' /\ AgentsTyped' /\ RemovalTyped' => StoreTyped'
    BY DEF StoreTyped, DirsTyped, CountsTyped, AgentsTyped, RemovalTyped
<1>d. \A s \in Sessions : dir[s] \in Dir /\ Tidy(dir[s])
    BY <1>t DEF DirsTyped
<1>1. ASSUME NEW s \in Sessions, BeginDelete(s) PROVE StoreTyped'
    <2>1. RemovalTyped'
        BY <1>1, <1>t, ChildrenTyped DEF BeginDelete, RemovalTyped, Removing
    <2> QED
        BY <1>1, <1>t, <1>g, <2>1 DEF BeginDelete, CountsTyped, AgentsTyped, DirsTyped
<1>2. CASE Unlink
    <2> DEFINE s == removal.sid
               child == Head(removal.left)
    <2>1. removal \in Removing /\ removal.left # <<>>
        BY <1>2, <1>t DEF Unlink, RemovalTyped
    <2>2. s \in Sessions /\ child \in {"meta", "log", "temps"}
          /\ Tail(removal.left) \in Seq({"meta", "log", "temps"})
        BY <2>1 DEF Removing
    <2>3. Unlinked(dir[s], child) \in Dir /\ Tidy(Unlinked(dir[s], child))
        BY <1>d, <2>2, UnlinkedTidy
    <2>4. DirsTyped'
        BY <1>2, <1>t, <2>2, <2>3, DirsKeepType DEF Unlink
    <2>5. RemovalTyped'
        BY <1>2, <1>t, <2>1, <2>2 DEF Unlink, RemovalTyped, Removing
    <2>6. CountsTyped'
        BY <1>2, <1>t, <2>2 DEF Unlink, CountsTyped
    <2> QED
        BY <1>2, <1>t, <1>g, <2>4, <2>5, <2>6 DEF Unlink, AgentsTyped
<1>3. CASE EndDelete
    <2> DEFINE s == removal.sid
    <2>1. removal \in Removing
        BY <1>3, <1>t DEF EndDelete, RemovalTyped
    <2>2. s \in Sessions
        BY <2>1 DEF Removing
    <2>3. PICK d \in {NoDir, dir[s]} : dir' = [dir EXCEPT ![s] = d]
        BY <1>3 DEF EndDelete
    <2>4. DirsTyped'
        BY <1>t, <1>d, <2>2, <2>3, NoDirTidy, DirsKeepType
    <2> QED
        BY <1>3, <1>t, <1>g, <2>4 DEF EndDelete, CountsTyped, AgentsTyped, RemovalTyped
<1> QED
    BY <1>1, <1>2, <1>3

LEMMA StoreTypedStep == StoreTyped /\ [StoreNext]_storeVars => StoreTyped'
<1> SUFFICES ASSUME StoreTyped, [StoreNext]_storeVars PROVE StoreTyped'
    OBVIOUS
<1>1. CASE UNCHANGED storeVars
    BY <1>1 DEF storeVars, StoreTyped
<1> QED
    BY <1>1, AgentStepTyped, RemovalStepTyped DEF StoreNext

LEMMA StoreTypedInit == StoreInit => StoreTyped
BY NoDirTidy, StoreAssumption DEF StoreInit, StoreTyped

(* The variables of the store have their types: a directory that is gone   *)
(* holds nothing, and a log that was cut short has the line it was cut in. *)
THEOREM StoreTypeCorrect == StoreSpec => []StoreTypeOK
<1> QED
    BY StoreTypedInit, StoreTypedStep, TypedIsTypeOK, PTL DEF StoreSpec

-----------------------------------------------------------------------------
(* What a step does to the logs: it leaves them all alone, or appends the  *)
(* next message to one of them, well or not, or unlinks one.               *)

SettledDirs == \A s \in Sessions : dir'[s].lines = dir[s].lines /\ (dir'[s].open <=> dir[s].open)

Settles ==
    /\ SettledDirs
    /\ UNCHANGED <<said, kept, gone>>
    /\ \A s \in Sessions : faults'[s] >= faults[s]

Appends(s) ==
    /\ NewMessage
    /\ said' \in Message
    /\ UNCHANGED gone
    /\ \/ /\ dir' = [dir EXCEPT ![s] = Wrote(@, said')]
          /\ kept' = [kept EXCEPT ![s] = @ \cup {said'}]
          /\ UNCHANGED faults
       \/ /\ \E e \in FailedAppend(dir[s], said') : dir' = [dir EXCEPT ![s] = e]
          /\ UNCHANGED kept
          /\ faults' = [faults EXCEPT ![s] = @ + 1]

Wipes(s) ==
    /\ dir' = [dir EXCEPT ![s] = Unlinked(@, "log")]
    /\ gone' = gone \cup (Message \cap ToSet(dir[s].lines))
    /\ kept' = [kept EXCEPT ![s] = {}]
    /\ UNCHANGED <<said, faults>>

(* Messages are numbered, each is in one session, a line cut short is none *)
(* that was kept, and each message that was kept and is lost, the one at   *)
(* stake behind a line cut short included, has its fault.                  *)
On(s) == ToSet(dir[s].lines)

Numbered ==
    /\ gone \subseteq 1..said
    /\ \A s \in Sessions : kept[s] \subseteq 1..said /\ On(s) \subseteq 0..said

InOneSession ==
    \A s, t \in Sessions : \A m \in Message : m \in On(s) /\ m \in On(t) => s = t

CutIsNotKept == \A s \in Sessions : dir[s].open => Last(dir[s].lines) \notin kept[s]

Lost(s) == Cardinality(kept[s] \ On(s))

AtStake(s) == IF dir[s].open THEN 1 ELSE 0

LossesPaid == \A s \in Sessions : Lost(s) + AtStake(s) <= faults[s]

LogInv == Numbered /\ InOneSession /\ CutIsNotKept /\ LossesPaid /\ DeletedStaysDeleted

(* A session that is not being deleted has its metadata, once the process  *)
(* that founds it has saved them.                                          *)
Founding(a) == agent[a].stage \in {"save", "replace"} /\ agent[a].after = "touch"

ListedInv ==
    /\ removal # NoRemoval => removal.sid \in deleted
    /\ HeldIsListed
    /\ \A a \in Agents :
          Busy(a) /\ ~Founding(a) /\ agent[a].sid \notin deleted => Listed(agent[a].sid)

LEMMA AppendedLast ==
    ASSUME NEW S, NEW q \in Seq(S), NEW x \in S
    PROVE  ToSet(Append(q, x)) = ToSet(q) \cup {x} /\ Last(Append(q, x)) = x
BY DEF ToSet, Last

LEMMA FrontSet ==
    ASSUME NEW S, NEW q \in Seq(S), q # <<>>
    PROVE  /\ Front(q) \in Seq(S)
           /\ ToSet(q) = ToSet(Front(q)) \cup {Last(q)}
<1>1. Len(q) \in Nat \ {0} /\ Front(q) = SubSeq(q, 1, Len(q) - 1)
    BY DEF Front
<1>2. Front(q) \in Seq(S) /\ Len(Front(q)) = Len(q) - 1
    <2> DEFINE n == Len(q) - 1
    <2>1. n \in Int /\ 1 \in Int /\ \A i \in 1..n : q[i] \in S
        BY <1>1
    <2> HIDE DEF n
    <2>2. SubSeq(q, 1, n) \in Seq(S) /\ Len(SubSeq(q, 1, n)) = IF 1 <= n THEN n - 1 + 1 ELSE 0
        BY ONLY <2>1, SubSeqProperties
    <2>3. n \in Nat /\ Len(q) - 1 = n /\ Front(q) = SubSeq(q, 1, n)
        BY <1>1 DEF n
    <2>4. Len(Front(q)) = n
        BY ONLY <2>2, <2>3
    <2> QED
        BY ONLY <2>2, <2>3, <2>4
<1>3. \A i \in 1..(Len(q) - 1) : Front(q)[i] = q[i]
    BY <1>1
<1>4. DOMAIN q = 1..Len(q) /\ DOMAIN Front(q) = 1..(Len(q) - 1)
    BY <1>1, <1>2
<1>5. ToSet(q) = {q[i] : i \in 1..Len(q)} /\ Last(q) = q[Len(q)]
    BY <1>4 DEF ToSet, Last
<1>6. ToSet(Front(q)) = {q[i] : i \in 1..(Len(q) - 1)}
    BY <1>3, <1>4 DEF ToSet
<1>7. \A i : i \in 1..Len(q) <=> i \in 1..(Len(q) - 1) \/ i = Len(q)
    BY <1>1
<1> HIDE DEF Last
<1> QED
    BY <1>2, <1>5, <1>6, <1>7

(* The lines after an append: with the new record, or with another last    *)
(* line than the one that was cut short.                                   *)
LEMMA WroteShape ==
    ASSUME NEW d \in Dir, Tidy(d), NEW m \in Message
    PROVE  /\ ~Wrote(d, m).open
           /\ ~d.open => Wrote(d, m).lines = Append(d.lines, m)
           /\ d.open => d.lines # <<>> /\ Wrote(d, m).lines = Append(Front(d.lines), Bad)
BY DEF Wrote, Opened, Dir, Tidy

LEMMA FailedShape ==
    ASSUME NEW d \in Dir, Tidy(d), NEW m \in Message, NEW e \in FailedAppend(d, m)
    PROVE  \/ e.lines = d.lines /\ (e.open <=> d.open)
           \/ ~d.open /\ e.open /\ \E x \in {m, Bad} : e.lines = Append(d.lines, x)
           \/ d.open /\ e.open /\ d.lines # <<>> /\ e.lines = Append(Front(d.lines), Bad)
<1>1. CASE e \in {d, Opened(d)}
    BY <1>1 DEF Opened, Dir
<1>2. CASE e \in Torn(d, m)
    <2>1. PICK x \in {m, Bad} :
            e = [Opened(d) EXCEPT !.lines = IF d.open THEN Append(Front(@), Bad) ELSE Append(@, x),
                                  !.open = TRUE]
        BY <1>2 DEF Torn
    <2>2. e.open /\ e.lines = IF d.open THEN Append(Front(d.lines), Bad) ELSE Append(d.lines, x)
        BY <2>1 DEF Opened, Dir
    <2> QED
        BY <2>2 DEF Tidy
<1> QED
    BY <1>1, <1>2 DEF FailedAppend

-----------------------------------------------------------------------------
(* Every step is one of the three kinds.                                   *)

LEMMA StoresAppends ==
    ASSUME StoreTyped, NEW s \in Sessions, NewMessage, UNCHANGED gone,
           NEW ok \in BOOLEAN, Stores(s, said', ok)
    PROVE  Appends(s)
<1>1. said' \in Message
    BY StoreAssumption DEF StoreTyped, NewMessage, Message
<1> QED
    BY <1>1 DEF Stores, Appends, FailedAppend, Fault

LEMMA AgentStepKinds ==
    ASSUME StoreTyped, NEW a \in Agents, AgentStep(a)
    PROVE  Settles \/ \E s \in Sessions : Appends(s)
<1>r. \A st : At(a, st) /\ st # "free" => agent[a] \in Running
    BY DEF StoreTyped, At, Free
<1>b. Busy(a) => agent[a] \in Running
    BY DEF StoreTyped, Busy
<1>s. agent[a] \in Running => agent[a].sid \in Sessions
    BY DEF Running
<1>f. \A s \in Sessions : faults[s] \in Nat
    BY StoreAssumption DEF StoreTyped
<1>d. \A s \in Sessions : dir[s] \in Dir /\ Tidy(dir[s])
    BY DEF StoreTyped
<1>1. CASE \/ \E s \in Sessions : Resume(a, s)
           \/ TouchFails(a) \/ EndTurn(a) \/ Exit(a) \/ SwitchProvider(a)
    BY <1>1, <1>f DEF Resume, TouchFails, EndTurn, Exit, SwitchProvider, Settles, SettledDirs
<1>2. CASE \E s \in Sessions, k \in {"repl", "ask"} : CreateDir(a, s, k)
    BY <1>2, <1>f, <1>d DEF CreateDir, Settles, SettledDirs, StoreTyped, Dir
<1>3. CASE Touch(a)
    <2>1. agent[a].sid \in Sessions
        BY <1>3, <1>r, <1>s DEF Touch
    <2> QED
        BY <1>3, <2>1, <1>f, <1>d DEF Touch, Settles, SettledDirs, StoreTyped, Dir
<1>4. CASE Say(a) \/ Clear(a)
    <2>1. agent[a].sid \in Sessions
        BY <1>4, <1>r, <1>s DEF Say, Clear
    <2> QED
        BY <1>4, <2>1, StoresAppends DEF Say, Clear
<1>5. CASE Save(a) \/ Install(a)
    <2>1. agent[a].sid \in Sessions
        BY <1>5, <1>r, <1>s DEF Save, Install
    <2>2. CASE Save(a)
        BY <2>1, <2>2, <1>f, <1>d DEF Save, Settles, SettledDirs, StoreTyped, Dir
    <2>3. CASE Install(a)
        BY <2>1, <2>3, <1>f, <1>d DEF Install, Settles, SettledDirs, StoreTyped, Dir
    <2> QED
        BY <1>5, <2>2, <2>3
<1>6. CASE SaveFails(a)
    <2>1. agent[a].sid \in Sessions
        BY <1>6, <1>r, <1>s DEF SaveFails
    <2>2. SettledDirs
        BY <1>6, <2>1, <1>d DEF SaveFails, SettledDirs, StoreTyped, Dir
    <2>3. \A s \in Sessions : faults'[s] >= faults[s]
        BY <1>6, <2>1, <1>f DEF SaveFails, Fault, StoreTyped
    <2> QED
        BY <1>6, <2>2, <2>3 DEF SaveFails, Settles
<1>7. CASE Die(a)
    <2>1. agent[a].sid \in Sessions
        BY <1>7, <1>b, <1>s DEF Die
    <2>2. CASE UNCHANGED <<dir, said>>
        BY <1>7, <2>1, <2>2, <1>f DEF Die, Fault, StoreTyped, Settles, SettledDirs
    <2>3. CASE /\ NewMessage
               /\ \E d \in Torn(dir[agent[a].sid], said') : dir' = [dir EXCEPT ![agent[a].sid] = d]
        <3>1. said' \in Message
            BY <2>3, StoreAssumption DEF StoreTyped, NewMessage, Message
        <3> QED
            BY <1>7, <2>1, <2>3, <3>1 DEF Die, Fault, Appends, FailedAppend
    <2> QED
        BY <1>7, <2>2, <2>3 DEF Die
<1> QED
    BY <1>1, <1>2, <1>3, <1>4, <1>5, <1>6, <1>7 DEF AgentStep

LEMMA RemovalStepKinds ==
    ASSUME StoreTyped, Unlink \/ EndDelete \/ \E s \in Sessions : BeginDelete(s)
    PROVE  Settles \/ \E s \in Sessions : Wipes(s)
<1>f. \A s \in Sessions : faults[s] \in Nat
    BY StoreAssumption DEF StoreTyped
<1>d. \A s \in Sessions : dir[s] \in Dir /\ Tidy(dir[s])
    BY DEF StoreTyped
<1>1. CASE \E s \in Sessions : BeginDelete(s)
    BY <1>1, <1>f DEF BeginDelete, Settles, SettledDirs
<1>2. CASE Unlink
    <2> DEFINE s == removal.sid
               child == Head(removal.left)
    <2>1. removal \in Removing /\ removal.left # <<>>
        BY <1>2 DEF Unlink, StoreTyped
    <2>2. s \in Sessions /\ child \in {"meta", "log", "temps"}
        BY <2>1 DEF Removing
    <2>3. CASE child = "log"
        BY <1>2, <2>2, <2>3 DEF Unlink, Wipes
    <2>4. CASE child # "log"
        <3>1. /\ Unlinked(dir[s], child).lines = dir[s].lines
              /\ Unlinked(dir[s], child).open <=> dir[s].open
            BY <1>d, <2>2, <2>4 DEF Unlinked, Dir
        <3> QED
            BY <1>2, <1>f, <2>2, <2>4, <3>1 DEF Unlink, Settles, SettledDirs, StoreTyped
    <2> QED
        BY <2>3, <2>4
<1>3. CASE EndDelete
    <2> DEFINE s == removal.sid
    <2>1. s \in Sessions
        BY <1>3 DEF EndDelete, StoreTyped, Removing
    <2>2. CASE Children(dir[s]) = <<>>
        <3>1. ~dir[s].log
            <4>1. SUFFICES ASSUME dir[s].log PROVE Children(dir[s]) # <<>>
                BY <2>2
            <4>2. Len(Children(dir[s])) >= 1
                BY <4>1 DEF Children
            <4> QED
                BY <4>2
        <3>2. dir[s].lines = NoDir.lines /\ (dir[s].open <=> NoDir.open)
            BY <1>d, <2>1, <3>1 DEF Tidy, NoDir
        <3> QED
            BY <1>3, <1>f, <2>1, <2>2, <3>2 DEF EndDelete, Settles, SettledDirs, StoreTyped
    <2>3. CASE Children(dir[s]) # <<>>
        BY <1>3, <1>f, <2>1, <2>3 DEF EndDelete, Settles, SettledDirs, StoreTyped
    <2> QED
        BY <2>2, <2>3
<1> QED
    BY <1>1, <1>2, <1>3

LEMMA StepKinds ==
    ASSUME StoreTyped, [StoreNext]_storeVars
    PROVE  Settles \/ \E s \in Sessions : Appends(s) \/ Wipes(s)
<1>1. CASE UNCHANGED storeVars
    BY <1>1, StoreAssumption DEF storeVars, StoreTyped, Settles, SettledDirs
<1> QED
    BY <1>1, AgentStepKinds, RemovalStepKinds DEF StoreNext

-----------------------------------------------------------------------------
(* The accounting of messages over the three kinds of steps.               *)

LEMMA KeptFinite ==
    ASSUME StoreTyped, NEW s \in Sessions
    PROVE  IsFiniteSet(kept[s])
<1>1. IsFiniteSet(1..MaxMessages)
    BY StoreAssumption, FS_Interval
<1> QED
    BY <1>1, FS_Subset DEF StoreTyped, Message

LEMMA LossTyped ==
    ASSUME StoreTyped, NEW s \in Sessions
    PROVE  faults[s] \in Nat /\ Lost(s) \in Nat /\ AtStake(s) \in {0, 1}
<1>1. faults[s] \in Nat
    BY StoreAssumption DEF StoreTyped
<1>2. IsFiniteSet(kept[s] \ On(s))
    BY KeptFinite, FS_Difference
<1> QED
    BY <1>1, <1>2, FS_CardinalityType DEF Lost, AtStake

(* The other sessions pay for nothing.                                     *)
LEMMA OthersPaid ==
    ASSUME LossesPaid, NEW t \in Sessions,
           kept'[t] = kept[t], dir'[t] = dir[t], faults'[t] = faults[t]
    PROVE  (Lost(t) + AtStake(t) <= faults[t])'
BY DEF LossesPaid, Lost, AtStake, On

LEMMA SettlesKeepsLog ==
    ASSUME StoreTyped, StoreTyped', LogInv, Settles
    PROVE  LogInv'
<1>1. \A s \in Sessions : On(s)' = On(s)
    BY DEF Settles, SettledDirs, On
<1>2. Numbered' /\ InOneSession'
    BY <1>1 DEF LogInv, Numbered, InOneSession, Settles
<1>3. CutIsNotKept'
    BY DEF LogInv, CutIsNotKept, Settles, SettledDirs
<1>4. DeletedStaysDeleted'
    BY DEF LogInv, DeletedStaysDeleted, Settles, SettledDirs
<1>5. LossesPaid'
    <2> SUFFICES ASSUME NEW s \in Sessions
                 PROVE  Lost(s)' + AtStake(s)' <= faults'[s]
        BY DEF LossesPaid
    <2>1. Lost(s)' = Lost(s)
        BY <1>1 DEF Settles, Lost
    <2>2. AtStake(s)' = AtStake(s)
        BY DEF Settles, SettledDirs, AtStake
    <2>3. Lost(s) + AtStake(s) <= faults[s]
        BY DEF LogInv, LossesPaid
    <2>4. faults'[s] >= faults[s] /\ faults'[s] \in Nat
        BY LossTyped, StoreAssumption DEF Settles, StoreTyped
    <2> QED
        BY <2>1, <2>2, <2>3, <2>4, LossTyped
<1> QED
    BY <1>2, <1>3, <1>4, <1>5 DEF LogInv

(* The session whose log is gone has nothing left to lose.                 *)
LEMMA WipesKeepsLog ==
    ASSUME StoreTyped, LogInv, NEW s \in Sessions, Wipes(s)
    PROVE  LogInv'
<1>1. /\ dir'[s].lines = <<>> /\ ~dir'[s].open /\ kept'[s] = {}
      /\ \A t \in Sessions \ {s} : dir'[t] = dir[t] /\ kept'[t] = kept[t]
      /\ UNCHANGED <<said, faults>>
    BY DEF Wipes, Unlinked, StoreTyped, Dir
<1>2. On(s)' = {} /\ \A t \in Sessions \ {s} : On(t)' = On(t)
    BY <1>1 DEF On, ToSet
<1>3. gone' = gone \cup (Message \cap On(s))
    BY DEF Wipes, On
<1>4. Numbered'
    <2>1. Message \cap On(s) \subseteq 1..said
        BY StoreAssumption DEF LogInv, Numbered, Message, StoreTyped
    <2> QED
        BY <1>1, <1>2, <1>3, <2>1 DEF LogInv, Numbered
<1>5. InOneSession'
    BY <1>2 DEF LogInv, InOneSession
<1>6. CutIsNotKept'
    BY <1>1 DEF LogInv, CutIsNotKept
<1>7. DeletedStaysDeleted'
    <2> SUFFICES ASSUME NEW t \in Sessions, NEW m \in gone', m \in On(t)'
                 PROVE  FALSE
        BY DEF DeletedStaysDeleted, On
    <2>1. t # s /\ m \in On(t)
        BY <1>2
    <2>2. m \in Message /\ (m \in gone \/ m \in On(s))
        BY <1>3 DEF StoreTyped
    <2> QED
        BY <2>1, <2>2 DEF LogInv, InOneSession, DeletedStaysDeleted, On
<1>8. LossesPaid'
    <2> SUFFICES ASSUME NEW t \in Sessions
                 PROVE  (Lost(t) + AtStake(t) <= faults[t])'
        BY DEF LossesPaid
    <2>1. CASE t = s
        <3>1. Lost(s)' = 0
            BY <1>1, FS_EmptySet DEF Lost
        <3>2. AtStake(s)' = 0 /\ faults'[s] \in Nat
            BY <1>1, LossTyped DEF AtStake
        <3> QED
            BY <2>1, <3>1, <3>2
    <2>2. CASE t # s
        BY <1>1, <2>2, OthersPaid DEF LogInv
    <2> QED
        BY <2>1, <2>2
<1> QED
    BY <1>4, <1>5, <1>6, <1>7, <1>8 DEF LogInv

(* After an append: nothing but the new message joins the log, and nothing *)
(* but the end of a line cut short leaves it.                              *)
LEMMA AppendedLines ==
    ASSUME NEW d \in Dir, Tidy(d), NEW m \in Message, NEW e \in AfterAppend(d, m)
    PROVE  /\ ToSet(e.lines) \subseteq ToSet(d.lines) \cup {m, Bad}
           /\ \A x \in ToSet(d.lines) :
                 x \in ToSet(e.lines) \/ (d.open /\ x = Last(d.lines))
<1>r. d.lines \in Seq(Line) /\ Bad \in Line /\ m \in Line
    BY DEF Dir, Line
<1>1. CASE e.lines = d.lines
    BY <1>1
<1>2. CASE \E x \in {m, Bad} : e.lines = Append(d.lines, x)
    BY <1>r, <1>2, AppendedLast
<1>3. CASE d.open /\ d.lines # <<>> /\ e.lines = Append(Front(d.lines), Bad)
    <2>1. /\ Front(d.lines) \in Seq(Line)
          /\ ToSet(d.lines) = ToSet(Front(d.lines)) \cup {Last(d.lines)}
        BY <1>r, <1>3, FrontSet
    <2>2. ToSet(e.lines) = ToSet(Front(d.lines)) \cup {Bad}
        BY <1>r, <1>3, <2>1, AppendedLast
    <2> QED
        BY <1>3, <2>1, <2>2
<1> QED
    BY <1>1, <1>2, <1>3, WroteShape, FailedShape DEF AfterAppend

LEMMA AppendsKeepsLog ==
    ASSUME StoreTyped, StoreTyped', LogInv, NEW s \in Sessions, Appends(s)
    PROVE  LogInv'
<1> DEFINE m == said'
           d == dir[s]
<1>1. /\ d \in Dir /\ Tidy(d) /\ m \in Message /\ said \in Nat /\ m = said + 1
      /\ m \in Line /\ d.lines \in Seq(Line)
    BY StoreAssumption DEF StoreTyped, Appends, NewMessage, Line, Dir
<1>p. PICK e :
        /\ dir' = [dir EXCEPT ![s] = e]
        /\ \/ /\ e = Wrote(d, m)
              /\ kept' = [kept EXCEPT ![s] = @ \cup {m}]
              /\ UNCHANGED faults
           \/ /\ e \in FailedAppend(d, m)
              /\ UNCHANGED kept
              /\ faults' = [faults EXCEPT ![s] = @ + 1]
    BY DEF Appends, StoreTyped
<1>2. e \in AfterAppend(d, m) /\ dir' = [dir EXCEPT ![s] = e]
    BY <1>p DEF AfterAppend
<1>3. /\ dir'[s] = e /\ \A t \in Sessions \ {s} : dir'[t] = dir[t] /\ kept'[t] = kept[t]
      /\ kept'[s] \subseteq kept[s] \cup {m}
      /\ gone' = gone
    BY <1>2 DEF Appends, StoreTyped
<1>4. /\ On(s)' \subseteq On(s) \cup {m, Bad} /\ \A t \in Sessions \ {s} : On(t)' = On(t)
      /\ \A x \in On(s) : x \in On(s)' \/ (d.open /\ x = Last(d.lines))
    BY <1>1, <1>2, <1>3, AppendedLines DEF On
<1>5. \A t \in Sessions : m \notin kept[t] /\ m \notin On(t)
    BY <1>1 DEF LogInv, Numbered
<1>6. Numbered'
    <2>1. 1..said \subseteq 1..m /\ 0..said \subseteq 0..m /\ m \in 1..m /\ Bad \in 0..m /\ m \in 0..m
        BY <1>1 DEF Bad
    <2> QED
        BY <1>3, <1>4, <2>1 DEF LogInv, Numbered
<1>7. InOneSession'
    <2>1. \A x \in Message : x # Bad
        BY DEF Message, Bad
    <2> QED
        BY <1>1, <1>4, <1>5, <2>1 DEF LogInv, InOneSession
<1>8. DeletedStaysDeleted'
    <2>1. m \notin gone /\ Bad \notin gone
        BY <1>1 DEF LogInv, Numbered, Bad
    <2>2. \A t \in Sessions : gone \cap On(t) = {}
        BY DEF LogInv, DeletedStaysDeleted, On
    <2>3. \A t \in Sessions : gone \cap On(t)' = {}
        BY <1>4, <2>1, <2>2
    <2> QED
        BY <1>3, <2>3 DEF DeletedStaysDeleted, On
<1>n. Bad \notin kept[s]
    BY DEF Bad, Message, StoreTyped
<1>9. CASE /\ e = Wrote(d, m)
           /\ kept' = [kept EXCEPT ![s] = @ \cup {m}]
           /\ UNCHANGED faults
    <2>1. ~e.open
        BY <1>1, <1>9, WroteShape
    <2>2. CutIsNotKept'
        BY <1>3, <2>1 DEF LogInv, CutIsNotKept
    <2>3. Lost(s)' + AtStake(s)' <= faults'[s]
        <3>1. CASE ~d.open
            <4>1. m \in On(s)'
                <5>1. e.lines = Append(d.lines, m)
                    BY <1>1, <1>9, <3>1, WroteShape
                <5>2. ToSet(Append(d.lines, m)) = ToSet(d.lines) \cup {m}
                    BY <1>1, AppendedLast
                <5> QED
                    BY <1>3, <5>1, <5>2 DEF On
            <4>2. kept'[s] \ On(s)' = kept[s] \ On(s)
                BY <1>1, <1>4, <1>5, <1>9, <1>n, <3>1, <4>1 DEF StoreTyped
            <4> QED
                BY <1>3, <1>9, <2>1, <4>2, LossTyped DEF LogInv, LossesPaid, Lost, AtStake
        <3>2. CASE d.open
            <4>1. kept'[s] \ On(s)' \subseteq (kept[s] \ On(s)) \cup {m}
                BY <1>4, <1>9, <3>2 DEF LogInv, CutIsNotKept, StoreTyped
            <4>2. IsFiniteSet(kept[s] \ On(s))
                BY KeptFinite, FS_Difference
            <4>3. /\ IsFiniteSet((kept[s] \ On(s)) \cup {m})
                  /\ Cardinality((kept[s] \ On(s)) \cup {m}) = Lost(s) + 1
                BY <1>5, <4>2, FS_AddElement DEF Lost
            <4>4. Lost(s)' <= Lost(s) + 1
                BY <4>1, <4>3, FS_Subset DEF Lost
            <4>5. AtStake(s) = 1 /\ AtStake(s)' = 0
                BY <1>3, <2>1, <3>2 DEF AtStake
            <4>6. Lost(s) + AtStake(s) <= faults[s] /\ faults'[s] = faults[s]
                BY <1>9 DEF LogInv, LossesPaid
            <4>7. Lost(s)' \in Nat
                BY LossTyped, <4>1, <4>3, FS_Subset, FS_CardinalityType DEF Lost
            <4> QED
                BY <4>4, <4>5, <4>6, <4>7, LossTyped
        <3> QED
            BY <3>1, <3>2
    <2> QED
        BY <1>3, <1>6, <1>7, <1>8, <1>9, <2>2, <2>3, OthersPaid DEF LogInv, LossesPaid
<1>10. CASE /\ e \in FailedAppend(d, m)
            /\ UNCHANGED kept
            /\ faults' = [faults EXCEPT ![s] = @ + 1]
    <2>1. CutIsNotKept'
        <3> SUFFICES ASSUME e.open PROVE Last(e.lines) \notin kept[s]
            BY <1>3, <1>10 DEF LogInv, CutIsNotKept
        <3>1. CASE e.lines = d.lines /\ (e.open <=> d.open)
            BY <3>1 DEF LogInv, CutIsNotKept
        <3>2. CASE \E x \in {m, Bad} : e.lines = Append(d.lines, x)
            <4>1. Last(e.lines) \in {m, Bad}
                BY <1>1, <3>2, AppendedLast DEF Line
            <4> QED
                BY <1>5, <1>n, <4>1
        <3>3. CASE d.lines # <<>> /\ e.lines = Append(Front(d.lines), Bad)
            <4>1. Last(e.lines) = Bad
                BY <1>1, <3>3, FrontSet, AppendedLast DEF Line
            <4> QED
                BY <1>n, <4>1
        <3> QED
            BY <1>1, <1>10, <3>1, <3>2, <3>3, FailedShape
    <2>2. Lost(s)' + AtStake(s)' <= faults'[s]
        <3>1. kept[s] \ On(s)' = kept[s] \ On(s)
            BY <1>4, <1>5, <1>n DEF LogInv, CutIsNotKept
        <3>2. Lost(s)' = Lost(s)
            BY <1>10, <3>1 DEF Lost
        <3>3. faults'[s] = faults[s] + 1
            BY <1>10 DEF StoreTyped
        <3>4. AtStake(s)' <= AtStake(s) + 1
            <4>1. AtStake(s) \in {0, 1} /\ AtStake(s)' \in {0, 1}
                BY DEF AtStake
            <4> QED
                BY <4>1
        <3>5. Lost(s) + AtStake(s) <= faults[s]
            BY DEF LogInv, LossesPaid
        <3>6. AtStake(s)' \in {0, 1}
            BY DEF AtStake
        <3> QED
            BY <3>2, <3>3, <3>4, <3>5, <3>6, LossTyped
    <2>3. \A t \in Sessions \ {s} : faults'[t] = faults[t]
        BY <1>10 DEF StoreTyped
    <2> QED
        BY <1>3, <1>6, <1>7, <1>8, <2>1, <2>2, <2>3, OthersPaid DEF LogInv, LossesPaid
<1> QED
    BY <1>p, <1>9, <1>10

LEMMA LogInvStep == StoreTyped /\ LogInv /\ [StoreNext]_storeVars => LogInv'
<1> SUFFICES ASSUME StoreTyped, LogInv, [StoreNext]_storeVars PROVE LogInv'
    OBVIOUS
<1>1. StoreTyped'
    BY StoreTypedStep
<1> QED
    BY <1>1, StepKinds, SettlesKeepsLog, AppendsKeepsLog, WipesKeepsLog

LEMMA LogInvInit == StoreInit => LogInv
<1> SUFFICES ASSUME StoreInit PROVE LogInv
    OBVIOUS
<1>1. \A s \in Sessions : On(s) = {} /\ ~dir[s].open /\ kept[s] = {} /\ faults[s] = 0
    BY DEF StoreInit, NoDir, On, ToSet
<1>2. \A s \in Sessions : Lost(s) = 0 /\ AtStake(s) = 0
    BY <1>1, FS_EmptySet DEF Lost, AtStake
<1> QED
    BY <1>1, <1>2
    DEF LogInv, Numbered, InOneSession, CutIsNotKept, LossesPaid, DeletedStaysDeleted, StoreInit, On

LEMMA LogInvPays == StoreTyped /\ LogInv => OneLossPerFault
<1> SUFFICES ASSUME StoreTyped, LogInv, NEW s \in Sessions PROVE Lost(s) <= faults[s]
    BY DEF OneLossPerFault, Lost, On
<1>1. Lost(s) + AtStake(s) <= faults[s]
    BY DEF LogInv, LossesPaid
<1> QED
    BY <1>1, LossTyped

-----------------------------------------------------------------------------
(* Who writes to a session whose metadata are not there.                   *)

(* A step that keeps the metadata of the others, and does not put a        *)
(* process or a line where there are none.                                 *)
LEMMA ListedKept ==
    ASSUME StoreTyped, ListedInv, NEW a \in Agents,
           UNCHANGED <<removal, deleted>>,
           \A s \in Sessions : Listed(s) => Listed(s)',
           \A s \in Sessions :
              dir'[s].lines = dir[s].lines \/ s \in deleted \/ Listed(s)',
           \A b \in Agents \ {a} : agent'[b] = agent[b],
           (Busy(a) /\ ~Founding(a) /\ agent[a].sid \notin deleted => Listed(agent[a].sid))'
    PROVE  ListedInv'
<1>1. \A b \in Agents : Busy(b) => agent[b].sid \in Sessions
    BY DEF StoreTyped, Busy, Running
<1>2. HeldIsListed'
    BY DEF ListedInv, HeldIsListed
<1>3. \A b \in Agents \ {a} :
        (Busy(b) /\ ~Founding(b) /\ agent[b].sid \notin deleted => Listed(agent[b].sid))'
    BY <1>1 DEF ListedInv, Busy, Founding
<1> QED
    BY <1>2, <1>3 DEF ListedInv

(* An append changes nothing but the log.                                  *)
LEMMA AppendKeepsMeta ==
    ASSUME StoreTyped, NEW s \in Sessions, NEW m \in Message,
           NEW e \in AfterAppend(dir[s], m), dir' = [dir EXCEPT ![s] = e]
    PROVE  /\ \A t \in Sessions : Listed(t)' <=> Listed(t)
           /\ \A t \in Sessions : t # s => dir'[t] = dir[t]
<1>1. dir[s] \in Dir
    BY DEF StoreTyped
<1>2. e.meta <=> dir[s].meta
    BY <1>1 DEF AfterAppend, FailedAppend, Wrote, Torn, Opened, Dir
<1> QED
    BY <1>2 DEF Listed, StoreTyped

LEMMA AgentKeepsListed ==
    ASSUME StoreTyped, ListedInv, NEW a \in Agents, AgentStep(a)
    PROVE  ListedInv'
<1>r. \A st : At(a, st) /\ st # "free" => agent[a] \in Running
    BY DEF StoreTyped, At, Free
<1>b. \A b \in Agents : Busy(b) => agent[b] \in Running
    BY DEF StoreTyped, Busy
<1>s. agent[a] \in Running => agent[a].sid \in Sessions /\ Busy(a)
    BY DEF Running, Busy, Free
<1>d. dir \in [Sessions -> Dir] /\ agent \in [Agents -> Running \cup {Free}]
    BY DEF StoreTyped
<1>l. Busy(a) /\ ~Founding(a) /\ agent[a].sid \notin deleted => Listed(agent[a].sid)
    BY DEF ListedInv
<1>h. \A s \in Sessions : dir[s].lines = dir[s].lines
    OBVIOUS
<1>1. ASSUME NEW s \in Sessions, NEW k \in {"repl", "ask"}, CreateDir(a, s, k)
      PROVE  ListedInv'
    <2>1. /\ \A t \in Sessions : dir'[t].meta = dir[t].meta /\ dir'[t].lines = dir[t].lines
          /\ \A b \in Agents \ {a} : agent'[b] = agent[b]
          /\ UNCHANGED <<removal, deleted>>
        BY <1>1, <1>d DEF CreateDir, Dir
    <2>2. agent'[a] = [Started(k, s, <<>>, "save") EXCEPT !.after = "touch"]
        BY <1>1, <1>d DEF CreateDir
    <2>3. agent'[a].stage = "save" /\ agent'[a].after = "touch"
        BY <2>2 DEF Started
    <2> QED
        BY <2>1, <2>3, ListedKept DEF Listed, Founding
<1>2. ASSUME NEW s \in Sessions, Resume(a, s)
      PROVE  ListedInv'
    <2>1. agent'[a].sid = s /\ Listed(s)
        BY <1>2, <1>d DEF Resume, Started
    <2>2. \A b \in Agents \ {a} : agent'[b] = agent[b]
        BY <1>2, <1>d DEF Resume
    <2> QED
        BY <1>2, <2>1, <2>2, ListedKept DEF Resume, Listed
<1>3. CASE Touch(a)
    <2>1. agent[a] \in Running /\ agent[a].sid \in Sessions /\ Busy(a) /\ ~Founding(a)
        BY <1>3, <1>r, <1>s DEF Touch, At, Founding
    <2>2. /\ \A t \in Sessions : dir'[t].meta = dir[t].meta /\ dir'[t].lines = dir[t].lines
          /\ \A b \in Agents \ {a} : agent'[b] = agent[b]
          /\ agent'[a].sid = agent[a].sid
          /\ UNCHANGED <<removal, deleted>>
        BY <1>3, <1>d, <2>1 DEF Touch, Dir, Running
    <2> QED
        BY <1>l, <2>1, <2>2, ListedKept DEF Listed
<1>4. CASE TouchFails(a)
    <2>1. agent'[a] = Free /\ \A b \in Agents \ {a} : agent'[b] = agent[b]
        BY <1>4, <1>d DEF TouchFails
    <2> QED
        BY <1>4, <2>1, ListedKept DEF TouchFails, Listed, Busy
<1>5. CASE Say(a) \/ Clear(a)
    <2>1. agent[a] \in Running /\ agent[a].sid \in Sessions /\ Busy(a) /\ ~Founding(a)
        BY <1>5, <1>r, <1>s DEF Say, Clear, At, Founding
    <2>2. said' \in Message
        <3>1. NewMessage
            BY <1>5 DEF Say, Clear
        <3> QED
            BY <3>1, StoreAssumption DEF NewMessage, StoreTyped, Message
    <2>3. \E e \in AfterAppend(dir[agent[a].sid], said') : dir' = [dir EXCEPT ![agent[a].sid] = e]
        BY <1>5, <2>1, StoresAfterAppend DEF Say, Clear
    <2>4. /\ \A t \in Sessions : Listed(t)' <=> Listed(t)
          /\ \A t \in Sessions : t # agent[a].sid => dir'[t] = dir[t]
        BY <2>1, <2>2, <2>3, AppendKeepsMeta
    <2>5. /\ agent'[a].sid = agent[a].sid /\ \A b \in Agents \ {a} : agent'[b] = agent[b]
          /\ UNCHANGED <<removal, deleted>>
        <3>1. CASE Say(a)
            BY <1>d, <2>1, <3>1 DEF Say, Running
        <3>2. CASE Clear(a)
            BY <1>d, <2>1, <3>2 DEF Clear, Running
        <3> QED
            BY <1>5, <3>1, <3>2
    <2> QED
        BY <1>l, <2>1, <2>4, <2>5, ListedKept
<1>6. CASE EndTurn(a) \/ Exit(a) \/ SwitchProvider(a)
    <2>1. agent[a] \in Running /\ agent[a].sid \in Sessions /\ Busy(a) /\ ~Founding(a)
        BY <1>6, <1>r, <1>s DEF EndTurn, Exit, SwitchProvider, At, Founding
    <2>2. /\ agent'[a] = Free \/ agent'[a].sid = agent[a].sid
          /\ \A b \in Agents \ {a} : agent'[b] = agent[b]
          /\ UNCHANGED <<dir, removal, deleted>>
        BY <1>6, <1>d, <2>1 DEF EndTurn, Exit, SwitchProvider, Running
    <2> QED
        BY <1>l, <2>1, <2>2, ListedKept DEF Listed, Busy
<1>7. CASE Save(a)
    <2>1. agent[a] \in Running /\ agent[a].sid \in Sessions /\ Busy(a) /\ At(a, "save")
        BY <1>7, <1>r, <1>s DEF Save
    <2>2. /\ \A t \in Sessions : dir'[t].meta = dir[t].meta /\ dir'[t].lines = dir[t].lines
          /\ \A b \in Agents \ {a} : agent'[b] = agent[b]
          /\ agent'[a].sid = agent[a].sid /\ agent'[a].stage = "replace"
          /\ agent'[a].after = agent[a].after
          /\ UNCHANGED <<removal, deleted>>
        BY <1>7, <1>d, <2>1 DEF Save, Dir, Running
    <2> QED
        BY <1>l, <2>1, <2>2, ListedKept DEF Listed, Founding, At
<1>8. CASE Install(a)
    <2>1. agent[a] \in Running /\ agent[a].sid \in Sessions
        BY <1>8, <1>r, <1>s DEF Install
    <2>2. /\ \A t \in Sessions : dir[t].meta => dir'[t].meta
          /\ \A t \in Sessions : dir'[t].lines = dir[t].lines
          /\ dir'[agent[a].sid].meta
          /\ UNCHANGED <<removal, deleted>>
        BY <1>8, <1>d, <2>1 DEF Install, Dir
    <2>3. /\ \A b \in Agents \ {a} : agent'[b] = agent[b]
          /\ agent'[a] = Free \/ agent'[a].sid = agent[a].sid
        BY <1>8, <1>d, <2>1 DEF Install, Saved, Running
    <2> QED
        BY <2>1, <2>2, <2>3, ListedKept DEF Listed, Busy
<1>9. CASE SaveFails(a)
    <2>1. agent[a] \in Running /\ agent[a].sid \in Sessions /\ Busy(a)
          /\ agent[a].stage \in {"save", "replace"}
        BY <1>9, <1>r, <1>s DEF SaveFails, At
    <2>2. /\ \A t \in Sessions : dir'[t].meta = dir[t].meta /\ dir'[t].lines = dir[t].lines
          /\ UNCHANGED <<removal, deleted>>
        BY <1>9, <1>d, <2>1 DEF SaveFails, Dir
    <2>3. /\ \A b \in Agents \ {a} : agent'[b] = agent[b]
          /\ agent'[a] = Free \/ (agent'[a].sid = agent[a].sid /\ agent[a].after # "touch")
        BY <1>9, <1>d, <2>1 DEF SaveFails, Saved, Running
    <2> QED
        BY <1>l, <2>1, <2>2, <2>3, ListedKept DEF Listed, Busy, Founding
<1>10. CASE Die(a)
    <2>1. agent[a] \in Running /\ agent[a].sid \in Sessions /\ Busy(a)
        BY <1>10, <1>b, <1>s DEF Die
    <2>2. /\ agent'[a] = Free /\ \A b \in Agents \ {a} : agent'[b] = agent[b]
          /\ UNCHANGED <<removal, deleted>>
        BY <1>10, <1>d DEF Die
    <2>3. CASE UNCHANGED dir
        BY <2>2, <2>3, ListedKept DEF Listed, Busy
    <2>4. CASE /\ At(a, "idle") \/ At(a, "turn")
               /\ NewMessage
               /\ \E d \in Torn(dir[agent[a].sid], said') : dir' = [dir EXCEPT ![agent[a].sid] = d]
        <3>1. said' \in Message
            BY <2>4, StoreAssumption DEF NewMessage, StoreTyped, Message
        <3>2. /\ \A t \in Sessions : Listed(t)' <=> Listed(t)
              /\ \A t \in Sessions : t # agent[a].sid => dir'[t] = dir[t]
            BY <2>1, <2>4, <3>1, AppendKeepsMeta DEF AfterAppend, FailedAppend
        <3>3. ~Founding(a)
            BY <2>4 DEF At, Founding
        <3> QED
            BY <1>l, <2>1, <2>2, <3>2, <3>3, ListedKept DEF Busy
    <2> QED
        BY <1>10, <2>3, <2>4 DEF Die
<1> QED
    BY <1>1, <1>2, <1>3, <1>4, <1>5, <1>6, <1>7, <1>8, <1>9, <1>10 DEF AgentStep

LEMMA RemovalKeepsListed ==
    ASSUME StoreTyped, ListedInv, Unlink \/ EndDelete \/ \E s \in Sessions : BeginDelete(s)
    PROVE  ListedInv'
<1>b. \A b \in Agents : Busy(b) => agent[b].sid \in Sessions
    BY DEF StoreTyped, Busy, Running
<1>1. ASSUME NEW s \in Sessions, BeginDelete(s) PROVE ListedInv'
    BY <1>1, <1>b DEF BeginDelete, ListedInv, HeldIsListed, Listed, Busy, Founding
<1>2. CASE Unlink \/ EndDelete
    <2>1. removal.sid \in deleted
        BY <1>2 DEF Unlink, EndDelete, ListedInv
    <2>2. \A t \in Sessions : t # removal.sid => dir'[t] = dir[t]
        BY <1>2 DEF Unlink, EndDelete, StoreTyped
    <2>3. /\ UNCHANGED <<agent, deleted>>
          /\ removal' # NoRemoval => removal'.sid = removal.sid
        BY <1>2 DEF Unlink, EndDelete, StoreTyped, Removing
    <2> QED
        BY <1>b, <2>1, <2>2, <2>3 DEF ListedInv, HeldIsListed, Listed, Busy, Founding
<1> QED
    BY <1>1, <1>2

LEMMA ListedInvStep == StoreTyped /\ ListedInv /\ [StoreNext]_storeVars => ListedInv'
<1>1. StoreTyped /\ ListedInv /\ UNCHANGED storeVars => ListedInv'
    BY DEF storeVars, ListedInv, HeldIsListed, Listed, Busy, Founding
<1> QED
    BY <1>1, AgentKeepsListed, RemovalKeepsListed DEF StoreNext

LEMMA ListedInvInit == StoreInit => ListedInv
BY DEF StoreInit, ListedInv, HeldIsListed, Listed, Busy, NoDir

(* However many terminals, failed writes, deaths and deletions meet: of    *)
(* the messages whose append was reported as done, a session that is not   *)
(* deleted lacks one at most for every failure; what was deleted never     *)
(* comes back; and what is held is listed.                                 *)
THEOREM SessionsStayKept == StoreSpec => []SessionsAreKept
<1>1. StoreInit => StoreTyped /\ LogInv /\ ListedInv
    BY StoreTypedInit, LogInvInit, ListedInvInit
<1>2. StoreTyped /\ LogInv /\ ListedInv /\ [StoreNext]_storeVars
        => (StoreTyped /\ LogInv /\ ListedInv)'
    BY StoreTypedStep, LogInvStep, ListedInvStep
<1>3. StoreTyped /\ LogInv /\ ListedInv => SessionsAreKept
    BY LogInvPays DEF LogInv, ListedInv, SessionsAreKept
<1> QED
    BY <1>1, <1>2, <1>3, PTL DEF StoreSpec

-----------------------------------------------------------------------------
(* The refinement of SessionLog.                                           *)

Conversations == [s \in Sessions |-> Shown(dir[s])]

LEMMA LogStep == StoreTyped /\ [StoreNext]_storeVars => [Promise!LogNext]_Conversations
<1> SUFFICES ASSUME StoreTyped, [StoreNext]_storeVars
             PROVE  Promise!LogNext \/ Conversations' = Conversations
    OBVIOUS
<1>d. dir \in [Sessions -> Dir] /\ \A s \in Sessions : Tidy(dir[s])
    BY DEF StoreTyped
<1>1. CASE Settles
    BY <1>1 DEF Settles, SettledDirs, Conversations, Shown
<1>2. ASSUME NEW s \in Sessions, NEW e, dir' = [dir EXCEPT ![s] = e]
      PROVE  Conversations' = [Conversations EXCEPT ![s] = e.lines]
    BY <1>2, <1>d DEF Conversations, Shown
<1>3. ASSUME NEW s \in Sessions, Wipes(s) PROVE Promise!LogNext
    <2>1. Conversations' = [Conversations EXCEPT ![s] = <<>>]
        <3>1. Unlinked(dir[s], "log").lines = <<>>
            BY <1>d DEF Unlinked, Dir
        <3>2. dir' = [dir EXCEPT ![s] = Unlinked(dir[s], "log")]
            BY <1>3 DEF Wipes
        <3> QED
            BY <1>2, <3>1, <3>2
    <2> QED
        BY <2>1 DEF Promise!LogNext, Promise!Delete, Conversations
<1>4. ASSUME NEW s \in Sessions, Appends(s) PROVE Promise!LogNext \/ Conversations' = Conversations
    <2>1. PICK e \in AfterAppend(dir[s], said') : dir' = [dir EXCEPT ![s] = e]
        BY <1>4, <1>d DEF Appends, AfterAppend
    <2>2. Conversations' = [Conversations EXCEPT ![s] = e.lines] /\ Conversations[s] = dir[s].lines
        BY <1>2, <2>1 DEF Conversations, Shown
    <2>3. \/ e.lines = dir[s].lines
          \/ \E x \in Message \cup {Bad} : e.lines = Append(dir[s].lines, x)
          \/ dir[s].lines # <<>> /\ e.lines = Append(Front(dir[s].lines), Bad)
        <3>1. said' \in Message /\ dir[s] \in Dir /\ Tidy(dir[s])
            BY <1>4, <1>d DEF Appends
        <3>2. CASE e = Wrote(dir[s], said')
            BY <3>1, <3>2, WroteShape
        <3>3. CASE e \in FailedAppend(dir[s], said')
            <4>1. \/ e.lines = dir[s].lines
                  \/ \E x \in {said', Bad} : e.lines = Append(dir[s].lines, x)
                  \/ dir[s].lines # <<>> /\ e.lines = Append(Front(dir[s].lines), Bad)
                BY <3>1, <3>3, FailedShape, ZenonT(20)
            <4> QED
                BY <3>1, <4>1
        <3> QED
            BY <2>1, <3>2, <3>3 DEF AfterAppend
    <2>4. CASE e.lines = dir[s].lines
        BY <2>2, <2>4 DEF Conversations
    <2>5. CASE \E x \in Message \cup {Bad} : e.lines = Append(dir[s].lines, x)
        <3>1. PICK x \in Message \cup {Bad} : e.lines = Append(Conversations[s], x)
            BY <2>2, <2>5
        <3>2. Conversations' = [Conversations EXCEPT ![s] = Append(@, x)]
            BY <2>2, <3>1
        <3>3. Promise!Record(s)
            BY <3>2 DEF Promise!Record, Conversations
        <3> QED
            BY <3>3 DEF Promise!LogNext
    <2>6. CASE dir[s].lines # <<>> /\ e.lines = Append(Front(dir[s].lines), Bad)
        <3>1. Conversations' = [Conversations EXCEPT ![s] = Append(Front(@), Bad)]
            BY <2>2, <2>6
        <3>2. Promise!Spoil(s)
            BY <2>2, <2>6, <3>1 DEF Promise!Spoil, Conversations, Front, Promise!Front
        <3> QED
            BY <3>2 DEF Promise!LogNext
    <2> QED
        BY <2>3, <2>4, <2>5, <2>6
<1> QED
    BY <1>1, <1>3, <1>4, StepKinds

(* The store implements the log it promises: whatever processes, failures  *)
(* and deletions meet, what a resume shows of a session only grows at its  *)
(* end, has its last record damaged, or is deleted.                        *)
THEOREM StoreImplementsLog == StoreSpec => ImplementsLog
<1>1. StoreInit => Promise!LogInit
    BY DEF StoreInit, Promise!LogInit, Shown, NoDir
<1>2. StoreTyped /\ [StoreNext]_storeVars => [Promise!LogNext]_([s \in Sessions |-> Shown(dir[s])])
    BY LogStep DEF Conversations
<1> QED
    BY <1>1, <1>2, StoreTypedInit, StoreTypedStep, PTL DEF StoreSpec, ImplementsLog, Promise!LogSpec

-----------------------------------------------------------------------------
(* The two beside each other: each behaviour moves one of them.            *)

LEMMA StorageStep ==
    [StorageNext]_StorageVars => [FilesNext]_fileVars /\ [StoreNext]_storeVars
BY DEF StorageNext, StorageVars

(* Files and sessions beside each other, in every behaviour of the run of  *)
(* the two, have the types of both.                                        *)
THEOREM StorageStaysTyped == StorageSpec => []StorageTypeOK
<1> DEFINE Inv == FilesTypeOK /\ ThreadsNumbered /\ StoreTyped
<1>1. StorageInit => Inv
    BY FilesTypedInit, StoreTypedInit DEF StorageInit
<1>2. Inv /\ [StorageNext]_StorageVars => Inv'
    BY StorageStep, FilesTypedStep, StoreTypedStep
<1>3. Inv => StorageTypeOK
    BY TypedIsTypeOK DEF StorageTypeOK
<1> QED
    BY <1>1, <1>2, <1>3, PTL DEF StorageSpec
===============================================================================
