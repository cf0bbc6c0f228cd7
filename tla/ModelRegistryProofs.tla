-------------------------- MODULE ModelRegistryProofs --------------------------
(***************************************************************************)
(* For any number of versions, writers, interleavings and failed saves,    *)
(* the registry keeps one production version at most and ships only what   *)
(* has cleared its gate.  The argument is about one set of records (Sound) *)
(* and lifts to the file and to every copy, because a save and a load move *)
(* whole sets of records.                                                  *)
(***************************************************************************)
EXTENDS ModelRegistry, TLAPS

(* What every set of records has: the two safety properties, and what      *)
(* makes the second inductive: the flag the gate tests means the gate was  *)
(* cleared.                                                                *)
FlagIsHonest(records) ==
    \A v \in Versions : records[v].passed => records[v].cleared

Sound(records) ==
    /\ records \in Records
    /\ AtMostOne(records)
    /\ Cleared(records)
    /\ FlagIsHonest(records)

RegistryInv ==
    /\ open \subseteq Procs
    /\ mem \in [Procs -> Records]
    /\ Sound(file)
    /\ \A p \in Procs : Sound(mem[p])

-----------------------------------------------------------------------------
(* No records at all are sound: what a process starts and ends with.       *)
LEMMA EmptySound == Sound([v \in Versions |-> NoRecord])
BY DEF Sound, Records, Record, Row, NoRecord, New, AtMostOne, Cleared, Shipped,
       RequiresEval, FlagIsHonest

(* Registering, over a record or not, keeps records sound: a new record is *)
(* neither production nor shipped nor passed.                              *)
LEMMA RegisterSound ==
    ASSUME NEW records, Sound(records), NEW v \in Versions,
           NEW stage \in {"experimental", "evaluated"}
    PROVE  Sound([records EXCEPT ![v] = New(stage)])
BY DEF Sound, Records, Record, Row, NoRecord, New, Stages, AtMostOne, Cleared, Shipped,
       RequiresEval, FlagIsHonest

(* An evaluation outcome keeps records sound: it may only lift a record    *)
(* from experimental to evaluated, and a pass clears the gate.             *)
LEMMA EvaluateSound ==
    ASSUME NEW records, Sound(records), NEW v \in Versions, NEW passed \in BOOLEAN,
           records[v].stage # "absent"
    PROVE  Sound([records EXCEPT ![v] =
               [stage  |-> IF passed /\ records[v].stage = "experimental"
                           THEN "evaluated" ELSE records[v].stage,
                passed |-> passed,
                cleared |-> records[v].cleared \/ passed]])
BY DEF Sound, Records, Record, Row, NoRecord, Stages, AtMostOne, Cleared, Shipped,
       RequiresEval, FlagIsHonest

(* A demotion keeps records sound and, before a promotion to production,   *)
(* leaves no production version.                                           *)
LEMMA DemotionSound ==
    ASSUME NEW records, Sound(records), NEW to, NEW demoted \in Demotions(records, to)
    PROVE  /\ Sound(demoted)
           /\ to = "production" => Incumbents(demoted) = {}
           /\ \A v \in Versions : /\ demoted[v].passed = records[v].passed
                                  /\ demoted[v].cleared = records[v].cleared
<1>1. CASE to = "production" /\ Incumbents(records) # {}
  <2>1. PICK u \in Incumbents(records) : demoted = [records EXCEPT ![u].stage = "candidate"]
    BY <1>1 DEF Demotions
  <2>2. u \in Versions /\ records[u].stage = "production"
    BY <2>1 DEF Incumbents
  <2>3. demoted \in Records
    BY <2>1, <2>2 DEF Sound, Records, Record, Row, NoRecord, Stages
  <2>4. Incumbents(demoted) = {}
    BY <2>1, <2>2 DEF Incumbents, Sound, AtMostOne, Records, Record
  <2>5. \A v \in Versions : /\ demoted[v].passed = records[v].passed
                            /\ demoted[v].cleared = records[v].cleared
    BY <2>1, <2>2 DEF Sound, Records, Record
  <2>6. Cleared(demoted)
    BY <2>1, <2>2 DEF Sound, Cleared, Shipped, RequiresEval, Records, Record
  <2>7. QED
    BY <2>3, <2>4, <2>5, <2>6 DEF Sound, AtMostOne, FlagIsHonest, Incumbents
<1>2. CASE ~(to = "production" /\ Incumbents(records) # {})
  BY <1>2 DEF Demotions
<1>3. QED
  BY <1>1, <1>2

(* A permitted move keeps records sound, provided a production place is    *)
(* free when it is the one moved to.                                       *)
LEMMA MoveSound ==
    ASSUME NEW records, Sound(records), NEW v \in Versions, NEW to \in Stages,
           to \in RequiresEval => records[v].passed,
           to = "production" => Incumbents(records) = {}
    PROVE  Sound([records EXCEPT ![v] = Moved(@, to)])
<1> DEFINE moved == [records EXCEPT ![v] = Moved(@, to)]
<1>1. moved \in Records
  <2>1. records \in [Versions -> Row] /\ records[v] \in Row
    BY DEF Sound, Records, Record
  <2>2. Moved(records[v], to) \in Row /\ Moved(records[v], to).stage # "absent"
    BY <2>1 DEF Moved, Row, Stages
  <2>3. QED
    BY <2>2 DEF Sound, Records, Record
<1>2. AtMostOne(moved)
  BY DEF Sound, Records, Record, Row, NoRecord, Moved, AtMostOne, Incumbents
<1>3. Cleared(moved) /\ FlagIsHonest(moved)
  BY DEF Sound, Records, Record, Row, NoRecord, Moved, Cleared, Shipped, RequiresEval,
         FlagIsHonest, Stages
<1>4. QED
  BY <1>1, <1>2, <1>3 DEF Sound

(* A write of sound records keeps the invariant, whether its save succeeds *)
(* or fails.                                                               *)
LEMMA WriteKeepsInv ==
    ASSUME RegistryInv, NEW p \in Procs, NEW records, Sound(records),
           ChangeAndSave(p, records)
    PROVE  RegistryInv'
BY DEF RegistryInv, ChangeAndSave, Sound

-----------------------------------------------------------------------------
(* Every operation of every writer keeps the file and all copies sound.    *)
LEMMA RegistryInvInductive ==
    /\ RegistryInit => RegistryInv
    /\ RegistryInv /\ [RegistryNext]_registryVars => RegistryInv'
<1>1. RegistryInit => RegistryInv
  <2> SUFFICES ASSUME RegistryInit PROVE RegistryInv
    OBVIOUS
  <2> DEFINE empty == [v \in Versions |-> NoRecord]
  <2>1. file = empty /\ mem = [p \in Procs |-> empty] /\ open = {}
    BY DEF RegistryInit
  <2>2. Sound(empty) /\ empty \in Records
    BY EmptySound DEF Sound
  <2> HIDE DEF empty
  <2>3. QED
    BY <2>1, <2>2 DEF RegistryInv
<1>2. ASSUME RegistryInv, [RegistryNext]_registryVars
      PROVE  RegistryInv'
  <2>1. CASE UNCHANGED registryVars
    BY <1>2, <2>1 DEF RegistryInv, registryVars
  <2>2. CASE RegistryNext
    <3>1. PICK p \in Procs :
            \/ Open(p)
            \/ Close(p)
            \/ \E v \in Versions :
                 \/ \E stage \in {"experimental", "evaluated"}, overwrite \in BOOLEAN :
                       Register(p, v, stage, overwrite)
                 \/ \E passed \in BOOLEAN : MarkEvaluated(p, v, passed)
                 \/ \E to \in Stages : Promote(p, v, to)
      BY <2>2 DEF RegistryNext
    <3>s. Sound(mem[p])
      BY <1>2, <3>1 DEF RegistryInv
    <3>2. CASE Open(p)
      BY <1>2, <3>1, <3>2 DEF RegistryInv, Open, Sound
    <3>3. CASE Close(p)
      <4> DEFINE empty == [v \in Versions |-> NoRecord]
      <4>1. mem' = [mem EXCEPT ![p] = empty] /\ file' = file /\ open' \subseteq open
        BY <3>3 DEF Close
      <4>2. Sound(empty) /\ empty \in Records
        BY EmptySound DEF Sound
      <4> HIDE DEF empty
      <4>3. QED
        BY <1>2, <3>1, <4>1, <4>2 DEF RegistryInv
    <3>4. ASSUME NEW v \in Versions, NEW stage \in {"experimental", "evaluated"},
                 NEW overwrite \in BOOLEAN, Register(p, v, stage, overwrite)
          PROVE  RegistryInv'
      BY <1>2, <3>1, <3>4, <3>s, RegisterSound, WriteKeepsInv DEF Register
    <3>5. ASSUME NEW v \in Versions, NEW passed \in BOOLEAN, MarkEvaluated(p, v, passed)
          PROVE  RegistryInv'
      <4>1. mem[p][v].stage # "absent"
        BY <3>5 DEF MarkEvaluated
      <4> DEFINE after == [mem[p] EXCEPT ![v] =
               [stage  |-> IF passed /\ mem[p][v].stage = "experimental"
                           THEN "evaluated" ELSE mem[p][v].stage,
                passed |-> passed,
                cleared |-> mem[p][v].cleared \/ passed]]
      <4>2. Sound(after)
        BY <3>s, <4>1, EvaluateSound
      <4>3. ChangeAndSave(p, after)
        BY <3>5 DEF MarkEvaluated
      <4> HIDE DEF after
      <4>4. QED
        BY <1>2, <3>1, <4>2, <4>3, WriteKeepsInv
    <3>6. ASSUME NEW v \in Versions, NEW to \in Stages, Promote(p, v, to)
          PROVE  RegistryInv'
      <4>1. PICK records \in Demotions(mem[p], to) :
                ChangeAndSave(p, [records EXCEPT ![v] = Moved(@, to)])
        BY <3>6 DEF Promote
      <4>2. to \in RequiresEval => mem[p][v].passed
        BY <3>6 DEF Promote, MayPromote
      <4>3. /\ Sound(records)
            /\ to = "production" => Incumbents(records) = {}
            /\ to \in RequiresEval => records[v].passed
        BY <3>s, <4>1, <4>2, DemotionSound
      <4>4. Sound([records EXCEPT ![v] = Moved(@, to)])
        BY <4>3, MoveSound
      <4>5. QED
        BY <1>2, <3>1, <4>1, <4>4, WriteKeepsInv
    <3>7. QED
      BY <3>1, <3>2, <3>3, <3>4, <3>5, <3>6
  <2>3. QED
    BY <1>2, <2>1, <2>2
<1>3. QED
  BY <1>1, <1>2

(* The invariant holds in every reachable state.                           *)
THEOREM RegistryInvariant == RegistrySpec => []RegistryInv
BY RegistryInvInductive, PTL DEF RegistrySpec

(* Type correctness of ModelRegistry.                                      *)
THEOREM RegistryTypeCorrect == RegistrySpec => []RegistryTypeOK
<1>1. RegistryInv => RegistryTypeOK
  BY DEF RegistryInv, RegistryTypeOK, Sound
<1>2. QED
  BY <1>1, RegistryInvariant, PTL

(* "At most one version may be production at a time", for every number of  *)
(* versions and writers (registry.py, promote).                            *)
THEOREM RegistrySingleProduction == RegistrySpec => []SingleProduction
<1>1. RegistryInv => SingleProduction
  BY DEF RegistryInv, SingleProduction, Sound
<1>2. QED
  BY <1>1, RegistryInvariant, PTL

(* Only a version that has passed an evaluation since it was registered is *)
(* ever a candidate or in production (registry.py, _REQUIRES_EVAL).        *)
THEOREM RegistryShippedHasCleared == RegistrySpec => []ShippedHasCleared
<1>1. RegistryInv => ShippedHasCleared
  BY DEF RegistryInv, ShippedHasCleared, Sound
<1>2. QED
  BY <1>1, RegistryInvariant, PTL
=============================================================================
