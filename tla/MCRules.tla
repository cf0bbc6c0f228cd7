-------------------------------- MODULE MCRules --------------------------------
(***************************************************************************)
(* What decides: the layers of the configuration and the exit codes        *)
(* (Startup), the scores and the gate of an evaluation (Evaluation), the   *)
(* training data and its comparison with the benchmarks (Datasets), what   *)
(* a scan shows (Scanning), whom the API lets in (Gate) and which model it *)
(* serves (Catalogue).  They share no state, so each behaviour moves one   *)
(* of them, the subject.                                                   *)
(***************************************************************************)
EXTENDS Startup, Evaluation, Datasets, Scanning, Gate, Catalogue

VARIABLE subject

rulesVars == <<subject, startVars, evalVars, datasetsVars, scanVars, gateVars, catalogueVars>>

BucketOf == [i \in Ids |-> CASE i = 1 -> 1 [] i = 2 -> 4 [] OTHER -> 8]

(* The keys of a gate that is not the subject.                             *)
ASSUME IdleAssumption == Kids # {}

(* A component that another is the subject of the behaviour of.            *)
StartupIdle ==
    /\ command = "run" /\ options = Quiet /\ environ = Unset /\ tty = FALSE /\ root = "home"
    /\ user = Silent /\ project = Silent
    /\ saved = FALSE /\ phase = "start" /\ probe = "none" /\ config = NoConfig
    /\ session = "none" /\ declined = FALSE /\ approved = FALSE /\ turn = "none" /\ exit = Running

ScanIdle ==
    /\ ask = Scan("tree", "root", FALSE, FALSE, "python") /\ tree = NoTree /\ manifests = NoManifests
    /\ halted = FALSE /\ worker = "called" /\ rest = {}
    /\ found = [p \in Paths |-> 0] /\ report = NoReport

GateIdle ==
    /\ posture = [name |-> "dev", auth |-> "open", registry |-> "none"]
    /\ time = 0 /\ published = Kids /\ up = FALSE /\ resolved = {} /\ reply = NoReply

RulesInit ==
    /\ subject \in {"startup", "evaluation", "datasets", "scanning", "gate", "catalogue"}
    /\ IF subject = "startup" THEN StartupInit ELSE StartupIdle
    /\ EvalInit
    /\ DatasetsInit
    /\ IF subject = "scanning" THEN ScanInit ELSE ScanIdle
    /\ IF subject = "gate" THEN GateInit ELSE GateIdle
    /\ CatalogueInit /\ (subject # "catalogue" => stage = Nothing)

RulesNext ==
    /\ UNCHANGED subject
    /\ \/ /\ subject = "startup" /\ StartupNext
          /\ UNCHANGED <<evalVars, datasetsVars, scanVars, gateVars, catalogueVars>>
       \/ /\ subject = "evaluation" /\ EvalNext
          /\ UNCHANGED <<startVars, datasetsVars, scanVars, gateVars, catalogueVars>>
       \/ /\ subject = "datasets" /\ DatasetsNext
          /\ UNCHANGED <<startVars, evalVars, scanVars, gateVars, catalogueVars>>
       \/ /\ subject = "scanning" /\ ScanNext
          /\ UNCHANGED <<startVars, evalVars, datasetsVars, gateVars, catalogueVars>>
       \/ /\ subject = "gate" /\ GateNext
          /\ UNCHANGED <<startVars, evalVars, datasetsVars, scanVars, catalogueVars>>
       \/ /\ subject = "catalogue" /\ CatalogueNext
          /\ UNCHANGED <<startVars, evalVars, datasetsVars, scanVars, gateVars>>

RulesSpec == RulesInit /\ [][RulesNext]_rulesVars

(* The components have their types.                                        *)
RulesTypeOK ==
    /\ StartupTypeOK
    /\ EvalTypeOK
    /\ DatasetsTypeOK
    /\ ScanTypeOK
    /\ GateTypeOK
    /\ CatalogueTypeOK
=============================================================================
