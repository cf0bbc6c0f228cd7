-------------------------------- MODULE Catalogue --------------------------------
(***************************************************************************)
(* Which model a generation is for: _resolve_engine of api/app.py, the     *)
(* engine's resolution of a reference (inference/engine.py) and the reads  *)
(* of the registry (inference/registry.py).  The server reads the registry *)
(* once, when it starts, and keeps that copy for its own routes; an engine *)
(* is built once for the configured model, and anew, from the file of the  *)
(* moment, for any other.  Other processes write the file in the meantime; *)
(* what a legal write is, is ModelRegistry's business: here it leaves at   *)
(* most one version in production.                                         *)
(***************************************************************************)
EXTENDS Naturals, FiniteSets

CONSTANT Versions   \* the versions; the Ollama tag of each is its name

(* The registry is a file; "none" and "refused" stand for no reference and *)
(* for no answer.                                                          *)
ASSUME CatalogueAssumption ==
    IsFiniteSet(Versions) /\ "none" \notin Versions /\ "refused" \notin Versions

VARIABLES
    setup,      \* the settings of the server, or Stopped
    stage,      \* the registry file: the stage of each version
    copy,       \* the server's copy of it
    default,    \* the tag of the engine built at start
    served      \* the latest generation: what was asked for, the tag it got

catalogueVars == <<setup, stage, copy, default, served>>

Aliases == {"production", "candidate"}

(* What a client or a setting may name: nothing, an alias, a version, or   *)
(* some other tag that Ollama may know.                                    *)
References == Aliases \cup Versions \cup {"none", "raw"}

Stages == {"absent", "candidate", "production"}

Setup == [model : References \ {"none"}, overrides : BOOLEAN, registry : BOOLEAN]

Stopped == [model |-> "none"]

InStage(records, s) == {v \in Versions : records[v] = s}

Nothing == [v \in Versions |-> "absent"]

NotServed == [ref |-> "none", tag |-> "none"]

Single(records) == Cardinality(InStage(records, "production")) <= 1

CatalogueTypeOK ==
    /\ setup \in Setup \cup {Stopped}
    /\ setup = Stopped <=> default = "none"
    /\ stage \in [Versions -> Stages] /\ copy \in [Versions -> Stages]
    /\ default \in References
    /\ served \in [ref : References, tag : References \cup {"refused"}]

CatalogueInit ==
    /\ setup = Stopped
    /\ stage \in {records \in [Versions -> Stages] : Single(records)}
    /\ copy = Nothing
    /\ default = "none"
    /\ served = NotServed

(* ModelRegistry.resolve, and from_settings, which takes a reference that  *)
(* does not resolve for a tag.                                             *)
ResolveReference(records, ref) ==
    IF ref \in Aliases /\ Cardinality(InStage(records, ref)) = 1
    THEN CHOOSE v \in Versions : records[v] = ref
    ELSE ref

(* create_app: there is a registry to read, or not.                        *)
Start ==
    /\ setup = Stopped
    /\ setup' \in {s \in Setup : s.registry <=> stage # Nothing}
    /\ copy' = stage
    /\ default' = ResolveReference(stage, setup'.model)
    /\ served' = NotServed
    /\ UNCHANGED stage

Stop ==
    /\ setup # Stopped
    /\ setup' = Stopped
    /\ copy' = Nothing
    /\ default' = "none"
    /\ served' = NotServed
    /\ UNCHANGED stage

(* The CLI, a script or a redeployed file.                                 *)
OtherWrites ==
    /\ stage' \in {records \in [Versions -> Stages] : Single(records)}
    /\ served' = NotServed
    /\ UNCHANGED <<setup, copy, default>>

(* An admin route writes the server's copy, and the copy into the file.    *)
AdminWrites ==
    /\ setup # Stopped /\ setup.registry
    /\ copy' \in {records \in [Versions -> Stages] : Single(records)}
    /\ stage' = copy'
    /\ served' = NotServed
    /\ UNCHANGED <<setup, default>>

(* The policy on the models a client may name.                             *)
Allowed(ref) ==
    \/ setup.overrides
    \/ ref \in Aliases
    \/ setup.registry /\ ref \in Versions /\ copy[ref] # "absent"

(* Mutant of TagFor: the server's copy decides.                            *)
TagForFromCopy(ref) ==
    IF ref \in {"none", default} THEN default
    ELSE IF Allowed(ref) THEN ResolveReference(copy, ref) ELSE "refused"

TagFor(ref) ==
    IF ref \in {"none", default} THEN default
    ELSE IF Allowed(ref) THEN ResolveReference(stage, ref) ELSE "refused"

(* POST /v1/generate, as far as the choice of the engine.                  *)
SelectModel(ref) ==
    /\ setup # Stopped
    /\ served' = [ref |-> ref, tag |-> TagFor(ref)]
    /\ UNCHANGED <<setup, stage, copy, default>>

CatalogueNext ==
    \/ Start \/ Stop \/ OtherWrites \/ AdminWrites
    \/ \E ref \in References : SelectModel(ref)

CatalogueSpec == CatalogueInit /\ [][CatalogueNext]_catalogueVars

-----------------------------------------------------------------------------
(* "so a caller cannot pull an unreviewed model into the serving path"     *)
(* (_resolve_engine): without overrides a generation is for the server's   *)
(* own model or for a version that the file or the server's older copy of  *)
(* it holds; an alias without a version goes through under its own name.   *)
ReleasedOnly ==
    setup # Stopped /\ ~setup.overrides =>
        served.tag \in {"none", "refused", default} \cup Aliases
                       \cup {v \in Versions : {stage[v], copy[v]} # {"absent"}}

(* "so model="production" serves the promoted tag" (from_settings): by the *)
(* file of the moment, however old the server's copy is.  Only a server    *)
(* that was configured for the alias when nothing was in production keeps  *)
(* the bare name.                                                          *)
AliasServesPromoted ==
    served.ref = "production" /\ default # "production" =>
        InStage(stage, "production") \subseteq {served.tag}

(* What is served has been released, and the alias means what was promoted *)
(* (api/app.py, inference/engine.py).                                      *)
ServesReleases ==
    /\ ReleasedOnly
    /\ AliasServesPromoted
=============================================================================
