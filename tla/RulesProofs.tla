------------------------------ MODULE RulesProofs ------------------------------
(***************************************************************************)
(* The theorems of what decides: which model is served (Catalogue), what   *)
(* trains and what a comparison lets through (Datasets), what a scan       *)
(* reports (Scanning), what a benchmark says (Evaluation) and what a       *)
(* command line comes to (Startup).                                        *)
(***************************************************************************)
EXTENDS MCRules, GateProofs, Recursion, SequenceTheorems, FiniteSetTheorems, TLAPS

-----------------------------------------------------------------------------
(* The choice of a model, for any number of versions and of writers.       *)

CatalogueInv ==
    /\ CatalogueTypeOK
    /\ Single(stage)
    /\ ServesReleases

(* What is in production is one version or none.                           *)
LEMMA InStageOfOne ==
    ASSUME NEW recs \in [Versions -> Stages], Single(recs),
           NEW v \in InStage(recs, "production")
    PROVE  /\ InStage(recs, "production") = {v}
           /\ Cardinality(InStage(recs, "production")) = 1
<1> DEFINE S == InStage(recs, "production")
<1>1. S \subseteq Versions /\ IsFiniteSet(S)
    <2>1. S \subseteq Versions
        BY DEF InStage
    <2> QED
        BY <2>1, FS_Subset, CatalogueAssumption
<1>2. Cardinality(S) \in Nat /\ Cardinality(S) <= 1 /\ Cardinality(S) # 0
    BY <1>1, FS_CardinalityType, FS_EmptySet DEF Single
<1>3. Cardinality(S) = 1
    BY <1>2
<1>4. PICK x : S = {x}
    BY <1>1, <1>3, FS_Singleton
<1> QED
    BY <1>3, <1>4

(* A reference leads to a version of its stage, or stays what it is.       *)
LEMMA Resolves ==
    ASSUME NEW recs \in [Versions -> Stages], NEW ref \in References
    PROVE  \/ ResolveReference(recs, ref) = ref
           \/ /\ ref \in Aliases /\ ResolveReference(recs, ref) \in Versions
              /\ recs[ResolveReference(recs, ref)] = ref
<1>1. CASE ref \in Aliases /\ Cardinality(InStage(recs, ref)) = 1
    <2>1. InStage(recs, ref) \subseteq Versions
        BY DEF InStage
    <2>2. IsFiniteSet(InStage(recs, ref))
        BY <2>1, FS_Subset, CatalogueAssumption
    <2>3. \E v \in Versions : recs[v] = ref
        <3>1. PICK x : InStage(recs, ref) = {x}
            BY <1>1, <2>2, FS_Singleton
        <3> QED
            BY <3>1 DEF InStage
    <2> QED
        BY <1>1, <2>3 DEF ResolveReference
<1>2. CASE ~(ref \in Aliases /\ Cardinality(InStage(recs, ref)) = 1)
    BY <1>2 DEF ResolveReference
<1> QED
    BY <1>1, <1>2

LEMMA CatalogueInitially == CatalogueInit => CatalogueInv
BY DEF CatalogueInit, CatalogueInv, CatalogueTypeOK, ServesReleases, ReleasedOnly, AliasServesPromoted,
       NotServed, Nothing, Stopped, References, Stages

(* A selection is judged at the moment it is made.                         *)
LEMMA SelectionReleased ==
    ASSUME CatalogueInv, NEW ref \in References, SelectModel(ref)
    PROVE  CatalogueInv'
<1>1. /\ setup \in Setup /\ stage \in [Versions -> Stages] /\ copy \in [Versions -> Stages]
      /\ default \in References /\ default # "none" /\ UNCHANGED <<setup, stage, copy, default>>
      /\ served' = [ref |-> ref, tag |-> TagFor(ref)]
    BY DEF SelectModel, CatalogueInv, CatalogueTypeOK
<1>2. served'.ref = ref /\ served'.tag = TagFor(ref)
    BY <1>1
<1>3. \/ ResolveReference(stage, ref) = ref
      \/ /\ ref \in Aliases /\ ResolveReference(stage, ref) \in Versions
         /\ stage[ResolveReference(stage, ref)] = ref
    BY <1>1, Resolves
<1>4. TagFor(ref) \in References \cup {"refused"}
    BY <1>1, <1>3 DEF TagFor, References
<1>5. CatalogueTypeOK'
    BY <1>1, <1>4 DEF CatalogueInv, CatalogueTypeOK
<1>6. ReleasedOnly'
    <2> SUFFICES ASSUME ~setup.overrides
                 PROVE  TagFor(ref) \in {"none", "refused", default} \cup Aliases
                                        \cup {v \in Versions : {stage[v], copy[v]} # {"absent"}}
        BY <1>1, <1>2 DEF ReleasedOnly
    <2>1. CASE ref \in {"none", default} \/ ~Allowed(ref)
        BY <2>1 DEF TagFor
    <2>2. CASE ref \notin {"none", default} /\ Allowed(ref)
        <3>1. TagFor(ref) = ResolveReference(stage, ref)
            BY <2>2 DEF TagFor
        <3>2. ref \in Aliases \/ (ref \in Versions /\ copy[ref] # "absent")
            BY <2>2 DEF Allowed
        <3>3. CASE ResolveReference(stage, ref) = ref
            BY <3>1, <3>2, <3>3
        <3>4. CASE /\ ref \in Aliases /\ ResolveReference(stage, ref) \in Versions
                   /\ stage[ResolveReference(stage, ref)] = ref
            BY <3>1, <3>4 DEF Aliases
        <3> QED
            BY <1>3, <3>3, <3>4
    <2> QED
        BY <2>1, <2>2
<1>7. AliasServesPromoted'
    <2> SUFFICES ASSUME ref = "production", default # "production",
                        NEW v \in InStage(stage, "production")
                 PROVE  v = TagFor(ref)
        BY <1>1, <1>2 DEF AliasServesPromoted
    <2>1. InStage(stage, ref) = {v} /\ Cardinality(InStage(stage, ref)) = 1
        BY <1>1, InStageOfOne DEF CatalogueInv
    <2>2. TagFor(ref) = CHOOSE x \in Versions : stage[x] = ref
        BY <2>1 DEF TagFor, Allowed, Aliases, ResolveReference
    <2>3. v \in Versions /\ stage[v] = ref /\ \A x \in Versions : stage[x] = ref => x = v
        BY <2>1 DEF InStage
    <2> QED
        BY <2>2, <2>3
<1>8. Single(stage)'
    BY <1>1 DEF CatalogueInv, Single, InStage
<1> QED
    BY <1>5, <1>6, <1>7, <1>8 DEF CatalogueInv, ServesReleases

LEMMA CatalogueStep == CatalogueInv /\ [CatalogueNext]_catalogueVars => CatalogueInv'
<1> SUFFICES ASSUME CatalogueInv, [CatalogueNext]_catalogueVars PROVE CatalogueInv'
    OBVIOUS
<1>1. /\ stage \in [Versions -> Stages] /\ copy \in [Versions -> Stages] /\ Single(stage)
      /\ NotServed \in [ref : References, tag : References \cup {"refused"}]
      /\ NotServed.ref = "none" /\ NotServed.tag = "none"
      /\ Nothing \in [Versions -> Stages]
    BY DEF CatalogueInv, CatalogueTypeOK, NotServed, References, Nothing, Stages
<1>2. CASE served' = NotServed
    <2>1. ServesReleases'
        BY <1>1, <1>2 DEF ServesReleases, ReleasedOnly, AliasServesPromoted
    <2>2. CASE Start
        <3>1. /\ setup' \in Setup /\ copy' = stage /\ stage' = stage
              /\ default' = ResolveReference(stage, setup'.model)
            BY <2>2 DEF Start
        <3>2. setup'.model \in References /\ setup'.model # "none" /\ setup' # Stopped
            BY <3>1 DEF Setup, Stopped
        <3>3. default' \in References /\ default' # "none"
            BY <1>1, <3>1, <3>2, Resolves, CatalogueAssumption DEF References
        <3> QED
            BY <1>1, <1>2, <2>1, <3>1, <3>2, <3>3 DEF CatalogueInv, CatalogueTypeOK, Single, InStage
    <2>3. CASE Stop
        BY <1>1, <1>2, <2>1, <2>3 DEF Stop, CatalogueInv, CatalogueTypeOK, Single, InStage, References
    <2>4. CASE OtherWrites \/ AdminWrites
        <3>1. /\ stage' \in [Versions -> Stages] /\ Single(stage') /\ copy' \in [Versions -> Stages]
              /\ setup' = setup /\ default' = default
            BY <1>1, <2>4 DEF OtherWrites, AdminWrites
        <3>2. Single(stage)'
            BY <3>1 DEF Single, InStage
        <3> QED
            BY <1>1, <1>2, <2>1, <3>1, <3>2 DEF CatalogueInv, CatalogueTypeOK
    <2>5. CASE \E ref \in References : SelectModel(ref)
        BY <2>5, SelectionReleased
    <2>6. CASE UNCHANGED catalogueVars
        BY <1>1, <2>1, <2>6 DEF catalogueVars, CatalogueInv, CatalogueTypeOK, Single, InStage
    <2> QED
        BY <2>2, <2>3, <2>4, <2>5, <2>6 DEF CatalogueNext
<1>3. CASE served' # NotServed
    <2>1. CASE \E ref \in References : SelectModel(ref)
        BY <2>1, SelectionReleased
    <2>2. CASE UNCHANGED catalogueVars
        BY <2>2 DEF catalogueVars, CatalogueInv, CatalogueTypeOK, Single, InStage, ServesReleases,
                    ReleasedOnly, AliasServesPromoted
    <2> QED
        BY <1>3, <2>1, <2>2 DEF CatalogueNext, Start, Stop, OtherWrites, AdminWrites
<1> QED
    BY <1>2, <1>3

LEMMA CatalogueInvariant == CatalogueSpec => []CatalogueInv
<1> QED
    BY CatalogueInitially, CatalogueStep, PTL DEF CatalogueSpec

(* The registry, the copy of it and what is served have their types        *)
(* (registry/registry.py, api/app.py).                                     *)
THEOREM CatalogueTypeCorrect == CatalogueSpec => []CatalogueTypeOK
<1>1. CatalogueInv => CatalogueTypeOK
    BY DEF CatalogueInv
<1> QED
    BY <1>1, CatalogueInvariant, PTL

(* Whoever writes the registry, and whenever: a client that may not name   *)
(* any model gets the server's own or one that is in the registry, and the *)
(* alias means the version in production (api/app.py, inference/engine.py).*)
THEOREM ReleasesStayServed == CatalogueSpec => []ServesReleases
<1>1. CatalogueInv => ServesReleases
    BY DEF CatalogueInv
<1> QED
    BY <1>1, CatalogueInvariant, PTL

-----------------------------------------------------------------------------
(* The datasets, for any ids and hashes, any number of items, builds and   *)
(* preparations, and a death at any step.                                  *)

(* Rows without an id twice are rows whose ids tell them apart.            *)
LEMMA DistinctMeans ==
    ASSUME NEW rows \in Seq(DataItems)
    PROVE  Distinct(rows) <=> \A i, j \in 1..Len(rows) : rows[i].id = rows[j].id => i = j
<1> DEFINE n == Len(rows)
           f == [i \in 1..n |-> rows[i].id]
<1>1. n \in Nat /\ DOMAIN rows = 1..n
    OBVIOUS
<1>2. IsFiniteSet(1..n) /\ Cardinality(1..n) = n
    BY <1>1, FS_Interval
<1>3. f \in Surjection(1..n, IdsIn(rows))
    BY <1>1 DEF Surjection, IdsIn
<1>4. Cardinality(IdsIn(rows)) = n <=> f \in Injection(1..n, IdsIn(rows))
    BY <1>2, <1>3, FS_Surjection
<1>5. f \in [1..n -> IdsIn(rows)]
    BY <1>3 DEF Surjection
<1>6. f \in Injection(1..n, IdsIn(rows)) <=> \A i, j \in 1..n : f[i] = f[j] => i = j
    BY <1>5 DEF Injection, IsInjective
<1> QED
    BY <1>4, <1>6 DEF Distinct

(* The place k is for the k-th element of a set of positions: each element *)
(* has one of the places, and each place an element.                       *)
LEMMA RankIsOnto ==
    ASSUME NEW n \in Nat, NEW kept \in SUBSET (1..n)
    PROVE  /\ IsFiniteSet(kept) /\ Cardinality(kept) \in Nat
           /\ \A k \in 1..Cardinality(kept) :
                 \E i \in kept : Cardinality({j \in kept : j <= i}) = k
<1> DEFINE Rank(i) == Cardinality({j \in kept : j <= i})
           f == [i \in kept |-> Rank(i)]
           m == Cardinality(kept)
<1>1. IsFiniteSet(kept) /\ m \in Nat
    <2>1. IsFiniteSet(1..n)
        BY FS_Interval
    <2> QED
        BY <2>1, FS_Subset, FS_CardinalityType
<1>2. ASSUME NEW i \in kept
      PROVE  IsFiniteSet({j \in kept : j <= i}) /\ Rank(i) \in 1..m
    <2>1. {j \in kept : j <= i} \subseteq kept /\ i \in {j \in kept : j <= i}
        OBVIOUS
    <2>2. IsFiniteSet({j \in kept : j <= i}) /\ Rank(i) \in Nat /\ Rank(i) <= m
        BY <1>1, <2>1, FS_Subset, FS_CardinalityType
    <2>3. Rank(i) # 0
        BY <2>1, <2>2, FS_EmptySet
    <2> QED
        BY <1>1, <2>2, <2>3
<1>3. ASSUME NEW i \in kept, NEW j \in kept, i < j
      PROVE  Rank(i) < Rank(j)
    <2>1. /\ {h \in kept : h <= i} \subseteq {h \in kept : h <= j}
          /\ j \in {h \in kept : h <= j} /\ j \notin {h \in kept : h <= i}
        <3>1. i \in Int /\ j \in Int /\ \A h \in kept : h \in Int
            OBVIOUS
        <3>2. \A h \in kept : h <= i => h <= j
            BY <1>3, <3>1
        <3>3. ~(j <= i) /\ j <= j
            BY <1>3, <3>1
        <3> QED
            BY <3>2, <3>3
    <2>2. Rank(i) <= Rank(j) /\ Rank(i) # Rank(j)
        BY <1>2, <2>1, FS_Subset
    <2> QED
        BY <1>1, <1>2, <2>2
<1>4. f \in Injection(kept, 1..m)
    <2>1. f \in [kept -> 1..m]
        BY <1>2
    <2>2. ASSUME NEW i \in kept, NEW j \in kept, f[i] = f[j]
          PROVE  i = j
        <3>1. ~(i < j) /\ ~(j < i)
            BY <1>1, <1>2, <1>3, <2>2
        <3> QED
            BY <3>1
    <2> QED
        BY <2>1, <2>2 DEF Injection, IsInjective
<1>5. IsFiniteSet(1..m) /\ Cardinality(1..m) = m
    BY <1>1, FS_Interval
<1>6. f \in Surjection(kept, 1..m)
    BY <1>4, <1>5, FS_Injection
<1>7. \A k \in 1..m : \E i \in kept : Rank(i) = k
    BY <1>6 DEF Surjection
<1> QED
    BY <1>1, <1>7

(* Keep takes rows at the positions kept, none of them twice.              *)
LEMMA KeepTakes ==
    ASSUME NEW rows \in Seq(DataItems), NEW kept \in SUBSET (1..Len(rows))
    PROVE  /\ Keep(rows, kept) \in Seq(DataItems)
           /\ Len(Keep(rows, kept)) = Cardinality(kept)
           /\ \A k \in 1..Len(Keep(rows, kept)) : \E i \in kept : Keep(rows, kept)[k] = rows[i]
           /\ Distinct(rows) => Distinct(Keep(rows, kept))
<1> DEFINE m == Cardinality(kept)
           Rank(i) == Cardinality({j \in kept : j <= i})
           place == [k \in 1..m |-> CHOOSE i \in kept : Rank(i) = k]
           taken == Keep(rows, kept)
<1>1. IsFiniteSet(kept) /\ m \in Nat /\ \A k \in 1..m : \E i \in kept : Rank(i) = k
    <2>1. Len(rows) \in Nat
        OBVIOUS
    <2> QED
        BY <2>1, RankIsOnto
<1>2. \A k \in 1..m : place[k] \in kept /\ Rank(place[k]) = k
    BY <1>1
<1>3. taken = [k \in 1..m |-> rows[place[k]]]
    BY DEF Keep
<1> HIDE DEF place, taken, Rank
<1>4. \A k \in 1..m : rows[place[k]] \in DataItems
    <2>1. \A i \in kept : rows[i] \in DataItems
        OBVIOUS
    <2> QED
        BY <1>2, <2>1
<1>5. taken \in Seq(DataItems) /\ Len(taken) = m
    <2> DEFINE r == [k \in 1..m |-> rows[place[k]]]
    <2>1. r \in [1..m -> DataItems]
        BY <1>4
    <2> HIDE DEF r
    <2>2. r \in Seq(DataItems) /\ Len(r) = m
        BY <1>1, <2>1
    <2> QED
        BY <1>3, <2>2 DEF r
<1>6. \A k \in 1..m : taken[k] = rows[place[k]] /\ place[k] \in kept
    BY <1>2, <1>3
<1>7. ASSUME Distinct(rows)
      PROVE  Distinct(taken)
    <2>1. \A i, j \in 1..Len(rows) : rows[i].id = rows[j].id => i = j
        BY <1>7, DistinctMeans
    <2>2. \A h, k \in 1..m : taken[h].id = taken[k].id => h = k
        <3>1. \A k \in 1..m : place[k] \in 1..Len(rows) /\ Rank(place[k]) = k
            BY <1>2
        <3>2. ASSUME NEW h \in 1..m, NEW k \in 1..m, taken[h].id = taken[k].id
              PROVE  h = k
            <4>1. place[h] = place[k]
                BY <1>6, <2>1, <3>1, <3>2
            <4> QED
                BY <3>1, <4>1
        <3> QED
            BY <3>2
    <2> QED
        BY <1>5, <2>2, DistinctMeans
<1> QED
    BY <1>5, <1>6, <1>7 DEF taken

(* A side of a split has the rows on its side of the fraction, none twice. *)
OnSide(name, id, fraction) == (Bucket[id] < fraction) = (name = "valid")

LEMMA SideTakes ==
    ASSUME NEW rows \in Seq(DataItems), NEW fraction, NEW name
    PROVE  /\ Side(name, rows, fraction) \in Seq(DataItems)
           /\ Distinct(rows) => Distinct(Side(name, rows, fraction))
           /\ \A id \in IdsIn(Side(name, rows, fraction)) : OnSide(name, id, fraction)
<1> DEFINE kept == {i \in DOMAIN rows : Held(rows, i, fraction) = (name = "valid")}
<1>1. kept \in SUBSET (1..Len(rows))
    OBVIOUS
<1>2. \A i \in kept : OnSide(name, rows[i].id, fraction)
    BY DEF OnSide, Held
<1>3. Side(name, rows, fraction) = Keep(rows, kept)
    BY DEF Side
<1> HIDE DEF kept
<1>4. /\ Keep(rows, kept) \in Seq(DataItems)
      /\ \A k \in 1..Len(Keep(rows, kept)) : \E i \in kept : Keep(rows, kept)[k] = rows[i]
      /\ Distinct(rows) => Distinct(Keep(rows, kept))
    BY <1>1, KeepTakes
<1>5. DOMAIN Keep(rows, kept) = 1..Len(Keep(rows, kept))
    BY <1>4
<1>6. \A id \in IdsIn(Keep(rows, kept)) : \E i \in kept : id = rows[i].id
    BY <1>4, <1>5 DEF IdsIn
<1> QED
    BY <1>2, <1>3, <1>4, <1>6

(* The builder has no id twice and exports something; what is being split  *)
(* has loaded; and a manifest is of two sides of one file.                 *)
BuilderInv ==
    /\ builder \in [at : {"none", "adding", "exporting"}, items : Seq(DataItems)]
    /\ Distinct(builder.items)
    /\ builder.at = "exporting" => builder.items # <<>> /\ ~exported
    /\ dataset.rows \in Seq(DataItems)
    /\ ExportLoads

PrepareInv ==
    /\ prepare.at # "none" =>
          /\ prepare.rows \in Seq(DataItems) /\ Distinct(prepare.rows)
          /\ prepare.fraction \in Fractions
          /\ Side("valid", prepare.rows, prepare.fraction) # <<>>

ManifestInv ==
    manifest.there =>
        /\ manifest.fraction \in Fractions
        /\ Distinct(manifest.train) /\ Distinct(manifest.valid) /\ manifest.valid # <<>>
        /\ \A id \in IdsIn(manifest.train) : id \in Ids /\ OnSide("train", id, manifest.fraction)
        /\ \A id \in IdsIn(manifest.valid) : id \in Ids /\ OnSide("valid", id, manifest.fraction)

PipelineInv == BuilderInv /\ PrepareInv /\ ManifestInv

LEMMA NoRows == <<>> \in Seq(DataItems) /\ Distinct(<<>>)
<1>1. <<>> \in Seq(DataItems) /\ Len(<<>>) = 0
    OBVIOUS
<1>2. \A i, j \in 1..Len(<<>>) : <<>>[i].id = <<>>[j].id => i = j
    BY <1>1
<1> QED
    BY <1>1, <1>2, DistinctMeans

LEMMA PipelineInitially == DatasetsInit => PipelineInv
BY NoRows
DEF DatasetsInit, PipelineInv, BuilderInv, PrepareInv, ManifestInv, NoBuilder, NoPreparation, NoManifest,
    Empty, File, ExportLoads

(* An item that is fresh has an id of its own.                             *)
LEMMA FreshIsDistinct ==
    ASSUME NEW items \in Seq(DataItems), NEW item \in DataItems, Distinct(items), Fresh(items, item)
    PROVE  Append(items, item) \in Seq(DataItems) /\ Distinct(Append(items, item))
<1> DEFINE more == Append(items, item)
<1>1. /\ more \in Seq(DataItems) /\ Len(more) = Len(items) + 1 /\ Len(items) \in Nat
      /\ more[Len(items) + 1] = item
      /\ \A i \in 1..Len(items) : more[i] = items[i]
    OBVIOUS
<1>2. \A i, j \in 1..Len(items) : items[i].id = items[j].id => i = j
    BY DistinctMeans
<1>3. \A i \in 1..Len(items) : items[i].id # item.id
    BY DEF Fresh, IdsIn
<1> HIDE DEF more
<1>4. ASSUME NEW i \in 1..Len(more), NEW j \in 1..Len(more), more[i].id = more[j].id
      PROVE  i = j
    <2>1. (i \in 1..Len(items) \/ i = Len(items) + 1) /\ (j \in 1..Len(items) \/ j = Len(items) + 1)
        BY <1>1
    <2> QED
        BY <1>1, <1>2, <1>3, <1>4, <2>1
<1>5. Distinct(more)
    BY <1>1, <1>4, DistinctMeans
<1> QED
    BY <1>1, <1>5 DEF more

LEMMA BuilderStep ==
    ASSUME PipelineInv, PipelineNext
    PROVE  BuilderInv'
<1>1. /\ builder \in [at : {"none", "adding", "exporting"}, items : Seq(DataItems)]
      /\ builder.items \in Seq(DataItems) /\ Distinct(builder.items)
    BY DEF PipelineInv, BuilderInv
<1>2. /\ NoBuilder \in [at : {"none", "adding", "exporting"}, items : Seq(DataItems)]
      /\ NoBuilder.at = "none" /\ NoBuilder.items = <<>> /\ Distinct(NoBuilder.items)
    BY NoRows DEF NoBuilder
<1>3. CASE BeginBuild
    <2>1. builder' = [at |-> "adding", items |-> <<>>] /\ UNCHANGED <<dataset, exported>>
        BY <1>3 DEF BeginBuild, NoBuilder
    <2> QED
        BY <2>1, NoRows DEF PipelineInv, BuilderInv, ExportLoads
<1>4. ASSUME NEW item \in DataItems, Add(item)
      PROVE  BuilderInv'
    <2>1. CASE Fresh(builder.items, item)
        <3>1. /\ builder' = [builder EXCEPT !.items = Append(builder.items, item)]
              /\ builder.at = "adding" /\ UNCHANGED <<dataset, exported>>
            BY <1>4, <2>1 DEF Add
        <3>2. /\ Append(builder.items, item) \in Seq(DataItems)
              /\ Distinct(Append(builder.items, item))
            BY <1>1, <2>1, FreshIsDistinct
        <3>3. /\ builder' \in [at : {"none", "adding", "exporting"}, items : Seq(DataItems)]
              /\ builder'.at = "adding" /\ builder'.items = Append(builder.items, item)
            BY <1>1, <3>1, <3>2
        <3> QED
            BY <3>1, <3>2, <3>3 DEF PipelineInv, BuilderInv, ExportLoads
    <2>2. CASE ~Fresh(builder.items, item)
        <3>1. builder' = NoBuilder /\ UNCHANGED <<dataset, exported>>
            BY <1>4, <2>2 DEF Add
        <3> QED
            BY <1>2, <3>1 DEF PipelineInv, BuilderInv, ExportLoads
    <2> QED
        BY <2>1, <2>2
<1>5. CASE BeginExport
    <2>1. /\ builder.items # <<>> /\ builder' = [builder EXCEPT !.at = "exporting"]
          /\ dataset' = Empty /\ exported' = FALSE
        BY <1>5 DEF BeginExport
    <2>2. /\ builder' \in [at : {"none", "adding", "exporting"}, items : Seq(DataItems)]
          /\ builder'.items = builder.items
        BY <1>1, <2>1
    <2>3. dataset'.rows \in Seq(DataItems)
        BY <2>1, NoRows DEF Empty, File
    <2> QED
        BY <1>1, <2>1, <2>2, <2>3 DEF BuilderInv, ExportLoads
<1>6. CASE EndExport
    <2>1. /\ builder.at = "exporting" /\ builder.items # <<>>
          /\ dataset' = File(builder.items, FALSE) /\ builder' = NoBuilder
        BY <1>6 DEF EndExport, PipelineInv, BuilderInv
    <2>2. dataset'.rows = builder.items /\ dataset'.torn = FALSE
        BY <2>1 DEF File
    <2>3. Loads(dataset)'
        BY <1>1, <2>1, <2>2 DEF Loads, Distinct, IdsIn
    <2> QED
        BY <1>1, <1>2, <2>1, <2>2, <2>3 DEF BuilderInv, ExportLoads
<1>7. CASE BuilderDies
    <2>1. builder' = NoBuilder /\ exported' = exported
        BY <1>7 DEF BuilderDies
    <2>2. CASE builder.at = "exporting"
        <3>1. PICK n \in 0..Len(builder.items), torn \in BOOLEAN :
                  dataset' = File(SubSeq(builder.items, 1, n), torn)
            BY <1>7, <2>2 DEF BuilderDies, Partly
        <3>2. SubSeq(builder.items, 1, n) \in Seq(DataItems)
            BY <1>1
        <3>3. dataset'.rows \in Seq(DataItems)
            BY <3>1, <3>2 DEF File
        <3> QED
            BY <1>2, <2>1, <2>2, <3>3 DEF PipelineInv, BuilderInv, ExportLoads
    <2>3. CASE builder.at # "exporting"
        <3>1. dataset' = dataset
            BY <1>7, <2>3 DEF BuilderDies
        <3> QED
            BY <1>2, <2>1, <3>1 DEF PipelineInv, BuilderInv, ExportLoads
    <2> QED
        BY <2>2, <2>3
<1>8. ASSUME UNCHANGED <<builder, dataset, exported>>
      PROVE  BuilderInv'
    BY <1>8 DEF PipelineInv, BuilderInv, ExportLoads
<1>9. CASE \/ \E fraction \in Fractions : BeginPrepare(fraction)
           \/ \E name \in {"train", "valid"} : WriteSide(name)
           \/ WriteManifest \/ PreparationDies
    BY <1>8, <1>9 DEF BeginPrepare, WriteSide, WriteManifest, PreparationDies
<1> QED
    BY <1>3, <1>4, <1>5, <1>6, <1>7, <1>9 DEF PipelineNext

LEMMA PrepareStep ==
    ASSUME PipelineInv, PipelineNext
    PROVE  PrepareInv'
<1>1. ASSUME NEW fraction \in Fractions, BeginPrepare(fraction)
      PROVE  PrepareInv'
    <2>1. prepare' = [at |-> "train", rows |-> dataset.rows, fraction |-> fraction]
          /\ Loads(dataset) /\ Side("valid", dataset.rows, fraction) # <<>>
        BY <1>1 DEF BeginPrepare
    <2>2. prepare'.rows = dataset.rows /\ prepare'.fraction = fraction
        BY <2>1
    <2>3. dataset.rows \in Seq(DataItems) /\ Distinct(dataset.rows)
        BY <2>1 DEF Loads, PipelineInv, BuilderInv
    <2> QED
        BY <2>1, <2>2, <2>3 DEF PrepareInv
<1>2. ASSUME NEW name \in {"train", "valid"}, WriteSide(name)
      PROVE  PrepareInv'
    <2>1. prepare.at # "none" /\ prepare' = [prepare EXCEPT !.at = IF name = "train" THEN "valid" ELSE "manifest"]
        BY <1>2 DEF WriteSide
    <2>2. prepare'.rows = prepare.rows /\ prepare'.fraction = prepare.fraction
        BY <2>1
    <2> QED
        BY <2>1, <2>2 DEF PipelineInv, PrepareInv
<1>3. CASE prepare' = NoPreparation
    BY <1>3 DEF NoPreparation, PrepareInv
<1>4. CASE prepare' = prepare
    BY <1>4 DEF PipelineInv, PrepareInv
<1> QED
    BY <1>1, <1>2, <1>3, <1>4
    DEF PipelineNext, BeginBuild, Add, BeginExport, EndExport, BuilderDies, WriteManifest, PreparationDies

(* A manifest is written of what is prepared, stays, or is lost.           *)
LEMMA ManifestSteps ==
    ASSUME PipelineInv, PipelineNext
    PROVE  \/ manifest' = manifest
           \/ ~manifest'.there
           \/ /\ prepare.at # "none"
              /\ manifest'.fraction = prepare.fraction
              /\ manifest'.train = Side("train", prepare.rows, prepare.fraction)
              /\ manifest'.valid = Side("valid", prepare.rows, prepare.fraction)
<1>1. CASE WriteManifest
    <2>1. prepare.at # "none" /\ manifest' = [there |-> TRUE, fraction |-> prepare.fraction,
                    train |-> Side("train", prepare.rows, prepare.fraction),
                    valid |-> Side("valid", prepare.rows, prepare.fraction)]
        BY <1>1 DEF WriteManifest
    <2> QED
        BY <2>1
<1>2. CASE PreparationDies
    BY <1>2 DEF PreparationDies, NoManifest
<1> QED
    BY <1>1, <1>2
    DEF PipelineNext, BeginBuild, Add, BeginExport, EndExport, BuilderDies, BeginPrepare, WriteSide

LEMMA ManifestStep ==
    ASSUME PipelineInv, PipelineNext
    PROVE  ManifestInv'
<1>1. CASE manifest' = manifest
    BY <1>1 DEF PipelineInv, ManifestInv
<1>2. CASE ~manifest'.there
    BY <1>2 DEF ManifestInv
<1>3. CASE /\ prepare.at # "none"
           /\ manifest'.fraction = prepare.fraction
           /\ manifest'.train = Side("train", prepare.rows, prepare.fraction)
           /\ manifest'.valid = Side("valid", prepare.rows, prepare.fraction)
    <2>1. /\ prepare.rows \in Seq(DataItems) /\ Distinct(prepare.rows)
          /\ prepare.fraction \in Fractions
          /\ Side("valid", prepare.rows, prepare.fraction) # <<>>
        BY <1>3 DEF PipelineInv, PrepareInv
    <2>2. ASSUME NEW name
          PROVE  /\ Distinct(Side(name, prepare.rows, prepare.fraction))
                 /\ \A id \in IdsIn(Side(name, prepare.rows, prepare.fraction)) :
                        id \in Ids /\ OnSide(name, id, prepare.fraction)
        <3>1. /\ Side(name, prepare.rows, prepare.fraction) \in Seq(DataItems)
              /\ Distinct(Side(name, prepare.rows, prepare.fraction))
              /\ \A id \in IdsIn(Side(name, prepare.rows, prepare.fraction)) :
                    OnSide(name, id, prepare.fraction)
            BY <2>1, SideTakes
        <3>2. ASSUME NEW rows \in Seq(DataItems), NEW i \in DOMAIN rows
              PROVE  rows[i].id \in Ids
            <4>1. rows[i] \in DataItems
                OBVIOUS
            <4> QED
                BY <4>1 DEF DataItems
        <3>3. \A rows \in Seq(DataItems) : \A id \in IdsIn(rows) : id \in Ids
            BY <3>2 DEF IdsIn
        <3> QED
            BY <3>1, <3>3
    <2>3. /\ Distinct(manifest'.train)
          /\ \A id \in IdsIn(manifest'.train) : id \in Ids /\ OnSide("train", id, manifest'.fraction)
        BY <1>3, <2>2, Zenon
    <2>4. /\ Distinct(manifest'.valid)
          /\ \A id \in IdsIn(manifest'.valid) : id \in Ids /\ OnSide("valid", id, manifest'.fraction)
        BY <1>3, <2>2, Zenon
    <2>5. manifest'.valid # <<>> /\ manifest'.fraction \in Fractions
        BY <1>3, <2>1
    <2> QED
        BY <2>3, <2>4, <2>5 DEF ManifestInv, Distinct, IdsIn, OnSide
<1> QED
    BY <1>1, <1>2, <1>3, ManifestSteps

LEMMA PipelineStep == PipelineInv /\ [DatasetsNext]_datasetsVars => PipelineInv'
<1> SUFFICES ASSUME PipelineInv, [DatasetsNext]_datasetsVars PROVE PipelineInv'
    OBVIOUS
<1>1. CASE PipelineNext
    BY <1>1, BuilderStep, PrepareStep, ManifestStep DEF PipelineInv
<1>2. CASE UNCHANGED pipelineVars
    BY <1>2 DEF pipelineVars, PipelineInv, BuilderInv, PrepareInv, ManifestInv, ExportLoads
<1>3. PipelineNext \/ UNCHANGED pipelineVars
    <2>1. ASSUME NEW tool, NEW xs, NEW ys, NEW there, Examine(tool, xs, ys, there)
          PROVE  UNCHANGED pipelineVars
        BY <2>1 DEF Examine
    <2>2. ASSUME NEW roles, NEW limit, Collate(roles, limit)
          PROVE  UNCHANGED pipelineVars
        BY <2>2 DEF Collate
    <2>3. Examines => UNCHANGED pipelineVars
        <3>1. Examines => \E tool, xs, ys, there : Examine(tool, xs, ys, there)
            BY DEF Examines
        <3> QED
            BY <2>1, <3>1, Zenon
    <2> QED
        BY <2>2, <2>3, Zenon DEF DatasetsNext, datasetsVars
<1> QED
    BY <1>1, <1>2, <1>3

LEMMA PipelineInvariant == DatasetsSpec => []PipelineInv
<1> QED
    BY PipelineInitially, PipelineStep, PTL DEF DatasetsSpec

(* A larger fraction has more on the side of the validation.               *)
LEMMA SidesMove ==
    ASSUME NEW id \in Ids, NEW f \in Fractions, NEW g \in Fractions
    PROVE  /\ f <= g /\ OnSide("valid", id, f) => ~OnSide("train", id, g)
           /\ g <= f /\ OnSide("train", id, f) => ~OnSide("valid", id, g)
<1>1. Bucket[id] \in Int /\ f \in Int /\ g \in Int
    BY DatasetsAssumption
<1> QED
    BY <1>1 DEF OnSide

(* From one manifest to the next no item changes sides but for the         *)
(* fraction, whatever is built, exported, torn or prepared in between      *)
(* (mlx_data.py:29-38).                                                    *)
THEOREM SplitStaysStable == DatasetsSpec => SplitIsStable
<1>1. ASSUME ManifestInv, ManifestInv', manifest.there, manifest'.there
      PROVE  /\ manifest'.fraction >= manifest.fraction =>
                    IdsIn(manifest.valid) \cap IdsIn(manifest'.train) = {}
             /\ manifest'.fraction <= manifest.fraction =>
                    IdsIn(manifest.train) \cap IdsIn(manifest'.valid) = {}
    <2>1. /\ manifest.fraction \in Fractions /\ manifest'.fraction \in Fractions
          /\ \A id \in IdsIn(manifest.train) : id \in Ids /\ OnSide("train", id, manifest.fraction)
          /\ \A id \in IdsIn(manifest.valid) : id \in Ids /\ OnSide("valid", id, manifest.fraction)
          /\ \A id \in IdsIn(manifest'.train) : OnSide("train", id, manifest'.fraction)
          /\ \A id \in IdsIn(manifest'.valid) : OnSide("valid", id, manifest'.fraction)
        BY <1>1 DEF ManifestInv, IdsIn, OnSide
    <2>2. manifest.fraction \in Int /\ manifest'.fraction \in Int
        <3>1. \A f \in Fractions : f \in Int
            BY DatasetsAssumption
        <3> QED
            BY <2>1, <3>1
    <2>3. manifest'.fraction >= manifest.fraction => manifest.fraction <= manifest'.fraction
        BY <2>2
    <2> QED
        BY <2>1, <2>3, SidesMove
<1>2. PipelineInv /\ PipelineInv' => [(manifest.there /\ manifest'.there) =>
          /\ manifest'.fraction >= manifest.fraction =>
                IdsIn(manifest.valid) \cap IdsIn(manifest'.train) = {}
          /\ manifest'.fraction <= manifest.fraction =>
                IdsIn(manifest.train) \cap IdsIn(manifest'.valid) = {}]_manifest
    BY <1>1 DEF PipelineInv
<1> QED
    BY <1>2, PipelineInvariant, PTL DEF SplitIsStable

(* An export that ended loads, and a manifest is of two sides without a    *)
(* common item, none twice, and something to validate with                 *)
(* (builder_v2.py:91-132, mlx_data.py:56-85).                              *)
THEOREM SplitStaysHonest == DatasetsSpec => [](ExportLoads /\ HeldOutStaysOut)
<1>1. PipelineInv => ExportLoads /\ HeldOutStaysOut
    <2> SUFFICES ASSUME PipelineInv, manifest.there
                 PROVE  /\ IdsIn(manifest.train) \cap IdsIn(manifest.valid) = {}
                        /\ Distinct(manifest.train) /\ Distinct(manifest.valid)
                        /\ manifest.valid # <<>>
        BY DEF PipelineInv, BuilderInv, HeldOutStaysOut
    <2>1. \A id \in IdsIn(manifest.train) : id \notin IdsIn(manifest.valid)
        BY DEF PipelineInv, ManifestInv, OnSide
    <2> QED
        BY <2>1 DEF PipelineInv, ManifestInv
<1> QED
    BY <1>1, PipelineInvariant, PTL

LEMMA SimilarEither ==
    ASSUME NEW a, NEW b
    PROVE  Similar(a, b) = Similar(b, a)
<1>1. Grams(a) \cap Grams(b) = Grams(b) \cap Grams(a) /\ Grams(a) \cup Grams(b) = Grams(b) \cup Grams(a)
    OBVIOUS
<1> QED
    BY <1>1, Zenon DEF Similar

(* A pair is reported either way round.                                    *)
LEMMA MatchesEither ==
    ASSUME NEW tool, NEW xs, NEW ys, Matches(tool, xs, ys) # {}
    PROVE  Matches(tool, ys, xs) # {}
<1> DEFINE Alike(a, b) == (Normal(a) # <<>> /\ Normal(a) = Normal(b)) \/ Similar(a, b)
<1>1. PICK pair \in (DOMAIN xs) \X (DOMAIN ys) :
          Alike(RecordText(tool, xs[pair[1]]), RecordText(tool, ys[pair[2]]))
    BY DEF Matches
<1>2. PICK i \in DOMAIN xs, j \in DOMAIN ys : Alike(RecordText(tool, xs[i]), RecordText(tool, ys[j]))
    BY <1>1
<1>3. Alike(RecordText(tool, ys[j]), RecordText(tool, xs[i]))
    BY <1>2, SimilarEither, Zenon
<1>4. <<j, i>> \in (DOMAIN ys) \X (DOMAIN xs) /\ <<j, i>>[1] = j /\ <<j, i>>[2] = i
    OBVIOUS
<1>5. <<j, i>> \in Matches(tool, ys, xs)
    BY <1>3, <1>4, Zenon DEF Matches
<1> QED
    BY <1>5

(* The words of a text are as many as the places that are no punctuation.  *)
LEMMA WordsShape ==
    ASSUME NEW W, NEW text \in Seq(W)
    PROVE  /\ \E n \in Nat : DOMAIN WordsOf(text) = 1..n
           /\ Len(WordsOf(text)) \in Nat /\ DOMAIN WordsOf(text) = 1..Len(WordsOf(text))
           /\ Normal(text) = <<>> => \A i \in DOMAIN text : text[i] = "."
<1> DEFINE kept == {i \in DOMAIN text : text[i] # "."}
           m == Cardinality(kept)
<1>1. Len(text) \in Nat /\ kept \in SUBSET (1..Len(text))
    OBVIOUS
<1>2. IsFiniteSet(kept) /\ m \in Nat
    BY <1>1, RankIsOnto
<1>3. DOMAIN WordsOf(text) = 1..m /\ Len(WordsOf(text)) = m
    BY <1>2 DEF WordsOf, Keep
<1>4. Normal(text) = <<>> => kept = {}
    <2>1. DOMAIN Normal(text) = 1..m
        BY <1>3 DEF Normal
    <2>2. Normal(text) = <<>> => m = 0
        <3>1. DOMAIN <<>> = {} /\ (m # 0 => 1 \in 1..m)
            BY <1>2
        <3> HIDE DEF m
        <3> QED
            BY <2>1, <3>1
    <2> QED
        BY <1>2, <2>2, FS_EmptySet
<1> QED
    BY <1>2, <1>3, <1>4

LEMMA SameWordsNormal ==
    ASSUME NEW W, NEW a \in Seq(W), NEW b \in Seq(W), SameWords(a, b)
    PROVE  Normal(a) = Normal(b)
<1>1. DOMAIN WordsOf(a) = DOMAIN WordsOf(b)
    BY WordsShape DEF SameWords
<1> QED
    BY <1>1 DEF SameWords, Normal

(* The rows of a comparison: the question of each has a word.              *)
Strings == {"a", "A", "b", "c", "d", ".", "x", "y", "be", "exact"}

ExamRow(row) ==
    /\ row.question \in Questions
    /\ row.context \in Systems /\ row.choices \in ChoiceLists /\ row.later \in {<<>>, <<"a", "b">>}
    /\ row.kind # "training" => row.later = <<>>

ExamInv ==
    exam = NoExam \/ /\ \A i \in DOMAIN exam.as : ExamRow(exam.as[i])
                     /\ \A i \in DOMAIN exam.bs : ExamRow(exam.bs[i]) /\ exam.bs[i].kind = "benchmark"
                     /\ exam.there /\ exam.exit = 0 => Matches(exam.tool, exam.as, exam.bs) = {}

LEMMA ExamInitially == DatasetsInit => ExamInv
BY DEF DatasetsInit, ExamInv

LEMMA ExamStep == ExamInv /\ [DatasetsNext]_datasetsVars => ExamInv'
<1> SUFFICES ASSUME ExamInv, [DatasetsNext]_datasetsVars
             PROVE  ExamInv'
    OBVIOUS
<1>1. CASE UNCHANGED exam
    BY <1>1 DEF ExamInv
<1>2. CASE Examines
    <2>1. PICK tool \in {"validate_dataset", "check_contamination"}, there \in BOOLEAN,
               b \in BenchmarkRows, a \in TrainingRows \cup BenchmarkRows,
               more \in {BenchmarkRow(<<"d", "a">>, <<>>, <<>>), BenchmarkRow(<<"a">>, <<>>, <<"x", "y">>)} :
               Examine(tool, <<a>>, <<b, more>>, there)
        BY <1>2, Zenon DEF Examines
    <2>2. /\ exam'.as = <<a>> /\ exam'.bs = <<b, more>> /\ exam'.there = there /\ exam'.tool = tool
          /\ exam'.exit = IF ~there THEN IF tool = "validate_dataset" THEN 0 ELSE 2
                          ELSE IF Matches(tool, <<a>>, <<b, more>>) = {} THEN 0 ELSE 1
        BY <2>1 DEF Examine
    <2>b. \A row \in BenchmarkRows : ExamRow(row) /\ row.kind = "benchmark"
        BY DEF ExamRow, BenchmarkRow, BenchmarkRows, Contexts, Systems
    <2>t. \A row \in TrainingRows : ExamRow(row)
        <3>1. <<>> \in ChoiceLists
            BY DEF ChoiceLists
        <3> QED
            BY <3>1 DEF ExamRow, TrainingRow, TrainingRows
    <2>3. ExamRow(b) /\ b.kind = "benchmark" /\ ExamRow(a)
        BY <2>b, <2>t
    <2>4. ExamRow(more) /\ more.kind = "benchmark"
        <3>1. /\ <<"d", "a">> \in Questions /\ <<"a">> \in Questions /\ <<>> \in Contexts
              /\ <<>> \in ChoiceLists /\ <<"x", "y">> \in ChoiceLists
            BY DEF Questions, Contexts, ChoiceLists
        <3>2. \A q \in Questions, x \in Contexts, c \in ChoiceLists : BenchmarkRow(q, x, c) \in BenchmarkRows
            BY DEF BenchmarkRows
        <3>3. /\ BenchmarkRow(<<"d", "a">>, <<>>, <<>>) \in BenchmarkRows
              /\ BenchmarkRow(<<"a">>, <<>>, <<"x", "y">>) \in BenchmarkRows
            BY <3>1, <3>2, Zenon
        <3>4. more \in BenchmarkRows
            BY <3>3, Zenon
        <3> QED
            BY <2>b, <3>4
    <2>5. exam'.there /\ exam'.exit = 0 => Matches(exam'.tool, exam'.as, exam'.bs) = {}
        BY <2>2
    <2>6. \A i \in DOMAIN exam'.as : ExamRow(exam'.as[i])
        BY <2>2, <2>3
    <2>7. \A i \in DOMAIN exam'.bs : ExamRow(exam'.bs[i]) /\ exam'.bs[i].kind = "benchmark"
        <3>1. \A i \in DOMAIN <<b, more>> : <<b, more>>[i] \in {b, more}
            OBVIOUS
        <3> QED
            BY <2>2, <2>3, <2>4, <3>1
    <2> QED
        BY <2>5, <2>6, <2>7 DEF ExamInv
<1>3. PipelineNext => UNCHANGED exam
    BY DEF PipelineNext
<1>4. ASSUME NEW roles, NEW limit, Collate(roles, limit)
      PROVE  UNCHANGED exam
    BY <1>4 DEF Collate
<1>5. UNCHANGED datasetsVars => UNCHANGED exam
    BY DEF datasetsVars
<1> QED
    BY <1>1, <1>2, <1>3, <1>4, <1>5, Zenon DEF DatasetsNext

(* What a row asks has a word, and a comparison that looks at all of it    *)
(* compares that.                                                          *)
LEMMA TextsHaveWords ==
    ASSUME NEW row, ExamRow(row)
    PROVE  /\ Asks(row) \in Seq(Strings) /\ \E i \in DOMAIN Asks(row) : Asks(row)[i] # "."
           /\ \A tool : row.later = <<>> /\ ~(tool = "check_contamination" /\ row.kind = "training") =>
                 RecordText(tool, row) = Asks(row)
<1>1. \A q \in Questions : q \in Seq(Strings) /\ Len(q) > 0 /\ q[1] # "."
    <2>1. /\ <<"a">> \in Seq(Strings) /\ <<"a", "b">> \in Seq(Strings) /\ <<"A", "b">> \in Seq(Strings)
          /\ <<"d", "a">> \in Seq(Strings)
        BY DEF Strings
    <2>2. /\ <<"a", "b", "c">> \in Seq(Strings) /\ <<"a", "b", "d">> \in Seq(Strings)
        BY DEF Strings
    <2>3. <<"A", ".", "b", "c">> \in Seq(Strings)
        BY DEF Strings
    <2>4. \A q \in Questions : q \in Seq(Strings)
        BY <2>1, <2>2, <2>3, Zenon DEF Questions
    <2>5. \A q \in Questions : Len(q) > 0 /\ q[1] # "."
        BY DEF Questions
    <2> QED
        BY <2>4, <2>5
<1>2. row.context \in Seq(Strings) /\ row.choices \in Seq(Strings) /\ row.later \in Seq(Strings)
    <2>1. /\ <<>> \in Seq(Strings) /\ <<"be">> \in Seq(Strings) /\ <<"be", "exact">> \in Seq(Strings)
          /\ <<"x", "y">> \in Seq(Strings) /\ <<"a", "b">> \in Seq(Strings)
        BY DEF Strings
    <2> QED
        BY <2>1, Zenon DEF ExamRow, Systems, ChoiceLists
<1>3. row.question \in Seq(Strings) /\ Len(row.question) > 0 /\ row.question[1] # "."
    BY <1>1 DEF ExamRow
<1> DEFINE text == row.question \o row.context \o row.choices
<1> HIDE DEF Strings
<1>4. ASSUME NEW x \in Seq(Strings), NEW y \in Seq(Strings), Len(x) > 0
      PROVE  x \o y \in Seq(Strings) /\ Len(x \o y) > 0 /\ (x \o y)[1] = x[1]
    BY <1>4
<1>5. text \in Seq(Strings) /\ Len(text) > 0 /\ text[1] = row.question[1]
    <2>1. row.question \o row.context \in Seq(Strings) /\ Len(row.question \o row.context) > 0
          /\ (row.question \o row.context)[1] = row.question[1]
        BY <1>2, <1>3, <1>4
    <2> QED
        BY <1>2, <1>4, <2>1
<1>6. Asks(row) = text \o row.later
    BY DEF Asks
<1>7. \A tool : ~(tool = "check_contamination" /\ row.kind = "training") => RecordText(tool, row) = text
    BY DEF RecordText
<1> HIDE DEF text
<1>8. Asks(row) \in Seq(Strings) /\ Len(Asks(row)) > 0 /\ Asks(row)[1] = row.question[1]
    BY <1>2, <1>4, <1>5, <1>6
<1>9. row.later = <<>> => Asks(row) = text
    <2>1. text \o <<>> = text
        BY <1>5
    <2> QED
        BY <1>6, <2>1
<1>10. 1 \in DOMAIN Asks(row)
    BY <1>8
<1> QED
    BY <1>3, <1>7, <1>8, <1>9, <1>10

(* What a comparison passed asks nothing a benchmark record asks, but for  *)
(* rows of a training file under check_contamination and later questions,  *)
(* which are not looked at; and the verdict is the same of two files in    *)
(* either order: for every length of an n-gram and every threshold         *)
(* (contamination.py:190-222).                                             *)
THEOREM CopiesStayCaught == DatasetsSpec => [](CopiesAreCaught /\ GateIsSymmetric)
<1>1. ExamInv => CopiesAreCaught
    <2> SUFFICES ASSUME ExamInv, exam.there, exam.exit = 0, NEW i \in DOMAIN exam.as, NEW j \in DOMAIN exam.bs,
                        SameWords(Asks(exam.as[i]), Asks(exam.bs[j])),
                        exam.as[i].kind = "training" => exam.tool # "check_contamination" /\ exam.as[i].later = <<>>
                 PROVE  FALSE
        BY DEF CopiesAreCaught
    <2> DEFINE a == RecordText(exam.tool, exam.as[i])
               b == RecordText(exam.tool, exam.bs[j])
    <2>1. /\ ExamRow(exam.as[i]) /\ ExamRow(exam.bs[j]) /\ exam.bs[j].kind = "benchmark"
          /\ Matches(exam.tool, exam.as, exam.bs) = {}
        BY DEF ExamInv, NoExam
    <2>a. exam.as[i].later = <<>> /\ exam.bs[j].later = <<>>
        BY <2>1 DEF ExamRow
    <2>b. a = Asks(exam.as[i]) /\ b = Asks(exam.bs[j])
        BY <2>1, <2>a, TextsHaveWords
    <2>2. a \in Seq(Strings) /\ b \in Seq(Strings) /\ \E k \in DOMAIN a : a[k] # "."
        BY <2>1, <2>b, TextsHaveWords
    <2>3. Normal(a) = Normal(b) /\ Normal(a) # <<>>
        <3> HIDE DEF a, b
        <3> QED
            BY <2>b, <2>2, SameWordsNormal, WordsShape
    <2>4. <<i, j>> \in (DOMAIN exam.as) \X (DOMAIN exam.bs) /\ <<i, j>>[1] = i /\ <<i, j>>[2] = j
        OBVIOUS
    <2>5. <<i, j>> \in Matches(exam.tool, exam.as, exam.bs)
        BY <2>3, <2>4, Zenon DEF Matches
    <2> QED
        BY <2>1, <2>5
<1>2. GateIsSymmetric
    BY MatchesEither, Zenon DEF GateIsSymmetric
<1> QED
    BY <1>1, <1>2, ExamInitially, ExamStep, PTL DEF DatasetsSpec

(* The mask of a conversation.  Its text is put together turn by turn, by  *)
(* recursion over the messages.                                            *)
TextSoFar(roles) ==
    CHOOSE f : f = [i \in 0..Len(roles) |-> IF i = 0 THEN <<>> ELSE f[i - 1] \o TurnText(roles, i)]

LEMMA TextIs ==
    ASSUME NEW roles
    PROVE  ChatText(roles) = TextSoFar(roles)[Len(roles)]
BY DEF ChatText, TextSoFar

RoleNames == {"system", "user", "assistant"}

LabelTokens == [kind : {"open", "model", "user", "text", "close"}, at : Nat]

(* Whoever answers is announced: the content of an assistant's message     *)
(* comes right after the marker of a turn of the model.                    *)
Announced(roles, text) ==
    \A k \in 1..Len(text) :
       text[k].kind = "text" /\ roles[text[k].at] = "assistant" =>
          k >= 3 /\ text[k - 2] = Tok("open", 0) /\ text[k - 1] = Tok("model", 0)

(* A mark of the model stands between the opening of its turn and the      *)
(* content of an answer, and nothing is said of a message after a place.   *)
Marked(roles, text, last) ==
    \A k \in 1..Len(text) :
       /\ text[k].kind = "model" =>
             /\ k - 1 \in 1..Len(text) /\ text[k - 1] = Tok("open", 0) /\ text[k] = Tok("model", 0)
             /\ k + 1 \in 1..Len(text) /\ text[k + 1].kind = "text" /\ roles[text[k + 1].at] = "assistant"
       /\ text[k].kind = "text" => text[k].at \in 1..last

Holds(text, token) == \E k \in 1..Len(text) : text[k] = token

LEMMA Joined ==
    ASSUME NEW roles, NEW a \in Seq(LabelTokens), NEW b \in Seq(LabelTokens),
           NEW early \in Nat, NEW last \in Nat, early <= last,
           Announced(roles, a), Announced(roles, b), Marked(roles, a, early), Marked(roles, b, last)
    PROVE  /\ a \o b \in Seq(LabelTokens)
           /\ Announced(roles, a \o b) /\ Marked(roles, a \o b, last)
           /\ \A token : Holds(a, token) \/ Holds(b, token) => Holds(a \o b, token)
<1> DEFINE m == Len(a)
           n == Len(b)
           c == a \o b
<1>1. m \in Nat /\ n \in Nat
    BY EmptySeq
<1>2. /\ c \in Seq(LabelTokens) /\ Len(c) = m + n
      /\ \A i \in 1..m + n : c[i] = IF i <= m THEN a[i] ELSE b[i - m]
    BY ConcatProperties
<1> HIDE DEF m, n, c
<1>3. \A i \in 1..m : i \in 1..m + n /\ c[i] = a[i]
    BY <1>1, <1>2
<1>4. \A i \in 1..n : m + i \in 1..m + n /\ c[m + i] = b[i]
    <2> TAKE i \in 1..n
    <2>1. m + i \in 1..m + n /\ ~(m + i <= m) /\ (m + i) - m = i
        BY <1>1
    <2> QED
        BY <1>2, <2>1
<1>5. ASSUME NEW k \in 1..m + n, c[k].kind = "text", roles[c[k].at] = "assistant"
      PROVE  k >= 3 /\ c[k - 2] = Tok("open", 0) /\ c[k - 1] = Tok("model", 0)
    <2>1. CASE k \in 1..m
        <3>1. a[k].kind = "text" /\ roles[a[k].at] = "assistant"
            BY <1>3, <1>5, <2>1
        <3>2. k >= 3 /\ a[k - 2] = Tok("open", 0) /\ a[k - 1] = Tok("model", 0)
            BY <2>1, <3>1 DEF Announced, m
        <3>3. k - 2 \in 1..m /\ k - 1 \in 1..m
            BY <1>1, <2>1, <3>2
        <3> QED
            BY <1>3, <3>2, <3>3
    <2>2. CASE k > m
        <3> DEFINE i == k - m
        <3>1. i \in 1..n /\ m + i = k
            BY <1>1, <2>2
        <3>2. c[k] = b[i]
            BY <1>4, <3>1
        <3> HIDE DEF i
        <3>3. b[i].kind = "text" /\ roles[b[i].at] = "assistant"
            BY <1>5, <3>2
        <3>4. i >= 3 /\ b[i - 2] = Tok("open", 0) /\ b[i - 1] = Tok("model", 0)
            BY <3>1, <3>3 DEF Announced, n
        <3>5. i - 2 \in 1..n /\ i - 1 \in 1..n
            BY <1>1, <3>1, <3>4
        <3>6. c[m + (i - 2)] = b[i - 2] /\ c[m + (i - 1)] = b[i - 1]
            BY <1>4, <3>5
        <3>7. m + (i - 2) = k - 2 /\ m + (i - 1) = k - 1 /\ k >= 3
            BY <1>1, <3>1, <3>4
        <3> QED
            BY <3>4, <3>6, <3>7
    <2> QED
        BY <1>1, <2>1, <2>2
<1>6. Announced(roles, c)
    BY <1>2, <1>5 DEF Announced
<1>7. \A token : Holds(a, token) \/ Holds(b, token) => Holds(c, token)
    BY <1>2, <1>3, <1>4 DEF Holds, m, n
<1>8. ASSUME NEW k \in 1..m + n
      PROVE  /\ c[k].kind = "model" =>
                   /\ k - 1 \in 1..m + n /\ c[k - 1] = Tok("open", 0) /\ c[k] = Tok("model", 0)
                   /\ k + 1 \in 1..m + n /\ c[k + 1].kind = "text" /\ roles[c[k + 1].at] = "assistant"
             /\ c[k].kind = "text" => c[k].at \in 1..last
    <2>1. CASE k \in 1..m
        <3>1. c[k] = a[k]
            BY <1>3, <2>1
        <3>2. a[k].kind = "text" => a[k].at \in 1..early
            BY <2>1 DEF Marked, m
        <3>3. ASSUME a[k].kind = "model"
              PROVE  /\ k - 1 \in 1..m /\ a[k - 1] = Tok("open", 0) /\ a[k] = Tok("model", 0)
                     /\ k + 1 \in 1..m /\ a[k + 1].kind = "text" /\ roles[a[k + 1].at] = "assistant"
            BY <2>1, <3>3 DEF Marked, m
        <3> QED
            BY <1>3, <3>1, <3>2, <3>3
    <2>2. CASE k > m
        <3> DEFINE i == k - m
        <3>1. i \in 1..n /\ m + i = k
            BY <1>1, <2>2
        <3>2. c[k] = b[i]
            BY <1>4, <3>1
        <3> HIDE DEF i
        <3>3. b[i].kind = "text" => b[i].at \in 1..last
            BY <3>1 DEF Marked, n
        <3>4. ASSUME b[i].kind = "model"
              PROVE  /\ i - 1 \in 1..n /\ b[i - 1] = Tok("open", 0) /\ b[i] = Tok("model", 0)
                     /\ i + 1 \in 1..n /\ b[i + 1].kind = "text" /\ roles[b[i + 1].at] = "assistant"
            BY <3>1, <3>4 DEF Marked, n
        <3>5. b[i].kind = "model" => c[m + (i - 1)] = b[i - 1] /\ c[m + (i + 1)] = b[i + 1]
            BY <1>4, <3>4
        <3>6. m + (i - 1) = k - 1 /\ m + (i + 1) = k + 1
            BY <1>1, <3>1
        <3>7. b[i].kind = "model" => k - 1 \in 1..m + n /\ k + 1 \in 1..m + n
            BY <1>1, <3>1, <3>4
        <3> QED
            BY <3>2, <3>3, <3>4, <3>5, <3>6, <3>7
    <2> QED
        BY <1>1, <2>1, <2>2
<1>9. Marked(roles, c, last)
    BY <1>2, <1>8 DEF Marked
<1> QED
    BY <1>2, <1>6, <1>7, <1>9 DEF c

(* The system message in force is one.                                     *)
LEMMA SystemInForce ==
    ASSUME NEW roles, NEW i \in Nat, SystemAt(roles, i) # {}
    PROVE  LET j == CHOOSE j \in SystemAt(roles, i) : \A k \in SystemAt(roles, i) : k <= j
           IN  j \in Nat /\ roles[j] = "system" /\ j \in SystemAt(roles, i)
<1> DEFINE S == SystemAt(roles, i)
           T == {i - s : s \in S}
<1>1. S \subseteq 1..(i - 1) /\ \A s \in S : roles[s] = "system"
    BY DEF SystemAt
<1> HIDE DEF S
<1>2. \A s \in S : s \in Nat /\ i - s \in Nat
    <2> TAKE s \in S
    <2>1. s \in 1..(i - 1)
        BY <1>1
    <2> QED
        BY <2>1
<1>3. T \in SUBSET Nat /\ T # {}
    BY <1>2 DEF S
<1>4. PICK d \in T : \A t \in T : d <= t
    BY <1>3, LeastNatural, Zenon
<1>5. PICK x \in S : d = i - x
    BY <1>4
<1>6. \A k \in S : k <= x
    <2> TAKE k \in S
    <2>1. i - k \in T
        OBVIOUS
    <2>2. i - x <= i - k /\ k \in Nat /\ x \in Nat
        BY <1>2, <1>4, <1>5, <2>1
    <2> QED
        BY <2>2
<1> DEFINE j == CHOOSE y \in S : \A k \in S : k <= y
<1>7. j \in S
    BY <1>6
<1> HIDE DEF j
<1>8. j \in Nat /\ roles[j] = "system"
    BY <1>1, <1>2, <1>7
<1> QED
    BY <1>7, <1>8 DEF j, S

LEMMA TurnIs ==
    ASSUME NEW roles \in Seq(RoleNames), NEW i \in 1..Len(roles)
    PROVE  /\ TurnText(roles, i) \in Seq(LabelTokens)
           /\ Announced(roles, TurnText(roles, i)) /\ Marked(roles, TurnText(roles, i), i)
           /\ roles[i] = "assistant" => \A k \in 1..Len(TurnText(roles, i)) :
                 TurnText(roles, i)[k].kind = "text" => TurnText(roles, i)[k].at = i
<1>0. i \in Nat /\ roles[i] \in RoleNames
    BY EmptySeq
<1>1. CASE roles[i] = "system"
    <2>1. TurnText(roles, i) = <<>>
        BY <1>1 DEF TurnText
    <2> QED
        BY <1>1, <2>1 DEF Announced, Marked
<1>2. CASE roles[i] = "user"
    <2> DEFINE head == <<Tok("open", 0), Tok("user", 0)>>
               system == CHOOSE j \in SystemAt(roles, i) : \A k \in SystemAt(roles, i) : k <= j
               carried == IF CarriesSystem(roles, i) THEN <<Tok("text", system)>> ELSE <<>>
               tail == <<Tok("text", i), Tok("close", 0)>>
    <2>1. TurnText(roles, i) = (head \o carried) \o tail
        BY <1>2 DEF TurnText
    <2>2. head \in Seq(LabelTokens) /\ Announced(roles, head) /\ Marked(roles, head, i)
        BY DEF Tok, LabelTokens, Announced, Marked
    <2>3. carried \in Seq(LabelTokens) /\ Announced(roles, carried) /\ Marked(roles, carried, i)
        <3>1. CASE CarriesSystem(roles, i)
            <4>1. SystemAt(roles, i) # {}
                BY <3>1 DEF CarriesSystem
            <4>2. system \in Nat /\ roles[system] = "system" /\ system \in SystemAt(roles, i)
                BY <1>0, <4>1, SystemInForce
            <4> HIDE DEF system
            <4>s. system \in 1..i
                BY <1>0, <4>2 DEF SystemAt
            <4>3. carried = <<Tok("text", system)>>
                BY <3>1
            <4> DEFINE token == Tok("text", system)
            <4>4. token \in LabelTokens /\ token.at = system /\ token.kind = "text"
                BY <4>2 DEF Tok, LabelTokens
            <4> HIDE DEF token
            <4>5. <<token>> \in Seq(LabelTokens) /\ Len(<<token>>) = 1 /\ <<token>>[1] = token
                BY <4>4
            <4>6. roles[token.at] # "assistant"
                BY <4>2, <4>4
            <4>7. Announced(roles, <<token>>)
                BY <4>5, <4>6 DEF Announced
            <4>8. carried = <<token>>
                BY <4>3 DEF token
            <4>9. Marked(roles, <<token>>, i)
                BY <4>4, <4>5, <4>s DEF Marked
            <4> QED
                BY <4>5, <4>7, <4>8, <4>9
        <3>2. CASE ~CarriesSystem(roles, i)
            <4>1. carried = <<>>
                BY <3>2
            <4> QED
                BY <4>1 DEF Announced, Marked
        <3> QED
            BY <3>1, <3>2
    <2>4. tail \in Seq(LabelTokens) /\ Announced(roles, tail) /\ Marked(roles, tail, i)
        BY <1>0, <1>2 DEF Tok, LabelTokens, Announced, Marked
    <2> HIDE DEF head, carried, tail
    <2>5. /\ head \o carried \in Seq(LabelTokens) /\ Announced(roles, head \o carried)
          /\ Marked(roles, head \o carried, i)
        BY <1>0, <2>2, <2>3, Joined
    <2> DEFINE first == head \o carried
    <2>f. first \in Seq(LabelTokens) /\ Announced(roles, first) /\ Marked(roles, first, i) /\ i <= i
        BY <1>0, <2>5
    <2> HIDE DEF first
    <2>6. first \o tail \in Seq(LabelTokens) /\ Announced(roles, first \o tail) /\ Marked(roles, first \o tail, i)
        BY <1>0, <2>4, <2>f, Joined
    <2> QED
        BY <1>2, <2>1, <2>6 DEF first
<1>3. CASE roles[i] = "assistant"
    <2> DEFINE text == Marker \o <<Tok("text", i), Tok("close", 0)>>
    <2>1. TurnText(roles, i) = text
        BY <1>3 DEF TurnText
    <2> DEFINE ending == <<Tok("text", i), Tok("close", 0)>>
    <2>2. /\ ending \in Seq(LabelTokens) /\ Len(ending) = 2 /\ ending[1] = Tok("text", i) /\ ending[2] = Tok("close", 0)
          /\ Marker \in Seq(LabelTokens) /\ Len(Marker) = 2
          /\ Marker[1] = Tok("open", 0) /\ Marker[2] = Tok("model", 0)
        BY <1>0 DEF Tok, LabelTokens, Marker
    <2> HIDE DEF ending
    <2>3. /\ text \in Seq(LabelTokens) /\ Len(text) = 2 + 2
          /\ \A k \in 1..2 + 2 : text[k] = IF k <= 2 THEN Marker[k] ELSE ending[k - 2]
        <3>1. /\ Marker \o ending \in Seq(LabelTokens) /\ Len(Marker \o ending) = Len(Marker) + Len(ending)
              /\ \A k \in 1..Len(Marker) + Len(ending) :
                    (Marker \o ending)[k] = IF k <= Len(Marker) THEN Marker[k] ELSE ending[k - Len(Marker)]
            BY <2>2, ConcatProperties
        <3>2. text = Marker \o ending
            BY DEF ending
        <3> HIDE DEF text
        <3> QED
            BY <2>2, <3>1, <3>2
    <2> HIDE DEF text
    <2>4. /\ Len(text) = 4 /\ text[1] = Tok("open", 0) /\ text[2] = Tok("model", 0)
          /\ text[3] = Tok("text", i) /\ text[4] = Tok("close", 0)
        BY <2>2, <2>3
    <2>5. ASSUME NEW k \in 1..Len(text), text[k].kind = "text"
          PROVE  k = 3
        <3>1. k \in {1, 2, 3, 4}
            BY <2>4
        <3> QED
            BY <2>4, <2>5, <3>1 DEF Tok
    <2>6. Announced(roles, text)
        BY <2>4, <2>5 DEF Announced
    <2>7. \A k \in 1..Len(text) : text[k].kind = "text" => text[k].at = i
        BY <2>4, <2>5 DEF Tok
    <2>8. ASSUME NEW k \in 1..Len(text), text[k].kind = "model"
          PROVE  k = 2
        <3>1. k \in {1, 2, 3, 4}
            BY <2>4
        <3> QED
            BY <2>4, <2>8, <3>1 DEF Tok
    <2>9. Tok("text", i).kind = "text" /\ Tok("text", i).at = i
        BY DEF Tok
    <2>10. Marked(roles, text, i)
        <3>1. i \in 1..i
            BY <1>0
        <3> QED
            BY <1>3, <2>4, <2>7, <2>8, <2>9, <3>1 DEF Marked
    <2> QED
        BY <2>1, <2>3, <2>6, <2>7, <2>10
<1> QED
    BY <1>0, <1>1, <1>2, <1>3 DEF RoleNames

LEMMA TextsAre ==
    ASSUME NEW roles \in Seq(RoleNames)
    PROVE  /\ TextSoFar(roles)[0] = <<>>
           /\ \A i \in 1..Len(roles) : TextSoFar(roles)[i] = TextSoFar(roles)[i - 1] \o TurnText(roles, i)
<1> DEFINE n == Len(roles)
           D == 0..n
           V == Seq(LabelTokens)
           stop == {0}
           m == [i \in D |-> i]
           next == [i \in D |-> IF i = 0 THEN 0 ELSE i - 1]
           ground == [i \in D |-> <<>>]
           comb == [i \in D |-> [v \in V |-> IF i = 0 THEN v ELSE v \o TurnText(roles, i)]]
<1>1. n \in Nat
    BY EmptySeq
<1>2. \A i \in D : i # 0 => i \in 1..n /\ i - 1 \in D
    BY <1>1
<1>3. \A i \in 1..n : TurnText(roles, i) \in V
    BY TurnIs
<1>4. <<>> \in V /\ V # {} /\ 0 \in D
    <2>1. <<>> \in V
        BY EmptySeq
    <2>2. 0 \in D
        BY <1>1
    <2> QED
        BY <2>1, <2>2
<1>5. \A i \in D, v \in V : i # 0 => v \o TurnText(roles, i) \in V
    BY <1>2, <1>3, ConcatProperties
<1> HIDE DEF V
<1>6. m \in [D -> Nat] /\ next \in [D -> D] /\ ground \in [D -> V] /\ comb \in [D -> [V -> V]]
    BY <1>1, <1>2, <1>4, <1>5
<1>7. stop \subseteq D /\ \A i \in D \ stop : m[next[i]] < m[i]
    BY <1>1, <1>2, <1>4
<1>8. IsRecursion(D, V, m, stop, next, ground, comb)
    BY <1>4, <1>6, <1>7 DEF IsRecursion
<1> HIDE DEF D, stop, m, next, ground, comb
<1>9. PICK f \in [D -> V] : \A i \in D : f[i] = IF i \in stop THEN ground[i] ELSE comb[i][f[next[i]]]
    BY <1>8, RecursionIsDefined
<1>10. ASSUME NEW i \in D
       PROVE  f[i] = IF i = 0 THEN <<>> ELSE f[i - 1] \o TurnText(roles, i)
    <2>1. CASE i = 0
        BY <1>9, <2>1 DEF stop, ground
    <2>2. CASE i # 0
        <3>1. f[i] = comb[i][f[next[i]]] /\ f[next[i]] \in V /\ next[i] = i - 1
            BY <1>6, <1>9, <2>2 DEF stop, next
        <3> QED
            BY <2>2, <3>1 DEF comb
    <2> QED
        BY <2>1, <2>2
<1>11. f = [i \in 0..Len(roles) |-> IF i = 0 THEN <<>> ELSE f[i - 1] \o TurnText(roles, i)]
    BY <1>9, <1>10 DEF D
<1>12. TextSoFar(roles) = [i \in 0..Len(roles) |->
                         IF i = 0 THEN <<>> ELSE TextSoFar(roles)[i - 1] \o TurnText(roles, i)]
    BY <1>11 DEF TextSoFar
<1>13. \A i \in D : TextSoFar(roles)[i] = IF i = 0 THEN <<>> ELSE TextSoFar(roles)[i - 1] \o TurnText(roles, i)
    BY <1>12 DEF D
<1>14. \A i \in 1..n : i \in D /\ i # 0
    BY <1>1 DEF D
<1> QED
    BY <1>4, <1>13, <1>14

LEMMA TextsSpoken ==
    ASSUME NEW roles \in Seq(RoleNames)
    PROVE  \A i \in 0..Len(roles) : /\ TextSoFar(roles)[i] \in Seq(LabelTokens)
                                    /\ Announced(roles, TextSoFar(roles)[i])
                                    /\ Marked(roles, TextSoFar(roles)[i], i)
                                    /\ \A u \in 1..i : \A token :
                                          Holds(TurnText(roles, u), token) => Holds(TextSoFar(roles)[i], token)
<1> DEFINE n == Len(roles)
           Good(i) == /\ TextSoFar(roles)[i] \in Seq(LabelTokens)
                      /\ Announced(roles, TextSoFar(roles)[i])
                      /\ Marked(roles, TextSoFar(roles)[i], i)
                      /\ \A u \in 1..i : \A token :
                            Holds(TurnText(roles, u), token) => Holds(TextSoFar(roles)[i], token)
           S == {i \in Nat : i <= n => Good(i)}
<1>1. n \in Nat
    BY EmptySeq
<1>2. Good(0)
    <2>1. TextSoFar(roles)[0] = <<>> /\ Len(<<>>) = 0 /\ <<>> \in Seq(LabelTokens)
        BY TextsAre, EmptySeq
    <2>2. Announced(roles, <<>>) /\ Marked(roles, <<>>, 0)
        BY <2>1 DEF Announced, Marked
    <2> QED
        BY <2>1, <2>2
<1>3. ASSUME NEW i \in Nat, i + 1 <= n, Good(i)
      PROVE  Good(i + 1)
    <2> DEFINE a == TextSoFar(roles)[i]
               b == TurnText(roles, i + 1)
    <2>1. i + 1 \in 1..n /\ (i + 1) - 1 = i
        BY <1>1, <1>3
    <2>2. TextSoFar(roles)[i + 1] = a \o b
        BY <2>1, TextsAre
    <2>3. b \in Seq(LabelTokens) /\ Announced(roles, b) /\ Marked(roles, b, i + 1)
        BY <2>1, TurnIs
    <2>4. a \in Seq(LabelTokens) /\ Announced(roles, a) /\ Marked(roles, a, i)
        BY <1>3
    <2> HIDE DEF a, b
    <2>5. /\ a \o b \in Seq(LabelTokens) /\ Announced(roles, a \o b) /\ Marked(roles, a \o b, i + 1)
          /\ \A token : Holds(a, token) \/ Holds(b, token) => Holds(a \o b, token)
        BY <2>3, <2>4, Joined
    <2>6. ASSUME NEW u \in 1..i + 1, NEW token, Holds(TurnText(roles, u), token)
          PROVE  Holds(a \o b, token)
        <3>1. CASE u = i + 1
            BY <2>5, <2>6, <3>1 DEF b
        <3>2. CASE u \in 1..i
            BY <1>3, <2>5, <2>6, <3>2 DEF a
        <3> QED
            BY <3>1, <3>2
    <2> QED
        BY <2>2, <2>5, <2>6
<1> HIDE DEF Good
<1>4. 0 \in S
    BY <1>2
<1>5. \A i \in Nat : i \in S => i + 1 \in S
    <2> TAKE i \in Nat
    <2> SUFFICES ASSUME i \in S, i + 1 <= n
                 PROVE  Good(i + 1)
        OBVIOUS
    <2>1. i <= n
        BY <1>1
    <2> QED
        BY <1>3, <2>1
<1> HIDE DEF S
<1>6. Nat \subseteq S
    BY <1>4, <1>5, StepInduction
<1>7. \A i \in 0..n : Good(i)
    BY <1>1, <1>6 DEF S
<1> QED
    BY <1>7 DEF Good

(* The mask ends after the first marker there is.                          *)
LEMMA MaskIs ==
    ASSUME NEW labels \in Seq(LabelTokens)
    PROVE  /\ MaskStart(labels, Marker) \in 0..Len(labels)
           /\ \A i \in 1..Len(labels) : i > MaskStart(labels, Marker) =>
                 \E j \in 1..(i - 1) : labels[j].kind = "model"
           /\ \A i \in 1..Len(labels), j \in 1..Len(labels) :
                 (j < i /\ j - 1 \in 1..Len(labels) /\ labels[j - 1] = Tok("open", 0) /\ labels[j] = Tok("model", 0)) =>
                     i > MaskStart(labels, Marker)
<1> DEFINE n == Len(labels)
           starts == {i \in 0..(n - 2) : SubSeq(labels, i + 1, i + 2) = Marker}
           first == CHOOSE i \in starts : \A j \in starts : i <= j
           cut == MaskStart(labels, Marker)
<1>1. n \in Nat /\ \A k \in 1..n : labels[k] \in LabelTokens
    BY EmptySeq, ElementOfSeq
<1>2. /\ Marker \in Seq(LabelTokens) /\ Len(Marker) = 2 /\ Marker # <<>>
      /\ Marker[1] = Tok("open", 0) /\ Marker[2] = Tok("model", 0)
    BY DEF Tok, LabelTokens, Marker
<1>3. ASSUME NEW i \in 0..(n - 2)
      PROVE  i \in starts <=> labels[i + 1] = Tok("open", 0) /\ labels[i + 2] = Tok("model", 0)
    <2> DEFINE part == SubSeq(labels, i + 1, i + 2)
    <2>1. i \in Nat /\ i + 1 \in Int /\ i + 2 \in Int /\ i + 2 <= n
        BY <1>1
    <2>2. \A k \in i + 1..i + 2 : labels[k] \in LabelTokens
        BY <1>1, <2>1
    <2>3. /\ part \in Seq(LabelTokens) /\ Len(part) = IF i + 1 <= i + 2 THEN (i + 2) - (i + 1) + 1 ELSE 0
          /\ \A k \in 1..(i + 2) - (i + 1) + 1 : part[k] = labels[(i + 1) + k - 1]
        BY <2>1, <2>2, SubSeqProperties
    <2> HIDE DEF part
    <2>4. Len(part) = 2 /\ part[1] = labels[i + 1] /\ part[2] = labels[i + 2]
        <3>1. (i + 2) - (i + 1) + 1 = 2 /\ (i + 1) + 1 - 1 = i + 1 /\ (i + 1) + 2 - 1 = i + 2 /\ i + 1 <= i + 2
            BY <2>1
        <3>2. 1 \in 1..2 /\ 2 \in 1..2
            OBVIOUS
        <3> QED
            BY <2>3, <3>1, <3>2
    <2>5. part = Marker <=> part[1] = Marker[1] /\ part[2] = Marker[2]
        <3>1. ASSUME part[1] = Marker[1], part[2] = Marker[2]
              PROVE  part = Marker
            <4>1. \A k \in 1..Len(part) : part[k] = Marker[k]
                BY <2>4, <3>1
            <4>2. \A s, t \in Seq(LabelTokens) : Len(s) = Len(t) /\ (\A k \in 1..Len(s) : s[k] = t[k]) => s = t
                BY SeqEqual
            <4> QED
                BY <1>2, <2>3, <2>4, <4>1, <4>2
        <3> QED
            BY <3>1
    <2>6. i \in starts <=> part = Marker
        BY DEF part
    <2> QED
        BY <1>2, <2>4, <2>5, <2>6
<1>4. cut = IF starts = {} THEN n ELSE first + 2
    BY <1>2 DEF MaskStart
<1>5. starts \subseteq 0..(n - 2)
    OBVIOUS
<1> HIDE DEF starts, cut
<1>6. starts # {} => first \in starts /\ \A j \in starts : first <= j
    <2> SUFFICES ASSUME starts # {}
                 PROVE  first \in starts /\ \A j \in starts : first <= j
        OBVIOUS
    <2>1. starts \in SUBSET Nat
        BY <1>1, <1>5
    <2>2. PICK x \in starts : \A j \in starts : x <= j
        BY <2>1, LeastNatural, Zenon
    <2> QED
        BY <2>2
<1> HIDE DEF first
<1>7. cut \in 0..n
    <2>1. CASE starts = {}
        BY <1>1, <1>4, <2>1
    <2>2. CASE starts # {}
        <3>1. first \in 0..(n - 2) /\ cut = first + 2
            BY <1>4, <1>5, <1>6, <2>2
        <3> QED
            BY <1>1, <3>1
    <2> QED
        BY <2>1, <2>2
<1>8. ASSUME NEW i \in 1..n, i > cut
      PROVE  \E j \in 1..(i - 1) : labels[j].kind = "model"
    <2>1. starts # {} /\ first \in starts /\ cut = first + 2
        BY <1>1, <1>4, <1>6, <1>8
    <2>2. first \in 0..(n - 2) /\ labels[first + 2] = Tok("model", 0)
        BY <1>3, <1>5, <2>1
    <2>3. first + 2 \in 1..(i - 1)
        BY <1>1, <1>8, <2>1, <2>2
    <2>4. labels[first + 2].kind = "model"
        BY <2>2 DEF Tok
    <2> QED
        BY <2>3, <2>4
<1>9. ASSUME NEW i \in 1..n, NEW j \in 1..n, j < i, j - 1 \in 1..n,
             labels[j - 1] = Tok("open", 0), labels[j] = Tok("model", 0)
      PROVE  i > cut
    <2> DEFINE s == j - 2
    <2>1. s \in 0..(n - 2) /\ s + 1 = j - 1 /\ s + 2 = j
        BY <1>1, <1>9
    <2>2. labels[s + 1] = Tok("open", 0) /\ labels[s + 2] = Tok("model", 0)
        BY <1>9, <2>1
    <2>5. s = j - 2
        OBVIOUS
    <2> HIDE DEF s
    <2>3. s \in starts
        BY <1>3, <2>1, <2>2
    <2>4. first <= s /\ cut = first + 2 /\ first \in 0..(n - 2)
        BY <1>4, <1>5, <1>6, <2>3
    <2> QED
        BY <1>1, <1>9, <2>4, <2>5
<1> QED
    BY <1>7, <1>8, <1>9 DEF cut

(* What a collator makes of a conversation, whatever it is cut to.         *)
LabelsOf(roles, limit) ==
    IF Len(ChatText(roles)) <= limit THEN ChatText(roles) ELSE SubSeq(ChatText(roles), 1, limit)

LEMMA LabelsAre ==
    ASSUME NEW roles \in Seq(RoleNames), NEW limit \in Nat
    PROVE  LET labels == LabelsOf(roles, limit)
               text == ChatText(roles)
           IN  /\ labels \in Seq(LabelTokens) /\ Announced(roles, labels)
               /\ text \in Seq(LabelTokens) /\ Marked(roles, text, Len(roles))
               /\ Len(labels) = Len(text) => labels = text
               /\ \A k \in 1..Len(labels) : k \in 1..Len(text) /\ labels[k] = text[k]
<1> DEFINE text == ChatText(roles)
           labels == LabelsOf(roles, limit)
<1>1. /\ text \in Seq(LabelTokens) /\ Announced(roles, text) /\ Len(text) \in Nat
      /\ Marked(roles, text, Len(roles))
    <2>1. Len(roles) \in 0..Len(roles)
        BY EmptySeq
    <2>2. /\ TextSoFar(roles)[Len(roles)] \in Seq(LabelTokens) /\ Announced(roles, TextSoFar(roles)[Len(roles)])
          /\ Marked(roles, TextSoFar(roles)[Len(roles)], Len(roles))
        BY <2>1, TextsSpoken
    <2> QED
        BY <2>2, TextIs, EmptySeq
<1>2. labels = IF Len(text) <= limit THEN text ELSE SubSeq(text, 1, limit)
    BY DEF LabelsOf
<1> HIDE DEF text, labels
<1>3. CASE Len(text) <= limit
    BY <1>1, <1>2, <1>3 DEF text, labels
<1>4. CASE ~(Len(text) <= limit)
    <2>1. limit < Len(text) /\ limit \in Int /\ 1 \in Int
        BY <1>1, <1>4
    <2>2. \A k \in 1..limit : text[k] \in LabelTokens
        BY <1>1, <2>1, ElementOfSeq
    <2> DEFINE part == SubSeq(text, 1, limit)
    <2>3. /\ part \in Seq(LabelTokens) /\ Len(part) = IF 1 <= limit THEN limit - 1 + 1 ELSE 0
          /\ \A k \in 1..limit - 1 + 1 : part[k] = text[1 + k - 1]
        BY <2>1, <2>2, SubSeqProperties
    <2>4. labels = part
        BY <1>2, <1>4
    <2> HIDE DEF part
    <2>5. Len(part) = limit /\ \A k \in 1..limit : part[k] = text[k]
        BY <2>3
    <2>6. ASSUME NEW k \in 1..Len(part), part[k].kind = "text", roles[part[k].at] = "assistant"
          PROVE  k >= 3 /\ part[k - 2] = Tok("open", 0) /\ part[k - 1] = Tok("model", 0)
        <3>1. k \in 1..limit /\ k \in 1..Len(text) /\ part[k] = text[k]
            BY <1>1, <2>1, <2>5
        <3>2. k >= 3 /\ text[k - 2] = Tok("open", 0) /\ text[k - 1] = Tok("model", 0)
            BY <1>1, <2>6, <3>1 DEF Announced
        <3>3. k - 2 \in 1..limit /\ k - 1 \in 1..limit
            BY <3>1, <3>2
        <3> QED
            BY <2>5, <3>2, <3>3
    <2>7. Announced(roles, part)
        BY <2>6 DEF Announced
    <2>8. Len(part) # Len(text)
        BY <2>1, <2>5
    <2>9. \A k \in 1..Len(part) : k \in 1..Len(text) /\ part[k] = text[k]
        BY <1>1, <2>1, <2>5
    <2> QED
        BY <1>1, <2>3, <2>4, <2>7, <2>8, <2>9 DEF text, labels
<1> QED
    BY <1>3, <1>4

(* A leading system message is carried by the first of the user.           *)
LEMMA LeadingSystem ==
    ASSUME NEW roles \in Seq(RoleNames), roles # <<>>, roles[1] = "system",
           \A i \in 2..Len(roles) : roles[i] # "system",
           \E i \in 1..Len(roles) : roles[i] = "user"
    PROVE  Holds(ChatText(roles), Tok("text", 1))
<1> DEFINE n == Len(roles)
           U == {i \in 1..n : roles[i] = "user"}
<1>1. n \in Nat
    BY EmptySeq
<1>2. U \in SUBSET Nat /\ U # {}
    BY <1>1
<1>3. PICK u \in U : \A j \in U : u <= j
    BY <1>2, LeastNatural, Zenon
<1>4. u \in 1..n /\ roles[u] = "user" /\ u > 1
    BY <1>1
<1>5. SystemAt(roles, u) = {1}
    <2>1. \A j \in 1..(u - 1) : j # 1 => j \in 2..n
        BY <1>1, <1>4
    <2>2. 1 \in 1..(u - 1)
        BY <1>1, <1>4
    <2> QED
        BY <2>1, <2>2 DEF SystemAt
<1>6. CarriesSystem(roles, u)
    <2>1. \A j \in 1..(u - 1) : roles[j] # "user"
        <3> SUFFICES ASSUME NEW j \in 1..(u - 1), roles[j] = "user"
                     PROVE  FALSE
            OBVIOUS
        <3>1. j \in U
            BY <1>1, <1>4
        <3>2. u <= j
            BY <1>3, <3>1
        <3> QED
            BY <1>4, <3>2
    <2> QED
        BY <1>5, <2>1 DEF CarriesSystem
<1> DEFINE head == <<Tok("open", 0), Tok("user", 0)>>
           carried == <<Tok("text", 1)>>
           tail == <<Tok("text", u), Tok("close", 0)>>
<1>7. (CHOOSE j \in SystemAt(roles, u) : \A k \in SystemAt(roles, u) : k <= j) = 1
    BY <1>5
<1>8. TurnText(roles, u) = (head \o carried) \o tail
    BY <1>4, <1>6, <1>7 DEF TurnText
<1>9. /\ head \in Seq(LabelTokens) /\ carried \in Seq(LabelTokens) /\ tail \in Seq(LabelTokens)
      /\ Len(head) = 2 /\ Len(carried) = 1 /\ Len(tail) = 2 /\ carried[1] = Tok("text", 1)
    BY <1>4 DEF Tok, LabelTokens
<1> HIDE DEF head, carried, tail, U
<1> DEFINE first == head \o carried
<1>10. first \in Seq(LabelTokens) /\ Len(first) = 3 /\ first[3] = Tok("text", 1)
    <2>1. /\ first \in Seq(LabelTokens) /\ Len(first) = Len(head) + Len(carried)
          /\ \A i \in 1..Len(head) + Len(carried) :
                first[i] = IF i <= Len(head) THEN head[i] ELSE carried[i - Len(head)]
        BY <1>9, ConcatProperties
    <2> HIDE DEF first
    <2> QED
        BY <1>9, <2>1
<1> HIDE DEF first
<1>11. (first \o tail)[3] = Tok("text", 1) /\ Len(first \o tail) = 5
    <2>1. /\ Len(first \o tail) = Len(first) + Len(tail)
          /\ \A i \in 1..Len(first) + Len(tail) :
                (first \o tail)[i] = IF i <= Len(first) THEN first[i] ELSE tail[i - Len(first)]
        BY <1>9, <1>10, ConcatProperties
    <2> QED
        BY <1>9, <1>10, <2>1
<1>12. Holds(TurnText(roles, u), Tok("text", 1))
    <2>1. TurnText(roles, u) = first \o tail
        BY <1>8 DEF first
    <2>2. 3 \in 1..5
        OBVIOUS
    <2> QED
        BY <1>11, <2>1, <2>2 DEF Holds
<1>13. n \in 0..n /\ u \in 1..n
    BY <1>1, <1>4
<1>14. \A v \in 1..n : \A token : Holds(TurnText(roles, v), token) => Holds(TextSoFar(roles)[n], token)
    BY <1>13, TextsSpoken
<1> QED
    BY <1>12, <1>13, <1>14, TextIs

SampleInv ==
    sample # NoSample =>
        \E roles \in Conversations, limit \in Limits :
            sample = [roles |-> roles, labels |-> LabelsOf(roles, limit),
                      cut |-> MaskStart(LabelsOf(roles, limit), Marker)]

LEMMA SampleInitially == DatasetsInit => SampleInv
BY DEF DatasetsInit, SampleInv

LEMMA SampleStep == SampleInv /\ [DatasetsNext]_datasetsVars => SampleInv'
<1> SUFFICES ASSUME SampleInv, [DatasetsNext]_datasetsVars
             PROVE  SampleInv'
    OBVIOUS
<1>1. CASE UNCHANGED sample
    BY <1>1 DEF SampleInv
<1>2. ASSUME NEW roles \in Conversations, NEW limit \in Limits, Collate(roles, limit)
      PROVE  SampleInv'
    <2>1. sample' = [roles |-> roles, labels |-> LabelsOf(roles, limit),
                     cut |-> MaskStart(LabelsOf(roles, limit), Marker)]
        BY <1>2 DEF Collate, LabelsOf
    <2> QED
        BY <2>1 DEF SampleInv
<1>3. UNCHANGED sample \/ \E roles \in Conversations, limit \in Limits : Collate(roles, limit)
    BY DEF DatasetsNext, datasetsVars, PipelineNext, Examines, Examine
<1> QED
    BY <1>1, <1>2, <1>3

LEMMA ConversationsTyped ==
    ASSUME NEW roles \in Conversations
    PROVE  /\ roles \in Seq(RoleNames) /\ roles # <<>> /\ \E i \in 1..Len(roles) : roles[i] = "user"
           /\ Len(roles) \in 1..Len(roles) /\ roles[Len(roles)] = "assistant"
<1>1. PICK n \in 2..MaxTurns : roles \in [1..n -> {"system", "user", "assistant"}]
    BY DEF Conversations
<1>2. n \in Nat /\ n >= 2
    BY <1>1, DatasetsAssumption
<1>3. \A i \in 1..n : roles[i] \in RoleNames
    BY <1>1 DEF RoleNames
<1>4. roles \in Seq(RoleNames) /\ Len(roles) = n
    <2>1. roles = [i \in 1..n |-> roles[i]]
        BY <1>1
    <2> QED
        BY <1>2, <1>3, <2>1, IsASeq
<1>5. \E i \in DOMAIN roles : roles[i] = "user"
    BY DEF Conversations
<1>6. DOMAIN roles = 1..Len(roles)
    BY <1>4, LenProperties
<1>7. roles # <<>>
    BY <1>2, <1>4, EmptySeq
<1>8. roles[Len(roles)] = "assistant" /\ Len(roles) \in 1..Len(roles)
    BY <1>2, <1>4 DEF Conversations
<1> QED
    BY <1>4, <1>5, <1>6, <1>7, <1>8

(* After the only answer of a conversation nothing is said.                *)
LEMMA OneAnswer ==
    ASSUME NEW roles \in Seq(RoleNames), Len(roles) \in 1..Len(roles), roles[Len(roles)] = "assistant",
           \A k \in 1..(Len(roles) - 1) : roles[k] # "assistant",
           NEW i \in 1..Len(ChatText(roles)), NEW j \in 1..(i - 1),
           ChatText(roles)[j].kind = "model", ChatText(roles)[i].kind = "text"
    PROVE  roles[ChatText(roles)[i].at] = "assistant"
<1> DEFINE n == Len(roles)
           a == TextSoFar(roles)[n - 1]
           b == TurnText(roles, n)
           c == ChatText(roles)
<1>1. n \in Nat /\ n >= 1 /\ n - 1 \in 0..n
    BY EmptySeq
<1>2. c = a \o b
    BY TextIs, TextsAre
<1>3. a \in Seq(LabelTokens) /\ Marked(roles, a, n - 1)
    BY <1>1, TextsSpoken
<1>4. b \in Seq(LabelTokens) /\ \A k \in 1..Len(b) : b[k].kind = "text" => b[k].at = n
    BY TurnIs
<1> HIDE DEF a, b, c
<1>5. /\ Len(a) \in Nat /\ Len(b) \in Nat /\ Len(c) = Len(a) + Len(b)
      /\ \A k \in 1..Len(a) + Len(b) : c[k] = IF k <= Len(a) THEN a[k] ELSE b[k - Len(a)]
    BY <1>2, <1>3, <1>4, ConcatProperties, EmptySeq
<1>6. \A k \in 1..Len(a) : a[k].kind # "model"
    <2> SUFFICES ASSUME NEW k \in 1..Len(a), a[k].kind = "model"
                 PROVE  FALSE
        OBVIOUS
    <2>1. k + 1 \in 1..Len(a) /\ a[k + 1].kind = "text" /\ roles[a[k + 1].at] = "assistant"
        BY <1>3 DEF Marked
    <2>2. a[k + 1].at \in 1..(n - 1)
        BY <1>3, <2>1 DEF Marked
    <2> QED
        BY <2>1, <2>2 DEF n
<1>7. i \in 1..Len(a) + Len(b) /\ j \in 1..Len(a) + Len(b) /\ j < i
    BY <1>5 DEF c
<1>8. ~(j <= Len(a))
    <2>1. c[j].kind = "model"
        BY DEF c
    <2> QED
        BY <1>5, <1>6, <1>7, <2>1
<1>9. i - Len(a) \in 1..Len(b) /\ c[i] = b[i - Len(a)]
    BY <1>5, <1>7, <1>8
<1>10. c[i].at = n
    <2>1. c[i].kind = "text"
        BY DEF c
    <2> QED
        BY <1>4, <1>9, <2>1
<1> QED
    BY <1>10 DEF c, n

LEMMA SampleMasked ==
    ASSUME SampleInv
    PROVE  OnlyCompletionsTrain
<1> SUFFICES ASSUME sample.roles # <<>>
             PROVE  OnlyCompletionsTrain
    BY DEF OnlyCompletionsTrain
<1>1. sample # NoSample
    BY DEF NoSample
<1>2. PICK roles \in Conversations, limit \in Limits :
         sample = [roles |-> roles, labels |-> LabelsOf(roles, limit),
                   cut |-> MaskStart(LabelsOf(roles, limit), Marker)]
    BY <1>1 DEF SampleInv
<1> DEFINE labels == LabelsOf(roles, limit)
           text == ChatText(roles)
           cut == MaskStart(labels, Marker)
           Answer(i) == labels[i].kind = "text" /\ roles[labels[i].at] = "assistant"
<1>3. sample.roles = roles /\ sample.labels = labels /\ sample.cut = cut
    BY <1>2
<1>4. /\ roles \in Seq(RoleNames) /\ roles # <<>> /\ \E i \in 1..Len(roles) : roles[i] = "user"
      /\ Len(roles) \in 1..Len(roles) /\ roles[Len(roles)] = "assistant"
    BY ConversationsTyped
<1>5. limit \in Nat
    BY DatasetsAssumption
<1>6. /\ labels \in Seq(LabelTokens) /\ Announced(roles, labels)
      /\ text \in Seq(LabelTokens) /\ Marked(roles, text, Len(roles))
      /\ Len(labels) = Len(text) => labels = text
      /\ \A k \in 1..Len(labels) : k \in 1..Len(text) /\ labels[k] = text[k]
    BY <1>4, <1>5, LabelsAre
<1> HIDE DEF labels
<1>7. /\ \A i \in 1..Len(labels) : i > cut => \E j \in 1..(i - 1) : labels[j].kind = "model"
      /\ \A i \in 1..Len(labels), j \in 1..Len(labels) :
            (j < i /\ j - 1 \in 1..Len(labels) /\ labels[j - 1] = Tok("open", 0) /\ labels[j] = Tok("model", 0)) =>
                i > cut
    BY <1>6, MaskIs
<1>8. DOMAIN labels = 1..Len(labels) /\ Len(labels) \in Nat /\ Len(text) \in Nat
    BY <1>6, LenProperties
<1> HIDE DEF cut, text
<1>m. ASSUME NEW i \in 1..Len(labels), NEW j \in 1..(i - 1), labels[j].kind = "model"
      PROVE  /\ j \in 1..Len(labels) /\ j - 1 \in 1..Len(labels) /\ j < i
             /\ labels[j - 1] = Tok("open", 0) /\ labels[j] = Tok("model", 0)
             /\ j + 1 \in 1..i /\ Answer(j + 1)
    <2>1. j \in 1..Len(labels) /\ j < i /\ j + 1 \in 1..i /\ j + 1 \in 1..Len(labels)
        BY <1>8
    <2>2. j \in 1..Len(text) /\ text[j].kind = "model" /\ text[j] = labels[j] /\ text[j + 1] = labels[j + 1]
        BY <1>6, <1>m, <2>1
    <2>3. /\ j - 1 \in 1..Len(text) /\ text[j - 1] = Tok("open", 0) /\ text[j] = Tok("model", 0)
          /\ text[j + 1].kind = "text" /\ roles[text[j + 1].at] = "assistant"
        BY <1>6, <2>2 DEF Marked
    <2>4. j - 1 \in 1..Len(labels)
        BY <1>8, <2>1, <2>3
    <2> QED
        BY <1>6, <2>1, <2>2, <2>3, <2>4
<1>9. \A i \in 1..Len(labels) : i > cut <=> \E j \in 1..(i - 1) : labels[j].kind = "model"
    <2>1. ASSUME NEW i \in 1..Len(labels), NEW j \in 1..(i - 1), labels[j].kind = "model"
          PROVE  i > cut
        BY <1>7, <1>m, <2>1
    <2> QED
        BY <1>7, <2>1
<1>10. ASSUME NEW i \in 1..Len(labels), Answer(i)
       PROVE  i - 1 \in 1..(i - 1) /\ labels[i - 1].kind = "model"
    <2>1. i >= 3 /\ labels[i - 1] = Tok("model", 0)
        BY <1>6, <1>10 DEF Announced
    <2> QED
        BY <2>1 DEF Tok
<1>11. ASSUME NEW i \in 1..Len(labels), labels[i].kind = "text"
       PROVE  i > cut <=> Answer(i) \/ \E j \in 1..(i - 1) : Answer(j)
    <2>1. ASSUME i > cut, ~Answer(i)
          PROVE  \E j \in 1..(i - 1) : Answer(j)
        <3>1. PICK j \in 1..(i - 1) : labels[j].kind = "model"
            BY <1>9, <2>1
        <3>2. j + 1 \in 1..i /\ Answer(j + 1)
            BY <1>m, <3>1
        <3>3. j + 1 # i
            BY <2>1, <3>2
        <3>4. j + 1 \in 1..(i - 1)
            BY <3>2, <3>3
        <3> HIDE DEF Answer
        <3> QED
            BY <3>2, <3>4
    <2>2. ASSUME Answer(i)
          PROVE  i > cut
        BY <1>9, <1>10, <2>2
    <2>3. ASSUME NEW j \in 1..(i - 1), Answer(j)
          PROVE  i > cut
        <3>1. j \in 1..Len(labels)
            BY <1>8
        <3>2. j - 1 \in 1..(j - 1) /\ labels[j - 1].kind = "model"
            BY <1>10, <2>3, <3>1
        <3>3. j - 1 \in 1..(i - 1)
            BY <3>1, <3>2
        <3> QED
            BY <1>9, <3>2, <3>3
    <2> HIDE DEF Answer
    <2> QED
        BY <2>1, <2>2, <2>3
<1>12. ASSUME \A k \in 1..(Len(roles) - 1) : roles[k] # "assistant",
              NEW i \in 1..Len(labels), labels[i].kind = "text", i > cut
       PROVE  Answer(i)
    <2>1. PICK j \in 1..(i - 1) : labels[j].kind = "model"
        BY <1>9, <1>12
    <2>2. j \in 1..Len(labels)
        BY <1>m, <2>1
    <2>3. i \in 1..Len(text) /\ text[j].kind = "model" /\ text[i].kind = "text" /\ text[i] = labels[i]
        BY <1>6, <1>12, <2>1, <2>2
    <2>4. roles[text[i].at] = "assistant"
        BY <1>4, <1>12, <2>3, OneAnswer DEF text
    <2> QED
        BY <1>12, <2>3, <2>4
<1>13. ASSUME roles[1] = "system", Len(labels) = Len(text),
              \A i \in 2..Len(roles) : roles[i] # "system"
       PROVE  \E i \in DOMAIN labels : labels[i] = Tok("text", 1)
    <2>1. Holds(text, Tok("text", 1))
        BY <1>4, <1>13, LeadingSystem DEF text
    <2> QED
        BY <1>6, <1>8, <1>13, <2>1 DEF Holds
<1> QED
    BY <1>3, <1>8, <1>9, <1>11, <1>12, <1>13 DEF OnlyCompletionsTrain, text

(* What trains, for any number of items, exports and splits, any length of *)
(* an n-gram, any threshold, conversations of any length and any limit on  *)
(* the tokens: an export loads, no item of one split is in the other, no   *)
(* copy of a benchmark passes where a comparison looks, and what trains of *)
(* a conversation is what follows its first mark of the model: the answer  *)
(* alone if there is one (data/, training/).                               *)
THEOREM TrainingStaysClean == DatasetsSpec => []TrainsOnlyWhatItMay
<1>1. SampleInv => OnlyCompletionsTrain
    BY SampleMasked
<1>2. DatasetsSpec => []OnlyCompletionsTrain
    BY <1>1, SampleInitially, SampleStep, PTL DEF DatasetsSpec
<1> QED
    BY <1>2, SplitStaysHonest, CopiesStayCaught, PTL DEF TrainsOnlyWhatItMay

(* Rows of a file there can be.                                            *)
Short(rows) == rows \in Seq(DataItems) /\ Len(rows) <= MaxItems

(* No two items of a build answer alike but for case.                      *)
AnswersApart(items) ==
    \A i, j \in 1..Len(items) : Folded(items[i].answer) = Folded(items[j].answer) => i = j

(* Every file is as long as a build may be.                                *)
DatasetsTyped ==
    /\ builder.at \in {"none", "adding", "exporting"}
    /\ Short(builder.items) /\ AnswersApart(builder.items)
    /\ Short(dataset.rows) /\ dataset.torn \in BOOLEAN /\ exported \in BOOLEAN
    /\ DOMAIN out = {"train", "valid"}
    /\ \A name \in {"train", "valid"} : Short(out[name].rows) /\ out[name].torn \in BOOLEAN
    /\ prepare \in [at : {"none", "train", "valid", "manifest"}, rows : Seq(DataItems), fraction : {0} \cup Fractions]
    /\ Len(prepare.rows) <= MaxItems
    /\ Short(manifest.train) /\ Short(manifest.valid) /\ manifest.fraction \in {0} \cup Fractions
    /\ exam.exit \in 0..2

LEMMA ShortIsRows ==
    ASSUME NEW rows, Short(rows)
    PROVE  rows \in Rows
<1>1. rows \in [1..Len(rows) -> DataItems] /\ Len(rows) \in 0..MaxItems
    BY DatasetsAssumption DEF Short
<1> QED
    BY <1>1 DEF Rows

LEMMA UpTo ==
    ASSUME NEW n \in Nat
    PROVE  IsFiniteSet(1..n) /\ Cardinality(1..n) = n
BY FS_Interval

LEMMA ApartMeans ==
    ASSUME NEW items \in Seq(DataItems), AnswersApart(items)
    PROVE  Cardinality({Folded(items[i].answer) : i \in DOMAIN items}) = Len(items)
<1> DEFINE n == Len(items)
           S == {Folded(items[i].answer) : i \in DOMAIN items}
           f == [i \in 1..n |-> Folded(items[i].answer)]
<1>1. n \in Nat /\ DOMAIN items = 1..n
    OBVIOUS
<1>2. IsFiniteSet(1..n) /\ Cardinality(1..n) = n
    BY <1>1, UpTo
<1>3. f \in Surjection(1..n, S)
    BY <1>1 DEF Surjection
<1>4. f \in Injection(1..n, S)
    BY <1>3 DEF Surjection, Injection, IsInjective, AnswersApart
<1> QED
    BY <1>2, <1>3, <1>4, FS_Surjection

(* An item that is fresh answers unlike the others.                        *)
LEMMA FreshIsApart ==
    ASSUME NEW items \in Seq(DataItems), NEW item \in DataItems, AnswersApart(items), Fresh(items, item)
    PROVE  AnswersApart(Append(items, item))
<1> DEFINE more == Append(items, item)
<1>1. /\ Len(more) = Len(items) + 1 /\ Len(items) \in Nat /\ more[Len(items) + 1] = item
      /\ \A i \in 1..Len(items) : more[i] = items[i]
    OBVIOUS
<1>2. \A i \in 1..Len(items) : Folded(items[i].answer) # Folded(item.answer)
    BY DEF Fresh
<1> HIDE DEF more
<1>3. ASSUME NEW i \in 1..Len(more), NEW j \in 1..Len(more), Folded(more[i].answer) = Folded(more[j].answer)
      PROVE  i = j
    <2>1. (i \in 1..Len(items) \/ i = Len(items) + 1) /\ (j \in 1..Len(items) \/ j = Len(items) + 1)
        BY <1>1
    <2> QED
        BY <1>1, <1>2, <1>3, <2>1 DEF AnswersApart
<1> QED
    BY <1>3 DEF AnswersApart, more

(* A side of a split is no longer than the whole.                          *)
LEMMA SideIsShort ==
    ASSUME NEW rows, Short(rows), NEW fraction, NEW name
    PROVE  Short(Side(name, rows, fraction))
<1> DEFINE kept == {i \in DOMAIN rows : Held(rows, i, fraction) = (name = "valid")}
<1>1. kept \in SUBSET (1..Len(rows)) /\ Len(rows) \in Nat
    BY DEF Short
<1>2. Side(name, rows, fraction) = Keep(rows, kept)
    BY DEF Side
<1> HIDE DEF kept
<1>3. Keep(rows, kept) \in Seq(DataItems) /\ Len(Keep(rows, kept)) = Cardinality(kept)
    BY <1>1, KeepTakes DEF Short
<1>4. Cardinality(kept) \in Nat /\ Cardinality(kept) <= Len(rows)
    <2>1. IsFiniteSet(1..Len(rows)) /\ Cardinality(1..Len(rows)) = Len(rows)
        BY <1>1, UpTo
    <2> QED
        BY <1>1, <2>1, FS_Subset, FS_CardinalityType
<1> QED
    BY <1>1, <1>2, <1>3, <1>4, DatasetsAssumption DEF Short

LEMMA PartlyIsShort ==
    ASSUME NEW rows, Short(rows), NEW file \in Partly(rows)
    PROVE  Short(file.rows) /\ file.torn \in BOOLEAN
<1>1. PICK n \in 0..Len(rows), torn \in BOOLEAN : file = File(SubSeq(rows, 1, n), torn)
    BY DEF Partly
<1>2. SubSeq(rows, 1, n) \in Seq(DataItems) /\ Len(SubSeq(rows, 1, n)) = n
    BY DEF Short
<1>3. file.rows = SubSeq(rows, 1, n) /\ file.torn = torn
    BY <1>1 DEF File
<1>4. Short(SubSeq(rows, 1, n))
    BY <1>2, DatasetsAssumption DEF Short
<1> QED
    BY <1>3, <1>4

LEMMA NothingIsShort == Short(<<>>) /\ AnswersApart(<<>>)
<1>1. <<>> \in Seq(DataItems) /\ Len(<<>>) = 0
    OBVIOUS
<1> QED
    BY <1>1, DatasetsAssumption DEF Short, AnswersApart

LEMMA TypedInitially == DatasetsInit => DatasetsTyped
<1> SUFFICES ASSUME DatasetsInit PROVE DatasetsTyped
    OBVIOUS
<1>1. <<>> \in Seq(DataItems) /\ Len(<<>>) = 0 /\ 0 <= MaxItems
    BY DatasetsAssumption
<1>2. builder.at = "none" /\ builder.items = <<>>
    BY DEF DatasetsInit, NoBuilder
<1>3. Empty.rows = <<>> /\ Empty.torn = FALSE
    BY DEF Empty, File
<1>4. dataset = Empty /\ exported = FALSE /\ DOMAIN out = {"train", "valid"}
      /\ \A name \in {"train", "valid"} : out[name] = Empty
    BY DEF DatasetsInit
<1>5. prepare \in [at : {"none", "train", "valid", "manifest"}, rows : Seq(DataItems), fraction : {0} \cup Fractions]
      /\ prepare.rows = <<>>
    BY <1>1 DEF DatasetsInit, NoPreparation
<1>6. manifest.train = <<>> /\ manifest.valid = <<>> /\ manifest.fraction = 0 /\ exam.exit = 0
    BY DEF DatasetsInit, NoManifest, NoExam
<1>7. /\ Short(builder.items) /\ AnswersApart(builder.items) /\ Short(dataset.rows)
      /\ Short(manifest.train) /\ Short(manifest.valid)
      /\ \A name \in {"train", "valid"} : Short(out[name].rows) /\ out[name].torn \in BOOLEAN
    BY <1>2, <1>3, <1>4, <1>6, NothingIsShort
<1>8. dataset.torn \in BOOLEAN /\ exported \in BOOLEAN /\ Len(prepare.rows) <= MaxItems /\ exam.exit \in 0..2
    <2>1. dataset.torn = FALSE /\ exported = FALSE
        BY <1>3, <1>4
    <2>2. Len(prepare.rows) <= MaxItems
        BY <1>1, <1>5
    <2>3. exam.exit \in 0..2
        BY <1>6
    <2> QED
        BY <2>1, <2>2, <2>3
<1> QED
    BY ONLY <1>2, <1>4, <1>5, <1>6, <1>7, <1>8 DEF DatasetsTyped

(* What a builder holds, and its file.                                     *)
BuilderTyped ==
    /\ builder.at \in {"none", "adding", "exporting"}
    /\ Short(builder.items) /\ AnswersApart(builder.items)
    /\ Short(dataset.rows) /\ dataset.torn \in BOOLEAN /\ exported \in BOOLEAN

LEMMA BuilderStepTyped ==
    ASSUME PipelineInv, BuilderTyped,
           BeginBuild \/ (\E item \in DataItems : Add(item)) \/ BeginExport \/ EndExport \/ BuilderDies
    PROVE  BuilderTyped'
<1>1. NoBuilder.at = "none" /\ NoBuilder.items = <<>>
    BY DEF NoBuilder
<1>2. CASE BeginBuild
    <2>1. builder'.at = "adding" /\ builder'.items = <<>> /\ UNCHANGED <<dataset, exported>>
        BY <1>2 DEF BeginBuild, NoBuilder
    <2> QED
        BY <2>1, NothingIsShort DEF BuilderTyped
<1>3. ASSUME NEW item \in DataItems, Add(item)
      PROVE  BuilderTyped'
    <2>1. CASE Fresh(builder.items, item)
        <3>1. /\ builder' = [builder EXCEPT !.items = Append(builder.items, item)]
              /\ builder.at = "adding" /\ Len(builder.items) < MaxItems /\ UNCHANGED <<dataset, exported>>
            BY <1>3, <2>1 DEF Add
        <3>2. builder \in [at : {"none", "adding", "exporting"}, items : Seq(DataItems)]
            BY DEF PipelineInv, BuilderInv
        <3>3. builder'.at = "adding" /\ builder'.items = Append(builder.items, item)
            BY <3>1, <3>2
        <3>4. builder.items \in Seq(DataItems) /\ AnswersApart(builder.items)
            BY DEF BuilderTyped, Short
        <3>5. AnswersApart(Append(builder.items, item))
            BY <2>1, <3>4, FreshIsApart
        <3>6. Short(Append(builder.items, item))
            BY <3>1, <3>4, DatasetsAssumption DEF Short
        <3> QED
            BY <3>1, <3>3, <3>5, <3>6 DEF BuilderTyped
    <2>2. CASE ~Fresh(builder.items, item)
        <3>1. builder' = NoBuilder /\ UNCHANGED <<dataset, exported>>
            BY <1>3, <2>2 DEF Add
        <3> QED
            BY <1>1, <3>1, NothingIsShort DEF BuilderTyped
    <2> QED
        BY <2>1, <2>2
<1>4. CASE BeginExport
    <2>1. builder' = [builder EXCEPT !.at = "exporting"] /\ dataset' = Empty /\ exported' = FALSE
        BY <1>4 DEF BeginExport
    <2>2. builder \in [at : {"none", "adding", "exporting"}, items : Seq(DataItems)]
        BY DEF PipelineInv, BuilderInv
    <2>3. builder'.at = "exporting" /\ builder'.items = builder.items
        BY <2>1, <2>2
    <2>4. dataset'.rows = <<>> /\ dataset'.torn = FALSE
        BY <2>1 DEF Empty, File
    <2> QED
        BY <2>1, <2>3, <2>4, NothingIsShort DEF BuilderTyped
<1>5. CASE EndExport
    <2>1. builder' = NoBuilder /\ dataset' = File(builder.items, FALSE) /\ exported' = TRUE
        BY <1>5 DEF EndExport
    <2>2. dataset'.rows = builder.items /\ dataset'.torn = FALSE
        BY <2>1 DEF File
    <2> QED
        BY <1>1, <2>1, <2>2, NothingIsShort DEF BuilderTyped
<1>6. CASE BuilderDies
    <2>1. builder' = NoBuilder /\ exported' = exported
        BY <1>6 DEF BuilderDies
    <2>2. dataset' = dataset \/ dataset' \in Partly(builder.items)
        BY <1>6 DEF BuilderDies
    <2>3. Short(builder.items)
        BY DEF BuilderTyped
    <2>4. Short(dataset'.rows) /\ dataset'.torn \in BOOLEAN
        <3>1. CASE dataset' = dataset
            BY <3>1 DEF BuilderTyped
        <3>2. CASE dataset' \in Partly(builder.items)
            BY <2>3, <3>2, PartlyIsShort
        <3> QED
            BY <2>2, <3>1, <3>2
    <2> QED
        BY <1>1, <2>1, <2>4, NothingIsShort DEF BuilderTyped
<1> QED
    BY <1>2, <1>3, <1>4, <1>5, <1>6

(* What is being prepared, its two files and their manifest.               *)
Preparing == [at : {"none", "train", "valid", "manifest"}, rows : Seq(DataItems), fraction : {0} \cup Fractions]

PrepareTyped ==
    /\ DOMAIN out = {"train", "valid"}
    /\ \A name \in {"train", "valid"} : Short(out[name].rows) /\ out[name].torn \in BOOLEAN
    /\ prepare \in Preparing /\ Len(prepare.rows) <= MaxItems
    /\ Short(manifest.train) /\ Short(manifest.valid) /\ manifest.fraction \in {0} \cup Fractions

LEMMA PrepareStepTyped ==
    ASSUME BuilderTyped, PrepareTyped,
           \/ \E fraction \in Fractions : BeginPrepare(fraction)
           \/ \E name \in {"train", "valid"} : WriteSide(name)
           \/ WriteManifest \/ PreparationDies
    PROVE  PrepareTyped'
<1>1. /\ Short(prepare.rows) /\ prepare.fraction \in {0} \cup Fractions
      /\ \A name : Short(Side(name, prepare.rows, prepare.fraction))
    <2>1. Short(prepare.rows) /\ prepare.fraction \in {0} \cup Fractions
        BY DEF PrepareTyped, Preparing, Short
    <2> QED
        BY <2>1, SideIsShort
<1>2. NoPreparation \in Preparing /\ Len(NoPreparation.rows) <= MaxItems
    <2>1. <<>> \in Seq(DataItems) /\ Len(<<>>) = 0 /\ 0 <= MaxItems
        BY DatasetsAssumption
    <2> QED
        BY <2>1 DEF NoPreparation, Preparing
<1>3. ASSUME NEW fraction \in Fractions, BeginPrepare(fraction)
      PROVE  PrepareTyped'
    <2>1. /\ prepare' = [at |-> "train", rows |-> dataset.rows, fraction |-> fraction]
          /\ UNCHANGED <<out, manifest>>
        BY <1>3 DEF BeginPrepare
    <2>2. dataset.rows \in Seq(DataItems) /\ Len(dataset.rows) <= MaxItems
        BY DEF BuilderTyped, Short
    <2>3. prepare' \in Preparing /\ prepare'.rows = dataset.rows
        BY <2>1, <2>2 DEF Preparing
    <2> QED
        BY <2>1, <2>2, <2>3 DEF PrepareTyped
<1>4. ASSUME NEW name \in {"train", "valid"}, WriteSide(name)
      PROVE  PrepareTyped'
    <2> DEFINE file == File(Side(name, prepare.rows, prepare.fraction), FALSE)
    <2>1. /\ out' = [out EXCEPT ![name] = file]
          /\ prepare' = [prepare EXCEPT !.at = IF name = "train" THEN "valid" ELSE "manifest"]
          /\ UNCHANGED manifest
        BY <1>4 DEF WriteSide
    <2>2. Short(file.rows) /\ file.torn = FALSE
        <3>1. file.rows = Side(name, prepare.rows, prepare.fraction) /\ file.torn = FALSE
            BY DEF File
        <3> QED
            BY <1>1, <3>1
    <2> HIDE DEF file
    <2>3. /\ DOMAIN out' = {"train", "valid"}
          /\ \A other \in {"train", "valid"} : Short(out'[other].rows) /\ out'[other].torn \in BOOLEAN
        BY <2>1, <2>2 DEF PrepareTyped
    <2>4. prepare' \in Preparing /\ prepare'.rows = prepare.rows
        BY <2>1 DEF PrepareTyped, Preparing
    <2> QED
        BY <2>1, <2>3, <2>4 DEF PrepareTyped
<1>5. CASE WriteManifest
    <2>1. /\ prepare' = NoPreparation /\ UNCHANGED out
          /\ manifest' = [there |-> TRUE, fraction |-> prepare.fraction,
                          train |-> Side("train", prepare.rows, prepare.fraction),
                          valid |-> Side("valid", prepare.rows, prepare.fraction)]
        BY <1>5 DEF WriteManifest
    <2>2. /\ manifest'.train = Side("train", prepare.rows, prepare.fraction)
          /\ manifest'.valid = Side("valid", prepare.rows, prepare.fraction)
          /\ manifest'.fraction = prepare.fraction
        BY <2>1
    <2> QED
        BY <1>1, <1>2, <2>1, <2>2 DEF PrepareTyped
<1>6. CASE PreparationDies
    <2>1. prepare' = NoPreparation
        BY <1>6 DEF PreparationDies
    <2>2. Short(manifest'.train) /\ Short(manifest'.valid) /\ manifest'.fraction \in {0} \cup Fractions
        <3>1. manifest' = manifest \/ manifest' = NoManifest
            BY <1>6 DEF PreparationDies
        <3> QED
            BY <3>1, NothingIsShort DEF PrepareTyped, NoManifest
    <2>3. /\ DOMAIN out' = {"train", "valid"}
          /\ \A other \in {"train", "valid"} : Short(out'[other].rows) /\ out'[other].torn \in BOOLEAN
        <3>1. CASE out' = out
            BY <3>1 DEF PrepareTyped
        <3>2. ASSUME NEW file \in Partly(Side(prepare.at, prepare.rows, prepare.fraction)),
                     out' = [out EXCEPT ![prepare.at] = file]
              PROVE  <2>3
            <4>1. Short(file.rows) /\ file.torn \in BOOLEAN
                BY <1>1, PartlyIsShort
            <4> QED
                BY <3>2, <4>1 DEF PrepareTyped
        <3> QED
            BY <1>6, <3>1, <3>2 DEF PreparationDies
    <2> QED
        BY <1>2, <2>1, <2>2, <2>3 DEF PrepareTyped
<1> QED
    BY <1>3, <1>4, <1>5, <1>6

LEMMA DatasetsTypedStep ==
    PipelineInv /\ DatasetsTyped /\ [DatasetsNext]_datasetsVars => DatasetsTyped'
<1> SUFFICES ASSUME PipelineInv, DatasetsTyped, [DatasetsNext]_datasetsVars
             PROVE  DatasetsTyped'
    OBVIOUS
<1>1. DatasetsTyped <=> BuilderTyped /\ PrepareTyped /\ exam.exit \in 0..2
    BY DEF DatasetsTyped, BuilderTyped, PrepareTyped, Preparing
<1>2. DatasetsTyped' <=> BuilderTyped' /\ PrepareTyped' /\ exam'.exit \in 0..2
    BY DEF DatasetsTyped, BuilderTyped, PrepareTyped, Preparing
<1>3. UNCHANGED <<builder, dataset, exported>> => BuilderTyped'
    BY <1>1 DEF BuilderTyped
<1>4. UNCHANGED <<prepare, out, manifest>> => PrepareTyped'
    BY <1>1 DEF PrepareTyped
<1>5. CASE PipelineNext
    <2>1. exam'.exit \in 0..2
        BY <1>1, <1>5 DEF PipelineNext
    <2>2. CASE BeginBuild \/ (\E item \in DataItems : Add(item)) \/ BeginExport \/ EndExport \/ BuilderDies
        <3>1. UNCHANGED <<prepare, out, manifest>>
            BY <2>2 DEF BeginBuild, Add, BeginExport, EndExport, BuilderDies
        <3> QED
            BY <1>1, <1>2, <1>4, <2>1, <2>2, <3>1, BuilderStepTyped
    <2>3. CASE \/ \E fraction \in Fractions : BeginPrepare(fraction)
               \/ \E name \in {"train", "valid"} : WriteSide(name)
               \/ WriteManifest \/ PreparationDies
        <3>1. UNCHANGED <<builder, dataset, exported>>
            BY <2>3 DEF BeginPrepare, WriteSide, WriteManifest, PreparationDies
        <3> QED
            BY <1>1, <1>2, <1>3, <2>1, <2>3, <3>1, PrepareStepTyped
    <2> QED
        BY <1>5, <2>2, <2>3 DEF PipelineNext
<1>6. ASSUME NEW tool, NEW xs, NEW ys, NEW there, Examine(tool, xs, ys, there)
      PROVE  DatasetsTyped'
    <2>1. exam'.exit \in 0..2 /\ UNCHANGED pipelineVars
        BY <1>6 DEF Examine
    <2> QED
        BY <1>2, <1>3, <1>4, <2>1 DEF pipelineVars
<1>7. ASSUME NEW roles, NEW limit, Collate(roles, limit)
      PROVE  DatasetsTyped'
    <2>1. UNCHANGED <<pipelineVars, exam>>
        BY <1>7 DEF Collate
    <2> QED
        BY <1>1, <1>2, <1>3, <1>4, <2>1 DEF pipelineVars
<1>8. CASE UNCHANGED datasetsVars
    BY <1>1, <1>2, <1>3, <1>4, <1>8 DEF datasetsVars, pipelineVars
<1>9. CASE Examines
    <2>1. \E tool, xs, ys, there : Examine(tool, xs, ys, there)
        BY <1>9 DEF Examines
    <2> QED
        BY <1>6, <2>1, Zenon
<1> QED
    BY <1>5, <1>7, <1>8, <1>9 DEF DatasetsNext

LEMMA DatasetsAreTyped == DatasetsTyped /\ SampleInv => DatasetsTypeOK
<1> SUFFICES ASSUME DatasetsTyped, SampleInv
             PROVE  DatasetsTypeOK
    OBVIOUS
<1>1. \A rows : Short(rows) => rows \in Rows
    BY ShortIsRows
<1>2. sample.cut \in 0..Len(sample.labels)
    <2>1. CASE sample = NoSample
        <3>1. sample.cut = 0 /\ sample.labels = <<>> /\ Len(<<>>) = 0
            BY <2>1 DEF NoSample
        <3> QED
            BY <3>1
    <2>2. CASE sample # NoSample
        <3>1. PICK roles \in Conversations, limit \in Limits :
                  sample = [roles |-> roles, labels |-> LabelsOf(roles, limit),
                            cut |-> MaskStart(LabelsOf(roles, limit), Marker)]
            BY <2>2 DEF SampleInv
        <3> DEFINE labels == LabelsOf(roles, limit)
        <3>2. roles \in Seq(RoleNames) /\ limit \in Nat
            BY ConversationsTyped, DatasetsAssumption
        <3>3. labels \in Seq(LabelTokens)
            BY <3>2, LabelsAre
        <3>4. sample.labels = labels /\ sample.cut = MaskStart(labels, Marker)
            BY <3>1
        <3> HIDE DEF labels
        <3> QED
            BY <3>3, <3>4, MaskIs
    <2> QED
        BY <2>1, <2>2
<1>3. Cardinality({Folded(builder.items[i].answer) : i \in DOMAIN builder.items}) = Len(builder.items)
    BY ApartMeans DEF DatasetsTyped, Short
<1>4. prepare.at \in {"none", "train", "valid", "manifest"} /\ Short(prepare.rows)
    BY DEF DatasetsTyped, Short
<1> QED
    BY <1>1, <1>2, <1>3, <1>4 DEF DatasetsTyped, DatasetsTypeOK, AFile

(* What a build holds and what the files hold have their types, for any    *)
(* bound on the items; no two items of a build answer alike but for case;  *)
(* and a mask ends within its labels (data/builder_v2.py, training/).      *)
THEOREM DatasetsTypeCorrect == DatasetsSpec => []DatasetsTypeOK
<1> DEFINE Inv == PipelineInv /\ DatasetsTyped /\ SampleInv
<1>1. DatasetsInit => Inv
    BY PipelineInitially, TypedInitially, SampleInitially
<1>2. Inv /\ [DatasetsNext]_datasetsVars => Inv'
    BY PipelineStep, DatasetsTypedStep, SampleStep
<1>3. Inv => DatasetsTypeOK
    BY DatasetsAreTyped
<1> QED
    BY <1>1, <1>2, <1>3, PTL DEF DatasetsSpec

-----------------------------------------------------------------------------
(* The scans, for any cap on the matches and any size of the outline.      *)

(* A search that makes its own way: all but the one of gitleaks.           *)
Walks == ask.engine # "gitleaks"

(* What a search may show, under whatever name it came to it.              *)
MayShow(p) ==
    /\ tree[p].kind \notin {"away", "link"}
    /\ \/ ask.scope \in Paths /\ p = Resolve(ask.scope)
       \/ /\ tree[p].trait \notin {"git", "gemma"}
          /\ tree[p].trait = "hidden" => ask.dotted \/ \E l \in Paths : tree[l].kind = "link"

(* A candidate visited has been counted, as far as the cap allows.         *)
Counted(p) ==
    IF ask.tool = "glob" THEN found[Resolve(p)] > 0
    ELSE Total < Cap /\ IsText(p) => found[p] = tree[p].lines

CallTyped ==
    /\ ask.scope \in Scopes
    /\ ask.tool = "secrets" => ask.dotted /\ ask.scope \notin Paths
    /\ ask.tool = "read" => ask.scope \in Paths
    /\ ask.tool \in {"grep", "tree"} => ~ask.dotted
    /\ ask.tool = "glob" => ask.scope = "root"
    /\ ask.engine = "gitleaks" => ask.tool = "secrets"

ScanTyped ==
    /\ CallTyped
    /\ tree \in [Paths -> [kind : Kinds, trait : Traits, lines : Nat]] /\ tree["app"].kind # "link"
    /\ found \in [Paths -> Nat] /\ rest \subseteq Paths /\ manifests.output \in Outputs
    /\ worker \in {"called", "walking", "walked", "blocked", "over"}
    /\ worker = "called" => found = [p \in Paths |-> 0]
    /\ worker # "over" => report = NoReport
    /\ worker \in {"walking", "walked"} => ask.tool \in {"glob", "grep", "secrets"}
    /\ worker = "walking" => ask.engine # "gitleaks"

WalkInv ==
    /\ worker \in {"walking", "walked"} =>
          \A p \in Paths : found[p] > 0 => tree[p].kind \notin {"away", "link"}
    /\ Walks /\ worker \in {"walking", "walked"} =>
          /\ rest \subseteq Candidates
          /\ \A p \in Paths : found[p] > 0 => MayShow(p)
          /\ \A p \in Candidates \ rest : Counted(p)
          /\ ask.tool # "glob" => /\ \A p \in rest : found[p] = 0
                                 /\ \A p \in Paths : found[p] > 0 =>
                                       p \in Candidates /\ IsText(p) /\ tree[p].lines > 0
          /\ worker = "walked" => rest = {} \/ Total >= Cap \/ (halted /\ ask.tool # "glob")

ScanInv == ScanTyped /\ WalkInv /\ ReportsAreTrue

LEMMA ThreePaths ==
    /\ "app" \in Paths /\ {"root", "lib"} \cap Paths = {}
    /\ \A f \in [Paths -> Nat] : AllOf(f) \in Nat /\ \A p \in Paths : f[p] <= AllOf(f)
    /\ \A f \in [Paths -> Nat], p \in Paths, v \in Nat :
          AllOf([f EXCEPT ![p] = v]) = AllOf(f) - f[p] + v
BY DEF Paths, AllOf

LEMMA ScanInitially == ScanInit => ScanInv
<1> SUFFICES ASSUME ScanInit PROVE ScanInv
    OBVIOUS
<1>1. worker = "called" /\ report = NoReport /\ found = [p \in Paths |-> 0] /\ rest = {}
    BY DEF ScanInit
<1>2. CallTyped
    <2>1. ask \in ScanCalls \cup Audits
        BY DEF ScanInit
    <2>2. CASE ask \in ScanCalls
        BY <2>2 DEF CallTyped, ScanCalls, Scan, Scopes, Paths
    <2>3. CASE ask \in Audits
        BY <2>3 DEF CallTyped, Audits, Scan, Scopes, Paths
    <2> QED
        BY <2>1, <2>2, <2>3
<1>3. tree \in [Paths -> [kind : Kinds, trait : Traits, lines : Nat]] /\ tree["app"].kind # "link"
    <2>1. \A e \in Entries : e \in [kind : Kinds, trait : Traits, lines : Nat]
        BY ScanningAssumption DEF Entries, Entry, Kinds, Traits
    <2>2. CASE tree \in Trees
        BY <2>1, <2>2 DEF Trees
    <2>3. CASE tree = NoTree
        BY <2>3, ThreePaths DEF NoTree, Entry, Kinds, Traits
    <2> QED
        BY <2>2, <2>3 DEF ScanInit
<1>4. ReportsAreTrue
    BY <1>1 DEF ReportsAreTrue, NothingIgnoredIsShown, NothingMissed, CleanLeavesOut, NoReport
<1>5. manifests.output \in Outputs
    <2>1. NoManifests.output \in Outputs
        BY DEF NoManifests, Outputs
    <2>2. \A s, l : [NoManifests EXCEPT !.state = s, !.line = l].output \in Outputs
        BY DEF NoManifests, Outputs
    <2>3. \A i, r : \A o \in Outputs :
             [NoManifests EXCEPT !.installed = i, !.rules = r, !.output = o].output \in Outputs
        BY DEF NoManifests, Outputs
    <2> QED
        BY <2>1, <2>2, <2>3 DEF ScanInit
<1> QED
    BY <1>1, <1>2, <1>3, <1>4, <1>5 DEF ScanInv, ScanTyped, WalkInv

(* Nothing is reported before the call is over.                            *)
LEMMA NotYetOver ==
    ASSUME worker' # "over", report' = NoReport
    PROVE  ReportsAreTrue'
BY DEF ReportsAreTrue, NothingIgnoredIsShown, NothingMissed, CleanLeavesOut, NoReport

(* A walk.                                                                 *)
LEMMA MayShowResolved ==
    ASSUME ScanTyped, NEW p \in IterFiles(ask.dotted)
    PROVE  Resolve(p) \in Paths /\ MayShow(Resolve(p))
BY ThreePaths DEF ScanTyped, IterFiles, Escapes, Ignored, Resolve, MayShow

LEMMA WalkCandidates ==
    ASSUME ScanTyped
    PROVE  /\ Candidates \subseteq Paths
           /\ \A p \in Candidates : StartsWith(p, ask.scope) /\ Resolve(p) \in Paths /\ MayShow(Resolve(p))
           /\ \A p \in IterFiles(ask.dotted) : StartsWith(p, ask.scope) => p \in Candidates
<1>1. CASE ask.scope \in Paths /\ tree[Resolve(ask.scope)].kind \in {"file", "large", "binary"}
    <2>1. Candidates = {Resolve(ask.scope)} /\ ask.scope \notin {"root", "lib"}
        BY <1>1, ThreePaths DEF Candidates
    <2>2. Resolve(ask.scope) \in Paths /\ Resolve(Resolve(ask.scope)) = Resolve(ask.scope)
        BY <1>1, ThreePaths DEF Resolve
    <2>3. MayShow(Resolve(ask.scope))
        BY <1>1, <2>2 DEF MayShow
    <2>4. \A p : StartsWith(p, ask.scope) <=> p = Resolve(ask.scope)
        BY <2>1 DEF StartsWith
    <2> QED
        BY <2>1, <2>2, <2>3, <2>4
<1>2. CASE ~(ask.scope \in Paths /\ tree[Resolve(ask.scope)].kind \in {"file", "large", "binary"})
    <2>1. Candidates = {p \in IterFiles(ask.dotted) : StartsWith(p, ask.scope)}
        BY <1>2 DEF Candidates
    <2>2. IterFiles(ask.dotted) \subseteq Paths
        BY DEF IterFiles
    <2> QED
        BY <2>1, <2>2, MayShowResolved
<1> QED
    BY <1>1, <1>2

(* What no step of a walk changes.                                         *)
LEMMA SameWalk ==
    ASSUME UNCHANGED <<tree, ask>>
    PROVE  /\ Walks' = Walks /\ Candidates' = Candidates /\ CallTyped' = CallTyped
           /\ \A p \in Paths : MayShow(p)' = MayShow(p) /\ Resolve(p)' = Resolve(p) /\ IsText(p)' = IsText(p)
BY DEF Walks, Candidates, CallTyped, IterFiles, StartsWith, Escapes, Ignored, Resolve, MayShow, IsText

LEMMA VisitWalks ==
    ASSUME ScanTyped, WalkInv, NEW p \in Paths, Visit(p)
    PROVE  found' \in [Paths -> Nat] /\ WalkInv'
<1>1. /\ worker = "walking" /\ p \in rest /\ Total < Cap /\ Cap \in Nat /\ Total = AllOf(found)
      /\ rest' = rest \ {p} /\ found' = Adds(p)
      /\ UNCHANGED <<tree, manifests, ask, halted, worker, report>>
    BY ScanningAssumption DEF Visit, Turn, Total
<1>2. /\ found \in [Paths -> Nat] /\ found[p] \in Nat /\ Total \in Nat
      /\ tree[p].lines \in Nat /\ tree[p].kind \in Kinds
    BY <1>1, ThreePaths DEF ScanTyped
<1>w. Walks
    BY <1>1 DEF ScanTyped, Walks
<1>s. /\ Candidates' = Candidates
      /\ \A q \in Paths : MayShow(q)' = MayShow(q) /\ Resolve(q)' = Resolve(q) /\ IsText(q)' = IsText(q)
    BY <1>1, SameWalk
<1>3. CASE ask.tool = "glob"
    <2>1. Resolve(p) \in Paths
        BY ThreePaths DEF Resolve
    <2>2. found' = [found EXCEPT ![Resolve(p)] = found[Resolve(p)] + 1]
        BY <1>1, <1>3 DEF Adds
    <2>3. /\ found' \in [Paths -> Nat] /\ found'[Resolve(p)] > 0
          /\ \A q \in Paths : q # Resolve(p) => found'[q] = found[q]
          /\ \A q \in Paths : found[q] > 0 => found'[q] > 0
        BY <1>2, <2>1, <2>2
    <2>4. p \in Candidates /\ rest \subseteq Candidates /\ MayShow(Resolve(p))
        BY <1>1, <1>w, WalkCandidates DEF WalkInv
    <2>5. \A q \in Paths : found'[q] > 0 => MayShow(q)
        BY <1>1, <1>w, <2>3, <2>4 DEF WalkInv
    <2>6. \A q \in Candidates \ rest' : found'[Resolve(q)] > 0
        <3>1. \A q \in Candidates \ rest : found[Resolve(q)] > 0 /\ Resolve(q) \in Paths
            BY <1>1, <1>3, <1>w, WalkCandidates DEF WalkInv, Counted
        <3> QED
            BY <1>1, <2>3, <3>1
    <2>7. WalkInv'
        <3>1. /\ ask'.tool = "glob" /\ worker' = "walking" /\ rest' \subseteq Candidates'
              /\ \A q \in Paths : found'[q] > 0 => MayShow(q)'
              /\ \A q \in Candidates' \ rest' : found'[Resolve(q)'] > 0
            BY <1>1, <1>3, <1>s, <2>4, <2>5, <2>6, WalkCandidates
        <3>2. \A q \in Paths : MayShow(q)' => tree'[q].kind \notin {"away", "link"}
            BY DEF MayShow
        <3> QED
            BY <3>1, <3>2 DEF WalkInv, Counted
    <2> QED
        BY <2>3, <2>7
<1>4. CASE ask.tool # "glob"
    <2> DEFINE v == IF IsText(p) THEN Least(tree[p].lines, Cap - Total) ELSE found[p]
    <2>1. v \in Nat /\ found' = [found EXCEPT ![p] = v]
        <3>1. Cap - Total \in Nat
            BY <1>1, <1>2
        <3>2. Least(tree[p].lines, Cap - Total) \in Nat
            BY <1>2, <3>1 DEF Least
        <3>3. CASE IsText(p)
            BY <1>1, <1>4, <3>2, <3>3 DEF Adds
        <3>4. CASE ~IsText(p)
            <4>1. found' = found /\ v = found[p]
                BY <1>1, <1>4, <3>4 DEF Adds
            <4> QED
                BY <1>2, <4>1
        <3> QED
            BY <3>3, <3>4
    <2>2. /\ found' \in [Paths -> Nat] /\ found'[p] = v
          /\ \A q \in Paths : q # p => found'[q] = found[q]
          /\ Total' = Total - found[p] + v
        <3> HIDE DEF v
        <3>1. /\ found' \in [Paths -> Nat] /\ found'[p] = v
              /\ \A q \in Paths : q # p => found'[q] = found[q]
            BY <1>2, <2>1
        <3>2. AllOf([found EXCEPT ![p] = v]) = AllOf(found) - found[p] + v
            BY <1>2, <2>1, ThreePaths
        <3>3. Total' = AllOf([found EXCEPT ![p] = v])
            BY <2>1 DEF Total, AllOf
        <3> QED
            BY <3>1, <3>2, <3>3 DEF Total
    <2>3. p \in Candidates /\ rest \subseteq Candidates /\ found[p] = 0 /\ MayShow(Resolve(p))
        BY <1>1, <1>4, <1>w, WalkCandidates DEF WalkInv
    <2>4. Total' = Total + v /\ (IsText(p) => v = IF tree[p].lines < Cap - Total THEN tree[p].lines ELSE Cap - Total)
          /\ (~IsText(p) => v = 0)
        BY <1>2, <2>1, <2>2, <2>3 DEF Least
    <2>5. Total' < Cap => Total < Cap /\ (IsText(p) => v = tree[p].lines)
        BY <1>1, <1>2, <2>1, <2>4
    <2>6. IsText(p) => MayShow(p)
        <3>1. IsText(p) => Resolve(p) = p
            BY DEF IsText, Resolve
        <3> QED
            BY <2>3, <3>1
    <2>7. v > 0 => IsText(p) /\ tree[p].lines > 0
        BY <1>1, <1>2, <2>4
    <2> HIDE DEF v
    <2>8. \A q \in Paths : found'[q] > 0 =>
             MayShow(q) /\ q \in Candidates /\ IsText(q) /\ tree[q].lines > 0
        <3>1. \A q \in Paths : found[q] > 0 =>
                 MayShow(q) /\ q \in Candidates /\ IsText(q) /\ tree[q].lines > 0
            BY <1>1, <1>4, <1>w DEF WalkInv
        <3> QED
            BY <2>2, <2>3, <2>6, <2>7, <3>1
    <2>9. \A q \in Candidates \ rest' : Total' < Cap /\ IsText(q) => found'[q] = tree[q].lines
        <3>1. \A q \in Candidates \ rest : Total < Cap /\ IsText(q) => found[q] = tree[q].lines
            BY <1>1, <1>4, <1>w DEF WalkInv, Counted
        <3>2. Candidates \subseteq Paths
            BY WalkCandidates
        <3> QED
            BY <1>1, <2>2, <2>5, <3>1, <3>2
    <2>10. \A q \in rest' : found'[q] = 0
        BY <1>1, <1>4, <1>w, <2>2 DEF WalkInv, ScanTyped
    <2>11. WalkInv'
        <3>1. /\ ask'.tool # "glob" /\ worker' = "walking" /\ rest' \subseteq Candidates'
              /\ \A q \in Paths : found'[q] > 0 =>
                    MayShow(q)' /\ q \in Candidates' /\ IsText(q)' /\ tree'[q].lines > 0
              /\ \A q \in Candidates' \ rest' : Total' < Cap /\ IsText(q)' => found'[q] = tree'[q].lines
            <4>1. Candidates \subseteq Paths
                BY WalkCandidates
            <4> QED
                BY <1>1, <1>4, <1>s, <2>3, <2>8, <2>9, <4>1
        <3>2. \A q \in Paths : MayShow(q)' => tree'[q].kind \notin {"away", "link"}
            BY DEF MayShow
        <3> QED
            BY <2>10, <3>1, <3>2 DEF WalkInv, Counted
    <2> QED
        BY <2>2, <2>11
<1> QED
    BY <1>3, <1>4

(* A step that ends the call, without a new count.                         *)
LEMMA EndsTyped ==
    ASSUME ScanTyped, worker' = "over", UNCHANGED <<tree, manifests, ask, rest>>, found' \in [Paths -> Nat]
    PROVE  ScanTyped' /\ WalkInv'
BY SameWalk DEF ScanTyped, WalkInv

(* A step of a walk that changes neither what is counted nor what is left. *)
LEMMA WalksOn ==
    ASSUME ScanTyped, WalkInv, UNCHANGED <<tree, manifests, ask, rest, found, report>>,
           worker \in {"called", "walking"}, worker' \in {worker, "blocked"}
    PROVE  ScanTyped' /\ WalkInv' /\ ReportsAreTrue'
<1>1. ScanTyped'
    BY SameWalk DEF ScanTyped
<1>2. WalkInv'
    BY SameWalk DEF WalkInv, Counted, Total, AllOf, Resolve, IsText
<1> QED
    BY <1>1, <1>2, NotYetOver DEF ScanTyped

LEMMA ReadFileStep ==
    ASSUME ScanTyped, WalkInv, ReadFile
    PROVE  ScanTyped' /\ WalkInv' /\ ReportsAreTrue'
<1> DEFINE p == Resolve(ask.scope)
<1>1. /\ worker = "called" /\ ask.tool = "read" /\ ask.scope \in Paths
      /\ UNCHANGED <<tree, manifests, ask, halted, rest, found>>
    BY DEF ReadFile, ScanTyped, CallTyped
<1>2. CASE worker' = "blocked" /\ UNCHANGED report
    BY <1>1, <1>2, WalksOn
<1>3. CASE worker' = "over" /\ report'.status \in {"refused", "found"}
    <2>1. \A q \in Paths : report'.shown[q] > 0 => tree[q].kind = "file"
        BY <1>3 DEF ReadFile, Over, NoReport, IsText
    <2>2. ReportsAreTrue'
        BY <1>1, <1>3, <2>1 DEF ReportsAreTrue, NothingIgnoredIsShown, NothingMissed, CleanLeavesOut
    <2> QED
        BY <1>1, <1>3, <2>2, EndsTyped DEF ScanTyped
<1> QED
    BY <1>2, <1>3 DEF ReadFile, Over

LEMMA OutlineCounts ==
    ASSUME NEW i \in 1..5
    PROVE  /\ Cardinality(Outline(i)) \in Nat /\ Cardinality(Outline(5)) \in Nat
           /\ Cardinality(Outline(i)) <= Cardinality(Outline(5))
<1>1. Outline(i) \subseteq Outline(5) /\ Outline(5) \in SUBSET Nat /\ \A k \in Outline(5) : k <= 5
    BY DEF Outline
<1>2. IsFiniteSet(Outline(5))
    BY <1>1, FS_BoundedSetOfNaturals
<1> QED
    BY <1>1, <1>2, FS_Subset, FS_CardinalityType

LEMMA TreeStubStep ==
    ASSUME ScanTyped, WalkInv, TreeStub
    PROVE  ScanTyped' /\ WalkInv' /\ ReportsAreTrue'
<1> DEFINE cut == {i \in Outline(5) : Cardinality(Outline(i)) <= TreeMax}
<1>1. /\ worker = "called" /\ ask.tool = "tree" /\ worker' = "over" /\ ~ask.dotted
      /\ UNCHANGED <<tree, manifests, ask, halted, rest, found>>
      /\ report' = [status |-> "found", shown |-> [p \in Paths |-> IF \E i \in cut : OutlineOrder[i] = p THEN 1 ELSE 0],
                    capped |-> Cardinality(Outline(5)) >= TreeMax]
    BY DEF TreeStub, Over, ScanTyped, CallTyped
<1>2. ASSUME NEW p \in Paths, report'.shown[p] > 0
      PROVE  MayShow(p)
    <2>1. PICK i \in cut : OutlineOrder[i] = p
        BY <1>1, <1>2
    <2>2. Outlined(p)
        BY <2>1 DEF Outline
    <2> QED
        BY <2>2 DEF Outlined, MayShow, Ignored, Resolve
<1>3. ASSUME ~report'.capped, NEW p \in IterFiles(FALSE), tree[p].kind # "link"
      PROVE  report'.shown[p] > 0
    <2>1. p \in Paths /\ Outlined(p)
        BY <1>3 DEF IterFiles, Outlined, Escapes, Resolve
    <2>2. PICK i \in 1..5 : OutlineOrder[i] = p
        <3>1. OutlineOrder[2] = "lib/a" /\ OutlineOrder[4] = "lib2/b" /\ OutlineOrder[5] = "app"
            BY DEF OutlineOrder
        <3> QED
            BY <2>1, <3>1 DEF Paths
    <2>3. i \in Outline(5)
        BY <2>1, <2>2 DEF Outline
    <2>4. Cardinality(Outline(i)) <= TreeMax
        <3>1. ~(Cardinality(Outline(5)) >= TreeMax)
            BY <1>1, <1>3
        <3>2. /\ Cardinality(Outline(i)) \in Nat /\ Cardinality(Outline(5)) \in Nat
              /\ Cardinality(Outline(i)) <= Cardinality(Outline(5))
            BY OutlineCounts
        <3> QED
            BY <3>1, <3>2, ScanningAssumption
    <2>5. i \in cut
        BY <2>3, <2>4
    <2> HIDE DEF cut
    <2> QED
        BY <1>1, <2>1, <2>2, <2>5
<1>4. IterFiles(ask.dotted)' = IterFiles(FALSE)
    BY <1>1 DEF IterFiles, Escapes, Ignored, Resolve
<1>5. report'.status = "found"
    BY <1>1
<1>6. ReportsAreTrue'
    <2> HIDE DEF cut
    <2>1. NothingIgnoredIsShown'
        BY <1>1, <1>2, ThreePaths DEF NothingIgnoredIsShown, MayShow, ScanTyped, CallTyped, Resolve
    <2>2. NothingMissed'
        BY <1>1, <1>3, <1>4 DEF NothingMissed
    <2>3. CleanLeavesOut'
        BY <1>1, <1>5 DEF CleanLeavesOut
    <2> QED
        BY <2>1, <2>2, <2>3 DEF ReportsAreTrue
<1> QED
    BY <1>1, <1>6, EndsTyped DEF ScanTyped

LEMMA InstructionFilesStep ==
    ASSUME ScanTyped, WalkInv, InstructionFiles
    PROVE  ScanTyped' /\ WalkInv' /\ ReportsAreTrue'
<1> DEFINE From(q) == {p \in {"app", "lib/a"} : ~Escapes(p) /\ Resolve(p) = q /\ IsText(q)}
<1>1. /\ worker = "called" /\ ask.tool = "instructions" /\ worker' = "over"
      /\ UNCHANGED <<tree, manifests, ask, halted, rest, found>>
      /\ report' = [status |-> "found", shown |-> [q \in Paths |-> Cardinality(From(q))], capped |-> FALSE]
    BY DEF InstructionFiles, Over
<1>2. ASSUME NEW q \in Paths, report'.shown[q] > 0
      PROVE  tree[q].kind = "file"
    <2>1. Cardinality(From(q)) > 0
        BY <1>1, <1>2
    <2>2. From(q) # {}
        BY <2>1, FS_EmptySet
    <2> QED
        BY <2>2 DEF IsText
<1>3. report'.status = "found"
    BY <1>1
<1> HIDE DEF From
<1>4. ReportsAreTrue'
    BY <1>1, <1>2, <1>3 DEF ReportsAreTrue, NothingIgnoredIsShown, NothingMissed, CleanLeavesOut
<1> QED
    BY <1>1, <1>4, EndsTyped DEF ScanTyped

(* What is shown of no more than can be shown is all of it.                *)
LEMMA AllShown ==
    ASSUME NEW hits \in [Paths -> Nat], NEW shown \in [Paths -> Nat],
           \A p \in Paths : shown[p] <= hits[p], AllOf(shown) = AllOf(hits)
    PROVE  \A p \in Paths : shown[p] = hits[p]
BY DEF Paths, AllOf

LEMMA RipgrepStep ==
    ASSUME ScanTyped, WalkInv, Ripgrep
    PROVE  ScanTyped' /\ WalkInv' /\ ReportsAreTrue'
<1> DEFINE hits == [p \in Paths |-> IF RgSees(p) THEN tree[p].lines ELSE 0]
<1>1. /\ worker = "called" /\ ask.tool = "grep" /\ ask.engine = "rg" /\ worker' = "over"
      /\ found' = hits
      /\ UNCHANGED <<tree, manifests, ask, halted, rest>>
    BY DEF Ripgrep, Over
<1>2. hits \in [Paths -> Nat] /\ AllOf(hits) \in Nat /\ Cap \in Nat
    <2>1. hits \in [Paths -> Nat]
        BY DEF ScanTyped
    <2> QED
        BY <2>1, ThreePaths, ScanningAssumption
<1>3. PICK shown \in [Paths -> 0..Cap] :
         /\ AllOf(shown) = Least(AllOf(hits), Cap)
         /\ \A p \in Paths : shown[p] <= hits[p]
         /\ Over(IF \A p \in Paths : hits[p] = 0 THEN "nothing" ELSE "found", shown, AllOf(hits) >= Cap)
    BY DEF Ripgrep
<1>4. report'.shown = shown /\ report'.capped = (AllOf(hits) >= Cap) /\ shown \in [Paths -> Nat]
    BY <1>2, <1>3 DEF Over
<1>5. \A p \in Paths : hits[p] > 0 => RgSees(p)
    OBVIOUS
<1>h. \A p \in Paths : RgSees(p) => hits[p] = tree[p].lines
    OBVIOUS
<1> HIDE DEF hits
<1>6. NothingIgnoredIsShown'
    <2>1. ASSUME NEW p \in Paths, shown[p] > 0
          PROVE  IsText(p) /\ ((ask.scope \in Paths /\ p = Resolve(ask.scope)) \/ tree[p].trait \notin {"git", "hidden"})
        <3>1. shown[p] <= hits[p] /\ shown[p] \in Nat /\ hits[p] \in Nat
            BY <1>2, <1>3, <1>4
        <3>2. RgSees(p)
            BY <1>5, <2>1, <3>1
        <3> QED
            BY <3>2 DEF RgSees
    <2>2. \A p \in Paths : Resolve(p)' = Resolve(p)
        BY <1>1 DEF Resolve
    <2> QED
        BY <1>1, <1>4, <2>1, <2>2 DEF NothingIgnoredIsShown, IsText
<1>7. NothingMissed'
    <2> SUFFICES ASSUME ~(AllOf(hits) >= Cap), NEW p \in IterFiles(FALSE), IsText(p), Inside(p, ask.scope)
                 PROVE  shown[p] = tree[p].lines
        <3>2. IterFiles(ask.dotted)' = IterFiles(FALSE) /\ ask'.tool = "grep"
              /\ \A q \in Paths : /\ IsText(q)' = IsText(q) /\ Inside(q, ask.scope)' = Inside(q, ask.scope)
            BY <1>1 DEF IterFiles, Escapes, Ignored, Resolve, IsText, Inside, ScanTyped, CallTyped
        <3>3. IterFiles(FALSE) \subseteq Paths
            BY DEF IterFiles
        <3> QED
            BY <1>1, <1>4, <3>2, <3>3 DEF NothingMissed
    <2>1. p \in Paths /\ tree[p].trait \notin {"git", "hidden"}
        BY DEF IterFiles, Ignored, Resolve, IsText
    <2>2. RgSees(p)
        BY <2>1, ThreePaths DEF RgSees, Inside, ScanTyped, CallTyped, Scopes
    <2>3. AllOf(shown) = AllOf(hits)
        BY <1>2, <1>3 DEF Least
    <2> QED
        BY <1>2, <1>3, <1>4, <1>h, <2>1, <2>2, <2>3, AllShown
<1>8. CleanLeavesOut'
    BY <1>1 DEF CleanLeavesOut
<1> QED
    BY <1>1, <1>2, <1>6, <1>7, <1>8, EndsTyped DEF ReportsAreTrue

LEMMA GitleaksStep ==
    ASSUME ScanTyped, WalkInv, Gitleaks
    PROVE  ScanTyped' /\ WalkInv' /\ ReportsAreTrue'
<1>1. /\ worker = "called" /\ ask.tool = "secrets" /\ ask.engine = "gitleaks" /\ worker' = "walked"
      /\ UNCHANGED <<tree, manifests, ask, halted, rest, report>>
    BY DEF Gitleaks
<1>2. found' \in [Paths -> Nat]
    BY DEF Gitleaks, ScanTyped
<1>3. ScanTyped'
    BY <1>1, <1>2, SameWalk DEF ScanTyped
<1>5. \A p \in Paths : found'[p] > 0 => tree[p].kind = "file"
    BY DEF Gitleaks, IsText
<1>4. WalkInv'
    BY <1>1, <1>5 DEF WalkInv, Walks
<1> QED
    BY <1>1, <1>3, <1>4, NotYetOver DEF ScanTyped

LEMMA ListStep ==
    ASSUME ScanTyped, WalkInv, List
    PROVE  ScanTyped' /\ WalkInv' /\ ReportsAreTrue'
<1>1. /\ worker = "called" /\ ask.tool \in {"glob", "grep", "secrets"}
      /\ UNCHANGED <<tree, manifests, ask, halted, found>> /\ found = [p \in Paths |-> 0]
    BY DEF List, ScanTyped
<1>g. ask.engine # "gitleaks"
    BY DEF List
<1>2. CASE ask.scope \in Paths /\ Escapes(ask.scope)
    <2>1. worker' = "over" /\ report'.status = "refused" /\ UNCHANGED rest
        BY <1>2 DEF List, Over
    <2>2. ReportsAreTrue'
        <3>1. ask.tool # "secrets" /\ \A p \in Paths : report'.shown[p] = 0
            BY <1>1, <1>2 DEF List, Over, NoReport, ScanTyped, CallTyped
        <3> QED
            BY <1>1, <2>1, <3>1 DEF ReportsAreTrue, NothingIgnoredIsShown, NothingMissed, CleanLeavesOut
    <2> QED
        BY <1>1, <2>1, <2>2, EndsTyped DEF ScanTyped
<1>3. CASE ~(ask.scope \in Paths /\ Escapes(ask.scope))
    <2>1. worker' = "walking" /\ rest' = Candidates /\ UNCHANGED report
        BY <1>3 DEF List
    <2>2. Candidates \subseteq Paths
        BY WalkCandidates
    <2>3. ScanTyped'
        BY <1>1, <2>1, <2>2, <1>g, SameWalk DEF ScanTyped
    <2>4. WalkInv'
        <3>1. Candidates' = Candidates /\ Walks' = Walks
            BY <1>1, SameWalk
        <3>2. \A p \in Paths : found'[p] = 0
            BY <1>1
        <3> QED
            BY <2>1, <2>2, <3>1, <3>2 DEF WalkInv
    <2> QED
        BY <1>1, <2>1, <2>3, <2>4, NotYetOver DEF ScanTyped
<1> QED
    BY <1>2, <1>3

LEMMA WalkedStep ==
    ASSUME ScanTyped, WalkInv, Walked
    PROVE  ScanTyped' /\ WalkInv' /\ ReportsAreTrue'
<1>1. /\ worker = "walking" /\ worker' = "walked"
      /\ rest = {} \/ Total >= Cap \/ (halted /\ ask.tool # "glob")
      /\ UNCHANGED <<tree, manifests, ask, halted, rest, found, report>>
    BY DEF Walked
<1>2. ScanTyped'
    BY <1>1, SameWalk DEF ScanTyped
<1>3. WalkInv'
    BY <1>1, SameWalk DEF WalkInv, Counted, Total, AllOf, Resolve, IsText
<1> QED
    BY <1>1, <1>2, <1>3, NotYetOver DEF ScanTyped

LEMMA VisitStep ==
    ASSUME ScanTyped, WalkInv, NEW p \in Paths, Visit(p)
    PROVE  ScanTyped' /\ WalkInv' /\ ReportsAreTrue'
<1>1. /\ worker = "walking" /\ rest' = rest \ {p}
      /\ UNCHANGED <<tree, manifests, ask, halted, worker, report>>
    BY DEF Visit
<1>2. ScanTyped'
    BY <1>1, VisitWalks, SameWalk DEF ScanTyped
<1> QED
    BY <1>1, <1>2, VisitWalks, NotYetOver DEF ScanTyped

(* The report of a walk: the counts, but for the low-signal names.         *)
LEMMA SummariseStep ==
    ASSUME ScanTyped, WalkInv, Summarise
    PROVE  ScanTyped' /\ WalkInv' /\ ReportsAreTrue'
<1>1. /\ worker = "walked" /\ worker' = "over" /\ ask.tool \in {"glob", "grep", "secrets"}
      /\ UNCHANGED <<tree, manifests, ask, halted, rest, found>> /\ found \in [Paths -> Nat]
      /\ report'.status \in {"nothing", "found"} /\ report'.capped = Notice
      /\ report'.status = "nothing" <=> \A p \in Paths : Shown(p) = 0
      /\ \A p \in Paths : report'.shown[p] = Shown(p)
    BY DEF Summarise, Over, ScanTyped
<1>2. ASSUME Walks
      PROVE  /\ \A p \in Paths : found[p] > 0 => MayShow(p)
             /\ \A p \in Candidates \ rest : Counted(p)
             /\ rest = {} \/ Total >= Cap \/ (halted /\ ask.tool # "glob")
             /\ ask.tool # "glob" => \A p \in Paths : found[p] > 0 =>
                   p \in Candidates /\ IsText(p) /\ tree[p].lines > 0
    BY <1>1, <1>2 DEF WalkInv
<1>3. Total \in Nat /\ Cap \in Nat \ {0} /\ \A p \in Paths : found[p] \in Nat
    BY <1>1, ThreePaths, ScanningAssumption DEF Total
<1>c. /\ Candidates \subseteq Paths
      /\ \A p \in Candidates : StartsWith(p, ask.scope) /\ Resolve(p) \in Paths /\ MayShow(Resolve(p))
      /\ \A p \in IterFiles(ask.dotted) : StartsWith(p, ask.scope) => p \in Candidates
    BY WalkCandidates
<1>s. /\ Walks' = Walks /\ IterFiles(ask.dotted)' = IterFiles(ask.dotted)
      /\ \A p \in Paths : /\ Resolve(p)' = Resolve(p) /\ IsText(p)' = IsText(p)
                          /\ Inside(p, ask.scope)' = Inside(p, ask.scope) /\ MayShow(p)' = MayShow(p)
    BY <1>1, SameWalk DEF IterFiles, Inside, Escapes, Ignored, Resolve
<1>4. NothingIgnoredIsShown'
    <2>1. ASSUME NEW p \in Paths, Shown(p) > 0
          PROVE  tree[p].kind \notin {"away", "link"} /\ (ask.engine = "gitleaks" \/ MayShow(p))
        <3>1. found[p] > 0
            BY <1>3, <2>1 DEF Shown
        <3> QED
            BY <1>1, <1>2, <3>1 DEF WalkInv, Walks
    <2>2. \A p \in Paths : Resolve(p)' = Resolve(p)
        BY <1>s
    <2> QED
        BY <1>1, <2>1, <2>2 DEF NothingIgnoredIsShown, MayShow
<1>5. ASSUME ask.tool \in {"glob", "grep"}, ~Notice, ~halted
      PROVE  /\ Total < Cap
             /\ \A p \in IterFiles(ask.dotted) : StartsWith(p, ask.scope) => Counted(p)
             /\ \A p \in Paths : Shown(p) = found[p]
    <2>1. Total < Cap
        BY <1>3, <1>5 DEF Notice
    <2>2. Walks
        BY <1>1, <1>5 DEF Walks, ScanTyped, CallTyped
    <2>3. rest = {}
        BY <1>2, <1>3, <1>5, <2>1, <2>2
    <2> QED
        BY <1>2, <1>5, <1>c, <2>1, <2>2, <2>3 DEF Shown
<1>6. NothingMissed'
    <2> SUFFICES ASSUME ask.tool \in {"glob", "grep"}, ~Notice, ~halted, NEW p \in IterFiles(ask.dotted)
                 PROVE  /\ ask.tool = "glob" => Shown(Resolve(p)) > 0 /\ Resolve(p) \in Paths
                        /\ ask.tool = "grep" /\ IsText(p) /\ Inside(p, ask.scope) => Shown(p) = tree[p].lines
                        /\ p \in Paths
        BY <1>1, <1>s DEF NothingMissed
    <2>1. p \in Paths /\ Resolve(p) \in Paths
        BY ThreePaths DEF IterFiles, Resolve
    <2>2. ask.tool = "glob" \/ Inside(p, ask.scope) => StartsWith(p, ask.scope)
        BY DEF ScanTyped, CallTyped, StartsWith, Inside
    <2> QED
        BY <1>5, <2>1, <2>2 DEF Counted
<1>7. ASSUME ask.tool = "secrets", ask.engine = "builtin"
      PROVE  /\ (\A p \in Paths : Shown(p) = 0) /\ ~halted /\ ~(~ask.low /\ Total >= Cap) =>
                    \A p \in Dirty : PassedOver(p)
             /\ (\A p \in Dirty : PassedOver(p)) => \A p \in Paths : Shown(p) = 0
    <2>1. Walks /\ ask.dotted /\ ask.scope \notin Paths
        BY <1>7 DEF ScanTyped, CallTyped, Walks
    <2>2. ASSUME \A p \in Paths : Shown(p) = 0, ~halted, ~(~ask.low /\ Total >= Cap),
                 NEW p \in Dirty, ~PassedOver(p)
          PROVE  FALSE
        <3>1. p \in Paths /\ IsText(p) /\ tree[p].lines > 0 /\ StartsWith(p, ask.scope)
            BY <2>2 DEF Dirty, PassedOver, IsText
        <3>2. p \in IterFiles(TRUE)
            BY <2>2, <3>1 DEF PassedOver, IterFiles, Escapes, Ignored, Resolve, IsText
        <3>3. p \in Candidates
            BY <1>c, <2>1, <3>1, <3>2
        <3>4. ask.low => Total = 0
            <4> SUFFICES ASSUME ask.low
                         PROVE  Total = 0
                OBVIOUS
            <4>1. \A q \in Paths : found[q] = 0
                BY <2>2 DEF Shown
            <4> QED
                BY <4>1, ThreePaths DEF Total, AllOf, Paths
        <3>5. Total < Cap
            BY <1>3, <2>2, <3>4
        <3>6. rest = {}
            BY <1>2, <1>3, <2>1, <2>2, <3>5
        <3>7. found[p] = tree[p].lines
            BY <1>2, <1>7, <2>1, <3>1, <3>3, <3>5, <3>6 DEF Counted
        <3>8. Shown(p) = found[p]
            BY <2>2 DEF Shown, PassedOver
        <3> QED
            BY <2>2, <3>1, <3>7, <3>8
    <2>3. ASSUME \A p \in Dirty : PassedOver(p), NEW p \in Paths, Shown(p) # 0
          PROVE  FALSE
        <3>1. found[p] > 0 /\ ~(tree[p].trait = "low" /\ ~ask.low)
            BY <1>3, <1>7, <2>3 DEF Shown
        <3>2. p \in Candidates /\ IsText(p) /\ tree[p].lines > 0 /\ MayShow(p)
            BY <1>2, <1>7, <2>1, <3>1
        <3>3. p \in Dirty
            BY <1>c, <3>2 DEF Dirty, IsText
        <3>4. ~PassedOver(p)
            BY <2>1, <3>1, <3>2 DEF PassedOver, MayShow, IsText
        <3> QED
            BY <2>3, <3>3, <3>4
    <2> QED
        BY <2>2, <2>3
<1>8. CleanLeavesOut'
    <2>1. Dirty' = Dirty /\ Total' = Total /\ \A p \in Paths : PassedOver(p)' = PassedOver(p)
        BY <1>1 DEF Dirty, PassedOver, StartsWith, Resolve, Total, AllOf
    <2>2. Dirty \subseteq Paths
        BY DEF Dirty
    <2> QED
        BY <1>1, <1>7, <2>1, <2>2 DEF CleanLeavesOut
<1> QED
    BY <1>1, <1>4, <1>6, <1>8, EndsTyped DEF ReportsAreTrue, ScanTyped

LEMMA AuditStep ==
    ASSUME ScanTyped, WalkInv, DepsAudit \/ Semgrep
    PROVE  ScanTyped' /\ WalkInv' /\ ReportsAreTrue'
<1>1. /\ worker = "called" /\ ask.tool \in {"deps", "semgrep"} /\ worker' = "over"
      /\ UNCHANGED <<tree, manifests, ask, halted, rest, found>> /\ found \in [Paths -> Nat]
      /\ \A p \in Paths : report'.shown[p] = 0
    BY DEF DepsAudit, Semgrep, Over, NoReport, ScanTyped
<1>2. CleanLeavesOut'
    <2>1. CASE DepsAudit
        <3>1. ask.tool = "deps" /\ UNCHANGED <<ask, manifests>>
            BY <2>1 DEF DepsAudit
        <3>2. report'.status = "nothing" =>
                 /\ \E m \in ManifestFiles : manifests.state[m] # "absent"
                 /\ ~\E m \in Audited : manifests.state[m] = "away"
                 /\ ~\E m \in Audited : manifests.state[m] = "readable" /\ Unpinned(manifests.line[m])
            BY <2>1 DEF DepsAudit, Over
        <3> QED
            BY <3>1, <3>2 DEF CleanLeavesOut, ManifestFiles
    <2>2. CASE Semgrep
        <3>1. ask.tool = "semgrep" /\ UNCHANGED <<ask, manifests>>
            BY <2>2 DEF Semgrep
        <3>2. report'.status = "nothing" => /\ manifests.installed /\ manifests.rules
                                            /\ manifests.output \in {"clean", "empty"}
            BY <2>2 DEF Semgrep, Over, ScanTyped, Outputs
        <3> QED
            BY <3>1, <3>2 DEF CleanLeavesOut
    <2> QED
        BY <2>1, <2>2
<1>3. NothingIgnoredIsShown'
    BY <1>1 DEF NothingIgnoredIsShown
<1>4. NothingMissed'
    BY <1>1 DEF NothingMissed
<1> QED
    BY <1>1, <1>2, <1>3, <1>4, EndsTyped DEF ReportsAreTrue

LEMMA ScanStep == ScanInv /\ [ScanNext]_scanVars => ScanInv'
<1> SUFFICES ASSUME ScanTyped, WalkInv, ReportsAreTrue, [ScanNext]_scanVars
             PROVE  ScanTyped' /\ WalkInv' /\ ReportsAreTrue'
    BY DEF ScanInv
<1>1. ASSUME NEW p \in Paths, Block(p)
      PROVE  ScanTyped' /\ WalkInv' /\ ReportsAreTrue'
    BY <1>1, WalksOn DEF Block
<1>2. CASE HaltScan
    BY <1>2, WalksOn DEF HaltScan
<1>3. CASE UNCHANGED scanVars
    <2>1. ScanTyped' /\ WalkInv'
        BY <1>3, SameWalk DEF scanVars, ScanTyped, WalkInv, Counted, Total, AllOf, Resolve, IsText
    <2>2. ReportsAreTrue'
        <3>1. NothingIgnoredIsShown' /\ NothingMissed'
            BY <1>3 DEF scanVars, ReportsAreTrue, NothingIgnoredIsShown, NothingMissed,
                        IterFiles, Inside, Escapes, Ignored, Resolve, IsText
        <3>2. CleanLeavesOut'
            BY <1>3 DEF scanVars, ReportsAreTrue, CleanLeavesOut, Dirty, PassedOver, StartsWith, Resolve, Total, AllOf
        <3> QED
            BY <3>1, <3>2 DEF ReportsAreTrue
    <2> QED
        BY <2>1, <2>2
<1> QED
    BY <1>1, <1>2, <1>3, ReadFileStep, TreeStubStep, InstructionFilesStep, RipgrepStep, GitleaksStep, ListStep,
       WalkedStep, SummariseStep, AuditStep, VisitStep DEF ScanNext, Work

(* For any cap and any size of the outline: a report shows nothing ignored *)
(* or outside under any name a search came to it, but for the exceptions   *)
(* named, a list without a notice is the whole list, and what a clean      *)
(* report leaves out is what is listed there                               *)
(* (agent/workspace.py:136-183, 247-367, agent/tools/fs.py:129-270,        *)
(* agent/tools/security.py:144-217, 276-406).                              *)
THEOREM ReportsStayTrue == ScanSpec => []ReportsAreTrue
<1>1. ScanInv => ReportsAreTrue
    BY DEF ScanInv
<1> QED
    BY <1>1, ScanInitially, ScanStep, PTL DEF ScanSpec

(* Every file has no more matches than the cap, a walk finds no more in    *)
(* all, and a report is there when a call is over, of counts there can be. *)
ScanBounds ==
    /\ ask \in ScanCalls \cup Audits /\ halted \in BOOLEAN
    /\ \A p \in Paths : tree[p].lines <= Cap /\ found[p] <= Cap
    /\ worker \in {"walking", "blocked"} => Total <= Cap
    /\ report.status \in {"none", "found", "nothing", "refused", "failed", "no-manifest", "no-scan"}
    /\ worker = "over" <=> report.status # "none"
    /\ \A p \in Paths : report.shown[p] \in 0..Cardinality(Paths) * Cap

LEMMA WithinCap ==
    /\ Cap \in Nat /\ Cap >= 1
    /\ \A n \in Nat : n <= Cap \/ n <= 2 => n \in 0..Cardinality(Paths) * Cap
<1>1. Cardinality(Paths) = 3
    <2>1. Cardinality({"app"}) = 1 /\ IsFiniteSet({"app"})
        BY FS_Singleton
    <2>2. Cardinality({"app"} \cup {"lib/a"}) = 2 /\ IsFiniteSet({"app"} \cup {"lib/a"})
        BY <2>1, FS_AddElement
    <2>3. Cardinality(({"app"} \cup {"lib/a"}) \cup {"lib2/b"}) = 3
        BY <2>2, FS_AddElement
    <2>4. Paths = ({"app"} \cup {"lib/a"}) \cup {"lib2/b"}
        BY DEF Paths
    <2> QED
        BY <2>3, <2>4
<1>2. Cap \in Nat /\ Cap >= 1
    BY ScanningAssumption
<1> QED
    BY <1>1, <1>2

LEMMA BoundsInitially == ScanInit => ScanBounds
<1> SUFFICES ASSUME ScanInit PROVE ScanBounds
    OBVIOUS
<1>1. \A p \in Paths : tree[p].lines <= Cap
    <2>1. \A e \in Entries : e.lines <= Cap
        BY WithinCap DEF Entries, Entry
    <2>2. CASE tree \in Trees
        BY <2>1, <2>2 DEF Trees
    <2>3. CASE tree = NoTree
        BY <2>3, WithinCap DEF NoTree, Entry
    <2> QED
        BY <2>2, <2>3 DEF ScanInit
<1>2. found = [p \in Paths |-> 0] /\ worker = "called" /\ report = NoReport /\ halted = FALSE
    BY DEF ScanInit
<1>3. report.status = "none" /\ \A p \in Paths : report.shown[p] = 0
    BY <1>2 DEF NoReport
<1>4. ask \in ScanCalls \cup Audits
    BY DEF ScanInit
<1>5. \A p \in Paths : found[p] <= Cap
    BY <1>2, WithinCap
<1> QED
    BY <1>1, <1>2, <1>3, <1>4, <1>5, WithinCap DEF ScanBounds

(* A call that ends reports counts that there can be.                      *)
LEMMA EndsBounded ==
    ASSUME ScanBounds, NEW verdict \in {"found", "nothing", "refused", "failed", "no-manifest", "no-scan"},
           NEW shown, NEW capped, Over(verdict, shown, capped), UNCHANGED <<tree, ask, halted>>,
           \A p \in Paths : found'[p] <= Cap,
           \A p \in Paths : shown[p] \in Nat /\ (shown[p] <= Cap \/ shown[p] <= 2)
    PROVE  ScanBounds'
<1>1. worker' = "over" /\ report'.status = verdict /\ report'.shown = shown
    BY DEF Over
<1> QED
    BY <1>1, WithinCap DEF ScanBounds

LEMMA EndsEmpty ==
    ASSUME ScanBounds, NEW verdict \in {"found", "nothing", "refused", "failed", "no-manifest", "no-scan"},
           Over(verdict, NoReport.shown, FALSE), UNCHANGED <<tree, ask, halted, found>>
    PROVE  ScanBounds'
<1>1. \A p \in Paths : NoReport.shown[p] = 0
    BY DEF NoReport
<1>2. worker' = "over" /\ report'.status = verdict /\ \A p \in Paths : report'.shown[p] = 0
    BY <1>1 DEF Over
<1> QED
    BY <1>2, WithinCap DEF ScanBounds

LEMMA BoundsStep == ScanInv /\ ScanBounds /\ [ScanNext]_scanVars => ScanBounds'
<1> SUFFICES ASSUME ScanTyped, ScanBounds, [ScanNext]_scanVars
             PROVE  ScanBounds'
    BY DEF ScanInv
<1>a. /\ found \in [Paths -> Nat] /\ \A p \in Paths : found[p] <= Cap
      /\ \A p \in Paths : tree[p].lines \in Nat /\ tree[p].lines <= Cap
      /\ \A p \in Paths : Resolve(p) \in Paths
    BY ThreePaths DEF ScanTyped, ScanBounds, Resolve
<1>1. CASE ReadFile
    <2> DEFINE p == Resolve(ask.scope)
    <2>1. p \in Paths /\ UNCHANGED <<tree, ask, halted, found>> /\ worker = "called"
        BY <1>1, <1>a DEF ReadFile, ScanTyped, CallTyped
    <2>2. CASE tree[p].kind = "pipe"
        <3>1. worker' = "blocked" /\ UNCHANGED report
            BY <1>1, <2>2 DEF ReadFile
        <3>2. found = [q \in Paths |-> 0]
            BY <2>1 DEF ScanTyped
        <3>3. Total' = 0
            BY <2>1, <3>2, ThreePaths DEF Total, AllOf, Paths
        <3> QED
            BY <2>1, <3>1, <3>3, WithinCap DEF ScanBounds
    <2>3. CASE Over("refused", NoReport.shown, FALSE)
        BY <2>1, <2>3, EndsEmpty
    <2>4. CASE Over("found", [NoReport.shown EXCEPT ![p] = tree[p].lines], FALSE)
        <3> DEFINE shown == [NoReport.shown EXCEPT ![p] = tree[p].lines]
        <3>1. \A q \in Paths : shown[q] \in Nat /\ (shown[q] <= Cap \/ shown[q] <= 2)
            BY <1>a, <2>1, WithinCap DEF NoReport
        <3> HIDE DEF shown, p
        <3>2. Over("found", shown, FALSE)
            BY <2>4 DEF shown, p
        <3> QED
            BY <1>a, <2>1, <3>1, <3>2, EndsBounded
    <2> QED
        BY <1>1, <2>2, <2>3, <2>4 DEF ReadFile
<1>2. CASE TreeStub
    <2>1. PICK shown, capped : /\ Over("found", shown, capped) /\ UNCHANGED <<tree, ask, halted, found>>
                               /\ \A p \in Paths : shown[p] \in {0, 1}
        BY <1>2 DEF TreeStub
    <2> QED
        BY <1>a, <2>1, EndsBounded
<1>3. CASE InstructionFiles
    <2> DEFINE From(q) == {p \in {"app", "lib/a"} : ~Escapes(p) /\ Resolve(p) = q /\ IsText(q)}
               shown == [q \in Paths |-> Cardinality(From(q))]
    <2>1. Over("found", shown, FALSE) /\ UNCHANGED <<tree, ask, halted, found>>
        BY <1>3 DEF InstructionFiles
    <2>2. ASSUME NEW q \in Paths
          PROVE  Cardinality(From(q)) \in Nat /\ Cardinality(From(q)) <= 2
        <3>1. Cardinality({"app"}) = 1 /\ IsFiniteSet({"app"})
            BY FS_Singleton
        <3>2. Cardinality({"app"} \cup {"lib/a"}) = 2 /\ IsFiniteSet({"app"} \cup {"lib/a"})
            BY <3>1, FS_AddElement
        <3>3. From(q) \subseteq {"app"} \cup {"lib/a"}
            OBVIOUS
        <3> QED
            BY <3>2, <3>3, FS_Subset, FS_CardinalityType
    <2>3. \A q \in Paths : shown[q] \in Nat /\ (shown[q] <= Cap \/ shown[q] <= 2)
        BY <2>2
    <2> HIDE DEF shown
    <2> QED
        BY <1>a, <2>1, <2>3, EndsBounded
<1>4. CASE Ripgrep
    <2> DEFINE hits == [p \in Paths |-> IF RgSees(p) THEN tree[p].lines ELSE 0]
    <2>1. PICK shown \in [Paths -> 0..Cap] :
              \E verdict \in {"nothing", "found"} : Over(verdict, shown, AllOf(hits) >= Cap)
        <3>1. PICK shown \in [Paths -> 0..Cap] :
                 Over(IF \A p \in Paths : hits[p] = 0 THEN "nothing" ELSE "found", shown, AllOf(hits) >= Cap)
            BY <1>4 DEF Ripgrep
        <3> HIDE DEF hits
        <3>2. CASE \A p \in Paths : hits[p] = 0
            BY <3>1, <3>2
        <3>3. CASE ~\A p \in Paths : hits[p] = 0
            BY <3>1, <3>3
        <3> QED
            BY <3>2, <3>3
    <2>2. found' = hits /\ UNCHANGED <<tree, ask, halted>>
        BY <1>4 DEF Ripgrep
    <2>3. \A p \in Paths : hits[p] \in Nat /\ hits[p] <= Cap
        BY <1>a, WithinCap
    <2>4. \A p \in Paths : shown[p] \in Nat /\ shown[p] <= Cap
        BY WithinCap
    <2> HIDE DEF hits
    <2> QED
        BY <2>1, <2>2, <2>3, <2>4, EndsBounded
<1>5. CASE Gitleaks
    <2>1. /\ \A p \in Paths : found'[p] = tree[p].lines \/ found'[p] = 0
          /\ worker = "called" /\ worker' = "walked" /\ UNCHANGED <<tree, ask, halted, report>>
        BY <1>5 DEF Gitleaks
    <2> QED
        BY <1>a, <2>1, WithinCap DEF ScanBounds
<1>6. CASE List
    <2>1. UNCHANGED <<tree, ask, halted, found>> /\ worker = "called"
        BY <1>6 DEF List
    <2>2. CASE Over("refused", NoReport.shown, FALSE)
        BY <2>1, <2>2, EndsEmpty
    <2>3. CASE worker' = "walking" /\ UNCHANGED report
        <3>1. found = [q \in Paths |-> 0]
            BY <2>1 DEF ScanTyped
        <3>2. Total' = 0
            BY <2>1, <3>1, ThreePaths DEF Total, AllOf, Paths
        <3> QED
            BY <2>1, <2>3, <3>2, WithinCap DEF ScanBounds
    <2> QED
        BY <1>6, <2>2, <2>3 DEF List
<1>7. CASE Summarise
    <2> DEFINE shown == [p \in Paths |-> Shown(p)]
    <2>1. PICK verdict, capped : verdict \in {"nothing", "found"} /\ Over(verdict, shown, capped)
        <3>1. Over(IF \A p \in Paths : shown[p] = 0 THEN "nothing" ELSE "found", shown, Notice)
            BY <1>7 DEF Summarise
        <3>2. CASE \A p \in Paths : shown[p] = 0
            <4>1. Over("nothing", shown, Notice)
                BY <3>1, <3>2
            <4> QED
                BY <4>1
        <3>3. CASE ~\A p \in Paths : shown[p] = 0
            <4>1. Over("found", shown, Notice)
                BY <3>1, <3>3
            <4> QED
                BY <4>1
        <3> QED
            BY <3>2, <3>3
    <2>2. UNCHANGED <<tree, ask, halted, found>>
        BY <1>7 DEF Summarise
    <2>3. \A p \in Paths : shown[p] \in Nat /\ shown[p] <= Cap
        BY <1>a, WithinCap DEF Shown
    <2> HIDE DEF shown
    <2> QED
        BY <1>a, <2>1, <2>2, <2>3, EndsBounded
<1>8. CASE DepsAudit \/ Semgrep
    <2>1. PICK verdict \in {"found", "nothing", "failed", "no-manifest", "no-scan"} :
              Over(verdict, NoReport.shown, FALSE) /\ UNCHANGED <<tree, ask, halted, found>>
        BY <1>8 DEF DepsAudit, Semgrep
    <2> QED
        BY <2>1, EndsEmpty
<1>9. ASSUME NEW p \in Paths, Visit(p)
      PROVE  ScanBounds'
    <2>1. /\ worker = "walking" /\ worker' = "walking" /\ Total < Cap /\ found' = Adds(p)
          /\ UNCHANGED <<tree, ask, halted, report>>
        BY <1>9 DEF Visit
    <2>2. Total \in Nat
        BY <1>a, ThreePaths DEF Total
    <2>3. found' \in [Paths -> Nat] /\ AllOf(found') <= Cap
        <3>1. CASE ask.tool = "glob"
            <4>1. found' = [found EXCEPT ![Resolve(p)] = found[Resolve(p)] + 1]
                BY <2>1, <3>1 DEF Adds
            <4>2. AllOf(found') = Total + 1
                <5> DEFINE q == Resolve(p)
                <5>1. q \in Paths /\ found[q] \in Nat /\ found[q] + 1 \in Nat
                    BY <1>a
                <5> HIDE DEF q
                <5>2. AllOf([found EXCEPT ![q] = found[q] + 1]) = AllOf(found) - found[q] + (found[q] + 1)
                    BY <1>a, <5>1, ThreePaths
                <5> QED
                    BY <2>2, <4>1, <5>1, <5>2 DEF Total, q
            <4> QED
                BY <1>a, <2>1, <2>2, <4>1, <4>2, WithinCap
        <3>2. CASE ask.tool # "glob" /\ IsText(p)
            <4> DEFINE v == Least(tree[p].lines, Cap - Total)
            <4>1. v \in Nat /\ v <= Cap - Total
                BY <1>a, <2>1, <2>2, WithinCap DEF Least
            <4>2. found' = [found EXCEPT ![p] = v]
                BY <2>1, <3>2 DEF Adds
            <4> HIDE DEF v
            <4>3. AllOf(found') = Total - found[p] + v
                BY <1>a, <4>1, <4>2, ThreePaths DEF Total
            <4>4. found' \in [Paths -> Nat] /\ found[p] \in Nat
                BY <1>a, <4>1, <4>2
            <4> QED
                BY <2>2, <4>1, <4>3, <4>4, WithinCap
        <3>3. CASE ask.tool # "glob" /\ ~IsText(p)
            <4>1. found' = found
                BY <2>1, <3>3 DEF Adds
            <4> QED
                BY <1>a, <2>1, <2>2, <4>1, WithinCap DEF Total
        <3> QED
            BY <3>1, <3>2, <3>3
    <2>4. \A q \in Paths : found'[q] <= Cap
        <3>1. AllOf(found') \in Nat /\ \A q \in Paths : found'[q] \in Nat /\ found'[q] <= AllOf(found')
            BY <2>3, ThreePaths
        <3> QED
            BY <2>3, <3>1, WithinCap
    <2> QED
        BY <2>1, <2>3, <2>4 DEF ScanBounds, Total
<1>10. ASSUME NEW p \in Paths, Block(p)
       PROVE  ScanBounds'
    BY <1>10 DEF Block, ScanBounds, Total
<1>11. CASE Walked
    BY <1>11 DEF Walked, ScanBounds, Total
<1>12. CASE HaltScan
    BY <1>12 DEF HaltScan, ScanBounds, Total
<1>13. CASE UNCHANGED scanVars
    BY <1>13 DEF scanVars, ScanBounds, Total
<1> QED
    BY <1>1, <1>2, <1>3, <1>4, <1>5, <1>6, <1>7, <1>8, <1>9, <1>10, <1>11, <1>12, <1>13 DEF ScanNext, Work

LEMMA BoundsAreTypes == ScanInv /\ ScanBounds => ScanTypeOK
BY DEF ScanInv, ScanTyped, ScanBounds, ScanTypeOK, Total

(* A scan has its types, for any cap: a walk never holds more matches than *)
(* the cap, and it reports when it is over and not before                  *)
(* (agent/tools/fs.py, agent/tools/security.py).                           *)
THEOREM ScanTypeCorrect == ScanSpec => []ScanTypeOK
<1>1. ScanInit => ScanInv /\ ScanBounds
    BY ScanInitially, BoundsInitially
<1>2. ScanInv /\ ScanBounds /\ [ScanNext]_scanVars => ScanInv' /\ ScanBounds'
    BY ScanStep, BoundsStep
<1> QED
    BY <1>1, <1>2, BoundsAreTypes, PTL DEF ScanSpec

-----------------------------------------------------------------------------
(* The evaluation, for any scale of a rate, any length of a response and   *)
(* any number of runs and rescorings.                                      *)

LEMMA LeastOf ==
    ASSUME NEW n \in Nat, NEW S \in SUBSET (1..n), S # {}
    PROVE  \E i \in S : \A j \in S : i <= j
<1>1. IsFiniteSet(S) /\ Cardinality(S) \in Nat /\ Cardinality(S) # 0
    BY RankIsOnto, FS_EmptySet
<1>2. 1 \in 1..Cardinality(S)
    BY <1>1
<1>3. PICK i \in S : Cardinality({j \in S : j <= i}) = 1
    BY <1>2, RankIsOnto
<1>4. IsFiniteSet({j \in S : j <= i}) /\ i \in {j \in S : j <= i}
    <2>1. {j \in S : j <= i} \subseteq S /\ i \in Int
        OBVIOUS
    <2> QED
        BY <1>1, <2>1, FS_Subset
<1>5. PICK x : {j \in S : j <= i} = {x}
    BY <1>3, <1>4, FS_Singleton
<1>6. \A j \in S : i <= j
    <2>1. \A j \in S : j \in Int /\ (j <= i => j = i)
        BY <1>4, <1>5
    <2> QED
        BY <2>1
<1> QED
    BY <1>6

(* The first of some places is the letter of one of them.                  *)
LEMMA FirstNames ==
    ASSUME NEW text \in Seq(Tokens), NEW S \in SUBSET (DOMAIN text)
    PROVE  /\ S = {} => FirstOf(text, S) = "none"
           /\ S # {} => \E i \in S : FirstOf(text, S) = LetterOf(text[i]) /\ \A j \in S : i <= j
<1>1. {i \in DOMAIN text : i \in S} = S /\ Len(text) \in Nat /\ DOMAIN text = 1..Len(text)
    OBVIOUS
<1>2. CASE S = {}
    BY <1>1, <1>2 DEF FirstOf
<1>3. CASE S # {}
    <2>1. \E i \in S : \A j \in S : i <= j
        BY <1>1, <1>3, LeastOf
    <2>2. FirstOf(text, S) = LetterOf(text[CHOOSE i \in S : \A j \in S : i <= j])
        BY <1>1, <1>3 DEF FirstOf
    <2> QED
        BY <2>1, <2>2
<1> QED
    BY <1>2, <1>3

(* The letter of a response: one it names, the article, or none.           *)
LEMMA SoleLetter ==
    ASSUME NEW text \in Seq(Tokens)
    PROVE  LET named == {LetterOf(t) : t \in ToSet(text) \cap Options} IN
           /\ Letter(text) = RightOption => RightOption \in named
           /\ Cardinality(named) <= 1 =>
                 (Letter(text) = RightOption <=> named = {RightOption} /\ ~Distracting(text))
<1> DEFINE named == {LetterOf(t) : t \in ToSet(text) \cap Options}
           letters == {i \in DOMAIN text : text[i] \in Options}
           said == {i \in DOMAIN text : i > 1 /\ text[i - 1] = "answer" /\ text[i] \in Options \cup {"a"}}
           syntax == {i \in letters : text[i] = "B)"}
<1>1. named \subseteq {"A", "B"}
    BY DEF LetterOf, Options
<1>2. IsFiniteSet(named)
    <2>1. IsFiniteSet({"A"}) /\ IsFiniteSet({"B"})
        BY FS_Singleton
    <2>2. IsFiniteSet({"A"} \cup {"B"})
        BY <2>1, FS_Union
    <2>3. {"A"} \cup {"B"} = {"A", "B"}
        OBVIOUS
    <2> QED
        BY <1>1, <2>2, <2>3, FS_Subset
<1>3. \A i \in letters : LetterOf(text[i]) \in named
    BY DEF ToSet
<1>4. letters = {} => named = {}
    BY DEF ToSet
<1>d. DOMAIN text = 1..Len(text) /\ Len(text) \in Nat
    OBVIOUS
<1>l. /\ 1 \in letters => Letter(text) = FirstOf(text, {1})
      /\ 1 \notin letters /\ said # {} => Letter(text) = FirstOf(text, said)
      /\ 1 \notin letters /\ said = {} /\ syntax # {} => Letter(text) = FirstOf(text, syntax)
      /\ 1 \notin letters /\ said = {} /\ syntax = {} => Letter(text) = FirstOf(text, letters)
    BY DEF Letter
<1>f. \A S \in SUBSET (DOMAIN text) :
         /\ S = {} => FirstOf(text, S) = "none"
         /\ S # {} => \E i \in S : FirstOf(text, S) = LetterOf(text[i]) /\ \A j \in S : i <= j
    BY FirstNames
<1>s. /\ said \in SUBSET (DOMAIN text) /\ syntax \in SUBSET letters /\ letters \in SUBSET (DOMAIN text)
      /\ (1 \in letters => {1} \in SUBSET letters)
    OBVIOUS
(* Without a letter at the start, the first place that answer leads to.    *)
<1>5. ASSUME 1 \notin letters, said # {}
      PROVE  \/ Letter(text) \in named /\ ~Distracting(text)
             \/ Letter(text) = "a" /\ Distracting(text)
    <2>1. PICK k \in said : Letter(text) = LetterOf(text[k]) /\ \A j \in said : k <= j
        BY <1>5, <1>l, <1>f, <1>s
    <2>2. /\ k \in DOMAIN text /\ k \in Nat /\ k > 1 /\ text[k - 1] = "answer"
          /\ text[k] \in Options \cup {"a"}
        BY <1>d, <2>1
    <2>3. CASE text[k] = "a"
        <3>1. \A j \in 1..(k - 1) : text[j] \in Options => j > 1 /\ text[j - 1] # "answer"
            <4> SUFFICES ASSUME NEW j \in 1..(k - 1), text[j] \in Options
                         PROVE  j > 1 /\ text[j - 1] # "answer"
                OBVIOUS
            <4>1. j \in DOMAIN text /\ j < k /\ j \in Nat /\ j >= 1
                BY <1>d, <2>2
            <4>2. j \in letters /\ j # 1
                BY <1>5, <4>1
            <4>3. j \notin said
                BY <2>1, <2>2, <4>1
            <4> QED
                BY <4>1, <4>2, <4>3
        <3>2. Distracting(text)
            BY <2>2, <2>3, <3>1 DEF Distracting
        <3> QED
            BY <2>1, <2>3, <3>2 DEF LetterOf
    <2>4. CASE text[k] \in Options
        <3>1. Letter(text) \in named
            BY <1>3, <2>1, <2>2, <2>4
        <3>2. ASSUME Distracting(text)
              PROVE  FALSE
            <4>1. PICK i \in DOMAIN text \ {1} :
                     /\ text[i] = "a" /\ text[i - 1] = "answer"
                     /\ \A j \in 1..(i - 1) : text[j] \in Options => j > 1 /\ text[j - 1] # "answer"
                BY <3>2 DEF Distracting
            <4>2. i \in said /\ i \in Nat /\ i > 1
                BY <1>d, <4>1
            <4>3. k <= i /\ k # i
                BY <2>1, <2>4, <4>1, <4>2 DEF Options
            <4>4. k \in 1..(i - 1)
                BY <2>2, <4>2, <4>3
            <4> QED
                BY <2>2, <2>4, <4>1, <4>4
        <3> QED
            BY <3>1, <3>2
    <2> QED
        BY <2>2, <2>3, <2>4
(* In every other case nothing distracts.                                  *)
<1>6. ASSUME 1 \in letters \/ said = {}
      PROVE  ~Distracting(text)
    <2> SUFFICES ASSUME Distracting(text)
                 PROVE  FALSE
        OBVIOUS
    <2>1. PICK i \in DOMAIN text \ {1} :
             /\ text[i] = "a" /\ text[i - 1] = "answer"
             /\ \A j \in 1..(i - 1) : text[j] \in Options => j > 1 /\ text[j - 1] # "answer"
        BY DEF Distracting
    <2>2. i \in said /\ i \in Nat /\ 1 \in 1..(i - 1)
        BY <1>d, <2>1
    <2> QED
        BY <1>6, <2>1, <2>2
<1>7. ASSUME 1 \in letters \/ said = {}, letters # {}
      PROVE  Letter(text) \in named
    <2>1. \A S \in SUBSET letters : S # {} => FirstOf(text, S) \in named
        BY <1>3, <1>f, <1>s
    <2> HIDE DEF said, syntax, letters, named
    <2>2. CASE 1 \in letters
        BY <1>l, <1>s, <2>1, <2>2
    <2>3. CASE 1 \notin letters /\ syntax # {}
        BY <1>7, <1>l, <1>s, <2>1, <2>3
    <2>4. CASE 1 \notin letters /\ syntax = {}
        BY <1>7, <1>l, <2>1, <2>4
    <2> QED
        BY <2>2, <2>3, <2>4
<1>8. ASSUME said = {}, letters = {}
      PROVE  Letter(text) = "none"
    <2> HIDE DEF said, letters
    <2>1. 1 \notin letters /\ syntax = {}
        BY <1>8
    <2> QED
        BY <1>8, <1>l, <1>f, <1>s, <2>1
<1>9. Cardinality(named) <= 1 /\ named # {} => \E x : named = {x}
    <2>1. Cardinality(named) \in Nat /\ (named # {} => Cardinality(named) # 0)
        BY <1>2, FS_CardinalityType, FS_EmptySet
    <2> HIDE DEF named
    <2> SUFFICES ASSUME Cardinality(named) <= 1, named # {}
                 PROVE  \E x : named = {x}
        OBVIOUS
    <2>2. Cardinality(named) = 1
        BY <2>1
    <2> QED
        BY <1>2, <2>2, FS_Singleton
<1> HIDE DEF named, letters, said
<1>10. \/ Letter(text) \in named /\ ~Distracting(text)
       \/ Letter(text) = "a" /\ Distracting(text)
       \/ Letter(text) = "none" /\ named = {}
    BY <1>4, <1>5, <1>6, <1>7, <1>8
<1>11. /\ Letter(text) = RightOption => RightOption \in named
       /\ Cardinality(named) <= 1 =>
             (Letter(text) = RightOption <=> named = {RightOption} /\ ~Distracting(text))
    BY <1>9, <1>10 DEF RightOption
<1> QED
    BY <1>11 DEF named

(* What is matched of a few terms.                                         *)
LEMMA MatchedCounts ==
    ASSUME NEW text, NEW terms, IsFiniteSet(terms)
    PROVE  /\ Matched(text, terms) \in Nat /\ Matched(text, terms) <= Cardinality(terms)
           /\ Matched(text, terms) > 0 <=> \E t \in terms : TermPresent(text, t)
           /\ (\A t \in terms : TermPresent(text, t)) => Matched(text, terms) = Cardinality(terms)
<1> DEFINE there == {t \in terms : TermPresent(text, t)}
<1>1. IsFiniteSet(there) /\ Cardinality(there) \in Nat /\ Cardinality(there) <= Cardinality(terms)
    <2>1. there \subseteq terms
        OBVIOUS
    <2> QED
        BY <2>1, FS_Subset, FS_CardinalityType
<1>2. Cardinality(there) = 0 <=> there = {}
    BY <1>1, FS_EmptySet
<1>3. Matched(text, terms) = Cardinality(there)
    BY DEF Matched
<1>4. (\A t \in terms : TermPresent(text, t)) => there = terms
    OBVIOUS
<1> QED
    BY <1>1, <1>2, <1>3, <1>4

LEMMA FewTerms ==
    /\ IsFiniteSet(Forbidden) /\ IsFiniteSet(RequiredAll) /\ IsFiniteSet(RequiredAny) /\ IsFiniteSet(Keywords)
    /\ Cardinality(RequiredAll) = 1 /\ Cardinality(Keywords) = 2
<1>1. IsFiniteSet({"T1"}) /\ IsFiniteSet({"T1.1"}) /\ Cardinality({"T1.1"}) = 1
      /\ IsFiniteSet({"key"}) /\ IsFiniteSet({"hedge"}) /\ Cardinality({"key"}) = 1 /\ Cardinality({"T1"}) = 1
    BY FS_Singleton
<1>2. IsFiniteSet({"key"} \cup {"hedge"}) /\ IsFiniteSet({"key"} \cup {"T1"})
    BY <1>1, FS_Union
<1>3. Cardinality({"key"} \cup {"T1"}) = 2
    <2>1. {"key"} \cap {"T1"} = {} /\ Cardinality({}) = 0
        BY FS_EmptySet
    <2>2. Cardinality({"key"} \cup {"T1"}) =
              Cardinality({"key"}) + Cardinality({"T1"}) - Cardinality({"key"} \cap {"T1"})
        BY <1>1, FS_Union
    <2> QED
        BY <1>1, <2>1, <2>2
<1>4. {"key"} \cup {"hedge"} = RequiredAny /\ {"key"} \cup {"T1"} = Keywords
    BY DEF RequiredAny, Keywords
<1> QED
    BY <1>1, <1>2, <1>3, <1>4 DEF Forbidden, RequiredAll

(* A wrong identifier fails; the sub-technique that contains its text does *)
(* not.                                                                    *)
LEMMA FactualText ==
    ASSUME NEW text
    PROVE  /\ "T1" \in ToSet(text) => ~Factual(text).passed /\ Factual(text).score = <<0, 1>>
           /\ ToSet(text) = {"T1.1", "key"} => Factual(text).passed
<1>1. CASE "T1" \in ToSet(text)
    <2>1. Matched(text, Forbidden) > 0
        BY <1>1, MatchedCounts, FewTerms DEF TermPresent, Forbidden
    <2> QED
        BY <1>1, <2>1 DEF Factual, Score
<1>2. CASE ToSet(text) = {"T1.1", "key"}
    <2>1. ~(Matched(text, Forbidden) > 0)
        BY <1>2, MatchedCounts, FewTerms DEF TermPresent, Forbidden
    <2>2. Matched(text, RequiredAll) = Cardinality(RequiredAll)
        BY <1>2, MatchedCounts, FewTerms DEF TermPresent, RequiredAll
    <2>3. TermPresent(text, "key") /\ "key" \in RequiredAny
        BY <1>2 DEF TermPresent, Substring, RequiredAny
    <2>4. Matched(text, RequiredAny) > 0
        BY <2>3, MatchedCounts, FewTerms
    <2> QED
        BY <1>2, <2>1, <2>2, <2>4 DEF Factual, Score
<1> QED
    BY <1>1, <1>2

AllItems == {Choice, Choice2, Choice3, Words, Trap, Fact}

ItemsSet == [id : {"choice", "choice2", "choice3", "words", "trap", "fact"},
             scorer : {"mcq", "keyword", "hallucination", "factual"},
             category : {"basics", "attack"}, split : {"dev", "test"}]

LEMMA ItemsTyped == AllItems \subseteq ItemsSet
BY DEF AllItems, ItemsSet, Item, Choice, Choice2, Choice3, Words, Trap, Fact

(* A score is a part of what could be scored.                              *)
Scores == {s \in Nat \X Nat : s[1] <= s[2] /\ s[2] > 0}

LEMMA ScoreTyped ==
    ASSUME NEW item \in ItemsSet, NEW text
    PROVE  ScoreItem(item, text) \in [score : Scores, passed : BOOLEAN]
<1>1. ASSUME NEW n \in Nat, NEW d \in Nat, n <= d, d > 0, NEW passed \in BOOLEAN
      PROVE  Score(n, d, passed) \in [score : Scores, passed : BOOLEAN]
    BY <1>1 DEF Score, Scores
<1>2. ASSUME NEW passed \in BOOLEAN
      PROVE  Grade(passed) \in [score : Scores, passed : BOOLEAN]
    BY <1>1 DEF Grade
<1>3. CASE item.scorer = "mcq"
    <2>1. (Letter(text) = RightOption) \in BOOLEAN
        OBVIOUS
    <2> QED
        BY <1>2, <1>3, <2>1 DEF ScoreItem
<1>4. CASE item.scorer = "hallucination"
    <2>1. ("hedge" \in ToSet(text)) \in BOOLEAN
        OBVIOUS
    <2> QED
        BY <1>2, <1>4, <2>1 DEF ScoreItem
<1>5. CASE item.scorer = "keyword"
    <2> DEFINE hits == Cardinality({k \in Keywords : Substring(text, k)})
    <2>1. hits \in Nat /\ hits <= 2
        <3>1. {k \in Keywords : Substring(text, k)} \subseteq Keywords
            OBVIOUS
        <3> QED
            BY <3>1, FewTerms, FS_Subset, FS_CardinalityType
    <2>2. ScoreItem(item, text) \in {Score(hits, 2, hits = 2), Score(hits, 2, hits >= 1)}
        BY <1>5 DEF Keyword, ScoreItem
    <2> HIDE DEF hits
    <2>4. Score(hits, 2, hits = 2) \in [score : Scores, passed : BOOLEAN]
        BY <2>1 DEF Score, Scores
    <2>5. Score(hits, 2, hits >= 1) \in [score : Scores, passed : BOOLEAN]
        BY <2>1 DEF Score, Scores
    <2> QED
        BY <2>2, <2>4, <2>5
<1>6. CASE item.scorer = "factual"
    <2> DEFINE n == Matched(text, RequiredAll)
               passes == Matched(text, RequiredAll) = Cardinality(RequiredAll) /\ Matched(text, RequiredAny) > 0
    <2>1. n \in Nat /\ n <= 1 /\ Cardinality(RequiredAll) = 1
        BY MatchedCounts, FewTerms
    <2>2. Factual(text) \in {Score(0, 1, FALSE), Score(n, 1, passes)}
        BY <2>1 DEF Factual
    <2>3. passes \in BOOLEAN
        OBVIOUS
    <2> HIDE DEF n, passes
    <2>4. Score(n, 1, passes) \in [score : Scores, passed : BOOLEAN]
        BY <1>1, <2>1, <2>3
    <2>5. Score(0, 1, FALSE) \in [score : Scores, passed : BOOLEAN]
        BY DEF Score, Scores
    <2>6. ScoreItem(item, text) = Factual(text)
        BY <1>6 DEF ScoreItem
    <2> QED
        BY <2>2, <2>4, <2>5, <2>6
<1> QED
    BY <1>3, <1>4, <1>5, <1>6 DEF ItemsSet

(* A rate and the gate it is compared with.                                *)
LEMMA RoundedAgainst ==
    ASSUME NEW g \in Int, NEW n \in Nat \ {0}, NEW p \in Nat
    PROVE  /\ g <= Rounded(p, n) => 2 * p * Scale >= (2 * g - 1) * n
           /\ Rounded(p, n) < g => 2 * p * Scale < (2 * g + 1) * n
           /\ Rounded(p, n) \in Nat
<1> DEFINE a == 2 * Scale * p + n
           b == 2 * n
           r == a \div b
<1>1. Scale \in Nat \ {0}
    BY EvaluationAssumption
<1>2. a \in Nat /\ b \in Nat \ {0} /\ Rounded(p, n) = r
    BY <1>1 DEF Rounded
<1> HIDE DEF a, b
<1>3. r \in Nat /\ r * b <= a /\ a < r * b + b
    BY <1>2
<1> HIDE DEF r
<1>4. ASSUME g <= r
      PROVE  g * b <= r * b
    BY <1>2, <1>3, <1>4
<1>5. ASSUME r < g
      PROVE  r * b + b <= g * b
    BY <1>2, <1>3, <1>5
<1>6. /\ g * b = 2 * (g * n) /\ (2 * g - 1) * n = 2 * (g * n) - n /\ (2 * g + 1) * n = 2 * (g * n) + n
      /\ 2 * p * Scale = 2 * Scale * p /\ g * n \in Int /\ 2 * Scale * p \in Int /\ r * b \in Int
    BY <1>1, <1>2, <1>3 DEF b
<1> QED
    BY <1>2, <1>3, <1>4, <1>5, <1>6 DEF a, b

LEMMA SelectedShape ==
    ASSUME NEW bench \in Seq(ItemsSet), NEW split
    PROVE  Selected(bench, split) \in Seq(ItemsSet)
<1> DEFINE kept == {i \in DOMAIN bench : split \in {"all", bench[i].split}}
           place == [k \in 1..Cardinality(kept) |-> CHOOSE i \in kept : Cardinality({j \in kept : j <= i}) = k]
<1>1. Len(bench) \in Nat /\ kept \in SUBSET (1..Len(bench))
    OBVIOUS
<1>2. Cardinality(kept) \in Nat /\ \A k \in 1..Cardinality(kept) : \E i \in kept : Cardinality({j \in kept : j <= i}) = k
    BY <1>1, RankIsOnto
<1>3. \A k \in 1..Cardinality(kept) : place[k] \in kept
    BY <1>2
<1>4. Selected(bench, split) = [k \in 1..Cardinality(kept) |-> bench[place[k]]]
    BY DEF Selected
<1> HIDE DEF place, kept
<1>5. \A k \in 1..Cardinality(kept) : bench[place[k]] \in ItemsSet
    <2>1. \A i \in kept : i \in 1..Len(bench) /\ bench[i] \in ItemsSet
        BY <1>1
    <2> QED
        BY <1>3, <2>1
<1> QED
    BY <1>2, <1>4, <1>5

(* The records of a benchmark whose responses were scored and judged.      *)
RecordsSet == [item : ItemsSet, text : Seq(Tokens), raw : JudgeOutputs, passed : BOOLEAN, score : Scores,
               judge : [passed : BOOLEAN, error : BOOLEAN]]

Faithful(r) ==
    /\ r.judge = Verdict(r.raw)
    /\ r.item.scorer = "mcq" => (r.passed <=> Letter(r.text) = RightOption)
    /\ r.item.scorer = "factual" => /\ r.passed <=> Factual(r.text).passed
                                    /\ r.score = Factual(r.text).score

Whole(recs) == recs \in Seq(RecordsSet) /\ \A i \in 1..Len(recs) : Faithful(recs[i])

LEMMA RecordWhole ==
    ASSUME NEW item \in ItemsSet, NEW text \in Seq(Tokens), NEW raw \in JudgeOutputs
    PROVE  /\ Record(item, text, raw) \in RecordsSet /\ Faithful(Record(item, text, raw))
           /\ Record(item, text, raw).item = item
<1>1. ScoreItem(item, text) \in [score : Scores, passed : BOOLEAN]
    BY ScoreTyped
<1>2. Verdict(raw) \in [passed : BOOLEAN, error : BOOLEAN]
    BY DEF Verdict, Unusable
<1>3. item.scorer = "mcq" => (ScoreItem(item, text).passed <=> Letter(text) = RightOption)
    BY DEF ScoreItem, Grade, Score
<1>4. item.scorer = "factual" => ScoreItem(item, text) = Factual(text)
    BY DEF ScoreItem
<1> QED
    BY <1>1, <1>2, <1>3, <1>4 DEF Record, RecordsSet, Faithful

LEMMA RescoredWhole ==
    ASSUME NEW r \in RecordsSet, Faithful(r)
    PROVE  ScoredAnew(r) \in RecordsSet /\ Faithful(ScoredAnew(r)) /\ ScoredAnew(r).item = r.item
<1> DEFINE s == ScoreItem(r.item, r.text)
           n == [r EXCEPT !.score = s.score, !.passed = s.passed]
<1>1. r.item \in ItemsSet /\ r.text \in Seq(Tokens)
    BY DEF RecordsSet
<1>2. s \in [score : Scores, passed : BOOLEAN]
    BY <1>1, ScoreTyped
<1>3. r.item.scorer = "mcq" => (s.passed <=> Letter(r.text) = RightOption)
    BY DEF ScoreItem, Grade, Score
<1>4. r.item.scorer = "factual" => s = Factual(r.text)
    BY DEF ScoreItem
<1> HIDE DEF s
<1>5. /\ n \in RecordsSet /\ n.item = r.item /\ n.text = r.text /\ n.raw = r.raw /\ n.judge = r.judge
      /\ n.score = s.score /\ n.passed = s.passed
    BY <1>2 DEF RecordsSet
<1>6. n = ScoredAnew(r)
    BY DEF ScoredAnew, s
<1> HIDE DEF n
<1> QED
    BY <1>3, <1>4, <1>5, <1>6 DEF Faithful

(* Every record is of one of the two categories.                           *)
LEMMA CategoriesAddUp ==
    ASSUME NEW recs \in Seq(RecordsSet)
    PROVE  /\ Cardinality(InCategory(recs, "basics")) + Cardinality(InCategory(recs, "attack")) = Len(recs)
           /\ Cardinality({i \in InCategory(recs, "basics") : recs[i].passed})
                  + Cardinality({i \in InCategory(recs, "attack") : recs[i].passed}) = Passed(recs)
           /\ Passed(recs) \in Nat
<1> DEFINE n == Len(recs)
           basics == InCategory(recs, "basics")
           attack == InCategory(recs, "attack")
           good == {i \in 1..n : recs[i].passed}
<1>1. n \in Nat /\ DOMAIN recs = 1..n /\ \A i \in 1..n : recs[i].item.category \in {"basics", "attack"}
    <2>1. n \in Nat /\ DOMAIN recs = 1..n /\ \A i \in 1..n : recs[i] \in RecordsSet
        OBVIOUS
    <2>2. \A r \in RecordsSet : r.item \in ItemsSet
        BY DEF RecordsSet
    <2>3. \A item \in ItemsSet : item.category \in {"basics", "attack"}
        BY DEF ItemsSet
    <2> QED
        BY <2>1, <2>2, <2>3
<1>2. IsFiniteSet(1..n) /\ Cardinality(1..n) = n
    BY <1>1, FS_Interval
<1>3. basics \cup attack = 1..n /\ basics \cap attack = {} /\ basics \subseteq 1..n /\ attack \subseteq 1..n
    BY <1>1 DEF InCategory
<1>4. Passed(recs) = Cardinality(good) /\ good \subseteq 1..n
    BY <1>1 DEF Passed
<1> HIDE DEF basics, attack, n
<1>5. /\ {i \in basics : recs[i].passed} = basics \cap good /\ {i \in attack : recs[i].passed} = attack \cap good
      /\ (basics \cap good) \cup (attack \cap good) = good /\ (basics \cap good) \cap (attack \cap good) = {}
    BY <1>3
<1>6. ASSUME NEW S, NEW T, S \cup T \subseteq 1..n, S \cap T = {}
      PROVE  Cardinality(S) + Cardinality(T) = Cardinality(S \cup T) /\ Cardinality(S \cup T) \in Nat
    <2>1. IsFiniteSet(S) /\ IsFiniteSet(T) /\ IsFiniteSet(S \cup T)
        BY <1>2, <1>6, FS_Subset
    <2>2. Cardinality(S \cup T) = Cardinality(S) + Cardinality(T) - Cardinality(S \cap T)
        BY <2>1, FS_Union
    <2>3. Cardinality(S \cap T) = 0
        BY <1>6, FS_EmptySet
    <2> QED
        BY <2>1, <2>2, <2>3, FS_CardinalityType
<1>7. Cardinality(basics) + Cardinality(attack) = n
    BY <1>2, <1>3, <1>6
<1>8. Cardinality(basics \cap good) + Cardinality(attack \cap good) = Cardinality(good) /\ Cardinality(good) \in Nat
    <2>1. (basics \cap good) \cup (attack \cap good) \subseteq 1..n
        BY <1>4, <1>5
    <2> HIDE DEF good
    <2> QED
        BY <1>5, <1>6, <2>1
<1> QED
    BY <1>4, <1>5, <1>7, <1>8 DEF basics, attack, n

Jobs == [task : {"eval", "rescore"}, bench : Benchmarks, split : {"all", "test"}, judged : BOOLEAN, gate : Gates]

(* Records of the first items of the job, and of all of them.              *)
Upto(recs) ==
    /\ Whole(recs) /\ Len(recs) <= Len(Items)
    /\ \A i \in 1..Len(recs) : recs[i].item = Items[i]

Full(recs) == Upto(recs) /\ Len(recs) = Len(Items) /\ Len(Items) > 0

Reported == \E recs : Full(recs) /\ results = Report(recs, JudgeOf(recs))

EvalProgress ==
    /\ strict \in BOOLEAN /\ jobs \in 0..MaxJobs
    /\ step \in {"idle", "asking", "writing", "filling", "carding"}
    /\ status \in {-1, 0, 1, 2, 3, 4, 5, Going}
    /\ step # "idle" => status = Going
    /\ \/ /\ job = NoJob /\ jobs = 0 /\ step = "idle" /\ status = Going
          /\ results = Absent
       \/ job \in Jobs /\ jobs > 0

EvalRecords ==
    /\ step = "idle" => records = <<>>
    /\ step # "idle" => Upto(records) /\ Len(Items) > 0
    /\ step \in {"writing", "filling", "carding"} => Len(records) = Len(Items)

EvalResults ==
    /\ results \in {Absent, Torn} \/ Reported
    /\ step = "carding" => Reported
    /\ status \in {0, 5} =>
          /\ card = results /\ Reported
          /\ job.task = "eval" /\ job.gate # -1 => (status = 5 <=> results.overall.rate < job.gate)

EvalInv == EvalProgress /\ EvalRecords /\ EvalResults

LEMMA ReportReads ==
    ASSUME NEW recs, NEW judge
    PROVE  /\ Report(recs, judge) # Absent /\ Report(recs, judge) # Torn
           /\ Report(recs, judge).items = recs
           /\ Report(recs, judge).overall = Aggregate(recs) /\ Report(recs, judge).judge = judge
<1>1. /\ DOMAIN Report(recs, judge) = {"items", "overall", "judge"}
      /\ DOMAIN Absent = {"items"} /\ DOMAIN Torn = {"items"}
    BY DEF Report, Absent, Torn
<1>2. {"items", "overall", "judge"} # {"items"}
    OBVIOUS
<1> QED
    BY <1>1, <1>2 DEF Report

LEMMA JobItems ==
    ASSUME NEW j \in Jobs
    PROVE  Selected(j.bench, j.split) \in Seq(ItemsSet) /\ Len(Selected(j.bench, j.split)) \in Nat
<1>1. \A bench \in Benchmarks : bench \in Seq(ItemsSet)
    <2>1. /\ Choice \in ItemsSet /\ Choice2 \in ItemsSet /\ Choice3 \in ItemsSet
          /\ Words \in ItemsSet /\ Trap \in ItemsSet /\ Fact \in ItemsSet
        BY ItemsTyped DEF AllItems
    <2>2. /\ <<>> \in Seq(ItemsSet) /\ \A x \in ItemsSet : <<x>> \in Seq(ItemsSet)
          /\ \A x, y \in ItemsSet : <<x, y>> \in Seq(ItemsSet)
          /\ \A x, y, z \in ItemsSet : <<x, y, z>> \in Seq(ItemsSet)
        OBVIOUS
    <2> DEFINE Benches == Seq(ItemsSet)
    <2>3. /\ <<Choice>> \in Benches /\ <<Words>> \in Benches /\ <<Trap>> \in Benches /\ <<Fact>> \in Benches
          /\ <<Words, Fact>> \in Benches /\ <<Choice, Choice2, Choice3>> \in Benches
          /\ <<Fact, Fact>> \in Benches /\ <<>> \in Benches
        BY <2>1, <2>2
    <2> HIDE DEF Benches
    <2>4. \A bench \in Benchmarks : bench \in Benches
        BY <2>3, Zenon DEF Benchmarks
    <2> QED
        BY <2>4 DEF Benches
<1>2. j.bench \in Seq(ItemsSet)
    BY <1>1 DEF Jobs
<1>3. Selected(j.bench, j.split) \in Seq(ItemsSet)
    BY <1>2, SelectedShape
<1> QED
    BY <1>3

LEMMA AnswersTyped == PossibleAnswers \subseteq Seq(Tokens)
<1>1. \A n \in Nat : SeqOf(Tokens, n) \subseteq Seq(Tokens)
    BY DEF SeqOf
<1>2. {<<>>, <<"B">>, <<"key">>, <<"T1.1", "key">>} \subseteq Seq(Tokens)
    BY DEF Tokens, Options
<1> QED
    BY <1>1, <1>2, EvaluationAssumption DEF PossibleAnswers, Texts

(* The same job.                                                           *)
LEMMA SameJob ==
    ASSUME job' \in Jobs, job'.bench = job.bench, job'.split = job.split, job'.judged = job.judged
    PROVE  /\ Items' = Items
           /\ \A recs : JudgeOf(recs)' = JudgeOf(recs) /\ Upto(recs)' = Upto(recs) /\ Full(recs)' = Full(recs)
           /\ UNCHANGED results => Reported' = Reported
<1>1. Items' = Items
    BY DEF Items
<1>2. \A recs : JudgeOf(recs)' = JudgeOf(recs) /\ Upto(recs)' = Upto(recs) /\ Full(recs)' = Full(recs)
    BY <1>1 DEF JudgeOf, Upto, Full
<1> QED
    BY <1>1, <1>2 DEF Reported

LEMMA EvalInitially == EvalInit => EvalInv
<1> SUFFICES ASSUME EvalInit PROVE EvalInv
    OBVIOUS
<1>1. EvalProgress
    <2>1. jobs \in 0..MaxJobs
        BY EvaluationAssumption DEF EvalInit
    <2>2. strict \in BOOLEAN
        BY Zenon DEF EvalInit
    <2> QED
        BY <2>1, <2>2 DEF EvalInit, EvalProgress
<1>2. EvalRecords
    BY DEF EvalInit, EvalRecords
<1>3. EvalResults
    BY DEF EvalInit, EvalResults, Going
<1> QED
    BY <1>1, <1>2, <1>3 DEF EvalInv

LEMMA BeginStep ==
    ASSUME EvalInv, Begin
    PROVE  EvalInv'
<1>1. /\ step = "idle" /\ jobs = 0 /\ job' \in Jobs /\ jobs' = 1
      /\ UNCHANGED <<strict, records, results, card>> /\ records = <<>> /\ results = Absent /\ strict \in BOOLEAN
      /\ \/ Selected(job'.bench, job'.split) # <<>> /\ step' = "asking" /\ status' = Going
         \/ step' = "idle" /\ status' \in {2, 3, 4}
    BY DEF EvalInv, EvalProgress, EvalRecords, Begin, End, Jobs
<1>2. Items' \in Seq(ItemsSet) /\ Items' = Selected(job'.bench, job'.split)
    BY <1>1, JobItems DEF Items
<1>3. step' = "asking" => Len(Items') > 0
    BY <1>1, <1>2
<1>4. EvalProgress'
    BY <1>1, EvaluationAssumption DEF EvalProgress, Going
<1>5. EvalRecords'
    <2>1. Len(<<>>) = 0 /\ Whole(<<>>)
        BY DEF Whole
    <2>2. Upto(<<>>)'
        BY <1>2, <2>1 DEF Upto
    <2> QED
        BY <1>1, <1>3, <2>2 DEF EvalRecords
<1>6. EvalResults'
    BY <1>1 DEF EvalResults, Going
<1> QED
    BY <1>4, <1>5, <1>6 DEF EvalInv

LEMMA AskStep ==
    ASSUME EvalInv, Ask
    PROVE  EvalInv'
<1>1. /\ step = "asking" /\ Len(records) < Len(Items) /\ Upto(records) /\ job \in Jobs /\ Len(Items) > 0
      /\ UNCHANGED <<job, strict, step, results, card, jobs, status>>
    BY DEF EvalInv, EvalProgress, EvalRecords, Ask
<1>2. /\ Items' = Items /\ Items \in Seq(ItemsSet) /\ Len(Items) \in Nat
      /\ Reported' = Reported /\ \A recs : Upto(recs)' = Upto(recs)
    <2>1. job' \in Jobs
        BY <1>1
    <2> QED
        BY <1>1, <2>1, SameJob, JobItems DEF Items
<1>3. Upto(records')
    <2>1. PICK text \in PossibleAnswers, raw \in (IF job.judged THEN JudgeOutputs ELSE {Unjudged}) :
              records' = Append(records, Record(Items[Len(records) + 1], text, raw))
        BY DEF Ask
    <2> DEFINE new == Record(Items[Len(records) + 1], text, raw)
    <2>2. records \in Seq(RecordsSet) /\ Len(records) \in Nat /\ \A i \in 1..Len(records) : Faithful(records[i])
        BY <1>1 DEF Upto, Whole
    <2>3. Items[Len(records) + 1] \in ItemsSet
        BY <1>1, <1>2, <2>2
    <2>4. raw \in JudgeOutputs /\ text \in Seq(Tokens)
        BY AnswersTyped DEF JudgeOutputs, Unjudged
    <2>5. new \in RecordsSet /\ Faithful(new) /\ new.item = Items[Len(records) + 1]
        BY <2>3, <2>4, RecordWhole
    <2> HIDE DEF new
    <2>6. /\ records' \in Seq(RecordsSet) /\ Len(records') = Len(records) + 1 /\ records'[Len(records) + 1] = new
          /\ \A i \in 1..Len(records) : records'[i] = records[i]
        BY <2>1, <2>2, <2>5 DEF new
    <2>7. \A i \in 1..Len(records') : i \in 1..Len(records) \/ i = Len(records) + 1
        BY <2>2, <2>6
    <2>8. ASSUME NEW i \in 1..Len(records')
          PROVE  Faithful(records'[i]) /\ records'[i].item = Items[i]
        <3>1. CASE i \in 1..Len(records)
            BY <1>1, <2>2, <2>6, <3>1 DEF Upto
        <3>2. CASE i = Len(records) + 1
            BY <2>5, <2>6, <3>2
        <3> QED
            BY <2>7, <3>1, <3>2
    <2>9. Whole(records')
        BY <2>6, <2>8 DEF Whole
    <2>10. Len(records') <= Len(Items)
        BY <1>1, <1>2, <2>2, <2>6
    <2> QED
        BY <2>8, <2>9, <2>10 DEF Upto
<1>4. Upto(records)'
    BY <1>2, <1>3 DEF Upto
<1> QED
    BY <1>1, <1>2, <1>4 DEF EvalInv, EvalProgress, EvalRecords, EvalResults, Going

LEMMA RescoreStep ==
    ASSUME EvalInv, Rescore
    PROVE  EvalInv'
<1>1. /\ step = "idle" /\ status # Going /\ results # Absent /\ jobs < MaxJobs /\ jobs' = jobs + 1
      /\ job' = [job EXCEPT !.task = "rescore", !.gate = -1] /\ job \in Jobs
      /\ UNCHANGED <<strict, results, card>> /\ records = <<>> /\ strict \in BOOLEAN /\ jobs \in 0..MaxJobs
    BY DEF EvalInv, EvalProgress, EvalRecords, Rescore
<1>2. /\ job' \in Jobs /\ job'.bench = job.bench /\ job'.split = job.split /\ job'.judged = job.judged
    BY <1>1 DEF Jobs, Gates
<1>3. /\ Items' = Items /\ Reported' = Reported
      /\ \A recs : Upto(recs)' = Upto(recs) /\ Full(recs)' = Full(recs)
    BY <1>1, <1>2, SameJob
<1>4. CASE results = Torn
    <2>1. step' = "idle" /\ status' = 1 /\ records' = <<>>
        BY <1>1, <1>4 DEF Rescore, End
    <2> QED
        BY <1>1, <1>2, <1>4, <2>1, EvaluationAssumption DEF EvalInv, EvalProgress, EvalRecords, EvalResults, Going
<1>5. CASE results # Torn
    <2>1. PICK recs : Full(recs) /\ results = Report(recs, JudgeOf(recs))
        BY <1>1, <1>5 DEF EvalInv, EvalResults, Reported
    <2>2. results.items = recs
        BY <2>1, ReportReads
    <2>3. records' = [i \in DOMAIN recs |-> ScoredAnew(recs[i])] /\ step' = "writing" /\ status' = Going
        BY <1>5, <2>2 DEF Rescore
    <2>4. recs \in Seq(RecordsSet) /\ Len(recs) \in Nat /\ DOMAIN recs = 1..Len(recs)
          /\ \A i \in 1..Len(recs) : recs[i] \in RecordsSet /\ Faithful(recs[i]) /\ recs[i].item = Items[i]
        BY <2>1 DEF Full, Upto, Whole
    <2>5. \A i \in 1..Len(recs) : /\ ScoredAnew(recs[i]) \in RecordsSet /\ Faithful(ScoredAnew(recs[i]))
                                  /\ ScoredAnew(recs[i]).item = Items[i]
        BY <2>4, RescoredWhole
    <2>6. records' \in Seq(RecordsSet) /\ Len(records') = Len(recs)
          /\ \A i \in 1..Len(recs) : records'[i] = ScoredAnew(recs[i])
        BY <2>3, <2>4, <2>5
    <2>7. Full(records')
        BY <2>1, <2>5, <2>6 DEF Full, Upto, Whole
    <2>8. Upto(records)' /\ Len(records') = Len(Items') /\ Len(Items') > 0
        BY <1>3, <2>7 DEF Full, Upto
    <2> QED
        BY <1>1, <1>2, <1>3, <2>3, <2>8, EvaluationAssumption
        DEF EvalInv, EvalProgress, EvalRecords, EvalResults, Going
<1> QED
    BY <1>4, <1>5

(* A step of the same job keeps what was reported.                         *)
LEMMA KeepsJob ==
    ASSUME job \in Jobs, UNCHANGED job
    PROVE  /\ Items' = Items /\ \A recs : Upto(recs)' = Upto(recs) /\ Full(recs)' = Full(recs)
           /\ UNCHANGED results => Reported' = Reported
BY SameJob

(* A job that ends early.                                                  *)
LEMMA EndsEarly ==
    ASSUME EvalInv, step # "idle", step' = "idle", records' = <<>>, status' \in {-1, 1},
           UNCHANGED <<job, strict, results, card, jobs>>
    PROVE  EvalInv'
<1>1. job \in Jobs /\ jobs > 0
    BY DEF EvalInv, EvalProgress
<1>2. Reported' = Reported
    BY <1>1, KeepsJob
<1>3. EvalProgress'
    BY <1>1 DEF EvalInv, EvalProgress
<1> QED
    BY <1>2, <1>3 DEF EvalInv, EvalRecords, EvalResults

LEMMA TruncateStep ==
    ASSUME EvalInv, Truncate
    PROVE  EvalInv'
<1>1. /\ step \in {"asking", "writing"} /\ Len(records) = Len(Items) /\ job \in Jobs
      /\ results' = Torn /\ step' = "filling" /\ UNCHANGED <<job, strict, records, card, jobs, status>>
    BY DEF EvalInv, EvalProgress, EvalRecords, Truncate
<1>2. Items' = Items /\ Upto(records)' = Upto(records)
    <2>1. \A recs : Upto(recs)' = Upto(recs)
        BY <1>1, KeepsJob
    <2> QED
        BY <1>1, <2>1, KeepsJob DEF Upto
<1>3. status = Going
    BY <1>1 DEF EvalInv, EvalProgress
<1> QED
    BY <1>1, <1>2, <1>3 DEF EvalInv, EvalProgress, EvalRecords, EvalResults, Going

LEMMA FillStep ==
    ASSUME EvalInv, Fill
    PROVE  EvalInv'
<1>1. /\ step = "filling" /\ Full(records) /\ job \in Jobs /\ status = Going
      /\ results' = Report(records, JudgeOf(records)) /\ step' = "carding"
      /\ UNCHANGED <<job, strict, records, card, jobs, status>>
    BY DEF EvalInv, EvalProgress, EvalRecords, Fill, Full
<1>2. Items' = Items /\ Upto(records)' /\ Full(records)' /\ JudgeOf(records)' = JudgeOf(records)
    <2>1. \A recs : Full(recs)' = Full(recs)
        BY <1>1, KeepsJob
    <2>2. Full(records)'
        BY <1>1, <2>1 DEF Full, Upto
    <2> QED
        BY <1>1, <2>2, KeepsJob DEF Full, JudgeOf
<1>3. Reported'
    BY <1>1, <1>2 DEF Reported, Full, Upto, JudgeOf
<1>4. EvalProgress'
    BY <1>1 DEF EvalInv, EvalProgress
<1>5. EvalRecords'
    BY <1>1, <1>2 DEF EvalRecords, Full
<1>6. EvalResults'
    BY <1>1, <1>3 DEF EvalResults, Going
<1> QED
    BY <1>4, <1>5, <1>6 DEF EvalInv

LEMMA WriteCardStep ==
    ASSUME EvalInv, WriteCard
    PROVE  EvalInv'
<1>1. /\ step = "carding" /\ Reported /\ job \in Jobs /\ card' = results /\ records' = <<>>
      /\ step' = "idle" /\ status' = (IF job.gate # -1 /\ results.overall.rate < job.gate THEN 5 ELSE 0)
      /\ UNCHANGED <<job, strict, results, jobs>>
    BY DEF EvalInv, EvalProgress, EvalResults, WriteCard, End
<1>2. Reported' = Reported
    BY <1>1, KeepsJob
<1>3. EvalProgress'
    BY <1>1 DEF EvalInv, EvalProgress
<1>4. EvalRecords'
    BY <1>1 DEF EvalRecords
<1>5. EvalResults'
    BY <1>1, <1>2 DEF EvalResults
<1> QED
    BY <1>3, <1>4, <1>5 DEF EvalInv

LEMMA EditBenchmarkStep ==
    ASSUME EvalInv, EditBenchmark
    PROVE  EvalInv'
<1>1. /\ step = "idle" /\ status # Going /\ strict' = TRUE /\ job \in Jobs
      /\ UNCHANGED <<job, step, records, results, card, jobs, status>>
    BY DEF EvalInv, EvalProgress, EditBenchmark
<1>2. Reported' = Reported
    BY <1>1, KeepsJob
<1>3. strict' \in BOOLEAN
    BY <1>1, Zenon
<1>4. EvalProgress'
    BY <1>1, <1>3 DEF EvalInv, EvalProgress
<1> QED
    BY <1>1, <1>2, <1>4 DEF EvalInv, EvalRecords, EvalResults

LEMMA EvalStep == EvalInv /\ [EvalNext]_evalVars => EvalInv'
<1> SUFFICES ASSUME EvalInv, [EvalNext]_evalVars
             PROVE  EvalInv'
    OBVIOUS
<1>1. CASE AskFails
    BY <1>1, EndsEarly DEF AskFails, End
<1>2. CASE Die
    BY <1>2, EndsEarly DEF Die, End
<1>3. CASE UNCHANGED evalVars
    BY <1>3 DEF evalVars, EvalInv, EvalProgress, EvalRecords, EvalResults, Reported, Full, Upto, Items, JudgeOf
<1> QED
    BY <1>1, <1>2, <1>3, BeginStep, AskStep, RescoreStep, TruncateStep, FillStep, WriteCardStep, EditBenchmarkStep
    DEF EvalNext

LEMMA EvalInvariant == EvalSpec => []EvalInv
<1> QED
    BY EvalInitially, EvalStep, PTL DEF EvalSpec

LEMMA EvalInvTyped == EvalInv => EvalTypeOK
<1> SUFFICES ASSUME EvalInv PROVE EvalTypeOK
    OBVIOUS
<1>1. job = NoJob \/ job.task \in {"eval", "rescore"}
    BY DEF EvalInv, EvalProgress, Jobs
<1>2. ASSUME NEW i \in DOMAIN records
      PROVE  records[i].score \in Scores
    <2>1. Whole(records)
        <3>1. step = "idle" => DOMAIN records = {}
            BY DEF EvalInv, EvalRecords
        <3> QED
            BY <1>2, <3>1 DEF EvalInv, EvalRecords, Upto
    <2>2. records[i] \in RecordsSet
        BY <1>2, <2>1 DEF Whole
    <2> QED
        BY <2>2 DEF RecordsSet
<1>3. \A s \in Scores : 0 <= s[1] /\ s[1] <= s[2] /\ s[2] > 0
    BY DEF Scores
<1> QED
    BY <1>1, <1>2, <1>3 DEF EvalInv, EvalProgress, EvalTypeOK

(* The evaluation has its types.                                           *)
THEOREM EvalTypeCorrect == EvalSpec => []EvalTypeOK
BY EvalInvTyped, EvalInvariant, PTL

(* The figures of a whole report are those of its records.                 *)
LEMMA AddsUp ==
    ASSUME EvalInv, Reported
    PROVE  ReportAddsUp
<1>1. PICK recs : Full(recs) /\ results = Report(recs, JudgeOf(recs))
    BY DEF Reported
<1>2. job \in Jobs
    BY <1>1, ReportReads DEF EvalInv, EvalProgress
<1>3. /\ Items \in Seq(ItemsSet) /\ recs \in Seq(RecordsSet) /\ Len(recs) = Len(Items) /\ Len(Items) \in Nat
      /\ DOMAIN recs = 1..Len(Items) /\ \A i \in 1..Len(Items) : recs[i].item = Items[i]
    BY <1>1, <1>2, JobItems DEF Full, Upto, Whole, Items
<1>4. results.items = recs /\ results.overall = Aggregate(recs)
    BY <1>1, ReportReads
<1>5. [i \in DOMAIN results.items |-> results.items[i].item] = Items
    <2>1. Items = [i \in 1..Len(Items) |-> Items[i]]
        BY <1>3
    <2> QED
        BY <1>3, <1>4, <2>1
<1> DEFINE by == results.overall.by
           Of(c, figure) == IF c \in DOMAIN by THEN by[c][figure] ELSE 0
<1>6. /\ results.overall.count = Len(recs) /\ results.overall.rate = Rounded(Passed(recs), Len(recs))
      /\ by = [c \in {recs[i].item.category : i \in DOMAIN recs} |->
                  [count |-> Cardinality(InCategory(recs, c)),
                   passed |-> Cardinality({i \in InCategory(recs, c) : recs[i].passed})]]
    BY <1>4 DEF Aggregate
<1>7. ASSUME NEW c
      PROVE  /\ Of(c, "count") = Cardinality(InCategory(recs, c))
             /\ Of(c, "passed") = Cardinality({i \in InCategory(recs, c) : recs[i].passed})
    <2>1. CASE c \in {recs[i].item.category : i \in DOMAIN recs}
        BY <1>6, <2>1
    <2>2. CASE c \notin {recs[i].item.category : i \in DOMAIN recs}
        <3>1. InCategory(recs, c) = {} /\ {i \in InCategory(recs, c) : recs[i].passed} = {}
            BY <2>2 DEF InCategory
        <3>2. Of(c, "count") = 0 /\ Of(c, "passed") = 0
            BY <1>6, <2>2
        <3> QED
            BY <3>1, <3>2, FS_EmptySet
    <2> QED
        BY <2>1, <2>2
<1>8. /\ Of("basics", "count") + Of("attack", "count") = Len(recs)
      /\ Of("basics", "passed") + Of("attack", "passed") = Passed(recs)
    BY <1>3, <1>7, CategoriesAddUp
<1>9. /\ results.overall.count = Len(Items)
      /\ results.overall.count = Of("basics", "count") + Of("attack", "count")
      /\ results.overall.rate = Rounded(Of("basics", "passed") + Of("attack", "passed"), results.overall.count)
    <2> HIDE DEF Of
    <2> QED
        BY <1>3, <1>6, <1>8
<1> QED
    BY <1>5, <1>9, Zenon DEF ReportAddsUp

LEMMA JudgeFigures ==
    ASSUME EvalInv, Reported
    PROVE  BrokenJudgeRaisesNothing
<1> SUFFICES ASSUME job.judged
             PROVE  BrokenJudgeRaisesNothing
    BY DEF BrokenJudgeRaisesNothing
<1>1. PICK recs : Full(recs) /\ results = Report(recs, JudgeOf(recs))
    BY DEF Reported
<1> DEFINE raws == [i \in DOMAIN recs |-> recs[i].raw]
           clean == {i \in DOMAIN raws : raws[i].json = "object" /\ raws[i].verdict = "PASS"
                                            /\ raws[i].score \in {"none", "1"}}
           errors == {i \in DOMAIN raws : Unusable(raws[i])}
<1>2. results.items = recs /\ results.judge = JudgeOf(recs)
    BY <1>1, ReportReads
<1>3. recs \in Seq(RecordsSet) /\ DOMAIN recs = 1..Len(recs) /\ Len(recs) \in Nat
      /\ \A i \in DOMAIN recs : recs[i].judge = Verdict(recs[i].raw) /\ recs[i].raw \in JudgeOutputs
    <2>1. recs \in Seq(RecordsSet) /\ \A i \in 1..Len(recs) : recs[i].judge = Verdict(recs[i].raw)
        BY <1>1 DEF Full, Upto, Whole, Faithful
    <2>2. \A r \in RecordsSet : r.raw \in JudgeOutputs
        BY DEF RecordsSet
    <2>3. DOMAIN recs = 1..Len(recs) /\ Len(recs) \in Nat /\ \A i \in 1..Len(recs) : recs[i] \in RecordsSet
        BY <2>1
    <2> QED
        BY <2>1, <2>2, <2>3
<1>4. DOMAIN raws = DOMAIN recs /\ Len(raws) = Len(recs) /\ \A i \in DOMAIN recs : raws[i] = recs[i].raw
    BY <1>3
<1>5. \A raw \in JudgeOutputs :
          Verdict(raw).passed <=> raw.json = "object" /\ raw.verdict = "PASS" /\ raw.score \in {"none", "1"}
    <2>1. \A raw : Verdict(raw).passed <=> ~Unusable(raw) /\ raw.verdict = "PASS"
        BY DEF Verdict
    <2>2. ASSUME NEW raw \in JudgeOutputs
          PROVE  ~Unusable(raw) /\ raw.verdict = "PASS" <=>
                     raw.json = "object" /\ raw.verdict = "PASS" /\ raw.score \in {"none", "1"}
        <3>1. CASE raw.json # "object"
            BY <3>1 DEF Unusable
        <3>2. CASE raw.json = "object"
            <4>1. raw.score \in {"none", "1", "2", "text"}
                BY <3>2 DEF JudgeOutputs
            <4> QED
                BY <3>2, <4>1 DEF Unusable
        <3> QED
            BY <3>1, <3>2
    <2> QED
        BY <2>1, <2>2
<1>6. \A raw \in JudgeOutputs : Verdict(raw).error <=> Unusable(raw)
    BY DEF Verdict
<1> HIDE DEF raws
<1>7. clean = {i \in DOMAIN recs : recs[i].judge.passed}
    BY <1>3, <1>4, <1>5
<1>8. errors = {i \in DOMAIN recs : recs[i].judge.error}
    BY <1>3, <1>4, <1>6
<1>9. JudgeOf(recs) = [count |-> Len(raws), passed |-> Cardinality(clean), errors |-> Cardinality(errors)]
    <2> HIDE DEF clean, errors
    <2> QED
        BY <1>4, <1>7, <1>8 DEF JudgeOf
<1> QED
    BY <1>2, <1>9 DEF BrokenJudgeRaisesNothing, raws

LEMMA GateRounds ==
    ASSUME EvalInv, status \in {0, 5}, job.task = "eval", job.gate # -1
    PROVE  GateWithinRounding
<1>1. Reported /\ (status = 5 <=> results.overall.rate < job.gate)
    BY DEF EvalInv, EvalResults
<1>2. PICK recs : Full(recs) /\ results = Report(recs, JudgeOf(recs))
    BY <1>1 DEF Reported
<1>3. job \in Jobs
    BY <1>2, ReportReads DEF EvalInv, EvalProgress
<1>4. job.gate \in Int
    BY <1>3, EvaluationAssumption DEF Jobs, Gates
<1>5. Passed(recs) \in Nat /\ Len(recs) \in Nat \ {0}
    <2>1. recs \in Seq(RecordsSet) /\ Len(recs) = Len(Items) /\ Len(Items) > 0 /\ Len(Items) \in Nat
        BY <1>2, <1>3, JobItems DEF Full, Upto, Whole, Items
    <2>2. Passed(recs) \in Nat
        BY <2>1, CategoriesAddUp, Zenon
    <2>3. Len(recs) \in Nat /\ Len(recs) # 0
        BY <2>1
    <2> QED
        BY <2>2, <2>3
<1>6. results.items = recs /\ results.overall.rate = Rounded(Passed(recs), Len(recs))
    <2>1. results.items = recs /\ results.overall = Aggregate(recs)
        BY <1>2, ReportReads
    <2>2. Aggregate(recs).rate = Rounded(Passed(recs), Len(recs))
        BY DEF Aggregate
    <2> QED
        BY <2>1, <2>2
<1>7. /\ job.gate <= Rounded(Passed(recs), Len(recs)) =>
             2 * Passed(recs) * Scale >= (2 * job.gate - 1) * Len(recs)
      /\ Rounded(Passed(recs), Len(recs)) < job.gate =>
             2 * Passed(recs) * Scale < (2 * job.gate + 1) * Len(recs)
      /\ Rounded(Passed(recs), Len(recs)) \in Nat
    BY <1>4, <1>5, RoundedAgainst
<1>8. status = 0 => job.gate <= Rounded(Passed(recs), Len(recs))
    BY <1>1, <1>4, <1>6, <1>7
<1>9. status # 0 => Rounded(Passed(recs), Len(recs)) < job.gate
    BY <1>1, <1>6
<1> QED
    BY <1>6, <1>7, <1>8, <1>9 DEF GateWithinRounding

LEMMA RecordsFaithful ==
    ASSUME EvalInv, NEW i \in DOMAIN records
    PROVE  records[i] \in RecordsSet /\ Faithful(records[i])
<1>1. step # "idle"
    BY DEF EvalInv, EvalRecords
<1> QED
    BY <1>1 DEF EvalInv, EvalRecords, Upto, Whole

(* For any scale of a rate and any length of a response: the figures are   *)
(* those of the records, a job that ends well leaves the card of what is   *)
(* there, the judge's count is of what it said, a wrong identifier fails,  *)
(* the letter of a response is the one it names, and the gate is off by no *)
(* more than the rounding (evaluation/harness.py:46-207, scorers.py:60-222,*)
(* judge.py:175-207, cli/main.py:301-308).                                 *)
THEOREM FiguresStayEarned == EvalSpec => []FiguresAreEarned
<1>1. EvalInv => FiguresAreEarned
    <2> SUFFICES ASSUME EvalInv PROVE FiguresAreEarned
        OBVIOUS
    <2>1. Readable(results) <=> Reported
        BY ReportReads DEF EvalInv, EvalResults, Readable, Reported
    <2>2. ReportAddsUp /\ BrokenJudgeRaisesNothing
        <3>1. CASE Readable(results)
            BY <2>1, <3>1, AddsUp, JudgeFigures
        <3>2. CASE ~Readable(results)
            BY <3>2 DEF ReportAddsUp, BrokenJudgeRaisesNothing
        <3> QED
            BY <3>1, <3>2
    <2>3. ZeroMeansReported
        BY <2>1 DEF EvalInv, EvalResults, ZeroMeansReported
    <2>4. ForbiddenFails
        <3>1. ASSUME NEW i \in DOMAIN records, records[i].item.scorer = "factual"
              PROVE  /\ "T1" \in ToSet(records[i].text) => ~records[i].passed /\ records[i].score[1] = 0
                     /\ ToSet(records[i].text) = {"T1.1", "key"} => records[i].passed
            <4>1. /\ records[i].passed <=> Factual(records[i].text).passed
                  /\ records[i].score = Factual(records[i].text).score
                BY <3>1, RecordsFaithful DEF Faithful
            <4>2. <<0, 1>>[1] = 0
                OBVIOUS
            <4> QED
                BY <4>1, <4>2, FactualText
        <3> QED
            BY <3>1 DEF ForbiddenFails
    <2>5. SoleLetterCounts
        <3>1. ASSUME NEW i \in DOMAIN records, records[i].item.scorer = "mcq"
              PROVE  LET named == {LetterOf(t) : t \in ToSet(records[i].text) \cap Options} IN
                     /\ records[i].passed => RightOption \in named
                     /\ Cardinality(named) <= 1 =>
                           (records[i].passed <=> named = {RightOption} /\ ~Distracting(records[i].text))
            <4>1. records[i].text \in Seq(Tokens) /\ (records[i].passed <=> Letter(records[i].text) = RightOption)
                BY <3>1, RecordsFaithful DEF Faithful, RecordsSet
            <4> QED
                BY <3>1, <4>1, SoleLetter
        <3> QED
            BY <3>1, Zenon DEF SoleLetterCounts
    <2>6. GateWithinRounding
        <3>1. CASE job.task = "eval" /\ status \in {0, 5} /\ job.gate # -1
            BY <3>1, GateRounds
        <3>2. CASE ~(job.task = "eval" /\ status \in {0, 5} /\ job.gate # -1)
            BY <3>2 DEF GateWithinRounding
        <3> QED
            BY <3>1, <3>2
    <2> QED
        BY <2>2, <2>3, <2>4, <2>5, <2>6 DEF FiguresAreEarned
<1> QED
    BY <1>1, EvalInvariant, PTL

-----------------------------------------------------------------------------
(***************************************************************************)
(* Startup.  The two loads give what the highest layer says, as long as    *)
(* the first finds the provider that the second is told of; and what was   *)
(* found is kept until the exit.                                           *)
(***************************************************************************)

(* A layer of either file, a set of flags, and the variables: more than    *)
(* StartupInit varies, every part with every other.                        *)
FileLayers(origin) ==
    [default : Names \cup {"none", " "}, models : UNION {[S -> {origin}] : S \in SUBSET Names},
     mode : Spoken, key : {"none", "secret", "typo"}]

FlagSets ==
    [mode : Spoken, provider : Names \cup {"none"}, model : BOOLEAN, home : BOOLEAN, risk : BOOLEAN,
     yes : BOOLEAN, machine : BOOLEAN, approval : {"fail", "reject", "allowlist", "bad"}, findings : BOOLEAN]

Environments == [provider : Names \cup {"none"}, model : BOOLEAN, mode : Spoken]

GivenTyped ==
    /\ command \in Commands /\ options \in FlagSets /\ environ \in Environments
    /\ tty \in BOOLEAN /\ root \in {"project", "home", "missing"}
    /\ user \in FileLayers("user") /\ project \in FileLayers("project")

AnyStart ==
    /\ GivenTyped
    /\ saved = FALSE /\ phase = "start" /\ probe = "none" /\ config = NoConfig
    /\ session = "none" /\ declined = FALSE /\ approved = FALSE /\ turn = "none" /\ exit = Running

LEMMA SaidTyped ==
    ASSUME NEW n \in Names \cup {"none", " "}, NEW S \in SUBSET Names, NEW origin
    PROVE  Said(n, S, origin) \in FileLayers(origin)
<1> DEFINE models == [x \in S |-> origin]
           all == UNION {[T -> {origin}] : T \in SUBSET Names}
<1>1. models \in all
    <2>1. models \in [S -> {origin}]
        OBVIOUS
    <2> QED
        BY <2>1
<1> HIDE DEF models, all
<1>2. Said(n, S, origin) = [default |-> n, models |-> models, mode |-> "none", key |-> "none"]
    <2>1. Said(n, S, origin) = [Silent EXCEPT !.default = n, !.models = models]
        BY DEF Said, models
    <2>2. Silent = [default |-> "none", models |-> NoModel, mode |-> "none", key |-> "none"]
        BY DEF Silent
    <2> QED
        BY <2>1, <2>2
<1>3. "none" \in Spoken /\ "none" \in {"none", "secret", "typo"}
    BY DEF Spoken
<1>4. [default |-> n, models |-> models, mode |-> "none", key |-> "none"]
         \in [default : Names \cup {"none", " "}, models : all, mode : Spoken, key : {"none", "secret", "typo"}]
    BY <1>1, <1>3
<1> QED
    BY <1>2, <1>4 DEF FileLayers, all

LEMMA SilentTyped ==
    ASSUME NEW origin
    PROVE  Silent \in FileLayers(origin)
<1>1. NoModel \in [{} -> {origin}]
    BY DEF NoModel
<1> QED
    BY <1>1 DEF Silent, FileLayers, Spoken

(* The inputs that StartupInit varies are inputs.                          *)
LEMMA InputsTyped ==
    ASSUME VaryProvider \/ VaryMode \/ VaryTurn \/ VaryRoot
    PROVE  GivenTyped
<1>1. Quiet \in FlagSets /\ Unset \in Environments
    BY DEF Quiet, FlagSets, Unset, Environments, Spoken, Modes
<1>2. Silent \in FileLayers("user") /\ Silent \in FileLayers("project")
    BY SilentTyped
<1>o. \A o \in FlagSets :
         /\ \A n \in Names \cup {"none"}, m \in BOOLEAN :
               [o EXCEPT !.provider = n, !.model = m] \in FlagSets
         /\ \A m \in Spoken, r \in BOOLEAN, j \in BOOLEAN :
               [o EXCEPT !.mode = m, !.risk = r, !.machine = j] \in FlagSets
         /\ \A h \in BOOLEAN : [o EXCEPT !.home = h] \in FlagSets
    BY DEF FlagSets
<1>t. \A y \in BOOLEAN, j \in BOOLEAN, f \in BOOLEAN, p \in {"fail", "reject", "allowlist", "bad"}, m \in Spoken :
         [Quiet EXCEPT !.mode = m, !.yes = y, !.machine = j, !.approval = p, !.findings = f] \in FlagSets
    BY <1>1 DEF FlagSets
<1>l. \A origin : \A file \in FileLayers(origin), m \in Spoken, k \in {"none", "secret", "typo"} :
         /\ [file EXCEPT !.mode = m] \in FileLayers(origin)
         /\ [file EXCEPT !.mode = m, !.key = k] \in FileLayers(origin)
    BY DEF FileLayers
<1>3. CASE VaryProvider
    <2>2. user \in FileLayers("user")
        <3>1. PICK n \in {"none", "local"}, ms \in SUBSET Names : user = Said(n, ms, "user")
            BY <1>3 DEF VaryProvider
        <3> QED
            BY <3>1, SaidTyped DEF Names
    <2>3. project \in FileLayers("project")
        <3>1. PICK n \in Names \cup {"none", " "}, ms \in SUBSET Names : project = Said(n, ms, "project")
            BY <1>3 DEF VaryProvider
        <3> QED
            BY <3>1, SaidTyped
    <2>4. environ \in Environments
        <3>1. environ \in [provider : {"none", "local"}, model : BOOLEAN, mode : {"none"}]
            BY <1>3 DEF VaryProvider
        <3> QED
            BY <3>1 DEF Environments, Names, Spoken
    <2>5. options \in FlagSets
        <3>1. PICK n \in Names \cup {"none"}, m \in BOOLEAN : options = [Quiet EXCEPT !.provider = n, !.model = m]
            BY <1>3 DEF VaryProvider
        <3> QED
            BY <1>1, <1>o, <3>1
    <2>6. command \in Commands /\ tty \in BOOLEAN /\ root \in {"project", "home", "missing"}
        <3>1. command \in {"ask", "doctor"} /\ tty = TRUE /\ root = "project"
            BY <1>3 DEF VaryProvider
        <3> QED
            BY <3>1 DEF Commands
    <2> QED
        BY <2>2, <2>3, <2>4, <2>5, <2>6 DEF GivenTyped
<1>4. CASE VaryMode
    <2>2. user \in FileLayers("user")
        <3>1. PICK m \in {"none", "agent", "trusted"} : user = [Silent EXCEPT !.mode = m]
            BY <1>4 DEF VaryMode
        <3>2. m \in Spoken
            BY DEF Spoken, Modes
        <3> QED
            BY <1>2, <1>l, <3>1, <3>2
    <2>3. project \in FileLayers("project")
        <3>1. PICK m \in Spoken \ {"read-only"}, k \in {"none", "secret", "typo"} :
                 project = [Silent EXCEPT !.mode = m, !.key = k]
            BY <1>4 DEF VaryMode
        <3> QED
            BY <1>2, <1>l, <3>1
    <2>4. environ \in Environments
        <3>1. environ \in [provider : {"none"}, model : {FALSE}, mode : Spoken]
            BY <1>4 DEF VaryMode
        <3> QED
            BY <3>1 DEF Environments
    <2>5. options \in FlagSets
        <3>1. PICK m \in Spoken \ {"agent"}, r \in BOOLEAN, j \in BOOLEAN :
                 options = [Quiet EXCEPT !.mode = m, !.risk = r, !.machine = j]
            BY <1>4 DEF VaryMode
        <3> QED
            BY <1>1, <1>o, <3>1
    <2>6. command \in Commands /\ tty \in BOOLEAN /\ root \in {"project", "home", "missing"}
        <3>1. command = "ask" /\ tty \in BOOLEAN /\ root = "project"
            BY <1>4 DEF VaryMode
        <3> QED
            BY <3>1 DEF Commands
    <2> QED
        BY <2>2, <2>3, <2>4, <2>5, <2>6 DEF GivenTyped
<1>5. CASE VaryTurn
    <2>1. /\ command \in Commands /\ tty \in BOOLEAN /\ root = "project"
          /\ user = Silent /\ project = Silent /\ environ = Unset
        BY <1>5 DEF VaryTurn
    <2>2. PICK y \in BOOLEAN, j \in BOOLEAN, f \in BOOLEAN, p \in {"fail", "reject", "allowlist", "bad"} :
             \E m \in {"none", "agent"} :
                options = [Quiet EXCEPT !.mode = m, !.yes = y, !.machine = j, !.approval = p, !.findings = f]
        BY <1>5 DEF VaryTurn
    <2>4. PICK m \in {"none", "agent"} :
             options = [Quiet EXCEPT !.mode = m, !.yes = y, !.machine = j, !.approval = p, !.findings = f]
        BY <2>2
    <2>5. m \in Spoken
        BY DEF Spoken, Modes
    <2>3. options \in FlagSets
        BY <1>t, <2>4, <2>5
    <2> QED
        BY <1>1, <1>2, <2>1, <2>3 DEF GivenTyped
<1>6. CASE VaryRoot
    <2>1. /\ command \in Commands /\ tty = TRUE /\ root \in {"project", "home", "missing"}
          /\ user = Silent /\ project = Silent /\ environ = Unset
        BY <1>6 DEF VaryRoot
    <2>2. PICK h \in BOOLEAN : options = [Quiet EXCEPT !.home = h]
        BY <1>6 DEF VaryRoot
    <2>3. options \in FlagSets
        BY <1>1, <1>o, <2>2
    <2> QED
        BY <1>1, <1>2, <2>1, <2>3 DEF GivenTyped
<1> QED
    BY <1>3, <1>4, <1>5, <1>6

LEMMA AnyStartCovers == StartupInit => AnyStart
BY InputsTyped DEF StartupInit, AnyStart

-----------------------------------------------------------------------------
(* What a load makes of the layers.                                        *)
Origins == {"built-in", "user", "project", "env", "cli"}

LEMMA MergeModels ==
    ASSUME NEW a, NEW b
    PROVE  /\ DOMAIN Merge(a, b).models = DOMAIN a.models \cup DOMAIN b.models
           /\ \A n \in DOMAIN b.models : Merge(a, b).models[n] = b.models[n]
           /\ \A n \in DOMAIN a.models \ DOMAIN b.models : Merge(a, b).models[n] = a.models[n]
BY DEF Merge

LEMMA FileModels ==
    ASSUME NEW origin, NEW file \in FileLayers(origin)
    PROVE  /\ \A n \in DOMAIN file.models : file.models[n] = origin
           /\ Stripped(file).models = file.models /\ Stripped(file).default = file.default
           /\ Stripped(file).mode \in Spoken \ {"trusted"}
           /\ Stripped(file).mode = "bad" <=> file.mode = "bad"
BY DEF FileLayers, Stripped, Spoken, Modes

LEMMA MergedModels ==
    ASSUME GivenTyped, NEW selected
    PROVE  LET models == Merged(selected).models
           IN  /\ \A n \in DOMAIN models : models[n] \in Origins
               /\ \A n \in DOMAIN models :
                     models[n] = IF n \in DOMAIN CliLayer(selected).models THEN "cli"
                                 ELSE IF n \in DOMAIN EnvLayer(Select).models THEN "env"
                                 ELSE IF n \in DOMAIN project.models THEN "project" ELSE "user"
               /\ DOMAIN models = DOMAIN user.models \cup DOMAIN project.models
                                  \cup DOMAIN EnvLayer(Select).models \cup DOMAIN CliLayer(selected).models
<1> DEFINE u == Stripped(user)
           p == Stripped(project)
           e == EnvLayer(Select)
           c == CliLayer(selected)
           models == Merged(selected).models
<1>1. /\ \A n \in DOMAIN u.models : u.models[n] = "user"
      /\ \A n \in DOMAIN p.models : p.models[n] = "project"
      /\ u.models = user.models /\ p.models = project.models
    BY FileModels DEF GivenTyped
<1>2. \A n \in DOMAIN e.models : e.models[n] = "env"
    BY DEF EnvLayer, Said, Silent
<1>3. \A n \in DOMAIN c.models : c.models[n] = "cli"
    BY DEF CliLayer, Said, Silent
<1>4. Merged(selected) = Merge(Merge(Merge(u, p), e), c)
    BY DEF Merged
<1> HIDE DEF u, p, e, c
<1>5. /\ DOMAIN models = DOMAIN user.models \cup DOMAIN project.models \cup DOMAIN e.models \cup DOMAIN c.models
    BY <1>1, <1>4, MergeModels
<1>6. \A n \in DOMAIN models :
         models[n] = IF n \in DOMAIN c.models THEN "cli"
                     ELSE IF n \in DOMAIN e.models THEN "env"
                     ELSE IF n \in DOMAIN project.models THEN "project" ELSE "user"
    BY <1>1, <1>2, <1>3, <1>4, <1>5, MergeModels
<1>7. \A n \in DOMAIN models : models[n] \in Origins
    BY <1>6 DEF Origins
<1> QED
    BY <1>5, <1>6, <1>7 DEF e, c

LEMMA LoadedIs ==
    ASSUME GivenTyped, NEW selected
    PROVE  LET l == Loaded(selected)
           IN  /\ l.default \in DOMAIN l.models /\ l.models[l.default] \in Origins
               /\ l.mode \in Modes \cup {"bad"} /\ (Valid(selected) => l.mode # "bad")
               /\ l.mode = "trusted" => "trusted" \in {options.mode, environ.mode}
               /\ TopName # " " =>
                     /\ l.default = TopName
                     /\ (options.model /\ options.provider = "none" => selected = TopName) =>
                           l.models[l.default] = TopModel(TopName)
<1> DEFINE l == Loaded(selected)
           merged == Merged(selected)
           name == IF merged.default = "none" THEN "default" ELSE merged.default
<1>1. /\ l.default = name
      /\ l.models = [n \in DOMAIN merged.models \cup {name, "default"} |->
                       IF n \in DOMAIN merged.models THEN merged.models[n] ELSE "built-in"]
      /\ l.mode = IF merged.mode = "none" THEN "read-only" ELSE merged.mode
    BY DEF Loaded
<1>2. /\ \A n \in DOMAIN merged.models : merged.models[n] \in Origins
      /\ \A n \in DOMAIN merged.models :
            merged.models[n] = IF n \in DOMAIN CliLayer(selected).models THEN "cli"
                               ELSE IF n \in DOMAIN EnvLayer(Select).models THEN "env"
                               ELSE IF n \in DOMAIN project.models THEN "project" ELSE "user"
      /\ DOMAIN merged.models = DOMAIN user.models \cup DOMAIN project.models
                                \cup DOMAIN EnvLayer(Select).models \cup DOMAIN CliLayer(selected).models
    BY MergedModels
<1>3. /\ DOMAIN EnvLayer(Select).models = IF environ.model THEN {Select} ELSE {}
      /\ DOMAIN CliLayer(selected).models =
            IF ~options.model THEN {}
            ELSE {IF options.provider = "none" THEN selected ELSE options.provider}
    BY DEF EnvLayer, CliLayer, Said, Silent
<1>4. /\ merged.mode = IF options.mode # "none" THEN options.mode
                       ELSE IF environ.mode \notin {"none", "bad"} THEN environ.mode
                       ELSE IF Stripped(project).mode # "none" THEN Stripped(project).mode
                       ELSE Stripped(user).mode
      /\ merged.default = IF options.provider # "none" THEN options.provider
                          ELSE IF environ.provider # "none" THEN environ.provider
                          ELSE IF project.default # "none" THEN project.default
                          ELSE user.default
    <2>1. /\ CliLayer(selected).mode = options.mode /\ CliLayer(selected).default = options.provider
          /\ EnvLayer(Select).mode = (IF environ.mode = "bad" THEN "none" ELSE environ.mode)
          /\ EnvLayer(Select).default = environ.provider
        BY DEF EnvLayer, CliLayer, Said, Silent
    <2>2. Stripped(project).default = project.default /\ Stripped(user).default = user.default
        BY FileModels DEF GivenTyped
    <2>3. \A a, b : /\ Merge(a, b).mode = (IF b.mode = "none" THEN a.mode ELSE b.mode)
                    /\ Merge(a, b).default = (IF b.default = "none" THEN a.default ELSE b.default)
        BY DEF Merge
    <2> DEFINE u == Stripped(user)
               p == Stripped(project)
               e == EnvLayer(Select)
               c == CliLayer(selected)
    <2>4. merged = Merge(Merge(Merge(u, p), e), c)
        BY DEF Merged
    <2> HIDE DEF u, p, e, c, merged
    <2>5. /\ merged.mode = (IF c.mode = "none" THEN IF e.mode = "none" THEN IF p.mode = "none" THEN u.mode
                            ELSE p.mode ELSE e.mode ELSE c.mode)
          /\ merged.default = (IF c.default = "none" THEN IF e.default = "none" THEN IF p.default = "none"
                               THEN u.default ELSE p.default ELSE e.default ELSE c.default)
        BY <2>3, <2>4
    <2> QED
        BY <2>1, <2>2, <2>5 DEF u, p, e, c
<1>5. /\ Stripped(user).mode \in Spoken \ {"trusted"} /\ Stripped(project).mode \in Spoken \ {"trusted"}
    BY FileModels DEF GivenTyped
<1>6. options.mode \in Spoken /\ environ.mode \in Spoken
    BY DEF GivenTyped, FlagSets, Environments
<1>7. options.provider \in Names \cup {"none"} /\ environ.provider \in Names \cup {"none"}
      /\ options.model \in BOOLEAN /\ environ.model \in BOOLEAN
    BY DEF GivenTyped, FlagSets, Environments
<1>8. project.default \in Names \cup {"none", " "} /\ user.default \in Names \cup {"none", " "}
    BY DEF GivenTyped, FileLayers
<1>9. Valid(selected) => merged.mode # "bad"
    BY DEF Valid
<1>10. TopName = IF options.provider # "none" THEN options.provider
                 ELSE IF environ.provider # "none" THEN environ.provider
                 ELSE IF project.default # "none" THEN project.default
                 ELSE IF user.default # "none" THEN user.default ELSE "default"
    BY DEF TopName
<1>11. TopName # " " => Select = TopName
    BY <1>7, <1>8, <1>10 DEF Select, Names
<1> HIDE DEF l, merged
<1>12. l.default \in DOMAIN l.models /\ l.models[l.default] \in Origins
    BY <1>1, <1>2 DEF Origins
<1>13. l.mode \in Modes \cup {"bad"} /\ (Valid(selected) => l.mode # "bad")
    BY <1>1, <1>4, <1>5, <1>6, <1>9 DEF Modes, Spoken
<1>14. l.mode = "trusted" => "trusted" \in {options.mode, environ.mode}
    BY <1>1, <1>4, <1>5, <1>6 DEF Spoken
<1>15. ASSUME TopName # " "
       PROVE  l.default = TopName
    BY <1>1, <1>4, <1>10
<1>16. ASSUME TopName # " ", options.model /\ options.provider = "none" => selected = TopName
       PROVE  l.models[l.default] = TopModel(TopName)
    <2>1. l.default = TopName /\ name = TopName
        BY <1>1, <1>15, <1>16
    <2>2. l.models[TopName] = IF TopName \in DOMAIN merged.models THEN merged.models[TopName] ELSE "built-in"
        BY <1>1, <2>1
    <2>3. CASE options.model
        <3>1. TopName \in DOMAIN CliLayer(selected).models
            BY <1>3, <1>10, <1>16, <2>3
        <3> QED
            BY <1>2, <2>1, <2>2, <2>3, <3>1 DEF TopModel
    <2>4. CASE ~options.model /\ environ.model
        <3>1. TopName \in DOMAIN EnvLayer(Select).models /\ TopName \notin DOMAIN CliLayer(selected).models
            BY <1>3, <1>11, <1>16, <2>4
        <3> QED
            BY <1>2, <2>1, <2>2, <2>4, <3>1 DEF TopModel
    <2>5. CASE ~options.model /\ ~environ.model
        <3>1. TopName \notin DOMAIN EnvLayer(Select).models /\ TopName \notin DOMAIN CliLayer(selected).models
            BY <1>3, <2>5
        <3> QED
            BY <1>2, <2>1, <2>2, <2>5, <3>1 DEF TopModel
    <2> QED
        BY <1>7, <2>3, <2>4, <2>5
<1> QED
    BY <1>12, <1>13, <1>14, <1>15, <1>16 DEF l

-----------------------------------------------------------------------------
Phases == {"start", "rooted", "probed", "loaded", "gated", "composed", "turn", "checking", "over"}

Progress ==
    /\ phase \in Phases /\ exit \in {0, 1, 4, 5, 6, 7, Running} /\ turn \in Turns \cup {"none"}
    /\ saved \in BOOLEAN /\ declined \in BOOLEAN /\ approved \in BOOLEAN
    /\ phase = "over" <=> exit # Running
    /\ phase = "checking" => command = "doctor"
    /\ phase \in {"start", "rooted", "probed", "loaded", "gated"} => session = "none"
    /\ phase \in {"composed", "turn"} => session # "none"

(* What the first load found, and what the second made of it.              *)
ProbeRight ==
    phase \in {"probed", "loaded", "gated", "composed", "turn"} /\ ~saved /\ TopName # " " => probe = TopName

ConfigRight ==
    /\ phase \in {"loaded", "gated", "composed", "turn", "checking"} =>
          /\ config.mode \in Modes
          /\ config.default \in DOMAIN config.models
          /\ config.models[config.default] \in Origins
    /\ phase \in {"loaded", "gated", "composed", "turn"} =>
          (config.mode = "trusted" => "trusted" \in {options.mode, environ.mode})

StartInv ==
    /\ GivenTyped /\ Progress
    /\ ProbeRight /\ ConfigRight
    /\ StartsAsTold

LEMMA StartInitially == AnyStart => StartInv
<1> SUFFICES ASSUME AnyStart
             PROVE  StartInv
    OBVIOUS
<1>1. /\ GivenTyped /\ saved = FALSE /\ phase = "start" /\ session = "none" /\ declined = FALSE
      /\ approved = FALSE /\ turn = "none" /\ exit = Running
    BY DEF AnyStart
<1>2. Progress
    BY <1>1 DEF Progress, Phases
<1>3. ProbeRight /\ ConfigRight
    BY <1>1 DEF ProbeRight, ConfigRight
<1>4. TopLayerWins /\ TrustedIsDeliberate /\ RefusedLeavesNothing /\ NobodyMeansNo
    BY <1>1 DEF TopLayerWins, TrustedIsDeliberate, RefusedLeavesNothing, NobodyMeansNo
<1>5. ZeroMeansDone
    BY <1>1 DEF ZeroMeansDone, Running
<1> QED
    BY <1>1, <1>2, <1>3, <1>4, <1>5 DEF StartInv, StartsAsTold

(* A step that changes neither what was given nor the files.               *)
LEMMA GivenStays ==
    ASSUME GivenTyped, UNCHANGED <<Asked, project>>
    PROVE  /\ GivenTyped' /\ TopName' = TopName
           /\ \A n : TopModel(n)' = TopModel(n)
BY DEF GivenTyped, Asked, TopName, TopModel

LEMMA ProbeStep ==
    ASSUME StartInv, Probe
    PROVE  StartInv'
<1> USE DEF Probe
<1> DEFINE l == Loaded("__selected__")
<1>1. /\ l.default \in DOMAIN l.models /\ l.models[l.default] \in Origins
      /\ l.mode \in Modes \cup {"bad"} /\ (Valid("__selected__") => l.mode # "bad")
      /\ TopName # " " => l.default = TopName
    BY LoadedIs DEF StartInv
<1> HIDE DEF l
<1>2. GivenTyped' /\ TopName' = TopName
    BY GivenStays DEF StartInv
<1>3. \/ ~Valid("__selected__") /\ Leave(IF command = "doctor" THEN 1 ELSE 4) /\ UNCHANGED <<probe, config>>
      \/ /\ Valid("__selected__") /\ probe' = l.default /\ config' = l
         /\ phase' = IF command = "doctor" THEN "checking" ELSE "probed"
         /\ UNCHANGED exit
    BY DEF l
<1>4. /\ UNCHANGED <<command, options, environ, tty, saved, session, declined, approved, turn>>
      /\ phase = "rooted" /\ saved' = saved
    BY DEF Asked
<1>5. Progress'
    BY <1>3, <1>4 DEF StartInv, Progress, Phases, Leave, Running
<1>6. ProbeRight'
    BY <1>1, <1>2, <1>3, <1>4 DEF ProbeRight, Leave
<1>7. ConfigRight'
    BY <1>1, <1>3, <1>4 DEF ConfigRight, Leave, Modes
<1>8. TopLayerWins' /\ TrustedIsDeliberate'
    BY <1>3 DEF Leave, TopLayerWins, TrustedIsDeliberate
<1>9. exit' # 0 /\ (exit' = 4 => session' = "none")
    BY <1>3, <1>4 DEF StartInv, Progress, Leave, Running
<1>10. RefusedLeavesNothing' /\ ZeroMeansDone'
    BY <1>9 DEF RefusedLeavesNothing, ZeroMeansDone
<1>11. NobodyMeansNo'
    BY <1>4 DEF StartInv, StartsAsTold, NobodyMeansNo
<1> QED
    BY <1>2, <1>5, <1>6, <1>7, <1>8, <1>10, <1>11 DEF StartInv, StartsAsTold

LEMMA LoadAgainStep ==
    ASSUME StartInv, LoadAgain
    PROVE  StartInv'
<1> USE DEF LoadAgain
<1> DEFINE l == Loaded(probe)
<1>1. /\ l.default \in DOMAIN l.models /\ l.models[l.default] \in Origins
      /\ l.mode \in Modes \cup {"bad"} /\ (Valid(probe) => l.mode # "bad")
      /\ l.mode = "trusted" => "trusted" \in {options.mode, environ.mode}
      /\ TopName # " " =>
            /\ l.default = TopName
            /\ (options.model /\ options.provider = "none" => probe = TopName) =>
                  l.models[l.default] = TopModel(TopName)
    BY LoadedIs DEF StartInv
<1> HIDE DEF l
<1>2. GivenTyped' /\ TopName' = TopName /\ \A n : TopModel(n)' = TopModel(n)
    BY GivenStays DEF StartInv
<1>3. \/ Leave(4) /\ UNCHANGED config
      \/ Valid(probe) /\ config' = l /\ phase' = "loaded" /\ UNCHANGED exit
    BY DEF l
<1>4. /\ UNCHANGED <<command, options, environ, tty, saved, probe, session, declined, approved, turn>>
      /\ phase = "probed" /\ saved' = saved /\ probe' = probe
    BY DEF Asked
<1>q. ~saved /\ TopName # " " => probe = TopName
    BY <1>4 DEF StartInv, ProbeRight
<1>r. ~saved' /\ TopName' # " " => probe' = TopName'
    <2>1. TopName' = TopName /\ saved' = saved /\ probe' = probe
        BY <1>2, <1>4
    <2> QED
        BY ONLY <1>q, <2>1
<1>5. Progress'
    BY <1>3, <1>4 DEF StartInv, Progress, Phases, Leave, Running
<1>6. ProbeRight'
    BY <1>r DEF ProbeRight
<1>7. ConfigRight'
    BY <1>1, <1>3, <1>4 DEF ConfigRight, Leave, Modes
<1>8. TopLayerWins'
    <2> SUFFICES ASSUME phase' = "loaded", ~saved', TopName' # " "
                 PROVE  config'.default = TopName' /\ config'.models[config'.default] = TopModel(TopName)'
        BY <1>3, <1>4 DEF TopLayerWins, Leave
    <2>1. probe = TopName
        BY <1>2, <1>4, <1>r
    <2>2. config' = l
        BY <1>3 DEF Leave
    <2>3. l.default = TopName /\ l.models[l.default] = TopModel(TopName)
        BY <1>1, <1>2, <2>1
    <2> QED
        BY <1>2, <2>2, <2>3
<1>9. TrustedIsDeliberate' /\ RefusedLeavesNothing' /\ ZeroMeansDone' /\ NobodyMeansNo'
    BY <1>3, <1>4 DEF StartInv, Progress, Leave, Running, StartsAsTold,
       TrustedIsDeliberate, RefusedLeavesNothing, ZeroMeansDone, NobodyMeansNo
<1> QED
    BY <1>2, <1>5, <1>6, <1>7, <1>8, <1>9 DEF StartInv, StartsAsTold

(* A step after the loads, or before them.                                 *)
LEMMA OtherStep ==
    ASSUME StartInv, UNCHANGED <<Asked, project, saved, probe, config>>,
           Progress', ProbeRight', ConfigRight',
           phase' \in {"loaded", "gated", "composed", "turn"} => phase \in {"loaded", "gated", "composed", "turn"},
           TrustedIsDeliberate', RefusedLeavesNothing', ZeroMeansDone', NobodyMeansNo'
    PROVE  StartInv'
<1>1. GivenTyped' /\ TopName' = TopName /\ \A n : TopModel(n)' = TopModel(n)
    BY GivenStays DEF StartInv
<1>2. TopLayerWins'
    <2> SUFFICES ASSUME phase' \in {"loaded", "gated", "composed", "turn"}, ~saved', TopName' # " "
                 PROVE  config'.default = TopName' /\ config'.models[config'.default] = TopModel(TopName)'
        BY DEF TopLayerWins
    <2>1. config.default = TopName /\ config.models[config.default] = TopModel(TopName)
        BY <1>1 DEF StartInv, StartsAsTold, TopLayerWins
    <2> QED
        BY <1>1, <2>1
<1> QED
    BY <1>1, <1>2 DEF StartInv, StartsAsTold

LEMMA LaterStep ==
    ASSUME StartInv,
           \/ Discover \/ GateMode \/ OpenSession \/ MakeApprover \/ Confirm \/ NextTurn \/ FinishRun
           \/ FinishAsk \/ LeavePrompt \/ Diagnose \/ (\E result \in Turns : EndTurn(result))
           \/ UNCHANGED startVars
    PROVE  StartInv'
<1> USE DEF Asked
<1>a. /\ Progress /\ ProbeRight /\ ConfigRight /\ GivenTyped
      /\ TrustedIsDeliberate /\ RefusedLeavesNothing /\ ZeroMeansDone /\ NobodyMeansNo
    BY DEF StartInv, StartsAsTold
<1>b. UNCHANGED <<Asked, project, saved, probe, config>> => TopName' = TopName
    BY <1>a, GivenStays
<1>1. CASE Discover
    <2>1. UNCHANGED <<Asked, project, saved, probe, config>>
        BY <1>1 DEF Discover
    <2>2. Progress'
        BY <1>a, <1>1 DEF Discover, Progress, Phases, Leave, Running
    <2>3. ProbeRight' /\ ConfigRight'
        BY <1>a, <1>b, <1>1 DEF Discover, ProbeRight, ConfigRight, Leave
    <2>4. TrustedIsDeliberate' /\ RefusedLeavesNothing' /\ ZeroMeansDone' /\ NobodyMeansNo'
        BY <1>a, <1>1 DEF Discover, Leave, Progress, Running,
           TrustedIsDeliberate, RefusedLeavesNothing, ZeroMeansDone, NobodyMeansNo
    <2>5. phase' \notin {"loaded", "gated", "composed", "turn"}
        BY <1>1 DEF Discover, Leave
    <2> QED
        BY <2>1, <2>2, <2>3, <2>4, <2>5, OtherStep
<1>2. CASE GateMode
    <2>1. UNCHANGED <<Asked, project, saved, probe, config>>
        BY <1>2 DEF GateMode
    <2>2. Progress'
        BY <1>a, <1>2 DEF GateMode, Progress, Phases, Leave, Running
    <2>3. ProbeRight' /\ ConfigRight'
        BY <1>a, <1>b, <1>2 DEF GateMode, ProbeRight, ConfigRight, Leave
    <2>4. RefusedLeavesNothing' /\ ZeroMeansDone' /\ NobodyMeansNo'
        BY <1>a, <1>2 DEF GateMode, Leave, Progress, Running,
           RefusedLeavesNothing, ZeroMeansDone, NobodyMeansNo
    <2>5. TrustedIsDeliberate'
        BY <1>a, <1>2 DEF GateMode, Leave, ConfigRight, GivenTyped, FlagSets, TrustedIsDeliberate
    <2> QED
        BY <1>2, <2>1, <2>2, <2>3, <2>4, <2>5, OtherStep DEF GateMode
<1>3. CASE OpenSession
    <2>1. UNCHANGED <<Asked, project, saved, probe, config>>
        BY <1>3 DEF OpenSession
    <2>2. Progress'
        BY <1>a, <1>3 DEF OpenSession, Progress, Phases, Leave, Running
    <2>3. ProbeRight' /\ ConfigRight'
        BY <1>a, <1>b, <1>3 DEF OpenSession, ProbeRight, ConfigRight, Leave
    <2>4. TrustedIsDeliberate' /\ RefusedLeavesNothing' /\ ZeroMeansDone' /\ NobodyMeansNo'
        BY <1>a, <1>3 DEF OpenSession, Answered, Leave, Progress, Running,
           TrustedIsDeliberate, RefusedLeavesNothing, ZeroMeansDone, NobodyMeansNo
    <2>5. phase' \in {"loaded", "gated", "composed", "turn"} => phase \in {"loaded", "gated", "composed", "turn"}
        BY <1>3 DEF OpenSession, Leave
    <2> QED
        BY <2>1, <2>2, <2>3, <2>4, <2>5, OtherStep
<1>4. CASE MakeApprover
    <2>1. UNCHANGED <<Asked, project, saved, probe, config>>
        BY <1>4 DEF MakeApprover
    <2>2. Progress'
        BY <1>a, <1>4 DEF MakeApprover, Approver, Progress, Phases, Leave, Running
    <2>3. ProbeRight' /\ ConfigRight'
        BY <1>a, <1>b, <1>4 DEF MakeApprover, ProbeRight, ConfigRight, Leave
    <2>4. TrustedIsDeliberate' /\ RefusedLeavesNothing' /\ ZeroMeansDone' /\ NobodyMeansNo'
        BY <1>a, <1>4 DEF MakeApprover, Approver, Leave, Progress, Running,
           TrustedIsDeliberate, RefusedLeavesNothing, ZeroMeansDone, NobodyMeansNo
    <2>5. phase' \in {"loaded", "gated", "composed", "turn"} => phase \in {"loaded", "gated", "composed", "turn"}
        BY <1>4 DEF MakeApprover, Leave
    <2> QED
        BY <2>1, <2>2, <2>3, <2>4, <2>5, OtherStep
<1>5. CASE Confirm
    <2>1. UNCHANGED <<Asked, project, saved, probe, config>>
        BY <1>5 DEF Confirm
    <2>2. Progress'
        BY <1>a, <1>5 DEF Confirm, Approver, Progress, Phases, Leave, Running
    <2>3. ProbeRight' /\ ConfigRight'
        BY <1>a, <1>b, <1>5 DEF Confirm, ProbeRight, ConfigRight, Leave
    <2>4. TrustedIsDeliberate' /\ RefusedLeavesNothing' /\ ZeroMeansDone' /\ NobodyMeansNo'
        BY <1>a, <1>5 DEF Confirm, Approver, Leave, Progress, Running,
           TrustedIsDeliberate, RefusedLeavesNothing, ZeroMeansDone, NobodyMeansNo
    <2>5. phase' \in {"loaded", "gated", "composed", "turn"} => phase \in {"loaded", "gated", "composed", "turn"}
        BY <1>5 DEF Confirm, Leave
    <2> QED
        BY <2>1, <2>2, <2>3, <2>4, <2>5, OtherStep
<1>6. CASE NextTurn
    <2>1. UNCHANGED <<Asked, project, saved, probe, config>>
        BY <1>6 DEF NextTurn
    <2>2. Progress'
        BY <1>a, <1>6 DEF NextTurn, Progress, Phases, Leave, Running
    <2>3. ProbeRight' /\ ConfigRight'
        BY <1>a, <1>b, <1>6 DEF NextTurn, ProbeRight, ConfigRight, Leave
    <2>4. TrustedIsDeliberate' /\ RefusedLeavesNothing' /\ ZeroMeansDone' /\ NobodyMeansNo'
        BY <1>a, <1>6 DEF NextTurn, Answered, Leave, Progress, Running,
           TrustedIsDeliberate, RefusedLeavesNothing, ZeroMeansDone, NobodyMeansNo
    <2>5. phase' \in {"loaded", "gated", "composed", "turn"} => phase \in {"loaded", "gated", "composed", "turn"}
        BY <1>6 DEF NextTurn, Leave
    <2> QED
        BY <2>1, <2>2, <2>3, <2>4, <2>5, OtherStep
<1>7. CASE FinishRun
    <2>1. UNCHANGED <<Asked, project, saved, probe, config>>
        BY <1>7 DEF FinishRun
    <2>2. Progress'
        BY <1>a, <1>7 DEF FinishRun, ExitCode, OfTurn, Answered, Progress, Phases, Leave, Running
    <2>3. ProbeRight' /\ ConfigRight'
        BY <1>a, <1>b, <1>7 DEF FinishRun, ProbeRight, ConfigRight, Leave
    <2>4. TrustedIsDeliberate' /\ RefusedLeavesNothing' /\ ZeroMeansDone' /\ NobodyMeansNo'
        BY <1>a, <1>7 DEF FinishRun, ExitCode, OfTurn, Answered, Leave, Progress, Running,
           TrustedIsDeliberate, RefusedLeavesNothing, ZeroMeansDone, NobodyMeansNo
    <2>5. phase' \in {"loaded", "gated", "composed", "turn"} => phase \in {"loaded", "gated", "composed", "turn"}
        BY <1>7 DEF FinishRun, Leave
    <2> QED
        BY <2>1, <2>2, <2>3, <2>4, <2>5, OtherStep
<1>8. CASE FinishAsk
    <2>1. UNCHANGED <<Asked, project, saved, probe, config>>
        BY <1>8 DEF FinishAsk
    <2>2. Progress'
        BY <1>a, <1>8 DEF FinishAsk, Answered, Progress, Phases, Leave, Running
    <2>3. ProbeRight' /\ ConfigRight'
        BY <1>a, <1>b, <1>8 DEF FinishAsk, ProbeRight, ConfigRight, Leave
    <2>4. TrustedIsDeliberate' /\ RefusedLeavesNothing' /\ ZeroMeansDone' /\ NobodyMeansNo'
        BY <1>a, <1>8 DEF FinishAsk, Answered, Leave, Progress, Running,
           TrustedIsDeliberate, RefusedLeavesNothing, ZeroMeansDone, NobodyMeansNo
    <2>5. phase' \in {"loaded", "gated", "composed", "turn"} => phase \in {"loaded", "gated", "composed", "turn"}
        BY <1>8 DEF FinishAsk, Leave
    <2> QED
        BY <2>1, <2>2, <2>3, <2>4, <2>5, OtherStep
<1>9. CASE LeavePrompt
    <2>1. UNCHANGED <<Asked, project, saved, probe, config>>
        BY <1>9 DEF LeavePrompt
    <2>2. Progress'
        BY <1>a, <1>9 DEF LeavePrompt, Progress, Phases, Leave, Running
    <2>3. ProbeRight' /\ ConfigRight'
        BY <1>a, <1>b, <1>9 DEF LeavePrompt, ProbeRight, ConfigRight, Leave
    <2>4. TrustedIsDeliberate' /\ RefusedLeavesNothing' /\ ZeroMeansDone' /\ NobodyMeansNo'
        BY <1>a, <1>9 DEF LeavePrompt, Answered, Leave, Progress, Running,
           TrustedIsDeliberate, RefusedLeavesNothing, ZeroMeansDone, NobodyMeansNo
    <2>5. phase' \in {"loaded", "gated", "composed", "turn"} => phase \in {"loaded", "gated", "composed", "turn"}
        BY <1>9 DEF LeavePrompt, Leave
    <2> QED
        BY <2>1, <2>2, <2>3, <2>4, <2>5, OtherStep
<1>10. CASE Diagnose
    <2>1. UNCHANGED <<Asked, project, saved, probe, config>>
        BY <1>10 DEF Diagnose
    <2>2. Progress'
        BY <1>a, <1>10 DEF Diagnose, Progress, Phases, Leave, Running
    <2>3. ProbeRight' /\ ConfigRight'
        BY <1>a, <1>b, <1>10 DEF Diagnose, ProbeRight, ConfigRight, Leave
    <2>4. TrustedIsDeliberate' /\ RefusedLeavesNothing' /\ ZeroMeansDone' /\ NobodyMeansNo'
        BY <1>a, <1>10 DEF Diagnose, Answered, Leave, Progress, Running,
           TrustedIsDeliberate, RefusedLeavesNothing, ZeroMeansDone, NobodyMeansNo
    <2>5. phase' \in {"loaded", "gated", "composed", "turn"} => phase \in {"loaded", "gated", "composed", "turn"}
        BY <1>10 DEF Diagnose, Leave
    <2> QED
        BY <2>1, <2>2, <2>3, <2>4, <2>5, OtherStep
<1>11. CASE \E result \in Turns : EndTurn(result)
    <2>1. UNCHANGED <<Asked, project, saved, probe, config>>
        BY <1>11 DEF EndTurn
    <2>2. Progress'
        BY <1>a, <1>11 DEF EndTurn, Progress, Phases, Leave, Running
    <2>3. ProbeRight' /\ ConfigRight'
        BY <1>a, <1>b, <1>11, <2>1 DEF EndTurn, ProbeRight, ConfigRight
    <2>4. TrustedIsDeliberate' /\ RefusedLeavesNothing' /\ ZeroMeansDone' /\ NobodyMeansNo'
        BY <1>a, <1>11 DEF EndTurn, Answered, Leave, Progress, Running,
           TrustedIsDeliberate, RefusedLeavesNothing, ZeroMeansDone, NobodyMeansNo
    <2>5. phase' \in {"loaded", "gated", "composed", "turn"} => phase \in {"loaded", "gated", "composed", "turn"}
        BY <1>11 DEF EndTurn, Leave
    <2> QED
        BY <2>1, <2>2, <2>3, <2>4, <2>5, OtherStep
<1>12. CASE UNCHANGED startVars
    <2>1. UNCHANGED <<Asked, project, saved, probe, config>>
        BY <1>12 DEF startVars
    <2>2. Progress'
        BY <1>a, <1>12 DEF startVars, Progress, Phases, Leave, Running
    <2>3. ProbeRight' /\ ConfigRight'
        BY <1>a, <1>b, <1>12 DEF startVars, ProbeRight, ConfigRight, Leave
    <2>4. TrustedIsDeliberate' /\ RefusedLeavesNothing' /\ ZeroMeansDone' /\ NobodyMeansNo'
        BY <1>a, <1>12 DEF startVars, Answered, Leave, Progress, Running,
           TrustedIsDeliberate, RefusedLeavesNothing, ZeroMeansDone, NobodyMeansNo
    <2>5. phase' \in {"loaded", "gated", "composed", "turn"} => phase \in {"loaded", "gated", "composed", "turn"}
        BY <1>12 DEF startVars, Leave
    <2> QED
        BY <2>1, <2>2, <2>3, <2>4, <2>5, OtherStep
<1> QED
    BY <1>1, <1>2, <1>3, <1>4, <1>5, <1>6, <1>7, <1>8, <1>9, <1>10, <1>11, <1>12

LEMMA SaveStep ==
    ASSUME StartInv, SaveProject
    PROVE  StartInv'
<1> USE DEF SaveProject
<1>1. /\ UNCHANGED <<command, options, environ, tty, root, user, phase, probe, config, session,
                     declined, approved, turn, exit>>
      /\ phase \in {"rooted", "probed"} /\ saved' = TRUE
    BY DEF Asked
<1>2. project' \in FileLayers("project")
    <2>1. project \in FileLayers("project")
        BY DEF StartInv, GivenTyped
    <2> QED
        BY <2>1 DEF FileLayers, Names, Spoken, Modes
<1>3. GivenTyped'
    BY <1>1, <1>2 DEF StartInv, GivenTyped
<1>4. Progress'
    BY <1>1 DEF StartInv, Progress
<1>5. ProbeRight' /\ ConfigRight'
    BY <1>1 DEF ProbeRight, ConfigRight
<1>6. StartsAsTold'
    <2>1. TopLayerWins' /\ TrustedIsDeliberate'
        BY <1>1 DEF TopLayerWins, TrustedIsDeliberate
    <2>2. exit' = Running
        BY <1>1 DEF StartInv, Progress
    <2>3. RefusedLeavesNothing' /\ ZeroMeansDone'
        BY <2>2 DEF RefusedLeavesNothing, ZeroMeansDone, Running
    <2>4. NobodyMeansNo'
        BY <1>1 DEF StartInv, StartsAsTold, NobodyMeansNo
    <2> QED
        BY <2>1, <2>3, <2>4 DEF StartsAsTold
<1> QED
    BY <1>3, <1>4, <1>5, <1>6 DEF StartInv

LEMMA StartStep == StartInv /\ [StartupNext]_startVars => StartInv'
<1> SUFFICES ASSUME StartInv, [StartupNext]_startVars
             PROVE  StartInv'
    OBVIOUS
<1>1. CASE Probe
    BY <1>1, ProbeStep
<1>2. CASE LoadAgain
    BY <1>2, LoadAgainStep
<1>3. CASE SaveProject
    BY <1>3, SaveStep
<1>4. CASE ~Probe /\ ~LoadAgain /\ ~SaveProject
    BY <1>4, LaterStep DEF StartupNext
<1> QED
    BY <1>1, <1>2, <1>3, <1>4

LEMMA StartInvTyped == StartInv => StartupTypeOK
<1> SUFFICES ASSUME StartInv
             PROVE  StartupTypeOK
    OBVIOUS
<1>1. user \in FileLayers("user") /\ project \in FileLayers("project")
    BY DEF StartInv, GivenTyped
<1>2. \A origin \in {"user", "project"} : \A file \in FileLayers(origin) : file \in Layer(Names)
    <2> TAKE origin \in {"user", "project"}
    <2> TAKE file \in FileLayers(origin)
    <2>1. PICK S \in SUBSET Names : file.models \in [S -> {origin}]
        BY DEF FileLayers
    <2>2. file.models \in [S -> {"user", "project"}]
        BY <2>1
    <2>3. file.models \in UNION {[T -> {"user", "project"}] : T \in SUBSET Names}
        BY <2>2
    <2> DEFINE all == UNION {[T -> {"user", "project"}] : T \in SUBSET Names}
    <2> HIDE DEF all
    <2>4. file = [default |-> file.default, models |-> file.models, mode |-> file.mode, key |-> file.key]
          /\ file.default \in Names \cup {"none", " "} /\ file.mode \in Spoken
          /\ file.key \in {"none", "secret", "typo"}
        BY DEF FileLayers
    <2> QED
        BY <2>3, <2>4 DEF Layer, all
<1> QED
    BY <1>1, <1>2 DEF StartInv, Progress, Phases, ConfigRight, Origins, StartupTypeOK

(* Whatever the files, the variables and the flags say, alone or together, *)
(* and whenever the project's file is saved: the highest layer that speaks *)
(* is heard, trusted mode is asked for, a refusal leaves no session, exit  *)
(* 0 means done, and nobody's silence is a yes (agent/config.py,           *)
(* agent/cli.py).                                                          *)
THEOREM EveryStartIsAsTold == AnyStart /\ [][StartupNext]_startVars => [](StartupTypeOK /\ StartsAsTold)
<1>1. StartInv => StartupTypeOK /\ StartsAsTold
    BY StartInvTyped DEF StartInv
<1> QED
    BY <1>1, StartInitially, StartStep, PTL

(* A start as the runs vary it (one layer at a time) has the types of its  *)
(* answers, its layers and its outcome (agent/cli.py: main_callback).      *)
THEOREM StartupTypeCorrect == StartupSpec => []StartupTypeOK
BY AnyStartCovers, EveryStartIsAsTold, PTL DEF StartupSpec

(* A start as the runs vary it does what its highest layer tells it        *)
(* (agent/config.py: AgentConfig.load; agent/cli.py: main_callback).       *)
THEOREM StartsStayAsTold == StartupSpec => []StartsAsTold
BY AnyStartCovers, EveryStartIsAsTold, PTL DEF StartupSpec

-----------------------------------------------------------------------------
(* The six beside each other: each behaviour moves one of them.            *)

LEMMA StartupIdles == StartupIdle => AnyStart
<1>1. Quiet \in FlagSets /\ Unset \in Environments
    BY DEF Quiet, FlagSets, Unset, Environments, Spoken, Modes
<1>2. Silent \in FileLayers("user") /\ Silent \in FileLayers("project")
    BY SilentTyped
<1> QED
    BY <1>1, <1>2 DEF StartupIdle, AnyStart, GivenTyped, Commands

LEMMA ScanIdles == ScanIdle => ScanInit
<1>1. NoTree \in Trees
    <2>1. Entry("absent", "plain", 1) \in Entries
        BY DEF Entries, Kinds
    <2>2. NoTree \in [Paths -> Entries]
        BY <2>1 DEF NoTree
    <2>3. "app" \in Paths /\ "lib2/b" \in Paths
        BY ThreePaths DEF Paths
    <2>4. /\ NoTree["app"] = Entry("absent", "plain", 1)
          /\ NoTree["lib2/b"] = Entry("absent", "plain", 1)
        BY <2>3 DEF NoTree
    <2>5. Entry("absent", "plain", 1).kind = "absent"
        BY DEF Entry
    <2> QED
        BY <2>2, <2>4, <2>5 DEF Trees
<1>2. Scan("tree", "root", FALSE, FALSE, "python") \in ScanCalls
    BY DEF ScanCalls
<1> QED
    BY <1>1, <1>2 DEF ScanIdle, ScanInit

LEMMA GateIdles == GateIdle => GateInv /\ AccessIsGuarded
<1> SUFFICES ASSUME GateIdle
             PROVE  GateInv /\ AccessIsGuarded
    OBVIOUS
<1>1. /\ NoReply.route = "none" /\ NoReply.status = "none"
      /\ NoReply \in [route : {"none", "generate", "admin"}, by : Credential, status : Status]
    BY DEF NoReply, Header, Credential, Status
<1>2. posture = [name |-> "dev", auth |-> "open", registry |-> "none"] /\ reply = NoReply
    BY DEF GateIdle
<1>3. time = 0 /\ published = Kids /\ up = FALSE /\ resolved = {}
    BY DEF GateIdle
<1>4. time \in 0..MaxTime
    BY <1>3, GateAssumption
<1>5. published \in (SUBSET Kids) \ {{}}
    BY <1>3, IdleAssumption
<1>6. posture \in [name     : {"dev", "staging", "prod"},
                   auth     : {"jwt", "static", "open"},
                   registry : {"none", "readonly", "writable"}]
    BY <1>2
<1>7. GateTypeOK
    BY <1>1, <1>2, <1>3, <1>4, <1>5, <1>6 DEF GateTypeOK
<1> QED
    BY <1>1, <1>2, <1>7
    DEF GateInv, ProdHasAuth, AccessIsGuarded, WritesAuthorised, ProductionIsClosed, RotationIsSeamless

RulesInv ==
    /\ StartInv /\ EvalInv
    /\ PipelineInv /\ DatasetsTyped /\ SampleInv
    /\ ScanInv /\ ScanBounds
    /\ GateInv /\ AccessIsGuarded
    /\ CatalogueInv

LEMMA RulesInitially == RulesInit => RulesInv
<1> SUFFICES ASSUME RulesInit
             PROVE  RulesInv
    OBVIOUS
<1>1. StartInv
    BY AnyStartCovers, StartupIdles, StartInitially DEF RulesInit
<1>2. EvalInv
    BY EvalInitially DEF RulesInit
<1>3. PipelineInv /\ DatasetsTyped /\ SampleInv
    BY PipelineInitially, TypedInitially, SampleInitially DEF RulesInit
<1>4. ScanInit
    BY ScanIdles DEF RulesInit
<1>5. ScanInv /\ ScanBounds
    BY <1>4, ScanInitially, BoundsInitially
<1>6. GateInv /\ AccessIsGuarded
    BY GateInitially, GateIdles DEF RulesInit
<1>7. CatalogueInv
    BY CatalogueInitially DEF RulesInit
<1> QED
    BY <1>1, <1>2, <1>3, <1>5, <1>6, <1>7 DEF RulesInv

LEMMA RulesStep == RulesInv /\ [RulesNext]_rulesVars => RulesInv'
<1> SUFFICES ASSUME RulesInv, [RulesNext]_rulesVars
             PROVE  RulesInv'
    OBVIOUS
<1>1. /\ [StartupNext]_startVars /\ [EvalNext]_evalVars /\ [DatasetsNext]_datasetsVars
      /\ [ScanNext]_scanVars /\ [GateNext]_gateVars /\ [CatalogueNext]_catalogueVars
    BY DEF RulesNext, rulesVars
<1>2. StartInv' /\ EvalInv'
    BY <1>1, StartStep, EvalStep DEF RulesInv
<1>3. PipelineInv' /\ DatasetsTyped' /\ SampleInv'
    BY <1>1, PipelineStep, DatasetsTypedStep, SampleStep DEF RulesInv
<1>4. ScanInv' /\ ScanBounds'
    BY <1>1, ScanStep, BoundsStep DEF RulesInv
<1>5. GateInv' /\ AccessIsGuarded' /\ CatalogueInv'
    BY <1>1, GateStep, CatalogueStep DEF RulesInv
<1> QED
    BY <1>2, <1>3, <1>4, <1>5 DEF RulesInv

(* A start, an evaluation, the datasets, a scan, the gate and the          *)
(* catalogue beside each other, in every behaviour of the run of the six,  *)
(* have the types of all of them.                                          *)
THEOREM RulesStayTyped == RulesSpec => []RulesTypeOK
<1>1. RulesInv => StartupTypeOK /\ EvalTypeOK
    BY StartInvTyped, EvalInvTyped DEF RulesInv
<1>2. RulesInv => DatasetsTypeOK /\ ScanTypeOK
    BY DatasetsAreTyped, BoundsAreTypes DEF RulesInv
<1>3. RulesInv => GateTypeOK /\ CatalogueTypeOK
    BY DEF RulesInv, GateInv, CatalogueInv
<1>4. RulesInv => RulesTypeOK
    BY <1>1, <1>2, <1>3 DEF RulesTypeOK
<1> QED
    BY <1>4, RulesInitially, RulesStep, PTL DEF RulesSpec
===============================================================================
