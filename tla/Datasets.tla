------------------------------ MODULE Datasets ------------------------------
(***************************************************************************)
(* The training data, from the builder to the trainer's input: the builder *)
(* collects items and exports them, build_mlx_dataset splits the exported  *)
(* file for training, two scripts compare it with the benchmarks, and the  *)
(* formatter and the mask decide which tokens a conversation trains.       *)
(*                                                                         *)
(* A process may end at any step and the files it wrote stay.  A text is a *)
(* sequence of words, two of which differ in case or are punctuation.      *)
(***************************************************************************)
EXTENDS Integers, Sequences, FiniteSets

CONSTANTS Ids,        \* the item ids the builder may use
          Bucket,     \* the hash of an id, in tenths of its range
          Fractions,  \* val_fraction, in tenths
          MaxItems,   \* bound: items of one build
          MaxRuns,    \* bound: exports, and preparations of a split
          Ngram,      \* words of an n-gram
          Threshold,  \* similarity, in hundredths, at which a pair is reported
          MaxTurns,   \* bound: messages of a conversation
          Limits      \* tokens a text is cut to

ASSUME DatasetsAssumption ==
    /\ Bucket \in [Ids -> 0..9] /\ Fractions \subseteq 1..10
    /\ MaxItems \in Nat /\ MaxRuns \in Nat /\ Ngram \in Nat \ {0} /\ Threshold \in 1..100
    /\ MaxTurns \in Nat /\ Limits \subseteq Nat

VARIABLES builder,   \* the process that builds the dataset
          dataset,   \* its file
          exported,  \* the last export ran to its end
          prepare,   \* the process that runs build_mlx_dataset
          out,       \* train.jsonl and valid.jsonl
          manifest,  \* manifest.json
          runs,      \* exports and preparations begun (bounded)
          exam,      \* what a script compared, and its exit status
          sample     \* a conversation as the trainer reads it

pipelineVars == <<builder, dataset, exported, prepare, out, manifest, runs>>
datasetsVars == <<pipelineVars, exam, sample>>

-----------------------------------------------------------------------------
(* Files.                                                                  *)

Answers == {"yes", "Yes", "no"}
Folded(answer) == IF answer = "Yes" THEN "yes" ELSE answer
DataItems == [id : Ids, answer : Answers]

File(rows, torn) == [rows |-> rows, torn |-> torn]
Empty == File(<<>>, FALSE)
(* What a process that dies while it writes rows may have left.            *)
Partly(rows) == {File(SubSeq(rows, 1, n), torn) : n \in 0..Len(rows), torn \in BOOLEAN}

IdsIn(rows) == {rows[i].id : i \in DOMAIN rows}
Distinct(rows) == Cardinality(IdsIn(rows)) = Len(rows)

(* load_training_dataset: a broken line, an id seen before and an empty    *)
(* file raise.                                                             *)
Loads(file) == ~file.torn /\ file.rows # <<>> /\ Distinct(file.rows)

-----------------------------------------------------------------------------
(* The builder.                                                            *)

NoBuilder == [at |-> "none", items |-> <<>>]

BeginBuild ==
    /\ builder.at = "none" /\ runs.exports < MaxRuns
    /\ builder' = [NoBuilder EXCEPT !.at = "adding"]
    /\ runs' = [runs EXCEPT !.exports = @ + 1]
    /\ UNCHANGED <<dataset, exported, prepare, out, manifest>>

(* Mutant of Fresh: the answer is looked up as it is written.              *)
FreshVerbatim(items, item) ==
    /\ \A i \in DOMAIN items : items[i].answer # item.answer
    /\ item.id \notin IdsIn(items)

(* _Deduper.add refuses an answer or an id it has.                         *)
Fresh(items, item) ==
    /\ \A i \in DOMAIN items : Folded(items[i].answer) # Folded(item.answer)
    /\ item.id \notin IdsIn(items)

(* An item refused raises out of the build: nothing is exported.           *)
Add(item) ==
    /\ builder.at = "adding" /\ Len(builder.items) < MaxItems
    /\ builder' = IF Fresh(builder.items, item)
                  THEN [builder EXCEPT !.items = Append(@, item)]
                  ELSE NoBuilder
    /\ UNCHANGED <<dataset, exported, prepare, out, manifest, runs>>

(* Opening the file for writing empties it.                                *)
BeginExport ==
    /\ builder.at = "adding" /\ builder.items # <<>>
    /\ builder' = [builder EXCEPT !.at = "exporting"]
    /\ dataset' = Empty /\ exported' = FALSE
    /\ UNCHANGED <<prepare, out, manifest, runs>>

EndExport ==
    /\ builder.at = "exporting"
    /\ dataset' = File(builder.items, FALSE) /\ exported' = TRUE
    /\ builder' = NoBuilder
    /\ UNCHANGED <<prepare, out, manifest, runs>>

BuilderDies ==
    /\ builder.at # "none"
    /\ builder' = NoBuilder
    /\ dataset' \in IF builder.at = "exporting" THEN Partly(builder.items) ELSE {dataset}
    /\ UNCHANGED <<exported, prepare, out, manifest, runs>>

-----------------------------------------------------------------------------
(* build_mlx_dataset.                                                      *)

NoPreparation == [at |-> "none", rows |-> <<>>, fraction |-> 0]
NoManifest == [there |-> FALSE, train |-> <<>>, valid |-> <<>>, fraction |-> 0]

(* Mutant of Held: every n-th row is held out, by its position.            *)
HeldByPosition(rows, i, fraction) == i * fraction % 10 < fraction

(* _split_index: the hash of the id alone decides.                         *)
Held(rows, i, fraction) == Bucket[rows[i].id] < fraction

(* The rows at the positions kept, in their order.                         *)
Keep(rows, kept) ==
    LET Rank(i) == Cardinality({j \in kept : j <= i})
    IN [k \in 1..Cardinality(kept) |-> rows[CHOOSE i \in kept : Rank(i) = k]]

(* Mutant of Side: the rows held out are trained on as well.               *)
SideKeepsAll(name, rows, fraction) ==
    IF name = "train" THEN rows ELSE Keep(rows, {i \in DOMAIN rows : Held(rows, i, fraction)})

Side(name, rows, fraction) ==
    Keep(rows, {i \in DOMAIN rows : Held(rows, i, fraction) = (name = "valid")})

(* A dataset that does not load, or whose validation split is empty,       *)
(* raises before anything is written.                                      *)
BeginPrepare(fraction) ==
    /\ prepare.at = "none" /\ runs.splits < MaxRuns
    /\ Loads(dataset) /\ Side("valid", dataset.rows, fraction) # <<>>
    /\ prepare' = [at |-> "train", rows |-> dataset.rows, fraction |-> fraction]
    /\ runs' = [runs EXCEPT !.splits = @ + 1]
    /\ UNCHANGED <<builder, dataset, exported, out, manifest>>

(* write_text truncates the file and fills it, train before valid.         *)
WriteSide(name) ==
    /\ prepare.at = name
    /\ out' = [out EXCEPT ![name] = File(Side(name, prepare.rows, prepare.fraction), FALSE)]
    /\ prepare' = [prepare EXCEPT !.at = IF name = "train" THEN "valid" ELSE "manifest"]
    /\ UNCHANGED <<builder, dataset, exported, manifest, runs>>

(* The manifest gives the digest of each text written.                     *)
WriteManifest ==
    /\ prepare.at = "manifest"
    /\ manifest' = [there |-> TRUE, fraction |-> prepare.fraction,
                    train |-> Side("train", prepare.rows, prepare.fraction),
                    valid |-> Side("valid", prepare.rows, prepare.fraction)]
    /\ prepare' = NoPreparation
    /\ UNCHANGED <<builder, dataset, exported, out, runs>>

(* A manifest left half-written does not parse.                            *)
PreparationDies ==
    /\ prepare.at # "none"
    /\ prepare' = NoPreparation
    /\ IF prepare.at = "manifest"
       THEN manifest' \in {manifest, NoManifest} /\ UNCHANGED out
       ELSE /\ \/ UNCHANGED out
               \/ \E file \in Partly(Side(prepare.at, prepare.rows, prepare.fraction)) :
                      out' = [out EXCEPT ![prepare.at] = file]
            /\ UNCHANGED manifest
    /\ UNCHANGED <<builder, dataset, exported, runs>>

PipelineNext ==
    /\ \/ BeginBuild
       \/ \E item \in DataItems : Add(item)
       \/ BeginExport
       \/ EndExport
       \/ BuilderDies
       \/ \E fraction \in Fractions : BeginPrepare(fraction)
       \/ \E name \in {"train", "valid"} : WriteSide(name)
       \/ WriteManifest
       \/ PreparationDies
    /\ UNCHANGED <<exam, sample>>

-----------------------------------------------------------------------------
(* The comparison with a benchmark.                                        *)

(* A conversation need not have a system message.                          *)
Systems == {<<>>, <<"be">>, <<"be", "exact">>}
Contexts == {<<>>, <<"be">>}
Questions == {<<"a">>, <<"a", "b">>, <<"A", "b">>, <<"a", "b", "c">>, <<"A", ".", "b", "c">>,
              <<"a", "b", "d">>, <<"d", "a">>}
ChoiceLists == {<<>>, <<"x", "y">>}

(* later: what the conversation asks after its first answer, if it does.   *)
TrainingRow(system, question, later) ==
    [kind |-> "training", context |-> system, question |-> question, choices |-> <<>>, later |-> later]

BenchmarkRow(question, context, choices) ==
    [kind |-> "benchmark", context |-> context, question |-> question, choices |-> choices, later |-> <<>>]

TrainingRows == {TrainingRow(s, q, l) : s \in Systems, q \in Questions, l \in {<<>>, <<"a", "b">>}}
BenchmarkRows == {BenchmarkRow(q, x, c) : q \in Questions, x \in Contexts, c \in ChoiceLists}

(* normalize_text: lower case, punctuation dropped.                        *)
WordsOf(text) == Keep(text, {i \in DOMAIN text : text[i] # "."})

Lower(word) == IF word = "A" THEN "a" ELSE word

Normal(text) == [i \in DOMAIN WordsOf(text) |-> Lower(WordsOf(text)[i])]

(* record_text: the fields in their order, then the choices.  A row as the *)
(* loader of the script reads it keeps the fields of its own file, and a   *)
(* training file has messages and none of these; validate_dataset makes    *)
(* the fields out of the first question and the first system message.      *)
RecordText(tool, row) ==
    IF tool = "check_contamination" /\ row.kind = "training" THEN <<>>
    ELSE row.question \o row.context \o row.choices

Grams(text) ==
    LET words == Normal(text) IN
    IF Len(words) < Ngram THEN {<<words[i]>> : i \in DOMAIN words}
    ELSE {SubSeq(words, i, i + Ngram - 1) : i \in 1..(Len(words) - Ngram + 1)}

Similar(a, b) ==
    /\ Grams(a) # {} /\ Grams(b) # {}
    /\ 100 * Cardinality(Grams(a) \cap Grams(b)) >= Threshold * Cardinality(Grams(a) \cup Grams(b))

(* check_contamination: the pairs reported, as equal or as similar.        *)
Matches(tool, as, bs) ==
    {pair \in (DOMAIN as) \X (DOMAIN bs) :
        LET a == RecordText(tool, as[pair[1]])
            b == RecordText(tool, bs[pair[2]])
        IN (Normal(a) # <<>> /\ Normal(a) = Normal(b)) \/ Similar(a, b)}

NoExam == [tool |-> "none", as |-> <<>>, bs |-> <<>>, there |-> FALSE, exit |-> 0]

(* Either script exits with 1 when a pair is reported.  validate_dataset   *)
(* warns of a benchmark that is not there and goes on; the other script    *)
(* exits with 2.                                                           *)
Examine(tool, as, bs, there) ==
    /\ exam.tool = "none"
    /\ tool = "validate_dataset" => \A i \in DOMAIN as : as[i].kind = "training"
    /\ exam' = [tool |-> tool, as |-> as, bs |-> bs, there |-> there,
                exit |-> IF ~there THEN IF tool = "validate_dataset" THEN 0 ELSE 2
                         ELSE IF Matches(tool, as, bs) = {} THEN 0 ELSE 1]
    /\ UNCHANGED <<pipelineVars, sample>>

Examines ==
    \E tool \in {"validate_dataset", "check_contamination"}, there \in BOOLEAN :
    \E b \in BenchmarkRows, a \in TrainingRows \cup BenchmarkRows,
       more \in {BenchmarkRow(<<"d", "a">>, <<>>, <<>>), BenchmarkRow(<<"a">>, <<>>, <<"x", "y">>)} :
        Examine(tool, <<a>>, <<b, more>>, there)

-----------------------------------------------------------------------------
(* The formatter and the mask.  A token is a mark of a turn, the name of a *)
(* role, or the content of the message at a place of the conversation.     *)

Tok(kind, at) == [kind |-> kind, at |-> at]
Marker == <<Tok("open", 0), Tok("model", 0)>>

(* TrainingItem: two messages or more, a user among them, and the answer   *)
(* last.                                                                   *)
Conversations ==
    {roles \in UNION {[1..n -> {"system", "user", "assistant"}] : n \in 2..MaxTurns} :
        roles[Len(roles)] = "assistant" /\ \E i \in DOMAIN roles : roles[i] = "user"}

(* The system messages before a place: the last of them is in force.       *)
SystemAt(roles, i) == {j \in 1..(i - 1) : roles[j] = "system"}

(* The first user turn after a system message carries it.                  *)
CarriesSystem(roles, i) ==
    SystemAt(roles, i) # {} /\ ~\E j \in 1..(i - 1) : roles[j] = "user" /\ SystemAt(roles, j) # {}

TurnText(roles, i) ==
    CASE roles[i] = "system" -> <<>>
      [] roles[i] = "user" ->
            <<Tok("open", 0), Tok("user", 0)>>
            \o (IF CarriesSystem(roles, i)
                THEN <<Tok("text", CHOOSE j \in SystemAt(roles, i) : \A k \in SystemAt(roles, i) : k <= j)>>
                ELSE <<>>)
            \o <<Tok("text", i), Tok("close", 0)>>
      [] OTHER -> Marker \o <<Tok("text", i), Tok("close", 0)>>

ChatText(roles) ==
    LET upTo[i \in 0..Len(roles)] == IF i = 0 THEN <<>> ELSE upTo[i - 1] \o TurnText(roles, i)
    IN upTo[Len(roles)]

(* completion_mask_start; a label sequence without the marker is masked    *)
(* whole by the collator.                                                  *)
MaskStart(labels, response) ==
    LET starts == {i \in 0..(Len(labels) - Len(response)) : SubSeq(labels, i + 1, i + Len(response)) = response}
    IN IF response = <<>> \/ starts = {} THEN Len(labels)
       ELSE (CHOOSE i \in starts : \A j \in starts : i <= j) + Len(response)

NoSample == [roles |-> <<>>, labels |-> <<>>, cut |-> 0]

(* The trainer cuts a text that is longer than its limit.                  *)
Collate(roles, limit) ==
    /\ sample = NoSample
    /\ LET text == ChatText(roles)
           labels == IF Len(text) <= limit THEN text ELSE SubSeq(text, 1, limit)
       IN sample' = [roles |-> roles, labels |-> labels, cut |-> MaskStart(labels, Marker)]
    /\ UNCHANGED <<pipelineVars, exam>>

-----------------------------------------------------------------------------
(* The builder, the scripts and the trainer share no state but the files,  *)
(* and the scripts only read: a behaviour is of one of them.               *)

DatasetsInit ==
    /\ builder = NoBuilder /\ dataset = Empty /\ exported = FALSE
    /\ prepare = NoPreparation /\ out = [name \in {"train", "valid"} |-> Empty]
    /\ manifest = NoManifest /\ runs = [exports |-> 0, splits |-> 0]
    /\ exam = NoExam /\ sample = NoSample

DatasetsNext ==
    \/ exam = NoExam /\ sample = NoSample /\ PipelineNext
    \/ runs.exports = 0 /\ sample = NoSample /\ Examines
    \/ /\ runs.exports = 0 /\ exam = NoExam
       /\ \E roles \in Conversations, limit \in Limits : Collate(roles, limit)

DatasetsSpec == DatasetsInit /\ [][DatasetsNext]_datasetsVars

-----------------------------------------------------------------------------
(* Properties.                                                             *)

Rows == UNION {[1..n -> DataItems] : n \in 0..MaxItems}
AFile(file) == file.rows \in Rows /\ file.torn \in BOOLEAN

(* Types; and no two items of a build answer alike but for case.           *)
DatasetsTypeOK ==
    /\ builder.at \in {"none", "adding", "exporting"} /\ builder.items \in Rows
    /\ AFile(dataset) /\ AFile(out["train"]) /\ AFile(out["valid"]) /\ exported \in BOOLEAN
    /\ prepare.at \in {"none", "train", "valid", "manifest"} /\ prepare.rows \in Rows
    /\ manifest.train \in Rows /\ manifest.valid \in Rows /\ manifest.fraction \in {0} \cup Fractions
    /\ exam.exit \in 0..2 /\ sample.cut \in 0..Len(sample.labels)
    /\ Cardinality({Folded(builder.items[i].answer) : i \in DOMAIN builder.items}) = Len(builder.items)

(* An export that ended is a file the loader accepts, whatever was         *)
(* exported, torn or refused before (builder_v2.py:91-132, 1959-1965;      *)
(* schema.py:105-129).                                                     *)
ExportLoads == exported => Loads(dataset)

(* A directory whose files match its manifest holds no item in both        *)
(* splits, none twice, and an item to validate with, whichever builds,     *)
(* crashes and fractions wrote it (mlx_data.py:56-85).                     *)
HeldOutStaysOut ==
    LET verified == /\ manifest.there
                    /\ out["train"] = File(manifest.train, FALSE)
                    /\ out["valid"] = File(manifest.valid, FALSE)
    IN verified =>
         /\ IdsIn(manifest.train) \cap IdsIn(manifest.valid) = {}
         /\ Distinct(manifest.train) /\ Distinct(manifest.valid)
         /\ manifest.valid # <<>>

(* From one manifest to the next an item of both stays in its split, and a *)
(* larger fraction only moves items from training to validation: other     *)
(* items coming, going or changing places reshuffle nothing                *)
(* (mlx_data.py:29-38).                                                    *)
SplitIsStable ==
    [][(manifest.there /\ manifest'.there) =>
          /\ manifest'.fraction >= manifest.fraction =>
                IdsIn(manifest.valid) \cap IdsIn(manifest'.train) = {}
          /\ manifest'.fraction <= manifest.fraction =>
                IdsIn(manifest.train) \cap IdsIn(manifest'.valid) = {}]_manifest

(* The words of a text, its case and punctuation apart, written out.       *)
SameWords(a, b) ==
    /\ Len(WordsOf(a)) = Len(WordsOf(b))
    /\ \A i \in DOMAIN WordsOf(a) : Lower(WordsOf(a)[i]) = Lower(WordsOf(b)[i])

(* All that a row asks.                                                    *)
Asks(row) == row.question \o row.context \o row.choices \o row.later

(* A row that asks what a benchmark record asks, case and punctuation      *)
(* apart, does not pass a benchmark that is there, however short the two   *)
(* are and wherever they stand in their files; but check_contamination     *)
(* passes every row of a training file, and validate_dataset does not look *)
(* at what a conversation asks after its first question. A system message  *)
(* is of what a row asks: a benchmark question in the very words under a   *)
(* system message of its own is a copy only if the two are similar enough  *)
(* (contamination.py:190-222; validate_dataset.py:144-179).                *)
CopiesAreCaught ==
    (exam.there /\ exam.exit = 0) =>
    \A i \in DOMAIN exam.as, j \in DOMAIN exam.bs :
        SameWords(Asks(exam.as[i]), Asks(exam.bs[j])) =>
            /\ exam.as[i].kind = "training"
            /\ exam.tool = "check_contamination" \/ exam.as[i].later # <<>>

(* Which file is called A and which B does not change the verdict: the     *)
(* usage of the script gives them in either order (contamination.py:       *)
(* 209-222, check_contamination.py:9-16).                                  *)
GateIsSymmetric ==
    (Matches(exam.tool, exam.as, exam.bs) = {}) = (Matches(exam.tool, exam.bs, exam.as) = {})

(* What trains of a conversation, however it was cut: what comes after the *)
(* first mark of the model. So the content of every answer does, and that  *)
(* of a question or a system message does exactly when an answer precedes  *)
(* it, although "only completion tokens (the model turns) should           *)
(* contribute to the loss" (formatting.py:20): of a conversation of one    *)
(* answer, and of no longer one, the content of the answer alone trains.   *)
(* A system message that leads, and is the only one, is in a text that was *)
(* not cut (formatting.py:31-63, sft.py:41-63, 88-97).                     *)
OnlyCompletionsTrain ==
    LET labels == sample.labels
        roles == sample.roles
        Trains(i) == i > sample.cut
        Content(i) == labels[i].kind = "text"
        Answer(i) == Content(i) /\ roles[labels[i].at] = "assistant"
    IN roles # <<>> =>
       /\ \A i \in DOMAIN labels : Trains(i) <=> \E j \in 1..(i - 1) : labels[j].kind = "model"
       /\ \A i \in DOMAIN labels : Content(i) =>
             (Trains(i) <=> Answer(i) \/ \E j \in 1..(i - 1) : Answer(j))
       /\ (\A k \in 1..(Len(roles) - 1) : roles[k] # "assistant") =>
             \A i \in DOMAIN labels : Content(i) /\ Trains(i) => Answer(i)
       /\ (/\ roles[1] = "system" /\ Len(labels) = Len(ChatText(roles))
           /\ \A i \in 2..Len(roles) : roles[i] # "system") =>
             \E i \in DOMAIN labels : labels[i] = Tok("text", 1)

(* From the builder to the labels, nothing trains that should not:         *)
(* held-out items, copies of the benchmarks that a comparison looked at,   *)
(* what precedes the first answer (data/, training/).                      *)
TrainsOnlyWhatItMay ==
    /\ ExportLoads
    /\ HeldOutStaysOut
    /\ CopiesAreCaught
    /\ GateIsSymmetric
    /\ OnlyCompletionsTrain

(* A training file that asks a question of the benchmark in the very words *)
(* does not pass the gate that has to pass before a training run: what     *)
(* DATA_LICENSES.md:17 says of scripts/check_contamination.py.             *)
LeaksFailTheGate ==
    (exam.tool = "check_contamination" /\
     \E i \in DOMAIN exam.as, j \in DOMAIN exam.bs :
         exam.as[i].kind = "training" /\ exam.as[i].question = exam.bs[j].question)
    => exam.exit # 0
=============================================================================
