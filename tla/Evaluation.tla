------------------------------- MODULE Evaluation -------------------------------
(***************************************************************************)
(* The evaluation harness: run_benchmark and rescore_results of            *)
(* evaluation/harness.py, the scorers, the judge, the loading of a         *)
(* benchmark, and the command `gemma-cyber eval` (cli/main.py).            *)
(*                                                                         *)
(* A response is a short sequence of tokens: option letters, the word      *)
(* "answer", technique identifiers, a keyword, a hedge, a lower-case "a".  *)
(* One identifier, "T1", is the parent of another, "T1.1", and contained   *)
(* in its text.  A score is a pair <<numerator, denominator>>.  A run may  *)
(* die between any two steps; results.json and scorecard.md are written in *)
(* place, one after the other.                                             *)
(***************************************************************************)
EXTENDS Integers, FiniteSets, SequencesExt

CONSTANTS
    Scale,      \* the units a rate is rounded to: 1000 in the code
    MaxTokens,  \* the longest response
    MaxJobs     \* runs and rescorings, one after the other

ASSUME EvaluationAssumption == /\ Scale \in Nat \ {0}
                               /\ MaxTokens \in Nat /\ MaxJobs \in Nat \ {0}

VARIABLES
    job,        \* what is being done: its benchmark, split, judge and gate
    strict,     \* the keyword items have been edited to ask for every keyword
    step,       \* how far the job has got
    records,    \* the records of the items so far
    results,    \* results.json: Absent, Torn or a report
    card,       \* scorecard.md: Absent, or the report it was made from
    jobs,       \* jobs begun
    status      \* the exit code of the last job, or Going

evalVars == <<job, strict, step, records, results, card, jobs, status>>

Options == {"A", "B", "B)"}

Tokens == Options \cup {"a", "answer", "T1", "T1.1", "key", "keyring", "hedge"}

Texts == SeqOf(Tokens, MaxTokens)

(* The items.  A benchmark is a sequence of them.                          *)
Item(id, scorer, category, split) == [id |-> id, scorer |-> scorer, category |-> category, split |-> split]

Choice == Item("choice", "mcq", "basics", "dev")
Choice2 == Item("choice2", "mcq", "attack", "dev")
Choice3 == Item("choice3", "mcq", "basics", "test")
Words == Item("words", "keyword", "attack", "dev")
Trap == Item("trap", "hallucination", "basics", "test")
Fact == Item("fact", "factual", "attack", "dev")

RightOption == "B"
Keywords == {"key", "T1"}
RequiredAll == {"T1.1"}
RequiredAny == {"key", "hedge"}
Forbidden == {"T1"}

Benchmarks == {<<Choice>>, <<Words>>, <<Trap>>, <<Fact>>, <<Words, Fact>>,
               <<Choice, Choice2, Choice3>>, <<Fact, Fact>>, <<>>}

NoJob == [task |-> "none"]

Absent == [items |-> "absent"]

Torn == [items |-> "torn"]

Going == 99

Readable(report) == report \notin {Absent, Torn}

-----------------------------------------------------------------------------
(* evaluation/scorers.py.                                                  *)

(* What contains what, as text.                                            *)
Within(term, token) == <<term, token>> \in {<<"T1", "T1.1">>, <<"key", "keyring">>, <<"B", "B)">>}

Substring(text, term) == \E token \in ToSet(text) : token = term \/ Within(term, token)

(* _term_present: an identifier is not found inside a longer one.          *)
TermPresent(text, term) ==
    IF term \in {"T1", "T1.1"} THEN term \in ToSet(text) ELSE Substring(text, term)

LetterOf(token) == IF token = "B)" THEN "B" ELSE token

FirstOf(text, S) == LET found == {i \in DOMAIN text : i \in S} IN
                    IF found = {} THEN "none" ELSE LetterOf(text[CHOOSE i \in found : \A j \in found : i <= j])

(* _extract_mcq_letter: a letter at the very start, else one after the     *)
(* word answer, else one with a parenthesis, else the first letter.  Only  *)
(* after the word is case ignored, of the letter as of the word: the       *)
(* article of "answer: a B" is taken, as it stands, and equals no key.     *)
Letter(text) ==
    LET letters == {i \in DOMAIN text : text[i] \in Options}
        said == {i \in DOMAIN text : /\ i > 1 /\ text[i - 1] = "answer"
                                     /\ text[i] \in Options \cup {"a"}}
        syntax == {i \in letters : text[i] = "B)"}
    IN IF 1 \in letters THEN FirstOf(text, {1})
       ELSE IF said # {} THEN FirstOf(text, said)
       ELSE IF syntax # {} THEN FirstOf(text, syntax)
       ELSE FirstOf(text, letters)

Score(num, den, passed) == [score |-> <<num, den>>, passed |-> passed]

Grade(passed) == Score(IF passed THEN 1 ELSE 0, 1, passed)

Matched(text, terms) == Cardinality({t \in terms : TermPresent(text, t)})

(* _score_factual.                                                         *)
Factual(text) ==
    IF Matched(text, Forbidden) > 0
    THEN Score(0, 1, FALSE)
    ELSE Score(Matched(text, RequiredAll), Cardinality(RequiredAll),
               Matched(text, RequiredAll) = Cardinality(RequiredAll) /\ Matched(text, RequiredAny) > 0)

(* _score_keyword: half of the keywords, or all of them.                   *)
Keyword(text) ==
    LET hits == Cardinality({k \in Keywords : Substring(text, k)})
    IN Score(hits, 2, IF strict THEN hits = 2 ELSE hits >= 1)

(* score_item.                                                             *)
ScoreItem(item, text) ==
    CASE item.scorer = "mcq" -> Grade(Letter(text) = RightOption)
      [] item.scorer = "keyword" -> Keyword(text)
      [] item.scorer = "hallucination" -> Grade("hedge" \in ToSet(text))
      [] item.scorer = "factual" -> Factual(text)
-----------------------------------------------------------------------------
(* evaluation/judge.py.                                                    *)

(* What comes back: an exception, something that is not a JSON object, or  *)
(* an object with or without usable fields.                                *)
JudgeOutputs ==
    {[json |-> "raises"], [json |-> "unreadable"]} \cup
    [json : {"object"}, verdict : {"PASS", "FAIL", "other"}, score : {"none", "1", "2", "text"}]

Unusable(raw) == raw.json # "object" \/ raw.verdict = "other" \/ raw.score \in {"2", "text"}

(* Mutant of Verdict: the score is looked at after the verdict is taken.   *)
VerdictBeforeScore(raw) ==
    [passed |-> raw.json = "object" /\ raw.verdict = "PASS", error |-> Unusable(raw)]

(* evaluate and parse_judge_output: an unusable output is a FAIL with an   *)
(* error.  The judge's score may disagree with its verdict.                *)
Verdict(raw) ==
    [passed |-> ~Unusable(raw) /\ raw.verdict = "PASS", error |-> Unusable(raw)]

-----------------------------------------------------------------------------
(* evaluation/harness.py.                                                  *)

(* round(..., 3); no tie occurs on the instances.                          *)
Rounded(num, den) == (2 * Scale * num + den) \div (2 * den)

Passed(recs) == Cardinality({i \in DOMAIN recs : recs[i].passed})

InCategory(recs, c) == {i \in DOMAIN recs : recs[i].item.category = c}

(* _aggregate.                                                             *)
Aggregate(recs) ==
    [count |-> Len(recs), rate |-> Rounded(Passed(recs), Len(recs)),
     by |-> [c \in {recs[i].item.category : i \in DOMAIN recs} |->
                [count |-> Cardinality(InCategory(recs, c)),
                 passed |-> Cardinality({i \in InCategory(recs, c) : recs[i].passed})]]]

JudgeOf(recs) ==
    IF job.judged
    THEN [count |-> Len(recs), passed |-> Cardinality({i \in DOMAIN recs : recs[i].judge.passed}),
          errors |-> Cardinality({i \in DOMAIN recs : recs[i].judge.error})]
    ELSE [count |-> 0, passed |-> 0, errors |-> 0]

Report(recs, judge) == [items |-> recs, overall |-> Aggregate(recs), judge |-> judge]

(* The items of a split, in order: the k-th is the one with k up to it.    *)
Selected(bench, split) ==
    LET kept == {i \in DOMAIN bench : split \in {"all", bench[i].split}}
    IN [k \in 1..Cardinality(kept) |->
            bench[CHOOSE i \in kept : Cardinality({j \in kept : j <= i}) = k]]

WellFormed(bench) == bench # <<>> /\ IsInjective([i \in DOMAIN bench |-> bench[i].id])

Gates == {-1, Scale \div 3 + 1, (2 * Scale) \div 3 + 1, Scale}

EvalInit ==
    /\ job = NoJob /\ strict = FALSE /\ step = "idle" /\ records = <<>>
    /\ results = Absent /\ card = Absent /\ jobs = 0 /\ status = Going

End(code) == step' = "idle" /\ status' = code

(* `gemma-cyber eval`, or a script with a judge, in a fresh directory; the *)
(* runtime may be down or without the model, and the benchmark unusable.   *)
Begin ==
    /\ step = "idle" /\ jobs = 0
    /\ job' \in [task : {"eval"}, bench : Benchmarks, split : {"all", "test"},
                 judged : BOOLEAN, gate : Gates]
    /\ job'.judged => job'.gate = -1 /\ Len(job'.bench) < 3
    /\ jobs' = 1
    /\ \/ WellFormed(job'.bench) /\ Selected(job'.bench, job'.split) # <<>> /\ step' = "asking" /\ status' = Going
       \/ (~WellFormed(job'.bench) \/ Selected(job'.bench, job'.split) = <<>>) /\ End(4)
       \/ ~job'.judged /\ End(2)
       \/ ~job'.judged /\ End(3)
    /\ UNCHANGED <<strict, records, results, card>>

Items == Selected(job.bench, job.split)

(* What is answered: anything in a run of one item, a few answers else.    *)
PossibleAnswers ==
    IF Len(Items) > 1 THEN {<<>>, <<"B">>, <<"key">>, <<"T1.1", "key">>}
    ELSE IF job.judged THEN SeqOf(Tokens, 1) ELSE Texts

Record(item, text, raw) ==
    [item |-> item, text |-> text, raw |-> raw, passed |-> ScoreItem(item, text).passed,
     score |-> ScoreItem(item, text).score, judge |-> Verdict(raw)]

Unjudged == [json |-> "raises"]

(* One item: generated, scored and judged.                                 *)
Ask ==
    /\ step = "asking" /\ Len(records) < Len(Items)
    /\ \E text \in PossibleAnswers, raw \in (IF job.judged THEN JudgeOutputs ELSE {Unjudged}) :
          records' = Append(records, Record(Items[Len(records) + 1], text, raw))
    /\ UNCHANGED <<job, strict, step, results, card, jobs, status>>

(* The model fails: nothing of the run is kept.                            *)
AskFails ==
    /\ step = "asking" /\ Len(records) < Len(Items)
    /\ End(1) /\ records' = <<>>
    /\ UNCHANGED <<job, strict, results, card, jobs>>

ScoredAnew(r) ==
    LET s == ScoreItem(r.item, r.text)
    IN [r EXCEPT !.score = s.score, !.passed = s.passed]

(* rescore_results: the stored responses are scored anew and what the      *)
(* judge said stays.  A torn file is an error.                             *)
Rescore ==
    /\ step = "idle" /\ status # Going /\ results # Absent /\ jobs < MaxJobs
    /\ jobs' = jobs + 1
    /\ job' = [job EXCEPT !.task = "rescore", !.gate = -1]
    /\ IF results = Torn
       THEN End(1) /\ UNCHANGED records
       ELSE /\ records' = [i \in DOMAIN results.items |-> ScoredAnew(results.items[i])]
            /\ step' = "writing" /\ status' = Going
    /\ UNCHANGED <<strict, results, card>>

(* write_text empties results.json ...                                     *)
Truncate ==
    /\ (step = "asking" /\ Len(records) = Len(Items)) \/ step = "writing"
    /\ results' = Torn /\ step' = "filling"
    /\ UNCHANGED <<job, strict, records, card, jobs, status>>

(* ... and fills it ...                                                    *)
Fill ==
    /\ step = "filling"
    /\ results' = Report(records, JudgeOf(records)) /\ step' = "carding"
    /\ UNCHANGED <<job, strict, records, card, jobs, status>>

(* ... and the card follows, then the gate of cmd_eval.                    *)
WriteCard ==
    /\ step = "carding"
    /\ card' = results
    /\ records' = <<>>
    /\ End(IF job.gate # -1 /\ results.overall.rate < job.gate THEN 5 ELSE 0)
    /\ UNCHANGED <<job, strict, results, jobs>>

Die ==
    /\ step # "idle"
    /\ End(-1) /\ records' = <<>>
    /\ UNCHANGED <<job, strict, results, card, jobs>>

(* Somebody edits the keyword items of the benchmark.                      *)
EditBenchmark ==
    /\ step = "idle" /\ status # Going /\ ~strict /\ jobs < MaxJobs
    /\ strict' = TRUE
    /\ UNCHANGED <<job, step, records, results, card, jobs, status>>

EvalNext ==
    \/ Begin \/ Ask \/ AskFails \/ Rescore \/ Truncate \/ Fill \/ WriteCard \/ Die \/ EditBenchmark

EvalSpec == EvalInit /\ [][EvalNext]_evalVars

-----------------------------------------------------------------------------
EvalTypeOK ==
    /\ job = NoJob \/ job.task \in {"eval", "rescore"}
    /\ strict \in BOOLEAN /\ jobs \in 0..MaxJobs
    /\ step \in {"idle", "asking", "writing", "filling", "carding"}
    /\ step # "idle" => status = Going
    /\ status \in {-1, 0, 1, 2, 3, 4, 5, Going}
    /\ \A i \in DOMAIN records :
          LET s == records[i].score IN 0 <= s[1] /\ s[1] <= s[2] /\ s[2] > 0

(* results.json, when it can be read, holds one record for each item of    *)
(* its split, in order, whatever failed and whoever died, and its figures  *)
(* are those of its records (evaluation/harness.py:46-176).                *)
ReportAddsUp ==
    Readable(results) =>
        LET o == results.overall
            Of(c, figure) == IF c \in DOMAIN o.by THEN o.by[c][figure] ELSE 0
        IN
        /\ [i \in DOMAIN results.items |-> results.items[i].item] = Items
        /\ o.count = Len(Items)
        /\ o.count = Of("basics", "count") + Of("attack", "count")
        /\ o.rate = Rounded(Of("basics", "passed") + Of("attack", "passed"), o.count)

(* A job that ends well, and only it, leaves a card of the results that    *)
(* are there (evaluation/harness.py:172-175, 203-207).                     *)
ZeroMeansReported == status \in {0, 5} /\ step = "idle" => card = results /\ Readable(results)

(* A broken judge raises no figure: a PASS is counted only for an output   *)
(* that said PASS with usable fields, each output that could not be used   *)
(* is counted as an error, and a rescoring, which may move the primary     *)
(* figures, leaves the judge's                                             *)
(* (evaluation/judge.py:175-207, evaluation/harness.py:128-138).           *)
BrokenJudgeRaisesNothing ==
    Readable(results) /\ job.judged =>
        LET raws == [i \in DOMAIN results.items |-> results.items[i].raw]
            clean == {i \in DOMAIN raws : raws[i].json = "object" /\ raws[i].verdict = "PASS"
                                             /\ raws[i].score \in {"none", "1"}}
            errors == {i \in DOMAIN raws : Unusable(raws[i])}
        IN results.judge = [count |-> Len(raws), passed |-> Cardinality(clean), errors |-> Cardinality(errors)]

(* A response that asserts a wrong identifier fails with no credit, and    *)
(* the sub-technique of that identifier, which contains it as text, does   *)
(* not (evaluation/scorers.py:106-120, 182-222).                           *)
ForbiddenFails ==
    \A i \in DOMAIN records :
        LET r == records[i] IN
        r.item.scorer = "factual" =>
            /\ "T1" \in ToSet(r.text) => ~r.passed /\ r.score[1] = 0
            /\ ToSet(r.text) = {"T1.1", "key"} => r.passed

(* The article follows the word answer before any option does, and no      *)
(* option starts the response.                                             *)
Distracting(text) ==
    \E i \in DOMAIN text \ {1} :
        /\ text[i] = "a" /\ text[i - 1] = "answer"
        /\ \A j \in 1..(i - 1) : text[j] \in Options => j > 1 /\ text[j - 1] # "answer"

(* A multiple choice is passed only by a response that names the right     *)
(* option in upper case.  One that names no other, however often and in    *)
(* whatever form, passes, unless "answer" is followed by the article: then *)
(* a right answer is graded wrong, although the docstring has the letters  *)
(* "matched CASE-SENSITIVELY (uppercase)" for the sake of the article      *)
(* (evaluation/scorers.py:60-92).                                          *)
SoleLetterCounts ==
    \A i \in DOMAIN records :
        LET r == records[i]
            named == {LetterOf(t) : t \in ToSet(r.text) \cap Options}
        IN r.item.scorer = "mcq" =>
              /\ r.passed => RightOption \in named
              /\ Cardinality(named) <= 1 => (r.passed <=> named = {RightOption} /\ ~Distracting(r.text))

(* The gate compares the rounded rate: it lets through, or stops, nothing  *)
(* that is off by more than half a unit (cli/main.py:301-308).             *)
GateWithinRounding ==
    job.task = "eval" /\ step = "idle" /\ status \in {0, 5} /\ job.gate # -1 =>
        LET passed == Passed(results.items) n == Len(results.items) IN
        IF status = 0 THEN 2 * passed * Scale >= (2 * job.gate - 1) * n
                    ELSE 2 * passed * Scale < (2 * job.gate + 1) * n

(* The figures of an evaluation are earned: by its records, its scorers    *)
(* and its judge, and by what is on disk when it says that it ended well   *)
(* (evaluation/harness.py, scorers.py, judge.py).                          *)
FiguresAreEarned ==
    /\ ReportAddsUp
    /\ ZeroMeansReported
    /\ BrokenJudgeRaisesNothing
    /\ ForbiddenFails
    /\ SoleLetterCounts
    /\ GateWithinRounding
=============================================================================
