-------------------------------- MODULE Scanning --------------------------------
(***************************************************************************)
(* The tools that read a workspace: Workspace of agent/workspace.py (its   *)
(* jail, its ignore rules, iter_files, tree_stub and instruction_files),   *)
(* fs.read, fs.glob and fs.grep of agent/tools/fs.py, and sec.secrets,     *)
(* sec.deps and sec.semgrep of agent/tools/security.py.                    *)
(*                                                                         *)
(* The workspace has a file at its root, one in lib and one in lib2; each  *)
(* may be a regular file, something reading refuses, a link or a named     *)
(* pipe.  What a pattern matches in a file is a number of lines; glob      *)
(* patterns match every file.                                              *)
(***************************************************************************)
EXTENDS Naturals, FiniteSets, Sequences

CONSTANTS
    Cap,        \* glob_max_results, grep_max_results and _MAX_FINDINGS
    TreeMax     \* tree_max_entries

ASSUME ScanningAssumption == Cap \in Nat \ {0} /\ TreeMax \in Nat \ {0}

VARIABLES
    tree,       \* what is at each path
    manifests,  \* what sec.deps and sec.semgrep look at
    ask,        \* the call
    halted,     \* the cancel token of the turn
    worker,     \* where the tool is
    rest,       \* the candidates not visited yet
    found,      \* matches found so far, by path
    report      \* what the call returns

scanVars == <<tree, manifests, ask, halted, worker, rest, found, report>>

Paths == {"app", "lib/a", "lib2/b"}

(* large: over max_file_bytes.  away: a link whose target is outside.      *)
(* link: a link to app.                                                    *)
Kinds == {"absent", "file", "large", "binary", "pipe", "link", "away"}

(* git: matched by .gitignore; gemma: matched by .gemma4ignore; hidden: its*)
(* name starts with a dot; low: its name is one of _LOW_SIGNAL_NAMES.      *)
Traits == {"plain", "git", "gemma", "hidden", "low"}

Entry(kind, trait, lines) == [kind |-> kind, trait |-> trait, lines |-> lines]

Entries == {Entry("file", t, Cap) : t \in Traits} \cup {Entry("file", "plain", n) : n \in {0, 1}}
           \cup {Entry(k, "plain", 1) : k \in Kinds \ {"file"}}

(* The third path tells scopes and links apart.                            *)
Trees == {t \in [Paths -> Entries] : t["app"].kind # "link" /\ t["lib2/b"].kind \notin {"binary", "pipe"}}

NoTree == [p \in Paths |-> Entry("absent", "plain", 1)]

(* Two of the manifests that sec.deps audits, and one that it only lists.  *)
Audited == {"requirements", "requirements-dev"}

ManifestFiles == Audited \cup {"lock"}

(* unreadable: over max_file_bytes, binary, or a link.  away: a link whose *)
(* target is outside.                                                      *)
States == {"absent", "readable", "unreadable", "away"}

(* The line of a manifest, by what _audit_requirements looks for.          *)
ReqLines == {"comment", "index", "option", "url", "bare", "pinned", "hashed"}

(* empty: nothing on stdout, whatever the exit code, which nobody reads.   *)
Outputs == {"results", "clean", "empty", "garbage", "timeout"}

NoManifests == [state |-> [m \in ManifestFiles |-> "absent"], line |-> [m \in ManifestFiles |-> "comment"],
                installed |-> FALSE, rules |-> FALSE, output |-> "empty"]

Scan(tool, scope, dotted, low, engine) ==
    [tool |-> tool, scope |-> scope, dotted |-> dotted, low |-> low, engine |-> engine]

Scopes == {"root", "lib"} \cup Paths

ScanCalls == {Scan("read", p, FALSE, FALSE, "python") : p \in Paths}
         \cup {Scan("glob", "root", d, FALSE, "python") : d \in BOOLEAN}
         \cup {Scan("grep", s, FALSE, FALSE, e) : s \in Scopes, e \in {"python", "rg"}}
         \cup {Scan("secrets", s, TRUE, l, e) : s \in {"root", "lib"}, l \in BOOLEAN,
                                                e \in {"builtin", "gitleaks"}}
         \cup {Scan("tree", "root", FALSE, FALSE, "python"), Scan("instructions", "lib", FALSE, FALSE, "python")}

Audits == {Scan(t, "root", FALSE, FALSE, "python") : t \in {"deps", "semgrep"}}

AllOf(f) == f["app"] + f["lib/a"] + f["lib2/b"]

NoReport == [status |-> "none", shown |-> [p \in Paths |-> 0], capped |-> FALSE]

ScanTypeOK ==
    /\ ask \in ScanCalls \cup Audits /\ halted \in BOOLEAN
    /\ worker \in {"called", "walking", "walked", "blocked", "over"}
    /\ rest \subseteq Paths
    /\ worker \in {"walking", "blocked"} => AllOf(found) <= Cap
    /\ report.status \in {"none", "found", "nothing", "refused", "failed", "no-manifest", "no-scan"}
    /\ worker = "over" <=> report.status # "none"
    /\ \A p \in Paths : report.shown[p] \in 0..Cardinality(Paths) * Cap

ScanInit ==
    /\ \/ ask \in ScanCalls /\ tree \in Trees /\ manifests = NoManifests
       \/ /\ ask \in Audits /\ tree = NoTree
          /\ \/ /\ ask.tool = "deps"
                /\ \E s \in [ManifestFiles -> States], l \in [ManifestFiles -> ReqLines] :
                      /\ l["lock"] \in {"bare", "hashed"}
                      /\ manifests = [NoManifests EXCEPT !.state = s, !.line = l]
             \/ /\ ask.tool = "semgrep"
                /\ \E i \in BOOLEAN, r \in BOOLEAN, o \in Outputs :
                      manifests = [NoManifests EXCEPT !.installed = i, !.rules = r, !.output = o]
    /\ halted = FALSE /\ worker = "called" /\ rest = {}
    /\ found = [p \in Paths |-> 0] /\ report = NoReport

-----------------------------------------------------------------------------
(* resolve_in_jail: where a path leads; outside, it is refused.            *)
Resolve(p) == IF tree[p].kind = "link" THEN "app" ELSE p

Escapes(p) == tree[Resolve(p)].kind = "away"

(* Mutant of Ignored: a link is judged by its own name.                    *)
IgnoredByName(p) == tree[p].trait \in {"git", "gemma"}

(* is_ignored looks at where a path leads.                                 *)
Ignored(p) == tree[Resolve(p)].trait \in {"git", "gemma"}

(* The candidates whose path starts with the text of the scope: lib2/b     *)
(* starts with lib.                                                        *)
StartsWith(p, scope) ==
    CASE scope = "root" -> TRUE
      [] scope = "lib"  -> p \in {"lib/a", "lib2/b"}
      [] OTHER          -> p = Resolve(scope)

(* iter_files: everything that is not a directory and not ignored; a link  *)
(* is followed only to see that it stays inside.                           *)
IterFiles(includeHidden) ==
    {p \in Paths : /\ tree[p].kind # "absent"
                   /\ includeHidden \/ tree[p].trait # "hidden"
                   /\ ~Escapes(p) /\ ~Ignored(p)}

(* open_read_bytes: a regular file of at most max_file_bytes; a link is    *)
(* not followed.  Opening a named pipe waits for a writer.                 *)
Opens(p) == tree[p].kind \in {"file", "binary"}

IsText(p) == tree[p].kind = "file"

Total == AllOf(found)

Over(status, shown, capped) ==
    /\ worker' = "over"
    /\ report' = [status |-> status, shown |-> shown, capped |-> capped]

-----------------------------------------------------------------------------
(* fs.read.                                                                *)
ReadFile ==
    /\ worker = "called" /\ ask.tool = "read"
    /\ LET p == Resolve(ask.scope)
       IN  IF tree[p].kind = "pipe"
           THEN worker' = "blocked" /\ UNCHANGED report
           ELSE IF Escapes(p) \/ ~IsText(p)
                THEN Over("refused", NoReport.shown, FALSE)
                ELSE Over("found", [NoReport.shown EXCEPT ![p] = tree[p].lines], FALSE)
    /\ UNCHANGED <<tree, manifests, ask, halted, rest, found>>

(* The outline: two levels, directories first, up to a number of entries.  *)
OutlineOrder == <<"lib/", "lib/a", "lib2/", "lib2/b", "app">>

Outlined(e) ==
    e \in Paths => /\ tree[e].kind \notin {"absent", "link", "away"}
                   /\ tree[e].trait # "hidden" /\ ~Ignored(e)

(* The places of what is listed, as far as a place.                        *)
Outline(last) == {i \in 1..last : Outlined(OutlineOrder[i])}

TreeStub ==
    /\ worker = "called" /\ ask.tool = "tree"
    /\ LET cut == {i \in Outline(5) : Cardinality(Outline(i)) <= TreeMax}
       IN  Over("found", [p \in Paths |-> IF \E i \in cut : OutlineOrder[i] = p THEN 1 ELSE 0],
                Cardinality(Outline(5)) >= TreeMax)
    /\ UNCHANGED <<tree, manifests, ask, halted, rest, found>>

(* The instruction files of the root and of the directory the session is   *)
(* in; what cannot be read is left out.                                    *)
InstructionFiles ==
    /\ worker = "called" /\ ask.tool = "instructions"
    /\ Over("found", [q \in Paths |-> Cardinality({p \in {"app", "lib/a"} :
                       ~Escapes(p) /\ Resolve(p) = q /\ IsText(q)})], FALSE)
    /\ UNCHANGED <<tree, manifests, ask, halted, rest, found>>

(* A scope that is a file is scanned as it is, ignored or not.             *)
Candidates ==
    IF ask.scope \in Paths /\ tree[Resolve(ask.scope)].kind \in {"file", "large", "binary"}
    THEN {Resolve(ask.scope)}
    ELSE {p \in IterFiles(ask.dotted) : StartsWith(p, ask.scope)}

Least(a, b) == IF a < b THEN a ELSE b

(* ripgrep, as _ripgrep calls it, with the scope resolved: it knows        *)
(* .gitignore and hidden names, and nothing of .gemma4ignore; a file it is *)
(* given by name it reads.  It fails on a scope that is not there, and     *)
(* times out on a named pipe.                                              *)
RgRuns == ask.scope \in Paths => tree[Resolve(ask.scope)].kind \notin {"absent", "pipe", "away"}

RgSees(p) == /\ IsText(p)
             /\ \/ ask.scope \in Paths /\ p = Resolve(ask.scope)
                \/ tree[p].trait \notin {"git", "hidden"}
                   /\ (ask.scope = "root" \/ (ask.scope = "lib" /\ p = "lib/a"))

(* Its hits come file by file, the files in any order, and are cut.        *)
Ripgrep ==
    /\ worker = "called" /\ ask.tool = "grep" /\ ask.engine = "rg" /\ RgRuns
    /\ LET hits == [p \in Paths |-> IF RgSees(p) THEN tree[p].lines ELSE 0]
       IN  /\ found' = hits
           /\ \E shown \in [Paths -> 0..Cap] :
                 /\ AllOf(shown) = Least(AllOf(hits), Cap)
                 /\ \A p \in Paths : shown[p] <= hits[p]
                 /\ \A p, q \in Paths : shown[p] \in 1..(hits[p] - 1) /\ shown[q] \in 1..(hits[q] - 1) => p = q
                 /\ Over(IF \A p \in Paths : hits[p] = 0 THEN "nothing" ELSE "found", shown,
                         AllOf(hits) >= Cap)
    /\ UNCHANGED <<tree, manifests, ask, halted, rest>>

(* gitleaks reports every hit of the working tree it was given, or nothing *)
(* that can be parsed, which counts as no hits.                            *)
Gitleaks ==
    /\ worker = "called" /\ ask.tool = "secrets" /\ ask.engine = "gitleaks"
    /\ \E parsed \in BOOLEAN :
          found' = [p \in Paths |-> IF parsed /\ IsText(p) /\ (ask.scope = "lib" => p = "lib/a")
                                    THEN tree[p].lines ELSE 0]
    /\ worker' = "walked"
    /\ UNCHANGED <<tree, manifests, ask, halted, rest, report>>

(* Any other scan lists its candidates first; grep falls back to it when   *)
(* ripgrep is not there or fails.                                          *)
List ==
    /\ worker = "called" /\ ask.tool \in {"glob", "grep", "secrets"} /\ ask.engine # "gitleaks"
    /\ IF ask.scope \in Paths /\ Escapes(ask.scope)
       THEN Over("refused", NoReport.shown, FALSE) /\ UNCHANGED rest
       ELSE worker' = "walking" /\ rest' = Candidates /\ UNCHANGED report
    /\ UNCHANGED <<tree, manifests, ask, halted, found>>

(* What one candidate adds: a match of fs.glob, or the lines that match, up*)
(* to the cap on all of them.                                              *)
Adds(p) ==
    IF ask.tool = "glob" THEN [found EXCEPT ![Resolve(p)] = @ + 1]
    ELSE IF IsText(p) THEN [found EXCEPT ![p] = Least(tree[p].lines, Cap - Total)] ELSE found

(* The root's files come first; directories in any order.                  *)
Turn(p) == p \in rest /\ (p # "app" => "app" \notin rest)

(* One candidate; what cannot be read is passed over.  fs.glob reads       *)
(* nothing and looks at no token.                                          *)
Visit(p) ==
    /\ worker = "walking" /\ Turn(p) /\ ~(halted /\ ask.tool # "glob") /\ Total < Cap
    /\ ask.tool # "glob" => tree[p].kind # "pipe"
    /\ found' = Adds(p) /\ rest' = rest \ {p}
    /\ UNCHANGED <<tree, manifests, ask, halted, worker, report>>

Block(p) ==
    /\ worker = "walking" /\ Turn(p) /\ ask.tool # "glob" /\ ~halted /\ Total < Cap
    /\ tree[p].kind = "pipe"
    /\ worker' = "blocked"
    /\ UNCHANGED <<tree, manifests, ask, halted, rest, found, report>>

Walked ==
    /\ worker = "walking"
    /\ rest = {} \/ Total >= Cap \/ (halted /\ ask.tool # "glob")
    /\ worker' = "walked"
    /\ UNCHANGED <<tree, manifests, ask, halted, rest, found, report>>

(* sec.secrets drops the low-signal hits after the cap was applied.        *)
Shown(p) == IF ask.tool = "secrets" /\ ~ask.low /\ tree[p].trait = "low" THEN 0 ELSE found[p]

(* The notice of fs.glob and fs.grep; sec.secrets has none.                *)
Notice == ask.tool # "secrets" /\ Total >= Cap

Summarise ==
    /\ worker = "walked"
    /\ LET shown == [p \in Paths |-> Shown(p)]
       IN  Over(IF \A p \in Paths : shown[p] = 0 THEN "nothing" ELSE "found", shown, Notice)
    /\ UNCHANGED <<tree, manifests, ask, halted, rest, found>>

-----------------------------------------------------------------------------
(* A line of a requirements file that breaks a rule.                       *)
Unpinned(line) == line \in {"index", "url", "bare", "pinned"}

(* A requirements file that cannot be read is passed over, one that leads  *)
(* outside fails the audit, and no other manifest is opened.               *)
DepsAudit ==
    /\ worker = "called" /\ ask.tool = "deps"
    /\ Over(IF \E m \in Audited : manifests.state[m] = "away" THEN "failed"
            ELSE IF \A m \in ManifestFiles : manifests.state[m] = "absent" THEN "no-manifest"
            ELSE IF \E m \in Audited : manifests.state[m] = "readable" /\ Unpinned(manifests.line[m])
                 THEN "found" ELSE "nothing",
            NoReport.shown, FALSE)
    /\ UNCHANGED <<tree, manifests, ask, halted, rest, found>>

(* An output without results, an empty one included, is a clean report.    *)
Semgrep ==
    /\ worker = "called" /\ ask.tool = "semgrep"
    /\ Over(IF ~manifests.installed \/ ~manifests.rules THEN "no-scan"
            ELSE IF manifests.output \in {"timeout", "garbage"} THEN "failed"
            ELSE IF manifests.output = "results" THEN "found" ELSE "nothing", NoReport.shown, FALSE)
    /\ UNCHANGED <<tree, manifests, ask, halted, rest, found>>

HaltScan ==
    /\ ~halted /\ worker \in {"called", "walking"}
    /\ halted' = TRUE
    /\ UNCHANGED <<tree, manifests, ask, worker, rest, found, report>>

Work == \/ ReadFile \/ TreeStub \/ InstructionFiles \/ Ripgrep \/ Gitleaks \/ List \/ Walked \/ Summarise
        \/ DepsAudit \/ Semgrep
        \/ \E p \in Paths : Visit(p) \/ Block(p)

ScanNext == Work \/ HaltScan

ScanSpec == ScanInit /\ [][ScanNext]_scanVars

-----------------------------------------------------------------------------
(* What is outside never shows, and what is ignored does not, under        *)
(* whatever name a search comes to it: a link to an ignored file included; *)
(* what is hidden shows through a link only.  The exceptions: fs.read and  *)
(* instructions take no notice of the ignore rules; nor does a search that *)
(* is given the file by name; gitleaks has rules of its own; and ripgrep   *)
(* shows what only .gemma4ignore ignores, although its absence is said to  *)
(* "change nothing observable" (agent/tools/fs.py:205-237;                 *)
(* agent/workspace.py:136-150, 154-183, 247-274, 326-367).                 *)
NothingIgnoredIsShown ==
    worker = "over" => \A p \in Paths : report.shown[p] > 0 =>
        /\ tree[p].kind \notin {"away", "link"}
        /\ \/ ask.tool \in {"read", "instructions"} \/ ask.engine = "gitleaks"
           \/ ask.scope \in Paths /\ p = Resolve(ask.scope)
           \/ /\ tree[p].trait # "git" /\ (tree[p].trait = "gemma" => ask.engine = "rg")
              /\ tree[p].trait = "hidden" => ask.dotted \/ \E l \in Paths : tree[l].kind = "link"

(* Inside a scope, unlike below a path that starts with its text.          *)
Inside(p, scope) ==
    CASE scope = "root" -> TRUE
      [] scope = "lib"  -> p = "lib/a"
      [] OTHER          -> p = Resolve(scope)

(* A list without a notice is the whole list, whichever engine made it:    *)
(* every file that may be seen, every matching line of every file of the   *)
(* scope that can be read                                                  *)
(* (agent/tools/fs.py:129-158, 183-203, 243-270; agent/workspace.py:276-314). *)
NothingMissed ==
    worker = "over" /\ ask.tool \in {"glob", "grep", "tree"}
        /\ report.status # "refused" /\ ~report.capped /\ ~halted =>
        \A p \in IterFiles(ask.dotted) :
            CASE ask.tool = "glob" -> report.shown[Resolve(p)] > 0
              [] ask.tool = "tree" -> tree[p].kind = "link" \/ report.shown[p] > 0
              [] ask.tool = "grep" -> IsText(p) /\ Inside(p, ask.scope) => report.shown[p] = tree[p].lines

(* The files of the scope with something to report, and those of them that *)
(* sec.secrets passes over in silence.                                     *)
Dirty == {p \in Paths : /\ tree[p].kind \in {"file", "large", "binary"}
                        /\ tree[p].lines > 0 /\ StartsWith(p, ask.scope)}

PassedOver(p) == \/ tree[p].kind \in {"large", "binary"}
                 \/ tree[p].trait \in {"git", "gemma"}
                 \/ tree[p].trait = "low" /\ ~ask.low

(* What a clean report leaves out, and nothing else.  "no committed        *)
(* credentials found" is said over credentials in files too large, binary  *)
(* or ignored, of a scan that was cancelled, and of one whose cap was used *)
(* up by hits in test files that are then left out.  "no hygiene issues in *)
(* N manifest(s)" counts manifests that could not be read and lock files,  *)
(* which nobody opens.  "semgrep reported no findings" is also said when   *)
(* it printed nothing, and gitleaks' output need not even be JSON          *)
(* (agent/tools/security.py:144-165, 176-179, 193-217, 276-307, 386-404).  *)
CleanLeavesOut ==
    /\ worker = "over" /\ ask.tool = "secrets" /\ ask.engine = "builtin" =>
          /\ report.status = "nothing" =>
                halted \/ (~ask.low /\ Total >= Cap) \/ \A p \in Dirty : PassedOver(p)
          /\ (\A p \in Dirty : PassedOver(p)) => report.status = "nothing"
    /\ report.status = "nothing" /\ ask.tool = "deps" =>
          /\ \E m \in ManifestFiles : manifests.state[m] # "absent"
          /\ \A m \in ManifestFiles : manifests.state[m] \in {"readable", "away"} /\ Unpinned(manifests.line[m])
                                         => m = "lock"
    /\ report.status = "nothing" /\ ask.tool = "semgrep" =>
          manifests.installed /\ manifests.rules /\ manifests.output \in {"clean", "empty"}

(* A report shows what may be seen, all of it or with a notice, and what   *)
(* a clean one leaves out is known (agent/workspace.py,                    *)
(* agent/tools/fs.py, agent/tools/security.py).                            *)
ReportsAreTrue ==
    /\ NothingIgnoredIsShown
    /\ NothingMissed
    /\ CleanLeavesOut
=============================================================================
