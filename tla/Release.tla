------------------------------ MODULE Release -------------------------------
(***************************************************************************)
(* The release of the paper: two wrappers that regenerate artifacts in a   *)
(* detached worktree of a pinned commit and copy them over the reviewed    *)
(* ones, and the download of the panels they are generated from.  One      *)
(* maintainer runs them one after another, edits, commits and checks files *)
(* out in between; any of them may die at any step.  A file's content is   *)
(* its vintage: the commit, the timestamp and the inputs it was made from. *)
(***************************************************************************)
EXTENDS Integers, Sequences, FiniteSets

CONSTANTS
    Panels,
    MaxTime, MaxCommits, MaxMatrices, MaxSupplied, \* bounds
    None

VARIABLES
    clock,
    commits,  \* the version of the source each commit holds
    kept,     \* the artifacts HEAD holds
    dirty,    \* release-critical source has uncommitted changes
    tree,     \* the artifacts in the working tree
    csv,      \* a panel's matrix, named by the time of its download, or None
    metadata, \* a panel's sidecar: the matrix it describes and its retrieval
    matrix,   \* the paper's price matrix: its version
    job,      \* the command that runs, or None
    supplied  \* history: the timestamps supplied at another time, and when

vars == <<clock, commits, kept, dirty, tree, csv, metadata, matrix, job, supplied>>

ExpansionFiles == {"expansion/manifest", "expansion/values", "expansion/figures"}
(* figures, docs/img, hashes and build manifest go the way of the results, *)
(* and nothing here reads them.                                            *)
PaperFiles == {"paper/results", "paper/pdf"}
Paths == ExpansionFiles \cup PaperFiles

(* What is checked out together: the directories of the expansion, or all. *)
Directories ==
    {{"expansion/manifest", "expansion/values"}, {"expansion/figures"}, Paths}

HeadCommit == Len(commits)

(* Init: a first paper was reviewed, no expansion was released yet.        *)
FirstVintage == [kind |-> "paper", commit |-> 1, at |-> 0, input |-> 1]

FirstTree ==
    [f \in Paths |-> IF f = "paper/results" THEN FirstVintage ELSE None]

Init ==
    /\ clock = 1
    /\ commits = <<1>>
    /\ kept = FirstTree
    /\ dirty = FALSE
    /\ tree = FirstTree
    /\ csv = [p \in Panels |-> None]
    /\ metadata = [p \in Panels |-> None]
    /\ matrix = 1
    /\ job = None
    /\ supplied = {}

-----------------------------------------------------------------------------
(* What the maintainer does between two commands.                          *)
Edit ==
    /\ job = None /\ ~dirty /\ Len(commits) < MaxCommits
    /\ dirty' = TRUE
    /\ UNCHANGED <<clock, commits, kept, tree, csv, metadata, matrix, job, supplied>>

Commit ==
    /\ job = None /\ Len(commits) < MaxCommits
    /\ dirty \/ tree # kept
    /\ commits' = Append(commits, commits[HeadCommit] + IF dirty THEN 1 ELSE 0)
    /\ kept' = tree
    /\ dirty' = FALSE
    /\ UNCHANGED <<clock, tree, csv, metadata, matrix, job, supplied>>

CheckOut ==
    /\ job = None
    /\ \E d \in Directories :
          tree' = [f \in Paths |-> IF f \in d THEN kept[f] ELSE tree[f]]
    /\ UNCHANGED <<clock, commits, kept, dirty, csv, metadata, matrix, job, supplied>>

ReplaceMatrix ==
    /\ job = None /\ matrix < MaxMatrices
    /\ matrix' = matrix + 1
    /\ UNCHANGED <<clock, commits, kept, dirty, tree, csv, metadata, job, supplied>>

-----------------------------------------------------------------------------
(* fetch_panels: for each panel the matrix is replaced, then its sidecar is *)
(* written; retrieved_at is the time the command started, its default.     *)
Fetch ==
    /\ job = None /\ clock < MaxTime
    /\ clock' = clock + 1
    /\ job' = [kind |-> "fetch", left |-> Panels, at |-> clock, written |-> None]
    /\ UNCHANGED <<commits, kept, dirty, tree, csv, metadata, matrix, supplied>>

WriteMatrix ==
    /\ job # None /\ job.kind = "fetch" /\ job.written = None
    /\ \E p \in job.left :
          /\ csv' = [csv EXCEPT ![p] = job.at]
          /\ job' = [job EXCEPT !.written = p, !.left = @ \ {p}]
    /\ UNCHANGED <<clock, commits, kept, dirty, tree, metadata, matrix, supplied>>

WriteMetadata ==
    /\ job # None /\ job.kind = "fetch" /\ job.written # None
    /\ metadata' = [metadata EXCEPT ![job.written] =
                       [input |-> csv[job.written], retrieved |-> job.at]]
    /\ job' = IF job.left = {} THEN None ELSE [job EXCEPT !.written = None]
    /\ UNCHANGED <<clock, commits, kept, dirty, tree, csv, matrix, supplied>>

-----------------------------------------------------------------------------
(* A wrapper generates from HEAD under whatever timestamp is supplied: the  *)
(* time, an earlier one, used before or not, or one still to come; or, with *)
(* none supplied, again from the reviewed commit under the reviewed        *)
(* timestamp: only if no release-critical path has changed since.          *)
Timestamps ==
    {t \in 0..MaxTime :
        IF t = clock THEN t < MaxTime ELSE Cardinality(supplied) < MaxSupplied}

Pins(reviewed) ==
    [commit : {HeadCommit}, at : Timestamps, reviewed : {None}]
    \cup (IF reviewed # None /\ commits[reviewed.commit] = commits[HeadCommit]
            THEN {[commit |-> reviewed.commit, at |-> reviewed.at, reviewed |-> reviewed]}
            ELSE {})

(* The time a release takes, and what is noted of its timestamp.           *)
Passes(pin) ==
    /\ clock' = IF pin.at = clock /\ pin.reviewed = None THEN clock + 1 ELSE clock
    /\ supplied' = IF pin.at = clock \/ pin.reviewed # None
                     THEN supplied
                     ELSE supplied \cup {[at |-> pin.at, on |-> clock]}

(* Mutant: a panel may be younger than the release that names it.          *)
LoadsAnyAge(p, at) ==
    /\ csv[p] # None /\ metadata[p] # None
    /\ metadata[p].input = csv[p]

(* _load_panel and run_expansion: the sidecar must describe this matrix, and *)
(* the matrix must not have been retrieved after the release's timestamp.  *)
Loads(p, at) ==
    /\ csv[p] # None /\ metadata[p] # None
    /\ metadata[p].input = csv[p]
    /\ metadata[p].retrieved <= at

ExpansionVintage(pin) ==
    [kind |-> "expansion", commit |-> pin.commit, at |-> pin.at, input |-> csv]

(* The order in which a wrapper changes the reviewed files: groups of files *)
(* removed or copied by one command, whose order within is not fixed.      *)
ExpansionSteps ==
    << [copies |-> FALSE, files |-> {"expansion/manifest", "expansion/values"}],
       [copies |-> FALSE, files |-> {"expansion/figures"}],
       [copies |-> TRUE, files |-> {"expansion/manifest", "expansion/values"}],
       [copies |-> TRUE, files |-> {"expansion/figures"}] >>

ReleaseExpansion ==
    /\ job = None /\ ~dirty
    /\ \E pin \in Pins(tree["expansion/manifest"]) :
          /\ \A p \in Panels : Loads(p, pin.at)
          /\ job' = [kind |-> "publish", steps |-> ExpansionSteps,
                     reviewed |-> pin.reviewed,
                     new |-> [f \in ExpansionFiles |-> ExpansionVintage(pin)]]
          /\ Passes(pin)
    /\ UNCHANGED <<commits, kept, dirty, tree, csv, metadata, matrix>>

(* verify_expansion_artifacts: every file the manifest lists is there as it *)
(* recorded it.                                                            *)
Verified ==
    \A f \in ExpansionFiles : tree[f] # None /\ tree[f] = tree["expansion/manifest"]

(* Mutant: the files are not compared with the manifest.                   *)
RepublishesUnverified(commit) ==
    /\ \A f \in ExpansionFiles : tree[f] # None
    /\ tree["expansion/manifest"].commit = commit

(* The expansion is republished in the paper only from the paper's commit. *)
Republishes(commit) ==
    /\ Verified
    /\ tree["expansion/manifest"].commit = commit

PaperVintage(pin) ==
    [kind |-> "paper", commit |-> pin.commit, at |-> pin.at, input |-> matrix]

(* build_paper.sh in the worktree: both papers, their hashes and the build *)
(* manifest, from the generated results and the copied expansion.          *)
Built(vintage) ==
    [paper |-> vintage, expansion |-> {tree[f] : f \in ExpansionFiles}]

PaperSteps ==
    << [copies |-> FALSE, files |-> {"paper/results"}],
       [copies |-> TRUE, files |-> {"paper/results"}],
       [copies |-> TRUE, files |-> {"paper/pdf"}] >>

ReleasePaper ==
    /\ job = None /\ ~dirty
    /\ tree["paper/results"] # None
    /\ tree["paper/results"].input = matrix
    /\ \E pin \in Pins(tree["paper/results"]) :
          /\ Republishes(pin.commit)
          /\ job' = [kind |-> "publish", steps |-> PaperSteps,
                     reviewed |-> pin.reviewed,
                     new |-> [f \in PaperFiles |->
                                IF f = "paper/pdf"
                                  THEN Built(PaperVintage(pin)) ELSE PaperVintage(pin)]]
          /\ Passes(pin)
    /\ UNCHANGED <<commits, kept, dirty, tree, csv, metadata, matrix>>

(* The last commands of a wrapper, file by file.                           *)
Publish ==
    /\ job # None /\ job.kind = "publish"
    /\ LET step == Head(job.steps)
       IN  \E f \in step.files :
             /\ tree' = [tree EXCEPT ![f] = IF step.copies THEN job.new[f] ELSE None]
             /\ job' = IF step.files # {f}
                         THEN [job EXCEPT !.steps[1].files = @ \ {f}]
                         ELSE IF Len(job.steps) = 1
                                THEN None
                                ELSE [job EXCEPT !.steps = Tail(@)]
    /\ UNCHANGED <<clock, commits, kept, dirty, csv, metadata, matrix, supplied>>

(* The command dies; its temporary directory is of no use to the next.     *)
Die ==
    /\ job # None
    /\ job' = None
    /\ UNCHANGED <<clock, commits, kept, dirty, tree, csv, metadata, matrix, supplied>>

Next ==
    \/ Edit \/ Commit \/ CheckOut \/ ReplaceMatrix
    \/ Fetch \/ WriteMatrix \/ WriteMetadata
    \/ ReleaseExpansion \/ ReleasePaper \/ Publish \/ Die

Spec == Init /\ [][Next]_vars

-----------------------------------------------------------------------------
Vintages ==
    [kind : {"paper"}, commit : 1..MaxCommits, at : 0..MaxTime, input : 1..MaxMatrices]
    \cup [kind : {"expansion"}, commit : 1..MaxCommits, at : 0..MaxTime,
          input : [Panels -> 1..MaxTime]]

TypeOK ==
    /\ clock \in 1..MaxTime /\ dirty \in BOOLEAN /\ matrix \in 1..MaxMatrices
    /\ \A f \in Paths \ {"paper/pdf"} : tree[f] \in Vintages \cup {None}
    /\ csv \in [Panels -> 0..MaxTime \cup {None}]
    /\ supplied \subseteq [at : 0..MaxTime, on : 1..MaxTime]

(***************************************************************************)
(* PdfIsOneRelease: a published paper was built from one release: all the  *)
(* expansion files in it are of one vintage, and of the commit the paper's *)
(* own results come from.  Crashes of either wrapper half way through its  *)
(* copies and files checked out from older commits come between            *)
(* (verify_expansion_artifacts; release_paper_artifacts.sh, the comparison *)
(* of the two source commits).                                             *)
(***************************************************************************)
PdfIsOneRelease ==
    LET pdf == tree["paper/pdf"]
    IN  pdf # None =>
          \E v \in pdf.expansion :
             pdf.expansion = {v} /\ v.commit = pdf.paper.commit

(***************************************************************************)
(* RerunsReproduceReviewed: a wrapper run without a timestamp generates    *)
(* exactly what lies reviewed in the tree, or is refused, though panels    *)
(* are downloaded again, matrices replaced and sources changed since, a    *)
(* download dies half way, and other releases were made under the same     *)
(* timestamp.  (Only a timestamp that was still to come when it was        *)
(* supplied lets a panel in that is younger than the reviewed release, and *)
(* nothing refuses such a one; nor does anything keep one timestamp from   *)
(* naming two releases, if it is supplied twice.)                          *)
(***************************************************************************)
Early(at) == \E s \in supplied : s.at = at /\ s.on < at

RerunsReproduceReviewed ==
    /\ job # None /\ job.kind = "publish"
    /\ job.reviewed # None /\ ~Early(job.reviewed.at)
    => \A f \in DOMAIN job.new \ {"paper/pdf"} : job.new[f] = job.reviewed
=============================================================================
