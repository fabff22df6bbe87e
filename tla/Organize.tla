------------------------------ MODULE Organize ------------------------------
(***************************************************************************)
(* `encro organize` over several runs: src/organize/pipeline.cpp with its  *)
(* analysis cache (cache.cpp), dispositions (disposition.cpp), routing     *)
(* (assign.cpp), references (teach.cpp) and names.  Clustering models the  *)
(* linkage and OrganizeCopy the copies; here alike images cluster and a    *)
(* copy is one step.                                                       *)
(*                                                                         *)
(* An analysis is [id, strong, weak, noise, crowd, look, work]: the        *)
(* content, the character tags at or above kCharacterConfidence, those     *)
(* from kWeakConfidence up to it, surest first, those between that and     *)
(* kZeroEvidence, whether a subject-count tag is strong, the identity      *)
(* feature and the download-work prefix of the file.  An engine that fails *)
(* leaves its part empty.                                                  *)
(***************************************************************************)
EXTENDS ExitCodes, Naturals, FiniteSets

CONSTANTS
  Loose,            \* images at the root
  Kept,             \* images of the one first-level folder
  Galleries,        \* the analyses the images may have, by image
  NoLook, NoWork,   \* no identity feature, no work prefix
  MinCharacterDf,   \* kMinCharacterDf
  SampleSize,       \* kReferenceSampleSize
  FlushEvery,       \* kCacheFlushEveryPuts
  MaxOrgRuns,       \* bound: runs
  MaxFailed,        \* bound: failed copies of a run
  MaxRenames        \* bound: output folders the user renames

Files == Loose \cup Kept

\* A directory has finitely many images.
ASSUME OrganizeAssumption == IsFiniteSet(Files) /\ FlushEvery \in Nat \ {0}

VARIABLES
  gallery,
  disposition,      (* of the first-level folder: "reference", "input", "ignored" *)
  orgRecursive, orgDry,
  orgRuns, renames,
  orgStage,         (* "off", "begun", "sample", "analyze", "route", "copy", "over" *)
  orgStop, orgExit,
  mem, disk,        (* the contents the cache holds, in memory and on disk       *)
  pendingPuts,
  saveFailed,       (* history: a rewrite of the cache failed in this run        *)
  atBegin,          (* history: what the cache held when the run began           *)
  analysis,         (* of each image: "none", "cached", "fresh"                  *)
  classified,       (* history: contents this run classified                     *)
  sampled,          (* whether the folder's sample teaches                       *)
  filed,            (* where each image goes: [to, source]                       *)
  output,           (* the output tree: pairs of folder and content              *)
  copyErrors        (* the images the report says could not be copied            *)

orgVars == <<gallery, disposition, orgRecursive, orgDry, orgRuns, renames, orgStage, orgStop,
             orgExit, mem, disk, pendingPuts, saveFailed, atBegin, analysis, classified,
             sampled, filed, output, copyErrors>>
orgWorld == <<gallery, renames, orgRuns>>
orgOptions == <<disposition, orgRecursive, orgDry>>

\* A folder name is what it was made of, and its collision suffix.
Folder(kind, of) == <<kind, of, 1>>
Mixed == Folder("mixed", "")
Uncategorized == Folder("uncategorized", "")
FirstLevel == Folder("first", "kept")
Unfiled == [to |-> Folder("none", ""), source |-> "none"]

\* What stands for the images of a folder that has none.
NoContent == 0

OrgInit ==
  /\ gallery \in [Files -> {[id |-> 0]}] /\ disposition = "reference"
  /\ orgRecursive = FALSE /\ orgDry = FALSE /\ orgRuns = 0 /\ renames = 0
  /\ orgStage = "off" /\ orgStop = FALSE /\ orgExit = Unfinished
  /\ mem = {} /\ disk = {} /\ pendingPuts = 0 /\ saveFailed = FALSE /\ atBegin = {}
  /\ analysis = [f \in Files |-> "none"] /\ classified = {} /\ sampled = FALSE
  /\ filed = [f \in Files |-> Unfiled] /\ output = {} /\ copyErrors = {}

Content(f) == gallery[f].id

-----------------------------------------------------------------------------
(* The run begins *)

\* scanImages: the root's images and those of the folders that are input.
Scanned == Loose \cup IF disposition = "input" THEN Kept ELSE {}

\* collectReferenceSampleSpans: a fixed choice of a reference folder's images.
Sample ==
  IF orgRecursive \/ disposition # "reference" THEN {}
  ELSE IF Cardinality(Kept) <= SampleSize THEN Kept
  ELSE CHOOSE s \in SUBSET Kept : Cardinality(s) = SampleSize

\* applyCachedAnalyses
FromCache(images) ==
  [f \in Files |-> IF f \in images /\ Content(f) \in mem THEN "cached" ELSE analysis[f]]

\* runOrganize up to the cache: the options, the dispositions (a recursive run takes
\* every folder that is not ignored for input), --recluster or load.
BeginOrganize ==
  /\ orgStage \in {"off", "over"} /\ orgRuns < MaxOrgRuns
  /\ orgRuns' = orgRuns + 1
  /\ IF orgRuns = 0 THEN gallery' \in Galleries ELSE gallery' = gallery
  /\ orgRecursive' \in BOOLEAN
  /\ disposition' \in (IF orgRecursive' THEN {"input", "ignored"}
                       ELSE {"reference", "input", "ignored"})
  /\ \E recluster \in BOOLEAN :
       /\ disk' = IF recluster THEN {} ELSE disk
       /\ mem' = disk'
  /\ atBegin' = mem' /\ pendingPuts' = 0 /\ saveFailed' = FALSE
  /\ classified' = {} /\ sampled' = FALSE /\ filed' = [f \in Files |-> Unfiled]
  /\ orgStop' = FALSE /\ orgExit' = Unfinished /\ copyErrors' = {}
  /\ analysis' = [f \in Files |-> "none"]
  /\ orgStage' = "begun"
  /\ UNCHANGED <<renames, output, orgDry>>

\* The files are there for the stage to look up once the options are known.
Look ==
  /\ orgStage = "begun"
  /\ UNCHANGED <<orgWorld, orgOptions, orgStop, orgExit, mem, disk, pendingPuts, saveFailed,
                 atBegin, classified, sampled, filed, output, copyErrors>>
  /\ IF orgRecursive
       THEN orgStage' = "analyze" /\ analysis' = FromCache(Scanned)
       ELSE orgStage' = "sample" /\ analysis' = FromCache(Sample)

EndOrganize(code) == orgStage' = "over" /\ orgExit' = code

RequestOrgStop ==
  /\ orgStage \notin {"off", "over"} /\ ~orgStop
  /\ orgStop' = TRUE
  /\ UNCHANGED <<orgWorld, orgOptions, orgStage, orgExit, mem, disk, pendingPuts, saveFailed,
                 atBegin, analysis, classified, sampled, filed, output, copyErrors>>

OrgCrash ==
  /\ orgStage \notin {"off", "over"}
  /\ orgStage' = "off" /\ orgStop' = FALSE
  /\ UNCHANGED <<orgWorld, orgOptions, orgExit, mem, disk, pendingPuts, saveFailed, atBegin,
                 analysis, classified, sampled, filed, output, copyErrors>>

-----------------------------------------------------------------------------
(* Analysis *)

StageFiles == IF orgStage = "sample" THEN Sample ELSE Scanned

\* saveLocked: the store is rewritten through a staging file, or nothing happens.
Save(held) ==
  /\ pendingPuts' = 0
  /\ \/ disk' = held /\ saveFailed' = saveFailed
     \/ disk' = disk /\ saveFailed' = TRUE

\* Mutant: a batch that is full is thrown away unwritten.
BatchIsFull_Dropped == FALSE

BatchIsFull == pendingPuts + 1 >= FlushEvery

\* Mutant: the stage does not ask what the cache answered.
AlreadyAnalyzed_No(f) == analysis[f] = "fresh"

AlreadyAnalyzed(f) == analysis[f] # "none"

\* A worker of analyzeMissing: what the engines say is kept and put in the cache.  One
\* that was under way when the stop came still ends.
Analyze(f) ==
  /\ orgStage \in {"sample", "analyze"} /\ f \in StageFiles /\ ~AlreadyAnalyzed(f)
  /\ analysis' = [analysis EXCEPT ![f] = "fresh"]
  /\ classified' = classified \cup {Content(f)}
  /\ mem' = mem \cup {Content(f)}
  /\ IF BatchIsFull THEN Save(mem')
     ELSE pendingPuts' = pendingPuts + 1 /\ UNCHANGED <<disk, saveFailed>>
  /\ UNCHANGED <<orgWorld, orgOptions, orgStage, orgStop, orgExit, atBegin, sampled, filed,
                 output, copyErrors>>

\* Mutant: a canceled stage leaves its tail unwritten.
Flush_Completed == IF orgStop THEN UNCHANGED <<disk, pendingPuts, saveFailed>> ELSE Save(mem)

Flush == IF pendingPuts = 0 THEN UNCHANGED <<disk, pendingPuts, saveFailed>> ELSE Save(mem)

StageIsDone == orgStop \/ \A f \in StageFiles : AlreadyAnalyzed(f)

\* A stage that had nothing to do does not look at the stop.
StageCanceled == orgStop /\ \E f \in StageFiles : analysis[f] # "cached"

Looks(images) == {gallery[f].look : f \in images} \ {NoLook}

\* The sampling ends: a sample of two looks or more is demoted (splitNonDemotedSamples).
SampleEnds ==
  /\ orgStage = "sample" /\ StageIsDone
  /\ Flush
  /\ UNCHANGED <<orgWorld, orgOptions, orgStop, mem, atBegin, classified, filed, output,
                 copyErrors>>
  /\ IF StageCanceled
       THEN EndOrganize(Canceled) /\ UNCHANGED <<analysis, sampled>>
       ELSE /\ orgStage' = "analyze" /\ UNCHANGED orgExit
            /\ sampled' = (Sample # {} /\ Cardinality(Looks(Sample)) < 2)
            /\ analysis' = FromCache(Scanned)

AnalysisEnds ==
  /\ orgStage = "analyze" /\ StageIsDone
  /\ Flush
  /\ IF StageCanceled THEN EndOrganize(Canceled) ELSE orgStage' = "route" /\ UNCHANGED orgExit
  /\ UNCHANGED <<orgWorld, orgOptions, orgStop, mem, atBegin, analysis, classified, sampled,
                 filed, output, copyErrors>>

-----------------------------------------------------------------------------
(* Routing *)

\* What the cache keeps of an analysis: the put drops the noise.
Known(f) == IF analysis[f] = "fresh" THEN gallery[f] ELSE [gallery[f] EXCEPT !.noise = {}]
StoredOf(content) == [(CHOOSE a \in {gallery[f] : f \in Files} : a.id = content)
                        EXCEPT !.noise = {}]

Candidates(a) == a.strong \cup {a.weak[i] : i \in DOMAIN a.weak} \cup a.noise

\* buildCharacterDf
Df(tag) == Cardinality({f \in Scanned : tag \in Candidates(Known(f))})

\* The candidates up to the first that is not credible (isCredibleCandidate).
Credible(a) ==
  a.strong \cup {a.weak[i] : i \in {j \in DOMAIN a.weak :
                                     \A k \in 1..j : Df(a.weak[k]) >= MinCharacterDf}}

\* buildFolderReferences: what each output folder holds, as the cache knows it, and the
\* sample of the first-level folder.
OutputFolders == {entry[1] : entry \in output}
InFolder(name) ==
  {StoredOf(entry[2]) : entry \in {e \in output : e[1] = name /\ e[2] \in mem}}
    \cup (IF name = FirstLevel /\ sampled THEN {Known(f) : f \in Sample} ELSE {})
References ==
  {name \in OutputFolders \cup (IF sampled THEN {FirstLevel} ELSE {}) : InFolder(name) # {}}

SoleCount(name, tag) == Cardinality({a \in InFolder(name) : Candidates(a) = {tag}})
Claims(name, tag) == 2 * SoleCount(name, tag) > Cardinality(InFolder(name))

\* owningFolder: the claim with the most members, the first in name order of equals;
\* the order of the names is left to CHOOSE, here and for the captures.
Owners(tag) ==
  {n \in References : /\ Claims(n, tag)
                      /\ \A m \in References : Claims(m, tag) => SoleCount(m, tag) <= SoleCount(n, tag)}

\* fileByCharacter
ByCharacter(tags) ==
  LET tag == CHOOSE t \in tags : TRUE
  IN IF Owners(tag) # {} THEN [to |-> CHOOSE n \in Owners(tag) : TRUE, source |-> "match"]
                         ELSE [to |-> Folder("tag", tag), source |-> "tag"]

\* routeConfident: Unfiled means that the image is left for the clustering.
RouteOf(a) ==
  CASE Cardinality(a.strong) = 1 -> ByCharacter(a.strong)
    [] Cardinality(a.strong) >= 2 -> [to |-> Mixed, source |-> "mixed"]
    [] a.strong = {} /\ Cardinality(Credible(a)) = 1 -> ByCharacter(Credible(a))
    [] a.strong = {} /\ (Cardinality(Credible(a)) >= 2 \/ (Credible(a) = {} /\ a.crowd)) ->
         [to |-> Mixed, source |-> "mixed"]
    [] OTHER -> Unfiled

\* buildSameRunReferences: what a folder holds, this run's character images included.
HeldIn(name, routed) ==
  InFolder(name)
    \cup {gallery[f] : f \in {g \in Scanned : /\ routed[g].to = name
                                              /\ routed[g].source \in {"tag", "match"}}}
LooksOf(name, routed) == {a.look : a \in HeldIn(name, routed)} \ {NoLook}

\* The images no tag has filed, and those of them that cluster.
Left(routed) == {f \in Scanned : routed[f] = Unfiled}
ClusterOf(look, routed) == {f \in Left(routed) : gallery[f].look = look}

\* The folders whose mean is like a cluster; a mean over several looks is like none.
Capturing(look, routed) ==
  {n \in References \cup {routed[f].to : f \in {g \in Scanned : routed[g].source = "tag"}} :
     LooksOf(n, routed) = {look}}

\* assignFolderMatches: a folder that holds the very images of the cluster has the best
\* score there is.  Of folders that are merely alike, and of equals, any is the best: the
\* scores and the order of the names are data.
BestOf(look, routed) ==
  LET own == {n \in Capturing(look, routed) :
                {a.id : a \in {h \in HeldIn(n, routed) : h.look # NoLook}}
                  = {Content(f) : f \in ClusterOf(look, routed)}}
  IN IF own # {} THEN own ELSE Capturing(look, routed)

\* Mutant: only the names of this run are taken.
Taken_ThisRun(routed) == {routed[f].to : f \in Scanned}

\* The names a new cluster may not have.
Taken(routed) == {routed[f].to : f \in Scanned} \cup {FirstLevel} \cup OutputFolders

\* assignUniqueFolderName
Unique(kind, of, taken) ==
  <<kind, of, CHOOSE n \in 1..(Cardinality(taken) + 1) :
                /\ <<kind, of, n>> \notin taken
                /\ \A k \in 1..(n - 1) : <<kind, of, k>> \in taken>>

\* clusterRemainder: a cluster joins the folder that captures it; the pages of a work that
\* has two lone ones share a folder, whatever their cluster; what is left of a cluster gets
\* one name, and images without a feature none.
Remainder(routed, captor) ==
  LET left == Left(routed)
      fresh(f) == gallery[f].look # NoLook /\ gallery[f].look \notin DOMAIN captor
      lone(f) == fresh(f) /\ ClusterOf(gallery[f].look, routed) = {f}
      pages(f) == {g \in left : lone(g) /\ gallery[g].work = gallery[f].work}
      inWork(f) == gallery[f].work # NoWork /\ Cardinality(pages(f)) >= 2
      name(f) == IF inWork(f) THEN Unique("work", gallery[f].work, Taken(routed))
                              ELSE Unique("unknown", gallery[f].look, Taken(routed))
  IN [f \in Files |->
        CASE f \notin left -> routed[f]
          [] f \in left /\ gallery[f].look = NoLook ->
               [to |-> Uncategorized, source |-> "uncategorized"]
          [] f \in left /\ fresh(f) -> [to |-> name(f), source |-> "cluster"]
          [] OTHER -> [to |-> captor[gallery[f].look], source |-> "match"]]

\* The folder each captured cluster may go to.
Captors(routed) ==
  LET captured == {look \in Looks(Left(routed)) : BestOf(look, routed) # {}}
  IN {c \in [captured -> UNION {BestOf(look, routed) : look \in captured}] :
        \A look \in captured : c[look] \in BestOf(look, routed)}

Route ==
  /\ orgStage = "route"
  /\ LET routed == [f \in Files |-> IF f \in Scanned THEN RouteOf(Known(f)) ELSE Unfiled]
     IN \E captor \in Captors(routed) : filed' = Remainder(routed, captor)
  /\ orgStage' = "copy"
  /\ UNCHANGED <<orgWorld, orgOptions, orgStop, orgExit, mem, disk, pendingPuts, saveFailed,
                 atBegin, analysis, classified, sampled, output, copyErrors>>

-----------------------------------------------------------------------------
(* The copies, and what the user does between two runs *)

\* Mutant: only a copy that fails is an error, a refused rename of its staging file is none.
Named_Staged(failed, made) == failed \ made

\* An image in the folder it is filed to.
Copied(f) == <<filed[f].to, Content(f)>>

\* The images the report names under "copy failed".
Named(failed, made) == failed

\* executeOrganize and the report: a stop leaves some of the images untried, one that is in
\* its folder already is skipped, and a copy that fails is an error: the run goes on and
\* succeeds with errors too.  An image that fails at its last rename leaves the folder that
\* was made for it.  A dry run, whose option nothing reads before, copies nothing.
CopyOut ==
  /\ orgStage = "copy"
  /\ orgDry' \in BOOLEAN
  /\ \E tried \in IF orgStop THEN SUBSET Scanned ELSE {Scanned} :
       \E failed \in SUBSET (IF orgDry' THEN {} ELSE {f \in tried : Copied(f) \notin output}) :
       \E made \in SUBSET {f \in failed : filed[f].to \notin OutputFolders} :
         /\ Cardinality(failed) <= MaxFailed
         /\ output' = IF orgDry' THEN output
                      ELSE output \cup {Copied(f) : f \in tried \ failed}
                                  \cup {<<filed[f].to, NoContent>> : f \in made}
         /\ copyErrors' = IF tried = Scanned THEN Named(failed, made) ELSE {}
         /\ EndOrganize(IF tried = Scanned THEN Succeeded ELSE Canceled)
  /\ UNCHANGED <<orgWorld, disposition, orgRecursive, orgStop, mem, disk, pendingPuts,
                 saveFailed, atBegin, analysis, classified, sampled, filed>>

\* The user renames an output folder.
RenameFolder ==
  /\ orgStage \in {"off", "over"} /\ renames < MaxRenames
  /\ \E name \in OutputFolders :
       output' = {<<IF e[1] = name THEN Folder("user", "x") ELSE e[1], e[2]>> : e \in output}
  /\ renames' = renames + 1 /\ orgStage' = "off"
  /\ UNCHANGED <<gallery, orgRuns, orgOptions, orgStop, orgExit, mem, disk, pendingPuts,
                 saveFailed, atBegin, analysis, classified, sampled, filed, copyErrors>>

OrgNext ==
  \/ BeginOrganize \/ Look \/ RequestOrgStop \/ OrgCrash
  \/ (\E f \in Files : Analyze(f)) \/ SampleEnds \/ AnalysisEnds
  \/ Route \/ CopyOut \/ RenameFolder

OrgSpec == OrgInit /\ [][OrgNext]_orgVars

-----------------------------------------------------------------------------
(* Properties *)

OrgEnded(code) == orgStage = "over" /\ orgExit = code

\* Every scanned image lands in exactly one folder, an image that was only sampled in
\* none, and a new cluster's folder is one no first-level folder and, before the run, no
\* output folder had.
FilingIsTotal ==
  /\ orgStage \in {"copy", "over"} /\ filed # [f \in Files |-> Unfiled] =>
       \A f \in Files : (filed[f] = Unfiled) = (f \notin Scanned)
  /\ orgStage = "copy" =>
       \A f \in Scanned : filed[f].source = "cluster" =>
         filed[f].to \notin OutputFolders \cup {FirstLevel}

\* "an interrupted run loses at most the in-flight images" (pipeline.cpp): every end
\* of a run leaves all it analysed on disk, and a crash loses less than a batch, unless
\* a rewrite failed.
CacheIsKept ==
  ~saveFailed =>
    /\ orgStage = "over" => mem = disk
    /\ Cardinality(mem \ disk) <= pendingPuts /\ pendingPuts < FlushEvery

\* "re-runs re-analyze nothing" (README.md).
NothingTwice == classified \cap atBegin = {}

\* A run that reports success has every image in the output tree or names it as an error,
\* though with errors it exits like one without; one that reports a stop was stopped, and
\* names none.
ReportIsHonest ==
  /\ OrgEnded(Succeeded) /\ ~orgDry =>
       \A f \in Scanned \ copyErrors : Copied(f) \in output
  /\ OrgEnded(Canceled) => orgStop /\ copyErrors = {}

OrganizeRunIsSound == FilingIsTotal /\ CacheIsKept /\ NothingTwice /\ ReportIsHonest

\* openspec/specs/image-character-organize/spec.md: "`mixed/` and `uncategorized/` SHALL
\* NOT become references, because a group of images that is not a single character cannot
\* teach one".
MixedTeachesNothing ==
  \A f \in Files : filed[f].source = "match" => filed[f].to \notin {Mixed, Uncategorized}
=============================================================================
