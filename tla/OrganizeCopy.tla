---------------------------- MODULE OrganizeCopy ----------------------------
(***************************************************************************)
(* The copy phase of `encro organize` (executeOrganize,                    *)
(* src/organize/execute.cpp), over any number of runs: every routed image  *)
(* is copied into its folder of the output tree, through a staging file,   *)
(* unless the copy is there already; a stop ends a run at the next image,  *)
(* a crash anywhere, and a run over the same images may follow.            *)
(***************************************************************************)
EXTENDS Naturals, Sequences, FiniteSets

CONSTANTS
  Images,       \* the routed images in scan order: [folder, name, content]
  MaxSuffix,    \* copies of one name a folder may hold: 1 is <stem>, n <stem>_n
  NoImage,      \* no file
  Torn,         \* the content of a partly copied file
  CopyFaults,   \* the failures that are allowed
  CopyBudget,   \* bound: how many of them, and of stops
  MaxCopyRuns   \* bound: runs

FaultKinds == {"crash", "stop", "stage", "rename"}

ASSUME OrganizeCopyAssumption ==
  /\ Images \in Seq({Images[i] : i \in DOMAIN Images})
  /\ MaxSuffix \in Nat \ {0} /\ {CopyBudget, MaxCopyRuns} \subseteq Nat
  /\ CopyFaults \subseteq FaultKinds
  /\ NoImage # Torn
  /\ \A i \in DOMAIN Images : Images[i].content \notin {NoImage, Torn}

ValuesOf(key) == {Images[i][key] : i \in DOMAIN Images}
OutFolders == ValuesOf("folder")
ImageNames == ValuesOf("name")
Contents == ValuesOf("content")
Paths == OutFolders \X ImageNames \X (1..MaxSuffix)

VARIABLES
  tree,         (* the files of the output tree                             *)
  outFolders,   (* its folders                                              *)
  staging,      (* the staging file under .cache/tmp                        *)
  copyPc, copyAt,   (* the step the run is at, and the image                *)
  copyDest,     (* the destination resolved for that image                  *)
  copyDry,      (* a dry run counts and copies nothing                      *)
  copyStats,    (* ExecuteStats, with the images whose copy failed as a set *)
  copyStop, copyRuns, copyBudget

copyVars == <<tree, outFolders, staging, copyPc, copyAt, copyDest, copyDry, copyStats,
              copyStop, copyRuns, copyBudget>>
copyFiles == <<tree, outFolders, staging>>

NoStats == [copied |-> 0, skipped |-> 0, errors |-> {}, ended |-> "open"]
ImageAt == Images[copyAt]
PathOf(n) == <<ImageAt.folder, ImageAt.name, n>>

Spend(kind) == kind \in CopyFaults /\ copyBudget > 0 /\ copyBudget' = copyBudget - 1

CopyInit ==
  /\ tree = [p \in Paths |-> NoImage]
  /\ outFolders = {} /\ staging = NoImage
  /\ copyPc = "down" /\ copyAt = 1
  /\ copyDest = NoImage /\ copyDry = FALSE
  /\ copyStats = NoStats
  /\ copyStop = FALSE /\ copyRuns = 0 /\ copyBudget = CopyBudget

-----------------------------------------------------------------------------

StartCopyRun ==
  /\ copyPc = "down" /\ copyRuns < MaxCopyRuns
  /\ copyPc' = "next" /\ copyAt' = 1
  /\ copyDry' \in BOOLEAN
  /\ copyStats' = NoStats
  /\ copyStop' = FALSE /\ copyRuns' = copyRuns + 1
  /\ UNCHANGED <<copyFiles, copyDest, copyBudget>>

Advance == copyPc' = "next" /\ copyAt' = copyAt + 1

\* The top of the loop: a stop cancels the run, and the last image completes it.
NextItem ==
  /\ copyPc = "next"
  /\ IF copyAt <= Len(Images) /\ ~copyStop
     THEN copyPc' = "resolve" /\ UNCHANGED copyStats
     ELSE /\ copyPc' = "down"
          /\ copyStats' = [copyStats EXCEPT !.ended = IF copyAt <= Len(Images) THEN "canceled"
                                                                  ELSE "completed"]
  /\ UNCHANGED <<copyFiles, copyAt, copyDest, copyDry, copyStop, copyRuns, copyBudget>>

FreeSlot(n) == tree[PathOf(n)] = NoImage /\ \A m \in 1..(n - 1) : tree[PathOf(m)] # NoImage

\* Mutant: the destination's content is not compared.
Resolve_SkipsByName ==
  /\ copyPc = "resolve"
  /\ IF tree[PathOf(1)] # NoImage
     THEN /\ copyStats' = [copyStats EXCEPT !.skipped = @ + 1]
          /\ Advance /\ UNCHANGED copyDest
     ELSE \E n \in 1..MaxSuffix :
          /\ FreeSlot(n)
          /\ copyDest' = PathOf(n)
          /\ IF copyDry THEN copyStats' = [copyStats EXCEPT !.copied = @ + 1] /\ Advance
                       ELSE copyPc' = "stage" /\ UNCHANGED <<copyStats, copyAt>>
  /\ UNCHANGED <<copyFiles, copyDry, copyStop, copyRuns, copyBudget>>

\* Mutant: a name collision takes the name.
Resolve_Overwrites ==
  /\ copyPc = "resolve"
  /\ copyDest' = PathOf(1)
  /\ IF copyDry THEN copyStats' = [copyStats EXCEPT !.copied = @ + 1] /\ Advance
               ELSE copyPc' = "stage" /\ UNCHANGED <<copyStats, copyAt>>
  /\ UNCHANGED <<copyFiles, copyDry, copyStop, copyRuns, copyBudget>>

\* resolveDestination: only the plain name is compared by content; a collision
\* takes the first free suffix.  A dry run counts and goes on.
Resolve ==
  /\ copyPc = "resolve"
  /\ IF tree[PathOf(1)] = ImageAt.content
     THEN /\ copyStats' = [copyStats EXCEPT !.skipped = @ + 1]
          /\ Advance /\ UNCHANGED copyDest
     ELSE \E n \in 1..MaxSuffix :
          /\ FreeSlot(n)
          /\ copyDest' = PathOf(n)
          /\ IF copyDry THEN copyStats' = [copyStats EXCEPT !.copied = @ + 1] /\ Advance
                       ELSE copyPc' = "stage" /\ UNCHANGED <<copyStats, copyAt>>
  /\ UNCHANGED <<copyFiles, copyDry, copyStop, copyRuns, copyBudget>>

CopyFails == copyStats' = [copyStats EXCEPT !.errors = @ \cup {copyAt}] /\ Advance

\* copy_file into the staging file is not atomic.
StageOpen ==
  /\ copyPc = "stage"
  /\ \/ staging' = Torn /\ copyPc' = "copy" /\ UNCHANGED <<copyAt, copyStats, copyBudget>>
     \/ Spend("stage") /\ CopyFails /\ UNCHANGED staging
  /\ UNCHANGED <<tree, outFolders, copyDest, copyDry, copyStop, copyRuns>>

\* Mutant: a copy that failed midway is taken for a copy.
StageDone_Unchecked ==
  /\ copyPc = "copy"
  /\ \/ staging' = ImageAt.content /\ UNCHANGED copyBudget
     \/ Spend("stage") /\ UNCHANGED staging
  /\ copyPc' = "folder"
  /\ UNCHANGED <<tree, outFolders, copyAt, copyStats, copyDest, copyDry, copyStop, copyRuns>>

StageDone ==
  /\ copyPc = "copy"
  /\ \/ staging' = ImageAt.content /\ copyPc' = "folder" /\ UNCHANGED <<copyAt, copyStats, copyBudget>>
     \/ Spend("stage") /\ CopyFails /\ UNCHANGED staging
  /\ UNCHANGED <<tree, outFolders, copyDest, copyDry, copyStop, copyRuns>>

MakeFolder ==
  /\ copyPc = "folder"
  /\ outFolders' = outFolders \cup {ImageAt.folder}
  /\ copyPc' = "finalize"
  /\ UNCHANGED <<tree, staging, copyAt, copyStats, copyDest, copyDry, copyStop, copyRuns, copyBudget>>

\* finalizeCopy: a rename, whose failure drops the staging file.
Finalize ==
  /\ copyPc = "finalize"
  /\ staging' = NoImage
  /\ \/ /\ tree' = [tree EXCEPT ![copyDest] = staging]
        /\ copyStats' = [copyStats EXCEPT !.copied = @ + 1]
        /\ Advance /\ UNCHANGED copyBudget
     \/ Spend("rename") /\ CopyFails /\ UNCHANGED tree
  /\ UNCHANGED <<outFolders, copyDest, copyDry, copyStop, copyRuns>>

RequestCopyStop ==
  /\ copyPc # "down" /\ ~copyStop
  /\ Spend("stop")
  /\ copyStop' = TRUE
  /\ UNCHANGED <<copyFiles, copyPc, copyAt, copyDest, copyDry, copyStats, copyRuns>>

CopyCrash ==
  /\ copyPc # "down"
  /\ Spend("crash")
  /\ copyPc' = "down"
  /\ UNCHANGED <<copyFiles, copyAt, copyDest, copyDry, copyStats, copyStop, copyRuns>>

CopyNext ==
  \/ StartCopyRun \/ NextItem \/ Resolve \/ StageOpen \/ StageDone \/ MakeFolder \/ Finalize
  \/ RequestCopyStop \/ CopyCrash

CopySpec == CopyInit /\ [][CopyNext]_copyVars

-----------------------------------------------------------------------------
(* Properties *)

CopyTypeOK ==
  /\ tree \in [Paths -> Contents \cup {NoImage, Torn}]
  /\ outFolders \subseteq OutFolders
  /\ staging \in Contents \cup {NoImage, Torn}
  /\ copyPc \in {"down", "next", "resolve", "stage", "copy", "folder", "finalize"}
  /\ copyAt \in 1..(Len(Images) + 1)
  /\ copyDest \in Paths \cup {NoImage}
  /\ copyStats.errors \subseteq DOMAIN Images

\* No run, however it ends, leaves an image cut short in the output tree.
ImagesAreWhole == \A p \in Paths : tree[p] # Torn

Filed(i) ==
  \E n \in 1..MaxSuffix :
    tree[<<Images[i].folder, Images[i].name, n>>] = Images[i].content

\* A run that was not canceled leaves every image filed or named as a failure,
\* and its counters account for every image once, whatever earlier runs left.
CompletedRunFilesAll ==
  copyStats.ended = "completed" =>
    /\ ~copyDry => \A i \in DOMAIN Images : Filed(i) \/ i \in copyStats.errors
    /\ copyStats.copied + copyStats.skipped + Cardinality(copyStats.errors) = Len(Images)

\* What the runs of the copy phase leave, and what they say of it.
CopyPhaseIsSound == CopyTypeOK /\ ImagesAreWhole /\ CompletedRunFilesAll

\* A file of the output tree is never overwritten or removed.
CopiesAreKept ==
  [][\A p \in Paths : tree[p] # NoImage => tree'[p] = tree[p]]_copyVars
=============================================================================
