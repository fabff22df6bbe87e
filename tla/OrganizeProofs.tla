--------------------------- MODULE OrganizeProofs ---------------------------
(***************************************************************************)
(* Proofs about OrganizeCopy for any sequence of images, any number of     *)
(* runs and any failures, stops and crashes among them, and about Organize *)
(* for any finite gallery, any sample size and any flushing of the cache,  *)
(* and about Clustering for any items, scores and thresholds.              *)
(***************************************************************************)
EXTENDS OrganizeCopy, Organize, Clustering, FiniteSetTheorems, WellFoundedInduction, TLAPS

\* The steps that work on an image, and those of them that have its destination.
AtImage == {"resolve", "stage", "copy", "folder", "finalize"}
Placing == AtImage \ {"resolve"}

StatsOK ==
  copyStats \in [copied : Nat, skipped : Nat, errors : SUBSET (1..Len(Images)),
                 ended : {"open", "canceled", "completed"}]

CopyModes ==
  /\ copyPc \in {"down", "next"} \cup AtImage
  /\ copyPc \in AtImage => copyAt <= Len(Images)
  /\ copyStats.ended = "completed" => copyPc = "down" /\ copyAt = Len(Images) + 1

\* The destination of the image at work is one of its names, and nothing is there.
DestIsFree ==
  copyPc \in Placing =>
    /\ ~copyDry
    /\ \E n \in 1..MaxSuffix : copyDest = PathOf(n)
    /\ tree[copyDest] = NoImage

\* What is renamed into the tree is the whole image.
StagingIsWhole ==
  copyPc \in {"folder", "finalize"} => staging = ImageAt.content

\* What a run has gone through: each image is filed or failed, and counted once.
RunAccounts == copyPc # "down" \/ copyStats.ended = "completed"

Accounted ==
  RunAccounts =>
    /\ ~copyDry => \A i \in 1..(copyAt - 1) : Filed(i) \/ i \in copyStats.errors
    /\ copyStats.errors \subseteq 1..(copyAt - 1)
    /\ copyStats.copied + copyStats.skipped + Cardinality(copyStats.errors) = copyAt - 1

CopyInv ==
  /\ CopyTypeOK /\ StatsOK /\ CopyModes
  /\ ImagesAreWhole /\ DestIsFree /\ StagingIsWhole
  /\ Accounted

-----------------------------------------------------------------------------
(* Lemmas about the images and their paths *)

LEMMA ImagesIndexed ==
  /\ Len(Images) \in Nat /\ DOMAIN Images = 1..Len(Images)
  /\ \A i \in 1..Len(Images) :
       /\ Images[i].folder \in OutFolders /\ Images[i].name \in ImageNames
       /\ Images[i].content \in Contents
       /\ Images[i].content # NoImage /\ Images[i].content # Torn
  BY OrganizeCopyAssumption DEF OutFolders, ImageNames, Contents, ValuesOf

LEMMA PathsOfImages ==
  \A i \in 1..Len(Images), n \in 1..MaxSuffix : <<Images[i].folder, Images[i].name, n>> \in Paths
  BY ImagesIndexed DEF Paths

\* A set of failures grows by the image at work.
LEMMA OneMoreError ==
  ASSUME NEW n \in Nat, NEW E \in SUBSET (1..(n - 1)), n > 0
  PROVE  /\ Cardinality(E) \in Nat
         /\ E \cup {n} \subseteq 1..n
         /\ Cardinality(E \cup {n}) = Cardinality(E) + 1
<1>0. IsFiniteSet(1..(n - 1))
  BY FS_Interval
<1>1. IsFiniteSet(E)
  BY <1>0, FS_Subset
<1> QED
  BY <1>1, FS_AddElement, FS_CardinalityType

-----------------------------------------------------------------------------
(* The steps *)

LEMMA CopyBegins == CopyInit => CopyInv
<1> SUFFICES ASSUME CopyInit
             PROVE  CopyInv
  OBVIOUS
<1> USE ImagesIndexed, OrganizeCopyAssumption DEF CopyInit
<1>1. CopyTypeOK /\ StatsOK
  BY FS_EmptySet DEF CopyTypeOK, StatsOK, NoStats
<1>2. CopyModes
  BY DEF CopyModes, NoStats, AtImage
<1>3. ImagesAreWhole
  BY DEF ImagesAreWhole
<1>4. DestIsFree /\ StagingIsWhole /\ Accounted
  BY DEF DestIsFree, StagingIsWhole, Accounted, RunAccounts, Placing, AtImage, NoStats
<1>5. QED
  BY <1>1, <1>2, <1>3, <1>4 DEF CopyInv

\* The images a run has been through, when the one at work has been counted too.
LEMMA AccountsGoOn ==
  ASSUME CopyInv, NEW at, at = copyAt, copyPc \in AtImage, copyAt' = copyAt + 1, UNCHANGED copyDry,
         \A i \in 1..Len(Images) : Filed(i) => Filed(i)',
         \/ /\ copyStats' = [copyStats EXCEPT !.copied = @ + 1]
            /\ copyDry \/ Filed(at)'
         \/ /\ copyStats' = [copyStats EXCEPT !.skipped = @ + 1]
            /\ copyDry \/ Filed(at)'
         \/ copyStats' = [copyStats EXCEPT !.errors = @ \cup {copyAt}]
  PROVE  StatsOK' /\ Accounted' /\ copyStats'.ended = copyStats.ended
<1> USE ImagesIndexed DEF CopyInv, CopyTypeOK, StatsOK, CopyModes
<1>1. copyAt \in Nat /\ copyAt > 0 /\ copyAt <= Len(Images) /\ RunAccounts
  BY DEF RunAccounts, AtImage
<1>2. copyStats.errors \in SUBSET (1..(copyAt - 1))
  BY <1>1 DEF Accounted
<1>3. /\ Cardinality(copyStats.errors) \in Nat
      /\ Cardinality(copyStats.errors \cup {copyAt}) = Cardinality(copyStats.errors) + 1
      /\ copyStats.errors \cup {copyAt} \subseteq 1..copyAt
  BY <1>1, <1>2, OneMoreError
<1>4. copyStats.copied + copyStats.skipped + Cardinality(copyStats.errors) = copyAt - 1
  BY <1>1 DEF Accounted
<1>5. StatsOK' /\ copyStats'.ended = copyStats.ended
  BY <1>1
<1>6. copyStats'.errors \subseteq 1..(copyAt' - 1)
  BY <1>1, <1>2, <1>3
<1>7. copyStats'.copied + copyStats'.skipped + Cardinality(copyStats'.errors) = copyAt' - 1
  <2>1. CASE copyStats' = [copyStats EXCEPT !.copied = @ + 1]
    <3>1. /\ copyStats'.copied = copyStats.copied + 1 /\ copyStats'.skipped = copyStats.skipped
          /\ copyStats'.errors = copyStats.errors
      BY <2>1
    <3>2. Cardinality(copyStats'.errors) = Cardinality(copyStats.errors)
      BY <3>1, Zenon
    <3>3. copyStats.copied \in Nat /\ copyStats.skipped \in Nat
      OBVIOUS
    <3>4. copyAt' - 1 = copyAt
      BY <1>1
    <3>5. copyStats.copied + copyStats.skipped + Cardinality(copyStats.errors) + 1 = copyAt
      BY <1>1, <1>3, <1>4, <3>3
    <3>6. QED
      BY <1>1, <1>3, <3>1, <3>2, <3>3, <3>4, <3>5
  <2>2. CASE copyStats' = [copyStats EXCEPT !.skipped = @ + 1]
    <3>1. /\ copyStats'.skipped = copyStats.skipped + 1 /\ copyStats'.copied = copyStats.copied
          /\ copyStats'.errors = copyStats.errors
      BY <2>2
    <3>2. Cardinality(copyStats'.errors) = Cardinality(copyStats.errors)
      BY <3>1, Zenon
    <3>3. copyStats.copied \in Nat /\ copyStats.skipped \in Nat
      OBVIOUS
    <3>4. copyAt' - 1 = copyAt
      BY <1>1
    <3>5. copyStats.copied + copyStats.skipped + Cardinality(copyStats.errors) + 1 = copyAt
      BY <1>1, <1>3, <1>4, <3>3
    <3>6. QED
      BY <1>1, <1>3, <3>1, <3>2, <3>3, <3>4, <3>5
  <2>3. CASE copyStats' = [copyStats EXCEPT !.errors = @ \cup {copyAt}]
    <3>1. /\ copyStats'.skipped = copyStats.skipped /\ copyStats'.copied = copyStats.copied
          /\ copyStats'.errors = copyStats.errors \cup {copyAt}
      BY <2>3
    <3>2. Cardinality(copyStats'.errors) = Cardinality(copyStats.errors \cup {copyAt})
      BY <3>1, Zenon
    <3>3. copyStats.copied \in Nat /\ copyStats.skipped \in Nat
      OBVIOUS
    <3>4. copyAt' - 1 = copyAt
      BY <1>1
    <3>5. Cardinality(copyStats'.errors) = Cardinality(copyStats.errors) + 1
      BY <1>3, <3>2
    <3>6. copyStats.copied + copyStats.skipped + (Cardinality(copyStats.errors) + 1) = copyAt
      BY <1>1, <1>3, <1>4, <3>3
    <3>7. copyStats'.copied + copyStats'.skipped + Cardinality(copyStats'.errors) = copyAt
      BY <3>1, <3>5, <3>6
    <3>8. QED
      BY <3>4, <3>7
  <2>4. QED
    BY <2>1, <2>2, <2>3
<1>8. ASSUME ~copyDry', NEW i \in 1..(copyAt' - 1)
      PROVE  Filed(i)' \/ i \in copyStats'.errors
  <2>1. CASE i = at
    BY <1>1, <1>8, <2>1
  <2>2. CASE i # at
    <3>1. i \in 1..(copyAt - 1)
      BY <1>1, <2>2
    <3>2. Filed(i) \/ i \in copyStats.errors
      BY <1>1, <1>8, <3>1 DEF Accounted
    <3>3. QED
      BY <1>1, <3>1, <3>2
  <2>3. QED
    BY <2>1, <2>2
<1>9. QED
  BY <1>5, <1>6, <1>7, <1>8 DEF Accounted

\* A run's files and counters keep the invariant through every step, failure and crash.
LEMMA CopyStep == CopyInv /\ [CopyNext]_copyVars => CopyInv'
<1> SUFFICES ASSUME CopyInv, [CopyNext]_copyVars
             PROVE  CopyInv'
  OBVIOUS
<1> USE ImagesIndexed, OrganizeCopyAssumption
<1>1. ASSUME UNCHANGED tree
      PROVE  /\ ImagesAreWhole'
             /\ \A i \in 1..Len(Images) : Filed(i)' <=> Filed(i)
  BY <1>1 DEF CopyInv, ImagesAreWhole, Filed
<1>2. ASSUME UNCHANGED <<tree, copyAt, copyDry, copyStats>>, RunAccounts' => RunAccounts
      PROVE  Accounted'
  BY <1>1, <1>2 DEF CopyInv, CopyTypeOK, Accounted, Filed
<1>3. CASE StartCopyRun
  <2> USE <1>3 DEF StartCopyRun, copyFiles, NoStats
  <2>1. CopyTypeOK' /\ StatsOK'
    BY DEF CopyInv, CopyTypeOK, StatsOK
  <2>2. CopyModes' /\ DestIsFree' /\ StagingIsWhole'
    BY DEF CopyModes, DestIsFree, StagingIsWhole, AtImage, Placing
  <2>3. Accounted'
    BY FS_EmptySet DEF Accounted
  <2>4. QED
    BY <1>1, <2>1, <2>2, <2>3 DEF CopyInv
<1>4. CASE NextItem
  <2> USE <1>4 DEF NextItem, copyFiles, CopyInv
  <2>1. CopyTypeOK' /\ StatsOK'
    BY DEF CopyTypeOK, StatsOK
  <2>2. CopyModes' /\ DestIsFree' /\ StagingIsWhole'
    BY DEF CopyModes, DestIsFree, StagingIsWhole, AtImage, Placing, CopyTypeOK, StatsOK
  <2>3. Accounted'
    BY <1>1 DEF Accounted, RunAccounts, StatsOK, Filed
  <2>4. QED
    BY <1>1, <2>1, <2>2, <2>3
<1>5. CASE Resolve
  <2> USE <1>5 DEF copyFiles, AtImage
  <2>1. copyAt \in 1..Len(Images)
    BY DEF Resolve, CopyInv, CopyTypeOK, CopyModes
  <2> PICK at \in 1..Len(Images) : at = copyAt
    BY <2>1
  <2>2. CASE copyPc' = "next"
    <3>1. /\ copyAt' = copyAt + 1
          /\ \/ /\ copyStats' = [copyStats EXCEPT !.skipped = @ + 1] /\ Filed(at)'
             \/ copyStats' = [copyStats EXCEPT !.copied = @ + 1] /\ copyDry
      <4>1. CASE tree[PathOf(1)] = ImageAt.content
        <5>1. Filed(at)
          <6>1. tree[<<Images[at].folder, Images[at].name, 1>>] = Images[at].content
            BY <4>1 DEF PathOf, ImageAt
          <6>2. 1 \in 1..MaxSuffix
            OBVIOUS
          <6>3. QED
            BY <6>1, <6>2 DEF Filed
        <5>2. QED
          BY <1>1, <4>1, <5>1 DEF Resolve, Advance
      <4>2. CASE tree[PathOf(1)] # ImageAt.content
        BY <2>2, <4>2 DEF Resolve, Advance
      <4>3. QED
        BY <4>1, <4>2
    <3>2. StatsOK' /\ Accounted' /\ copyStats'.ended = copyStats.ended
      BY <1>1, <3>1, AccountsGoOn DEF Resolve
    <3>3. copyDest' \in Paths \cup {NoImage}
      BY <2>1, PathsOfImages DEF Resolve, PathOf, ImageAt, CopyInv, CopyTypeOK
    <3>4. copyStats'.errors \subseteq DOMAIN Images
      BY <3>2 DEF StatsOK
    <3>7. CopyTypeOK'
      BY <2>1, <2>2, <3>1, <3>3, <3>4 DEF Resolve, CopyInv, CopyTypeOK
    <3>5. CopyModes' /\ DestIsFree' /\ StagingIsWhole'
      BY <2>2, <3>2 DEF Resolve, CopyInv, CopyModes, DestIsFree, StagingIsWhole, Placing
    <3>6. QED
      BY <1>1, <3>2, <3>7, <3>5 DEF CopyInv, Resolve
  <2>3. CASE copyPc' # "next"
    <3>1. /\ copyPc' = "stage" /\ ~copyDry /\ UNCHANGED <<copyStats, copyAt>>
          /\ \E n \in 1..MaxSuffix : copyDest' = PathOf(n) /\ tree[PathOf(n)] = NoImage
      BY <2>3 DEF Resolve, Advance, FreeSlot
    <3>2. CopyTypeOK' /\ StatsOK'
      BY <2>1, <3>1, PathsOfImages
         DEF Resolve, PathOf, ImageAt, CopyInv, CopyTypeOK, StatsOK
    <3>3. CopyModes' /\ DestIsFree' /\ StagingIsWhole'
      BY <2>1, <3>1
         DEF Resolve, CopyInv, CopyModes, DestIsFree, StagingIsWhole, Placing, PathOf, ImageAt
    <3>4. Accounted'
      BY <1>2, <3>1 DEF Resolve, RunAccounts
    <3>5. QED
      BY <1>1, <3>2, <3>3, <3>4 DEF CopyInv, Resolve
  <2>4. QED
    BY <2>2, <2>3
<1>6. ASSUME copyPc \in AtImage, CopyFails, UNCHANGED <<tree, outFolders, copyDest, copyDry>>,
             staging' \in {staging, NoImage}
      PROVE  CopyInv'
  <2> USE <1>6 DEF CopyFails, Advance
  <2>1. StatsOK' /\ Accounted' /\ copyStats'.ended = copyStats.ended
    BY <1>1, AccountsGoOn
  <2>2. copyAt \in 1..Len(Images)
    BY DEF CopyInv, CopyTypeOK, CopyModes
  <2>3. CopyTypeOK'
    <3>1. copyStats'.errors \subseteq DOMAIN Images
      BY <2>1, ImagesIndexed DEF StatsOK
    <3>2. copyAt' \in 1..(Len(Images) + 1) /\ copyPc' = "next"
      BY <2>2, ImagesIndexed
    <3> QED BY <3>1, <3>2 DEF CopyInv, CopyTypeOK
  <2>4. CopyModes' /\ DestIsFree' /\ StagingIsWhole'
    BY <2>1 DEF CopyInv, CopyModes, DestIsFree, StagingIsWhole, Placing, AtImage
  <2>5. QED
    BY <1>1, <2>1, <2>3, <2>4 DEF CopyInv
<1>7. ASSUME copyPc \in Placing, copyPc' \in Placing, StagingIsWhole',
             staging' \in Contents \cup {NoImage, Torn}, outFolders' \subseteq OutFolders,
             UNCHANGED <<tree, copyAt, copyDest, copyDry, copyStats>>
      PROVE  CopyInv'
  <2> USE <1>7 DEF CopyInv, Placing, AtImage
  <2>1. CopyTypeOK' /\ StatsOK'
    BY DEF CopyTypeOK, StatsOK
  <2>2. CopyModes' /\ DestIsFree'
    BY DEF CopyModes, DestIsFree, PathOf, ImageAt
  <2>3. Accounted'
    BY <1>2 DEF RunAccounts
  <2>4. QED
    BY <1>1, <2>1, <2>2, <2>3
<1>8. copyPc \in AtImage => copyAt \in 1..Len(Images)
  BY DEF CopyInv, CopyTypeOK, CopyModes
<1>9. CASE StageOpen
  BY <1>6, <1>7, <1>9 DEF StageOpen, StagingIsWhole, Placing, AtImage, CopyInv, CopyTypeOK
<1>10. CASE StageDone
  BY <1>6, <1>7, <1>8, <1>10
     DEF StageDone, StagingIsWhole, Placing, AtImage, ImageAt, CopyInv, CopyTypeOK
<1>11. CASE MakeFolder
  BY <1>7, <1>8, <1>11
     DEF MakeFolder, StagingIsWhole, Placing, AtImage, ImageAt, CopyInv, CopyTypeOK
<1>12. CASE Finalize
  <2> USE <1>12 DEF Placing, AtImage
  <2>1. CASE CopyFails /\ UNCHANGED tree
    BY <1>6, <2>1 DEF Finalize
  <2>2. CASE ~(CopyFails /\ UNCHANGED tree)
    <3>1. /\ copyPc = "finalize" /\ copyPc' = "next" /\ copyAt' = copyAt + 1
          /\ tree' = [tree EXCEPT ![copyDest] = staging] /\ staging' = NoImage
          /\ copyStats' = [copyStats EXCEPT !.copied = @ + 1]
          /\ UNCHANGED <<outFolders, copyDest, copyDry>>
      BY <2>2 DEF Finalize, Advance
    <3>2. PICK n \in 1..MaxSuffix : copyDest = PathOf(n)
      BY <3>1 DEF CopyInv, DestIsFree
    <3> PICK at \in 1..Len(Images) : at = copyAt
      BY <1>8, <3>1
    <3>3. copyDest \in Paths /\ tree[copyDest] = NoImage /\ staging = ImageAt.content
      BY <1>8, <3>1, <3>2, PathsOfImages
         DEF CopyInv, DestIsFree, StagingIsWhole, PathOf, ImageAt
    <3>4. tree' \in [Paths -> Contents \cup {NoImage, Torn}] /\ ImagesAreWhole'
      BY <1>8, <3>1, <3>3 DEF CopyInv, CopyTypeOK, ImagesAreWhole, ImageAt
    <3>5. \A i \in 1..Len(Images) : Filed(i) => Filed(i)'
      BY <1>8, <3>1, <3>3, PathsOfImages DEF CopyInv, CopyTypeOK, Filed
    <3>6. Filed(at)'
      <4>1. tree'[PathOf(n)] = ImageAt.content
        BY <3>1, <3>2, <3>3 DEF CopyInv, CopyTypeOK
      <4>2. QED
        BY <1>8, <3>1, <3>2, <4>1 DEF Filed, PathOf, ImageAt
    <3>7. StatsOK' /\ Accounted' /\ copyStats'.ended = copyStats.ended
      BY <3>1, <3>5, <3>6, AccountsGoOn
    <3>8. copyStats'.errors \subseteq DOMAIN Images /\ copyAt' \in 1..(Len(Images) + 1)
      <4>1. copyStats'.errors \subseteq 1..Len(Images)
        BY <3>7 DEF StatsOK
      <4>2. copyAt' \in 1..(Len(Images) + 1)
        BY <1>8, <3>1
      <4>3. QED
        BY <4>1, <4>2
    <3>9. CopyTypeOK'
      BY <3>1, <3>4, <3>8 DEF CopyInv, CopyTypeOK
    <3>10. CopyModes' /\ DestIsFree' /\ StagingIsWhole'
      BY <3>1, <3>7 DEF CopyInv, CopyModes, DestIsFree, StagingIsWhole
    <3>11. QED
      BY <3>4, <3>7, <3>9, <3>10 DEF CopyInv
  <2>3. QED
    BY <2>1, <2>2
<1>13. CASE RequestCopyStop \/ UNCHANGED copyVars
  <2>1. UNCHANGED <<tree, outFolders, staging, copyPc, copyAt, copyDest, copyDry, copyStats>>
    BY <1>13 DEF RequestCopyStop, copyFiles, copyVars
  <2>2. CopyTypeOK' /\ StatsOK' /\ CopyModes' /\ DestIsFree' /\ StagingIsWhole'
    BY <2>1 DEF CopyInv, CopyTypeOK, StatsOK, CopyModes, DestIsFree, StagingIsWhole,
                PathOf, ImageAt
  <2>3. Accounted'
    BY <1>2, <2>1 DEF RunAccounts
  <2>4. QED
    BY <1>1, <2>1, <2>2, <2>3 DEF CopyInv
<1>14. CASE CopyCrash
  <2> USE <1>14 DEF CopyCrash, copyFiles, CopyInv
  <2>1. CopyTypeOK' /\ StatsOK'
    BY DEF CopyTypeOK, StatsOK
  <2>2. CopyModes' /\ DestIsFree' /\ StagingIsWhole'
    BY DEF CopyModes, DestIsFree, StagingIsWhole, AtImage, Placing
  <2>3. Accounted'
    BY <1>2 DEF RunAccounts, CopyModes
  <2>4. QED
    BY <1>1, <2>1, <2>2, <2>3
<1>15. QED
  BY <1>3, <1>4, <1>5, <1>9, <1>10, <1>11, <1>12, <1>13, <1>14 DEF CopyNext

LEMMA CopyInvariance == CopySpec => []CopyInv
  BY CopyBegins, CopyStep, PTL DEF CopySpec

-----------------------------------------------------------------------------

\* However the runs end, no file of the output tree is cut short, and a run that
\* ends on its own has filed every image or named it, and counted it once.
THEOREM CopiesAreSound == CopySpec => []CopyPhaseIsSound
<1>1. CopyInv => CopyPhaseIsSound
  <2> SUFFICES ASSUME CopyInv, copyStats.ended = "completed"
               PROVE  CompletedRunFilesAll
    BY DEF CopyInv, CopyPhaseIsSound, CompletedRunFilesAll
  <2>1. copyAt - 1 = Len(Images) /\ RunAccounts
    BY ImagesIndexed DEF CopyInv, CopyModes, RunAccounts
  <2>2. QED
    BY <2>1, ImagesIndexed DEF CopyInv, Accounted, CompletedRunFilesAll
<1>2. QED
  BY <1>1, CopyInvariance, PTL

\* Over any number of runs a file of the output tree is never overwritten or removed.
THEOREM CopiesStay == CopySpec => CopiesAreKept
<1>1. CopyInv /\ [CopyNext]_copyVars
        => [\A p \in Paths : tree[p] # NoImage => tree'[p] = tree[p]]_copyVars
  <2> SUFFICES ASSUME CopyInv, CopyNext, NEW p \in Paths, tree[p] # NoImage
               PROVE  tree'[p] = tree[p]
    OBVIOUS
  <2>1. CASE Finalize
    <3>1. tree' \in {tree, [tree EXCEPT ![copyDest] = staging]} /\ tree[copyDest] = NoImage
      BY <2>1 DEF Finalize, CopyInv, DestIsFree, Placing, AtImage
    <3>2. QED
      BY <3>1 DEF CopyInv, CopyTypeOK
  <2>2. CASE ~Finalize
    BY <2>2 DEF CopyNext, StartCopyRun, NextItem, Resolve, StageOpen, StageDone, MakeFolder,
                RequestCopyStop, CopyCrash, copyFiles
  <2>3. QED
    BY <2>1, <2>2
<1>2. QED
  BY <1>1, CopyInvariance, PTL DEF CopySpec, CopiesAreKept

-----------------------------------------------------------------------------
(* Organize: what the runs file, cache and report *)

Running == {"sample", "analyze"}

\* The cache: what is on disk is in memory, what is missing there is counted, and a run
\* that is past its analysis has nothing unwritten.
StoreInv ==
  /\ IsFiniteSet(mem) /\ pendingPuts \in Nat
  /\ disk \subseteq mem /\ atBegin \subseteq mem
  /\ ~saveFailed =>
       /\ Cardinality(mem \ disk) <= pendingPuts /\ pendingPuts < FlushEvery
       /\ orgStage \in {"route", "copy", "over"} => mem = disk

\* What is left to analyse was not in the cache when the run began.
AskedInv ==
  /\ DOMAIN analysis = Files
  /\ classified \cap atBegin = {}
  /\ orgStage \in Running =>
       \A f \in StageFiles \cap Files : analysis[f] = "none" => Content(f) \notin atBegin

\* A run that is under way has named no error yet.
ErrorsInv == orgStage \notin {"off", "over"} => copyErrors = {}

\* The folders of the output tree are finitely many: new names never run out.
TreeInv == IsFiniteSet(output) /\ DOMAIN filed = Files

FiledInv ==
  /\ \/ filed = [f \in Files |-> Unfiled]
     \/ \A f \in Files : (filed[f] = Unfiled) <=> (f \notin Scanned)
  /\ orgStage = "copy" =>
       \A f \in Scanned : filed[f].source = "cluster" =>
         filed[f].to \notin OutputFolders \cup {FirstLevel}

OrgInv == StoreInv /\ AskedInv /\ ErrorsInv /\ TreeInv /\ FiledInv /\ ReportIsHonest

LEMMA LeastNumber == ASSUME NEW T \in SUBSET Nat, T # {}
                     PROVE  \E n \in T : \A k \in T : n <= k
<1> DEFINE R == {ss \in Nat \X Nat : ss[1] < ss[2]}
<1>1. IsWellFoundedOn(R, Nat)
  BY NatLessThanWellFounded DEF OpToRel
<1>2. PICK n \in T : \A k \in T : ~ (<<k, n>> \in R)
  BY <1>1, WFMin
<1>3. \A k \in T : <<k, n>> \in R <=> k < n
  OBVIOUS
<1>4. \A k \in T : ~ (k < n)
  BY <1>2, <1>3
<1>5. T \subseteq Int
  OBVIOUS
<1>6. QED  BY <1>4, <1>5

\* Of the sets in a collection of finite sets there is a smallest one.
LEMMA SmallestSet ==
  ASSUME NEW C, C # {}, \A T \in C : IsFiniteSet(T)
  PROVE  \E T \in C : \A V \in C : Cardinality(T) <= Cardinality(V)
<1> DEFINE N == {Cardinality(T) : T \in C}
<1>1. N \in SUBSET Nat /\ N # {}  BY FS_CardinalityType
<1>2. PICK n \in N : \A k \in N : n <= k  BY <1>1, LeastNumber
<1> QED BY <1>2

\* A collision suffix is found whatever is taken, and it is one that is free.
LEMMA UniqueIsNew ==
  ASSUME NEW taken, IsFiniteSet(taken), NEW kind, NEW of
  PROVE  Unique(kind, of, taken) \notin taken
<1> DEFINE C == Cardinality(taken)
           Free == {n \in 1..(C + 1) : <<kind, of, n>> \notin taken}
<1>1. C \in Nat  BY FS_CardinalityType
<1>2. Free # {}
  <2>1. SUFFICES ASSUME Free = {} PROVE FALSE  OBVIOUS
  <2> DEFINE name == [n \in 1..(C + 1) |-> <<kind, of, n>>]
  <2>2. name \in [1..(C + 1) -> taken]  BY <2>1
  <2>3. IsFiniteSet(1..(C + 1)) /\ Cardinality(1..(C + 1)) = C + 1
    <3>1. 1 \in Int /\ C + 1 \in Int /\ ~(1 > C + 1) /\ C + 1 - 1 + 1 = C + 1
      BY <1>1
    <3>2. QED  BY <3>1, FS_Interval
  <2>4. Cardinality(taken) < Cardinality(1..(C + 1))  BY <1>1, <2>3
  <2> HIDE DEF name
  <2>5. \E x, y \in 1..(C + 1) : x # y /\ name[x] = name[y]
    BY <2>2, <2>3, <2>4, FS_PigeonHole
  <2>6. QED  BY <2>5 DEF name
<1>3. Free \in SUBSET Nat  BY <1>1
<1>4. PICK n \in Free : \A k \in Free : n <= k  BY <1>2, <1>3, LeastNumber
<1>5. /\ n \in 1..(C + 1) /\ <<kind, of, n>> \notin taken
      /\ \A k \in 1..(n - 1) : <<kind, of, k>> \in taken
  <2>1. ASSUME NEW k \in 1..(n - 1) PROVE <<kind, of, k>> \in taken
    <3>1. k \in 1..(C + 1) /\ ~(n <= k)  BY <1>1, <1>4, <2>1
    <3>2. QED  BY <3>1, <1>4
  <2>2. QED  BY <1>4, <2>1
<1>6. \E m : /\ m \in 1..(Cardinality(taken) + 1) /\ <<kind, of, m>> \notin taken
             /\ \A k \in 1..(m - 1) : <<kind, of, k>> \in taken
  BY <1>5
<1>7. QED  BY <1>6 DEF Unique

LEMMA OrgInit_Inv == OrgInit => OrgInv
<1> SUFFICES ASSUME OrgInit PROVE OrgInv  OBVIOUS
<1>1. IsFiniteSet({}) /\ Cardinality({}) = 0 /\ {} \ {} = {}  BY FS_EmptySet
<1>2. StoreInv  BY <1>1, OrganizeAssumption DEF OrgInit, StoreInv
<1>3. AskedInv  BY DEF OrgInit, AskedInv, Running
<1>4. TreeInv  BY <1>1 DEF OrgInit, TreeInv
<1>5. FiledInv  BY DEF OrgInit, FiledInv
<1>6. ErrorsInv  BY DEF OrgInit, ErrorsInv
<1>7. ReportIsHonest  BY DEF OrgInit, ReportIsHonest, OrgEnded
<1>8. QED  BY <1>2, <1>3, <1>4, <1>5, <1>6, <1>7 DEF OrgInv

\* A store that was saved, or not, after a put or at the end of a stage.
LEMMA SaveStep ==
  ASSUME NEW held, IsFiniteSet(held), disk \subseteq held, Save(held)
  PROVE  /\ pendingPuts' = 0 /\ disk' \subseteq held
         /\ ~saveFailed' => /\ ~saveFailed /\ disk' = held
                            /\ Cardinality(held \ disk') <= pendingPuts'
<1>1. Cardinality({}) = 0 /\ held \ held = {}  BY FS_EmptySet
<1>2. QED  BY <1>1 DEF Save

\* Most steps leave the routes and the tree alone.
LEMMA FilingStays ==
  ASSUME OrgInv, UNCHANGED <<orgRecursive, disposition, filed, output>>,
         orgStage' = "copy" => orgStage = "copy"
  PROVE  TreeInv' /\ FiledInv'
<1>1. Scanned' = Scanned /\ OutputFolders' = OutputFolders  BY DEF Scanned, OutputFolders
<1>2. QED  BY <1>1 DEF OrgInv, TreeInv, FiledInv

\* What a look into the cache leaves to analyse was not there when the run began.
LEMMA LookedUp ==
  ASSUME OrgInv, NEW images, analysis' = FromCache(images)
  PROVE  /\ DOMAIN analysis' = Files
         /\ \A f \in images \cap Files : analysis'[f] = "none" => Content(f) \notin atBegin
BY DEF OrgInv, StoreInv, AskedInv, FromCache

LEMMA StageImages == Scanned \subseteq Files
BY DEF Scanned, Files

LEMMA ImageIsFinite ==
  ASSUME NEW S, IsFiniteSet(S), NEW g, DOMAIN g = S
  PROVE  IsFiniteSet({g[x] : x \in S})
<1> DEFINE T == {g[x] : x \in S}
<1>1. \A y \in T : \E x \in S : y = g[x]  OBVIOUS
<1> DEFINE h == [x \in S |-> g[x]]
<1>2. h \in [S -> T] /\ \A y \in T : \E x \in S : h[x] = y  BY <1>1
<1>3. h \in Surjection(S, T)  BY <1>2 DEF Surjection
<1>4. QED  BY <1>3, FS_Surjection

\* Only the copies name errors, and a run that begins forgets those of the one before.
LEMMA ErrorsStep == ASSUME OrgInv, OrgNext PROVE ErrorsInv'
<1> USE DEF OrgInv, ErrorsInv
<1>1. CASE BeginOrganize  BY <1>1 DEF BeginOrganize
<1>2. CASE Look \/ RequestOrgStop \/ OrgCrash
  BY <1>2 DEF Look, RequestOrgStop, OrgCrash
<1>3. CASE \E f \in Files : Analyze(f)
  BY <1>3 DEF Analyze
<1>4. CASE SampleEnds
  <2>1. orgStage = "sample" /\ copyErrors' = copyErrors  BY <1>4 DEF SampleEnds
  <2> QED BY <2>1
<1>5. CASE AnalysisEnds
  <2>1. orgStage = "analyze" /\ copyErrors' = copyErrors  BY <1>5 DEF AnalysisEnds
  <2> QED BY <2>1
<1>6. CASE Route
  <2>1. orgStage = "route" /\ copyErrors' = copyErrors  BY <1>6 DEF Route
  <2> QED BY <2>1
<1>7. CASE CopyOut
  <2>1. orgStage' = "over"  BY <1>7 DEF CopyOut, EndOrganize
  <2> QED BY <2>1
<1>8. CASE RenameFolder  BY <1>8 DEF RenameFolder
<1> QED BY <1>1, <1>2, <1>3, <1>4, <1>5, <1>6, <1>7, <1>8 DEF OrgNext

LEMMA Begin_Inv == ASSUME OrgInv, BeginOrganize PROVE OrgInv'
<1>e. ErrorsInv'  BY ErrorsStep DEF OrgNext
<1>1. disk' \subseteq disk /\ mem' = disk' /\ atBegin' = mem' /\ pendingPuts' = 0
  BY DEF BeginOrganize
<1>2. IsFiniteSet(mem')
  BY <1>1, FS_Subset DEF OrgInv, StoreInv
<1>3. StoreInv'
  <2>1. mem' \ disk' = {} /\ Cardinality({}) = 0  BY <1>1, FS_EmptySet
  <2>2. orgStage' = "begun"  BY DEF BeginOrganize
  <2>3. QED  BY <1>1, <1>2, <2>1, <2>2, OrganizeAssumption DEF StoreInv
<1>4. AskedInv'  BY DEF BeginOrganize, AskedInv, Running
<1>5. TreeInv' /\ FiledInv'  BY DEF BeginOrganize, OrgInv, TreeInv, FiledInv
<1>6. ReportIsHonest'  BY DEF BeginOrganize, ReportIsHonest, OrgEnded
<1>7. QED  BY <1>e, <1>3, <1>4, <1>5, <1>6 DEF OrgInv

LEMMA Look_Inv == ASSUME OrgInv, Look PROVE OrgInv'
<1>e. ErrorsInv'  BY ErrorsStep DEF OrgNext
<1>1. /\ UNCHANGED <<orgRecursive, disposition, gallery, filed, output, mem, disk, pendingPuts,
                     saveFailed, atBegin, classified, orgExit, orgStop>>
      /\ orgStage' \in Running
  BY DEF Look, Running, orgWorld, orgOptions
<1>2. StoreInv'  BY <1>1 DEF OrgInv, StoreInv, Running
<1>3. AskedInv'
  <2>1. CASE orgRecursive
    <3>1. orgStage' = "analyze" /\ analysis' = FromCache(Scanned)  BY <2>1 DEF Look
    <3>2. StageFiles' = Scanned  BY <1>1, <3>1 DEF StageFiles, Scanned
    <3>3. QED  BY <1>1, <3>1, <3>2, LookedUp, StageImages DEF OrgInv, AskedInv, Content
  <2>2. CASE ~orgRecursive
    <3>1. orgStage' = "sample" /\ analysis' = FromCache(Sample)  BY <2>2 DEF Look
    <3>2. StageFiles' = Sample  BY <1>1, <3>1 DEF StageFiles, Sample
    <3>3. QED  BY <1>1, <3>1, <3>2, LookedUp, StageImages DEF OrgInv, AskedInv, Content
  <2>3. QED  BY <2>1, <2>2
<1>4. TreeInv' /\ FiledInv'  BY <1>1, FilingStays DEF Running
<1>5. ReportIsHonest'  BY <1>1 DEF ReportIsHonest, OrgEnded, Running
<1>6. QED  BY <1>e, <1>2, <1>3, <1>4, <1>5 DEF OrgInv

LEMMA Interrupt_Inv == ASSUME OrgInv, RequestOrgStop \/ OrgCrash PROVE OrgInv'
<1>e. ErrorsInv'  BY ErrorsStep DEF OrgNext
<1>1. /\ UNCHANGED <<orgRecursive, disposition, gallery, filed, output, mem, disk, pendingPuts,
                     saveFailed, atBegin, classified, analysis>>
      /\ orgStage \notin {"off", "over"} /\ orgStage' \in {orgStage, "off"}
  BY DEF RequestOrgStop, OrgCrash, orgWorld, orgOptions
<1>2. StoreInv'  BY <1>1 DEF OrgInv, StoreInv
<1>3. AskedInv'
  <2>1. orgStage' \in Running => StageFiles' = StageFiles
    BY <1>1 DEF StageFiles, Sample, Scanned, Running
  <2>2. QED  BY <1>1, <2>1 DEF OrgInv, AskedInv, Content, Running
<1>4. TreeInv' /\ FiledInv'  BY <1>1, FilingStays
<1>5. ReportIsHonest'  BY <1>1 DEF ReportIsHonest, OrgEnded
<1>6. QED  BY <1>e, <1>2, <1>3, <1>4, <1>5 DEF OrgInv

LEMMA Analyze_Inv == ASSUME OrgInv, NEW f \in Files, Analyze(f) PROVE OrgInv'
<1>e. ErrorsInv'  BY ErrorsStep DEF OrgNext
<1>1. /\ UNCHANGED <<orgRecursive, disposition, gallery, filed, output, atBegin, orgStage>>
      /\ orgStage \in Running /\ f \in StageFiles /\ analysis[f] = "none"
      /\ analysis' = [analysis EXCEPT ![f] = "fresh"]
      /\ classified' = classified \cup {Content(f)} /\ mem' = mem \cup {Content(f)}
  BY DEF Analyze, AlreadyAnalyzed, Running, orgWorld, orgOptions
<1>2. StoreInv /\ IsFiniteSet(mem')
  BY <1>1, FS_AddElement DEF OrgInv, StoreInv
<1>3. StoreInv'
  <2>1. CASE BatchIsFull
    <3>1. Save(mem')  BY <2>1 DEF Analyze
    <3>2. /\ pendingPuts' = 0 /\ disk' \subseteq mem'
          /\ ~saveFailed' => Cardinality(mem' \ disk') <= pendingPuts'
      BY <1>1, <1>2, <3>1, SaveStep DEF StoreInv
    <3>3. QED  BY <1>1, <1>2, <3>2, OrganizeAssumption DEF StoreInv, Running
  <2>2. CASE ~BatchIsFull
    <3>1. pendingPuts' = pendingPuts + 1 /\ UNCHANGED <<disk, saveFailed>>
      BY <2>2 DEF Analyze
    <3>2. pendingPuts' < FlushEvery
      BY <1>2, <2>2, <3>1, OrganizeAssumption DEF BatchIsFull, StoreInv
    <3>3. ~saveFailed => Cardinality(mem' \ disk') <= pendingPuts'
      <4>1. mem' \ disk' \subseteq (mem \ disk) \cup {Content(f)}  BY <1>1, <3>1
      <4>2. IsFiniteSet(mem \ disk)  BY <1>2, FS_Difference DEF StoreInv
      <4>3. /\ IsFiniteSet((mem \ disk) \cup {Content(f)})
            /\ Cardinality((mem \ disk) \cup {Content(f)}) <= Cardinality(mem \ disk) + 1
        <5>1. Cardinality(mem \ disk) \in Nat  BY <4>2, FS_CardinalityType
        <5>2. CASE Content(f) \in mem \ disk
          <6>1. (mem \ disk) \cup {Content(f)} = mem \ disk  BY <5>2
          <6>2. IsFiniteSet((mem \ disk) \cup {Content(f)})  BY <4>2, <6>1
          <6>3. Cardinality((mem \ disk) \cup {Content(f)}) = Cardinality(mem \ disk)  BY <6>1
          <6>4. Cardinality(mem \ disk) <= Cardinality(mem \ disk) + 1  BY <5>1
          <6>5. QED  BY <6>2, <6>3, <6>4
        <5>3. CASE Content(f) \notin mem \ disk
          BY <4>2, <5>1, <5>3, FS_AddElement
        <5>4. QED  BY <5>2, <5>3
      <4>4. Cardinality(mem' \ disk') <= Cardinality((mem \ disk) \cup {Content(f)})
        BY <4>1, <4>3, FS_Subset
      <4>5. IsFiniteSet(mem' \ disk')  BY <4>1, <4>3, FS_Subset
      <4>6. /\ Cardinality(mem \ disk) \in Nat /\ Cardinality(mem' \ disk') \in Nat
            /\ Cardinality((mem \ disk) \cup {Content(f)}) \in Nat
        BY <4>2, <4>3, <4>5, FS_CardinalityType
      <4>7. QED  BY <1>2, <3>1, <4>3, <4>4, <4>6 DEF StoreInv
    <3>4. QED  BY <1>1, <1>2, <3>1, <3>2, <3>3 DEF StoreInv, Running
  <2>3. QED  BY <2>1, <2>2
<1>4. AskedInv'
  <2>1. StageFiles' = StageFiles  BY <1>1 DEF StageFiles, Sample, Scanned
  <2>2. Content(f) \notin atBegin  BY <1>1 DEF OrgInv, AskedInv
  <2>3. QED  BY <1>1, <2>1, <2>2 DEF OrgInv, AskedInv, Content
<1>5. TreeInv' /\ FiledInv'  BY <1>1, FilingStays
<1>6. ReportIsHonest'  BY <1>1 DEF ReportIsHonest, OrgEnded, Running
<1>7. QED  BY <1>e, <1>3, <1>4, <1>5, <1>6 DEF OrgInv

\* At the end of a stage the cache on disk is the one in memory, or a rewrite failed.
LEMMA FlushedAll ==
  ASSUME OrgInv, Flush, mem' = mem, atBegin' = atBegin
  PROVE  StoreInv'
<1>1. CASE pendingPuts = 0
  <2>1. UNCHANGED <<disk, pendingPuts, saveFailed>>  BY <1>1 DEF Flush
  <2>2. ~saveFailed => mem = disk
    <3>1. SUFFICES ASSUME ~saveFailed PROVE mem = disk  OBVIOUS
    <3>2. IsFiniteSet(mem \ disk)  BY FS_Difference DEF OrgInv, StoreInv
    <3>3. Cardinality(mem \ disk) = 0
      BY <1>1, <3>1, <3>2, FS_CardinalityType DEF OrgInv, StoreInv
    <3>4. mem \ disk = {}  BY <3>2, <3>3, FS_EmptySet
    <3>5. QED  BY <3>4 DEF OrgInv, StoreInv
  <2>3. QED  BY <2>1, <2>2 DEF OrgInv, StoreInv
<1>2. CASE pendingPuts # 0
  <2>1. Save(mem)  BY <1>2 DEF Flush
  <2>2. /\ pendingPuts' = 0 /\ disk' \subseteq mem
        /\ ~saveFailed' => disk' = mem /\ Cardinality(mem \ disk') <= pendingPuts'
    BY <2>1, SaveStep DEF OrgInv, StoreInv
  <2>3. QED  BY <2>2, OrganizeAssumption DEF OrgInv, StoreInv
<1>3. QED  BY <1>1, <1>2

LEMMA SampleEnds_Inv == ASSUME OrgInv, SampleEnds PROVE OrgInv'
<1>e. ErrorsInv'  BY ErrorsStep DEF OrgNext
<1>1. /\ UNCHANGED <<orgRecursive, disposition, gallery, filed, output, mem, atBegin, classified,
                     orgStop, copyErrors>>
      /\ Flush /\ orgStage = "sample"
  BY DEF SampleEnds, orgWorld, orgOptions
<1>2. StoreInv'  BY <1>1, FlushedAll
<1>3. CASE StageCanceled
  <2>1. orgStage' = "over" /\ orgExit' = Canceled /\ orgStop /\ analysis' = analysis
    BY <1>3 DEF SampleEnds, EndOrganize, StageCanceled
  <2>2. AskedInv'  BY <1>1, <2>1 DEF OrgInv, AskedInv, Running
  <2>3. TreeInv' /\ FiledInv'  BY <1>1, <2>1, FilingStays
  <2>4. ReportIsHonest'
    BY <1>1, <2>1 DEF OrgInv, ErrorsInv, ReportIsHonest, OrgEnded, Canceled, Succeeded
  <2>5. QED  BY <1>e, <1>2, <2>2, <2>3, <2>4 DEF OrgInv
<1>4. CASE ~StageCanceled
  <2>1. orgStage' = "analyze" /\ analysis' = FromCache(Scanned)  BY <1>4 DEF SampleEnds
  <2>2. StageFiles' = Scanned  BY <1>1, <2>1 DEF StageFiles, Scanned
  <2>3. AskedInv'
    BY <1>1, <2>1, <2>2, LookedUp, StageImages DEF OrgInv, AskedInv, Content
  <2>4. TreeInv' /\ FiledInv'  BY <1>1, <2>1, FilingStays
  <2>5. ReportIsHonest'  BY <2>1 DEF ReportIsHonest, OrgEnded
  <2>6. QED  BY <1>e, <1>2, <2>3, <2>4, <2>5 DEF OrgInv
<1>5. QED  BY <1>3, <1>4

LEMMA AnalysisEnds_Inv == ASSUME OrgInv, AnalysisEnds PROVE OrgInv'
<1>e. ErrorsInv'  BY ErrorsStep DEF OrgNext
<1>1. /\ UNCHANGED <<orgRecursive, disposition, gallery, filed, output, mem, atBegin, classified,
                     orgStop, analysis, copyErrors>>
      /\ Flush /\ orgStage = "analyze"
      /\ \/ orgStage' = "over" /\ orgExit' = Canceled /\ orgStop
         \/ orgStage' = "route"
  BY DEF AnalysisEnds, EndOrganize, StageCanceled, orgWorld, orgOptions
<1>2. StoreInv'  BY <1>1, FlushedAll
<1>3. AskedInv'  BY <1>1 DEF OrgInv, AskedInv, Running
<1>4. TreeInv' /\ FiledInv'  BY <1>1, FilingStays
<1>5. ReportIsHonest'
  BY <1>1 DEF OrgInv, ErrorsInv, ReportIsHonest, OrgEnded, Canceled, Succeeded
<1>6. QED  BY <1>e, <1>2, <1>3, <1>4, <1>5 DEF OrgInv

LEMMA CopyOut_Inv == ASSUME OrgInv, CopyOut PROVE OrgInv'
<1>e. ErrorsInv'  BY ErrorsStep DEF OrgNext
<1>1. PICK tried \in IF orgStop THEN SUBSET Scanned ELSE {Scanned} :
        \E failed \in SUBSET (IF orgDry' THEN {} ELSE {f \in tried : Copied(f) \notin output}) :
          \E made \in SUBSET {f \in failed : filed[f].to \notin OutputFolders} :
            /\ output' = IF orgDry' THEN output
                         ELSE output \cup {Copied(f) : f \in tried \ failed}
                                     \cup {<<filed[f].to, NoContent>> : f \in made}
            /\ copyErrors' = IF tried = Scanned THEN Named(failed, made) ELSE {}
            /\ EndOrganize(IF tried = Scanned THEN Succeeded ELSE Canceled)
  BY DEF CopyOut
<1>2. PICK failed \in SUBSET (IF orgDry' THEN {} ELSE {f \in tried : Copied(f) \notin output}) :
        \E made \in SUBSET {f \in failed : filed[f].to \notin OutputFolders} :
          /\ output' = IF orgDry' THEN output
                       ELSE output \cup {Copied(f) : f \in tried \ failed}
                                   \cup {<<filed[f].to, NoContent>> : f \in made}
          /\ copyErrors' = IF tried = Scanned THEN Named(failed, made) ELSE {}
          /\ EndOrganize(IF tried = Scanned THEN Succeeded ELSE Canceled)
  BY <1>1
<1>3. PICK made \in SUBSET {f \in failed : filed[f].to \notin OutputFolders} :
        /\ output' = IF orgDry' THEN output
                     ELSE output \cup {Copied(f) : f \in tried \ failed}
                                 \cup {<<filed[f].to, NoContent>> : f \in made}
        /\ copyErrors' = IF tried = Scanned THEN failed ELSE {}
        /\ EndOrganize(IF tried = Scanned THEN Succeeded ELSE Canceled)
  BY <1>2 DEF Named
<1>4. /\ UNCHANGED <<orgRecursive, disposition, gallery, filed, mem, disk, pendingPuts, saveFailed,
                     atBegin, classified, analysis, orgStop>>
      /\ orgStage = "copy" /\ orgStage' = "over"
      /\ orgExit' = IF tried = Scanned THEN Succeeded ELSE Canceled
  BY <1>3 DEF CopyOut, EndOrganize, orgWorld
<1>5. StoreInv'  BY <1>4 DEF OrgInv, StoreInv
<1>6. AskedInv'  BY <1>4 DEF OrgInv, AskedInv, Running
<1>7. tried \subseteq Files /\ made \subseteq Files  BY StageImages
<1>8. TreeInv'
  <2> DEFINE new == {Copied(f) : f \in tried \ failed}
             empty == {<<filed[f].to, NoContent>> : f \in made}
  <2>1. IsFiniteSet(new)
    <3> DEFINE g == [f \in tried \ failed |-> Copied(f)]
    <3>1. DOMAIN g = tried \ failed /\ {g[f] : f \in tried \ failed} = new  OBVIOUS
    <3>2. IsFiniteSet(tried \ failed)  BY <1>7, OrganizeAssumption, FS_Subset
    <3> HIDE DEF g, new
    <3>3. QED  BY <3>1, <3>2, ImageIsFinite
  <2>2. IsFiniteSet(empty)
    <3> DEFINE g == [f \in made |-> <<filed[f].to, NoContent>>]
    <3>1. DOMAIN g = made /\ {g[f] : f \in made} = empty  OBVIOUS
    <3>2. IsFiniteSet(made)  BY <1>7, OrganizeAssumption, FS_Subset
    <3> HIDE DEF g, empty
    <3>3. QED  BY <3>1, <3>2, ImageIsFinite
  <2>3. output' \in {output, (output \cup new) \cup empty}  BY <1>3
  <2> HIDE DEF new, empty
  <2>4. IsFiniteSet((output \cup new) \cup empty)
    BY <2>1, <2>2, FS_Union DEF OrgInv, TreeInv
  <2>5. QED  BY <1>4, <2>3, <2>4 DEF OrgInv, TreeInv
<1>9. FiledInv'
  <2>1. Scanned' = Scanned  BY <1>4 DEF Scanned
  <2>2. QED  BY <1>4, <2>1 DEF OrgInv, FiledInv
<1>10. ReportIsHonest'
  <2>1. Scanned' = Scanned /\ \A f : Copied(f)' = Copied(f)
    BY <1>4 DEF Scanned, Copied, Content
  <2>2. OrgEnded(Succeeded)' => tried = Scanned /\ copyErrors' = failed
    BY <1>3, <1>4 DEF OrgEnded, Succeeded, Canceled
  <2>3. OrgEnded(Canceled)' => orgStop /\ copyErrors' = {}
    BY <1>3, <1>4 DEF OrgEnded, Succeeded, Canceled
  <2>4. ~orgDry' => \A f \in tried \ failed : Copied(f) \in output'  BY <1>3
  <2>5. QED  BY <1>4, <2>1, <2>2, <2>3, <2>4 DEF ReportIsHonest
<1>11. QED  BY <1>e, <1>5, <1>6, <1>8, <1>9, <1>10 DEF OrgInv

LEMMA Rename_Inv == ASSUME OrgInv, RenameFolder PROVE OrgInv'
<1>e. ErrorsInv'  BY ErrorsStep DEF OrgNext
<1>1. /\ UNCHANGED <<orgRecursive, disposition, gallery, filed, mem, disk, pendingPuts, saveFailed,
                     atBegin, classified, analysis>>
      /\ orgStage' = "off"
  BY DEF RenameFolder, orgOptions
<1>2. StoreInv'  BY <1>1 DEF OrgInv, StoreInv
<1>3. AskedInv'  BY <1>1 DEF OrgInv, AskedInv, Running
<1>4. TreeInv'
  <2>1. PICK name \in OutputFolders :
          output' = {<<IF e[1] = name THEN Folder("user", "x") ELSE e[1], e[2]>> : e \in output}
    BY DEF RenameFolder
  <2>2. IsFiniteSet(output')
    <3> DEFINE g == [e \in output |-> <<IF e[1] = name THEN Folder("user", "x") ELSE e[1], e[2]>>]
    <3>1. DOMAIN g = output /\ {g[e] : e \in output} = output'  BY <2>1
    <3> HIDE DEF g
    <3>2. QED  BY <3>1, ImageIsFinite DEF OrgInv, TreeInv
  <2>3. QED  BY <1>1, <2>2 DEF OrgInv, TreeInv
<1>5. FiledInv'
  <2>1. Scanned' = Scanned  BY <1>1 DEF Scanned
  <2>2. QED  BY <1>1, <2>1 DEF OrgInv, FiledInv
<1>6. ReportIsHonest'  BY <1>1 DEF ReportIsHonest, OrgEnded
<1>7. QED  BY <1>e, <1>2, <1>3, <1>4, <1>5, <1>6 DEF OrgInv

LEMMA RouteSources == \A a : RouteOf(a).source \in {"match", "tag", "mixed", "none"}
BY DEF RouteOf, ByCharacter, Unfiled

\* Every scanned image gets a place, and a new cluster one that is not taken.
LEMMA RemainderFiles ==
  ASSUME NEW routed, NEW captor, DOMAIN routed = Files, OrgInv,
         \A f \in Files : f \notin Scanned => routed[f] = Unfiled,
         \A f \in Files : routed[f].source # "cluster"
  PROVE  /\ DOMAIN Remainder(routed, captor) = Files
         /\ \A f \in Files : (Remainder(routed, captor)[f] = Unfiled) <=> (f \notin Scanned)
         /\ \A f \in Scanned : Remainder(routed, captor)[f].source = "cluster" =>
              Remainder(routed, captor)[f].to \notin OutputFolders \cup {FirstLevel}
<1> DEFINE left == Left(routed)
           fresh(f) == gallery[f].look # NoLook /\ gallery[f].look \notin DOMAIN captor
           lone(f) == fresh(f) /\ ClusterOf(gallery[f].look, routed) = {f}
           pages(f) == {g \in left : lone(g) /\ gallery[g].work = gallery[f].work}
           inWork(f) == gallery[f].work # NoWork /\ Cardinality(pages(f)) >= 2
           name(f) == IF inWork(f) THEN Unique("work", gallery[f].work, Taken(routed))
                                   ELSE Unique("unknown", gallery[f].look, Taken(routed))
<1>1. Remainder(routed, captor) =
        [f \in Files |->
          CASE f \notin left -> routed[f]
            [] f \in left /\ gallery[f].look = NoLook ->
                 [to |-> Uncategorized, source |-> "uncategorized"]
            [] f \in left /\ fresh(f) -> [to |-> name(f), source |-> "cluster"]
            [] OTHER -> [to |-> captor[gallery[f].look], source |-> "match"]]
  BY DEF Remainder
<1>a. left = {f \in Scanned : routed[f] = Unfiled}  BY DEF Left
<1>2. \A f \in Files : name(f) \notin Taken(routed)
  <2>1. IsFiniteSet(Taken(routed))
    <3>1. IsFiniteSet(Scanned)  BY StageImages, OrganizeAssumption, FS_Subset
    <3>2. IsFiniteSet({routed[f].to : f \in Scanned})
      <4> DEFINE g == [f \in Scanned |-> routed[f].to]
      <4>1. DOMAIN g = Scanned /\ {g[f] : f \in Scanned} = {routed[f].to : f \in Scanned}
        OBVIOUS
      <4> HIDE DEF g
      <4>2. QED  BY <3>1, <4>1, ImageIsFinite
    <3>3. IsFiniteSet(OutputFolders)
      <4> DEFINE g == [e \in output |-> e[1]]
      <4>1. DOMAIN g = output /\ {g[e] : e \in output} = OutputFolders  BY DEF OutputFolders
      <4> HIDE DEF g
      <4>2. QED  BY <4>1, ImageIsFinite DEF OrgInv, TreeInv
    <3>4. IsFiniteSet({routed[f].to : f \in Scanned} \cup {FirstLevel})
      BY <3>2, FS_AddElement
    <3>5. IsFiniteSet(({routed[f].to : f \in Scanned} \cup {FirstLevel}) \cup OutputFolders)
      BY <3>3, <3>4, FS_Union
    <3>6. QED  BY <3>5 DEF Taken
  <2>2. QED  BY <2>1, UniqueIsNew
<1> HIDE DEF name, fresh, left
<1>3. \A f \in Files : f \notin left => Remainder(routed, captor)[f] = routed[f]
  BY <1>1
<1>4. \A f \in left : Remainder(routed, captor)[f].source \in {"uncategorized", "cluster", "match"}
  BY <1>1, <1>a, StageImages
<1>5. \A f \in left : Remainder(routed, captor)[f].source = "cluster" => Remainder(routed, captor)[f].to = name(f)
  BY <1>1, <1>a, StageImages
<1>6. DOMAIN Remainder(routed, captor) = Files  BY <1>1
<1>7. \A f \in Files : (Remainder(routed, captor)[f] = Unfiled) <=> (f \notin Scanned)
  <2>1. ASSUME NEW f \in Files, f \notin Scanned PROVE Remainder(routed, captor)[f] = Unfiled
    BY <1>3, <1>a, <2>1
  <2>2. ASSUME NEW f \in Files, f \in left PROVE Remainder(routed, captor)[f] # Unfiled
    <3>1. Unfiled.source = "none"  BY DEF Unfiled
    <3>2. QED  BY <1>4, <2>2, <3>1
  <2>3. ASSUME NEW f \in Files, f \in Scanned, f \notin left PROVE Remainder(routed, captor)[f] # Unfiled
    BY <1>3, <1>a, <2>3
  <2>4. QED  BY <2>1, <2>2, <2>3
<1>8. \A f \in Scanned : Remainder(routed, captor)[f].source = "cluster" =>
        Remainder(routed, captor)[f].to \notin OutputFolders \cup {FirstLevel}
  BY <1>2, <1>3, <1>5, <1>a, StageImages DEF Taken
<1>9. QED  BY <1>6, <1>7, <1>8

LEMMA Route_Inv == ASSUME OrgInv, Route PROVE OrgInv'
<1> DEFINE routed == [f \in Files |-> IF f \in Scanned THEN RouteOf(Known(f)) ELSE Unfiled]
<1>e. ErrorsInv'  BY ErrorsStep DEF OrgNext
<1>1. /\ UNCHANGED <<orgRecursive, disposition, gallery, output, mem, disk, pendingPuts, saveFailed,
                     atBegin, classified, analysis>>
      /\ orgStage = "route" /\ orgStage' = "copy"
      /\ \E captor : filed' = Remainder(routed, captor)
  BY DEF Route, orgWorld, orgOptions
<1>2. /\ DOMAIN routed = Files
      /\ \A f \in Files : f \notin Scanned => routed[f] = Unfiled
      /\ \A f \in Files : routed[f].source # "cluster"
  BY RouteSources DEF Unfiled
<1> HIDE DEF routed
<1>b. PICK captor : filed' = Remainder(routed, captor)  BY <1>1
<1>3. /\ DOMAIN filed' = Files
      /\ \A f \in Files : (filed'[f] = Unfiled) <=> (f \notin Scanned)
      /\ \A f \in Scanned : filed'[f].source = "cluster" =>
           filed'[f].to \notin OutputFolders \cup {FirstLevel}
  BY <1>b, <1>2, RemainderFiles
<1>4. StoreInv'  BY <1>1 DEF OrgInv, StoreInv
<1>5. AskedInv'  BY <1>1 DEF OrgInv, AskedInv, Running
<1>6. Scanned' = Scanned /\ OutputFolders' = OutputFolders  BY <1>1 DEF Scanned, OutputFolders
<1>7. TreeInv' /\ FiledInv'  BY <1>1, <1>3, <1>6 DEF OrgInv, TreeInv, FiledInv
<1>8. ReportIsHonest'  BY <1>1 DEF ReportIsHonest, OrgEnded
<1>9. QED  BY <1>e, <1>4, <1>5, <1>7, <1>8 DEF OrgInv

LEMMA OrgStep_Inv == OrgInv /\ [OrgNext]_orgVars => OrgInv'
<1> SUFFICES ASSUME OrgInv, [OrgNext]_orgVars PROVE OrgInv'  OBVIOUS
<1>1. CASE UNCHANGED orgVars
  <2>1. Scanned' = Scanned /\ OutputFolders' = OutputFolders /\ StageFiles' = StageFiles
    BY <1>1 DEF orgVars, Scanned, OutputFolders, StageFiles, Sample
  <2>2. \A f : Content(f)' = Content(f)  BY <1>1 DEF orgVars, Content
  <2>3. StoreInv' /\ AskedInv' /\ ErrorsInv' /\ TreeInv' /\ FiledInv'
    BY <1>1, <2>1, <2>2 DEF orgVars, OrgInv, StoreInv, AskedInv, ErrorsInv, TreeInv, FiledInv
  <2>4. \A f : Copied(f)' = Copied(f)  BY <1>1, <2>2 DEF orgVars, Copied
  <2>5. ReportIsHonest'
    BY <1>1, <2>1, <2>4 DEF orgVars, OrgInv, ReportIsHonest, OrgEnded
  <2>6. QED  BY <2>3, <2>5 DEF OrgInv
<1>2. CASE OrgNext
  BY <1>2, Begin_Inv, Look_Inv, Interrupt_Inv, Analyze_Inv, SampleEnds_Inv, AnalysisEnds_Inv,
     Route_Inv, CopyOut_Inv, Rename_Inv DEF OrgNext
<1>3. QED  BY <1>1, <1>2

\* Over any number of runs, stops, failed rewrites of the cache and renamed folders,
\* every scanned image goes to one folder and a new folder has a new name, the cache
\* loses nothing, nothing it holds is classified again, and a report of success means
\* that every image is in the tree or named as an error (runOrganize, executeOrganize, AnalysisCache, assignImages, uniqueName).
THEOREM RunsAreSound == OrgSpec => []OrganizeRunIsSound
<1>1. OrgInv => OrganizeRunIsSound
  <2> SUFFICES ASSUME OrgInv PROVE OrganizeRunIsSound  OBVIOUS
  <2>1. FilingIsTotal  BY DEF OrgInv, FiledInv, FilingIsTotal
  <2>2. CacheIsKept  BY DEF OrgInv, StoreInv, CacheIsKept
  <2>3. NothingTwice  BY DEF OrgInv, AskedInv, NothingTwice
  <2>4. QED  BY <2>1, <2>2, <2>3 DEF OrgInv, OrganizeRunIsSound
<1>2. QED  BY <1>1, OrgInit_Inv, OrgStep_Inv, PTL DEF OrgSpec

-----------------------------------------------------------------------------
(* Clustering: the queue of candidate merges *)

\* A linkage gives any two sets of items the sum of the scores across them: that of a
\* pair is its score, it is symmetric and additive.
IsLinkage(W) ==
  /\ W \in [(SUBSET ClusterItems) \X (SUBSET ClusterItems) -> Nat]
  /\ \A p \in Pairs : W[<<{p[1]}, {p[2]}>>] = score[p]
  /\ \A A, B \in SUBSET ClusterItems : W[<<A, B>>] = W[<<B, A>>]
  /\ \A A, B, C \in SUBSET ClusterItems :
       A \cap B = {} => W[<<A \cup B, C>>] = W[<<A, C>>] + W[<<B, C>>]

LivingPairs == {p \in Pairs : p[1] \in Living /\ p[2] \in Living}
CountOf(p) == Cardinality(members[p[1]]) * Cardinality(members[p[2]])
Current(p) == Candidate(p, sums[p], CountOf(p), versions)

LinkTypes ==
  /\ linking \in {"off", "merge", "greedy", "linked"} /\ fellBack \in BOOLEAN
  /\ score \in [Pairs -> Nat] /\ sums \in [Pairs -> Nat]
  /\ members \in [ClusterItems -> SUBSET ClusterItems]
  /\ versions \in [ClusterItems -> Nat]
  /\ withTags \subseteq ClusterItems

\* The clusters part the items.
MembersPart ==
  /\ UNION {members[i] : i \in ClusterItems} = ClusterItems
  /\ \A i, j \in ClusterItems : i # j => members[i] \cap members[j] = {}

AtFirst ==
  /\ linking = "off" =>
       /\ members = [i \in ClusterItems |-> {i}] /\ versions = [i \in ClusterItems |-> 0]
       /\ greedyGroups = {}

Merging == linking \in {"merge", "linked"} /\ ~fellBack

\* Every candidate was current for its pair once, a fresh one still is, and what would be
\* merged is in the queue.
QueueInv ==
  Merging =>
    /\ IsFiniteSet(queue)
    /\ \A c \in queue :
         /\ <<c.left, c.right>> \in Pairs /\ c.sum \in Nat /\ c.count \in Nat \ {0}
         /\ c.leftVersion \in Nat /\ c.leftVersion <= versions[c.left]
         /\ c.rightVersion \in Nat /\ c.rightVersion <= versions[c.right]
         /\ Fresh(c) => c = Current(<<c.left, c.right>>)
    /\ \A p \in LivingPairs : Reaches(Current(p), TauFor(p)) => Current(p) \in queue

SumsInv ==
  Merging => \A W : IsLinkage(W) => \A p \in LivingPairs : sums[p] = W[<<members[p[1]], members[p[2]]>>]

GreedyInv ==
  /\ linking = "greedy" => fellBack
  /\ linking = "merge" => ~fellBack
  /\ \A g, h \in greedyGroups : g # h => g \cap h = {}
  /\ UNION greedyGroups \subseteq ClusterItems
  /\ linking = "linked" /\ fellBack => UNION greedyGroups = ClusterItems

LinkInv ==
  LinkTypes /\ MembersPart /\ AtFirst /\ QueueInv /\ SumsInv /\ GreedyInv

LEMMA ItemsAreNumbers ==
  /\ ClusterItems \subseteq Nat /\ IsFiniteSet(ClusterItems)
  /\ \A p \in Pairs : p[1] \in ClusterItems /\ p[2] \in ClusterItems /\ p = <<p[1], p[2]>>
  /\ \A a, b \in ClusterItems : a # b =>
       /\ Both(a, b) \in Pairs
       /\ Both(a, b) = <<a, b>> \/ Both(a, b) = <<b, a>>
<1>1. Cardinality(ClusterItems) \in Nat  BY ClusteringAssumption, FS_CardinalityType
<1>2. ClusterItems \subseteq Nat /\ IsFiniteSet(ClusterItems)
  BY <1>1, ClusteringAssumption
<1> QED BY <1>2 DEF Pairs, Both

LEMMA LinkInit_Inv == LinkInit => LinkInv
<1> SUFFICES ASSUME LinkInit PROVE LinkInv  OBVIOUS
<1>1. LinkTypes  BY ItemsAreNumbers DEF LinkInit, LinkTypes
<1>2. MembersPart  BY DEF LinkInit, MembersPart
<1>3. AtFirst  BY DEF LinkInit, AtFirst
<1>4. QueueInv /\ SumsInv  BY DEF LinkInit, QueueInv, SumsInv, Merging
<1>5. GreedyInv  BY DEF LinkInit, GreedyInv
<1> QED BY <1>1, <1>2, <1>3, <1>4, <1>5 DEF LinkInv

LEMMA Cluster_Inv == ASSUME LinkInv, Cluster PROVE LinkInv'
<1>1. /\ members = [i \in ClusterItems |-> {i}] /\ versions = [i \in ClusterItems |-> 0]
      /\ greedyGroups = {}
      /\ UNCHANGED <<members, versions, greedyGroups>>
      /\ score' \in [Pairs -> Nat] /\ sums' = score'
  BY ClusteringAssumption DEF LinkInv, AtFirst, Cluster
<1>2. PICK ceiling \in Ceilings :
       /\ fellBack' = (Cardinality(ClusterItems) > ceiling)
       /\ linking' = IF fellBack' THEN "greedy" ELSE "merge"
       /\ queue' = IF fellBack' THEN {}
                   ELSE {c \in {Candidate(p, score'[p], 1, versions) : p \in Pairs} :
                           Reaches(c, Floor)}
  BY DEF Cluster
<1>3. fellBack' \in BOOLEAN  BY <1>2
<1>4. LinkTypes'
  BY <1>1, <1>2, <1>3 DEF LinkInv, LinkTypes, Cluster
<1>5. MembersPart' /\ AtFirst' /\ GreedyInv'
  BY <1>1, <1>2, <1>3 DEF LinkInv, MembersPart, AtFirst, GreedyInv
<1>6. \A p \in Pairs : CountOf(p)' = 1
  <2> TAKE p \in Pairs
  <2>1. members'[p[1]] = {p[1]} /\ members'[p[2]] = {p[2]}  BY <1>1, ItemsAreNumbers
  <2>2. Cardinality(members'[p[1]]) = 1 /\ Cardinality(members'[p[2]]) = 1
    BY <2>1, FS_Singleton
  <2> QED BY <2>2 DEF CountOf
<1>7. ASSUME Merging' PROVE QueueInv' /\ SumsInv'
  <2>1. queue' = {c \in {Candidate(p, score'[p], 1, versions) : p \in Pairs} : Reaches(c, Floor)}
    BY <1>2, <1>7 DEF Merging
  <2>2. \A p \in Pairs : Current(p)' = Candidate(p, score'[p], 1, versions)
    BY <1>1, <1>6 DEF Current, Candidate
  <2>3. ASSUME NEW c \in queue'
        PROVE  /\ <<c.left, c.right>> \in Pairs /\ c.sum \in Nat /\ c.count \in Nat \ {0}
               /\ c.leftVersion \in Nat /\ c.leftVersion <= versions'[c.left]
               /\ c.rightVersion \in Nat /\ c.rightVersion <= versions'[c.right]
               /\ c = Current(<<c.left, c.right>>)'
    <3>1. PICK p \in Pairs : c = Candidate(p, score'[p], 1, versions)  BY <2>1, <2>3
    <3>2. c.left = p[1] /\ c.right = p[2] /\ <<p[1], p[2]>> = p
          /\ c.leftVersion = versions[p[1]] /\ c.rightVersion = versions[p[2]]
      BY <3>1, ItemsAreNumbers DEF Candidate
    <3>3. versions[p[1]] = 0 /\ versions[p[2]] = 0  BY <1>1, ItemsAreNumbers
    <3>4. c = Current(p)'  BY <2>2, <3>1
    <3>5. c.sum \in Nat /\ c.count = 1  BY <1>1, <3>1 DEF Candidate
    <3> QED BY <1>1, <3>2, <3>3, <3>4, <3>5
  <2>4. ASSUME NEW p \in LivingPairs', Reaches(Current(p)', TauFor(p)')
        PROVE  Current(p)' \in queue'
    <3>1. p \in Pairs  BY DEF LivingPairs
    <3>2. Current(p)' = Candidate(p, score'[p], 1, versions)  BY <2>2, <3>1
    <3>3. Reaches(Current(p)', Floor)
      <4>1. (Current(p)').sum = score'[p] /\ (Current(p)').count = 1  BY <3>2 DEF Candidate
      <4>2. TauFor(p)' \in {CombinedTau, FeatureOnlyTau}  BY DEF TauFor
      <4>3. score'[p] \in Nat /\ CombinedTau \in Nat /\ FeatureOnlyTau \in Nat
        BY <1>1, <3>1, ClusteringAssumption
      <4>4. score'[p] >= TauFor(p)' * 1  BY <2>4, <4>1 DEF Reaches
      <4>5. score'[p] >= Floor * 1
        BY <4>2, <4>3, <4>4 DEF Floor
      <4> QED BY <4>1, <4>5 DEF Reaches
    <3> QED BY <2>1, <3>1, <3>2, <3>3
  <2>8. IsFiniteSet(queue')
    <3>1. IsFiniteSet(Pairs)
      BY ItemsAreNumbers, FS_Product, FS_Subset DEF Pairs
    <3> DEFINE cand == [p \in Pairs |-> Candidate(p, score'[p], 1, versions)]
    <3>2. DOMAIN cand = Pairs /\ queue' \subseteq {cand[p] : p \in Pairs}  BY <2>1
    <3> HIDE DEF cand
    <3>3. IsFiniteSet({cand[p] : p \in Pairs})  BY <3>1, <3>2, ImageIsFinite
    <3> QED BY <3>2, <3>3, FS_Subset
  <2>5. QueueInv'  BY <2>3, <2>4, <2>8 DEF QueueInv
  <2>6. ASSUME NEW W, IsLinkage(W)', NEW p \in LivingPairs'
        PROVE  sums'[p] = W[<<members'[p[1]], members'[p[2]]>>]
    <3>1. p \in Pairs /\ p[1] \in ClusterItems /\ p[2] \in ClusterItems
      BY ItemsAreNumbers DEF LivingPairs
    <3>2. members'[p[1]] = {p[1]} /\ members'[p[2]] = {p[2]}  BY <1>1, <3>1
    <3>3. W[<<{p[1]}, {p[2]}>>] = score'[p]  BY <2>6, <3>1 DEF IsLinkage
    <3> QED BY <1>1, <3>2, <3>3
  <2>7. SumsInv'  BY <2>6 DEF SumsInv
  <2> QED BY <2>5, <2>7
<1>8. QueueInv' /\ SumsInv'  BY <1>7 DEF QueueInv, SumsInv
<1> QED BY <1>4, <1>5, <1>8 DEF LinkInv

-----------------------------------------------------------------------------
\* The best of the queue

LEMMA BestOfFinite ==
  ASSUME NEW Q, IsFiniteSet(Q), Q # {}, NEW R \in SUBSET (Q \X Q),
         \A c \in Q : <<c, c>> \notin R,
         \A c, d, e \in Q : <<c, d>> \in R /\ <<d, e>> \in R => <<c, e>> \in R
  PROVE  \E c \in Q : \A d \in Q : <<d, c>> \notin R
<1> DEFINE Above(c) == {d \in Q : <<d, c>> \in R}
           T == {Cardinality(Above(c)) : c \in Q}
<1>1. \A c \in Q : IsFiniteSet(Above(c)) /\ Cardinality(Above(c)) \in Nat
  BY FS_Subset, FS_CardinalityType
<1>2. T \in SUBSET Nat /\ T # {}
  <2> HIDE DEF Above
  <2> QED BY <1>1
<1>3. PICK n \in T : \A k \in T : n <= k
  <2> HIDE DEF T
  <2> QED BY <1>2, LeastNumber
<1>4. PICK c \in Q : n = Cardinality(Above(c))
  BY <1>3
<1>5. ASSUME NEW d \in Q, <<d, c>> \in R PROVE FALSE
  <2>1. Above(d) \subseteq Above(c) /\ d \in Above(c) /\ d \notin Above(d)
    BY <1>5
  <2>2. Above(d) # Above(c)
    BY <2>1
  <2>3. Cardinality(Above(d)) < Cardinality(Above(c))
    <3> HIDE DEF Above
    <3> QED BY <1>1, <2>1, <2>2, FS_Subset
  <2>4. Cardinality(Above(c)) <= Cardinality(Above(d))
    <3>1. Cardinality(Above(d)) \in T  OBVIOUS
    <3> HIDE DEF T, Above
    <3> QED BY <1>3, <1>4, <3>1
  <2>5. Cardinality(Above(c)) \in Nat /\ Cardinality(Above(d)) \in Nat  BY <1>1
  <2> HIDE DEF Above
  <2> QED BY <2>3, <2>4, <2>5
<1> QED BY <1>5

LEMMA TimesKeeps ==
  ASSUME NEW m \in Nat, NEW n \in Nat, NEW k \in Nat \ {0}
  PROVE  /\ m > n <=> m * k > n * k
         /\ m >= n <=> m * k >= n * k
         /\ m = n <=> m * k = n * k
  OBVIOUS

\* Means compared crosswise are ordered as means are.
LEMMA BeforeIsTransitive ==
  ASSUME NEW c, NEW d, NEW e, Before(c, d), Before(d, e),
         \A x \in {c, d, e} : /\ x.sum \in Nat /\ x.count \in Nat \ {0}
                              /\ x.left \in Nat /\ x.right \in Nat
  PROVE  Before(c, e)
<1> DEFINE cd == c.sum * d.count  dc == d.sum * c.count
           de == d.sum * e.count  ed == e.sum * d.count
           ce == c.sum * e.count  ec == e.sum * c.count
<1>1. /\ cd >= dc /\ de >= ed
      /\ (cd > dc \/ de > ed) \/ (cd = dc /\ de = ed)
  BY DEF Before
<1>2. /\ cd * e.count = ce * d.count
      /\ dc * e.count = de * c.count
      /\ ed * c.count = ec * d.count
  OBVIOUS
<1>3. /\ cd \in Nat /\ dc \in Nat /\ de \in Nat /\ ed \in Nat /\ ce \in Nat /\ ec \in Nat
  OBVIOUS
<1>4. /\ cd * e.count >= dc * e.count
      /\ de * c.count >= ed * c.count
      /\ cd > dc => cd * e.count > dc * e.count
      /\ de > ed => de * c.count > ed * c.count
      /\ cd = dc => cd * e.count = dc * e.count
      /\ de = ed => de * c.count = ed * c.count
  <2> HIDE DEF cd, dc, de, ed
  <2> QED BY <1>1, <1>3, TimesKeeps
<1>5. /\ ce * d.count >= ec * d.count
      /\ cd > dc \/ de > ed => ce * d.count > ec * d.count
      /\ cd = dc /\ de = ed => ce * d.count = ec * d.count
  <2> HIDE DEF cd, dc, de, ed, ce, ec
  <2>1. /\ cd * e.count \in Nat /\ dc * e.count \in Nat /\ ed * c.count \in Nat
    BY <1>3
  <2> QED BY <1>2, <1>4, <2>1
<1>6. /\ cd > dc \/ de > ed => ce > ec
      /\ cd = dc /\ de = ed => ce = ec
  <2> HIDE DEF cd, dc, de, ed, ce, ec
  <2> QED BY <1>3, <1>5, TimesKeeps
<1>7. CASE cd > dc \/ de > ed
  BY <1>6, <1>7 DEF Before
<1>8. CASE cd = dc /\ de = ed
  <2>1. ce = ec  BY <1>6, <1>8
  <2>2. /\ c.left < d.left \/ (c.left = d.left /\ c.right < d.right)
        /\ d.left < e.left \/ (d.left = e.left /\ d.right < e.right)
    BY <1>3, <1>8 DEF Before
  <2>3. c.left < e.left \/ (c.left = e.left /\ c.right < e.right)
    BY <2>2
  <2> QED BY <2>1, <2>3 DEF Before
<1> QED BY <1>1, <1>7, <1>8

LEMMA TopIsBest ==
  ASSUME IsFiniteSet(queue), queue # {},
         \A c \in queue : /\ <<c.left, c.right>> \in Pairs /\ c.sum \in Nat
                          /\ c.count \in Nat \ {0}
  PROVE  \E c \in queue : \A d \in queue : ~ Before(d, c)
<1> DEFINE R == {p \in queue \X queue : Before(p[1], p[2])}
<1>1. \A c \in queue : c.left \in Nat /\ c.right \in Nat
  BY ItemsAreNumbers DEF Pairs
<1>2. \A c \in queue : ~ Before(c, c)
  <2> TAKE c \in queue
  <2> HIDE DEF R
  <2>2. c.sum \in Nat /\ c.count \in Nat  OBVIOUS
  <2>1. c.sum * c.count \in Nat  BY <2>2
  <2> QED BY <1>1, <2>1 DEF Before
<1>3. \A c, d, e \in queue : Before(c, d) /\ Before(d, e) => Before(c, e)
  BY <1>1, BeforeIsTransitive
<1>4. \A c, d \in queue : <<c, d>> \in R <=> Before(c, d)
  OBVIOUS
<1>5. \E c \in queue : \A d \in queue : <<d, c>> \notin R
  <2>1. R \in SUBSET (queue \X queue)  OBVIOUS
  <2> HIDE DEF R
  <2> QED BY <1>2, <1>3, <1>4, <2>1, BestOfFinite
<1> QED BY <1>4, <1>5

-----------------------------------------------------------------------------
\* The steps

TheTop == CHOOSE c \in queue : \A d \in queue \ {c} : ~Before(d, c)

LEMMA TopIsThere ==
  ASSUME LinkInv, linking = "merge", queue # {}
  PROVE  TheTop \in queue /\ \A d \in queue \ {TheTop} : ~ Before(d, TheTop)
<1>1. Merging  BY DEF LinkInv, GreedyInv, Merging
<1>2. \E c \in queue : \A d \in queue : ~ Before(d, c)
  BY <1>1, TopIsBest DEF LinkInv, QueueInv
<1> QED BY <1>2 DEF TheTop

\* A threshold is at least the floor.
LEMMA ReachesFloor ==
  ASSUME NEW tau \in {CombinedTau, FeatureOnlyTau},
         NEW c, c.sum \in Nat, c.count \in Nat, Reaches(c, tau)
  PROVE  Reaches(c, Floor)
<1>1. tau \in Nat /\ Floor \in Nat /\ Floor <= tau
  BY ClusteringAssumption DEF Floor
<1>2. \A m, n, k \in Nat : m <= n => m * k <= n * k
  OBVIOUS
<1>3. Floor * c.count <= tau * c.count
  BY <1>1, <1>2
<1>4. Floor * c.count \in Nat /\ tau * c.count \in Nat
  BY <1>1
<1> QED BY <1>3, <1>4 DEF Reaches

LEMMA PairsOfLiving ==
  /\ \A p \in LivingPairs : /\ p \in Pairs /\ p[1] \in ClusterItems /\ p[2] \in ClusterItems
                            /\ p[1] \in Living /\ p[2] \in Living /\ p[1] # p[2]
                            /\ p = <<p[1], p[2]>>
  /\ Living \subseteq ClusterItems
<1>1. ASSUME NEW p \in Pairs PROVE p[1] # p[2]
  <2>1. p[1] \in Nat /\ p[2] \in Nat  BY ItemsAreNumbers
  <2>2. p[1] < p[2]  BY DEF Pairs
  <2> QED BY <2>1, <2>2
<1> QED BY <1>1, ItemsAreNumbers DEF LivingPairs, Living

CurrentTyped ==
  \A p \in LivingPairs :
    /\ Current(p).left = p[1] /\ Current(p).right = p[2]
    /\ Current(p).leftVersion = versions[p[1]] /\ Current(p).leftVersion \in Nat
    /\ Current(p).rightVersion = versions[p[2]] /\ Current(p).rightVersion \in Nat
    /\ Current(p).sum = sums[p] /\ Current(p).sum \in Nat
    /\ Current(p).count = CountOf(p) /\ Current(p).count \in Nat \ {0}

LEMMA CurrentIsTyped == LinkTypes => CurrentTyped
<1> SUFFICES ASSUME LinkTypes, NEW p \in LivingPairs
             PROVE  /\ Current(p).left = p[1] /\ Current(p).right = p[2]
                    /\ Current(p).leftVersion = versions[p[1]] /\ Current(p).leftVersion \in Nat
                    /\ Current(p).rightVersion = versions[p[2]] /\ Current(p).rightVersion \in Nat
                    /\ Current(p).sum = sums[p] /\ Current(p).sum \in Nat
                    /\ Current(p).count = CountOf(p) /\ Current(p).count \in Nat \ {0}
  BY DEF CurrentTyped
<1>1. /\ p \in Pairs /\ p[1] \in ClusterItems /\ p[2] \in ClusterItems
      /\ members[p[1]] # {} /\ members[p[2]] # {}
  BY PairsOfLiving DEF Living
<1>2. IsFiniteSet(members[p[1]]) /\ IsFiniteSet(members[p[2]])
  BY <1>1, ItemsAreNumbers, FS_Subset DEF LinkTypes
<1>3. /\ Cardinality(members[p[1]]) \in Nat \ {0} /\ Cardinality(members[p[2]]) \in Nat \ {0}
  BY <1>1, <1>2, FS_CardinalityType, FS_EmptySet
<1>4. CountOf(p) \in Nat \ {0}
  <2>1. \A m, n \in Nat \ {0} : m * n \in Nat \ {0}  OBVIOUS
  <2> QED BY <1>3, <2>1 DEF CountOf
<1> QED BY <1>1, <1>4 DEF Current, Candidate, LinkTypes

LEMMA SumsStay ==
  ASSUME SumsInv, Merging, UNCHANGED <<members, score, sums>>
  PROVE  SumsInv'
<1>1. LivingPairs' = LivingPairs  BY DEF LivingPairs, Living
<1>2. ASSUME NEW W, IsLinkage(W)' PROVE IsLinkage(W)  BY <1>2 DEF IsLinkage
<1>3. ASSUME NEW W, IsLinkage(W)', NEW p \in LivingPairs
      PROVE  sums'[p] = W[<<members'[p[1]], members'[p[2]]>>]
  <2>1. IsLinkage(W)  BY <1>2, <1>3
  <2>2. sums[p] = W[<<members[p[1]], members[p[2]]>>]  BY <2>1 DEF SumsInv
  <2> QED BY <2>2
<1> QED BY <1>1, <1>3 DEF SumsInv

LEMMA Linked_Inv == ASSUME LinkInv, Linked PROVE LinkInv'
<1>1. /\ linking = "merge" /\ queue = {} /\ linking' = "linked"
      /\ UNCHANGED <<score, withTags, members, sums, versions, queue, greedyGroups, fellBack>>
  BY DEF Linked
<1>2. Merging /\ Merging'  BY <1>1 DEF LinkInv, GreedyInv, Merging
<1>3. LinkTypes' /\ MembersPart' /\ AtFirst' /\ GreedyInv'
  BY <1>1 DEF LinkInv, LinkTypes, MembersPart, AtFirst, GreedyInv
<1>4. QueueInv'
  BY <1>1, <1>2 DEF LinkInv, QueueInv, LivingPairs, Living, Current, Candidate, CountOf, TauFor,
     BothCarryTagEvidence, TagMembers, Reaches, Fresh
<1>5. SumsInv'
  BY <1>1, <1>2, SumsStay DEF LinkInv
<1> QED BY <1>3, <1>4, <1>5 DEF LinkInv

LEMMA Place_Inv == ASSUME LinkInv, Place PROVE LinkInv'
<1>1. /\ linking = "greedy" /\ fellBack /\ fellBack' /\ linking' \in {"greedy", "linked"}
      /\ UNCHANGED <<score, withTags, members, sums, versions, queue, fellBack>>
      /\ linking' = "linked" => Placed' = ClusterItems
  BY DEF Place, LinkInv, GreedyInv
<1>2. ~ Merging'  BY <1>1 DEF Merging
<1>3. LinkTypes' /\ MembersPart' /\ AtFirst'
  BY <1>1 DEF LinkInv, LinkTypes, MembersPart, AtFirst
<1>4. QueueInv' /\ SumsInv'  BY <1>2 DEF QueueInv, SumsInv
<1>5. PICK i \in ClusterItems \ Placed :
        greedyGroups' \in {greedyGroups \cup {{i}}}
                            \cup {(greedyGroups \ {g}) \cup {g \cup {i}} : g \in greedyGroups}
  <2>1. Placed \subseteq ClusterItems /\ Placed # ClusterItems
    BY DEF Place, LinkInv, GreedyInv, Placed
  <2>2. Min(ClusterItems \ Placed) \in ClusterItems \ Placed
    <3>1. \E x \in ClusterItems \ Placed : \A y \in ClusterItems \ Placed : x <= y
      BY <2>1, ItemsAreNumbers, LeastNumber
    <3> QED BY <3>1 DEF Min
  <2> QED BY <2>2 DEF Place
<1>6. GreedyInv'
  <2>1. \A g \in greedyGroups : i \notin g  BY <1>5 DEF Placed
  <2>2. CASE greedyGroups' = greedyGroups \cup {{i}}
    <3>1. \A g, h \in greedyGroups' : g # h => g \cap h = {}
      <4> SUFFICES ASSUME NEW g \in greedyGroups', NEW h \in greedyGroups', g # h,
                          NEW x, x \in g, x \in h
                   PROVE  FALSE
        OBVIOUS
      <4>1. CASE g \in greedyGroups /\ h \in greedyGroups
        BY <4>1 DEF LinkInv, GreedyInv
      <4>2. CASE g = {i} /\ h \in greedyGroups  BY <2>1, <4>2
      <4>3. CASE h = {i} /\ g \in greedyGroups  BY <2>1, <4>3
      <4> QED BY <2>2, <4>1, <4>2, <4>3
    <3>2. UNION greedyGroups' \subseteq ClusterItems
      BY <2>2 DEF LinkInv, GreedyInv
    <3> QED BY <1>1, <3>1, <3>2 DEF GreedyInv, Placed
  <2>3. CASE greedyGroups' # greedyGroups \cup {{i}}
    <3>1. PICK g \in greedyGroups : greedyGroups' = (greedyGroups \ {g}) \cup {g \cup {i}}
      BY <1>5, <2>3
    <3>2. \A f, h \in greedyGroups' : f # h => f \cap h = {}
      <4> SUFFICES ASSUME NEW f \in greedyGroups', NEW h \in greedyGroups', f # h,
                          NEW x, x \in f, x \in h
                   PROVE  FALSE
        OBVIOUS
      <4>1. CASE f \in greedyGroups /\ h \in greedyGroups
        BY <4>1 DEF LinkInv, GreedyInv
      <4>2. CASE f = g \cup {i} /\ h \in greedyGroups /\ h # g
        BY <2>1, <4>2 DEF LinkInv, GreedyInv
      <4>3. CASE h = g \cup {i} /\ f \in greedyGroups /\ f # g
        BY <2>1, <4>3 DEF LinkInv, GreedyInv
      <4> QED BY <3>1, <4>1, <4>2, <4>3
    <3>3. UNION greedyGroups' \subseteq ClusterItems
      BY <3>1 DEF LinkInv, GreedyInv
    <3> QED BY <1>1, <3>2, <3>3 DEF GreedyInv, Placed
  <2> QED BY <2>2, <2>3
<1> QED BY <1>3, <1>4, <1>6 DEF LinkInv

LEMMA Drop_Inv ==
  ASSUME LinkInv, Pop, ~ (Fresh(TheTop) /\ Reaches(TheTop, TauFor(<<TheTop.left, TheTop.right>>)))
  PROVE  LinkInv'
<1>1. /\ linking = "merge" /\ queue # {} /\ queue' = queue \ {TheTop}
      /\ UNCHANGED <<members, sums, versions, linking, score, withTags, greedyGroups, fellBack>>
  BY DEF Pop, TheTop
<1>2. Merging /\ Merging'  BY <1>1 DEF LinkInv, GreedyInv, Merging
<1>3. LinkTypes' /\ MembersPart' /\ AtFirst' /\ GreedyInv'
  BY <1>1 DEF LinkInv, LinkTypes, MembersPart, AtFirst, GreedyInv
<1>4. SumsInv'
  BY <1>1, <1>2, SumsStay DEF LinkInv
<1>5. QueueInv'
  <2>1. /\ LivingPairs' = LivingPairs
        /\ \A p : Current(p)' = Current(p) /\ TauFor(p)' = TauFor(p)
        /\ \A c : Fresh(c)' = Fresh(c)
    BY <1>1 DEF LivingPairs, Living, Current, Candidate, CountOf, TauFor,
       BothCarryTagEvidence, TagMembers, Fresh
  <2>2. IsFiniteSet(queue')  BY <1>1, <1>2, FS_Subset DEF LinkInv, QueueInv
  <2>3. ASSUME NEW p \in LivingPairs, Reaches(Current(p), TauFor(p)) PROVE Current(p) # TheTop
    <3>1. Fresh(Current(p))
      BY PairsOfLiving, CurrentIsTyped DEF LinkInv, CurrentTyped, Fresh
    <3>2. <<Current(p).left, Current(p).right>> = p
      BY PairsOfLiving, CurrentIsTyped DEF LinkInv, CurrentTyped
    <3> QED BY <2>3, <3>1, <3>2
  <2>4. \A p \in LivingPairs' : Reaches(Current(p)', TauFor(p)') => Current(p)' \in queue'
    BY <1>1, <1>2, <2>1, <2>3 DEF LinkInv, QueueInv
  <2>5. \A c \in queue' :
          /\ <<c.left, c.right>> \in Pairs /\ c.sum \in Nat /\ c.count \in Nat \ {0}
          /\ c.leftVersion \in Nat /\ c.leftVersion <= versions'[c.left]
          /\ c.rightVersion \in Nat /\ c.rightVersion <= versions'[c.right]
          /\ Fresh(c)' => c = Current(<<c.left, c.right>>)'
    BY <1>1, <1>2, <2>1 DEF LinkInv, QueueInv
  <2> QED BY <2>2, <2>4, <2>5 DEF QueueInv, Reaches
<1> QED BY <1>3, <1>4, <1>5 DEF LinkInv

LEMMA Absorb_Inv ==
  ASSUME LinkInv, Pop, Fresh(TheTop), Reaches(TheTop, TauFor(<<TheTop.left, TheTop.right>>))
  PROVE  LinkInv'
<1> PICK s, a : s = TheTop.left /\ a = TheTop.right  OBVIOUS
<1> DEFINE others == Living \ {s, a}
           new == {Candidate(Both(s, o), sums'[Both(s, o)],
                             Cardinality(members'[s]) * Cardinality(members'[o]),
                             versions') : o \in others}
<1>1. /\ linking = "merge" /\ queue # {} /\ Absorb(s, a, queue \ {TheTop})
      /\ UNCHANGED <<linking, score, withTags, greedyGroups, fellBack>>
  BY DEF Pop, TheTop
<1>2. Merging /\ Merging'  BY <1>1 DEF LinkInv, GreedyInv, Merging
<1>3. /\ TheTop \in queue /\ <<s, a>> \in Pairs /\ s \in ClusterItems /\ a \in ClusterItems
      /\ s \in Living /\ a \in Living /\ s # a
  <2>1. TheTop \in queue  BY <1>1, TopIsThere
  <2>2. <<s, a>> \in Pairs  BY <1>2, <2>1 DEF LinkInv, QueueInv
  <2>3. s \in Living /\ a \in Living  BY DEF Fresh
  <2>4. <<s, a>> \in LivingPairs  BY <2>2, <2>3 DEF LivingPairs
  <2> QED BY <2>1, <2>2, <2>3, <2>4, PairsOfLiving
<1>4. /\ members' = [members EXCEPT ![s] = @ \cup members[a], ![a] = {}]
      /\ versions' = [versions EXCEPT ![s] = @ + 1]
      /\ sums' = [p \in Pairs |->
                    IF \E o \in others : p = Both(s, o)
                      THEN LET o == CHOOSE o \in others : p = Both(s, o) IN Added(s, a, o)
                      ELSE sums[p]]
      /\ queue' = (queue \ {TheTop}) \cup {c \in new : Reaches(c, Floor)}
  BY <1>1 DEF Absorb, NextVersion
<1> HIDE DEF new
<1>5. /\ members'[s] = members[s] \cup members[a] /\ members'[a] = {}
      /\ \A i \in ClusterItems \ {s, a} : members'[i] = members[i]
      /\ versions'[s] = versions[s] + 1
      /\ \A i \in ClusterItems \ {s} : versions'[i] = versions[i]
  BY <1>3, <1>4 DEF LinkInv, LinkTypes
<1>6. Living' = Living \ {a} /\ others \subseteq ClusterItems
  BY <1>3, <1>5 DEF Living
<1>7. \A o \in others : /\ Both(s, o) \in Pairs /\ Both(a, o) \in Pairs
                        /\ Both(s, o) = <<s, o>> \/ Both(s, o) = <<o, s>>
                        /\ Both(a, o) = <<a, o>> \/ Both(a, o) = <<o, a>>
  BY <1>3, <1>6, ItemsAreNumbers
<1>8. \A o \in others : sums'[Both(s, o)] = sums[Both(s, o)] + sums[Both(a, o)]
  <2> TAKE o \in others
  <2>1. \A q \in others : Both(s, q) = Both(s, o) => q = o
    BY <1>7
  <2>2. (CHOOSE q \in others : Both(s, o) = Both(s, q)) = o
    BY <2>1
  <2>3. sums'[Both(s, o)] = Added(s, a, CHOOSE q \in others : Both(s, o) = Both(s, q))
    BY <1>4, <1>7
  <2> QED BY <2>2, <2>3 DEF Added
<1>9. \A p \in Pairs : p[1] # s /\ p[2] # s => sums'[p] = sums[p]
  <2> TAKE p \in Pairs
  <2> HAVE p[1] # s /\ p[2] # s
  <2>1. ~ \E o \in others : p = Both(s, o)  BY <1>7
  <2> QED BY <1>4, <2>1
<1>10. \A p \in LivingPairs' :
          \/ p \in LivingPairs /\ p[1] \notin {s, a} /\ p[2] \notin {s, a}
          \/ \E o \in others : p = Both(s, o)
  <2> SUFFICES ASSUME NEW p \in LivingPairs', p[1] = s \/ p[2] = s
               PROVE  \E o \in others : p = Both(s, o)
    BY <1>6 DEF LivingPairs
  <2>1. /\ p \in Pairs /\ p = <<p[1], p[2]>> /\ p[1] \in ClusterItems /\ p[2] \in ClusterItems
        /\ p[1] \in Living \ {a} /\ p[2] \in Living \ {a}
    BY <1>6, ItemsAreNumbers DEF LivingPairs
  <2>2. p[1] < p[2] /\ p[1] \in Nat /\ p[2] \in Nat
    BY <2>1, ItemsAreNumbers DEF Pairs
  <2>3. CASE p[1] = s
    <3>1. p[2] \in others /\ p = Both(s, p[2])  BY <2>1, <2>2, <2>3 DEF Both
    <3> QED BY <3>1
  <2>4. CASE p[2] = s
    <3>1. p[1] \in others /\ p = Both(s, p[1])  BY <2>1, <2>2, <2>4 DEF Both
    <3> QED BY <3>1
  <2> QED BY <2>3, <2>4
<1>11. \A o \in others : /\ Both(s, o) \in LivingPairs /\ Both(s, o) \in LivingPairs'
                         /\ Both(a, o) \in LivingPairs
  BY <1>3, <1>6, <1>7 DEF LivingPairs
<1>12. LinkTypes'
  <2>1. members' \in [ClusterItems -> SUBSET ClusterItems]
    BY <1>3, <1>4 DEF LinkInv, LinkTypes
  <2>2. versions' \in [ClusterItems -> Nat]
    BY <1>3, <1>4 DEF LinkInv, LinkTypes
  <2>3. \A p \in Pairs : sums'[p] \in Nat
    <3> TAKE p \in Pairs
    <3>1. CASE \E o \in others : p = Both(s, o)
      BY <1>7, <1>8, <3>1 DEF LinkInv, LinkTypes
    <3>2. CASE ~ \E o \in others : p = Both(s, o)
      BY <1>4, <3>2 DEF LinkInv, LinkTypes
    <3> QED BY <3>1, <3>2
  <2>4. sums' \in [Pairs -> Nat]  BY <1>4, <2>3
  <2> QED BY <1>1, <2>1, <2>2, <2>4 DEF LinkInv, LinkTypes
<1>13. MembersPart'
  <2>1. UNION {members'[i] : i \in ClusterItems} = ClusterItems
    <3>1. \A x \in ClusterItems : \E i \in ClusterItems : x \in members'[i]
      <4> TAKE x \in ClusterItems
      <4>1. PICK i \in ClusterItems : x \in members[i]  BY DEF LinkInv, MembersPart
      <4> QED BY <1>3, <1>5, <4>1
    <3>2. \A i \in ClusterItems : members'[i] \subseteq ClusterItems
      BY <1>12 DEF LinkTypes
    <3> QED BY <3>1, <3>2
  <2>2. ASSUME NEW i \in ClusterItems, NEW j \in ClusterItems, i # j
        PROVE  members'[i] \cap members'[j] = {}
    <3>1. \A k, l \in ClusterItems : k # l => members[k] \cap members[l] = {}
      BY DEF LinkInv, MembersPart
    <3> QED BY <1>3, <1>5, <2>2, <3>1
  <2> QED BY <2>1, <2>2 DEF MembersPart
<1>14. AtFirst' /\ GreedyInv'
  BY <1>1 DEF LinkInv, AtFirst, GreedyInv
<1>15. SumsInv'
  <2> SUFFICES ASSUME NEW W, IsLinkage(W)', NEW p \in LivingPairs'
               PROVE  sums'[p] = W[<<members'[p[1]], members'[p[2]]>>]
    BY DEF SumsInv
  <2>1. IsLinkage(W)  BY <1>1 DEF IsLinkage
  <2>2. \A q \in LivingPairs : sums[q] = W[<<members[q[1]], members[q[2]]>>]
    BY <1>2, <2>1 DEF LinkInv, SumsInv
  <2>3. CASE p \in LivingPairs /\ p[1] \notin {s, a} /\ p[2] \notin {s, a}
    BY <1>5, <1>9, <2>2, <2>3, PairsOfLiving
  <2>4. ASSUME NEW o \in others, p = Both(s, o)
        PROVE  sums'[p] = W[<<members'[p[1]], members'[p[2]]>>]
    <3>1. /\ members[s] \in SUBSET ClusterItems /\ members[a] \in SUBSET ClusterItems
          /\ members[o] \in SUBSET ClusterItems /\ members'[o] = members[o]
          /\ members[s] \cap members[a] = {}
      BY <1>3, <1>5, <1>6 DEF LinkInv, LinkTypes, MembersPart
    <3>2. \A A, B \in SUBSET ClusterItems : W[<<A, B>>] = W[<<B, A>>]  BY <2>1 DEF IsLinkage
    <3>3. sums[Both(s, o)] = W[<<members[s], members[o]>>]
      <4> DEFINE q == Both(s, o)
      <4>1. sums[q] = W[<<members[q[1]], members[q[2]]>>]  BY <1>11, <2>2
      <4>2. q = <<s, o>> \/ q = <<o, s>>  BY <1>7
      <4> HIDE DEF q
      <4>3. W[<<members[o], members[s]>>] = W[<<members[s], members[o]>>]  BY <3>1, <3>2
      <4>4. sums[q] = W[<<members[s], members[o]>>]
        <5>1. CASE q = <<s, o>>  BY <4>1, <5>1
        <5>2. CASE q = <<o, s>>  BY <4>1, <4>3, <5>2
        <5> QED BY <4>2, <5>1, <5>2
      <4> QED BY <4>4 DEF q
    <3>4. sums[Both(a, o)] = W[<<members[a], members[o]>>]
      <4> DEFINE q == Both(a, o)
      <4>1. sums[q] = W[<<members[q[1]], members[q[2]]>>]  BY <1>11, <2>2
      <4>2. q = <<a, o>> \/ q = <<o, a>>  BY <1>7
      <4> HIDE DEF q
      <4>3. W[<<members[o], members[a]>>] = W[<<members[a], members[o]>>]  BY <3>1, <3>2
      <4>4. sums[q] = W[<<members[a], members[o]>>]
        <5>1. CASE q = <<a, o>>  BY <4>1, <5>1
        <5>2. CASE q = <<o, a>>  BY <4>1, <4>3, <5>2
        <5> QED BY <4>2, <5>1, <5>2
      <4> QED BY <4>4 DEF q
    <3>5. W[<<members[s] \cup members[a], members[o]>>]
            = W[<<members[s], members[o]>>] + W[<<members[a], members[o]>>]
      <4>1. \A A, B, C \in SUBSET ClusterItems :
              A \cap B = {} => W[<<A \cup B, C>>] = W[<<A, C>>] + W[<<B, C>>]
        BY <2>1 DEF IsLinkage
      <4> QED BY <3>1, <4>1
    <3>6. sums'[p] = W[<<members'[s], members'[o]>>]
      BY <1>5, <1>8, <2>4, <3>1, <3>3, <3>4, <3>5
    <3>7. W[<<members'[s], members'[o]>>] = W[<<members'[o], members'[s]>>]
      BY <1>5, <3>1, <3>2
    <3> QED BY <1>7, <2>4, <3>6, <3>7
  <2> QED BY <1>10, <2>3, <2>4
<1>16. ASSUME NEW p \in LivingPairs, p[1] \notin {s, a}, p[2] \notin {s, a}
       PROVE  Current(p)' = Current(p) /\ TauFor(p)' = TauFor(p)
  <2>1. /\ members'[p[1]] = members[p[1]] /\ members'[p[2]] = members[p[2]]
        /\ versions'[p[1]] = versions[p[1]] /\ versions'[p[2]] = versions[p[2]]
        /\ sums'[p] = sums[p]
    BY <1>5, <1>9, <1>16, PairsOfLiving
  <2>2. TauFor(p)' = TauFor(p)
    BY <1>1, <2>1 DEF TauFor, BothCarryTagEvidence, TagMembers
  <2> QED BY <2>1, <2>2 DEF Current, Candidate, CountOf
<1>17. \A o \in others :
         Current(Both(s, o))' = Candidate(Both(s, o), sums'[Both(s, o)],
                             Cardinality(members'[s]) * Cardinality(members'[o]), versions')
  <2> TAKE o \in others
  <2>1. IsFiniteSet(members'[s]) /\ IsFiniteSet(members'[o])
    BY <1>3, <1>6, <1>12, ItemsAreNumbers, FS_Subset DEF LinkTypes
  <2>2. Cardinality(members'[s]) \in Nat /\ Cardinality(members'[o]) \in Nat
    BY <2>1, FS_CardinalityType
  <2>3. \A m, n \in Nat : m * n = n * m  OBVIOUS
  <2>4. CountOf(Both(s, o))' = Cardinality(members'[s]) * Cardinality(members'[o])
    BY <1>7, <2>2, <2>3 DEF CountOf
  <2> QED BY <2>4 DEF Current
<1>19. CurrentTyped'
  <2>1. LinkTypes' => CurrentTyped'  BY CurrentIsTyped, PTL
  <2> QED BY <1>12, <2>1
<1>18. QueueInv'
  <2>1. IsFiniteSet(queue')
    <3>1. IsFiniteSet(others)
      BY <1>6, ItemsAreNumbers, FS_Subset
    <3> DEFINE cand == [o \in others |-> Candidate(Both(s, o), sums'[Both(s, o)],
                             Cardinality(members'[s]) * Cardinality(members'[o]), versions')]
    <3>2. DOMAIN cand = others /\ new = {cand[o] : o \in others}  BY DEF new
    <3> HIDE DEF cand
    <3>3. IsFiniteSet(new)  BY <3>1, <3>2, ImageIsFinite
    <3>4. IsFiniteSet(queue \ {TheTop}) /\ IsFiniteSet({c \in new : Reaches(c, Floor)})
      BY <1>2, <3>3, FS_Subset DEF LinkInv, QueueInv
    <3> QED BY <1>4, <3>4, FS_Union
  <2>2. ASSUME NEW c \in queue, c # TheTop
        PROVE  /\ <<c.left, c.right>> \in Pairs /\ c.sum \in Nat /\ c.count \in Nat \ {0}
               /\ c.leftVersion \in Nat /\ c.leftVersion <= versions'[c.left]
               /\ c.rightVersion \in Nat /\ c.rightVersion <= versions'[c.right]
               /\ Fresh(c)' => c = Current(<<c.left, c.right>>)'
    <3>1. /\ <<c.left, c.right>> \in Pairs /\ c.sum \in Nat /\ c.count \in Nat \ {0}
          /\ c.leftVersion \in Nat /\ c.leftVersion <= versions[c.left]
          /\ c.rightVersion \in Nat /\ c.rightVersion <= versions[c.right]
          /\ Fresh(c) => c = Current(<<c.left, c.right>>)
      BY <1>2 DEF LinkInv, QueueInv
    <3>2. c.left \in ClusterItems /\ c.right \in ClusterItems  BY <3>1, ItemsAreNumbers
    <3>3. \A i \in ClusterItems : versions[i] \in Nat /\ versions[i] <= versions'[i]
      BY <1>3, <1>5 DEF LinkInv, LinkTypes
    <3>4. c.leftVersion <= versions'[c.left] /\ c.rightVersion <= versions'[c.right]
      BY <1>12, <3>1, <3>2, <3>3 DEF LinkTypes
    <3>5. ASSUME Fresh(c)' PROVE c = Current(<<c.left, c.right>>)'
      <4>1. /\ c.left \in Living \ {a} /\ c.right \in Living \ {a}
            /\ versions'[c.left] = c.leftVersion /\ versions'[c.right] = c.rightVersion
        BY <1>6, <3>5 DEF Fresh
      <4>2. c.left # s /\ c.right # s
        BY <1>3, <1>5, <3>1, <3>3, <4>1
      <4>3. Fresh(c)
        BY <1>5, <3>2, <4>1, <4>2 DEF Fresh
      <4>4. <<c.left, c.right>> \in LivingPairs
        BY <3>1, <4>1 DEF LivingPairs
      <4>5. Current(<<c.left, c.right>>)' = Current(<<c.left, c.right>>)
        BY <1>16, <4>1, <4>2, <4>4
      <4> QED BY <3>1, <4>3, <4>5
    <3> QED BY <3>1, <3>4, <3>5
  <2>3. ASSUME NEW c \in new
        PROVE  /\ <<c.left, c.right>> \in Pairs /\ c.sum \in Nat /\ c.count \in Nat \ {0}
               /\ c.leftVersion \in Nat /\ c.leftVersion <= versions'[c.left]
               /\ c.rightVersion \in Nat /\ c.rightVersion <= versions'[c.right]
               /\ Fresh(c)' => c = Current(<<c.left, c.right>>)'
    <3>1. PICK o \in others : c = Current(Both(s, o))'
      BY <1>17 DEF new
    <3> DEFINE p == Both(s, o)
    <3>2. p \in LivingPairs'  BY <1>11
    <3> HIDE DEF p
    <3>3. /\ Current(p)'.left = p[1] /\ Current(p)'.right = p[2]
          /\ Current(p)'.leftVersion = versions'[p[1]] /\ Current(p)'.leftVersion \in Nat
          /\ Current(p)'.rightVersion = versions'[p[2]] /\ Current(p)'.rightVersion \in Nat
          /\ Current(p)'.sum \in Nat /\ Current(p)'.count \in Nat \ {0}
      BY <1>19, <3>2 DEF CurrentTyped
    <3>4. p \in Pairs /\ p = <<p[1], p[2]>>  BY <3>2, ItemsAreNumbers DEF LivingPairs
    <3>5. c = Current(p)'  BY <3>1 DEF p
    <3> QED BY <3>3, <3>4, <3>5
  <2>4. ASSUME NEW p \in LivingPairs', Reaches(Current(p)', TauFor(p)')
        PROVE  Current(p)' \in queue'
    <3>1. CASE p \in LivingPairs /\ p[1] \notin {s, a} /\ p[2] \notin {s, a}
      <4>1. Current(p)' = Current(p) /\ TauFor(p)' = TauFor(p)  BY <1>16, <3>1
      <4>2. Current(p) \in queue
        BY <1>2, <2>4, <3>1, <4>1 DEF LinkInv, QueueInv
      <4>3. Current(p).left = p[1]
        BY <3>1, CurrentIsTyped DEF LinkInv, CurrentTyped
      <4>4. Current(p) # TheTop  BY <3>1, <4>3
      <4> QED BY <1>4, <4>1, <4>2, <4>4
    <3>2. CASE \E o \in others : p = Both(s, o)
      <4>1. PICK o \in others : p = Both(s, o)  BY <3>2
      <4>2. Current(p)' \in new  BY <1>17, <4>1 DEF new
      <4>3. Current(p)'.sum \in Nat /\ Current(p)'.count \in Nat
        BY <1>19 DEF CurrentTyped
      <4>4. Reaches(Current(p)', Floor)
        <5>1. TauFor(p)' \in {CombinedTau, FeatureOnlyTau}  BY DEF TauFor
        <5> QED BY <2>4, <4>3, <5>1, ReachesFloor
      <4> QED BY <1>4, <4>2, <4>4
    <3> QED BY <1>10, <3>1, <3>2
  <2>5. \A c \in queue' : (c \in queue /\ c # TheTop) \/ c \in new
    BY <1>4
  <2> QED BY <2>1, <2>2, <2>3, <2>4, <2>5 DEF QueueInv, Reaches
<1> QED BY <1>12, <1>13, <1>14, <1>15, <1>18 DEF LinkInv

LEMMA LinkStep_Inv == LinkInv /\ [LinkNext]_linkVars => LinkInv'
<1> SUFFICES ASSUME LinkInv, [LinkNext]_linkVars PROVE LinkInv'  OBVIOUS
<1>1. CASE Cluster  BY <1>1, Cluster_Inv
<1>2. CASE Pop  BY <1>2, Drop_Inv, Absorb_Inv
<1>3. CASE Linked  BY <1>3, Linked_Inv
<1>4. CASE Place  BY <1>4, Place_Inv
<1>5. CASE UNCHANGED linkVars
  <2>1. /\ UNCHANGED <<linking, score, withTags, members, sums, versions, queue, greedyGroups,
                       fellBack>>
    BY <1>5 DEF linkVars
  <2>2. Merging' <=> Merging  BY <2>1 DEF Merging
  <2>3. LinkTypes' /\ MembersPart' /\ AtFirst' /\ GreedyInv'
    BY <2>1 DEF LinkInv, LinkTypes, MembersPart, AtFirst, GreedyInv
  <2>4. QueueInv'
    BY <2>1, <2>2 DEF LinkInv, QueueInv, LivingPairs, Living, Current, Candidate, CountOf, TauFor,
       BothCarryTagEvidence, TagMembers, Reaches, Fresh
  <2>5. SumsInv'
    <3>1. CASE Merging  BY <2>1, <3>1, SumsStay DEF LinkInv
    <3>2. CASE ~ Merging  BY <2>2, <3>2 DEF SumsInv
    <3> QED BY <3>1, <3>2
  <2> QED BY <2>3, <2>4, <2>5 DEF LinkInv
<1> QED BY <1>1, <1>2, <1>3, <1>4, <1>5 DEF LinkNext

LEMMA LinkInvariance == LinkSpec => []LinkInv
  BY LinkInit_Inv, LinkStep_Inv, PTL DEF LinkSpec

\* The pairs of clusters a merge from scratch would consider, by a linkage.
MergeableBy(W) ==
  {p \in LivingPairs : W[<<members[p[1]], members[p[2]]>>] >= TauFor(p) * CountOf(p)}

\* QueueIsExact, with any linkage in the place of the sum over pairs.
QueueIsExactBy(W) ==
  Merging =>
    {<<<<c.left, c.right>>, c.sum>> : c \in {d \in queue :
        Fresh(d) /\ Reaches(d, TauFor(<<d.left, d.right>>))}}
      = {<<p, W[<<members[p[1]], members[p[2]]>>]>> : p \in MergeableBy(W)}

\* Whatever the scores, the fresh candidates of the lazily kept queue that reach their
\* thresholds are exactly the pairs of clusters that a merge from scratch would consider,
\* with their sums (agglomerateGroups, absorbCluster).
THEOREM QueuesAreExact ==
  LinkSpec => [](\A W : IsLinkage(W) => QueueIsExactBy(W))
<1>1. ASSUME LinkInv, NEW W, IsLinkage(W), Merging
      PROVE  {<<<<c.left, c.right>>, c.sum>> : c \in {d \in queue :
                 Fresh(d) /\ Reaches(d, TauFor(<<d.left, d.right>>))}}
               = {<<p, W[<<members[p[1]], members[p[2]]>>]>> : p \in MergeableBy(W)}
  <2> DEFINE L == {<<<<c.left, c.right>>, c.sum>> : c \in {d \in queue :
                 Fresh(d) /\ Reaches(d, TauFor(<<d.left, d.right>>))}}
             R == {<<p, W[<<members[p[1]], members[p[2]]>>]>> : p \in MergeableBy(W)}
  <2>1. CurrentTyped  BY <1>1, CurrentIsTyped DEF LinkInv
  <2>2. \A p \in LivingPairs : sums[p] = W[<<members[p[1]], members[p[2]]>>]
    BY <1>1 DEF LinkInv, SumsInv
  <2>3. \A p \in LivingPairs : p \in MergeableBy(W) <=> Reaches(Current(p), TauFor(p))
    BY <2>1, <2>2 DEF MergeableBy, Reaches, CurrentTyped
  <2>4. ASSUME NEW x \in L PROVE x \in R
    <3>1. PICK c \in queue : /\ Fresh(c) /\ Reaches(c, TauFor(<<c.left, c.right>>))
                             /\ x = <<<<c.left, c.right>>, c.sum>>
      OBVIOUS
    <3> DEFINE p == <<c.left, c.right>>
    <3>2. p \in LivingPairs /\ c = Current(p)
      BY <1>1, <3>1 DEF LinkInv, QueueInv, LivingPairs, Fresh
    <3> HIDE DEF p
    <3>3. c.sum = W[<<members[p[1]], members[p[2]]>>]
      BY <2>1, <2>2, <3>2 DEF CurrentTyped
    <3>4. p \in MergeableBy(W)  BY <2>3, <3>1, <3>2 DEF p
    <3>5. x = <<p, W[<<members[p[1]], members[p[2]]>>]>>  BY <3>1, <3>3 DEF p
    <3> QED BY <3>4, <3>5
  <2>5. ASSUME NEW x \in R PROVE x \in L
    <3>1. PICK p \in MergeableBy(W) : x = <<p, W[<<members[p[1]], members[p[2]]>>]>>
      OBVIOUS
    <3>2. p \in LivingPairs /\ Reaches(Current(p), TauFor(p))  BY <2>3 DEF MergeableBy
    <3>3. Current(p) \in queue  BY <1>1, <3>2 DEF LinkInv, QueueInv
    <3>4. <<Current(p).left, Current(p).right>> = p
      BY <2>1, <3>2, PairsOfLiving DEF CurrentTyped
    <3>5. Fresh(Current(p))  BY <2>1, <3>2, PairsOfLiving DEF CurrentTyped, Fresh
    <3>6. x = <<<<Current(p).left, Current(p).right>>, Current(p).sum>>
      BY <2>1, <2>2, <3>1, <3>2, <3>4 DEF CurrentTyped
    <3> QED BY <3>2, <3>3, <3>4, <3>5, <3>6
  <2> QED BY <2>4, <2>5
<1>2. LinkInv => \A W : IsLinkage(W) => QueueIsExactBy(W)
  BY <1>1 DEF QueueIsExactBy
<1> QED BY <1>2, LinkInvariance, PTL

\* What is merged, and in which order.
BestIsMerged ==
  \A p \in LivingPairs :
    members'[p[1]] # members[p[1]] /\ members'[p[2]] # members[p[2]] =>
      /\ Reaches(Current(p), TauFor(p))
      /\ \A q \in LivingPairs :
           Reaches(Current(q), TauFor(q)) => ~ Before(Current(q), Current(p))

\* Only a pair that reaches the threshold of its mode is merged, and no other pair that
\* does comes before it (agglomerateGroups, EarlierPair).
THEOREM MergesAreBest == LinkSpec => [][BestIsMerged]_linkVars
<1>1. ASSUME LinkInv, LinkNext PROVE BestIsMerged
  <2> SUFFICES ASSUME NEW p \in LivingPairs,
                      members'[p[1]] # members[p[1]], members'[p[2]] # members[p[2]]
               PROVE  /\ Reaches(Current(p), TauFor(p))
                      /\ \A q \in LivingPairs :
                           Reaches(Current(q), TauFor(q)) => ~ Before(Current(q), Current(p))
    BY DEF BestIsMerged
  <2>1. members' # members  OBVIOUS
  <2>2. /\ linking = "merge" /\ queue # {} /\ Fresh(TheTop)
        /\ Reaches(TheTop, TauFor(<<TheTop.left, TheTop.right>>))
        /\ members' = [members EXCEPT ![TheTop.left] = @ \cup members[TheTop.right],
                                      ![TheTop.right] = {}]
    BY <1>1, <2>1 DEF LinkNext, Cluster, Pop, Linked, Place, Absorb, TheTop
  <2>3. TheTop \in queue /\ \A d \in queue \ {TheTop} : ~ Before(d, TheTop)
    BY <1>1, <2>2, TopIsThere
  <2>4. Merging  BY <1>1, <2>2 DEF LinkInv, GreedyInv, Merging
  <2>5. /\ <<TheTop.left, TheTop.right>> \in Pairs
        /\ TheTop = Current(<<TheTop.left, TheTop.right>>)
    BY <1>1, <2>2, <2>3, <2>4 DEF LinkInv, QueueInv
  <2>6. p[1] \in {TheTop.left, TheTop.right} /\ p[2] \in {TheTop.left, TheTop.right}
    BY <1>1, <2>2, PairsOfLiving DEF LinkInv, LinkTypes
  <2>7. p = <<TheTop.left, TheTop.right>>
    <3>1. /\ TheTop.left \in Nat /\ TheTop.right \in Nat /\ TheTop.left < TheTop.right
      BY <2>5, ItemsAreNumbers DEF Pairs
    <3>2. p[1] \in Nat /\ p[2] \in Nat /\ p[1] < p[2] /\ p = <<p[1], p[2]>>
      BY PairsOfLiving, ItemsAreNumbers DEF Pairs
    <3> QED BY <2>6, <3>1, <3>2
  <2>8. TheTop = Current(p)  BY <2>5, <2>7
  <2>9. ASSUME NEW q \in LivingPairs, Reaches(Current(q), TauFor(q))
        PROVE  ~ Before(Current(q), Current(p))
    <3>1. Current(q) \in queue  BY <1>1, <2>4, <2>9 DEF LinkInv, QueueInv
    <3>2. CASE Current(q) # TheTop  BY <2>3, <2>8, <3>1, <3>2
    <3>3. CASE Current(q) = TheTop
      <4>1. /\ Current(p).sum \in Nat /\ Current(p).count \in Nat
            /\ Current(p).left \in Nat /\ Current(p).right \in Nat
        BY <1>1, CurrentIsTyped, PairsOfLiving, ItemsAreNumbers DEF CurrentTyped, LinkInv
      <4>2. Current(p).sum * Current(p).count \in Nat  BY <4>1
      <4> QED BY <2>8, <3>3, <4>1, <4>2 DEF Before
    <3> QED BY <3>2, <3>3
  <2> QED BY <2>2, <2>7, <2>8, <2>9
<1>2. LinkInv /\ [LinkNext]_linkVars => [BestIsMerged]_linkVars
  BY <1>1
<1> QED BY <1>2, LinkInvariance, PTL DEF LinkSpec

\* A clustering that is done has every item in one group, below the ceiling and above it
\* (agglomerateGroups, greedyGroups).
THEOREM GroupsPart == LinkSpec => []GroupsPartition
<1>1. ASSUME LinkInv PROVE GroupsPartition
  <2> SUFFICES ASSUME linking = "linked"
               PROVE  LET groups == IF fellBack THEN greedyGroups ELSE {members[i] : i \in Living}
                      IN /\ UNION groups = ClusterItems
                         /\ \A g, h \in groups : g # h => g \cap h = {}
    BY DEF GroupsPartition
  <2>1. CASE fellBack  BY <1>1, <2>1 DEF LinkInv, GreedyInv
  <2>2. CASE ~ fellBack
    <3>1. UNION {members[i] : i \in Living} = ClusterItems
      BY <1>1 DEF LinkInv, MembersPart, Living
    <3>2. \A g, h \in {members[i] : i \in Living} : g # h => g \cap h = {}
      BY <1>1 DEF LinkInv, MembersPart, Living
    <3> QED BY <2>2, <3>1, <3>2
  <2> QED BY <2>1, <2>2
<1> QED BY <1>1, LinkInvariance, PTL

-----------------------------------------------------------------------------
(* Sums over the subsets of a finite set *)

\* The element a fold takes next.
OneOf(T) == CHOOSE x \in T : TRUE

IsSum(f, S, w) == f = [T \in SUBSET S |-> IF T = {} THEN 0
                                          ELSE f[T \ {OneOf(T)}] + w[OneOf(T)]]

SumsUp(f, T, w) == f[T] = IF T = {} THEN 0 ELSE f[T \ {OneOf(T)}] + w[OneOf(T)]

LEMMA OneLess ==
  ASSUME NEW T, IsFiniteSet(T), NEW x \in T
  PROVE  /\ IsFiniteSet(T \ {x}) /\ Cardinality(T) \in Nat /\ Cardinality(T \ {x}) \in Nat
         /\ Cardinality(T \ {x}) = Cardinality(T) - 1
BY FS_RemoveElement, FS_CardinalityType

\* A sum over the subsets of a finite set, element by element, is well defined.
LEMMA SumExists ==
  ASSUME NEW S, IsFiniteSet(S), NEW w
  PROVE  \E f : IsSum(f, S, w)
<1> DEFINE UpTo(n) == \E f : /\ DOMAIN f = SUBSET S
                             /\ \A T \in SUBSET S : Cardinality(T) <= n => SumsUp(f, T, w)
           Bad == {n \in Nat : ~UpTo(n)}
<1>1. \A T \in SUBSET S : /\ IsFiniteSet(T) /\ Cardinality(T) \in Nat
                          /\ Cardinality(T) <= Cardinality(S)
  BY FS_Subset, FS_CardinalityType
<1>2. Bad = {}
  <2> SUFFICES ASSUME Bad # {} PROVE FALSE  OBVIOUS
  <2>1. PICK n \in Bad : \A k \in Bad : n <= k
    <3>1. Bad \in SUBSET Nat  OBVIOUS
    <3> HIDE DEF Bad
    <3> QED BY <3>1, LeastNumber
  <2>2. CASE n = 0
    <3> DEFINE f == [T \in SUBSET S |-> 0]
    <3>1. \A T \in SUBSET S : Cardinality(T) <= 0 => T = {}
      BY <1>1, FS_EmptySet
    <3>2. \A T \in SUBSET S : Cardinality(T) <= 0 => SumsUp(f, T, w)
      BY <3>1 DEF SumsUp
    <3>3. DOMAIN f = SUBSET S  OBVIOUS
    <3> HIDE DEF f
    <3>4. UpTo(0)  BY <3>2, <3>3
    <3> QED BY <3>4, <2>2
  <2>3. CASE n # 0
    <3>1. n - 1 \in Nat /\ n \in Nat  BY <2>3
    <3>2. UpTo(n - 1)
      <4>1. n - 1 \notin Bad
        <5> HIDE DEF Bad
        <5> QED BY <2>1, <3>1
      <4> QED BY <3>1, <4>1
    <3>3. PICK f : /\ DOMAIN f = SUBSET S
                   /\ \A T \in SUBSET S : Cardinality(T) <= n - 1 => SumsUp(f, T, w)
      BY <3>2
    <3> DEFINE g == [T \in SUBSET S |-> IF T = {} THEN 0
                                        ELSE f[T \ {OneOf(T)}] + w[OneOf(T)]]
    <3>4. ASSUME NEW T \in SUBSET S, Cardinality(T) <= n
          PROVE  SumsUp(g, T, w)
      <4>1. CASE T = {}  BY <4>1 DEF SumsUp
      <4>2. CASE T # {}
        <5> DEFINE V == T \ {OneOf(T)}
        <5>1. OneOf(T) \in T  BY <4>2 DEF OneOf
        <5>2. V \in SUBSET S /\ Cardinality(V) <= n - 1
          <6>1. Cardinality(V) = Cardinality(T) - 1 /\ Cardinality(T) \in Nat
            BY <1>1, <5>1, OneLess
          <6> QED BY <3>1, <3>4, <6>1
        <5>3. g[V] = f[V]  BY <3>3, <5>2 DEF SumsUp
        <5>4. g[T] = f[V] + w[OneOf(T)]  BY <4>2
        <5> HIDE DEF g
        <5> QED BY <4>2, <5>3, <5>4 DEF SumsUp
      <4> QED BY <4>1, <4>2
    <3>5. DOMAIN g = SUBSET S  OBVIOUS
    <3> HIDE DEF g
    <3>6. UpTo(n)  BY <3>4, <3>5
    <3> QED BY <3>6, <2>1
  <2> QED BY <2>2, <2>3
<1>3. UpTo(Cardinality(S))  BY <1>1, <1>2
<1>4. PICK f : DOMAIN f = SUBSET S /\ \A T \in SUBSET S : SumsUp(f, T, w)
  BY <1>1, <1>3
<1> DEFINE g == [T \in SUBSET S |-> f[T]]
<1>5. g = [T \in SUBSET S |-> IF T = {} THEN 0
                              ELSE g[T \ {OneOf(T)}] + w[OneOf(T)]]
  <2>1. \A T \in SUBSET S : g[T] = IF T = {} THEN 0
                              ELSE g[T \ {OneOf(T)}] + w[OneOf(T)]
    BY <1>4 DEF SumsUp
  <2>2. DOMAIN g = SUBSET S  OBVIOUS
  <2>3. g = [T \in SUBSET S |-> g[T]]  OBVIOUS
  <2> HIDE DEF g
  <2> QED BY <2>1, <2>3
<1>6. IsSum(g, S, w)  BY <1>5 DEF IsSum
<1> QED BY <1>6

\* Which element is taken first does not matter, nor what else is summed up.
LEMMA SumRemoves ==
  ASSUME NEW S, IsFiniteSet(S), NEW w, \A q \in S : w[q] \in Nat,
         NEW f, \A T \in SUBSET S : SumsUp(f, T, w)
  PROVE  \A T \in SUBSET S : f[T] \in Nat /\ \A x \in T : f[T] = f[T \ {x}] + w[x]
<1> DEFINE Good(T) == f[T] \in Nat /\ \A x \in T : f[T] = f[T \ {x}] + w[x]
           Bad == {T \in SUBSET S : ~Good(T)}
<1> SUFFICES ASSUME Bad # {} PROVE FALSE  OBVIOUS
<1>1. \A T \in SUBSET S : IsFiniteSet(T)  BY FS_Subset
<1>2. PICK T \in Bad : \A V \in Bad : Cardinality(T) <= Cardinality(V)
  <2>1. \A T \in Bad : IsFiniteSet(T)  BY <1>1
  <2> HIDE DEF Bad
  <2> QED BY <2>1, SmallestSet
<1>3. T \in SUBSET S /\ IsFiniteSet(T) /\ SumsUp(f, T, w)  BY <1>1
<1>4. \A x \in T : Good(T \ {x})
  <2> TAKE x \in T
  <2>1. Cardinality(T) \in Nat /\ Cardinality(T \ {x}) = Cardinality(T) - 1
    BY <1>3, OneLess
  <2>2. T \ {x} \in SUBSET S  BY <1>3
  <2>3. T \ {x} \notin Bad
    <3> HIDE DEF Bad
    <3> QED BY <1>2, <2>1
  <2> QED BY <2>2, <2>3
<1> DEFINE c == OneOf(T)
<1>5. CASE T = {}
  <2>1. f[T] = 0  BY <1>3, <1>5 DEF SumsUp
  <2> QED BY <1>2, <1>5, <2>1
<1>6. CASE T # {}
  <2>1. c \in T /\ f[T] = f[T \ {c}] + w[c]
    BY <1>3, <1>6 DEF SumsUp, OneOf
  <2> HIDE DEF c
  <2>2. f[T] \in Nat
    <3>1. f[T \ {c}] \in Nat  BY <1>4, <2>1
    <3>2. w[c] \in Nat  BY <1>3, <2>1
    <3> QED BY <2>1, <3>1, <3>2
  <2>3. ASSUME NEW x \in T PROVE f[T] = f[T \ {x}] + w[x]
    <3>1. CASE x = c  BY <2>1, <3>1
    <3>2. CASE x # c
      <4> DEFINE V == (T \ {c}) \ {x}
      <4>1. f[T \ {c}] = f[V] + w[x]  BY <1>4, <2>1, <3>2
      <4>2. (T \ {x}) \ {c} = V  OBVIOUS
      <4>3. f[T \ {x}] = f[V] + w[c]  BY <1>4, <2>1, <3>2, <4>2
      <4>4. f[V] \in Nat
        <5>1. f[(T \ {x}) \ {c}] \in Nat
          <6>1. V \in SUBSET S /\ IsFiniteSet(V)  BY <1>1, <1>3
          <6>2. Cardinality(V) < Cardinality(T)
            <7>1. /\ Cardinality(T) \in Nat /\ Cardinality(T \ {c}) = Cardinality(T) - 1
                  /\ IsFiniteSet(T \ {c})
              BY <1>3, <2>1, OneLess
            <7>2. Cardinality(V) = Cardinality(T \ {c}) - 1
              BY <3>2, <7>1, OneLess
            <7> HIDE DEF V
            <7> QED BY <7>1, <7>2
          <6>3. V \notin Bad
            <7>1. Cardinality(V) \in Nat /\ Cardinality(T) \in Nat
              BY <1>3, <6>1, FS_CardinalityType
            <7> HIDE DEF Bad, V
            <7> QED BY <1>2, <6>2, <7>1
          <6> QED BY <4>2, <6>1, <6>3
        <5> QED BY <4>2, <5>1
      <4>5. w[x] \in Nat /\ w[c] \in Nat  BY <1>3, <2>1
      <4> HIDE DEF V
      <4> QED BY <2>1, <4>1, <4>3, <4>4, <4>5
    <3> QED BY <3>1, <3>2
  <2> QED BY <1>2, <2>2, <2>3
<1> QED BY <1>5, <1>6

\* Laws of a sum over the subsets of a finite set, w the weight of each element.
SumLaws(F, S, w) ==
  /\ F \in [SUBSET S -> Nat] /\ F[{}] = 0 /\ \A q \in S : w[q] \in Nat
  /\ \A T \in SUBSET S : \A x \in T : F[T] = F[T \ {x}] + w[x]

LEMMA SumIsThere ==
  ASSUME NEW S, IsFiniteSet(S), NEW w, \A q \in S : w[q] \in Nat
  PROVE  \E F : SumLaws(F, S, w)
<1>1. PICK f : IsSum(f, S, w)  BY SumExists
<1>2. \A T \in SUBSET S : SumsUp(f, T, w)  BY <1>1 DEF SumsUp, IsSum
<1>3. \A T \in SUBSET S : f[T] \in Nat /\ \A x \in T : f[T] = f[T \ {x}] + w[x]
  BY <1>2, SumRemoves
<1>4. f[{}] = 0  BY <1>2 DEF SumsUp
<1>5. f = [T \in SUBSET S |-> f[T]]  BY <1>1 DEF IsSum
<1>6. f \in [SUBSET S -> Nat]  BY <1>3, <1>5
<1> QED BY <1>3, <1>4, <1>6 DEF SumLaws

\* A sum that is taken over a subset alone is the same.
LEMMA SumsAgree ==
  ASSUME NEW S, IsFiniteSet(S), NEW w, NEW F, SumLaws(F, S, w), NEW T \in SUBSET S,
         NEW g, \A V \in SUBSET T : SumsUp(g, V, w)
  PROVE  g[T] = F[T]
<1>1. IsFiniteSet(T) /\ \A q \in T : w[q] \in Nat  BY FS_Subset DEF SumLaws
<1>2. \A V \in SUBSET T : g[V] \in Nat /\ \A x \in V : g[V] = g[V \ {x}] + w[x]
  <2>1. ASSUME NEW A, IsFiniteSet(A), \A q \in A : w[q] \in Nat,
               \A V \in SUBSET A : SumsUp(g, V, w)
        PROVE  \A V \in SUBSET A : g[V] \in Nat /\ \A x \in V : g[V] = g[V \ {x}] + w[x]
    BY <2>1, SumRemoves
  <2> QED BY <1>1, <2>1
<1> DEFINE Bad == {V \in SUBSET T : g[V] # F[V]}
<1> SUFFICES ASSUME Bad # {} PROVE FALSE  OBVIOUS
<1>3. PICK V \in Bad : \A W \in Bad : Cardinality(V) <= Cardinality(W)
  <2>1. \A V \in Bad : IsFiniteSet(V)  BY <1>1, FS_Subset
  <2> HIDE DEF Bad
  <2> QED BY <2>1, SmallestSet
<1>4. V \in SUBSET T /\ g[V] # F[V] /\ IsFiniteSet(V)  BY <1>1, FS_Subset
<1>5. V # {}
  <2>1. g[{}] = 0 /\ F[{}] = 0  BY DEF SumsUp, SumLaws
  <2> QED BY <1>4, <2>1
<1>6. PICK x \in V : TRUE  BY <1>5
<1>7. V \ {x} \notin Bad
  <2>1. Cardinality(V) \in Nat /\ Cardinality(V \ {x}) = Cardinality(V) - 1
    BY <1>4, OneLess
  <2> HIDE DEF Bad
  <2> QED BY <1>3, <2>1
<1>8. g[V \ {x}] = F[V \ {x}]  BY <1>4, <1>7
<1>9. g[V] = g[V \ {x}] + w[x]  BY <1>2, <1>4
<1>10. F[V] = F[V \ {x}] + w[x]  BY <1>4 DEF SumLaws
<1> QED BY <1>4, <1>8, <1>9, <1>10

LEMMA SumOfBoth ==
  ASSUME NEW S, IsFiniteSet(S), NEW w, NEW F, SumLaws(F, S, w),
         NEW A \in SUBSET S, NEW B \in SUBSET S, A \cap B = {}
  PROVE  F[A \cup B] = F[A] + F[B]
<1> DEFINE Bad == {V \in SUBSET B : F[A \cup V] # F[A] + F[V]}
<1> SUFFICES ASSUME Bad # {} PROVE FALSE  OBVIOUS
<1>1. PICK V \in Bad : \A W \in Bad : Cardinality(V) <= Cardinality(W)
  <2>1. \A V \in Bad : IsFiniteSet(V)  BY FS_Subset
  <2> HIDE DEF Bad
  <2> QED BY <2>1, SmallestSet
<1>2. V \in SUBSET B /\ F[A \cup V] # F[A] + F[V] /\ IsFiniteSet(V)  BY FS_Subset
<1>3. F[A] \in Nat /\ F[{}] = 0 /\ F[V] \in Nat  BY <1>2 DEF SumLaws
<1>4. V # {}
  <2>1. A \cup {} = A  OBVIOUS
  <2>2. F[A \cup {}] = F[A] + F[{}]  BY <1>3, <2>1
  <2> QED BY <1>2, <2>2
<1>5. PICK x \in V : TRUE  BY <1>4
<1> DEFINE V1 == V \ {x}
<1>6. V1 \in SUBSET B /\ F[A \cup V1] = F[A] + F[V1]
  <2>1. Cardinality(V) \in Nat /\ Cardinality(V1) = Cardinality(V) - 1
    BY <1>2, OneLess
  <2>2. V1 \notin Bad
    <3> HIDE DEF Bad, V1
    <3> QED BY <1>1, <2>1
  <2> QED BY <1>2, <2>2
<1>7. F[V] = F[V1] + w[x]  BY <1>2 DEF SumLaws
<1>8. F[A \cup V] = F[A \cup V1] + w[x]
  <2>1. A \cup V \in SUBSET S /\ x \in A \cup V  BY <1>2
  <2>2. (A \cup V) \ {x} = A \cup V1  BY <1>2
  <2> HIDE DEF V1
  <2> QED BY <2>1, <2>2 DEF SumLaws
<1>9. F[V1] \in Nat /\ w[x] \in Int
  <2>1. F[V1] \in Nat  BY <1>6 DEF SumLaws
  <2>2. w[x] \in Nat  BY <1>2 DEF SumLaws
  <2> QED BY <2>1, <2>2
<1> HIDE DEF V1
<1> QED BY <1>2, <1>3, <1>6, <1>7, <1>8, <1>9

-----------------------------------------------------------------------------
(* The sum of the cross scores is a linkage *)

\* The sum of the scores of a set of pairs of items, as CrossSum takes it.
ScoreSum(S) == FoldSet(LAMBDA q, acc : acc + score[Both(q[1], q[2])], 0, S)
ScoreOf(q) == score[Both(q[1], q[2])]
ScoresIn(S) == [q \in S |-> ScoreOf(q)]

LEMMA ScoreSumIsSum ==
  ASSUME NEW S, IsFiniteSet(S), NEW F, SumLaws(F, S, ScoresIn(S)), NEW T \in SUBSET S
  PROVE  ScoreSum(T) = F[T]
<1> DEFINE w == ScoresIn(S)
           g == CHOOSE g : g = [V \in SUBSET T |-> IF V = {} THEN 0
                                  ELSE g[V \ {OneOf(V)}] + ScoreOf(OneOf(V))]
<1>1. \A V \in SUBSET T : V # {} => w[OneOf(V)] = ScoreOf(OneOf(V))
  BY DEF OneOf, ScoresIn
<1>2. \E h : h = [V \in SUBSET T |-> IF V = {} THEN 0
                                     ELSE h[V \ {OneOf(V)}] + ScoreOf(OneOf(V))]
  <2>1. IsFiniteSet(T)  BY FS_Subset
  <2> HIDE DEF w
  <2>2. PICK h : IsSum(h, T, w)  BY <2>1, SumExists
  <2>3. h = [V \in SUBSET T |-> IF V = {} THEN 0
                                ELSE h[V \ {OneOf(V)}] + ScoreOf(OneOf(V))]
    BY <1>1, <2>2 DEF IsSum
  <2> QED BY <2>3
<1>3. g = [V \in SUBSET T |-> IF V = {} THEN 0 ELSE g[V \ {OneOf(V)}] + ScoreOf(OneOf(V))]
  BY <1>2
<1>4. ScoreSum(T) = g[T]
  BY DEF ScoreSum, FoldSet, MapThenFoldSet, OneOf, ScoreOf
<1> HIDE DEF g, w
<1>5. \A V \in SUBSET T : SumsUp(g, V, w)  BY <1>1, <1>3 DEF SumsUp
<1>6. SumLaws(F, S, w)  BY DEF w
<1> QED BY <1>4, <1>5, <1>6, SumsAgree

\* The pairs, told the other way round.
Turned(A) == {<<q[2], q[1]>> : q \in A}

\* A pair has one score, whichever of the two items is named first.
LEMMA SumTurned ==
  ASSUME NEW S, IsFiniteSet(S), NEW F, SumLaws(F, S, ScoresIn(S)),
         S \subseteq ClusterItems \X ClusterItems, \A q \in S : q[1] # q[2],
         NEW A \in SUBSET S, Turned(S) \subseteq S
  PROVE  F[Turned(A)] = F[A]
<1> DEFINE Bad == {V \in SUBSET A : F[Turned(V)] # F[V]}
<1> SUFFICES ASSUME Bad # {} PROVE FALSE  OBVIOUS
<1>1. PICK V \in Bad : \A W \in Bad : Cardinality(V) <= Cardinality(W)
  <2>1. \A V \in Bad : IsFiniteSet(V)  BY FS_Subset
  <2> HIDE DEF Bad
  <2> QED BY <2>1, SmallestSet
<1>2. V \in SUBSET A /\ F[Turned(V)] # F[V] /\ IsFiniteSet(V)  BY FS_Subset
<1>3. V # {}
  <2>1. Turned({}) = {}  BY DEF Turned
  <2> QED BY <1>2, <2>1
<1>4. PICK x \in V : TRUE  BY <1>3
<1> DEFINE V1 == V \ {x}
           y == <<x[2], x[1]>>
<1>5. V1 \in SUBSET A /\ F[Turned(V1)] = F[V1]
  <2>1. Cardinality(V) \in Nat /\ Cardinality(V1) = Cardinality(V) - 1
    BY <1>2, OneLess
  <2>2. V1 \notin Bad
    <3> HIDE DEF Bad, V1
    <3> QED BY <1>1, <2>1
  <2> QED BY <1>2, <2>2
<1>6. F[V] = F[V1] + ScoreOf(x)
  <2>1. ScoresIn(S)[x] = ScoreOf(x)  BY <1>2 DEF ScoresIn
  <2> QED BY <1>2, <2>1 DEF SumLaws
<1>7. x = <<x[1], x[2]>> /\ x[1] # x[2] /\ x[1] \in Nat /\ x[2] \in Nat
  BY <1>2, ItemsAreNumbers
<1>8. ScoreOf(y) = ScoreOf(x)  BY <1>7 DEF ScoreOf, Both
<1>9. Turned(V) \in SUBSET S  BY <1>2 DEF Turned
<1>10. y \in Turned(V) /\ Turned(V) \ {y} = Turned(V1)
  <2>1. \A q \in V : q = <<q[1], q[2]>>  BY <1>2
  <2> QED BY <1>7, <2>1 DEF Turned
<1>11. F[Turned(V)] = F[Turned(V1)] + ScoreOf(y)
  <2>1. ScoresIn(S)[y] = ScoreOf(y)  BY <1>9, <1>10 DEF ScoresIn
  <2> HIDE DEF y, V1
  <2> QED BY <1>9, <1>10, <2>1 DEF SumLaws
<1> HIDE DEF y, V1
<1> QED BY <1>2, <1>5, <1>6, <1>8, <1>11

\* The pairs across two sets of items; an item is no pair with itself.
Across(A, B) == {q \in A \X B : q[1] # q[2]}

SumAcross(F) == [ab \in (SUBSET ClusterItems) \X (SUBSET ClusterItems) |-> F[Across(ab[1], ab[2])]]

LEMMA SumIsLinkage ==
  ASSUME score \in [Pairs -> Nat]
  PROVE  \E W : IsLinkage(W)
                /\ \A A, B \in SUBSET ClusterItems : A \cap B = {} =>
                     ScoreSum(A \X B) = W[<<A, B>>]
<1> DEFINE S == Across(ClusterItems, ClusterItems)
<1>1. IsFiniteSet(S) /\ \A q \in S : ScoreOf(q) \in Nat
  <2>1. IsFiniteSet(ClusterItems \X ClusterItems)  BY ItemsAreNumbers, FS_Product
  <2>2. S \subseteq ClusterItems \X ClusterItems  BY DEF Across
  <2>3. IsFiniteSet(S)  BY <2>1, <2>2, FS_Subset
  <2>4. \A q \in S : ScoreOf(q) \in Nat
    BY ItemsAreNumbers DEF Across, ScoreOf
  <2> QED BY <2>3, <2>4
<1>2. PICK F : SumLaws(F, S, ScoresIn(S))
  <2> HIDE DEF S
  <2>1. \A q \in S : ScoresIn(S)[q] \in Nat  BY <1>1 DEF ScoresIn
  <2> QED BY <1>1, <2>1, SumIsThere
<1> DEFINE W == SumAcross(F)
<1>3. \A A, B \in SUBSET ClusterItems : Across(A, B) \in SUBSET S /\ W[<<A, B>>] = F[Across(A, B)]
  BY DEF Across, SumAcross
<1>4. W \in [(SUBSET ClusterItems) \X (SUBSET ClusterItems) -> Nat]
  <2>1. \A ab \in (SUBSET ClusterItems) \X (SUBSET ClusterItems) : F[Across(ab[1], ab[2])] \in Nat
    BY <1>2, <1>3 DEF SumLaws
  <2> QED BY <2>1 DEF SumAcross
<1>5. \A p \in Pairs : W[<<{p[1]}, {p[2]}>>] = score[p]
  <2> TAKE p \in Pairs
  <2>1. p[1] \in ClusterItems /\ p[2] \in ClusterItems /\ p = <<p[1], p[2]>> /\ p[1] < p[2]
        /\ p[1] \in Nat /\ p[2] \in Nat
    BY ItemsAreNumbers DEF Pairs
  <2>2. Across({p[1]}, {p[2]}) = {p}  BY <2>1 DEF Across
  <2>3. W[<<{p[1]}, {p[2]}>>] = F[{p}]  BY <1>3, <2>1, <2>2
  <2>4. p \in S  BY <2>1 DEF Across
  <2>5. F[{p}] = F[{}] + ScoreOf(p)
    <3>1. {p} \ {p} = {}  OBVIOUS
    <3>2. {p} \in SUBSET S /\ p \in {p}  BY <2>4
    <3>a. ScoresIn(S)[p] = ScoreOf(p)  BY <2>4 DEF ScoresIn
    <3>3. F[{p}] = F[{p} \ {p}] + ScoreOf(p)
      <4> HIDE DEF S
      <4> QED BY <1>2, <3>2, <3>a DEF SumLaws
    <3> QED BY <3>1, <3>3
  <2>6. ScoreOf(p) = score[p]  BY <2>1 DEF ScoreOf, Both
  <2>7. F[{}] = 0 /\ score[p] \in Nat  BY <1>2 DEF SumLaws
  <2> HIDE DEF W
  <2> QED BY <2>3, <2>5, <2>6, <2>7
<1>6. \A A, B \in SUBSET ClusterItems : W[<<A, B>>] = W[<<B, A>>]
  <2> TAKE A, B \in SUBSET ClusterItems
  <2>1. Turned(Across(A, B)) = Across(B, A)
    <3>1. \A q \in Across(A, B) : <<q[2], q[1]>> \in Across(B, A)  BY DEF Across
    <3>2. \A q \in Across(B, A) : <<q[2], q[1]>> \in Across(A, B) /\ q = <<q[1], q[2]>>
      BY DEF Across
    <3>3. \A q \in Across(B, A) : q \in Turned(Across(A, B))
      <4> TAKE q \in Across(B, A)
      <4> DEFINE r == <<q[2], q[1]>>
      <4>1. r \in Across(A, B) /\ q = <<r[2], r[1]>>  BY <3>2
      <4> QED BY <4>1 DEF Turned
    <3>4. \A q \in Turned(Across(A, B)) : q \in Across(B, A)  BY <3>1 DEF Turned
    <3> QED BY <3>3, <3>4
  <2>2. /\ S \subseteq ClusterItems \X ClusterItems /\ \A q \in S : q[1] # q[2]
        /\ Turned(S) \subseteq S
    BY DEF Across, Turned
  <2>3. F[Turned(Across(A, B))] = F[Across(A, B)]
    <3>1. Across(A, B) \in SUBSET S  BY <1>3
    <3> HIDE DEF S
    <3> QED BY <1>1, <1>2, <2>2, <3>1, SumTurned
  <2> HIDE DEF W
  <2> QED BY <1>3, <2>1, <2>3
<1>7. \A A, B, C \in SUBSET ClusterItems :
        A \cap B = {} => W[<<A \cup B, C>>] = W[<<A, C>>] + W[<<B, C>>]
  <2> TAKE A, B, C \in SUBSET ClusterItems
  <2> HAVE A \cap B = {}
  <2>1. Across(A \cup B, C) = Across(A, C) \cup Across(B, C)  BY DEF Across
  <2>2. Across(A, C) \cap Across(B, C) = {}  BY DEF Across
  <2>3. F[Across(A, C) \cup Across(B, C)] = F[Across(A, C)] + F[Across(B, C)]
    <3>1. Across(A, C) \in SUBSET S /\ Across(B, C) \in SUBSET S  BY <1>3
    <3> HIDE DEF S
    <3> QED BY <1>1, <1>2, <2>2, <3>1, SumOfBoth
  <2>4. A \cup B \in SUBSET ClusterItems  OBVIOUS
  <2>5. W[<<A \cup B, C>>] = F[Across(A \cup B, C)]  BY <1>3, <2>4
  <2> HIDE DEF W
  <2> QED BY <1>3, <2>1, <2>3, <2>5
<1>8. \A A, B \in SUBSET ClusterItems : A \cap B = {} => ScoreSum(A \X B) = W[<<A, B>>]
  <2> TAKE A, B \in SUBSET ClusterItems
  <2> HAVE A \cap B = {}
  <2>1. Across(A, B) = A \X B  BY DEF Across
  <2>2. A \X B \in SUBSET S  BY <1>3, <2>1
  <2>3. ScoreSum(A \X B) = F[A \X B]
    <3> HIDE DEF S
    <3> QED BY <1>1, <1>2, <2>2, ScoreSumIsSum
  <2> HIDE DEF W
  <2> QED BY <1>3, <2>1, <2>3
<1> HIDE DEF W
<1> QED BY <1>4, <1>5, <1>6, <1>7, <1>8 DEF IsLinkage

LEMMA TimesAssociates ==
  ASSUME NEW k \in Nat, NEW m \in Nat, NEW n \in Nat
  PROVE  k * (m * n) = k * m * n
OBVIOUS

\* QueueIsExact: the lazily kept queue stands for exactly the merges that a recomputation
\* of every mean from the scores would allow; and the groups part the items.
THEOREM LinkagesAreExact == LinkSpec => []LinkageIsExact
<1>1. ASSUME LinkInv, \A W : IsLinkage(W) => QueueIsExactBy(W), Merging
      PROVE  {<<<<c.left, c.right>>, c.sum>> : c \in {d \in queue :
                 Fresh(d) /\ Reaches(d, TauFor(<<d.left, d.right>>))}}
               = {<<p, CrossSum(p)>> : p \in Mergeable}
  <2>1. PICK W : /\ IsLinkage(W)
                 /\ \A A, B \in SUBSET ClusterItems : A \cap B = {} =>
                      ScoreSum(A \X B) = W[<<A, B>>]
    BY <1>1, SumIsLinkage DEF LinkInv, LinkTypes
  <2>2. \A p \in LivingPairs : CrossSum(p) = W[<<members[p[1]], members[p[2]]>>]
    <3> TAKE p \in LivingPairs
    <3>1. p[1] \in ClusterItems /\ p[2] \in ClusterItems /\ p[1] # p[2]
      <4>1. /\ p[1] \in ClusterItems /\ p[2] \in ClusterItems
            /\ p[1] \in Nat /\ p[2] \in Nat
        BY ItemsAreNumbers DEF LivingPairs
      <4>2. p[1] < p[2]  BY DEF LivingPairs, Pairs
      <4> QED BY <4>1, <4>2
    <3>2. /\ members[p[1]] \in SUBSET ClusterItems /\ members[p[2]] \in SUBSET ClusterItems
          /\ members[p[1]] \cap members[p[2]] = {}
      BY <1>1, <3>1 DEF LinkInv, LinkTypes, MembersPart
    <3>3. CrossSum(p) = ScoreSum(members[p[1]] \X members[p[2]])
      BY DEF CrossSum, ScoreSum
    <3> QED BY <2>1, <3>2, <3>3
  <2>3. Mergeable = MergeableBy(W)
    <3>1. LivingPairs = Pairs \cap (Living \X Living)
      BY ItemsAreNumbers DEF LivingPairs, Living
    <3>2. ASSUME NEW p \in LivingPairs
          PROVE  TauFor(p) * CountOf(p)
                   = TauFor(p) * Cardinality(members[p[1]]) * Cardinality(members[p[2]])
      <4>1. p[1] \in ClusterItems /\ p[2] \in ClusterItems
        BY ItemsAreNumbers DEF LivingPairs
      <4>2. /\ Cardinality(members[p[1]]) \in Nat /\ Cardinality(members[p[2]]) \in Nat
        BY <1>1, <4>1, ItemsAreNumbers, FS_Subset, FS_CardinalityType DEF LinkInv, LinkTypes
      <4>3. TauFor(p) \in Nat  BY ClusteringAssumption DEF TauFor
      <4> QED BY <4>2, <4>3, TimesAssociates DEF CountOf
    <3> QED BY <2>2, <3>1, <3>2 DEF Mergeable, MergeableBy
  <2>4. {<<p, CrossSum(p)>> : p \in Mergeable}
          = {<<p, W[<<members[p[1]], members[p[2]]>>]>> : p \in MergeableBy(W)}
    <3>1. \A p \in MergeableBy(W) : CrossSum(p) = W[<<members[p[1]], members[p[2]]>>]
      BY <2>2 DEF MergeableBy
    <3> QED BY <2>3, <3>1
  <2>5. QueueIsExactBy(W)  BY <1>1, <2>1
  <2> QED BY <1>1, <2>4, <2>5 DEF QueueIsExactBy
<1>2. LinkInv /\ (\A W : IsLinkage(W) => QueueIsExactBy(W)) => QueueIsExact
  BY <1>1 DEF QueueIsExact, Merging
<1>3. QueueIsExact /\ GroupsPartition => LinkageIsExact  BY DEF LinkageIsExact
<1> QED BY <1>2, <1>3, LinkInvariance, QueuesAreExact, GroupsPart, PTL

=============================================================================
