----------------------------- MODULE MCWorkflows -----------------------------
(* The workflows around the encode, each alone, in one run: the initial      *)
(* state picks one, and only that one moves.                                 *)
EXTENDS Packing, Plans, Batch, Conversions, OrganizeCopy, MCOrganize, Preview, TLC

\* Images for the copy phase: the same name from two source folders, with one
\* content or two, and a second output folder.
Image(folder, name, content) == [folder |-> folder, name |-> name, content |-> content]

Collisions ==
  <<Image("miku", "a", "x"), Image("miku", "a", "y"), Image("mixed", "a", "y"),
    Image("mixed", "b", "x")>>

\* Ranges of a preview: whole, cut at the end, beyond it, and empty; scores that tie and
\* that are on two scales.
SomeRanges ==
  {[start |-> 0, len |-> 3], [start |-> 5, len |-> 4], [start |-> 9, len |-> 1],
   [start |-> 2, len |-> 0]}

SomeScores ==
  {[p5 |-> 1, metric |-> "VMAF"], [p5 |-> 2, metric |-> "VMAF"], [p5 |-> 1, metric |-> "SSIM"]}

\* Files of one name in two folders of one label, one of another kind, and three that are
\* called as others are going to be: by the conflict rule, by a renaming, in an archive.
FileIn(dir, stem, ext) == [dir |-> dir, stem |-> stem, ext |-> ext]

FileA == FileIn(<<"d-1">>, <<Word("a")>>, "png")
FileB == FileIn(<<"d 1">>, <<Word("a")>>, "png")
FileC == FileIn(<<"d-1">>, <<Word("a")>>, "jpg")
AsPlanned == FileIn(<<>>, <<Word("d_1"), FolderHash(FileA.dir), Word("a"), HashOf(FileA)>>, "png")
AsRenamed == FileIn(<<>>, Append(AsPlanned.stem, HashOf(FileA)), "png")
AsSeparated == FileIn(<<>>, <<Word("a"), HashOf(FileB)>>, "png")

SomeFiles == <<AsSeparated, FileB, AsPlanned, AsRenamed, FileC, FileA>>

SomeLabels == (<<>> :> "in") @@ (<<"d-1">> :> "d_1") @@ (<<"d 1">> :> "d_1")

VARIABLE part   (* the component this behaviour is about *)

Parts ==
  {"packing", "grouping", "batch", "picture", "copy", "cluster", "organize", "preview",
   "names", "webp"}

Init ==
  /\ part \in Parts
  /\ PackInit /\ GroupingInit /\ BatchInit /\ PicInit /\ CopyInit /\ LinkInit
  /\ OrgInit /\ PvInit /\ NamingInit /\ WebpInit

Next ==
  /\ UNCHANGED part
  /\ \/ /\ part = "packing" /\ PackNext
        /\ UNCHANGED <<groupingVars, batchVars, picVars, copyVars, linkVars, orgVars,
                       pvVars, namingVars, webpVars>>
     \/ /\ part = "grouping" /\ GroupingNext
        /\ UNCHANGED <<packVars, batchVars, picVars, copyVars, linkVars, orgVars, pvVars,
                       namingVars, webpVars>>
     \/ /\ part = "batch" /\ BatchNext
        /\ UNCHANGED <<packVars, groupingVars, picVars, copyVars, linkVars, orgVars, pvVars,
                       namingVars, webpVars>>
     \/ /\ part = "picture" /\ PicNext
        /\ UNCHANGED <<packVars, groupingVars, batchVars, copyVars, linkVars, orgVars,
                       pvVars, namingVars, webpVars>>
     \/ /\ part = "copy" /\ CopyNext
        /\ UNCHANGED <<packVars, groupingVars, batchVars, picVars, linkVars, orgVars,
                       pvVars, namingVars, webpVars>>
     \/ /\ part = "cluster" /\ LinkNext
        /\ UNCHANGED <<packVars, groupingVars, batchVars, picVars, copyVars, orgVars,
                       pvVars, namingVars, webpVars>>
     \/ /\ part = "organize" /\ OrgNext
        /\ UNCHANGED <<packVars, groupingVars, batchVars, picVars, copyVars, linkVars,
                       pvVars, namingVars, webpVars>>
     \/ /\ part = "preview" /\ PvNext
        /\ UNCHANGED <<packVars, groupingVars, batchVars, picVars, copyVars, linkVars,
                       orgVars, namingVars, webpVars>>
     \/ /\ part = "names" /\ NamingNext
        /\ UNCHANGED <<packVars, groupingVars, batchVars, picVars, copyVars, linkVars,
                       orgVars, pvVars, webpVars>>
     \/ /\ part = "webp" /\ WebpNext
        /\ UNCHANGED <<packVars, groupingVars, batchVars, picVars, copyVars, linkVars,
                       orgVars, pvVars, namingVars>>

vars == <<part, packVars, groupingVars, batchVars, picVars, copyVars, linkVars, orgVars,
          pvVars, namingVars, webpVars>>

\* In the initial state of a component none of its fair actions is enabled, so
\* the fairness of one asks nothing of the behaviours of another.
Spec == Init /\ [][Next]_vars /\ PackFairness

=============================================================================
