---------------------------- MODULE OutputNames ----------------------------
(***************************************************************************)
(* The names given to outputs and to archive entries                       *)
(* (src/video/video_output_planning.cpp, src/core/collision_naming.h,      *)
(* src/picture/picture_process.cpp, src/pack/pack.cpp, packer.cpp): many   *)
(* inputs are flattened into one folder or archive, rivals get a prefix    *)
(* and a hash, and what still coincides is renamed until nothing does.     *)
(* A path is [dir, stem, ext]; a stem is a sequence of words joined by     *)
(* "__" or ".", so that a file may be called as another one will be.       *)
(* The 32-bit path hash is taken to tell the paths of one run apart.       *)
(***************************************************************************)
EXTENDS Integers, SequencesExt

CONSTANTS
  PathOrder,    (* the files that may be given, in stablePathLess order;    *)
                (* their folders are relative to the root                   *)
  LabelOf,      (* sanitizeLabel of a folder: two folders may share it      *)
  MaxShuffled   (* bound: files that are given in an order of their own     *)

SourceFiles == Range(PathOrder)

ASSUME NamesAssumption ==
  /\ PathOrder \in Seq(SourceFiles) /\ IsInjective(PathOrder)
  /\ \A file \in SourceFiles :
       /\ file = [dir |-> file.dir, stem |-> file.stem, ext |-> file.ext]
       /\ file.stem \in Seq(Range(file.stem))

VARIABLES
  request,      (* [work, keep, force, shared, rooted, webp, compress, summary, full] *)
  givenFiles,   (* the files in scan order                                  *)
  outputOf,     (* planVideoOutputFiles: the output planned for each        *)
  nameRounds,   (* rounds of ensureUniqueOutputPaths that renamed           *)
  toPack,       (* entries not added yet: [path, name]                      *)
  inArchive,    (* names of the archive's entries, in order of addition     *)
  namingStep

namingVars == <<request, givenFiles, outputOf, nameRounds, toPack, inArchive, namingStep>>

Word(text) == <<text>>
HashOf(path) == <<path.dir, path.stem, path.ext>>
FolderHash(dir) == <<"folder", dir>>
Numeral(n) == <<"number", n>>

PathRank(file) == CHOOSE n \in DOMAIN PathOrder : PathOrder[n] = file

\* stablePathLess
InPathOrder(files) == \A m, n \in DOMAIN files : m < n => PathRank(files[m]) < PathRank(files[n])

Sorted(files) == CHOOSE order \in SetToSeqs(files) : InPathOrder(order)

-----------------------------------------------------------------------------
(* collision_naming.h *)

ConflictStem(file, stem) ==
  <<Word(LabelOf[file.dir]), FolderHash(file.dir)>> \o stem \o <<HashOf(file)>>

Suffixed(path, token) == [path EXCEPT !.stem = Append(@, token)]

FileName(path) == [path EXCEPT !.dir = <<>>]

-----------------------------------------------------------------------------
(* Outputs of videos *)

Forced == request.force /\ ~request.keep

ForcedVideo == Forced /\ (request.webp \/ request.work = "pack")

OutputRoot == IF request.shared THEN <<"out">> ELSE <<"encoded_webp">>

UsesSharedRoot(r) == r.shared \/ (r.webp /\ r.rooted)

OutputDir(file) ==
  IF ~UsesSharedRoot(request) THEN file.dir
  ELSE OutputRoot \o (IF request.keep THEN file.dir ELSE <<>>)

CandidateOf(file) ==
  [dir  |-> OutputDir(file),
   stem |-> file.stem \o (IF request.webp THEN <<>> ELSE <<Word("hevc")>>),
   ext  |-> IF request.webp THEN "webp" ELSE "mp4"]

OutputRivals(file) ==
  {other \in Range(givenFiles) \ {file} : CandidateOf(other) = CandidateOf(file)}

ConflictHandled(file, path) == [path EXCEPT !.stem = ConflictStem(file, @)]

PlannedOutput(file) ==
  IF ForcedVideo \/ OutputRivals(file) # {}
    THEN ConflictHandled(file, CandidateOf(file))
    ELSE CandidateOf(file)

\* Mutant: the paths that coincide are found once, before the renaming.
Coincide_Once(file, other) == nameRounds = 0 /\ outputOf[file] = outputOf[other]

Coincide(file, other) == outputOf[file] = outputOf[other]

Duplicated == {f \in Range(givenFiles) : \E g \in Range(givenFiles) \ {f} : Coincide(f, g)}

-----------------------------------------------------------------------------
(* Entries of an archive *)

\* collectPackInputs: the name of a file that is packed as it stands.
PackName(file) ==
  IF request.keep THEN file
  ELSE IF Forced THEN ConflictHandled(file, FileName(file)) ELSE FileName(file)

NameRivals(file) ==
  {other \in Range(givenFiles) \ {file} : FileName(other) = FileName(file)}

\* planPictureZipEntryNames: rivals get the conflict name though it is not forced.
PictureName(file) ==
  IF ~request.keep /\ NameRivals(file) # {}
    THEN ConflictHandled(file, FileName(file))
    ELSE PackName(file)

\* Mutant: the compressed picture is called after its source, less the conflict suffix.
CompressedName_Short(name) == [name EXCEPT !.stem = Front(@), !.ext = "jpg"]

CompressedName(name) == [name EXCEPT !.ext = "jpg"]

PictureEntry(file, name) ==
  IF request.compress
    THEN [path |-> [CompressedName(name) EXCEPT !.dir = <<"cache">> \o @],
          name |-> CompressedName(name)]
    ELSE [path |-> file, name |-> name]

FirstOf(folder) ==
  LET inside == {file \in Range(givenFiles) : file.dir = folder}
  IN  CHOOSE file \in inside : \A other \in inside : PathRank(file) <= PathRank(other)

\* collectFolderSummaryPictures: the first picture of each folder below the root.
SummaryPictures == {file \in Range(givenFiles) : file.dir # <<>> /\ file = FirstOf(file.dir)}

SummaryName(file) ==
  [FileName(file) EXCEPT
     !.stem = <<Word("summary"), Word(LabelOf[file.dir]), FolderHash(file.dir)>> \o @]

\* One of each folder, in the order of their paths (the code's order is that of the
\* folders, which is another one only where one folder is inside another).
SummaryEntries ==
  LET chosen == Sorted(IF request.summary THEN SummaryPictures ELSE {})
  IN  [n \in DOMAIN chosen |-> PictureEntry(chosen[n], SummaryName(chosen[n]))]

\* buildPackEntryInputs
PictureEntries ==
  SummaryEntries
    \o [n \in DOMAIN givenFiles |-> PictureEntry(givenFiles[n], PictureName(givenFiles[n]))]

\* collectEncodedOutputFiles, packEncodedVideos: outputs go flat, by their file names.
VideoEntries ==
  [n \in DOMAIN givenFiles |->
     [path |-> outputOf[givenFiles[n]], name |-> FileName(outputOf[givenFiles[n]])]]

GivenEntries ==
  [n \in DOMAIN givenFiles |-> [path |-> givenFiles[n], name |-> PackName(givenFiles[n])]]

EntriesFor(work) ==
  CASE work = "pack"     -> VideoEntries
    [] work = "packonly" -> GivenEntries
    [] work = "pictures" -> PictureEntries

\* makeUniqueZipEntryName: the name, then with the hash, then with a number too.
Alternatives(entry) ==
  LET hashed == Suffixed(entry.name, HashOf(entry.path))
  IN  <<entry.name, hashed>> \o [n \in 1..Len(inArchive) |-> Suffixed(hashed, Numeral(n))]

\* Mutant: the hashed name is taken without looking whether it is in use.
FirstFree_Unchecked(names) == IF names[1] \in Range(inArchive) THEN names[2] ELSE names[1]

FirstFree(names) == names[SelectInSeq(names, LAMBDA name : name \notin Range(inArchive))]

-----------------------------------------------------------------------------
\* planVideoOutputFiles
Plan ==
  /\ namingStep = "plan"
  /\ IF request.work \notin {"encode", "pack"}
       THEN /\ namingStep' = "enter"
            /\ UNCHANGED outputOf
       ELSE IF request.keep /\ UsesSharedRoot(request) /\ ~request.rooted
       THEN /\ namingStep' = "refused"
            /\ UNCHANGED outputOf
       ELSE /\ outputOf' = [file \in Range(givenFiles) |-> PlannedOutput(file)]
            /\ namingStep' = "separate"
  /\ UNCHANGED <<request, givenFiles, nameRounds, toPack, inArchive>>

\* ensureUniqueOutputPaths, one round
Separate ==
  /\ namingStep = "separate"
  /\ IF Duplicated = {}
       THEN /\ namingStep' = IF request.work = "pack" THEN "enter" ELSE "named"
            /\ UNCHANGED <<outputOf, nameRounds>>
       ELSE /\ outputOf' = [file \in Range(givenFiles) |->
                 IF file \in Duplicated THEN Suffixed(outputOf[file], HashOf(file))
                 ELSE outputOf[file]]
            /\ nameRounds' = nameRounds + 1
            /\ UNCHANGED namingStep
  /\ UNCHANGED <<request, givenFiles, toPack, inArchive>>

Collect ==
  /\ namingStep = "enter"
  /\ toPack' = EntriesFor(request.work)
  /\ namingStep' = "add"
  /\ UNCHANGED <<request, givenFiles, outputOf, nameRounds, inArchive>>

\* packFilesToZip: the full-progress one separates names, the compact one adds as it is told.
AddNamed ==
  /\ namingStep = "add" /\ toPack # <<>>
  /\ inArchive' = Append(inArchive,
       IF request.full THEN FirstFree(Alternatives(Head(toPack))) ELSE Head(toPack).name)
  /\ toPack' = Tail(toPack)
  /\ UNCHANGED <<request, givenFiles, outputOf, nameRounds, namingStep>>

CloseNamed ==
  /\ namingStep = "add" /\ toPack = <<>>
  /\ namingStep' = "named"
  /\ UNCHANGED <<request, givenFiles, outputOf, nameRounds, toPack, inArchive>>

Requests ==
  [work : {"encode", "pack", "packonly", "pictures"}, keep : BOOLEAN, force : BOOLEAN,
   shared : BOOLEAN, rooted : BOOLEAN, webp : BOOLEAN, compress : BOOLEAN,
   summary : BOOLEAN, full : BOOLEAN]

\* The options that say nothing of a kind of work are left out of it.
Sensible(r) ==
  /\ r.work \in {"encode", "pack"} => ~r.compress /\ ~r.summary
  /\ r.work \notin {"encode", "pack"} => r.shared /\ r.rooted /\ ~r.webp
  /\ r.work = "packonly" => ~r.compress /\ ~r.summary
  /\ r.work = "encode" => r.full

NoRequest ==
  [work |-> "none", keep |-> FALSE, force |-> FALSE, shared |-> FALSE, rooted |-> FALSE,
   webp |-> FALSE, compress |-> FALSE, summary |-> FALSE, full |-> FALSE]

Give ==
  /\ namingStep = "start"
  /\ \E files \in SUBSET SourceFiles :
       givenFiles' \in IF Cardinality(files) > MaxShuffled THEN {Sorted(files)} ELSE SetToSeqs(files)
  /\ request' \in {r \in Requests : Sensible(r)}
  /\ namingStep' = "plan"
  /\ UNCHANGED <<outputOf, nameRounds, toPack, inArchive>>

NamingInit ==
  /\ request = NoRequest
  /\ givenFiles = <<>>
  /\ outputOf = <<>>
  /\ nameRounds = 0
  /\ toPack = <<>>
  /\ inArchive = <<>>
  /\ namingStep = "start"

NamingNext == Give \/ Plan \/ Separate \/ Collect \/ AddNamed \/ CloseNamed

NamingSpec == NamingInit /\ [][NamingNext]_namingVars

-----------------------------------------------------------------------------
(* Properties *)

\* Once the outputs are named no two videos are written to one file, though a file may
\* carry the very name another one was to be given, and the renaming ends: no input makes
\* it go round more often than there are inputs.
OutputsAreApart ==
  /\ nameRounds <= Cardinality(Range(givenFiles))
  /\ namingStep = "named" => IsInjective(outputOf)

\* Under forced naming, the default, a name is a function of its own input: the outputs of
\* an interrupted run are found again by one over other files of the folder.
ForcedNamesAreStable ==
  (namingStep = "named" /\ outputOf # <<>> /\ ForcedVideo) =>
    \A file \in Range(givenFiles) : outputOf[file] = ConflictHandled(file, CandidateOf(file))

\* A kept layout puts every output in the folder of its source, below the output root.
LayoutIsKept ==
  (namingStep = "named" /\ outputOf # <<>> /\ request.keep /\ UsesSharedRoot(request)) =>
    \A file \in Range(givenFiles) : outputOf[file].dir = OutputRoot \o file.dir

\* No entry takes the place of another in an archive that separates names, nor in any
\* archive under forced naming (packer.cpp; libzip replaces an entry of the same name).
EveryEntryIsThere ==
  (namingStep = "named" /\ request.work # "encode" /\ (request.full \/ Forced)) =>
    IsInjective(inArchive)

NamesAreSound ==
  OutputsAreApart /\ ForcedNamesAreStable /\ LayoutIsKept /\ EveryEntryIsThere

=============================================================================
