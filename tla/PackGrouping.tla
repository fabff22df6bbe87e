---------------------------- MODULE PackGrouping ----------------------------
(***************************************************************************)
(* How the files of a pack are split into archives                         *)
(* (src/pack/packer.cpp, pack.cpp, pack_internal.h): logical parts by      *)
(* count, physical archives by size, source directories kept together when *)
(* there are many files, and the ordinal range in each archive's name.     *)
(* A file is [id, size, dir]; size Unreadable is one whose size cannot be  *)
(* read.  The state is one grouping request.                               *)
(***************************************************************************)
EXTENDS Integers, SequencesExt

CONSTANTS
  Sizes,        (* sizes a file may have                                    *)
  Dirs,         (* 1..n: source directories, in the order of their keys     *)
  MaxFiles,     (* bound: files in a request                                *)
  MaxArchive,   (* kDefaultMaxArchiveGroupSize                              *)
  MaxPerPart,   (* kMaxEntriesPerPart                                       *)
  NoLimit       (* a limit no file reaches                                  *)

ASSUME GroupingAssumption ==
  /\ Sizes \subseteq Nat /\ Cardinality(Dirs) \in Nat /\ Dirs = 1..Cardinality(Dirs)
  /\ MaxFiles \in Nat /\ MaxArchive \in Nat /\ MaxPerPart \in Nat \ {0}
  /\ NoLimit \in Nat /\ NoLimit >= MaxFiles

Unreadable == -1

VARIABLES
  packFiles,    (* the files, <<>> before a request                         *)
  keepTogether, (* the threshold above which a directory stays together     *)
  archives      (* the partitions: [files, part, sub]                       *)

groupingVars == <<packFiles, keepTogether, archives>>

-----------------------------------------------------------------------------
(* One pass: units are added to the current group until one exceeds it *)

\* A unit is a file or a chunk of one directory.
UnitOf(file) == [files |-> <<file>>, size |-> file.size, count |-> 1]

NoGroup == [files |-> <<>>, size |-> 0, count |-> 0]

\* Mutant: a group is full when it reaches its limit before the unit is added.
WouldExceed_Before(group, unit, maxSize, maxCount) ==
  group.size >= maxSize \/ group.count >= maxCount

WouldExceed(group, unit, maxSize, maxCount) ==
  group.size + unit.size > maxSize \/ group.count + unit.count > maxCount

\* Mutant: the group that is replaced is not kept.
Flushed_Dropped(groups, group) == groups

\* flushGroupedEntries, flushPreparedChunk: an empty group is no group.
Flushed(groups, group) == IF group.files = <<>> THEN groups ELSE Append(groups, group)

Joined(group, unit) ==
  [files |-> group.files \o unit.files, size |-> group.size + unit.size,
   count |-> group.count + unit.count]

AddUnit(pass, unit, maxSize, maxCount) ==
  IF pass.open.files # <<>> /\ WouldExceed(pass.open, unit, maxSize, maxCount)
    THEN [groups |-> Flushed(pass.groups, pass.open), open |-> unit]
    ELSE [pass EXCEPT !.open = Joined(@, unit)]

\* groupPreparedEntriesSequentially, splitSourceDirectoryEntries and, over chunks,
\* packSourceEntryChunks: the groups that are done and the open one, unit by unit.
Split(units, maxSize, maxCount) ==
  LET Pass[n \in 0..Len(units)] ==
        IF n = 0 THEN [groups |-> <<>>, open |-> NoGroup]
        ELSE AddUnit(Pass[n - 1], units[n], maxSize, maxCount)
  IN  Flushed(Pass[Len(units)].groups, Pass[Len(units)].open)

-----------------------------------------------------------------------------
(* groupPackEntries: files without a size are left out, and above the threshold *)
(* the files are sorted by directory and every directory is cut into chunks     *)

\* The files of a sequence that are in a set.
Among(files, chosen) ==
  LET Found[n \in 0..Len(files)] ==
        IF n = 0 THEN <<>>
        ELSE IF files[n] \in chosen THEN Append(Found[n - 1], files[n]) ELSE Found[n - 1]
  IN  Found[Len(files)]

Readable(files) == Among(files, {f \in ToSet(files) : f.size # Unreadable})

OfDirectory(files, d) == Among(files, {f \in ToSet(files) : f.dir = d})

Units(files) == [i \in DOMAIN files |-> UnitOf(files[i])]

DirectoryBefore(a, b) == a.dir < b.dir \/ (a.dir = b.dir /\ a.id < b.id)

ByDirectory(files) ==
  CHOOSE order \in SetToSeqs(ToSet(files)) :
    \A m, n \in DOMAIN order : m < n => DirectoryBefore(order[m], order[n])

ChunksOf(files, d, maxSize, maxCount) == Split(Units(OfDirectory(files, d)), maxSize, maxCount)

GroupEntries(files, maxSize, maxCount, threshold) ==
  LET readable == Readable(files)
      sorted   == ByDirectory(readable)
  IN  IF Len(readable) <= threshold
      THEN Split(Units(readable), maxSize, maxCount)
      ELSE Split(FlattenSeq([d \in 1..Cardinality(Dirs) |->
                               ChunksOf(sorted, d, maxSize, maxCount)]),
                 maxSize, maxCount)

\* The size of a set of files, those left out that cannot be read.
TotalSize(files) ==
  FoldSet(LAMBDA f, acc : acc + f.size, 0, {f \in files : f.size # Unreadable})

\* Mutant: inside a part the directories are forgotten.
InnerThreshold_None(files, threshold) == NoLimit

\* forceSourceCarryOverWithinPart
InnerThreshold(files, threshold) == IF Len(files) > threshold THEN 0 ELSE NoLimit

\* groupPackEntriesWithSubparts: logical parts by count alone, each cut into
\* archives by size; [files, part, sub].
Partitions(files, threshold) ==
  LET parts   == GroupEntries(files, TotalSize(ToSet(files)), MaxPerPart, threshold)
      Of(p)   == LET groups == GroupEntries(parts[p].files, MaxArchive, NoLimit,
                                            InnerThreshold(files, threshold))
                 IN [s \in DOMAIN groups |->
                       [files |-> groups[s].files, part |-> p, sub |-> s]]
  IN  FlattenSeq([p \in DOMAIN parts |-> Of(p)])

-----------------------------------------------------------------------------
(* The archives' names: part, sub-part when there are several, ordinal range *)

\* Mutant: the sub-part is named only from the second part on.
SubInName_Later(a) == IF archives[a].part > 1 THEN archives[a].sub ELSE 0

SubInName(a) ==
  IF Cardinality({b \in DOMAIN archives : archives[b].part = archives[a].part}) > 1
  THEN archives[a].sub ELSE 0

\* Mutant: the range of an archive starts where the last one ended.
FirstAfter_Shared(last) == IF last = 0 THEN 1 ELSE last

FirstAfter(last) == last + 1

\* buildGroupOrdinalRanges; no group of a plan is empty.
OrdinalRanges(list) ==
  LET LastOf[n \in 0..Len(list)] ==
        IF n = 0 THEN 0 ELSE FirstAfter(LastOf[n - 1]) + Len(list[n].files) - 1
  IN  [n \in DOMAIN list |-> [first |-> FirstAfter(LastOf[n - 1]), last |-> LastOf[n]]]

\* buildPackZipBaseName and appendOrdinalRangeSuffix.
NameOf(a) == <<archives[a].part, SubInName(a)>>

-----------------------------------------------------------------------------
FilesOf(sizes, dirs) == [i \in DOMAIN sizes |-> [id |-> i, size |-> sizes[i], dir |-> dirs[i]]]

GroupingInit ==
  /\ packFiles = <<>>
  /\ keepTogether = NoLimit
  /\ archives = <<>>

\* makeDirectoryPlan and the media pack request: PerSourceDir keeps directories
\* together above MaxPerPart files, PerSourceDirKeepTogether always.
RequestGrouping ==
  /\ packFiles = <<>>
  /\ keepTogether' \in {MaxPerPart, 0}
  /\ \E n \in 1..MaxFiles :
       \E sizes \in [1..n -> Sizes \cup {Unreadable}], dirs \in [1..n -> Dirs] :
         packFiles' = FilesOf(sizes, dirs)
  /\ archives' = Partitions(packFiles', keepTogether')

GroupingNext == RequestGrouping

GroupingSpec == GroupingInit /\ [][GroupingNext]_groupingVars

-----------------------------------------------------------------------------
(* Properties *)

FilesIn(a) == ToSet(archives[a].files)

FilesOfPart(p) == UNION {FilesIn(a) : a \in {b \in DOMAIN archives : archives[b].part = p}}

\* Every file that can be read is in exactly one archive, once, and no archive is empty
\* (groupPackEntriesWithSubparts, lines 577-668): nothing falls between a part and
\* its sub-parts, whichever files fill a group to its limit.
EveryFileInOneArchive ==
  /\ UNION {FilesIn(a) : a \in DOMAIN archives} = ToSet(Readable(packFiles))
  /\ \A a, b \in DOMAIN archives : a # b => FilesIn(a) \cap FilesIn(b) = {}
  /\ \A a \in DOMAIN archives : archives[a].files # <<>> /\ IsInjective(archives[a].files)

\* An archive exceeds the size limit only when one file alone does, and a part has
\* no more files than one may have.
ArchivesAreBounded ==
  /\ \A a \in DOMAIN archives :
       TotalSize(FilesIn(a)) <= MaxArchive \/ Len(archives[a].files) = 1
  /\ \A p \in {archives[a].part : a \in DOMAIN archives} :
       Cardinality(FilesOfPart(p)) <= MaxPerPart

\* No two archives of a plan get one name, or the later would replace the earlier
\* (buildPackZipBaseName, lines 64-81).
ArchiveNamesDiffer ==
  \A a, b \in DOMAIN archives : NameOf(a) = NameOf(b) => a = b

\* The ranges in the names number the files from one on, without gap or overlap
\* (buildGroupOrdinalRanges).
RangesNumberTheFiles ==
  LET ranges == OrdinalRanges(archives)
  IN  /\ \A a \in DOMAIN ranges :
           ranges[a].first = (IF a = 1 THEN 1 ELSE ranges[a - 1].last + 1)
      /\ ranges # <<>> => ranges[Len(ranges)].last = Len(Readable(packFiles))

\* Directories are kept together: above the threshold one is spread over several
\* archives of a part only when its files of that part do not fit into one
\* (packSourceEntryChunks, lines 255-292).
DirectoriesStayTogether ==
  Len(packFiles) > keepTogether =>
    \A a, b \in DOMAIN archives : \A d \in Dirs :
      LET InDir(files) == {f \in files : f.dir = d}
      IN  (a # b /\ archives[a].part = archives[b].part
             /\ InDir(FilesIn(a)) # {} /\ InDir(FilesIn(b)) # {})
          => TotalSize(InDir(FilesOfPart(archives[a].part))) > MaxArchive

\* A plan packs every file once, within the limits, under names that differ and count.
PlanIsSound ==
  /\ EveryFileInOneArchive /\ ArchivesAreBounded /\ ArchiveNamesDiffer
  /\ RangesNumberTheFiles /\ DirectoriesStayTogether
=============================================================================
