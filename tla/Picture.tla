------------------------------- MODULE Picture -------------------------------
(***************************************************************************)
(* The picture workflow: src/picture/picture_process.cpp, with the batch   *)
(* of compressions (picture_compress.cpp) and of WebP conversions          *)
(* (picture_video_webp.cpp), over several runs of one directory.           *)
(*                                                                         *)
(* A file is the version of its source it was made from, 0 for no file.    *)
(* Partial outputs stay under a name nobody packs and are not modelled;    *)
(* Packing models the pack itself, JobState the store.                     *)
(***************************************************************************)
EXTENDS ExitCodes, Naturals

CONSTANTS
  Pics, Clips,    \* pictures and clips of the directory
  MaxPicRuns,     \* bound: runs
  MaxEdits        \* bound: sources replaced between runs

ASSUME PicturesAreNoClips == Pics \cap Clips = {}

VARIABLES
  compress,    (* the run compresses, or packs the pictures as they are     *)
  picRuns, edits,
  picStage,    (* "off", "scan", "prompt", "prepare", "compress", "retry",
                  "judge", "purge", "plan", "convert", "pack", "over"       *)
  picStop,     (* the stop flag                                             *)
  picExit,
  saved,       (* a state file is there                                     *)
  matched,     (* jobStateMatched                                           *)
  attempted,   (* some record of the job has an attempt                     *)
  version,     (* of each source                                            *)
  touched,     (* pictures whose write time is later than their output's    *)
  cache,       (* compressed outputs: source version, and do they fit       *)
  work,        (* of each picture: "none", "cached", "todo", "writing",
                  "renaming", "ok", "failed"                                *)
  retried,
  phase,       (* status of the compression phase's record                  *)
  conv,        (* converted outputs                                         *)
  clipRec,     (* of each clip: status and fingerprint of its record        *)
  clipWork,    (* "none", "todo", "writing", "renamed", "ok", "failed", "skipped" *)
  archived,    (* the run packed                                            *)
  packed,      (* the version in the archives, 0 when left out              *)
  aged,        (* history: pictures replaced by a file with an old time     *)
  adopted      (* history: clips restored from an output of another version *)

picVars == <<compress, picRuns, edits, picStage, picStop, picExit, saved, matched, attempted,
             version, touched, cache, work, retried, phase, conv, clipRec, clipWork,
             archived, packed, aged, adopted>>

NoOutput == [of |-> 0, fits |-> FALSE]

NoClipRec == [status |-> "none", of |-> 0]

PicInit ==
  /\ compress = FALSE /\ picRuns = 0 /\ edits = 0
  /\ picStage = "off" /\ picStop = FALSE /\ picExit = Unfinished
  /\ saved = FALSE /\ matched = FALSE /\ attempted = FALSE
  /\ version = [m \in Pics \cup Clips |-> 1] /\ touched = {}
  /\ cache = [p \in Pics |-> NoOutput] /\ conv = [c \in Clips |-> 0]
  /\ work = [p \in Pics |-> "none"] /\ retried = {} /\ phase = "none"
  /\ clipRec = [c \in Clips |-> NoClipRec]
  /\ clipWork = [c \in Clips |-> "none"]
  /\ archived = FALSE /\ packed = [m \in Pics \cup Clips |-> 0]
  /\ aged = {} /\ adopted = {}

-----------------------------------------------------------------------------
(* The store, as far as the workflow sees it *)

\* normalizeExistingTask for a clip, with the outputs `files` on disk.
Normal(rec, c, files) ==
  IF rec.of # version[c] THEN [status |-> "pending", of |-> version[c]]
  ELSE IF rec.status # "running" /\ rec.status # "failed" /\ files[c] # 0
    THEN [rec EXCEPT !.status = "succeeded"]
  ELSE IF rec.status = "running" THEN [rec EXCEPT !.status = "interrupted"]
  ELSE IF rec.status = "succeeded" THEN [rec EXCEPT !.status = "pending"]
  ELSE rec

\* The record of the phase names no file, so a success is never restored.
NormalPhase ==
  CASE phase = "running" -> "interrupted" [] phase = "succeeded" -> "pending" [] OTHER -> phase

Restored(c) == IF clipRec[c] = NoClipRec THEN NoClipRec ELSE Normal(clipRec[c], c, conv)

\* What a run holds in memory.
Forget ==
  /\ work' = [p \in Pics |-> "none"] /\ retried' = {}
  /\ clipWork' = [c \in Clips |-> "none"]

\* ensureJobState: the state is restored when it is there and of this command; the
\* picture settings are no part of what configMatches compares.
BeginPicRun ==
  /\ picStage \in {"off", "over"} /\ picRuns < MaxPicRuns
  /\ picRuns' = picRuns + 1
  /\ picStage' = "scan" /\ picStop' = FALSE /\ picExit' = Unfinished
  /\ \E same \in BOOLEAN : matched' = (saved /\ same)
  /\ compress' \in BOOLEAN
  /\ saved' = TRUE
  /\ attempted' = (matched' /\ attempted)
  /\ phase' = IF matched' THEN NormalPhase ELSE "none"
  /\ clipRec' = [c \in Clips |-> IF matched' THEN Restored(c) ELSE NoClipRec]
  /\ adopted' = {c \in Clips : /\ clipRec'[c].status = "succeeded"
                               /\ clipRec[c].status # "succeeded" \/ c \in adopted
                               /\ conv[c] # version[c]}
  /\ Forget
  /\ archived' = FALSE /\ packed' = [m \in Pics \cup Clips |-> 0]
  /\ UNCHANGED <<edits, version, touched, cache, conv, aged>>

NeverStarted == ~attempted /\ \A c \in Clips : clipRec[c].status \in {"none", "pending"}

\* A run ends; a canceled one that never started removes the state file.
EndPicRun(code) ==
  /\ picStage' = "over" /\ picExit' = code
  /\ saved' = ~(code = Canceled /\ NeverStarted)
  /\ UNCHANGED <<compress, picRuns, edits, picStop, matched, version, aged, adopted>>

Enter(stage) ==
  /\ picStage' = stage
  /\ UNCHANGED <<compress, picRuns, edits, picStop, picExit, saved, matched, version, aged,
                 adopted>>

RequestPicStop ==
  /\ picStage \notin {"off", "over"} /\ ~picStop
  /\ picStop' = TRUE
  /\ UNCHANGED <<compress, picRuns, edits, picStage, picExit, saved, matched, attempted,
                 version, touched, cache, work, retried, phase, conv, clipRec, clipWork,
                 archived, packed, aged, adopted>>

PicCrash ==
  /\ picStage \notin {"off", "over"}
  /\ picStage' = "off" /\ picStop' = FALSE /\ Forget
  /\ UNCHANGED <<compress, picRuns, edits, picExit, saved, matched, attempted, version,
                 touched, cache, phase, conv, clipRec, archived, packed, aged, adopted>>

\* Between two runs a source is replaced, perhaps by a file that keeps its old time.
ReplaceSource(m) ==
  /\ picStage \in {"off", "over"} /\ edits < MaxEdits
  /\ edits' = edits + 1 /\ picStage' = "off"
  /\ version' = [version EXCEPT ![m] = @ + 1]
  /\ Forget
  /\ IF m \in Pics
       THEN \E keepsTime \in BOOLEAN :
              /\ touched' = IF keepsTime THEN touched ELSE touched \cup {m}
              /\ aged' = IF keepsTime THEN aged \cup {m} ELSE aged
       ELSE UNCHANGED <<touched, aged>>
  /\ UNCHANGED <<compress, picRuns, picStop, picExit, saved, matched, attempted, cache, phase,
                 conv, clipRec, archived, packed, adopted>>

-----------------------------------------------------------------------------
(* Before the work: scanPictures, planPictureVideoConversions, the prompt *)

\* The conversions of another job are dropped here, before anything is asked.
ScanPics ==
  /\ picStage = "scan"
  /\ conv' = IF matched THEN conv ELSE [c \in Clips |-> 0]
  /\ Enter("prompt")
  /\ UNCHANGED <<attempted, touched, cache, work, retried, phase, clipRec, clipWork, archived,
                 packed>>

PicPrompt ==
  /\ picStage = "prompt"
  /\ UNCHANGED <<attempted, touched, cache, work, retried, phase, conv, clipRec, clipWork,
                 archived, packed>>
  /\ \/ ~picStop /\ Enter(IF compress THEN "prepare" ELSE "purge")
     \/ EndPicRun(IF picStop THEN Canceled ELSE Succeeded)
     \/ ~picStop /\ EndPicRun(Failure)

-----------------------------------------------------------------------------
(* Compression *)

\* Mutant: an output is reused whatever its time.
Reusable_Exists(p) == cache'[p] # NoOutput

Reusable(p) == cache'[p] # NoOutput /\ p \notin touched

\* prepareCompressTempDir, buildCompressTaskList, and the phase's record.  The cache
\* of another quality is in a sibling directory and goes too.
Prepare ==
  /\ picStage = "prepare"
  /\ \E sameQuality \in BOOLEAN :
       cache' = IF matched /\ sameQuality THEN cache ELSE [p \in Pics |-> NoOutput]
  /\ work' = [p \in Pics |-> IF Reusable(p) THEN "cached" ELSE "todo"]
  /\ IF \E p \in Pics : work'[p] = "todo"
       THEN Enter("compress") /\ phase' = "running" /\ attempted' = TRUE
       ELSE Enter("purge") /\ UNCHANGED <<phase, attempted>>
  /\ UNCHANGED <<touched, retried, conv, clipRec, clipWork, archived, packed>>

Busy == {p \in Pics : work[p] \in {"writing", "renaming"}}

\* The pool runs what is left at once; the second pass one at a time.
StartCompress(p) ==
  /\ ~picStop
  /\ \/ picStage = "compress" /\ work[p] = "todo" /\ retried' = retried
     \/ /\ picStage = "retry" /\ Busy = {}
        /\ work[p] = "failed" /\ p \notin retried /\ retried' = retried \cup {p}
  /\ work' = [work EXCEPT ![p] = "writing"]
  /\ Enter(picStage)
  /\ UNCHANGED <<attempted, touched, cache, phase, conv, clipRec, clipWork, archived, packed>>

\* compressImage: the child fails, or its output takes the cached name: the old
\* output is removed and the new one renamed, which may be refused.
CompressFails(p) ==
  /\ work[p] = "writing" /\ picStage \in {"compress", "retry"}
  /\ work' = [work EXCEPT ![p] = "failed"]
  /\ Enter(picStage)
  /\ UNCHANGED <<attempted, touched, cache, retried, phase, conv, clipRec, clipWork, archived,
                 packed>>

RemoveOld(p) ==
  /\ work[p] = "writing" /\ picStage \in {"compress", "retry"}
  /\ cache' = [cache EXCEPT ![p] = NoOutput]
  /\ work' = [work EXCEPT ![p] = "renaming"]
  /\ Enter(picStage)
  /\ UNCHANGED <<attempted, touched, retried, phase, conv, clipRec, clipWork, archived, packed>>

RenameOutput(p) ==
  /\ work[p] = "renaming" /\ picStage \in {"compress", "retry"}
  /\ \/ /\ \E fits \in BOOLEAN : cache' = [cache EXCEPT ![p] = [of |-> version[p], fits |-> fits]]
        /\ work' = [work EXCEPT ![p] = "ok"]
        /\ touched' = touched \ {p}
     \/ work' = [work EXCEPT ![p] = "failed"] /\ UNCHANGED <<cache, touched>>
  /\ Enter(picStage)
  /\ UNCHANGED <<attempted, retried, phase, conv, clipRec, clipWork, archived, packed>>

\* compressImageBatch returns at once when the stage was canceled.
CompressStageEnds ==
  /\ picStage = "compress" /\ Busy = {}
  /\ picStop \/ \A p \in Pics : work[p] # "todo"
  /\ Enter(IF picStop THEN "judge" ELSE "retry")
  /\ UNCHANGED <<attempted, touched, cache, work, retried, phase, conv, clipRec, clipWork,
                 archived, packed>>

RetryEnds ==
  /\ picStage = "retry" /\ Busy = {}
  /\ picStop \/ \A p \in Pics : work[p] = "failed" => p \in retried
  /\ Enter("judge")
  /\ UNCHANGED <<attempted, touched, cache, work, retried, phase, conv, clipRec, clipWork,
                 archived, packed>>

JudgeCompression ==
  /\ picStage = "judge"
  /\ UNCHANGED <<attempted, touched, work, retried, conv, clipRec, clipWork, archived, packed>>
  /\ \/ picStop /\ phase' = "interrupted" /\ cache' = cache /\ EndPicRun(Canceled)
     \/ /\ ~picStop /\ \E p \in Pics : work[p] = "ok"
        /\ phase' = "succeeded" /\ cache' = cache /\ Enter("purge")
     \/ /\ ~picStop /\ \A p \in Pics : work[p] # "ok"
        /\ phase' = "failed" /\ cache' = [p \in Pics |-> NoOutput] /\ EndPicRun(Failure)

-----------------------------------------------------------------------------
(* Conversion *)

Backed(c) == clipRec[c] = [status |-> "succeeded", of |-> version[c]]

\* Mutant: outputs no record backs are left to the merge.
Purged_None(c) == conv[c]

Purged(c) == IF Backed(c) THEN conv[c] ELSE 0

\* planConversionRecords: first the purge,
PurgeOutputs ==
  /\ picStage = "purge"
  /\ conv' = [c \in Clips |-> Purged(c)]
  /\ Enter("plan")
  /\ UNCHANGED <<attempted, touched, cache, work, retried, phase, clipRec, clipWork, archived,
                 packed>>

\* then the merge, which takes an output it finds for the record's success.
PlanConversions ==
  /\ picStage = "plan"
  /\ clipRec' = [c \in Clips |-> IF clipRec[c].status = "none"
                                   THEN [status |-> "pending", of |-> version[c]]
                                   ELSE Normal(clipRec[c], c, conv)]
  /\ clipWork' = [c \in Clips |-> IF clipRec'[c].status = "succeeded" THEN "skipped" ELSE "todo"]
  /\ Enter(IF \E c \in Clips : clipWork'[c] = "todo" THEN "convert" ELSE "pack")
  /\ UNCHANGED <<attempted, touched, cache, work, retried, phase, conv, archived, packed>>

ClipStep(c, from, to, status) ==
  /\ picStage = "convert" /\ clipWork[c] = from
  /\ clipWork' = [clipWork EXCEPT ![c] = to]
  /\ clipRec' = [clipRec EXCEPT ![c].status = status]
  /\ Enter(picStage)
  /\ UNCHANGED <<touched, cache, work, retried, phase, archived, packed>>

\* convertClip
StartClip(c) ==
  /\ ~picStop
  /\ ClipStep(c, "todo", "writing", "running")
  /\ attempted' = TRUE /\ UNCHANGED conv

FinalizeClip(c) ==
  /\ ClipStep(c, "writing", "renamed", "running")
  /\ conv' = [conv EXCEPT ![c] = version[c]] /\ UNCHANGED attempted

MarkClip(c) ==
  /\ ClipStep(c, "renamed", "ok", "succeeded")
  /\ UNCHANGED <<conv, attempted>>

ClipFails(c) ==
  /\ ClipStep(c, "writing", "failed", "failed")
  /\ UNCHANGED <<conv, attempted>>

\* Mutant: a stop leaves the records as they are.
Interrupt_Nothing(c) == clipRec[c]

Interrupt(c) ==
  IF clipWork[c] # "skipped" /\ clipRec[c].status \in {"pending", "running"}
    THEN [clipRec[c] EXCEPT !.status = "interrupted"] ELSE clipRec[c]

Packable(c) == clipWork[c] \in {"ok", "skipped"}

ConvertEnds ==
  /\ picStage = "convert"
  /\ \A c \in Clips : clipWork[c] \notin {"writing", "renamed"}
  /\ UNCHANGED <<attempted, touched, cache, work, retried, phase, conv, clipWork, archived, packed>>
  /\ \/ picStop /\ clipRec' = [c \in Clips |-> Interrupt(c)] /\ EndPicRun(Canceled)
     \/ /\ ~picStop /\ \A c \in Clips : clipWork[c] # "todo"
        /\ clipRec' = clipRec
        /\ IF \E c \in Clips : Packable(c) THEN Enter("pack") ELSE EndPicRun(Failure)

-----------------------------------------------------------------------------
(* Packing *)

\* resolveCompressedSource: what of a picture is packed.
Resolved(p) ==
  IF ~compress THEN version[p]
  ELSE IF cache[p] = NoOutput THEN 0
  ELSE IF cache[p].fits THEN cache[p].of ELSE version[p]

Inputs == [m \in Pics \cup Clips |->
             IF m \in Pics THEN Resolved(m) ELSE IF Packable(m) THEN conv[m] ELSE 0]

\* Mutant: a pack that did not succeed drops the compressed pictures too.
AfterPack_Removed == [p \in Pics |-> NoOutput]

AfterPack == IF compress /\ ~picStop THEN [p \in Pics |-> NoOutput] ELSE cache

PackPics ==
  /\ picStage = "pack"
  /\ attempted' = TRUE
  /\ UNCHANGED <<touched, work, retried, phase, clipRec, clipWork>>
  /\ cache' = AfterPack
  /\ \/ /\ \E m \in Pics \cup Clips : Inputs[m] # 0
        /\ archived' = TRUE /\ packed' = Inputs
        /\ conv' = [c \in Clips |-> 0]
        /\ EndPicRun(Succeeded)
     \/ UNCHANGED <<conv, archived, packed>> /\ EndPicRun(Failure)
     \/ picStop /\ UNCHANGED <<conv, archived, packed>> /\ EndPicRun(Canceled)

PicNext ==
  \/ BeginPicRun \/ RequestPicStop \/ PicCrash \/ ScanPics \/ PicPrompt \/ Prepare
  \/ CompressStageEnds \/ RetryEnds \/ JudgeCompression
  \/ PurgeOutputs \/ PlanConversions \/ ConvertEnds \/ PackPics
  \/ \E p \in Pics : StartCompress(p) \/ CompressFails(p) \/ RemoveOld(p) \/ RenameOutput(p)
  \/ \E c \in Clips : StartClip(c) \/ FinalizeClip(c) \/ MarkClip(c) \/ ClipFails(c)
  \/ \E m \in Pics \cup Clips : ReplaceSource(m)

PicSpec == PicInit /\ [][PicNext]_picVars

-----------------------------------------------------------------------------
(* Properties *)

Ended(code) == picStage = "over" /\ picExit = code

\* What is packed was made from the sources as they are, over interrupted runs and
\* replaced files (addCompressTask, cacheBackedByState and the order of purge and
\* merge).  Three ways around it: a source replaced by a file with an older time; a
\* picture whose cached output is old and whose compression fails; and a clip whose
\* record was reset for its new source by a run that ended before its purge.
ArchiveIsOfSources ==
  Ended(Succeeded) /\ archived =>
    /\ \A p \in Pics : packed[p] \in {0, version[p]} \/ p \in aged \/ work[p] = "failed"
    /\ \A c \in Clips : packed[c] \in {0, version[c]} \/ c \in adopted

\* Nothing is left out of a pack that succeeded but what failed in this very run
\* (appendVideoPackInputs, buildPackEntryInputs).
ArchiveIsComplete ==
  Ended(Succeeded) /\ archived =>
    /\ \A p \in Pics : packed[p] = 0 => work[p] = "failed"
    /\ \A c \in Clips : packed[c] = 0 => clipWork[c] = "failed"

\* openspec/specs/picture-compress-resume/spec.md:11: "The cache SHALL be preserved
\* when a run is canceled", the conversions likewise, with the records that back them.
CachesSurviveAStop ==
  Ended(Canceled) =>
    /\ \A p \in Pics : work[p] \in {"ok", "cached"} => cache[p].of # 0
    /\ \A c \in Clips : Packable(c) => conv[c] # 0 /\ Backed(c)
    /\ \A c \in Clips : clipRec[c].status \notin {"pending", "running"} \/ clipWork[c] = "none"

\* What a picture run packs, leaves out and keeps for the next one.
PictureRunIsSound == ArchiveIsOfSources /\ ArchiveIsComplete /\ CachesSurviveAStop

\* openspec/specs/picture-video-webp/spec.md: "a clip whose source file was modified or
\* replaced after its conversion SHALL be converted again, and its stale cached output
\* SHALL be discarded rather than restored or packed".
StaleClipsAreNotPacked ==
  Ended(Succeeded) /\ archived => \A c \in Clips : packed[c] \in {0, version[c]}
=============================================================================
