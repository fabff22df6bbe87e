----------------------------- MODULE WebpSearch -----------------------------
(***************************************************************************)
(* The quality search of a WebP encode (src/video/video_encode_runner.cpp, *)
(* encodeWebpWithTargetSize): encode in place, and again at a lower        *)
(* quality while the file is too large, down to a minimum.  A stop, a      *)
(* failed encoder and one that writes nothing end the search.              *)
(* Sizes are in MB and any size may come of any quality.                   *)
(***************************************************************************)
EXTENDS Integers

CONSTANTS
  WebpSizes,        (* sizes an encode may come to                          *)
  WebpTarget,       (* kWebpTargetMaxSize                                   *)
  SmallGap,         (* kWebpSmallGapThreshold                               *)
  FirstQuality,     (* 80u                                                  *)
  MinQuality,       (* kWebpMinQuality                                      *)
  QualityStep,      (* kWebpQualityStep                                     *)
  FineQualityStep   (* kWebpFineQualityStep                                 *)

ASSUME WebpAssumption ==
  /\ WebpSizes \cup {WebpTarget, SmallGap} \subseteq Nat
  /\ {FirstQuality, MinQuality, QualityStep, FineQualityStep} \subseteq Nat \ {0}
  /\ MinQuality <= FirstQuality /\ FineQualityStep <= QualityStep

VARIABLES
  webpFile,       (* the output: NoFile or [size, quality, whole]           *)
  webpProgress,   (* ffmpeg's progress file is there                        *)
  quality,
  webpStop,
  webpStep,       (* "start", "search", "running", a way it ended, "done"   *)
  webpOk          (* what encodeVideo returns                               *)

webpVars == <<webpFile, webpProgress, quality, webpStop, webpStep, webpOk>>

NoFile == [size |-> 0, quality |-> 0, whole |-> FALSE]

\* An output an earlier run left.
OldFile == [size |-> 0, quality |-> 0, whole |-> TRUE]

-----------------------------------------------------------------------------
\* prepareEncodeExecution, encodeVideo
StartWebp ==
  /\ webpStep = "start"
  /\ webpFile' \in {NoFile, OldFile}
  /\ webpStop' \in BOOLEAN
  /\ quality' = FirstQuality
  /\ webpStep' = "search"
  /\ UNCHANGED <<webpProgress, webpOk>>

\* Mutant: the last tier is not tried.
HasTier_Above == quality > MinQuality

HasTier == quality >= MinQuality

\* clearWebpStaleFiles
ClearStale ==
  /\ webpFile' = NoFile
  /\ webpProgress' = FALSE

\* Mutant: an attempt that failed drops only its progress file.
DropAborted_Progress ==
  /\ webpProgress' = FALSE
  /\ UNCHANGED webpFile

DropAborted == ClearStale

Abort ==
  /\ DropAborted
  /\ webpStep' = "done"
  /\ UNCHANGED <<quality, webpStop, webpOk>>

\* runWebpAdaptiveAttempt up to the child
Attempt ==
  /\ webpStep = "search" /\ HasTier
  /\ IF webpStop THEN Abort
     ELSE /\ ClearStale
          /\ webpStep' = "running"
          /\ UNCHANGED <<quality, webpStop, webpOk>>

\* The child ends: with a file, with the beginning of one, or with none.
ChildEncodes ==
  /\ webpStep = "running"
  /\ \E size \in WebpSizes :
       webpFile' = [size |-> size, quality |-> quality, whole |-> TRUE]
  /\ webpStep' = "ended"
  /\ webpProgress' = TRUE
  /\ UNCHANGED <<quality, webpStop, webpOk>>

ChildFails ==
  /\ webpStep = "running"
  /\ webpFile' \in {NoFile} \cup [size : WebpSizes, quality : {quality}, whole : {FALSE}]
  /\ webpStep' = "failed"
  /\ webpProgress' = TRUE
  /\ UNCHANGED <<quality, webpStop, webpOk>>

ChildWritesNothing ==
  /\ webpStep = "running"
  /\ webpStep' = "ended"
  /\ webpProgress' = TRUE
  /\ UNCHANGED <<webpFile, quality, webpStop, webpOk>>

RequestWebpStop ==
  /\ webpStep \in {"search", "running", "ended", "failed"} /\ ~webpStop
  /\ webpStop' = TRUE
  /\ UNCHANGED <<webpFile, webpProgress, quality, webpStep, webpOk>>

StepFor(size) == IF size - WebpTarget <= SmallGap THEN FineQualityStep ELSE QualityStep

Succeed ==
  /\ webpOk' = TRUE
  /\ webpProgress' = FALSE
  /\ webpStep' = "done"
  /\ UNCHANGED <<webpFile, quality, webpStop>>

\* runWebpAdaptiveAttempt from the child's end
JudgeAttempt ==
  /\ webpStep \in {"ended", "failed"}
  /\ IF webpStop \/ webpStep = "failed" \/ webpFile = NoFile THEN Abort
     ELSE IF webpFile.size < WebpTarget THEN Succeed
     ELSE /\ quality' = quality - StepFor(webpFile.size)
          /\ webpStep' = "search"
          /\ UNCHANGED <<webpFile, webpProgress, webpStop, webpOk>>

\* webpMinQualityFallback: too large at the lowest quality is better than nothing.
FallBack ==
  /\ webpStep = "search" /\ ~HasTier
  /\ IF webpFile = NoFile THEN Abort ELSE Succeed

WebpInit ==
  /\ webpFile = NoFile
  /\ webpProgress = FALSE
  /\ quality = 0
  /\ webpStop = FALSE
  /\ webpStep = "start"
  /\ webpOk = FALSE

WebpNext ==
  \/ StartWebp \/ Attempt \/ JudgeAttempt \/ FallBack
  \/ ChildEncodes \/ ChildFails \/ ChildWritesNothing \/ RequestWebpStop

WebpSpec == WebpInit /\ [][WebpNext]_webpVars

-----------------------------------------------------------------------------
\* An encode that is reported as done has left the whole file of this search, under the
\* target size or as small as the lowest tier makes it; one that is not has left no file
\* that a later run could take for a finished output.
WebpIsHonest ==
  webpStep = "done" =>
    /\ ~webpProgress
    /\ webpOk => /\ webpFile.whole /\ webpFile # OldFile
                 /\ webpFile.size < WebpTarget \/ webpFile.quality < MinQuality + QualityStep
    /\ ~webpOk => webpFile = NoFile

=============================================================================
