---------------------------- MODULE SegmentResume ----------------------------
(***************************************************************************)
(* The files behind a segmented encode (runSegmentedEncoding,              *)
(* src/video/video_encode_runner.cpp, and src/video/segment_plan.cpp), one *)
(* task over any number of attempts: the encoder writes a series of        *)
(* segments and lists the closed ones, a watcher records how many there    *)
(* are, and the next attempt believes the record where files of those      *)
(* names exist.  JobState knows the record; this module knows the files.   *)
(***************************************************************************)
EXTENDS Naturals, FiniteSets

CONSTANTS
  Total,   (* segment marks the duration implies: plan.segmentTotal          *)
  Cuts,    (* segments the encoder cuts: fewer, when no frame lies at or     *)
           (* after the last mark                                            *)
  Faults,  (* the events of the environment that are allowed                 *)
  Budget   (* how many of them a behaviour has                               *)

FaultKinds == {"stop", "crash", "fail", "clean", "reset"}

ASSUME SegmentResumeAssumption ==
  /\ Cuts \in Nat \ {0} /\ Total \in Nat /\ Cuts <= Total
  /\ Budget \in Nat
  /\ Faults \subseteq FaultKinds

VARIABLES
  seg,        (* the segment files                                           *)
  rows,       (* rows of the encoder's list                                  *)
  listFrom,   (* the attempt that wrote the list started at this segment     *)
  audio,      (* the extracted track, copied or re-encoded                   *)
  target,     (* the output file                                             *)
  recorded,   (* TaskRecord::segmentIndex                                    *)
  done,       (* TaskRecord::status is succeeded                             *)
  pc,         (* where the attempt is                                        *)
  enc,        (* what the encoder does with its current segment              *)
  start,      (* plan.startNumber                                            *)
  completed,  (* watch.completedSegments                                     *)
  track,      (* the audio file the attempt assembles                        *)
  names,      (* how many segments, from the first, it assembles             *)
  stop, budget,
  intact      (* history: nobody removed files the record counts             *)

files   == <<seg, rows, listFrom, audio>>
attempt == <<start, completed, track, names>>
vars    == <<files, target, recorded, done, pc, enc, attempt, stop, budget, intact>>

Segs      == 0..(Cuts - 1)
Contents  == {"none", "open", "whole", "stale"}
Tracks    == {"aac", "copy"}
Locations == {"down", "prepare", "audio", "copying", "encodingAudio", "plan", "encode",
              "assemble", "joining", "assembled", "removed", "failing"}

Spend(kind) == kind \in Faults /\ budget > 0 /\ budget' = budget - 1

\* The next segment of the attempt.
Current == start + rows

NoFiles ==
  /\ seg' = [k \in Segs |-> "none"] /\ rows' = 0 /\ listFrom' = 0
  /\ audio' = [a \in Tracks |-> "none"]

Init ==
  /\ seg = [k \in Segs |-> "none"] /\ rows = 0 /\ listFrom = 0
  /\ audio = [a \in Tracks |-> "none"]
  /\ target = "none"
  /\ recorded = 0 /\ done = FALSE
  /\ pc = "down" /\ enc = "idle"
  /\ start = 0 /\ completed = 0 /\ track = "copy" /\ names = 0
  /\ stop = FALSE /\ budget = Budget /\ intact = TRUE

-----------------------------------------------------------------------------
(* The start of an attempt *)

StartAttempt ==
  /\ pc = "down" /\ ~done
  /\ pc' = "prepare"
  /\ UNCHANGED <<files, target, recorded, done, enc, attempt, stop, budget, intact>>

\* Mutant: what a former attempt left is kept.
PrepareDir_KeepsFiles ==
  /\ pc = "prepare"
  /\ pc' = "audio"
  /\ UNCHANGED <<files, target, recorded, done, enc, attempt, stop, budget, intact>>

\* Without recorded progress the segment directory is emptied.
PrepareDir ==
  /\ pc = "prepare"
  /\ IF recorded = 0 THEN NoFiles ELSE UNCHANGED files
  /\ pc' = "audio"
  /\ UNCHANGED <<target, recorded, done, enc, attempt, stop, budget, intact>>

\* ensureAudioFile: a track that is there is taken, the re-encoded one first.
ReuseAudio ==
  /\ pc = "audio"
  /\ \E a \in Tracks : audio[a] # "none"
  /\ track' = IF audio["aac"] # "none" THEN "aac" ELSE "copy"
  /\ pc' = "plan"
  /\ UNCHANGED <<files, target, recorded, done, enc, start, completed, names, stop, budget, intact>>

CopyAudio ==
  /\ pc = "audio"
  /\ \A a \in Tracks : audio[a] = "none"
  /\ audio' = [audio EXCEPT !["copy"] = "open"]
  /\ pc' = "copying"
  /\ UNCHANGED <<seg, rows, listFrom, target, recorded, done, enc, attempt, stop, budget, intact>>

\* A copy that fails, for the container or for a stop, is dropped and the track
\* is re-encoded instead.
CopyAudioEnds ==
  /\ pc = "copying"
  /\ \/ /\ audio' = [audio EXCEPT !["copy"] = "whole"]
        /\ track' = "copy" /\ pc' = "plan"
     \/ /\ audio' = [audio EXCEPT !["copy"] = "none", !["aac"] = "open"]
        /\ pc' = "encodingAudio" /\ UNCHANGED track
  /\ UNCHANGED <<seg, rows, listFrom, target, recorded, done, enc, start, completed,
                 names, stop, budget, intact>>

EncodeAudioEnds ==
  /\ pc = "encodingAudio"
  /\ \/ /\ audio' = [audio EXCEPT !["aac"] = "whole"]
        /\ track' = "aac" /\ pc' = "plan"
        /\ UNCHANGED budget
     \/ /\ (stop /\ UNCHANGED budget) \/ (~stop /\ Spend("fail"))
        /\ pc' = "failing"
        /\ UNCHANGED <<audio, track>>
  /\ UNCHANGED <<seg, rows, listFrom, target, recorded, done, enc, start, completed,
                 names, stop, intact>>

-----------------------------------------------------------------------------
(* What is left to encode *)

\* Files are believed as far as the record counts and the names exist.
Reusable == {k \in Segs : k < recorded /\ \A j \in 0..k : seg[j] # "none"}
StartNumber == Cardinality(Reusable)

\* A list reaches the end of the timeline when an attempt that began at its
\* start has closed the last segment: listed times count from where an attempt
\* began.
ListReachesEnd == listFrom = 0 /\ rows = Cuts

\* Mutant: one segment more is expected than there are marks.
EncodeComplete_OffByOne(n) == n > Total \/ (rows > 0 /\ n > rows /\ ListReachesEnd)

EncodeComplete(n) == n >= Total \/ (rows > 0 /\ n >= rows /\ ListReachesEnd)

\* Mutant: the last recorded segment is encoded again.
PlanSegments_OneBack ==
  /\ pc = "plan"
  /\ start' = IF StartNumber = 0 THEN 0 ELSE StartNumber - 1
  /\ IF EncodeComplete(StartNumber)
     THEN pc' = "assemble" /\ names' = StartNumber /\ UNCHANGED <<rows, listFrom, completed>>
     ELSE /\ rows' = 0 /\ listFrom' = start' /\ completed' = start'
          /\ pc' = "encode" /\ UNCHANGED names
  /\ UNCHANGED <<seg, audio, target, recorded, done, enc, track, stop, budget, intact>>

\* Nothing left: assemble what is there.  Otherwise the list is removed and the
\* encoder started at the first missing segment's mark.
PlanSegments ==
  /\ pc = "plan"
  /\ start' = StartNumber
  /\ IF EncodeComplete(StartNumber)
     THEN pc' = "assemble" /\ names' = StartNumber /\ UNCHANGED <<rows, listFrom, completed>>
     ELSE /\ rows' = 0 /\ listFrom' = start' /\ completed' = start'
          /\ pc' = "encode" /\ UNCHANGED names
  /\ UNCHANGED <<seg, audio, target, recorded, done, enc, track, stop, budget, intact>>

-----------------------------------------------------------------------------
(* The encoder, a process of its own, and the watcher of its list *)

OpenSegment ==
  /\ pc = "encode" /\ enc = "idle"
  /\ Current < Cuts
  /\ seg' = [seg EXCEPT ![Current] = "open"]
  /\ enc' = "writing"
  /\ UNCHANGED <<rows, listFrom, audio, target, recorded, done, pc, attempt, stop, budget, intact>>

CloseSegment ==
  /\ pc = "encode" /\ enc = "writing"
  /\ seg' = [seg EXCEPT ![Current] = "whole"]
  /\ enc' = "closed"
  /\ UNCHANGED <<rows, listFrom, audio, target, recorded, done, pc, attempt, stop, budget, intact>>

ListSegment ==
  /\ pc = "encode" /\ enc = "closed"
  /\ rows' = rows + 1
  /\ enc' = "idle"
  /\ UNCHANGED <<seg, listFrom, audio, target, recorded, done, pc, attempt, stop, budget, intact>>

\* Mutant: the segment in flight is counted.
Count_InFlight ==
  LET total == IF enc = "idle" THEN start + rows ELSE start + rows + 1
  IN  IF total > completed THEN completed' = total /\ recorded' = total
                           ELSE UNCHANGED <<completed, recorded>>

\* markCompletedSegments: the closed segments, if there are more than last time.
Count ==
  LET total == start + rows
  IN  IF total > completed THEN completed' = total /\ recorded' = total
                           ELSE UNCHANGED <<completed, recorded>>

WatchList ==
  /\ pc = "encode" /\ start + rows > completed
  /\ Count
  /\ UNCHANGED <<files, target, done, pc, enc, start, track, names, stop, budget, intact>>

\* The encoder ends by itself and the watcher looks once more: a stop that came
\* too late to kill it still ends the attempt, and a series of no segment fails.
EncoderExits ==
  /\ pc = "encode" /\ enc = "idle" /\ Current >= Cuts
  /\ Count
  /\ IF ~stop /\ rows > 0
     THEN pc' = "assemble" /\ names' = start + rows
     ELSE pc' = "failing" /\ UNCHANGED names
  /\ UNCHANGED <<files, target, done, enc, start, track, stop, budget, intact>>

\* The encoder fails, or is killed by the stop.
EncoderDies ==
  /\ pc = "encode"
  /\ (stop /\ UNCHANGED budget) \/ (~stop /\ Spend("fail"))
  /\ Count
  /\ pc' = "failing" /\ enc' = "idle"
  /\ UNCHANGED <<files, target, done, start, track, names, stop, intact>>

-----------------------------------------------------------------------------
(* The end of an attempt *)

AssemblyOpens ==
  /\ pc = "assemble"
  /\ target' = "partial"
  /\ pc' = "joining"
  /\ UNCHANGED <<files, recorded, done, enc, attempt, stop, budget, intact>>

\* The output is what its pieces are.
AssemblyEnds ==
  /\ pc = "joining"
  /\ target' = IF /\ names = Cuts
                  /\ \A k \in Segs : seg[k] = "whole"
                  /\ audio[track] = "whole"
               THEN "whole" ELSE "damaged"
  /\ pc' = "assembled"
  /\ UNCHANGED <<files, recorded, done, enc, attempt, stop, budget, intact>>

AssemblyFails ==
  /\ pc \in {"assemble", "joining"}
  /\ (stop /\ UNCHANGED budget) \/ (~stop /\ Spend("fail"))
  /\ pc' = "failing"
  /\ UNCHANGED <<files, target, recorded, done, enc, attempt, stop, intact>>

RemoveSegmentDir ==
  /\ pc = "assembled"
  /\ NoFiles
  /\ pc' = "removed"
  /\ UNCHANGED <<target, recorded, done, enc, attempt, stop, budget, intact>>

Leave == pc' = "down" /\ enc' = "idle" /\ stop' = FALSE

MarkSucceeded ==
  /\ pc = "removed"
  /\ done' = TRUE
  /\ Leave
  /\ UNCHANGED <<files, target, recorded, attempt, budget, intact>>

MarkFailed ==
  /\ pc = "failing"
  /\ Leave
  /\ UNCHANGED <<files, target, recorded, done, attempt, budget, intact>>

-----------------------------------------------------------------------------
(* The environment *)

RequestStop ==
  /\ pc # "down" /\ ~stop
  /\ Spend("stop")
  /\ stop' = TRUE
  /\ UNCHANGED <<files, target, recorded, done, pc, enc, attempt, intact>>

\* A crash after the segments were removed and before the success was recorded
\* leaves a record of files that are gone.
Crash ==
  /\ pc # "down"
  /\ Spend("crash")
  /\ Leave
  /\ intact' = IF pc = "removed" THEN FALSE ELSE intact
  /\ UNCHANGED <<files, target, recorded, done, attempt>>

\* Some of the files are cleaned up externally.
CleanFiles ==
  /\ pc = "down" /\ ~done
  /\ Spend("clean")
  /\ \E gone \in SUBSET Segs : seg' = [k \in Segs |-> IF k \in gone THEN "none" ELSE seg[k]]
  /\ audio' \in {audio, [a \in Tracks |-> "none"]}
  /\ intact' = FALSE
  /\ UNCHANGED <<rows, listFrom, target, recorded, done, pc, enc, attempt, stop>>

\* --restart, a source that changed or an output that was removed clear the
\* record and leave the files, which no longer belong to it.
ClearRecord ==
  /\ pc = "down"
  /\ Spend("reset")
  /\ recorded' = 0 /\ done' = FALSE
  /\ target' = IF target = "none" THEN "none" ELSE "damaged"
  /\ seg' = [k \in Segs |-> IF seg[k] = "whole" THEN "stale" ELSE seg[k]]
  /\ audio' = [a \in Tracks |-> IF audio[a] = "whole" THEN "stale" ELSE audio[a]]
  /\ intact' = TRUE
  /\ UNCHANGED <<rows, listFrom, pc, enc, attempt, stop>>

-----------------------------------------------------------------------------

Prepare  == StartAttempt \/ PrepareDir \/ ReuseAudio \/ CopyAudio \/ CopyAudioEnds
              \/ EncodeAudioEnds \/ PlanSegments
Encoder  == OpenSegment \/ CloseSegment \/ ListSegment \/ EncoderExits \/ EncoderDies
Assembly == AssemblyOpens \/ AssemblyEnds \/ AssemblyFails \/ RemoveSegmentDir
Attempt  == Prepare \/ Encoder \/ WatchList \/ Assembly \/ MarkSucceeded \/ MarkFailed

Next == Attempt \/ RequestStop \/ Crash \/ CleanFiles \/ ClearRecord

Spec == Init /\ [][Next]_vars

\* The user resumes an unfinished task, and the children of an attempt end.
FairSpec == Spec /\ WF_vars(Attempt)

-----------------------------------------------------------------------------
(* Properties *)

TypeOK ==
  /\ seg \in [Segs -> Contents] /\ audio \in [Tracks -> Contents]
  /\ rows \in 0..Cuts /\ listFrom \in 0..Cuts
  /\ target \in {"none", "partial", "damaged", "whole"}
  /\ recorded \in 0..Cuts /\ done \in BOOLEAN
  /\ pc \in Locations /\ enc \in {"idle", "writing", "closed"}
  /\ start \in 0..Cuts /\ completed \in 0..Cuts /\ names \in 0..Cuts
  /\ track \in Tracks
  /\ stop \in BOOLEAN /\ budget \in 0..Budget /\ intact \in BOOLEAN

\* What a finished task leaves is every frame of the source once, with its whole
\* track, through any interruptions, as long as the files the record counts are
\* left alone.
OutputIsWhole == done /\ intact => target = "whole"

\* The record is about the files that are there.
Live == pc # "removed" /\ ~done /\ intact

\* A recorded segment is on the disk, closed by the encoder: the count the next
\* attempt believes never includes a file that was in flight.
RecordedAreWhole == Live => \A k \in Segs : k < recorded => seg[k] = "whole"

\* A segment on record is never encoded again.
RecordedIsNotEncodedAgain ==
  [][intact => \A k \in Segs : seg[k] = "whole" /\ seg'[k] = "open" => k >= recorded]_vars

\* However often it is stopped, a task that is resumed is finished in the end.
EventuallyDone == <>[]done

=============================================================================
