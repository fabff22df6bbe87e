------------------------- MODULE SegmentResumeProofs -------------------------
(***************************************************************************)
(* Proofs about SegmentResume for any number of segments, marks and        *)
(* events.                                                                 *)
(***************************************************************************)
EXTENDS SegmentResume, FiniteSetTheorems, TLAPS

\* The attempt has its audio track.
Tracked == {"plan", "encode", "assemble", "joining"}

\* A track that may be taken later is whole, and there is one once a segment is
\* recorded: a former attempt cannot have got so far without it.
AudioInv ==
  intact =>
    /\ (pc = "audio" \/ pc \in Tracked \/ (Live /\ recorded > 0)) =>
         \A a \in Tracks : audio[a] \in {"none", "whole"}
    /\ Live /\ recorded > 0 => \E a \in Tracks : audio[a] = "whole"
    /\ pc \in Tracked => audio[track] = "whole"
    /\ pc \in {"copying", "encodingAudio"} => recorded = 0
    /\ pc = "copying" => audio["aac"] = "none"
    /\ pc = "encodingAudio" => audio["copy"] = "none"

\* The encoder never passes the last segment.
PlaceInv ==
  /\ enc # "idle" => pc = "encode" /\ start + rows < Cuts
  /\ pc = "encode" => start + rows <= Cuts

\* It is never behind the record, and leaves whole segments behind.
EncoderInv ==
  intact =>
    /\ pc = "encode" => recorded <= start + rows
    /\ pc = "encode" => \A k \in Segs : k < start + rows => seg[k] = "whole"
    /\ enc = "closed" => seg[start + rows] = "whole"

\* What is assembled is everything, and only that is called a success.
AssemblyInv ==
  /\ pc # "down" => ~done
  /\ intact /\ pc \in {"assemble", "joining"} =>
       names = Cuts /\ \A k \in Segs : seg[k] = "whole"
  /\ intact /\ (pc \in {"assembled", "removed"} \/ done) => target = "whole"

SegmentInv ==
  TypeOK /\ PlaceInv /\ RecordedAreWhole /\ AudioInv /\ EncoderInv /\ AssemblyInv

-----------------------------------------------------------------------------

\* What the plan reuses is counted by segments there are.
LEMMA StartNumberType ==
  ASSUME TypeOK
  PROVE  StartNumber \in 0..Cuts
<1>1. IsFiniteSet(0..(Cuts - 1)) /\ Cardinality(0..(Cuts - 1)) = Cuts
  BY FS_Interval, SegmentResumeAssumption
<1>2. Reusable \subseteq 0..(Cuts - 1)
  BY DEF Reusable, Segs
<1>3. IsFiniteSet(Reusable) /\ Cardinality(Reusable) <= Cuts
  BY <1>1, <1>2, FS_Subset
<1>4. Cardinality(Reusable) \in Nat
  BY <1>3, FS_CardinalityType
<1>5. QED
  BY <1>3, <1>4, SegmentResumeAssumption DEF StartNumber

\* Where every recorded file is whole, it is the recorded count.
LEMMA StartNumberIsRecorded ==
  ASSUME TypeOK, \A k \in Segs : k < recorded => seg[k] = "whole"
  PROVE  StartNumber = recorded
<1>1. Reusable = 0..(recorded - 1)
  BY SegmentResumeAssumption DEF TypeOK, Reusable, Segs
<1>2. Cardinality(0..(recorded - 1)) = recorded
  BY FS_Interval DEF TypeOK
<1>3. QED
  BY <1>1, <1>2 DEF StartNumber

\* It holds before the first attempt.
LEMMA SegmentInit == Init => SegmentInv
<1> SUFFICES ASSUME Init
             PROVE  SegmentInv
  OBVIOUS
<1> USE SegmentResumeAssumption DEF Init, Segs, Tracks
<1>1. done \in BOOLEAN /\ stop \in BOOLEAN /\ intact \in BOOLEAN
  OBVIOUS
<1>2. TypeOK
  BY <1>1 DEF TypeOK, Contents, Locations
<1>3. PlaceInv /\ RecordedAreWhole /\ AudioInv /\ EncoderInv /\ AssemblyInv
  BY DEF PlaceInv, RecordedAreWhole, AudioInv, EncoderInv, AssemblyInv, Live, Tracked
<1>4. QED
  BY <1>2, <1>3 DEF SegmentInv

\* Every step of an attempt and every event keeps it.
LEMMA SegmentStep ==
  ASSUME SegmentInv, [Next]_vars
  PROVE  SegmentInv'
<1> USE SegmentResumeAssumption
<1> USE DEF SegmentInv, Live, Tracked, Segs, Contents, Tracks, Locations, files, attempt
<1>1. CASE StartAttempt
  <2>1. TypeOK'
    BY <1>1
    DEF StartAttempt, TypeOK
  <2>2. PlaceInv' /\ RecordedAreWhole' /\ AudioInv' /\ EncoderInv' /\ AssemblyInv'
    BY <1>1
    DEF StartAttempt, PlaceInv, RecordedAreWhole, AudioInv, EncoderInv, AssemblyInv
  <2>3. QED
    BY <2>1, <2>2
<1>2. CASE PrepareDir
  <2>1. TypeOK'
    BY <1>2
    DEF PrepareDir, NoFiles, TypeOK
  <2>2. AudioInv'
    BY <1>2
    DEF PrepareDir, NoFiles, TypeOK, AudioInv, AssemblyInv
  <2>3. EncoderInv'
    BY <1>2
    DEF PrepareDir, NoFiles, TypeOK, PlaceInv, EncoderInv
  <2>4. PlaceInv' /\ RecordedAreWhole' /\ AssemblyInv'
    BY <1>2
    DEF PrepareDir, NoFiles, PlaceInv, RecordedAreWhole, AssemblyInv
  <2>5. QED
    BY <2>1, <2>2, <2>3, <2>4
<1>3. CASE ReuseAudio
  <2>1. TypeOK'
    BY <1>3
    DEF ReuseAudio, TypeOK
  <2>2. PlaceInv' /\ RecordedAreWhole' /\ AudioInv' /\ EncoderInv' /\ AssemblyInv'
    BY <1>3
    DEF ReuseAudio, PlaceInv, RecordedAreWhole, AudioInv, EncoderInv, AssemblyInv
  <2>3. QED
    BY <2>1, <2>2
<1>4. CASE CopyAudio
  <2>1. TypeOK'
    BY <1>4
    DEF CopyAudio, TypeOK
  <2>2. AudioInv'
    BY <1>4
    DEF CopyAudio, TypeOK, AudioInv, AssemblyInv
  <2>3. PlaceInv' /\ RecordedAreWhole' /\ EncoderInv' /\ AssemblyInv'
    BY <1>4
    DEF CopyAudio, PlaceInv, RecordedAreWhole, EncoderInv, AssemblyInv
  <2>4. QED
    BY <2>1, <2>2, <2>3
<1>5. CASE CopyAudioEnds
  <2>1. TypeOK'
    BY <1>5
    DEF CopyAudioEnds, TypeOK
  <2>2. AudioInv'
    BY <1>5
    DEF CopyAudioEnds, TypeOK, AudioInv
  <2>3. PlaceInv' /\ RecordedAreWhole' /\ EncoderInv' /\ AssemblyInv'
    BY <1>5
    DEF CopyAudioEnds, PlaceInv, RecordedAreWhole, EncoderInv, AssemblyInv
  <2>4. QED
    BY <2>1, <2>2, <2>3
<1>6. CASE EncodeAudioEnds
  <2>1. TypeOK'
    BY <1>6
    DEF EncodeAudioEnds, Spend, TypeOK
  <2>2. AudioInv'
    BY <1>6
    DEF EncodeAudioEnds, Spend, TypeOK, AudioInv
  <2>3. PlaceInv' /\ RecordedAreWhole' /\ EncoderInv' /\ AssemblyInv'
    BY <1>6
    DEF EncodeAudioEnds, Spend, PlaceInv, RecordedAreWhole, EncoderInv, AssemblyInv
  <2>4. QED
    BY <2>1, <2>2, <2>3
<1>7. CASE PlanSegments
  <2>a. StartNumber \in 0..Cuts
    BY StartNumberType
  <2>b. intact => StartNumber = recorded
    BY <1>7, StartNumberIsRecorded DEF PlanSegments, RecordedAreWhole, AssemblyInv
  <2>1. TypeOK'
    BY <1>7, <2>a, <2>b
    DEF PlanSegments, EncodeComplete, ListReachesEnd, TypeOK
  <2>2. EncoderInv'
    BY <1>7, <2>a, <2>b
    DEF PlanSegments, EncodeComplete, ListReachesEnd, TypeOK, PlaceInv, RecordedAreWhole,
        AudioInv, EncoderInv, AssemblyInv
  <2>3. AssemblyInv'
    BY <1>7, <2>a, <2>b
    DEF PlanSegments, EncodeComplete, ListReachesEnd, TypeOK, RecordedAreWhole, AssemblyInv
  <2>4. PlaceInv' /\ RecordedAreWhole' /\ AudioInv'
    BY <1>7, <2>a, <2>b
    DEF PlanSegments, EncodeComplete, ListReachesEnd, PlaceInv, RecordedAreWhole, AudioInv
  <2>5. QED
    BY <2>1, <2>2, <2>3, <2>4
<1>8. CASE OpenSegment
  <2>1. TypeOK'
    BY <1>8
    DEF OpenSegment, Current, TypeOK
  <2>2. RecordedAreWhole'
    BY <1>8
    DEF OpenSegment, Current, TypeOK, RecordedAreWhole, EncoderInv, AssemblyInv
  <2>3. PlaceInv' /\ AudioInv' /\ EncoderInv' /\ AssemblyInv'
    BY <1>8
    DEF OpenSegment, Current, PlaceInv, AudioInv, EncoderInv, AssemblyInv
  <2>4. QED
    BY <2>1, <2>2, <2>3
<1>9. CASE CloseSegment
  <2>1. TypeOK'
    BY <1>9
    DEF CloseSegment, Current, TypeOK
  <2>2. EncoderInv'
    BY <1>9
    DEF CloseSegment, Current, TypeOK, PlaceInv, EncoderInv
  <2>3. PlaceInv' /\ RecordedAreWhole' /\ AudioInv' /\ AssemblyInv'
    BY <1>9
    DEF CloseSegment, Current, PlaceInv, RecordedAreWhole, AudioInv, AssemblyInv
  <2>4. QED
    BY <2>1, <2>2, <2>3
<1>10. CASE ListSegment
  <2>1. TypeOK'
    BY <1>10
    DEF ListSegment, Current, TypeOK, PlaceInv
  <2>2. PlaceInv'
    BY <1>10
    DEF ListSegment, Current, TypeOK, PlaceInv
  <2>3. EncoderInv'
    BY <1>10
    DEF ListSegment, Current, TypeOK, EncoderInv
  <2>4. RecordedAreWhole' /\ AudioInv' /\ AssemblyInv'
    BY <1>10
    DEF ListSegment, Current, RecordedAreWhole, AudioInv, AssemblyInv
  <2>5. QED
    BY <2>1, <2>2, <2>3, <2>4
<1>11. CASE EncoderExits
  <2>1. TypeOK'
    BY <1>11
    DEF EncoderExits, Count, Current, TypeOK, PlaceInv
  <2>2. RecordedAreWhole'
    BY <1>11
    DEF EncoderExits, Count, Current, TypeOK, RecordedAreWhole, EncoderInv, AssemblyInv
  <2>3. AudioInv'
    BY <1>11
    DEF EncoderExits, Count, Current, TypeOK, AudioInv
  <2>4. AssemblyInv'
    BY <1>11
    DEF EncoderExits, Count, Current, TypeOK, PlaceInv, EncoderInv, AssemblyInv
  <2>5. PlaceInv' /\ EncoderInv'
    BY <1>11
    DEF EncoderExits, Count, Current, PlaceInv, EncoderInv
  <2>6. QED
    BY <2>1, <2>2, <2>3, <2>4, <2>5
<1>12. CASE EncoderDies
  <2>1. TypeOK'
    BY <1>12
    DEF EncoderDies, Count, Spend, TypeOK, PlaceInv
  <2>2. RecordedAreWhole'
    BY <1>12
    DEF EncoderDies, Count, Spend, TypeOK, RecordedAreWhole, EncoderInv, AssemblyInv
  <2>3. AudioInv'
    BY <1>12
    DEF EncoderDies, Count, Spend, TypeOK, AudioInv
  <2>4. PlaceInv' /\ EncoderInv' /\ AssemblyInv'
    BY <1>12
    DEF EncoderDies, Count, Spend, PlaceInv, EncoderInv, AssemblyInv
  <2>5. QED
    BY <2>1, <2>2, <2>3, <2>4
<1>13. CASE WatchList
  <2>1. TypeOK'
    BY <1>13
    DEF WatchList, Count, TypeOK, PlaceInv
  <2>2. RecordedAreWhole'
    BY <1>13
    DEF WatchList, Count, TypeOK, RecordedAreWhole, EncoderInv, AssemblyInv
  <2>3. AudioInv'
    BY <1>13
    DEF WatchList, Count, TypeOK, AudioInv
  <2>4. EncoderInv'
    BY <1>13
    DEF WatchList, Count, TypeOK, EncoderInv
  <2>5. PlaceInv' /\ AssemblyInv'
    BY <1>13
    DEF WatchList, Count, PlaceInv, AssemblyInv
  <2>6. QED
    BY <2>1, <2>2, <2>3, <2>4, <2>5
<1>14. CASE AssemblyOpens
  <2>1. TypeOK'
    BY <1>14
    DEF AssemblyOpens, TypeOK
  <2>2. PlaceInv' /\ RecordedAreWhole' /\ AudioInv' /\ EncoderInv' /\ AssemblyInv'
    BY <1>14
    DEF AssemblyOpens, PlaceInv, RecordedAreWhole, AudioInv, EncoderInv, AssemblyInv
  <2>3. QED
    BY <2>1, <2>2
<1>15. CASE AssemblyEnds
  <2>1. TypeOK'
    BY <1>15
    DEF AssemblyEnds, TypeOK
  <2>2. AssemblyInv'
    BY <1>15
    DEF AssemblyEnds, TypeOK, PlaceInv, AudioInv, AssemblyInv
  <2>3. PlaceInv' /\ RecordedAreWhole' /\ AudioInv' /\ EncoderInv'
    BY <1>15
    DEF AssemblyEnds, PlaceInv, RecordedAreWhole, AudioInv, EncoderInv
  <2>4. QED
    BY <2>1, <2>2, <2>3
<1>16. CASE AssemblyFails
  <2>1. TypeOK'
    BY <1>16
    DEF AssemblyFails, Spend, TypeOK
  <2>2. PlaceInv' /\ RecordedAreWhole' /\ AudioInv' /\ EncoderInv' /\ AssemblyInv'
    BY <1>16
    DEF AssemblyFails, Spend, PlaceInv, RecordedAreWhole, AudioInv, EncoderInv, AssemblyInv
  <2>3. QED
    BY <2>1, <2>2
<1>17. CASE RemoveSegmentDir
  <2>1. TypeOK'
    BY <1>17
    DEF RemoveSegmentDir, NoFiles, TypeOK
  <2>2. EncoderInv'
    BY <1>17
    DEF RemoveSegmentDir, NoFiles, TypeOK, PlaceInv, EncoderInv
  <2>3. PlaceInv' /\ RecordedAreWhole' /\ AudioInv' /\ AssemblyInv'
    BY <1>17
    DEF RemoveSegmentDir, NoFiles, PlaceInv, RecordedAreWhole, AudioInv, AssemblyInv
  <2>4. QED
    BY <2>1, <2>2, <2>3
<1>18. CASE MarkSucceeded
  <2>1. TypeOK'
    BY <1>18
    DEF MarkSucceeded, Leave, TypeOK
  <2>2. PlaceInv' /\ RecordedAreWhole' /\ AudioInv' /\ EncoderInv' /\ AssemblyInv'
    BY <1>18
    DEF MarkSucceeded, Leave, PlaceInv, RecordedAreWhole, AudioInv, EncoderInv, AssemblyInv
  <2>3. QED
    BY <2>1, <2>2
<1>19. CASE MarkFailed
  <2>1. TypeOK'
    BY <1>19
    DEF MarkFailed, Leave, TypeOK
  <2>2. PlaceInv' /\ RecordedAreWhole' /\ AudioInv' /\ EncoderInv' /\ AssemblyInv'
    BY <1>19
    DEF MarkFailed, Leave, PlaceInv, RecordedAreWhole, AudioInv, EncoderInv, AssemblyInv
  <2>3. QED
    BY <2>1, <2>2
<1>20. CASE RequestStop
  <2>1. TypeOK'
    BY <1>20
    DEF RequestStop, Spend, TypeOK
  <2>2. PlaceInv' /\ RecordedAreWhole' /\ AudioInv' /\ EncoderInv' /\ AssemblyInv'
    BY <1>20
    DEF RequestStop, Spend, PlaceInv, RecordedAreWhole, AudioInv, EncoderInv, AssemblyInv
  <2>3. QED
    BY <2>1, <2>2
<1>21. CASE Crash
  <2>a. intact' \in BOOLEAN
    BY <1>21 DEF Crash, TypeOK
  <2>1. TypeOK'
    <3>1. seg' \in [Segs -> Contents] /\ audio' \in [Tracks -> Contents]
      BY <1>21 DEF Crash, Spend, Leave, TypeOK
    <3>2. rows' \in 0..Cuts /\ listFrom' \in 0..Cuts /\ recorded' \in 0..Cuts
           /\ budget' \in 0..Budget
           /\ start' \in 0..Cuts /\ completed' \in 0..Cuts /\ names' \in 0..Cuts
      BY <1>21 DEF Crash, Spend, Leave, TypeOK
    <3>3. target' \in {"none", "partial", "damaged", "whole"} /\ track' \in Tracks
           /\ pc' \in Locations /\ enc' \in {"idle", "writing", "closed"}
      BY <1>21 DEF Crash, Spend, Leave, TypeOK
    <3>4. done' \in BOOLEAN /\ stop' \in BOOLEAN
      BY <1>21 DEF Crash, Spend, Leave, TypeOK
    <3>5. QED
      BY <2>a, <3>1, <3>2, <3>3, <3>4 DEF TypeOK
  <2>2. PlaceInv' /\ RecordedAreWhole' /\ AudioInv' /\ EncoderInv' /\ AssemblyInv'
    BY <1>21
    DEF Crash, Spend, Leave, PlaceInv, RecordedAreWhole, AudioInv, EncoderInv, AssemblyInv
  <2>3. QED
    BY <2>1, <2>2
<1>22. CASE CleanFiles
  <2>a. intact' \in BOOLEAN
    BY <1>22 DEF CleanFiles, TypeOK
  <2>1. TypeOK'
    <3>1. seg' \in [Segs -> Contents] /\ audio' \in [Tracks -> Contents]
      BY <1>22 DEF CleanFiles, Spend, TypeOK
    <3>2. rows' \in 0..Cuts /\ listFrom' \in 0..Cuts /\ recorded' \in 0..Cuts
           /\ budget' \in 0..Budget
           /\ start' \in 0..Cuts /\ completed' \in 0..Cuts /\ names' \in 0..Cuts
      BY <1>22 DEF CleanFiles, Spend, TypeOK
    <3>3. target' \in {"none", "partial", "damaged", "whole"} /\ track' \in Tracks
           /\ pc' \in Locations /\ enc' \in {"idle", "writing", "closed"}
      BY <1>22 DEF CleanFiles, Spend, TypeOK
    <3>4. done' \in BOOLEAN /\ stop' \in BOOLEAN
      BY <1>22 DEF CleanFiles, Spend, TypeOK
    <3>5. QED
      BY <2>a, <3>1, <3>2, <3>3, <3>4 DEF TypeOK
  <2>2. PlaceInv' /\ RecordedAreWhole' /\ AudioInv' /\ EncoderInv' /\ AssemblyInv'
    BY <1>22
    DEF CleanFiles, Spend, PlaceInv, RecordedAreWhole, AudioInv, EncoderInv, AssemblyInv
  <2>3. QED
    BY <2>1, <2>2
<1>23. CASE ClearRecord
  <2>a. intact' \in BOOLEAN
    BY <1>23 DEF ClearRecord, TypeOK
  <2>1. TypeOK'
    <3>1. seg' \in [Segs -> Contents] /\ audio' \in [Tracks -> Contents]
      BY <1>23 DEF ClearRecord, Spend, TypeOK
    <3>2. rows' \in 0..Cuts /\ listFrom' \in 0..Cuts /\ recorded' \in 0..Cuts
           /\ budget' \in 0..Budget
           /\ start' \in 0..Cuts /\ completed' \in 0..Cuts /\ names' \in 0..Cuts
      BY <1>23 DEF ClearRecord, Spend, TypeOK
    <3>3. target' \in {"none", "partial", "damaged", "whole"} /\ track' \in Tracks
           /\ pc' \in Locations /\ enc' \in {"idle", "writing", "closed"}
      BY <1>23 DEF ClearRecord, Spend, TypeOK
    <3>4. done' \in BOOLEAN /\ stop' \in BOOLEAN
      BY <1>23 DEF ClearRecord, Spend, TypeOK
    <3>5. QED
      BY <2>a, <3>1, <3>2, <3>3, <3>4 DEF TypeOK
  <2>2. EncoderInv'
    BY <1>23
    DEF ClearRecord, Spend, TypeOK, PlaceInv, EncoderInv
  <2>3. PlaceInv' /\ RecordedAreWhole' /\ AudioInv' /\ AssemblyInv'
    BY <1>23
    DEF ClearRecord, Spend, PlaceInv, RecordedAreWhole, AudioInv, AssemblyInv
  <2>4. QED
    BY <2>1, <2>2, <2>3
<1>24. CASE UNCHANGED vars
  <2>1. TypeOK'
    BY <1>24
    DEF vars, TypeOK
  <2>2. PlaceInv' /\ RecordedAreWhole' /\ AudioInv' /\ EncoderInv' /\ AssemblyInv'
    BY <1>24
    DEF vars, PlaceInv, RecordedAreWhole, AudioInv, EncoderInv, AssemblyInv
  <2>3. QED
    BY <2>1, <2>2
<1>25. QED
  BY <1>1, <1>2, <1>3, <1>4, <1>5, <1>6, <1>7, <1>8, <1>9, <1>10, <1>11, <1>12, <1>13,
      <1>14,
     <1>15, <1>16, <1>17, <1>18, <1>19, <1>20, <1>21, <1>22, <1>23, <1>24
  DEF Next, Attempt, Prepare, Encoder, Assembly

-----------------------------------------------------------------------------

\* It holds in every reachable state.
LEMMA SegmentInvariant == Spec => []SegmentInv
<1>1. Init => SegmentInv
  BY SegmentInit
<1>2. SegmentInv /\ [Next]_vars => SegmentInv'
  BY SegmentStep
<1>3. QED
  BY <1>1, <1>2, PTL DEF Spec

\* The files, the record and the attempt are always well typed: no count passes
\* the segments there are, also when files disappear (runSegmentedEncoding).
THEOREM TypeCorrect == Spec => []TypeOK
<1>1. SegmentInv => TypeOK
  BY DEF SegmentInv
<1>2. QED
  BY <1>1, SegmentInvariant, PTL

\* A task that succeeds (MarkSucceeded) leaves a whole output, for any number of
\* segments, stops, crashes, failures and restarts, while nobody removes files
\* the record counts.
THEOREM OutputsAreWhole == Spec => []OutputIsWhole
<1>1. SegmentInv => OutputIsWhole
  BY DEF SegmentInv, AssemblyInv, OutputIsWhole
<1>2. QED
  BY <1>1, SegmentInvariant, PTL

\* What markCompletedSegments records is closed and stays on the disk.
THEOREM RecordsAreWhole == Spec => []RecordedAreWhole
<1>1. SegmentInv => RecordedAreWhole
  BY DEF SegmentInv
<1>2. QED
  BY <1>1, SegmentInvariant, PTL

\* Only OpenSegment opens a segment, and it is never behind the record.
LEMMA OnlyNewAreOpened ==
  ASSUME SegmentInv, [Next]_vars, intact,
         NEW k \in Segs, seg[k] = "whole", seg'[k] = "open"
  PROVE  k >= recorded
<1> USE SegmentResumeAssumption DEF SegmentInv, TypeOK, Segs
<1>1. CASE OpenSegment
  <2>1. k = start + rows
    BY <1>1 DEF OpenSegment, Current
  <2>2. recorded <= start + rows
    BY <1>1 DEF OpenSegment, EncoderInv
  <2>3. QED
    BY <2>1, <2>2
<1>2. CASE CloseSegment
  BY <1>2 DEF CloseSegment
<1>3. CASE PrepareDir \/ RemoveSegmentDir
  BY <1>3 DEF PrepareDir, RemoveSegmentDir, NoFiles, files
<1>4. CASE CleanFiles \/ ClearRecord
  BY <1>4 DEF CleanFiles, ClearRecord
<1>5. CASE UNCHANGED seg
  BY <1>5
<1>6. StartAttempt \/ ReuseAudio \/ CopyAudio \/ CopyAudioEnds \/ EncodeAudioEnds
        \/ PlanSegments \/ ListSegment \/ EncoderExits \/ EncoderDies \/ WatchList
        \/ AssemblyOpens \/ AssemblyEnds \/ AssemblyFails \/ MarkSucceeded \/ MarkFailed
        \/ RequestStop \/ Crash \/ UNCHANGED vars
      => UNCHANGED seg
  BY DEF StartAttempt, ReuseAudio, CopyAudio, CopyAudioEnds, EncodeAudioEnds, PlanSegments,
         ListSegment, EncoderExits, EncoderDies, WatchList, AssemblyOpens, AssemblyEnds,
         AssemblyFails, MarkSucceeded, MarkFailed, RequestStop, Crash, files, vars
<1>7. QED
  BY <1>1, <1>2, <1>3, <1>4, <1>5, <1>6 DEF Next, Attempt, Prepare, Encoder, Assembly

\* A resumed attempt (planSegments) re-encodes no segment that is on record.
THEOREM RecordedIsKept == Spec => RecordedIsNotEncodedAgain
<1>1. SegmentInv /\ [Next]_vars =>
        [intact => \A k \in Segs : seg[k] = "whole" /\ seg'[k] = "open" => k >= recorded]_vars
  BY OnlyNewAreOpened
<1>2. QED
  BY <1>1, SegmentInvariant, PTL DEF Spec, RecordedIsNotEncodedAgain

=============================================================================
