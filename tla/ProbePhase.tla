----------------------------- MODULE ProbePhase -----------------------------
(***************************************************************************)
(* The probe phase over a batch (src/video/encode_probe.cpp,               *)
(* runProbePhase) of several processes that share one decision cache       *)
(* (src/video/probe_cache.cpp).  A decision is abstracted to the version   *)
(* of the source it was measured on; a cache key is the video and its      *)
(* version, which size and time of the file stand for.                     *)
(***************************************************************************)
EXTENDS Integers, FiniteSets

CONSTANTS
  Probers,      (* processes                                                *)
  NumVideos,    (* the videos, in the order both are given them             *)
  MaxEntries,   (* kMaxEntries                                              *)
  MaxVersion,   (* bound: how often a source is replaced                    *)
  MaxRuns,      (* bound: probe phases                                      *)
  TornCache     (* model value: a cache file that does not parse            *)

ASSUME ProbeAssumption ==
  {MaxEntries, NumVideos} \subseteq Nat \ {0} /\ {MaxVersion, MaxRuns} \subseteq Nat

Videos == 1..NumVideos

VARIABLES
  version,    (* video -> the version on disk                               *)
  cacheFile,  (* the decisions stored: a set of entries, or TornCache       *)
  clockMs,    (* updatedAtMs of the latest save                             *)
  runsDone,   (* bound                                                      *)
  prober      (* process -> its phase                                       *)

probeVars == <<version, cacheFile, clockMs, runsDone, prober>>

Idle == [pc |-> "idle"]
Unprobed == [probed |-> FALSE, fromCache |-> FALSE, of |-> 0, raced |-> FALSE]

ProbeInit ==
  /\ version = [v \in Videos |-> 1]
  /\ cacheFile = {}
  /\ clockMs = 0 /\ runsDone = 0
  /\ prober = [p \in Probers |-> Idle]

\* load: a missing, corrupt or foreign file holds nothing.
Loaded == IF cacheFile = TornCache THEN {} ELSE cacheFile

\* Mutant: a key of the path alone.
KeyOf_Path(v) == [video |-> v, ver |-> 1]

\* cacheKeyForInput.
KeyOf(v) == [video |-> v, ver |-> version[v]]

Hits(v) == {e \in Loaded : e.key = KeyOf(v)}

HitPlan(v) == [probed |-> TRUE, fromCache |-> TRUE, raced |-> FALSE,
               of |-> (CHOOSE e \in Hits(v) : TRUE).of]

\* The tasks of some videos: each once, in their order; there is one way to do it.
TasksOf(vids) ==
  {s \in [1..Cardinality(vids) -> vids] :
     /\ \A v \in vids : \E t \in DOMAIN s : s[t] = v
     /\ \A t, u \in DOMAIN s : t < u => s[t] < s[u]}

\* scanProbeCache: hits fill their plans, the other videos become tasks.
ScanCache(p) ==
  /\ prober[p].pc = "idle" /\ runsDone < MaxRuns
  /\ runsDone' = runsDone + 1
  /\ \E tasks \in TasksOf({v \in Videos : Hits(v) = {}}) :
       prober' = [prober EXCEPT ![p] =
         [pc |-> "probe", stop |-> FALSE, staged |-> {},
          plans |-> [v \in Videos |-> IF Hits(v) = {} THEN Unprobed ELSE HitPlan(v)],
          taskVids |-> tasks, outcomes |-> [t \in DOMAIN tasks |-> "waiting"]]]
  /\ UNCHANGED <<version, cacheFile, clockMs>>

\* probeSingleFile as one task: a decision, or a skip for a short video and for one
\* that could not be measured; the index of the task is not that of the video.
ProbeTask(p, t) ==
  /\ prober[p].pc = "probe"
  /\ t \in DOMAIN prober[p].outcomes /\ prober[p].outcomes[t] = "waiting"
  /\ LET v == prober[p].taskVids[t]
         measured == [Unprobed EXCEPT !.probed = TRUE, !.of = version[v]]
     IN \E plan \in {Unprobed, measured} :
          prober' = [prober EXCEPT ![p].plans[v] = plan, ![p].outcomes[t] = "ended"]
  /\ UNCHANGED <<version, cacheFile, clockMs, runsDone>>

\* A stop request: tasks not begun are skipped.
StopProbing(p) ==
  /\ prober[p].pc = "probe" /\ ~prober[p].stop
  /\ prober' = [prober EXCEPT ![p].stop = TRUE,
       ![p].outcomes = [t \in DOMAIN @ |-> IF @[t] = "waiting" THEN "skipped" ELSE @[t]]]
  /\ UNCHANGED <<version, cacheFile, clockMs, runsDone>>

\* Mutant: a plan that kept the default CQ is stored like a decision.
Fresh_Any(plan) == ~plan.fromCache

\* flushCachePlans: fresh decisions only.
Fresh(plan) == plan.probed /\ ~plan.fromCache

\* The key of an update is computed after the probing, not before.
UpdatesOf(p) == {[key |-> KeyOf(v), of |-> prober[p].plans[v].of,
                  raced |-> prober[p].plans[v].raced] :
                   v \in {w \in Videos : Fresh(prober[p].plans[w])}}

TasksJoined(p) ==
  /\ prober[p].pc = "probe"
  /\ \A t \in DOMAIN prober[p].outcomes : prober[p].outcomes[t] /= "waiting"
  /\ prober' = [prober EXCEPT ![p].pc =
       IF prober[p].stop THEN "canceled" ELSE IF UpdatesOf(p) = {} THEN "collect" ELSE "save"]
  /\ UNCHANGED <<version, cacheFile, clockMs, runsDone>>

\* Mutant: an update is appended beside the entry of the same key.
Merged_Appended(entries, updates) == entries \cup updates

\* An update replaces the entry of its key.
CacheMerged(entries, updates) ==
  {e \in entries : \A u \in updates : u.key /= e.key} \cup updates

\* Mutant: the cap is never applied.
Evict_None(entries) == {entries}

\* The newest entries up to the cap; equal times are ordered anyhow.
Evict(entries) ==
  IF Cardinality(entries) <= MaxEntries THEN {entries}
  ELSE {s \in SUBSET entries :
          /\ Cardinality(s) = MaxEntries
          /\ \A e \in s, f \in entries \ s : e.ts >= f.ts}

\* save reads the file again and merges; another process may save in between.
MergeSave(p) ==
  /\ prober[p].pc = "save"
  /\ clockMs' = clockMs + 1
  /\ LET stamped == {[key |-> u.key, of |-> u.of, raced |-> u.raced, ts |-> clockMs + 1] :
                       u \in UpdatesOf(p)}
     IN \E kept \in Evict(CacheMerged(Loaded, stamped)) :
          prober' = [prober EXCEPT ![p].staged = kept, ![p].pc = "replace"]
  /\ UNCHANGED <<version, cacheFile, runsDone>>

\* The rename; a staging file that could not be written in full is renamed, too,
\* and one that could not be opened, or a refused rename, leaves the old file.
ReplaceCache(p) ==
  /\ prober[p].pc = "replace"
  /\ cacheFile' \in {prober[p].staged, TornCache, cacheFile}
  /\ prober' = [prober EXCEPT ![p].pc = "collect"]
  /\ UNCHANGED <<version, clockMs, runsDone>>

\* Mutant: the flags of the tasks are read at the indexes of the videos.
MeasuredVids_ByTask(phase) == {t \in DOMAIN phase.outcomes : phase.outcomes[t] /= "skipped"}

\* The attempted tasks, mapped back to videos.
MeasuredVids(phase) ==
  {phase.taskVids[t] : t \in {u \in DOMAIN phase.outcomes : phase.outcomes[u] /= "skipped"}}

\* collectProbeResults keeps what was measured or decided.
CollectPlans(p) ==
  /\ prober[p].pc = "collect"
  /\ LET kept == {v \in Videos : prober[p].plans[v].probed \/ v \in MeasuredVids(prober[p])}
     IN prober' = [prober EXCEPT ![p] =
          [pc |-> "done", results |-> [v \in kept |-> prober[p].plans[v]]]]
  /\ UNCHANGED <<version, cacheFile, clockMs, runsDone>>

\* The caller takes the plans.  (A process that ends earlier leaves the cache as a
\* refused rename does.)
LeaveProbe(p) ==
  /\ prober[p].pc \in {"canceled", "done"}
  /\ prober' = [prober EXCEPT ![p] = Idle]
  /\ UNCHANGED <<version, cacheFile, clockMs, runsDone>>

Probing(p) == prober[p].pc \in {"probe", "save", "replace", "collect"}

\* A source is replaced; history: the plans of the phases at work on it are marked.
ReplaceVideo(v) ==
  /\ version[v] < MaxVersion
  /\ version' = [version EXCEPT ![v] = @ + 1]
  /\ prober' = [p \in Probers |-> IF Probing(p) THEN [prober[p] EXCEPT !.plans[v].raced = TRUE]
                                  ELSE prober[p]]
  /\ UNCHANGED <<cacheFile, clockMs, runsDone>>

ProbeNext ==
  \/ \E p \in Probers :
       \/ ScanCache(p) \/ StopProbing(p) \/ TasksJoined(p)
       \/ MergeSave(p) \/ ReplaceCache(p) \/ CollectPlans(p) \/ LeaveProbe(p)
       \/ \E t \in Videos : ProbeTask(p, t)
  \/ \E v \in Videos : ReplaceVideo(v)

ProbeSpec == ProbeInit /\ [][ProbeNext]_probeVars

-----------------------------------------------------------------------------
(* Properties *)

\* What the cache says of a version of a video was measured on that version, unless
\* the source was replaced while it was probed; one entry a key, within the cap,
\* whatever other processes save in between (flushCachePlans, probecache::save).
CacheIsTrue ==
  cacheFile /= TornCache =>
    /\ Cardinality(cacheFile) <= MaxEntries
    /\ \A e, f \in cacheFile : e.key = f.key => e = f
    /\ \A e \in cacheFile : e.of = e.key.ver \/ e.raced

\* A phase that was not stopped returns a plan for every video, measured, cached or
\* with the default (collectProbeResults): the encode stage drops none.
EveryVideoHasAPlan ==
  \A p \in Probers : prober[p].pc = "done" => DOMAIN prober[p].results = Videos

ProbingIsSound == CacheIsTrue /\ EveryVideoHasAPlan
=============================================================================
