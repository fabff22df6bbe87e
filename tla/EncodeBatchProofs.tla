-------------------------- MODULE EncodeBatchProofs --------------------------
(***************************************************************************)
(* Proofs about EncodeBatch for any finite set of items and of workers and *)
(* any configurations: what the summary, the exit code, the saved state    *)
(* and the monitor's counters say of each item is what happened to it.     *)
(***************************************************************************)
EXTENDS EncodeBatch, FiniteSetTheorems, TLAPS

Early    == {"scan", "probe", "prompt", "abort", "planned"}
Working  == {"encode", "settle", "packPrompt", "pack"}
Verdicts == {"succeeded", "failed"}

Held    == {w \in Workers : item[w] # None}
HeldBy(i) == \E w \in Workers : item[w] = i

\* No worker has claimed the item yet.
Untouched(i) ==
  /\ outcome[i] = "pending" /\ record[i] \in {"pending", "interrupted"}
  /\ i \notin ended \cup victims \cup killed \cup failedRun

\* Its encode is in progress, and has returned.
Running(i) ==
  /\ outcome[i] = "pending" /\ record[i] = "running"
  /\ i \notin ended \cup victims \cup killed \cup failedRun

Returned(i, r) ==
  /\ outcome[i] = "pending" /\ i \in ended /\ i \notin victims \cup failedRun
  /\ i \in killed => r = "failed" /\ stop

\* Its task is over: the record has the verdict, unless the task ended without an
\* encode, and a failure is the stop's or its own.
JudgedAs(i, r) ==
  /\ r \in Verdicts
  /\ i \in ended => record[i] = r
  /\ i \notin ended =>
       /\ r = "failed" /\ i \notin killed
       /\ record[i] \in IF i \in victims THEN {"pending", "interrupted"}
                                         ELSE {"running", "interrupted"}
  /\ i \in victims => r = "failed" /\ i \notin failedRun
  /\ i \in killed => i \in victims
  /\ i \in failedRun => r = "failed" /\ i \in ended

\* The same with the outcome it was given, and after the victims were cleared.
Judged(i) ==
  \E r \in Verdicts :
    /\ JudgedAs(i, r)
    /\ outcome[i] = IF i \in victims /\ stage # "encode" THEN "pending" ELSE r

RecoveredStory(i) ==
  /\ outcome[i] = "succeeded" /\ record[i] = "succeeded"
  /\ i \notin ended \cup victims \cup killed \cup failedRun

-----------------------------------------------------------------------------

SetTypes ==
  /\ skipped \subseteq pending /\ pending \subseteq Items
  /\ left \subseteq pending \ skipped
  /\ ended \subseteq pending /\ victims \subseteq pending
  /\ killed \subseteq ended /\ failedRun \subseteq ended
  /\ seen \subseteq Items /\ current \in Items \cup {None}

FunctionTypes ==
  /\ pc \in [Workers -> {"idle", "check", "start", "encode", "mark", "judge", "hook", "gone"}]
  /\ item \in [Workers -> Items \cup {None}]
  /\ result \in [Workers -> {"succeeded", "failed", None}]
  /\ active \in [Workers -> Items \cup {None}]
  /\ outcome \in [Items -> {"pending", "succeeded", "failed"}]
  /\ record \in [Items -> {"pending", "interrupted", "running", "succeeded", "failed"}]

ModeTypes ==
  /\ config \in Configs
  /\ stage \in Early \cup Working \cup {"exit"}
  /\ monitor \in {"off", "scan", "decide", "render", "read", "left"}
  /\ exitCode \in {None, 0, 1, Canceled}
  /\ stop \in BOOLEAN /\ stateFile \in BOOLEAN

\* Where a worker is and what it holds.
WorkerHolds(w) ==
  /\ item[w] = None <=> pc[w] \in {"idle", "gone"}
  /\ pc[w] # "gone" => stage = "encode" /\ w \in Pool
  /\ pc[w] = "check" => ~config.verbose
  /\ IF pc[w] \in {"mark", "judge", "hook"} THEN result[w] \in Verdicts ELSE result[w] = None
  /\ active[w] = IF pc[w] \in {"encode", "mark", "judge"} /\ ~config.verbose
                   THEN item[w] ELSE None
  /\ item[w] # None => item[w] \in pending \ skipped /\ item[w] \notin left

\* What has happened to the item a worker holds.
WorkerTells(w) ==
  /\ pc[w] \in {"check", "start"} => Untouched(item[w])
  /\ pc[w] = "encode" => Running(item[w])
  /\ pc[w] = "mark" => Returned(item[w], result[w]) /\ record[item[w]] = "running"
  /\ pc[w] = "judge" => Returned(item[w], result[w]) /\ record[item[w]] = result[w]
  /\ pc[w] = "hook" => outcome[item[w]] = "pending" /\ JudgedAs(item[w], result[w])

PoolInv ==
  /\ \A w \in Workers : WorkerHolds(w) /\ WorkerTells(w)
  /\ \A v, w \in Workers : item[v] = item[w] /\ item[v] # None => v = w

\* Every item has a story, and the one of its place.
ItemsInv ==
  /\ \A i \in Items \ pending : RecoveredStory(i)
  /\ \A i \in pending : Untouched(i) \/ HeldBy(i) \/ Judged(i)
  /\ \A i \in skipped \cup left : Untouched(i)
  /\ stage \in Early => left = {} /\ \A i \in pending : Untouched(i)
  /\ stage \in Working =>
       \A i \in pending : Untouched(i) => i \in skipped \cup left \/ HeldBy(i)

\* Only a stop leaves items behind.
StopInv ==
  /\ ~stop => victims = {}
  /\ stage = "encode" /\ ~stop /\ (\E w \in Pool : pc[w] = "gone") => left = {}
  /\ stage = "settle" /\ ~stop => left = {}
  /\ stage \in {"packPrompt", "pack"} => left = {} /\ victims = {}
  /\ stage = "packPrompt" => pending = {}

EndInv ==
  /\ stage # "exit" => stateFile
  /\ EndIsHonest

\* The count never passes the total.
CountInv == finished \in 0..Total /\ CountIsComplete

BatchTypes == SetTypes /\ FunctionTypes /\ ModeTypes

EncodeInv == BatchTypes /\ CountInv /\ PoolInv /\ ItemsInv /\ StopInv /\ EndInv

-----------------------------------------------------------------------------
(* Lemmas about counting items and workers *)

LEMMA ItemsAreCounted ==
  ASSUME NEW S, S \subseteq Items
  PROVE  IsFiniteSet(S) /\ Cardinality(S) \in Nat
<1>1. IsFiniteSet(Items)
  BY EncodeBatchAssumption
<1>2. IsFiniteSet(S)
  BY <1>1, FS_Subset
<1>3. QED
  BY <1>2, FS_CardinalityType

LEMMA WorkersAreCounted ==
  ASSUME NEW W, W \subseteq Workers
  PROVE  IsFiniteSet(W) /\ Cardinality(W) \in Nat
<1>1. IsFiniteSet(Workers)
  BY EncodeBatchAssumption
<1>2. IsFiniteSet(W)
  BY <1>1, FS_Subset
<1>3. QED
  BY <1>2, FS_CardinalityType

\* Two sets of items without a common one are counted one after the other.
LEMMA DisjointAdd ==
  ASSUME NEW A, NEW B, A \subseteq Items, B \subseteq Items, A \cap B = {}
  PROVE  Cardinality(A \cup B) = Cardinality(A) + Cardinality(B)
<1>1. IsFiniteSet(A) /\ IsFiniteSet(B) /\ Cardinality(A) \in Nat /\ Cardinality(B) \in Nat
  BY ItemsAreCounted
<1>2. Cardinality(A \cup B) = Cardinality(A) + Cardinality(B) - Cardinality(A \cap B)
  BY <1>1, FS_Union
<1>3. Cardinality(A \cap B) = 0
  BY FS_EmptySet
<1>4. QED
  BY <1>1, <1>2, <1>3

LEMMA ThreePartsAdd ==
  ASSUME NEW A, NEW B, NEW C, A \cup B \cup C = Items,
         A \cap B = {}, A \cap C = {}, B \cap C = {}
  PROVE  Total = Cardinality(A) + Cardinality(B) + Cardinality(C)
<1>1. Cardinality(A \cup B) = Cardinality(A) + Cardinality(B)
  BY DisjointAdd
<1>2. Cardinality((A \cup B) \cup C) = Cardinality(A \cup B) + Cardinality(C)
  BY DisjointAdd
<1>3. QED
  BY <1>1, <1>2 DEF Total

\* Disjoint sets that are as many as the items are all of them.
LEMMA CoveredByCount ==
  ASSUME NEW A, NEW B, A \subseteq Items, B \subseteq Items, A \cap B = {},
         Cardinality(A) + Cardinality(B) >= Total
  PROVE  A \cup B = Items
<1>1. Cardinality(A \cup B) = Cardinality(A) + Cardinality(B)
  BY DisjointAdd
<1>2. IsFiniteSet(Items) /\ Total \in Nat
  BY ItemsAreCounted DEF Total
<1>3. A \cup B \in SUBSET Items
  OBVIOUS
<1>4. /\ Cardinality(A \cup B) <= Cardinality(Items)
      /\ Cardinality(Items) = Cardinality(A \cup B) => Items = A \cup B
  BY <1>2, <1>3, FS_Subset
<1>5. Cardinality(A \cup B) \in Nat
  BY <1>3, ItemsAreCounted
<1>6. QED
  BY <1>1, <1>2, <1>4, <1>5 DEF Total

-----------------------------------------------------------------------------
(* The initial states and the workers' steps *)

LEMMA EncodeBegins == Init => EncodeInv
<1> SUFFICES ASSUME Init
             PROVE  EncodeInv
  OBVIOUS
<1> USE EncodeBatchAssumption DEF Init
<1>1. BatchTypes
  BY DEF BatchTypes, SetTypes, FunctionTypes, ModeTypes, Early
<1>2. CountInv
  <2>1. Total \in Nat
    BY ItemsAreCounted DEF Total
  <2>2. QED
    BY <2>1 DEF CountInv, CountIsComplete
<1>3. PoolInv
  BY DEF PoolInv, WorkerHolds, WorkerTells
<1>4. ItemsInv
  <2>1. \A i \in Items : i \in pending => Untouched(i)
    BY DEF Untouched
  <2>2. \A i \in Items : i \notin pending => RecoveredStory(i)
    BY DEF RecoveredStory
  <2>3. QED
    BY <2>1, <2>2 DEF ItemsInv, Working
<1>5. StopInv /\ EndInv
  BY DEF StopInv, EndInv, EndIsHonest, ExitCodeIsHonest, StateIsKept
<1>6. QED
  BY <1>1, <1>2, <1>3, <1>4, <1>5 DEF EncodeInv

\* Nothing of item j and of the worker v changes.
SameItem(j) ==
  /\ outcome'[j] = outcome[j] /\ record'[j] = record[j]
  /\ j \in ended' <=> j \in ended
  /\ j \in victims' <=> j \in victims
  /\ j \in killed' <=> j \in killed
  /\ j \in failedRun' <=> j \in failedRun

SameWorker(v) ==
  pc'[v] = pc[v] /\ item'[v] = item[v] /\ result'[v] = result[v] /\ active'[v] = active[v]

LEMMA SameStories ==
  ASSUME NEW j, SameItem(j), UNCHANGED stage, stop => stop'
  PROVE  /\ Untouched(j)' <=> Untouched(j)
         /\ Running(j)' <=> Running(j)
         /\ RecoveredStory(j)' <=> RecoveredStory(j)
         /\ Judged(j)' <=> Judged(j)
         /\ \A r : Returned(j, r) => Returned(j, r)'
         /\ \A r : JudgedAs(j, r)' <=> JudgedAs(j, r)
<1> USE DEF SameItem
<1>1. \A r : JudgedAs(j, r)' <=> JudgedAs(j, r)
  BY DEF JudgedAs
<1>2. Judged(j)' <=> Judged(j)
  BY <1>1 DEF Judged
<1>3. QED
  BY <1>1, <1>2 DEF Untouched, Running, RecoveredStory, Returned

LEMMA SameWorkers ==
  ASSUME EncodeInv, NEW v \in Workers, SameWorker(v), item[v] \in Items => SameItem(item[v]),
         UNCHANGED <<stage, config, pending, skipped>>, left' \subseteq left, stop => stop'
  PROVE  WorkerHolds(v)' /\ WorkerTells(v)'
<1>1. WorkerHolds(v) /\ WorkerTells(v) /\ item[v] \in Items \cup {None}
  BY DEF EncodeInv, PoolInv, BatchTypes, FunctionTypes
<1>2. WorkerHolds(v)'
  BY <1>1 DEF WorkerHolds, SameWorker, Pool
<1>3. WorkerTells(v)'
  <2>1. CASE item[v] = None
    BY <1>1, <2>1 DEF WorkerHolds, WorkerTells, SameWorker
  <2>2. CASE item[v] \in Items
    <3>1. PICK i \in Items : i = item[v] /\ i = item'[v]
      BY <2>2 DEF SameWorker
    <3>2. SameItem(i)
      BY <2>2, <3>1
    <3>3. QED
      BY <1>1, <3>1, <3>2, SameStories DEF WorkerTells, SameWorker, SameItem
  <2>3. QED
    BY <1>1, <2>1, <2>2
<1>4. QED
  BY <1>2, <1>3

\* A worker that goes on with its item disturbs nobody else's.
LEMMA HolderGoesOn ==
  ASSUME EncodeInv, NEW w \in Workers, NEW i \in Items, item[w] = i,
         \A v \in Workers : v # w => SameWorker(v),
         \A j \in Items : j # i => SameItem(j),
         UNCHANGED <<mainVars, item, left, stop>>,
         WorkerHolds(w)', WorkerTells(w)'
  PROVE  PoolInv' /\ ItemsInv'
<1> USE EncodeBatchAssumption
<1>1. UNCHANGED <<stage, config, pending, skipped>> /\ i # None
  BY DEF mainVars
<1>2. i \in pending \ skipped /\ i \notin left /\ stage = "encode"
  BY <1>1 DEF EncodeInv, PoolInv, WorkerHolds
<1>3. ASSUME NEW v \in Workers
      PROVE  WorkerHolds(v)' /\ WorkerTells(v)'
  <2>1. CASE v = w
    BY <2>1
  <2>2. CASE v # w
    <3>1. SameWorker(v) /\ item[v] # i
      BY <1>1, <2>2 DEF EncodeInv, PoolInv
    <3>2. QED
      BY <1>1, <3>1, SameWorkers
  <2>3. QED
    BY <2>1, <2>2
<1>4. PoolInv'
  BY <1>3 DEF PoolInv, EncodeInv
<1>5. \A j \in Items : HeldBy(j)' <=> HeldBy(j)
  BY DEF HeldBy
<1>6. \A j \in Items : j # i => /\ Untouched(j)' <=> Untouched(j)
                                /\ RecoveredStory(j)' <=> RecoveredStory(j)
                                /\ Judged(j)' <=> Judged(j)
  BY <1>1, SameStories
<1>7. HeldBy(i)'
  BY DEF HeldBy
<1>8. pending \subseteq Items /\ skipped \subseteq Items /\ left \subseteq Items
  BY DEF EncodeInv, BatchTypes, SetTypes
<1>9. ItemsInv'
  BY <1>1, <1>2, <1>5, <1>6, <1>7, <1>8 DEF EncodeInv, ItemsInv, Early
<1>10. QED
  BY <1>4, <1>9

\* What a worker's step keeps because it is the encode stage.
LEMMA EncodingGoesOn ==
  ASSUME EncodeInv, stage = "encode", UNCHANGED <<mainVars, stop>>,
         left' \subseteq left, ~stop => victims' = {},
         ~stop /\ (\E w \in Pool : pc'[w] = "gone") => left' = {}
  PROVE  StopInv' /\ EndInv'
<1>1. StopInv'
  BY DEF EncodeInv, StopInv, mainVars, Pool
<1>2. EndInv'
  BY DEF EncodeInv, EndInv, EndIsHonest, ExitCodeIsHonest, StateIsKept, mainVars
<1>3. QED
  BY <1>1, <1>2

LEMMA SameCounts ==
  ASSUME EncodeInv, UNCHANGED <<stage, config, item, left, finished>>
  PROVE  CountInv'
  BY DEF EncodeInv, CountInv, CountIsComplete, Total

\* The steps between a claim and its hook: the worker keeps its item.
LEMMA HolderStep ==
  ASSUME EncodeInv, NEW w \in Workers,
         CheckStop(w) \/ Start(w) \/ EncodeEnds(w) \/ Throw(w) \/ Mark(w) \/ Judge(w)
  PROVE  EncodeInv'
<1> USE DEF mainVars, monitorVars
<1>1. /\ UNCHANGED <<mainVars, monitorVars, item, left, stop, finished, outcome>>
      /\ pc[w] \in {"check", "start", "encode", "mark", "judge"}
      /\ pc'[w] \in {"start", "encode", "mark", "judge", "hook"}
      /\ \A v \in Workers : v # w => SameWorker(v)
  BY DEF CheckStop, Start, EncodeEnds, Throw, Mark, Judge, Cleared, EncodeInv, BatchTypes,
         FunctionTypes, SameWorker
<1>2. /\ WorkerHolds(w) /\ WorkerTells(w) /\ stage = "encode"
      /\ item[w] # None /\ item[w] \in Items
  BY <1>1 DEF EncodeInv, PoolInv, WorkerHolds, BatchTypes, FunctionTypes
<1>3. PICK i \in Items : i = item[w] /\ i = item'[w] /\ i \in pending
  BY <1>1, <1>2 DEF EncodeInv, PoolInv, WorkerHolds
<1>4. \A j \in Items : j # i => SameItem(j)
  BY <1>3 DEF CheckStop, Start, EncodeEnds, Throw, Mark, Judge, EncodeInv, BatchTypes,
              FunctionTypes, SameItem
<1>5. BatchTypes'
  <2>1. SetTypes'
    <3>1. SetTypes /\ (pc[w] = "judge" => i \in ended)
      BY <1>2, <1>3 DEF EncodeInv, BatchTypes, WorkerTells, Returned
    <3>2. QED
      BY <1>1, <1>3, <3>1 DEF CheckStop, Start, EncodeEnds, Throw, Mark, Judge, SetTypes
  <2>2. FunctionTypes'
    BY <1>3 DEF CheckStop, Start, EncodeEnds, Throw, Mark, Judge, Cleared, EncodeInv, BatchTypes,
           FunctionTypes, PoolInv, WorkerHolds, Verdicts
  <2>3. ModeTypes'
    BY <1>1 DEF EncodeInv, BatchTypes, ModeTypes
  <2>4. QED
    BY <2>1, <2>2, <2>3 DEF BatchTypes
<1>6. WorkerHolds(w)'
  BY <1>1, <1>2
     DEF CheckStop, Start, EncodeEnds, Throw, Mark, Judge, Cleared, EncodeInv, BatchTypes,
         FunctionTypes, WorkerHolds, Verdicts, Pool
<1>7. WorkerTells(w)'
  <2> USE <1>2, <1>3 DEF WorkerTells, EncodeInv, BatchTypes, SetTypes, FunctionTypes
  <2>1. CASE CheckStop(w)
    BY <2>1 DEF CheckStop, Untouched, JudgedAs, Verdicts
  <2>2. CASE Start(w)
    BY <2>2 DEF Start, Untouched, Running
  <2>3. CASE EncodeEnds(w)
    BY <2>3 DEF EncodeEnds, Running, Returned
  <2>4. CASE Throw(w)
    BY <2>4 DEF Throw, Running, JudgedAs, Verdicts
  <2>5. CASE Mark(w)
    BY <2>5 DEF Mark, Returned
  <2>6. CASE Judge(w)
    BY <2>6 DEF Judge, IsVictim, Returned, JudgedAs, WorkerHolds, Verdicts
  <2>7. QED
    BY <2>1, <2>2, <2>3, <2>4, <2>5, <2>6
<1>8. PoolInv' /\ ItemsInv'
  BY <1>1, <1>3, <1>4, <1>6, <1>7, HolderGoesOn
<1>9. CountInv'
  BY <1>1, SameCounts
<1>10. ~stop => victims' = {}
  BY DEF CheckStop, Start, EncodeEnds, Throw, Mark, Judge, IsVictim, EncodeInv, StopInv
<1>11. \A v \in Pool : pc'[v] = "gone" => pc[v] = "gone"
  BY <1>1, EncodeBatchAssumption DEF SameWorker, Pool
<1>12. StopInv' /\ EndInv'
  BY <1>1, <1>2, <1>10, <1>11, EncodingGoesOn DEF EncodeInv, StopInv
<1>13. QED
  BY <1>5, <1>8, <1>9, <1>12 DEF EncodeInv

\* A claim takes an item nobody has touched, or ends the worker.
LEMMA ClaimStep ==
  ASSUME EncodeInv, NEW w \in Workers, Claim(w)
  PROVE  EncodeInv'
<1> USE EncodeBatchAssumption DEF mainVars, monitorVars
<1>1. /\ UNCHANGED <<mainVars, monitorVars, stop, finished, outcome, record, ended, victims,
                     killed, failedRun>>
      /\ pc[w] = "idle" /\ \A v \in Workers : v # w => SameWorker(v)
      /\ \A j \in Items : SameItem(j)
  BY DEF Claim, EncodeInv, BatchTypes, FunctionTypes, SameWorker, SameItem
<1>2. /\ WorkerHolds(w) /\ WorkerTells(w) /\ stage = "encode" /\ item[w] = None
      /\ SetTypes /\ FunctionTypes /\ ModeTypes
  BY <1>1 DEF EncodeInv, PoolInv, WorkerHolds, BatchTypes
<1>3. \A j \in Items : /\ Untouched(j)' <=> Untouched(j)
                       /\ RecoveredStory(j)' <=> RecoveredStory(j)
                       /\ Judged(j)' <=> Judged(j)
  BY <1>1, SameStories
<1>4. pending \subseteq Items /\ skipped \subseteq Items /\ left \subseteq Items
  BY <1>2 DEF SetTypes
<1>5. CASE stop \/ left = {}
  <2>1. UNCHANGED <<left, item, result, active>> /\ pc' = [pc EXCEPT ![w] = "gone"]
    BY <1>5 DEF Claim
  <2>2. BatchTypes'
    BY <1>1, <1>2, <2>1 DEF BatchTypes, SetTypes, FunctionTypes, ModeTypes
  <2>3. \A v \in Workers : WorkerHolds(v)' /\ WorkerTells(v)'
    <3>1. WorkerHolds(w)' /\ WorkerTells(w)'
      BY <1>2, <2>1 DEF WorkerHolds, WorkerTells, FunctionTypes
    <3>2. \A v \in Workers : v # w => WorkerHolds(v)' /\ WorkerTells(v)'
      BY <1>1, <2>1, SameWorkers
    <3>3. QED
      BY <3>1, <3>2
  <2>4. PoolInv'
    BY <2>1, <2>3 DEF EncodeInv, PoolInv
  <2>5. \A j \in Items : HeldBy(j)' <=> HeldBy(j)
    BY <2>1 DEF HeldBy
  <2>6. ItemsInv'
    BY <1>1, <1>2, <1>3, <1>4, <2>1, <2>5 DEF EncodeInv, ItemsInv, Early
  <2>7. CountInv'
    BY <1>1, <2>1, SameCounts
  <2>8. StopInv' /\ EndInv'
    BY <1>1, <1>2, <1>5, <2>1, EncodingGoesOn DEF EncodeInv, StopInv
  <2>9. QED
    BY <2>2, <2>4, <2>6, <2>7, <2>8 DEF EncodeInv
<1>6. CASE ~(stop \/ left = {})
  <2>1. PICK i \in left : /\ left' = left \ {i}
                          /\ item' = [item EXCEPT ![w] = i]
                          /\ pc' = [pc EXCEPT ![w] = IF config.verbose THEN "start" ELSE "check"]
                          /\ UNCHANGED <<result, active>>
    BY <1>6 DEF Claim
  <2>2. i \in Items /\ i \in pending \ skipped /\ i # None /\ Untouched(i)'
    <3>1. i \in Items /\ i \in pending \ skipped /\ Untouched(i)
      BY <1>2, <2>1 DEF SetTypes, EncodeInv, ItemsInv
    <3>2. QED
      BY <1>3, <3>1
  <2>3. item'[w] = i /\ pc'[w] = IF config.verbose THEN "start" ELSE "check"
    BY <1>2, <2>1 DEF FunctionTypes
  <2>4. BatchTypes'
    <3>1. SetTypes' /\ ModeTypes'
      BY <1>1, <1>2, <2>1 DEF SetTypes, ModeTypes
    <3>2. FunctionTypes'
      BY <1>1, <1>2, <2>1, <2>2 DEF FunctionTypes
    <3>3. QED
      BY <3>1, <3>2 DEF BatchTypes
  <2>5. \A v \in Workers : WorkerHolds(v)' /\ WorkerTells(v)'
    <3>1. WorkerHolds(w)'
      BY <1>1, <1>2, <2>1, <2>2, <2>3 DEF WorkerHolds, Pool
    <3>2. WorkerTells(w)'
      BY <2>2, <2>3 DEF WorkerTells
    <3>3. \A v \in Workers : v # w => WorkerHolds(v)' /\ WorkerTells(v)'
      BY <1>1, <2>1, SameWorkers
    <3>4. QED
      BY <3>1, <3>2, <3>3
  <2>6. \A v \in Workers : v # w => item[v] # i
    BY <2>1, <2>2 DEF EncodeInv, PoolInv, WorkerHolds
  <2>7. PoolInv'
    BY <1>1, <2>3, <2>5, <2>6 DEF EncodeInv, PoolInv, SameWorker
  <2>8. \A j \in Items : HeldBy(j)' <=> (HeldBy(j) \/ j = i)
    BY <1>1, <1>2, <2>3 DEF HeldBy, SameWorker
  <2>9. ItemsInv'
    BY <1>1, <1>2, <1>3, <1>4, <2>1, <2>2, <2>8 DEF EncodeInv, ItemsInv, Early
  <2>10. CountInv'
    <3>1. Cardinality(left') = Cardinality(left) - 1
      BY <1>4, <2>1, ItemsAreCounted, FS_RemoveElement
    <3>2. Held' = Held \cup {w} /\ w \notin Held
      BY <1>1, <1>2, <2>2, <2>3 DEF Held, SameWorker
    <3>3. Cardinality(Held') = Cardinality(Held) + 1
      <4>1. IsFiniteSet(Held)
        BY WorkersAreCounted DEF Held
      <4>2. QED
        BY <3>2, <4>1, FS_AddElement
    <3>4. Cardinality(left) \in Nat /\ Cardinality(Held) \in Nat /\ Total \in Nat
      BY <1>4, ItemsAreCounted, WorkersAreCounted DEF Held, Total
    <3>5. QED
      BY <1>1, <1>2, <3>1, <3>3, <3>4 DEF EncodeInv, CountInv, CountIsComplete, Held
  <2>11. \A v \in Pool : pc'[v] = "gone" => pc[v] = "gone"
    BY <1>1, <2>3 DEF SameWorker, Pool
  <2>12. StopInv' /\ EndInv'
    BY <1>1, <1>2, <1>6, <2>1, <2>11, EncodingGoesOn DEF EncodeInv, StopInv
  <2>13. QED
    BY <2>4, <2>7, <2>9, <2>10, <2>12 DEF EncodeInv
<1>7. QED
  BY <1>5, <1>6

\* The hook gives the item its verdict and the worker its next claim.
LEMMA HookStep ==
  ASSUME EncodeInv, NEW w \in Workers, Hook(w)
  PROVE  EncodeInv'
<1> USE EncodeBatchAssumption DEF mainVars, monitorVars
<1>1. /\ UNCHANGED <<mainVars, monitorVars, stop, left, active, record, ended, victims, killed,
                     failedRun>>
      /\ pc[w] = "hook" /\ pc'[w] = "idle" /\ item'[w] = None /\ result'[w] = None
      /\ \A v \in Workers : v # w => SameWorker(v)
  BY DEF Hook, EncodeInv, BatchTypes, FunctionTypes, SameWorker
<1>2. /\ WorkerHolds(w) /\ WorkerTells(w) /\ stage = "encode"
      /\ SetTypes /\ FunctionTypes /\ ModeTypes
      /\ item[w] # None /\ item[w] \in Items
  BY <1>1 DEF EncodeInv, PoolInv, WorkerHolds, BatchTypes, FunctionTypes
<1>3. PICK i \in Items : i = item[w] /\ i \in pending \ skipped /\ i \notin left
  BY <1>2 DEF WorkerHolds
<1>4. PICK r \in Verdicts : r = result[w]
  BY <1>1, <1>2 DEF WorkerHolds
<1>5. outcome' = [outcome EXCEPT ![i] = r] /\ JudgedAs(i, r)
  BY <1>1, <1>2, <1>3, <1>4 DEF Hook, WorkerTells
<1>6. \A j \in Items : j # i => SameItem(j)
  BY <1>1, <1>2, <1>5 DEF SameItem, FunctionTypes
<1>7. BatchTypes'
  <2>1. SetTypes' /\ ModeTypes'
    BY <1>1, <1>2 DEF SetTypes, ModeTypes
  <2>2. FunctionTypes'
    BY <1>2, <1>5 DEF Hook, FunctionTypes, Verdicts
  <2>3. QED
    BY <2>1, <2>2 DEF BatchTypes
<1>8. \A v \in Workers : v # w => item[v] # i
  BY <1>2, <1>3 DEF EncodeInv, PoolInv
<1>9. \A v \in Workers : WorkerHolds(v)' /\ WorkerTells(v)'
  <2>1. WorkerHolds(w)' /\ WorkerTells(w)'
    <3>1. active'[w] = None /\ w \in Pool'
      BY <1>1, <1>2 DEF WorkerHolds, Pool
    <3>2. QED
      BY <1>1, <1>2, <3>1 DEF WorkerHolds, WorkerTells
  <2>2. \A v \in Workers : v # w => WorkerHolds(v)' /\ WorkerTells(v)'
    BY <1>1, <1>6, <1>8, SameWorkers
  <2>3. QED
    BY <2>1, <2>2
<1>10. PoolInv'
  BY <1>1, <1>9 DEF EncodeInv, PoolInv, SameWorker
<1>11. \A j \in Items : HeldBy(j)' <=> (HeldBy(j) /\ j # i)
  BY <1>1, <1>3, <1>8 DEF HeldBy, SameWorker
<1>12. \A j \in Items : j # i => /\ Untouched(j)' <=> Untouched(j)
                                 /\ RecoveredStory(j)' <=> RecoveredStory(j)
                                 /\ Judged(j)' <=> Judged(j)
  BY <1>1, <1>6, SameStories
<1>13. Judged(i)' /\ ~Untouched(i)'
  <2>1. JudgedAs(i, r)' /\ outcome'[i] = r
    BY <1>1, <1>2, <1>5 DEF JudgedAs, FunctionTypes
  <2>2. QED
    BY <1>1, <1>2, <2>1 DEF Judged, Untouched, Verdicts
<1>14. ItemsInv'
  <2>1. pending \subseteq Items /\ skipped \subseteq Items /\ left \subseteq Items
    BY <1>2 DEF SetTypes
  <2>2. QED
    BY <1>1, <1>2, <1>3, <1>11, <1>12, <1>13, <2>1 DEF EncodeInv, ItemsInv, Early
<1>15. CountInv'
  <2>1. Held' = Held \ {w} /\ w \in Held
    BY <1>1, <1>2 DEF Held, SameWorker
  <2>2. Cardinality(Held') = Cardinality(Held) - 1
    <3>1. IsFiniteSet(Held)
      BY WorkersAreCounted DEF Held
    <3>2. QED
      BY <2>1, <3>1, FS_RemoveElement
  <2>3. left \subseteq Items /\ Held' \subseteq Workers /\ Held \subseteq Workers
    BY <1>2, <2>1 DEF SetTypes, Held
  <2>4. /\ Cardinality(left) \in Nat /\ Cardinality(Held') \in Nat /\ Cardinality(Held) \in Nat
        /\ Total \in Nat
    BY <2>3, ItemsAreCounted, WorkersAreCounted DEF Total
  <2>5. CASE config.verbose
    BY <1>1, <2>5 DEF Hook, Counts, EncodeInv, CountInv, CountIsComplete, Total
  <2>6. CASE ~config.verbose
    <3>1. finished' = finished + 1 /\ finished \in Nat
      BY <2>6 DEF Hook, Counts, EncodeInv, CountInv
    <3>2. finished = Total - Cardinality(left) - Cardinality(Held)
      BY <1>2, <2>6 DEF EncodeInv, CountInv, CountIsComplete, Held
    <3>3. finished' = Total - Cardinality(left') - Cardinality(Held')
      BY <1>1, <2>2, <2>4, <3>1, <3>2
    <3>4. Total' = Total
      BY DEF Total
    <3>5. finished' \in 0..Total
      BY <1>1, <2>4, <3>1, <3>3
    <3>6. QED
      BY <3>3, <3>4, <3>5 DEF CountInv, CountIsComplete, Held
  <2>7. QED
    BY <2>5, <2>6
<1>16. \A v \in Pool : pc'[v] = "gone" => pc[v] = "gone"
  BY <1>1 DEF SameWorker, Pool
<1>17. StopInv' /\ EndInv'
  BY <1>1, <1>2, <1>16, EncodingGoesOn DEF EncodeInv, StopInv
<1>18. QED
  BY <1>7, <1>10, <1>14, <1>15, <1>17 DEF EncodeInv

-----------------------------------------------------------------------------
(* The monitor, a stop request and the main thread *)

\* The monitor and a request for a stop move nothing the others decide by.
LEMMA RunStands ==
  ASSUME EncodeInv, UNCHANGED <<mainVars, workerVars, finished>>, stop => stop', BatchTypes'
  PROVE  EncodeInv'
<1>1. \A j \in Items : SameItem(j)
  BY DEF workerVars, SameItem
<1>2. \A v \in Workers : SameWorker(v)
  BY DEF workerVars, SameWorker
<1>3. UNCHANGED <<stage, config, pending, skipped, left, item, exitCode, stateFile, pc>>
  BY DEF mainVars, workerVars
<1>4. PoolInv'
  <2>1. \A v \in Workers : WorkerHolds(v)' /\ WorkerTells(v)'
    BY <1>1, <1>2, <1>3, SameWorkers
  <2>2. QED
    BY <1>3, <2>1 DEF EncodeInv, PoolInv
<1>5. ItemsInv'
  <2>1. \A j \in Items : /\ Untouched(j)' <=> Untouched(j)
                         /\ RecoveredStory(j)' <=> RecoveredStory(j)
                         /\ Judged(j)' <=> Judged(j)
                         /\ HeldBy(j)' <=> HeldBy(j)
    BY <1>1, <1>3, SameStories DEF HeldBy
  <2>2. pending \subseteq Items /\ skipped \subseteq Items /\ left \subseteq Items
    BY DEF EncodeInv, BatchTypes, SetTypes
  <2>3. QED
    BY <1>3, <2>1, <2>2 DEF EncodeInv, ItemsInv
<1>6. CountInv'
  BY <1>3, SameCounts
<1>7. StopInv' /\ EndInv'
  BY DEF EncodeInv, StopInv, EndInv, EndIsHonest, ExitCodeIsHonest, StateIsKept, mainVars,
         workerVars, Pool, Recovered
<1>8. QED
  BY <1>4, <1>5, <1>6, <1>7 DEF EncodeInv

LEMMA MonitorStep ==
  ASSUME EncodeInv, Monitor \/ RequestStop
  PROVE  EncodeInv'
<1>1. UNCHANGED <<mainVars, workerVars, finished>> /\ (stop => stop') /\ stop' \in BOOLEAN
  BY DEF Monitor, Scan, Decide, NextItem, RenderProgress, RequestStop, EncodeInv, BatchTypes,
         ModeTypes
<1>2. /\ seen' \subseteq Items /\ current' \in Items \cup {None}
      /\ monitor' \in {"off", "scan", "decide", "render", "read", "left"}
  BY DEF Monitor, Scan, Decide, NextItem, RenderProgress, ActiveItems, RequestStop, monitorVars,
         EncodeInv, BatchTypes, SetTypes, FunctionTypes, ModeTypes
<1>3. BatchTypes'
  BY <1>1, <1>2 DEF mainVars, workerVars, EncodeInv, BatchTypes, SetTypes, FunctionTypes,
                    ModeTypes
<1>4. QED
  BY <1>1, <1>3, RunStands

\* Outside the encode stage no worker holds anything.
LEMMA NobodyWorks ==
  ASSUME EncodeInv, stage # "encode"
  PROVE  \A w \in Workers : /\ pc[w] = "gone" /\ item[w] = None /\ result[w] = None
                            /\ active[w] = None
  BY DEF EncodeInv, PoolInv, WorkerHolds

LEMMA NothingRan ==
  ASSUME EncodeInv, \A i \in pending : Untouched(i)
  PROVE  ended = {} /\ victims = {} /\ killed = {} /\ failedRun = {}
  BY DEF EncodeInv, BatchTypes, SetTypes, Untouched

\* The main thread moves on while no worker runs.
LEMMA StageMoves ==
  ASSUME EncodeInv, stage # "encode", stage' # "encode",
         UNCHANGED <<workerVars, config, pending, finished>>, BatchTypes'
  PROVE  /\ CountInv' /\ PoolInv'
         /\ \A i \in Items : /\ Untouched(i)' <=> Untouched(i)
                             /\ RecoveredStory(i)' <=> RecoveredStory(i)
                             /\ Judged(i)' <=> Judged(i)
                             /\ ~HeldBy(i) /\ ~HeldBy(i)'
<1> USE EncodeBatchAssumption DEF workerVars
<1>1. CountInv'
  BY DEF EncodeInv, CountInv, CountIsComplete, Total
<1>2. PoolInv'
  BY NobodyWorks DEF PoolInv, WorkerHolds, WorkerTells
<1>3. ASSUME NEW i \in Items
      PROVE  /\ Untouched(i)' <=> Untouched(i)
             /\ RecoveredStory(i)' <=> RecoveredStory(i)
             /\ Judged(i)' <=> Judged(i)
             /\ ~HeldBy(i) /\ ~HeldBy(i)'
  <2>1. \A r : JudgedAs(i, r)' <=> JudgedAs(i, r)
    BY DEF JudgedAs
  <2>2. Judged(i)' <=> Judged(i)
    BY <2>1 DEF Judged
  <2>3. ~HeldBy(i) /\ ~HeldBy(i)'
    BY NobodyWorks DEF HeldBy
  <2>4. QED
    BY <2>2, <2>3 DEF Untouched, RecoveredStory
<1>4. QED
  BY <1>1, <1>2, <1>3

\* A run that ends before it encoded anything.
LEMMA EarlyExit ==
  ASSUME EncodeInv, stage \in Early \cup {"packPrompt"}, NEW code \in {0, 1, Canceled},
         Exit(code, record), code = Canceled => stop,
         UNCHANGED <<config, pending, skipped, workerVars, monitorVars, finished, stop>>
  PROVE  EncodeInv'
<1> USE DEF Exit, Early
<1>1. \A i \in pending : Untouched(i)
  BY DEF EncodeInv, ItemsInv, StopInv
<1>2. left = {} /\ ended = {} /\ victims = {}
  BY <1>1, NothingRan DEF EncodeInv, ItemsInv, StopInv
<1>3. BatchTypes'
  <2>1. stateFile' \in BOOLEAN
    BY DEF Kept
  <2>2. QED
    BY <2>1 DEF EncodeInv, BatchTypes, SetTypes, FunctionTypes, ModeTypes, workerVars,
                monitorVars
<1>4. /\ CountInv' /\ PoolInv'
      /\ \A i \in Items : /\ Untouched(i)' <=> Untouched(i)
                          /\ RecoveredStory(i)' <=> RecoveredStory(i)
                          /\ Judged(i)' <=> Judged(i)
  BY <1>3, StageMoves
<1>5. ItemsInv'
  <2>1. pending \subseteq Items /\ skipped \subseteq Items /\ left \subseteq Items
    BY DEF EncodeInv, BatchTypes, SetTypes
  <2>2. QED
    BY <1>1, <1>4, <2>1 DEF EncodeInv, ItemsInv, workerVars, Working
<1>6. StopInv'
  BY <1>2 DEF StopInv, workerVars
<1>7. EndInv'
  <2>1. ~stateFile' => code = Canceled /\ Recovered = {}
    BY DEF Kept, Recovered, EncodeInv, ItemsInv, RecoveredStory
  <2>2. QED
    BY <1>2, <2>1 DEF EndInv, EndIsHonest, ExitCodeIsHonest, StateIsKept, Recovered, workerVars
<1>8. QED
  BY <1>3, <1>4, <1>5, <1>6, <1>7 DEF EncodeInv

\* A step of the main thread between two stages that are not the encode stage.
LEMMA StageToStage ==
  ASSUME EncodeInv, stage \notin {"encode", "exit"}, stage' \in (Early \cup Working) \ {"encode"},
         UNCHANGED <<workerVars, config, pending, finished, stop, exitCode, stateFile,
                     monitorVars>>,
         skipped' \subseteq pending, left \cap skipped' = {},
         \A i \in skipped' : Untouched(i),
         stage' \in Early => left = {} /\ \A i \in pending : Untouched(i),
         stage' \in Working => \A i \in pending : Untouched(i) => i \in skipped' \cup left,
         StopInv'
  PROVE  EncodeInv'
<1>1. BatchTypes'
  <2>1. SetTypes'
    BY DEF EncodeInv, BatchTypes, SetTypes, workerVars, monitorVars
  <2>2. FunctionTypes' /\ ModeTypes'
    BY DEF EncodeInv, BatchTypes, FunctionTypes, ModeTypes, workerVars, monitorVars
  <2>3. QED
    BY <2>1, <2>2 DEF BatchTypes
<1>2. /\ CountInv' /\ PoolInv'
      /\ \A i \in Items : /\ Untouched(i)' <=> Untouched(i)
                          /\ RecoveredStory(i)' <=> RecoveredStory(i)
                          /\ Judged(i)' <=> Judged(i)
                          /\ ~HeldBy(i)
  BY <1>1, StageMoves
<1>3. ItemsInv'
  <2>1. pending \subseteq Items /\ skipped' \subseteq Items /\ left \subseteq Items
        /\ UNCHANGED <<left, pending>>
    BY DEF EncodeInv, BatchTypes, SetTypes, workerVars
  <2>2. QED
    BY <1>2, <2>1 DEF EncodeInv, ItemsInv
<1>4. EndInv'
  BY DEF EncodeInv, EndInv, EndIsHonest, ExitCodeIsHonest, StateIsKept, Early, Working
<1>5. QED
  BY <1>1, <1>2, <1>3, <1>4 DEF EncodeInv

\* What a batch that is over knows of an item.
LEMMA OverForItem ==
  ASSUME EncodeInv, stage \in {"settle", "packPrompt", "pack"}, NEW i \in pending
  PROVE  /\ Judged(i) \/ (Untouched(i) /\ i \in skipped \cup left)
         /\ i \in ended => record[i] \in Verdicts
         /\ i \in victims => outcome[i] = "pending" /\ i \notin skipped
<1>1. Judged(i) \/ (Untouched(i) /\ i \in skipped \cup left)
  <2>1. ~HeldBy(i)
    BY NobodyWorks, EncodeBatchAssumption DEF HeldBy, EncodeInv, BatchTypes, SetTypes
  <2>2. QED
    BY <2>1 DEF EncodeInv, ItemsInv, Working
<1>2. i \in ended => record[i] \in Verdicts
  BY <1>1 DEF Judged, JudgedAs, Untouched
<1>3. i \in victims => outcome[i] = "pending" /\ i \notin skipped
  BY <1>1 DEF Judged, Untouched, EncodeInv, ItemsInv
<1>4. QED
  BY <1>1, <1>2, <1>3

\* Probing, the prompts and the ends that come before anything was encoded.
LEMMA EarlyStep ==
  ASSUME EncodeInv,
         \/ ScanInputs \/ ProbeStage \/ Declined \/ NoAnswer \/ Abort \/ DryRunEnds
         \/ PackingAccepted \/ PackingDeclined
  PROVE  EncodeInv'
<1> USE DEF Early, Working
<1>1. stage \in Early \cup {"packPrompt"}
  BY DEF ScanInputs, ProbeStage, Declined, NoAnswer, Abort, DryRunEnds, PackingAccepted,
         PackingDeclined
<1>2. left = {} /\ \A i \in pending : Untouched(i)
  BY <1>1 DEF EncodeInv, ItemsInv, StopInv
<1>3. victims = {}
  BY <1>2, NothingRan
<1>4. CASE \/ ScanInputs /\ stage' = "probe" /\ UNCHANGED <<exitCode, stateFile>>
           \/ ProbeStage \/ Declined \/ PackingAccepted \/ PackingDeclined
  <2>1. /\ stage \notin {"encode", "exit"} /\ stage' \in (Early \cup Working) \ {"encode"}
        /\ UNCHANGED <<workerVars, config, pending, finished, stop, exitCode, stateFile,
                       monitorVars>>
    BY <1>4 DEF ScanInputs, ProbeStage, Declined, PackingAccepted, PackingDeclined
  <2>2. /\ skipped' \subseteq pending
        /\ stage' \in Working => pending = {}
        /\ stage' \notin {"encode", "packPrompt"}
    BY <1>4 DEF ScanInputs, ProbeStage, Declined, PackingAccepted, PackingDeclined, EncodeInv,
                BatchTypes, SetTypes, StopInv
  <2>3. StopInv'
    BY <1>2, <1>3, <2>1, <2>2 DEF StopInv, workerVars
  <2>4. QED
    BY <1>2, <2>1, <2>2, <2>3, StageToStage
<1>5. CASE \/ ScanInputs /\ (Exit(1, record) \/ Exit(0, record))
           \/ NoAnswer \/ Abort \/ DryRunEnds
  <2>1. PICK code \in {0, 1, Canceled} : Exit(code, record) /\ (code = Canceled => stop)
    BY <1>5 DEF ScanInputs, NoAnswer, Abort, DryRunEnds, Canceled
  <2>2. UNCHANGED <<config, pending, skipped, workerVars, monitorVars, finished, stop>>
    BY <1>5 DEF ScanInputs, NoAnswer, Abort, DryRunEnds
  <2>3. QED
    BY <1>1, <2>1, <2>2, EarlyExit
<1>6. QED
  BY <1>4, <1>5 DEF ScanInputs

\* The accepted prompt opens the pool, or there is nothing to encode.
LEMMA AcceptedStep ==
  ASSUME EncodeInv, Accepted
  PROVE  EncodeInv'
<1> USE EncodeBatchAssumption
<1>1. /\ stage = "prompt" /\ left' = pending \ skipped
      /\ UNCHANGED <<config, pending, skipped, exitCode, stateFile, item, result, active, ended,
                     victims, outcome, record, killed, failedRun, seen, current, stop>>
  BY DEF Accepted
<1>2. left = {} /\ \A i \in pending : Untouched(i)
  BY <1>1 DEF EncodeInv, ItemsInv, Early
<1>3. victims = {}
  BY <1>2, NothingRan
<1>4. skipped \subseteq pending /\ pending \subseteq Items
  BY DEF EncodeInv, BatchTypes, SetTypes
<1>5. CASE left' = {}
  <2>1. stage' = "settle" /\ UNCHANGED <<workerVars, monitorVars, finished, stop>>
    BY <1>1, <1>2, <1>5 DEF Accepted, workerVars, monitorVars
  <2>2. StopInv'
    BY <1>1, <1>3, <1>5, <2>1 DEF StopInv
  <2>3. \A i \in pending : i \in skipped'
    BY <1>1, <1>5
  <2>4. QED
    BY <1>1, <1>2, <1>4, <2>1, <2>2, <2>3, StageToStage DEF Early, Working
<1>6. CASE left' # {}
  <2>1. /\ stage' = "encode"
        /\ pc' = [w \in Workers |-> IF w \in Pool THEN "idle" ELSE "gone"]
        /\ finished' = CompletedBeforeStart
        /\ monitor' = IF config.verbose THEN "off" ELSE "scan"
    BY <1>6 DEF Accepted
  <2>2. \A w \in Workers : item[w] = None /\ result[w] = None /\ active[w] = None
    BY <1>1, NobodyWorks
  <2>3. BatchTypes'
    <3>1. SetTypes' /\ ModeTypes'
      BY <1>1, <1>4, <2>1 DEF EncodeInv, BatchTypes, SetTypes, ModeTypes, Working
    <3>2. FunctionTypes'
      BY <1>1, <2>1 DEF EncodeInv, BatchTypes, FunctionTypes
    <3>3. QED
      BY <3>1, <3>2 DEF BatchTypes
  <2>4. CountInv'
    <3>1. Total = Cardinality(Recovered) + Cardinality(skipped) + Cardinality(left')
      <4>1. /\ Recovered \cup skipped \cup left' = Items /\ Recovered \cap skipped = {}
            /\ Recovered \cap left' = {} /\ skipped \cap left' = {}
        BY <1>1, <1>4 DEF Recovered
      <4>2. QED
        BY <4>1, ThreePartsAdd
    <3>2. /\ Cardinality(Recovered) \in Nat /\ Cardinality(skipped) \in Nat
          /\ Cardinality(left') \in Nat
      BY <1>1, <1>4, ItemsAreCounted DEF Recovered
    <3>3. Cardinality({w \in Workers : item'[w] # None}) = 0
      <4>1. {w \in Workers : item'[w] # None} = {}
        BY <1>1, <2>2
      <4>2. QED
        BY <4>1, FS_EmptySet
    <3>4. Total' = Total
      BY DEF Total
    <3>5. finished' = Cardinality(Recovered) + Cardinality(skipped)
      BY <2>1 DEF CompletedBeforeStart
    <3>6. finished' \in 0..Total /\ finished' = Total - Cardinality(left') - 0
      BY <3>1, <3>2, <3>5
    <3>7. QED
      BY <3>3, <3>4, <3>6 DEF CountInv, CountIsComplete
  <2>5. PoolInv'
    BY <1>1, <2>1, <2>2 DEF PoolInv, WorkerHolds, WorkerTells, Pool
  <2>6. ItemsInv'
    <3>1. \A i \in Items : /\ Untouched(i)' <=> Untouched(i)
                           /\ RecoveredStory(i)' <=> RecoveredStory(i)
      BY <1>1 DEF Untouched, RecoveredStory
    <3>2. QED
      BY <1>1, <1>2, <1>4, <2>1, <3>1 DEF EncodeInv, ItemsInv, Early, Working
  <2>7. StopInv' /\ EndInv'
    BY <1>1, <1>3, <2>1 DEF StopInv, EncodeInv, EndInv, EndIsHonest, ExitCodeIsHonest,
                            StateIsKept, Pool
  <2>8. QED
    BY <2>3, <2>4, <2>5, <2>6, <2>7 DEF EncodeInv
<1>7. QED
  BY <1>5, <1>6

\* The pool has drained: the victims of the stop lose their outcome.
LEMMA JoinStep ==
  ASSUME EncodeInv, Join
  PROVE  EncodeInv'
<1> USE EncodeBatchAssumption
<1>1. /\ stage = "encode" /\ stage' = "settle" /\ \A w \in Workers : pc[w] = "gone"
      /\ outcome' = [i \in Items |-> IF i \in victims THEN "pending" ELSE outcome[i]]
      /\ UNCHANGED <<config, pending, skipped, exitCode, stateFile, left, pc, item, result,
                     active, ended, victims, record, killed, failedRun, monitor, seen, current,
                     finished, stop>>
  BY DEF Join, ClearedOutcome, monitorVars
<1>2. /\ skipped \subseteq pending /\ pending \subseteq Items /\ left \subseteq pending
      /\ victims \subseteq pending
  BY DEF EncodeInv, BatchTypes, SetTypes
<1>3. \A w \in Workers : item[w] = None /\ result[w] = None /\ active[w] = None
  BY <1>1 DEF EncodeInv, PoolInv, WorkerHolds
<1>4. BatchTypes'
  <2>1. SetTypes' /\ ModeTypes'
    BY <1>1 DEF EncodeInv, BatchTypes, SetTypes, ModeTypes, Working
  <2>2. FunctionTypes'
    BY <1>1 DEF EncodeInv, BatchTypes, FunctionTypes
  <2>3. QED
    BY <2>1, <2>2 DEF BatchTypes
<1>5. PoolInv'
  BY <1>1, <1>3 DEF PoolInv, WorkerHolds, WorkerTells
<1>6. CountInv'
  BY <1>1 DEF EncodeInv, CountInv, CountIsComplete, Total
<1>7. ItemsInv'
  <2>1. ASSUME NEW i \in Items \ pending
        PROVE  RecoveredStory(i)'
    BY <1>1, <1>2 DEF RecoveredStory, EncodeInv, ItemsInv
  <2>2. ASSUME NEW i \in pending
        PROVE  Untouched(i)' <=> Untouched(i)
    BY <1>1, <1>2 DEF Untouched
  <2>3. ASSUME NEW i \in pending
        PROVE  Untouched(i)' \/ Judged(i)'
    <3>1. ~HeldBy(i)
      BY <1>2, <1>3 DEF HeldBy
    <3>2. CASE Untouched(i)
      BY <2>2, <3>2
    <3>3. CASE Judged(i)
      <4>1. PICK r \in Verdicts : JudgedAs(i, r) /\ outcome[i] = r
        BY <1>1, <3>3 DEF Judged
      <4>2. JudgedAs(i, r)'
        BY <1>1, <4>1 DEF JudgedAs
      <4>3. outcome'[i] = IF i \in victims' /\ stage' # "encode" THEN "pending" ELSE r
        BY <1>1, <1>2, <4>1
      <4>4. QED
        BY <4>2, <4>3 DEF Judged
    <3>4. QED
      BY <3>1, <3>2, <3>3 DEF EncodeInv, ItemsInv
  <2>4. \A i \in pending : Untouched(i) => i \in skipped \cup left
    BY <1>1, <1>2, <1>3 DEF EncodeInv, ItemsInv, HeldBy, Working
  <2>5. \A i \in skipped \cup left : Untouched(i)
    BY DEF EncodeInv, ItemsInv
  <2>6. QED
    BY <1>1, <1>2, <2>1, <2>2, <2>3, <2>4, <2>5 DEF ItemsInv, Early
<1>8. StopInv'
  BY <1>1 DEF EncodeInv, StopInv, Pool
<1>9. EndInv'
  BY <1>1 DEF EncodeInv, EndInv, EndIsHonest, ExitCodeIsHonest, StateIsKept, Recovered
<1>10. QED
  BY <1>4, <1>5, <1>6, <1>7, <1>8, <1>9 DEF EncodeInv

\* A stage that is finished, or was not stopped, left no item behind.
LEMMA SettleStep ==
  ASSUME EncodeInv, Settle
  PROVE  EncodeInv'
<1>1. /\ stage = "settle" /\ (EncodeStageFinished \/ ~stop)
      /\ stage' \in {"packPrompt", "pack"} /\ (stage' = "packPrompt" => pending = {})
      /\ UNCHANGED <<config, pending, skipped, exitCode, stateFile, workerVars,
                     monitorVars, finished, stop>>
  BY DEF Settle
<1>2. skipped \subseteq pending /\ pending \subseteq Items /\ left \subseteq pending \ skipped
      /\ victims \subseteq pending
  BY DEF EncodeInv, BatchTypes, SetTypes
<1>3. left = {} /\ victims = {}
  <2>1. CASE ~stop
    BY <1>1, <2>1 DEF EncodeInv, StopInv
  <2>2. CASE EncodeStageFinished
    <3>1. \A i \in skipped \cup left : outcome[i] = "pending"
      BY DEF EncodeInv, ItemsInv, Untouched
    <3>2. SummaryItems \subseteq Items /\ SummaryItems \cap skipped = {}
      BY <3>1 DEF SummaryItems
    <3>3. SummaryItems \cup skipped = Items
      BY <1>2, <2>2, <3>2, CoveredByCount DEF EncodeStageFinished
    <3>4. \A i \in left : i \notin SummaryItems
      BY <3>1 DEF SummaryItems
    <3>5. \A i \in victims : i \notin SummaryItems /\ i \notin skipped
      BY <1>1, <1>2, OverForItem DEF SummaryItems
    <3>6. QED
      BY <1>2, <3>3, <3>4, <3>5
  <2>3. QED
    BY <1>1, <2>1, <2>2
<1>4. StopInv'
  BY <1>1, <1>3 DEF StopInv, workerVars
<1>5. \A i \in pending : Untouched(i) => i \in skipped \cup left
  BY <1>1, NobodyWorks, EncodeBatchAssumption, <1>2 DEF EncodeInv, ItemsInv, HeldBy, Working
<1>6. \A i \in skipped : Untouched(i)
  BY DEF EncodeInv, ItemsInv
<1>7. QED
  BY <1>1, <1>2, <1>4, <1>5, <1>6, StageToStage DEF Early, Working

\* The last two ends: a batch cut short, and one that is complete.
LEMMA LastExit ==
  ASSUME EncodeInv, Interrupted \/ Complete
  PROVE  EncodeInv'
<1> USE EncodeBatchAssumption
<1>1. PICK code \in {0, 1, Canceled} :
        /\ stage \in {"settle", "pack"} /\ stage' = "exit" /\ exitCode' = code
        /\ stateFile' = Kept(code, record') /\ (code = Canceled => stop)
        /\ Interrupted => code = Canceled
        /\ Complete /\ code = 0 => \A i \in SummaryItems : outcome[i] # "failed"
        /\ record' \in [Items -> {"pending", "interrupted", "running", "succeeded", "failed"}]
  <2>1. CASE Interrupted
    <3>1. record' = [i \in Items |->
            IF i \in pending /\ record[i] \in {"pending", "running"} THEN "interrupted"
                                                                     ELSE record[i]]
      BY <2>1 DEF Interrupted
    <3>2. record' \in [Items -> {"pending", "interrupted", "running", "succeeded", "failed"}]
      BY <3>1 DEF EncodeInv, BatchTypes, FunctionTypes
    <3>3. ~Complete
      BY <2>1 DEF Interrupted, Complete
    <3>4. QED
      BY <2>1, <3>2, <3>3 DEF Interrupted, Exit
  <2>2. CASE Complete
    <3>1. record' = record /\ ~Interrupted
      BY <2>2 DEF Interrupted, Complete, workerVars
    <3>2. QED
      BY <2>2, <3>1 DEF Complete, Exit, EncodeInv, BatchTypes, FunctionTypes, Canceled
  <2>3. QED
    BY <2>1, <2>2
<1>2. /\ UNCHANGED <<config, pending, skipped, left, pc, item, result, active, ended, victims,
                     outcome, killed, failedRun, monitor, seen, current, finished, stop>>
      /\ \A i \in Items : \/ record'[i] = record[i]
                          \/ /\ i \in pending /\ record[i] \in {"pending", "running"}
                             /\ record'[i] = "interrupted"
      /\ Interrupted => \A i \in pending : record'[i] # "running"
  BY DEF Interrupted, Complete, workerVars, monitorVars, EncodeInv, BatchTypes, SetTypes,
         FunctionTypes
<1>3. /\ skipped \subseteq pending /\ pending \subseteq Items /\ left \subseteq pending
      /\ victims \subseteq pending /\ ended \subseteq pending
  BY DEF EncodeInv, BatchTypes, SetTypes
<1>4. BatchTypes'
  <2>1. stateFile' \in BOOLEAN
    BY <1>1 DEF Kept
  <2>2. SetTypes' /\ FunctionTypes'
    BY <1>1, <1>2 DEF EncodeInv, BatchTypes, SetTypes, FunctionTypes
  <2>3. ModeTypes'
    BY <1>1, <1>2, <2>1 DEF EncodeInv, BatchTypes, ModeTypes
  <2>4. QED
    BY <2>2, <2>3 DEF BatchTypes
<1>5. PoolInv'
  <2>1. \A w \in Workers : /\ pc[w] = "gone" /\ item[w] = None /\ result[w] = None
                           /\ active[w] = None
    BY <1>1, NobodyWorks
  <2>2. QED
    BY <1>2, <2>1 DEF PoolInv, WorkerHolds, WorkerTells
<1>6. CountInv'
  BY <1>1, <1>2 DEF EncodeInv, CountInv, CountIsComplete, Total
<1>7. ASSUME NEW i \in pending
      PROVE  (Untouched(i) => Untouched(i)') /\ (Judged(i) => Judged(i)')
  <2>1. Untouched(i) => Untouched(i)'
    BY <1>2, <1>3 DEF Untouched
  <2>2. ASSUME NEW r, JudgedAs(i, r)
        PROVE  JudgedAs(i, r)'
    BY <1>2, <1>3, <2>2 DEF JudgedAs, Verdicts
  <2>3. Judged(i) => Judged(i)'
    BY <1>1, <1>2, <2>2 DEF Judged
  <2>4. QED
    BY <2>1, <2>3
<1>8. ItemsInv'
  <2>1. \A i \in Items \ pending : RecoveredStory(i)'
    BY <1>2 DEF RecoveredStory, EncodeInv, ItemsInv
  <2>2. \A i \in pending : Untouched(i)' \/ Judged(i)'
    BY <1>1, <1>7, OverForItem
  <2>3. \A i \in skipped \cup left : Untouched(i)'
    BY <1>3, <1>7 DEF EncodeInv, ItemsInv
  <2>4. QED
    BY <1>1, <1>2, <2>1, <2>2, <2>3 DEF ItemsInv, Early, Working
<1>9. StopInv'
  BY <1>1, <1>2 DEF EncodeInv, StopInv
<1>10. ~stateFile' => ended = {} /\ Recovered = {} /\ code = Canceled
  <2>1. \A i \in ended : record'[i] # "pending"
    BY <1>1, <1>2, <1>3, OverForItem DEF Verdicts
  <2>2. \A i \in Recovered : record'[i] # "pending"
    BY <1>2 DEF Recovered, EncodeInv, ItemsInv, RecoveredStory
  <2>3. QED
    BY <1>1, <1>3, <2>1, <2>2 DEF Kept, Recovered
<1>11. ASSUME code = 0, NEW i \in Items
       PROVE  i \in skipped \/ outcome[i] = "succeeded"
  <2>1. Complete /\ left = {} /\ victims = {} /\ stage = "pack"
    BY <1>1, <1>11 DEF Canceled, Complete, EncodeInv, StopInv
  <2>2. outcome[i] # "failed"
    BY <1>1, <1>11, <2>1 DEF SummaryItems
  <2>3. CASE i \in pending
    BY <2>1, <2>2, <2>3, OverForItem DEF Judged, Verdicts
  <2>4. CASE i \notin pending
    BY <2>4 DEF EncodeInv, ItemsInv, RecoveredStory
  <2>5. QED
    BY <2>3, <2>4
<1>12. victims \cup left # {} => code = Canceled /\ \A i \in Items : record'[i] # "running"
  <2>1. victims \cup left # {} => Interrupted
    BY DEF Complete, EncodeInv, StopInv
  <2>2. \A i \in Items \ pending : record'[i] # "running"
    BY <1>2 DEF EncodeInv, ItemsInv, RecoveredStory
  <2>3. QED
    BY <1>1, <1>2, <2>1, <2>2
<1>13. EndInv'
  BY <1>1, <1>2, <1>10, <1>11, <1>12 DEF EndInv, EndIsHonest, ExitCodeIsHonest, StateIsKept,
                                         Recovered
<1>14. QED
  BY <1>4, <1>5, <1>6, <1>8, <1>9, <1>13 DEF EncodeInv

-----------------------------------------------------------------------------
(* The theorems *)

LEMMA EncodeStep == EncodeInv /\ [Next]_vars => EncodeInv'
<1> SUFFICES ASSUME EncodeInv, [Next]_vars
             PROVE  EncodeInv'
  OBVIOUS
<1>1. CASE UNCHANGED vars
  <2>1. UNCHANGED <<mainVars, workerVars, finished, monitorVars, stop>>
    BY <1>1 DEF vars
  <2>2. BatchTypes'
    BY <2>1 DEF EncodeInv, BatchTypes, SetTypes, FunctionTypes, ModeTypes, mainVars, workerVars,
                monitorVars
  <2>3. QED
    BY <2>1, <2>2, RunStands
<1>2. CASE Main
  BY <1>2, EarlyStep, AcceptedStep, JoinStep, SettleStep, LastExit DEF Main
<1>3. CASE Monitor \/ RequestStop
  BY <1>3, MonitorStep
<1>4. ASSUME NEW w \in Workers, Worker(w)
      PROVE  EncodeInv'
  BY <1>4, ClaimStep, HolderStep, HookStep DEF Worker
<1>5. QED
  BY <1>1, <1>2, <1>3, <1>4 DEF Next

LEMMA EncodeInvariance == Spec => []EncodeInv
  BY EncodeBegins, EncodeStep, PTL DEF Spec

\* Once no worker runs, the outcome of an item and its record are of one story.
LEMMA StoriesAgree ==
  ASSUME EncodeInv, Settled, NEW i \in Items
  PROVE  /\ outcome[i] = "succeeded" <=> record[i] = "succeeded"
         /\ outcome[i] = "failed" => record[i] \in {"failed", "running", "interrupted"}
         /\ i \in killed => outcome[i] # "failed"
         /\ i \in failedRun => outcome[i] = "failed"
<1>1. stage # "encode"
  BY DEF Settled
<1>2. ~HeldBy(i)
  BY <1>1, NobodyWorks, EncodeBatchAssumption DEF HeldBy
<1>3. CASE RecoveredStory(i)
  BY <1>3 DEF RecoveredStory
<1>4. CASE Untouched(i)
  BY <1>4 DEF Untouched
<1>5. CASE Judged(i)
  <2>1. PICK r \in Verdicts : /\ JudgedAs(i, r)
                              /\ outcome[i] = IF i \in victims THEN "pending" ELSE r
    BY <1>1, <1>5 DEF Judged
  <2>2. CASE i \in victims
    BY <2>1, <2>2 DEF JudgedAs
  <2>3. CASE i \notin victims
    BY <2>1, <2>3 DEF JudgedAs, Verdicts
  <2>4. QED
    BY <2>2, <2>3
<1>6. QED
  BY <1>2, <1>3, <1>4, <1>5 DEF EncodeInv, ItemsInv

\* The end of the batch tells of every item what its record tells, and the summary
\* of a batch that was not cut short accounts for every planned item exactly once.
THEOREM SummariesAreHonest == Spec => []SummaryIsHonest
<1>1. EncodeInv => SummaryAgreesWithStore
  BY StoriesAgree DEF SummaryAgreesWithStore
<1>2. EncodeInv => SummaryAccountsForAll
  <2> SUFFICES ASSUME EncodeInv, stage \in {"packPrompt", "pack"}
               PROVE  Summary.success + Summary.failure + Summary.skipped = Total
    BY DEF SummaryAccountsForAll
  <2> DEFINE Good == {i \in SummaryItems : outcome[i] = "succeeded"}
             Bad  == {i \in SummaryItems : outcome[i] = "failed"}
  <2>1. left = {} /\ victims = {}
    BY DEF EncodeInv, StopInv
  <2>2. skipped \subseteq pending /\ pending \subseteq Items
    BY DEF EncodeInv, BatchTypes, SetTypes
  <2>3. \A i \in Items : i \in Good \/ i \in Bad \/ i \in skipped
    <3>1. ASSUME NEW i \in pending
          PROVE  outcome[i] \in Verdicts \/ i \in skipped
      BY <2>1, OverForItem DEF Judged
    <3>2. \A i \in Items \ pending : outcome[i] \in Verdicts
      BY DEF EncodeInv, ItemsInv, RecoveredStory, Verdicts
    <3>3. QED
      BY <3>1, <3>2 DEF SummaryItems, Verdicts
  <2>4. \A i \in skipped : outcome[i] = "pending"
    BY DEF EncodeInv, ItemsInv, Untouched
  <2>5. /\ Good \cup Bad \cup skipped = Items
        /\ Good \cap Bad = {} /\ Good \cap skipped = {} /\ Bad \cap skipped = {}
    BY <2>2, <2>3, <2>4 DEF SummaryItems
  <2>6. Total = Cardinality(Good) + Cardinality(Bad) + Cardinality(skipped)
    <3> HIDE DEF Good, Bad
    <3>1. QED
      BY <2>5, ThreePartsAdd
  <2>7. QED
    BY <2>6 DEF Summary
<1>3. QED
  BY <1>1, <1>2, EncodeInvariance, PTL DEF SummaryIsHonest

\* No failure that came with a pending stop is reported as the file's own, and one
\* judged before the stop stays reported.
THEOREM FailuresAreNotMixed == Spec => []FailuresAreTheirOwn
<1>1. EncodeInv => FailuresAreTheirOwn
  <2> SUFFICES ASSUME EncodeInv, Settled
               PROVE  /\ \A i \in killed : outcome[i] # "failed"
                      /\ \A i \in failedRun : outcome[i] = "failed"
    BY DEF FailuresAreTheirOwn
  <2>1. killed \subseteq Items /\ failedRun \subseteq Items
    BY DEF EncodeInv, BatchTypes, SetTypes
  <2>2. QED
    BY <2>1, StoriesAgree
<1>2. QED
  BY <1>1, EncodeInvariance, PTL

\* The exit code and the state that is kept are those of what happened, for every
\* interleaving of the stop with the prompts, the workers and packing.
THEOREM EndsAreHonest == Spec => []EndIsHonest
<1>1. EncodeInv => EndIsHonest
  BY DEF EncodeInv, EndInv
<1>2. QED
  BY <1>1, EncodeInvariance, PTL

\* The monitor's count is the total exactly when nothing is left or held, whatever
\* threw, failed or was stopped, and no slot outlives the batch.
THEOREM MonitorsSeeAll == Spec => []MonitorSeesAll
<1>1. EncodeInv => TypeOK
  <2> SUFFICES ASSUME EncodeInv
               PROVE  TypeOK
    OBVIOUS
  <2>1. finished \in 0..Total
    BY DEF EncodeInv, CountInv
  <2>2. QED
    BY <2>1 DEF EncodeInv, BatchTypes, SetTypes, FunctionTypes, ModeTypes, TypeOK, Early, Working
<1>2. EncodeInv => CountIsComplete
  BY DEF EncodeInv, CountInv
<1>3. EncodeInv => SlotsAreReleased
  BY NobodyWorks DEF SlotsAreReleased, Settled, ActiveItems
<1>4. QED
  BY <1>1, <1>2, <1>3, EncodeInvariance, PTL DEF MonitorSeesAll

=============================================================================
