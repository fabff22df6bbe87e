----------------------------- MODULE Clustering -----------------------------
(***************************************************************************)
(* The clustering of `encro organize` (src/organize/cluster.cpp): average  *)
(* linkage over a queue of candidate merges whose scores are brought up to *)
(* date lazily, one pop a step, and the greedy pass above the ceiling.     *)
(*                                                                         *)
(* Items are numbered in the order of their content hashes.  The cosines   *)
(* and their weighted mean (scoreProfiles) are a number per pair; a mean   *)
(* over pairs is compared as a sum against a multiple.                     *)
(***************************************************************************)
EXTENDS Naturals, FiniteSets, FiniteSetsExt

CONSTANTS
  ClusterItems,     \* items with a feature, 1..n
  PairScores,       \* the scores a pair may have
  CombinedTau,      \* --identity-tau
  FeatureOnlyTau,   \* kFeatureOnlyTau
  Ceilings          \* the ceilings a run may have

ASSUME ClusteringAssumption ==
  /\ IsFiniteSet(ClusterItems) /\ ClusterItems = 1..Cardinality(ClusterItems)
  /\ PairScores \subseteq Nat /\ Ceilings \subseteq Nat
  /\ CombinedTau \in Nat /\ FeatureOnlyTau \in Nat

Pairs == {p \in ClusterItems \X ClusterItems : p[1] < p[2]}
Both(a, b) == <<IF a < b THEN a ELSE b, IF a < b THEN b ELSE a>>

VARIABLES
  linking,      (* "off", "merge", "greedy", "linked"                        *)
  score,        (* of each pair                                              *)
  withTags,     (* the items whose profile has tag evidence                  *)
  members,      (* of each cluster; a cluster is named by its first item     *)
  sums, versions, queue,   (* MergeState                                     *)
  greedyGroups,
  fellBack

linkVars == <<linking, score, withTags, members, sums, versions, queue, greedyGroups, fellBack>>

LinkInit ==
  /\ linking = "off" /\ score = [p \in Pairs |-> 0] /\ withTags = {}
  /\ members = [i \in ClusterItems |-> {i}]
  /\ sums = [p \in Pairs |-> 0] /\ versions = [i \in ClusterItems |-> 0]
  /\ queue = {} /\ greedyGroups = {} /\ fellBack = FALSE

Living == {i \in ClusterItems : members[i] # {}}
TagMembers(i) == Cardinality(members[i] \cap withTags)

\* tauFor: which threshold a comparison of two clusters is held against.
BothCarryTagEvidence(p) == TagMembers(p[1]) > 0 /\ TagMembers(p[2]) > 0
TauFor(p) == IF BothCarryTagEvidence(p) THEN CombinedTau ELSE FeatureOnlyTau
Floor == IF CombinedTau < FeatureOnlyTau THEN CombinedTau ELSE FeatureOnlyTau

Candidate(p, sum, count, ver) ==
  [left |-> p[1], right |-> p[2], sum |-> sum, count |-> count,
   leftVersion |-> ver[p[1]], rightVersion |-> ver[p[2]]]
Reaches(c, tau) == c.sum >= tau * c.count

\* EarlierPair, turned round: higher mean first, then the lower ids.
Before(c, d) ==
  \/ c.sum * d.count > d.sum * c.count
  \/ /\ c.sum * d.count = d.sum * c.count
     /\ c.left < d.left \/ (c.left = d.left /\ c.right < d.right)

\* seedCandidates, or the greedy pass above the ceiling.
Cluster ==
  /\ linking = "off"
  /\ score' \in [Pairs -> PairScores] /\ withTags' \in SUBSET ClusterItems
  /\ sums' = score'
  /\ UNCHANGED <<members, versions, greedyGroups>>
  /\ \E ceiling \in Ceilings :
       /\ fellBack' = (Cardinality(ClusterItems) > ceiling)
       /\ linking' = IF fellBack' THEN "greedy" ELSE "merge"
       /\ queue' = IF fellBack' THEN {}
                   ELSE {c \in {Candidate(p, score'[p], 1, versions) : p \in Pairs} :
                           Reaches(c, Floor)}

\* Mutant: only the survivor's own sums are carried on.
Added_Survivor(survivor, absorbed, other) == sums[Both(survivor, other)]

Added(survivor, absorbed, other) == sums[Both(survivor, other)] + sums[Both(absorbed, other)]

\* Mutant: a merge leaves the survivor's version as it was.
NextVersion_Same(survivor) == versions

NextVersion(survivor) == [versions EXCEPT ![survivor] = @ + 1]

\* absorbCluster: the earlier cluster survives, and its pairs are queued again.
Absorb(survivor, absorbed, rest) ==
  /\ members' = [members EXCEPT ![survivor] = @ \cup members[absorbed], ![absorbed] = {}]
  /\ versions' = NextVersion(survivor)
  /\ LET others == Living \ {survivor, absorbed}
     IN /\ sums' = [p \in Pairs |->
                      IF \E o \in others : p = Both(survivor, o)
                        THEN LET o == CHOOSE o \in others : p = Both(survivor, o)
                             IN Added(survivor, absorbed, o)
                        ELSE sums[p]]
        /\ queue' = rest \cup
             {c \in {Candidate(Both(survivor, o), sums'[Both(survivor, o)],
                               Cardinality(members'[survivor]) * Cardinality(members'[o]),
                               versions') : o \in others} : Reaches(c, Floor)}

Fresh(c) ==
  /\ c.left \in Living /\ c.right \in Living
  /\ versions[c.left] = c.leftVersion /\ versions[c.right] = c.rightVersion

\* agglomerateGroups: one candidate is popped, and merged if it is still fresh and
\* reaches the threshold of its mode.
Pop ==
  /\ linking = "merge" /\ queue # {}
  /\ LET top == CHOOSE c \in queue : \A d \in queue \ {c} : ~Before(d, c)
     IN IF Fresh(top) /\ Reaches(top, TauFor(<<top.left, top.right>>))
          THEN Absorb(top.left, top.right, queue \ {top})
          ELSE queue' = queue \ {top} /\ UNCHANGED <<members, sums, versions>>
  /\ UNCHANGED <<linking, score, withTags, greedyGroups, fellBack>>

Linked ==
  /\ linking = "merge" /\ queue = {}
  /\ linking' = "linked"
  /\ UNCHANGED <<score, withTags, members, sums, versions, queue, greedyGroups, fellBack>>

Placed == UNION greedyGroups

\* greedyGroups: the next item joins a group whose centroid it is like, or opens one.
\* A score against a centroid is not the sum of pair scores: it is left open.
Place ==
  /\ linking = "greedy" /\ Placed # ClusterItems
  /\ LET i == Min(ClusterItems \ Placed)
     IN greedyGroups' \in {greedyGroups \cup {{i}}}
                            \cup {(greedyGroups \ {g}) \cup {g \cup {i}} : g \in greedyGroups}
  /\ linking' = IF Placed' = ClusterItems THEN "linked" ELSE "greedy"
  /\ UNCHANGED <<score, withTags, members, sums, versions, queue, fellBack>>

LinkNext == Cluster \/ Pop \/ Linked \/ Place

LinkSpec == LinkInit /\ [][LinkNext]_linkVars

-----------------------------------------------------------------------------
(* Properties *)

CrossSum(p) ==
  FoldSet(LAMBDA q, acc : acc + score[Both(q[1], q[2])], 0, members[p[1]] \X members[p[2]])

\* The pairs of living clusters a merge from scratch would consider.
Mergeable ==
  {p \in Pairs \cap (Living \X Living) :
     CrossSum(p) >= TauFor(p) * Cardinality(members[p[1]]) * Cardinality(members[p[2]])}

\* The lazily kept queue stands for exactly the merges a recomputation of every mean
\* would allow, with their scores, so that the merge that is made is the best one and
\* none is missed when the queue runs dry ("merge the pair of clusters whose mean
\* cross-pair score is highest while it reaches its mode's threshold", cluster.cpp).
QueueIsExact ==
  linking \in {"merge", "linked"} /\ ~fellBack =>
    {<<<<c.left, c.right>>, c.sum>> : c \in {d \in queue :
        Fresh(d) /\ Reaches(d, TauFor(<<d.left, d.right>>))}}
      = {<<p, CrossSum(p)>> : p \in Mergeable}

\* Every item is in exactly one group when the clustering is done.
GroupsPartition ==
  linking = "linked" =>
    LET groups == IF fellBack THEN greedyGroups ELSE {members[i] : i \in Living}
    IN /\ UNION groups = ClusterItems
       /\ \A g, h \in groups : g # h => g \cap h = {}

LinkageIsExact == QueueIsExact /\ GroupsPartition
=============================================================================
