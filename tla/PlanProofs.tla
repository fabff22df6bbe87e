----------------------------- MODULE PlanProofs -----------------------------
(***************************************************************************)
(* Proofs about what is decided before anything is written: the archives   *)
(* files are split into and the names of outputs and entries, for every    *)
(* set of files, every limit and every number of both; with the linkage    *)
(* of OrganizeProofs, every plan is sound.                                 *)
(***************************************************************************)
EXTENDS Plans, OrganizeProofs

-----------------------------------------------------------------------------
(* Recursion over the numbers up to N *)

\* What holds at zero and is handed on by every step holds all the way up.
LEMMA Climbs ==
  ASSUME NEW N \in Nat, NEW T, 0 \in T, \A n \in 1..N : n - 1 \in T => n \in T
  PROVE  \A n \in 0..N : n \in T
<1> DEFINE Bad == {n \in 0..N : n \notin T}
<1> SUFFICES ASSUME Bad # {} PROVE FALSE  OBVIOUS
<1>1. PICK n \in Bad : \A k \in Bad : n <= k
  <2>1. Bad \in SUBSET Nat  OBVIOUS
  <2> HIDE DEF Bad
  <2> QED BY <2>1, LeastNumber
<1>2. n \in 1..N /\ n \notin T  BY <1>1
<1>3. n - 1 \notin Bad
  <2> HIDE DEF Bad
  <2> QED BY <1>1, <1>2
<1> QED BY <1>2, <1>3

\* f goes from base on by the steps of G.
GoesBy(f, N, base, G) == f[0] = base /\ \A n \in 1..N : f[n] = G[n][f[n - 1]]

\* There is a function that goes from a base on by given steps: what a recursive definition
\* needs.
LEMMA RecursionExists ==
  ASSUME NEW N \in Nat, NEW Values, NEW base \in Values, NEW G \in [1..N -> [Values -> Values]]
  PROVE  \E f \in [0..N -> Values] : GoesBy(f, N, base, G)
<1> DEFINE T == {n \in 0..N : \E f \in [0..N -> Values] :
                   f[0] = base /\ \A k \in 1..n : f[k] = G[k][f[k - 1]]}
<1>1. 0 \in T
  <2> DEFINE f == [n \in 0..N |-> base]
  <2>1. f \in [0..N -> Values] /\ f[0] = base  OBVIOUS
  <2>2. \A k \in 1..0 : f[k] = G[k][f[k - 1]]  OBVIOUS
  <2> HIDE DEF f
  <2> QED BY <2>1, <2>2
<1>2. ASSUME NEW n \in 1..N, n - 1 \in T PROVE n \in T
  <2>1. PICK f \in [0..N -> Values] : f[0] = base /\ \A k \in 1..(n - 1) : f[k] = G[k][f[k - 1]]
    BY <1>2
  <2> DEFINE g == [f EXCEPT ![n] = G[n][f[n - 1]]]
  <2>2. g \in [0..N -> Values] /\ g[n] = G[n][f[n - 1]] /\ \A k \in 0..N : k # n => g[k] = f[k]
    <3>1. f[n - 1] \in Values /\ G[n] \in [Values -> Values]  OBVIOUS
    <3>2. G[n][f[n - 1]] \in Values  BY <3>1
    <3> QED BY <3>2
  <2> HIDE DEF g
  <2>3. \A k \in 1..n : g[k] = G[k][g[k - 1]]
    <3> TAKE k \in 1..n
    <3>1. CASE k = n  BY <2>2, <3>1
    <3>2. CASE k # n
      <4>1. k \in 1..(n - 1) /\ k - 1 \in 0..N /\ k - 1 # n  BY <3>2
      <4> QED BY <2>1, <2>2, <4>1
    <3> QED BY <3>1, <3>2
  <2>4. g[0] = base  BY <2>1, <2>2
  <2> QED BY <2>2, <2>3, <2>4
<1> HIDE DEF T
<1>3. \A n \in 1..N : n - 1 \in T => n \in T  BY <1>2
<1>4. \A n \in 0..N : n \in T  BY <1>1, <1>3, Climbs
<1>5. N \in T  BY <1>4
<1> QED BY <1>5 DEF T, GoesBy

-----------------------------------------------------------------------------
(* Choosing among the files of a sequence *)

AmongStep(f, files, chosen, n) ==
  f[n] = IF files[n] \in chosen THEN Append(f[n - 1], files[n]) ELSE f[n - 1]

\* Among, element by element.
LEMMA AmongSteps ==
  ASSUME NEW X, NEW files \in Seq(X), NEW chosen
  PROVE  \E f : /\ f[0] = <<>> /\ \A n \in 1..Len(files) : AmongStep(f, files, chosen, n)
                /\ Among(files, chosen) = f[Len(files)]
<1> DEFINE N == Len(files)
           G == [n \in 1..N |-> [s \in Seq(X) |->
                   IF files[n] \in chosen THEN Append(s, files[n]) ELSE s]]
<1>1. N \in Nat  OBVIOUS
<1>2. \A n \in 1..N : G[n] \in [Seq(X) -> Seq(X)]
  <2>1. \A n \in 1..N : files[n] \in X  OBVIOUS
  <2> QED BY <2>1
<1>3. PICK f \in [0..N -> Seq(X)] : f[0] = <<>> /\ \A n \in 1..N : f[n] = G[n][f[n - 1]]
  <2> DEFINE none == <<>>
             S == Seq(X)
  <2>1. none \in S  OBVIOUS
  <2>2. G \in [1..N -> [S -> S]]  BY <1>2
  <2> HIDE DEF G, N, none, S
  <2>3. \E f \in [0..N -> S] : GoesBy(f, N, none, G)
    BY <1>1, <2>1, <2>2, RecursionExists
  <2> QED BY <2>3 DEF none, S, GoesBy
<1> DEFINE Body(k, n) == IF n = 0 THEN <<>>
                         ELSE IF files[n] \in chosen THEN Append(k[n - 1], files[n]) ELSE k[n - 1]
           K == CHOOSE k : k = [n \in 0..N |-> Body(k, n)]
<1>4. f = [n \in 0..N |-> Body(f, n)]
  <2>1. \A n \in 0..N : f[n] = Body(f, n)
    <3> TAKE n \in 0..N
    <3>1. CASE n = 0  BY <1>3, <3>1
    <3>2. CASE n # 0
      <4>1. n \in 1..N /\ n - 1 \in 0..N  BY <1>1, <3>2
      <4>2. f[n - 1] \in Seq(X) /\ f[n] = G[n][f[n - 1]]
        <5> HIDE DEF G
        <5> QED BY <1>3, <4>1
      <4> QED BY <3>2, <4>1, <4>2
    <3> QED BY <3>1, <3>2
  <2>2. f = [n \in 0..N |-> f[n]]  OBVIOUS
  <2> QED BY <2>1, <2>2
<1>5. K = [n \in 0..N |-> Body(K, n)]  BY <1>4
<1>6. Among(files, chosen) = K[N]  BY DEF Among
<1> HIDE DEF K, G
<1>7. K[0] = <<>>  BY <1>5
<1>8. ASSUME NEW n \in 1..N PROVE AmongStep(K, files, chosen, n)
  <2>1. n \in 0..N /\ n # 0  OBVIOUS
  <2>2. K[n] = Body(K, n)  BY <1>5, <2>1
  <2> QED BY <2>1, <2>2 DEF AmongStep
<1> QED BY <1>6, <1>7, <1>8

\* A file more at the end of a sequence.
LEMMA AppendedFiles ==
  ASSUME NEW X, NEW s \in Seq(X), NEW x \in X
  PROVE  /\ Append(s, x) \in Seq(X) /\ ToSet(Append(s, x)) = ToSet(s) \cup {x}
         /\ IsInjective(s) /\ x \notin ToSet(s) => IsInjective(Append(s, x))
<1> DEFINE t == Append(s, x)
<1>1. /\ Len(s) \in Nat /\ DOMAIN s = 1..Len(s) /\ t \in Seq(X)
      /\ DOMAIN t = 1..(Len(s) + 1) /\ t[Len(s) + 1] = x
      /\ \A n \in 1..Len(s) : t[n] = s[n]
  OBVIOUS
<1>a. \A n \in 1..(Len(s) + 1) : n = Len(s) + 1 \/ n \in 1..Len(s)  BY <1>1
<1>b. \A n \in 1..Len(s) : n \in 1..(Len(s) + 1)  BY <1>1
<1>c. Len(s) + 1 \in 1..(Len(s) + 1)  BY <1>1
<1> HIDE DEF t
<1>2. ToSet(t) = ToSet(s) \cup {x}
  <2>1. \A y \in ToSet(t) : y \in ToSet(s) \cup {x}  BY <1>1, <1>a DEF ToSet
  <2>2. \A y \in ToSet(s) \cup {x} : y \in ToSet(t)  BY <1>1, <1>b, <1>c DEF ToSet
  <2> QED BY <2>1, <2>2
<1>3. ASSUME IsInjective(s), x \notin ToSet(s) PROVE IsInjective(t)
  <2>1. \A n \in 1..Len(s) : s[n] # x  BY <1>1, <1>3 DEF ToSet
  <2> SUFFICES ASSUME NEW m \in 1..(Len(s) + 1), NEW n \in 1..(Len(s) + 1), t[m] = t[n]
               PROVE  m = n
    BY <1>1 DEF IsInjective
  <2> QED BY <1>1, <1>a, <1>3, <2>1 DEF IsInjective
<1> QED BY <1>1, <1>2, <1>3 DEF t

\* Two sequences, one behind the other, that have no file in common.
LEMMA JoinedFiles ==
  ASSUME NEW X, NEW s \in Seq(X), NEW t \in Seq(X)
  PROVE  /\ s \o t \in Seq(X) /\ ToSet(s \o t) = ToSet(s) \cup ToSet(t)
         /\ Len(s \o t) = Len(s) + Len(t)
         /\ IsInjective(s) /\ IsInjective(t) /\ ToSet(s) \cap ToSet(t) = {} => IsInjective(s \o t)
<1> DEFINE u == s \o t
           k == Len(s)
           l == Len(t)
<1>1. k \in Nat /\ l \in Nat /\ DOMAIN s = 1..k /\ DOMAIN t = 1..l
  OBVIOUS
<1>2. u \in Seq(X) /\ DOMAIN u = 1..(k + l) /\ Len(u) = k + l
  OBVIOUS
<1>3. (\A n \in 1..k : u[n] = s[n]) /\ \A n \in 1..l : u[k + n] = t[n]
  BY <1>1
<1>a. \A n \in 1..k : s[n] \in ToSet(s)  BY <1>1 DEF ToSet
<1>b. \A n \in 1..l : t[n] \in ToSet(t)  BY <1>1 DEF ToSet
<1> HIDE DEF u, k, l
<1>4. \A n \in 1..(k + l) : n \in 1..k \/ (n - k \in 1..l /\ n = k + (n - k))  BY <1>1
<1>c. \A n \in 1..(k + l) : n \in 1..k \/ (n - k \in 1..l /\ u[n] = t[n - k])
  BY <1>3, <1>4
<1>5. ToSet(u) = ToSet(s) \cup ToSet(t)
  <2>1. ASSUME NEW n \in 1..(k + l) PROVE u[n] \in ToSet(s) \cup ToSet(t)
    BY <1>3, <1>c, <1>a, <1>b
  <2>2. ASSUME NEW n \in 1..k PROVE s[n] \in ToSet(u)
    <3>1. n \in 1..(k + l)  BY <1>1
    <3> QED BY <1>2, <1>3, <3>1 DEF ToSet
  <2>3. ASSUME NEW n \in 1..l PROVE t[n] \in ToSet(u)
    <3>1. k + n \in 1..(k + l)  BY <1>1
    <3> QED BY <1>2, <1>3, <3>1 DEF ToSet
  <2>4. \A y \in ToSet(u) : y \in ToSet(s) \cup ToSet(t)
    <3>1. \A y \in ToSet(u) : \E n \in 1..(k + l) : y = u[n]  BY <1>2 DEF ToSet
    <3> QED BY <2>1, <3>1
  <2>5. \A y \in ToSet(s) : y \in ToSet(u)
    <3>1. \A y \in ToSet(s) : \E n \in 1..k : y = s[n]  BY <1>1 DEF ToSet
    <3> QED BY <2>2, <3>1
  <2>6. \A y \in ToSet(t) : y \in ToSet(u)
    <3>1. \A y \in ToSet(t) : \E n \in 1..l : y = t[n]  BY <1>1 DEF ToSet
    <3> QED BY <2>3, <3>1
  <2> QED BY <2>4, <2>5, <2>6
<1>6. ASSUME IsInjective(s), IsInjective(t), ToSet(s) \cap ToSet(t) = {}
      PROVE  IsInjective(u)
  <2> SUFFICES ASSUME NEW m \in 1..(k + l), NEW n \in 1..(k + l), u[m] = u[n]
               PROVE  m = n
    BY <1>2 DEF IsInjective
  <2>1. CASE m \in 1..k /\ n \in 1..k  BY <1>1, <1>3, <1>6, <2>1 DEF IsInjective
  <2>2. CASE m - k \in 1..l /\ n - k \in 1..l
    <3>1. u[m] = t[m - k] /\ u[n] = t[n - k]
      <4>1. m = k + (m - k) /\ n = k + (n - k)  BY <1>1
      <4> QED BY <1>3, <2>2, <4>1
    <3>2. m - k = n - k  BY <1>1, <1>6, <2>2, <3>1 DEF IsInjective
    <3> QED BY <1>1, <3>2
  <2>3. CASE m \in 1..k /\ n \notin 1..k  BY <1>3, <1>6, <1>a, <1>b, <1>c, <2>3
  <2>4. CASE m \notin 1..k /\ n \in 1..k  BY <1>3, <1>6, <1>a, <1>b, <1>c, <2>4
  <2> QED BY <1>c, <2>1, <2>2, <2>3, <2>4
<1> QED BY <1>2, <1>5, <1>6 DEF u, k, l

\* Among keeps the files that are chosen, each once.
LEMMA AmongFiles ==
  ASSUME NEW X, NEW files \in Seq(X), NEW chosen
  PROVE  /\ Among(files, chosen) \in Seq(X)
         /\ ToSet(Among(files, chosen)) = ToSet(files) \cap chosen
         /\ IsInjective(files) => IsInjective(Among(files, chosen))
<1> DEFINE N == Len(files)
           Upto(n) == {files[k] : k \in 1..n}
<1>1. PICK f : /\ f[0] = <<>> /\ \A n \in 1..N : AmongStep(f, files, chosen, n)
               /\ Among(files, chosen) = f[N]
  BY AmongSteps
<1> DEFINE Good(n) == /\ f[n] \in Seq(X) /\ ToSet(f[n]) = Upto(n) \cap chosen
                      /\ IsInjective(files) => IsInjective(f[n])
           T == {n \in 0..N : Good(n)}
<1>2. N \in Nat /\ DOMAIN files = 1..N  OBVIOUS
<1>3. 0 \in T
  <2>1. <<>> \in Seq(X) /\ DOMAIN <<>> = {}  OBVIOUS
  <2>2. ToSet(<<>>) = {} /\ IsInjective(<<>>)  BY <2>1 DEF ToSet, IsInjective
  <2>3. Upto(0) = {}  OBVIOUS
  <2> HIDE DEF Upto
  <2>4. Good(0)  BY <1>1, <2>1, <2>2, <2>3
  <2> HIDE DEF Good
  <2> QED BY <1>2, <2>4
<1>4. ASSUME NEW n \in 1..N, n - 1 \in T PROVE n \in T
  <2>1. n \in 0..N /\ n - 1 \in 0..N /\ files[n] \in X  BY <1>2
  <2>2. /\ f[n - 1] \in Seq(X) /\ ToSet(f[n - 1]) = Upto(n - 1) \cap chosen
        /\ IsInjective(files) => IsInjective(f[n - 1])
    <3>1. Good(n - 1)
      <4> HIDE DEF Good
      <4> QED BY <1>4
    <3> QED BY <3>1
  <2>3. Upto(n) = Upto(n - 1) \cup {files[n]}
    <3>1. \A k \in 1..n : k = n \/ k \in 1..(n - 1)  BY <1>2
    <3>2. (\A k \in 1..(n - 1) : k \in 1..n) /\ n \in 1..n  BY <1>2
    <3> QED BY <3>1, <3>2
  <2>4. IsInjective(files) => files[n] \notin Upto(n - 1)
    <3>1. \A k \in 1..(n - 1) : k \in 1..N /\ k # n  BY <1>2
    <3> QED BY <1>2, <3>1 DEF IsInjective
  <2>a. AmongStep(f, files, chosen, n)  BY <1>1
  <2> HIDE DEF Upto
  <2>5. CASE files[n] \in chosen
    <3>1. f[n] = Append(f[n - 1], files[n])  BY <2>5, <2>a DEF AmongStep
    <3>2. ToSet(f[n]) = ToSet(f[n - 1]) \cup {files[n]} /\ f[n] \in Seq(X)
      BY <2>1, <2>2, <3>1, AppendedFiles
    <3>3. ToSet(f[n]) = Upto(n) \cap chosen  BY <2>2, <2>3, <2>5, <3>2
    <3>4. ASSUME IsInjective(files) PROVE IsInjective(f[n])
      <4>1. files[n] \notin ToSet(f[n - 1])  BY <2>2, <2>4, <3>4
      <4> QED BY <2>1, <2>2, <3>1, <3>4, <4>1, AppendedFiles
    <3> QED BY <2>1, <3>2, <3>3, <3>4
  <2>6. CASE files[n] \notin chosen
    <3>1. f[n] = f[n - 1]  BY <2>6, <2>a DEF AmongStep
    <3> QED BY <2>1, <2>2, <2>3, <2>6, <3>1
  <2> QED BY <2>5, <2>6
<1>5. N \in T
  <2>1. \A n \in 1..N : n - 1 \in T => n \in T  BY <1>4
  <2> HIDE DEF T, N
  <2>2. \A n \in 0..N : n \in T  BY <1>2, <1>3, <2>1, Climbs
  <2> QED BY <1>2, <2>2
<1>6. Upto(N) = ToSet(files)  BY <1>2 DEF ToSet
<1>b. Good(N)
  <2> HIDE DEF Good, N
  <2> QED BY <1>5
<1> HIDE DEF Upto, N
<1>7. /\ f[N] \in Seq(X) /\ ToSet(f[N]) = Upto(N) \cap chosen
      /\ IsInjective(files) => IsInjective(f[N])
  BY <1>b
<1> QED BY <1>1, <1>6, <1>7

-----------------------------------------------------------------------------
(* A sequence of sequences, laid out *)

\* FlattenSeq, list by list.
LEMMA FlatSteps ==
  ASSUME NEW X, NEW lists \in Seq(Seq(X))
  PROVE  \E f : /\ f[0] = <<>> /\ \A n \in 1..Len(lists) : f[n] = f[n - 1] \o lists[n]
                /\ FlattenSeq(lists) = f[Len(lists)]
<1> DEFINE N == Len(lists)
           S == Seq(X)
<1>1. N \in Nat /\ \A n \in 1..N : lists[n] \in S  OBVIOUS
<1>2. CASE N = 0
  <2>1. FlattenSeq(lists) = lists /\ lists = <<>>  BY <1>2 DEF FlattenSeq
  <2> DEFINE f == [n \in {0} |-> <<>>]
  <2>2. f[0] = <<>>  OBVIOUS
  <2> HIDE DEF f
  <2> QED BY <1>2, <2>1, <2>2
<1>3. CASE N # 0
  <2> DEFINE G == [n \in 1..N |-> [s \in S |-> s \o lists[n]]]
             none == <<>>
  <2>1. G \in [1..N -> [S -> S]]  BY <1>1
  <2>2. none \in S  OBVIOUS
  <2>3. PICK f \in [0..N -> S] : GoesBy(f, N, none, G)
    <3> HIDE DEF N, S, G, none
    <3> QED BY <1>1, <2>1, <2>2, RecursionExists
  <2> DEFINE Body(k, i) == IF i = 1 THEN lists[i] ELSE k[i - 1] \o lists[i]
             g == [i \in 1..N |-> f[i]]
             K == CHOOSE k : k = [i \in 1..N |-> Body(k, i)]
  <2>4. g = [i \in 1..N |-> Body(g, i)]
    <3>1. \A i \in 1..N : g[i] = Body(g, i)
      <4> TAKE i \in 1..N
      <4>1. f[i] = f[i - 1] \o lists[i]
        <5>1. f[i] = G[i][f[i - 1]]
          <6> HIDE DEF G, N, S
          <6> QED BY <2>3 DEF GoesBy
        <5>2. f[i - 1] \in S
          <6>1. i - 1 \in 0..N  BY <1>1
          <6> HIDE DEF S
          <6> QED BY <2>3, <6>1
        <5> QED BY <5>1, <5>2
      <4>2. CASE i = 1
        <5>1. f[i - 1] = <<>>  BY <2>3, <4>2 DEF GoesBy
        <5>2. <<>> \o lists[i] = lists[i]  BY <1>1
        <5>3. g[i] = lists[i]  BY <4>1, <5>1, <5>2
        <5> QED BY <4>2, <5>3
      <4>3. CASE i # 1
        <5>1. i - 1 \in 1..N  BY <4>3
        <5> QED BY <4>1, <4>3, <5>1
      <4> QED BY <4>2, <4>3
    <3>2. g = [i \in 1..N |-> g[i]]  OBVIOUS
    <3> HIDE DEF g
    <3> QED BY <3>1, <3>2
  <2>5. K = [i \in 1..N |-> Body(K, i)]
    <3> HIDE DEF g
    <3> QED BY <2>4
  <2>6. FlattenSeq(lists) = K[N]  BY <1>3 DEF FlattenSeq
  <2> HIDE DEF K, G, g
  <2> DEFINE h == [n \in 0..N |-> IF n = 0 THEN <<>> ELSE K[n]]
  <2>7. h[0] = <<>> /\ FlattenSeq(lists) = h[N]  BY <1>1, <1>3, <2>6
  <2>8. ASSUME NEW n \in 1..N PROVE h[n] = h[n - 1] \o lists[n]
    <3>a. n \in 0..N /\ n # 0  OBVIOUS
    <3>b. h[n] = K[n]  BY <3>a
    <3>c. K[n] = Body(K, n)  BY <2>5
    <3>1. h[n] = K[n] /\ K[n] = Body(K, n)  BY <3>b, <3>c
    <3>2. CASE n = 1
      <4>1. h[n - 1] = <<>>  BY <3>2
      <4>2. <<>> \o lists[n] = lists[n]  BY <1>1
      <4> QED BY <3>1, <3>2, <4>1, <4>2
    <3>3. CASE n # 1
      <4>1. n - 1 \in 0..N /\ n - 1 # 0  BY <3>3
      <4>2. h[n - 1] = K[n - 1]  BY <4>1
      <4> QED BY <3>1, <3>3, <4>2
    <3> QED BY <3>2, <3>3
  <2> HIDE DEF h
  <2> QED BY <2>7, <2>8
<1> QED BY <1>2, <1>3

\* Where every element of the layout stands: in which of the first n lists, and at
\* which place in it.
LaidOut(row, col, flat, lists, n) ==
  /\ \A k \in DOMAIN flat : /\ row[k] \in 1..n /\ col[k] \in DOMAIN lists[row[k]]
                            /\ flat[k] = lists[row[k]][col[k]]
  /\ \A k, l \in DOMAIN flat : row[k] = row[l] /\ col[k] = col[l] => k = l
  /\ \A d \in 1..n : \A i \in DOMAIN lists[d] : \E k \in DOMAIN flat : row[k] = d /\ col[k] = i

\* Where each place comes from, when a list is laid out behind those before it.
LEMMA OneMoreList ==
  ASSUME NEW X, NEW lists \in Seq(Seq(X)), NEW n \in 1..Len(lists),
         NEW s \in Seq(X), NEW row, NEW col, LaidOut(row, col, s, lists, n - 1)
  PROVE  \E r, c : LaidOut(r, c, s \o lists[n], lists, n)
<1> DEFINE l == Len(s)
           t == lists[n]
           u == s \o t
           m == Len(t)
           r == [k \in 1..(l + m) |-> IF k <= l THEN row[k] ELSE n]
           c == [k \in 1..(l + m) |-> IF k <= l THEN col[k] ELSE k - l]
<1>1. t \in Seq(X) /\ l \in Nat /\ m \in Nat /\ DOMAIN s = 1..l /\ DOMAIN t = 1..m
  OBVIOUS
<1>2. DOMAIN u = 1..(l + m) /\ (\A k \in 1..l : u[k] = s[k]) /\ \A k \in 1..m : u[l + k] = t[k]
  BY <1>1
<1> HIDE DEF u, t, l, m
<1>3. \A k \in 1..l : k \in 1..(l + m) /\ r[k] = row[k] /\ c[k] = col[k]
  BY <1>1
<1>h. \A k \in 1..(l + m) : k \notin 1..l => ~(k <= l) /\ k - l \in 1..m /\ k = l + (k - l)
  <2> HIDE DEF r, c
  <2> QED BY <1>1
<1>4. \A k \in 1..(l + m) : k \notin 1..l =>
        k - l \in 1..m /\ r[k] = n /\ c[k] = k - l /\ u[k] = t[k - l]
  <2> TAKE k \in 1..(l + m)
  <2> HAVE k \notin 1..l
  <2>1. ~(k <= l) /\ k - l \in 1..m /\ k = l + (k - l)  BY <1>h
  <2>2. r[k] = n /\ c[k] = k - l  BY <2>1
  <2>3. u[k] = t[k - l]
    <3> HIDE DEF r, c
    <3> QED BY <1>2, <2>1
  <2> QED BY <2>1, <2>2, <2>3
<1>5. \A k \in 1..m : l + k \in 1..(l + m) /\ r[l + k] = n /\ c[l + k] = k
  BY <1>1
<1> HIDE DEF r, c
<1>6. \A d \in 1..n : d = n \/ d \in 1..(n - 1)  OBVIOUS
<1>7. n \in 1..n /\ \A d \in 1..(n - 1) : d \in 1..n /\ d # n  OBVIOUS
<1>a. \A k \in 1..l : /\ row[k] \in 1..(n - 1) /\ col[k] \in DOMAIN lists[row[k]]
                     /\ s[k] = lists[row[k]][col[k]]
  BY <1>1 DEF LaidOut
<1>b. \A d \in 1..(n - 1) : \A i \in DOMAIN lists[d] : \E k \in 1..l : row[k] = d /\ col[k] = i
  <2>1. \A d \in 1..(n - 1) : \A i \in DOMAIN lists[d] : \E k \in DOMAIN s : row[k] = d /\ col[k] = i
    BY DEF LaidOut
  <2>2. \A k \in DOMAIN s : k \in 1..l  BY <1>1 DEF l
  <2> TAKE d \in 1..(n - 1)
  <2> TAKE i \in DOMAIN lists[d]
  <2>3. PICK k \in DOMAIN s : row[k] = d /\ col[k] = i  BY <2>1
  <2>4. k \in 1..l  BY <2>2
  <2> QED BY <2>3, <2>4
<1>8. ASSUME NEW k \in 1..(l + m)
      PROVE  r[k] \in 1..n /\ c[k] \in DOMAIN lists[r[k]] /\ u[k] = lists[r[k]][c[k]]
  <2>1. CASE k \in 1..l  BY <1>2, <1>3, <1>7, <1>a, <2>1
  <2>2. CASE k \notin 1..l  BY <1>1, <1>4, <1>7, <2>2 DEF t
  <2> QED BY <2>1, <2>2
<1>9. ASSUME NEW k \in 1..(l + m), NEW j \in 1..(l + m), r[k] = r[j], c[k] = c[j]
      PROVE  k = j
  <2>1. CASE k \in 1..l /\ j \in 1..l
    BY <1>1, <1>3, <1>9, <2>1 DEF LaidOut
  <2>2. CASE k \notin 1..l /\ j \notin 1..l
    <3>1. k - l = j - l  BY <1>4, <1>9, <2>2
    <3> QED BY <1>1, <3>1
  <2>3. CASE k \in 1..l /\ j \notin 1..l  BY <1>3, <1>4, <1>7, <1>9, <1>a, <2>3
  <2>4. CASE k \notin 1..l /\ j \in 1..l  BY <1>3, <1>4, <1>7, <1>9, <1>a, <2>4
  <2> QED BY <2>1, <2>2, <2>3, <2>4
<1>10. ASSUME NEW d \in 1..n, NEW i \in DOMAIN lists[d]
       PROVE  \E k \in 1..(l + m) : r[k] = d /\ c[k] = i
  <2>1. CASE d = n
    <3>1. i \in 1..m  BY <1>1, <2>1 DEF t
    <3> QED BY <1>5, <2>1, <3>1
  <2>2. CASE d \in 1..(n - 1)
    <3>1. PICK k \in 1..l : row[k] = d /\ col[k] = i  BY <1>b, <2>2
    <3> QED BY <1>3, <3>1
  <2> QED BY <1>6, <2>1, <2>2
<1>c. DOMAIN u = 1..(l + m)  BY <1>2
<1> DEFINE D == 1..(l + m)
<1>d. \A k, j \in D : r[k] = r[j] /\ c[k] = c[j] => k = j  BY <1>9
<1>e. \A k \in D : r[k] \in 1..n /\ c[k] \in DOMAIN lists[r[k]] /\ u[k] = lists[r[k]][c[k]]
  BY <1>8
<1>f. \A d \in 1..n : \A i \in DOMAIN lists[d] : \E k \in D : r[k] = d /\ c[k] = i
  BY <1>10
<1>g. DOMAIN u = D  BY <1>c
<1> HIDE DEF D
<1>11. LaidOut(r, c, u, lists, n)  BY <1>d, <1>e, <1>f, <1>g DEF LaidOut
<1> QED BY <1>11 DEF u, t

\* Lists laid out one after the other: each place is one of one list, and each is there.
LEMMA FlatPlaces ==
  ASSUME NEW X, NEW lists \in Seq(Seq(X))
  PROVE  /\ FlattenSeq(lists) \in Seq(X)
         /\ \E row, col : LaidOut(row, col, FlattenSeq(lists), lists, Len(lists))
<1> DEFINE N == Len(lists)
           S == Seq(X)
<1>1. PICK f : /\ f[0] = <<>> /\ \A n \in 1..N : f[n] = f[n - 1] \o lists[n]
               /\ FlattenSeq(lists) = f[N]
  BY FlatSteps
<1> DEFINE Good(n) == f[n] \in S /\ \E row, col : LaidOut(row, col, f[n], lists, n)
           T == {n \in 0..N : Good(n)}
<1>2. N \in Nat /\ \A n \in 1..N : lists[n] \in S  OBVIOUS
<1>3. 0 \in T
  <2>1. <<>> \in S /\ DOMAIN <<>> = {} /\ 1..0 = {}  OBVIOUS
  <2>2. LaidOut(<<>>, <<>>, <<>>, lists, 0)  BY <2>1 DEF LaidOut
  <2>3. Good(0)
    <3> HIDE DEF S
    <3> QED BY <1>1, <2>1, <2>2
  <2> HIDE DEF Good
  <2> QED BY <1>2, <2>3
<1>4. \A n \in 1..N : n - 1 \in T => n \in T
  <2> SUFFICES ASSUME NEW n \in 1..N, n - 1 \in T PROVE n \in T  OBVIOUS
  <2>1. Good(n - 1)
    <3> HIDE DEF Good
    <3> QED OBVIOUS
  <2>2. PICK row, col : LaidOut(row, col, f[n - 1], lists, n - 1)  BY <2>1
  <2>3. f[n - 1] \in S /\ lists[n] \in S /\ f[n] = f[n - 1] \o lists[n]
    <3>1. f[n - 1] \in S  BY <2>1
    <3> HIDE DEF S
    <3> QED BY <1>1, <1>2, <3>1
  <2>4. f[n] \in S  BY <2>3
  <2>5. \E r, c : LaidOut(r, c, f[n - 1] \o lists[n], lists, n)
    BY <2>2, <2>3, OneMoreList
  <2>6. Good(n)
    <3> HIDE DEF S
    <3> QED BY <2>3, <2>4, <2>5
  <2> HIDE DEF Good
  <2> QED BY <1>2, <2>6
<1>5. Good(N)
  <2> HIDE DEF T, N
  <2>1. \A n \in 0..N : n \in T  BY <1>2, <1>3, <1>4, Climbs
  <2>2. N \in T  BY <1>2, <2>1
  <2> HIDE DEF Good
  <2> QED BY <2>2 DEF T
<1> QED BY <1>1, <1>5

-----------------------------------------------------------------------------
(* The sizes of sets of files *)

SizesIn(S) == [f \in S |-> f.size]
SizeSum(S) == FoldSet(LAMBDA f, acc : acc + f.size, 0, S)

\* A fold over a set of files is the sum of their sizes, whatever the order.
LEMMA SizeSumIsSum ==
  ASSUME NEW S, IsFiniteSet(S), NEW F, SumLaws(F, S, SizesIn(S)), NEW A \in SUBSET S
  PROVE  SizeSum(A) = F[A]
<1> DEFINE w == SizesIn(S)
           g == CHOOSE g : g = [V \in SUBSET A |-> IF V = {} THEN 0
                                  ELSE g[V \ {OneOf(V)}] + OneOf(V).size]
<1>1. \A V \in SUBSET A : V # {} => w[OneOf(V)] = OneOf(V).size
  BY DEF OneOf, SizesIn
<1>2. \E h : h = [V \in SUBSET A |-> IF V = {} THEN 0
                                     ELSE h[V \ {OneOf(V)}] + OneOf(V).size]
  <2>1. IsFiniteSet(A)  BY FS_Subset
  <2> HIDE DEF w
  <2>2. PICK h : IsSum(h, A, w)  BY <2>1, SumExists
  <2>3. h = [V \in SUBSET A |-> IF V = {} THEN 0
                                ELSE h[V \ {OneOf(V)}] + OneOf(V).size]
    BY <1>1, <2>2 DEF IsSum
  <2> QED BY <2>3
<1>3. g = [V \in SUBSET A |-> IF V = {} THEN 0 ELSE g[V \ {OneOf(V)}] + OneOf(V).size]
  BY <1>2
<1>4. SizeSum(A) = g[A]
  BY DEF SizeSum, FoldSet, MapThenFoldSet, OneOf
<1> HIDE DEF g, w
<1>5. \A V \in SUBSET A : SumsUp(g, V, w)  BY <1>1, <1>3 DEF SumsUp
<1>6. SumLaws(F, S, w)  BY DEF w
<1> QED BY <1>4, <1>5, <1>6, SumsAgree

\* The sizes of the files of a set are added up.
SizesAdd(S) ==
  /\ IsFiniteSet(S) /\ TotalSize({}) = 0
  /\ \A A \in SUBSET S : TotalSize(A) \in Nat
  /\ \A f \in S : TotalSize({f}) = f.size
  /\ \A A, B \in SUBSET S : A \cap B = {} => TotalSize(A \cup B) = TotalSize(A) + TotalSize(B)

\* Sizes that are numbers add up.
LEMMA SizesAreAdded ==
  ASSUME NEW S, IsFiniteSet(S), \A f \in S : f.size \in Nat
  PROVE  SizesAdd(S)
<1>1. PICK F : SumLaws(F, S, SizesIn(S))
  <2>1. \A f \in S : SizesIn(S)[f] \in Nat  BY DEF SizesIn
  <2> QED BY <2>1, SumIsThere
<1>2. \A A \in SUBSET S : TotalSize(A) = F[A]
  <2> TAKE A \in SUBSET S
  <2>1. {f \in A : f.size # Unreadable} = A  BY DEF Unreadable
  <2>2. TotalSize(A) = SizeSum(A)  BY <2>1 DEF TotalSize, SizeSum
  <2> QED BY <1>1, <2>2, SizeSumIsSum
<1>3. F \in [SUBSET S -> Nat] /\ F[{}] = 0  BY <1>1 DEF SumLaws
<1>4. \A f \in S : F[{f}] = f.size
  <2> TAKE f \in S
  <2>1. F[{f}] = F[{f} \ {f}] + SizesIn(S)[f]  BY <1>1 DEF SumLaws
  <2>2. {f} \ {f} = {} /\ SizesIn(S)[f] = f.size  BY DEF SizesIn
  <2>3. f.size \in Nat  OBVIOUS
  <2>4. F[{f} \ {f}] = 0  BY <1>3, <2>2
  <2> QED BY <2>1, <2>2, <2>3, <2>4
<1>5. \A A, B \in SUBSET S : A \cap B = {} => F[A \cup B] = F[A] + F[B]
  BY <1>1, SumOfBoth
<1>6. /\ {} \in SUBSET S /\ \A f \in S : {f} \in SUBSET S
      /\ \A A, B \in SUBSET S : A \cup B \in SUBSET S
  OBVIOUS
<1>7. \A A \in SUBSET S : TotalSize(A) \in Nat  BY <1>2, <1>3
<1>8. TotalSize({}) = 0 /\ \A f \in S : TotalSize({f}) = f.size  BY <1>2, <1>3, <1>4, <1>6
<1>9. \A A, B \in SUBSET S : A \cap B = {} => TotalSize(A \cup B) = TotalSize(A) + TotalSize(B)
  BY <1>2, <1>5, <1>6
<1> QED BY <1>7, <1>8, <1>9 DEF SizesAdd

\* More files are never smaller.
LEMMA SizesGrow ==
  ASSUME NEW S, SizesAdd(S), NEW B \in SUBSET S, NEW A \in SUBSET B
  PROVE  /\ TotalSize(A) \in Nat /\ TotalSize(B) \in Nat /\ TotalSize(A) <= TotalSize(B)
         /\ Cardinality(A) \in Nat /\ Cardinality(B) \in Nat /\ Cardinality(A) <= Cardinality(B)
<1>1. TotalSize(A) \in Nat /\ TotalSize(B) \in Nat /\ TotalSize(B \ A) \in Nat
  BY DEF SizesAdd
<1>2. TotalSize(A \cup (B \ A)) = TotalSize(A) + TotalSize(B \ A)
  BY DEF SizesAdd
<1>3. A \cup (B \ A) = B  OBVIOUS
<1>4. IsFiniteSet(B) /\ IsFiniteSet(A)  BY FS_Subset DEF SizesAdd
<1>5. /\ Cardinality(A) \in Nat /\ Cardinality(B) \in Nat /\ Cardinality(A) <= Cardinality(B)
  BY <1>4, FS_Subset, FS_CardinalityType
<1> QED BY <1>1, <1>2, <1>3, <1>5

\* A sequence without repetition is as long as its set is large.
LEMMA LengthIsCount ==
  ASSUME NEW X, NEW s \in Seq(X), IsInjective(s)
  PROVE  IsFiniteSet(ToSet(s)) /\ Cardinality(ToSet(s)) = Len(s) /\ Len(s) \in Nat
<1> DEFINE D == 1..Len(s)
           V == ToSet(s)
<1>1. Len(s) \in Nat /\ DOMAIN s = D  OBVIOUS
<1>2. IsFiniteSet(D) /\ Cardinality(D) = Len(s)  BY <1>1, FS_Interval
<1>3. s = [n \in D |-> s[n]]  OBVIOUS
<1>4. \A n \in D : s[n] \in V  BY <1>1 DEF ToSet
<1>5. \A y \in V : \E n \in D : s[n] = y  BY <1>1 DEF ToSet
<1> HIDE DEF D, V
<1>6. s \in [D -> V]  BY <1>3, <1>4
<1>7. s \in Surjection(D, V)  BY <1>5, <1>6 DEF Surjection
<1>8. \A a, b \in D : s[a] = s[b] => a = b  BY <1>1 DEF IsInjective
<1>9. s \in Injection(D, V)  BY <1>1, <1>6, <1>8 DEF Injection, IsInjective
<1>10. IsFiniteSet(V) /\ Cardinality(V) = Cardinality(D)
  BY <1>2, <1>7, <1>9, FS_Surjection
<1> QED BY <1>1, <1>2, <1>10 DEF V

-----------------------------------------------------------------------------
(* Units: files, chunks, groups *)

\* Some files of S, none twice, with their size and their number.
UnitsOver(S) ==
  {u \in [files : Seq(S), size : Int, count : Int] :
     /\ u.files # <<>> /\ IsInjective(u.files)
     /\ u.size = TotalSize(ToSet(u.files)) /\ u.count = Len(u.files)}

\* A sequence of units that share no file.
IsPacking(units, S) ==
  /\ units \in Seq(UnitsOver(S)) /\ IsInjective(units)
  /\ \A u, v \in ToSet(units) : u # v => ToSet(u.files) \cap ToSet(v.files) = {}

Covered(units) == UNION {ToSet(u.files) : u \in ToSet(units)}

\* What a unit of a packing has: files of its own, counted and added up.
LEMMA UnitFacts ==
  ASSUME NEW S, NEW u \in UnitsOver(S)
  PROVE  /\ u = [files |-> u.files, size |-> u.size, count |-> u.count]
         /\ u.files \in Seq(S) /\ u.files # <<>> /\ IsInjective(u.files)
         /\ ToSet(u.files) \subseteq S /\ ToSet(u.files) # {} /\ IsFiniteSet(ToSet(u.files))
         /\ u.size = TotalSize(ToSet(u.files)) /\ u.size \in Int
         /\ u.count = Cardinality(ToSet(u.files)) /\ u.count = Len(u.files) /\ u.count \in Nat
<1>1. /\ u.files \in Seq(S) /\ u.files # <<>> /\ IsInjective(u.files)
      /\ u.size = TotalSize(ToSet(u.files)) /\ u.count = Len(u.files) /\ u.size \in Int
      /\ u = [files |-> u.files, size |-> u.size, count |-> u.count]
  BY DEF UnitsOver
<1>2. Len(u.files) \in Nat /\ Len(u.files) # 0 /\ DOMAIN u.files = 1..Len(u.files)
      /\ \A n \in 1..Len(u.files) : u.files[n] \in S
  BY <1>1
<1>3. ToSet(u.files) \subseteq S /\ ToSet(u.files) # {}
  <2>1. 1 \in DOMAIN u.files  BY <1>2
  <2>2. u.files[1] \in ToSet(u.files)  BY <2>1 DEF ToSet
  <2>3. \A y \in ToSet(u.files) : y \in S  BY <1>2 DEF ToSet
  <2> QED BY <2>2, <2>3
<1>4. u.count = Cardinality(ToSet(u.files)) /\ IsFiniteSet(ToSet(u.files))
  BY <1>1, LengthIsCount
<1> QED BY <1>1, <1>2, <1>3, <1>4

\* Two units that share no file make one.
LEMMA JoinedUnits ==
  ASSUME NEW S, SizesAdd(S), NEW g \in UnitsOver(S), NEW u \in UnitsOver(S),
         ToSet(g.files) \cap ToSet(u.files) = {}
  PROVE  /\ Joined(g, u) \in UnitsOver(S)
         /\ ToSet(Joined(g, u).files) = ToSet(g.files) \cup ToSet(u.files)
<1> DEFINE j == Joined(g, u)
<1>1. /\ g.files \in Seq(S) /\ IsInjective(g.files) /\ ToSet(g.files) \subseteq S
      /\ g.size = TotalSize(ToSet(g.files)) /\ g.count = Len(g.files)
      /\ g.size \in Int /\ g.count \in Nat
  BY UnitFacts
<1>2. /\ u.files \in Seq(S) /\ IsInjective(u.files) /\ ToSet(u.files) \subseteq S
      /\ u.size = TotalSize(ToSet(u.files)) /\ u.count = Len(u.files)
      /\ u.size \in Int /\ u.count \in Nat /\ u.files # <<>> /\ ToSet(u.files) # {}
  BY UnitFacts
<1>3. /\ g.files \o u.files \in Seq(S) /\ IsInjective(g.files \o u.files)
      /\ ToSet(g.files \o u.files) = ToSet(g.files) \cup ToSet(u.files)
      /\ Len(g.files \o u.files) = Len(g.files) + Len(u.files)
  BY <1>1, <1>2, JoinedFiles
<1>4. j = [files |-> g.files \o u.files, size |-> g.size + u.size, count |-> g.count + u.count]
  BY DEF Joined
<1>5. TotalSize(ToSet(g.files) \cup ToSet(u.files)) = g.size + u.size
  BY <1>1, <1>2 DEF SizesAdd
<1>6. g.files \o u.files # <<>>
  <2>1. ToSet(<<>>) = {}  BY DEF ToSet
  <2> QED BY <1>2, <1>3, <2>1
<1> DEFINE fs == g.files \o u.files
<1>7. /\ fs \in Seq(S) /\ fs # <<>> /\ IsInjective(fs) /\ g.size + u.size \in Int
      /\ g.count + u.count \in Int /\ g.size + u.size = TotalSize(ToSet(fs))
      /\ g.count + u.count = Len(fs)
  BY <1>1, <1>2, <1>3, <1>5, <1>6
<1>8. j = [files |-> fs, size |-> g.size + u.size, count |-> g.count + u.count]  BY <1>4
<1> HIDE DEF j, fs
<1>9. j \in UnitsOver(S)  BY <1>7, <1>8 DEF UnitsOver
<1> QED BY <1>3, <1>4, <1>9 DEF j, fs

\* No unit is a packing of nothing.
LEMMA NothingPackedYet ==
  ASSUME NEW S
  PROVE  /\ IsPacking(<<>>, S) /\ Covered(<<>>) = {} /\ ToSet(<<>>) = {}
<1>1. <<>> \in Seq(UnitsOver(S)) /\ DOMAIN <<>> = {}  OBVIOUS
<1>2. ToSet(<<>>) = {} /\ IsInjective(<<>>)  BY <1>1 DEF ToSet, IsInjective
<1> QED BY <1>1, <1>2 DEF IsPacking, Covered

\* A unit more, of other files.
LEMMA OneMoreUnit ==
  ASSUME NEW S, NEW g, IsPacking(g, S), NEW u \in UnitsOver(S), Covered(g) \cap ToSet(u.files) = {}
  PROVE  /\ IsPacking(Append(g, u), S) /\ Covered(Append(g, u)) = Covered(g) \cup ToSet(u.files)
         /\ ToSet(Append(g, u)) = ToSet(g) \cup {u}
<1> DEFINE h == Append(g, u)
<1>1. g \in Seq(UnitsOver(S)) /\ IsInjective(g)  BY DEF IsPacking
<1>2. \A v \in ToSet(g) : ToSet(v.files) \cap ToSet(u.files) = {}
  BY DEF Covered
<1>3. u \notin ToSet(g)
  <2>1. ToSet(u.files) # {}  BY UnitFacts
  <2> QED BY <1>2, <2>1
<1>4. h \in Seq(UnitsOver(S)) /\ ToSet(h) = ToSet(g) \cup {u} /\ IsInjective(h)
  BY <1>1, <1>3, AppendedFiles
<1> HIDE DEF h
<1>5. \A v, x \in ToSet(h) : v # x => ToSet(v.files) \cap ToSet(x.files) = {}
  BY <1>2, <1>4 DEF IsPacking
<1>6. Covered(h) = Covered(g) \cup ToSet(u.files)  BY <1>4 DEF Covered
<1>7. IsPacking(h, S)  BY <1>4, <1>5 DEF IsPacking
<1> QED BY <1>4, <1>6, <1>7 DEF h

\* A packing without its last unit.
LEMMA OneUnitLess ==
  ASSUME NEW S, NEW V, NEW g \in Seq(V), NEW u \in V, IsPacking(Append(g, u), S)
  PROVE  /\ IsPacking(g, S) /\ u \in UnitsOver(S) /\ Covered(g) \cap ToSet(u.files) = {}
         /\ ToSet(Append(g, u)) = ToSet(g) \cup {u}
<1> DEFINE h == Append(g, u)
           k == Len(g)
<1>1. /\ k \in Nat /\ DOMAIN g = 1..k /\ DOMAIN h = 1..(k + 1) /\ h[k + 1] = u
      /\ \A n \in 1..k : h[n] = g[n]
  OBVIOUS
<1>2. ToSet(h) = ToSet(g) \cup {u}  BY AppendedFiles
<1> HIDE DEF h
<1>3. h \in Seq(UnitsOver(S)) /\ IsInjective(h)
      /\ \A v, x \in ToSet(h) : v # x => ToSet(v.files) \cap ToSet(x.files) = {}
  BY DEF IsPacking, h
<1>4. \A n \in 1..(k + 1) : h[n] \in UnitsOver(S)  BY <1>1, <1>3
<1>5. (\A n \in 1..k : n \in 1..(k + 1) /\ n # k + 1) /\ k + 1 \in 1..(k + 1)  BY <1>1
<1>6. u \in UnitsOver(S)  BY <1>1, <1>4, <1>5
<1>7. g \in Seq(UnitsOver(S))
  <2>1. \A n \in 1..k : g[n] \in UnitsOver(S)  BY <1>1, <1>4, <1>5
  <2> QED BY <1>1, <2>1
<1>8. IsInjective(g)
  <2> SUFFICES ASSUME NEW m \in 1..k, NEW n \in 1..k, g[m] = g[n] PROVE m = n
    BY <1>1 DEF IsInjective, k
  <2> QED BY <1>1, <1>3, <1>5 DEF IsInjective
<1>9. u \notin ToSet(g)
  <2>1. \A n \in 1..k : g[n] # u  BY <1>1, <1>3, <1>5 DEF IsInjective
  <2>2. \A y \in ToSet(g) : \E n \in 1..k : y = g[n]  BY <1>1 DEF ToSet, k
  <2> QED BY <2>1, <2>2
<1>10. \A v \in ToSet(g) : ToSet(v.files) \cap ToSet(u.files) = {}
  BY <1>2, <1>3, <1>9
<1>11. \A v, x \in ToSet(g) : v # x => ToSet(v.files) \cap ToSet(x.files) = {}
  BY <1>2, <1>3
<1>12. IsPacking(g, S)  BY <1>7, <1>8, <1>11 DEF IsPacking
<1>13. Covered(g) \cap ToSet(u.files) = {}  BY <1>10 DEF Covered
<1> QED BY <1>2, <1>6, <1>12, <1>13 DEF h

\* Every file is a unit of its own.
LEMMA FileUnits ==
  ASSUME NEW S, SizesAdd(S), NEW files \in Seq(S), IsInjective(files)
  PROVE  /\ IsPacking(Units(files), S) /\ Covered(Units(files)) = ToSet(files)
         /\ \A u \in ToSet(Units(files)) : Len(u.files) = 1
<1> DEFINE us == Units(files)
<1>1. /\ Len(files) \in Nat /\ DOMAIN files = 1..Len(files)
      /\ \A n \in 1..Len(files) : files[n] \in S
  OBVIOUS
<1>2. \A f \in S : /\ UnitOf(f) \in UnitsOver(S) /\ ToSet(UnitOf(f).files) = {f}
                   /\ Len(UnitOf(f).files) = 1
  <2> TAKE f \in S
  <2>1. /\ <<f>> \in Seq(S) /\ <<f>> # <<>> /\ Len(<<f>>) = 1 /\ DOMAIN <<f>> = {1} /\ <<f>>[1] = f
    OBVIOUS
  <2>2. ToSet(<<f>>) = {f} /\ IsInjective(<<f>>)  BY <2>1 DEF ToSet, IsInjective
  <2>3. TotalSize({f}) = f.size /\ f.size \in Int
    <3>1. {f} \in SUBSET S  OBVIOUS
    <3> QED BY <3>1 DEF SizesAdd
  <2>4. UnitOf(f) = [files |-> <<f>>, size |-> f.size, count |-> 1]  BY DEF UnitOf
  <2> DEFINE fs == <<f>>
             x == f.size
             k == 1
             one == UnitOf(f)
  <2>a. one = [files |-> fs, size |-> x, count |-> k]  BY <2>4
  <2>b. fs \in Seq(S) /\ fs # <<>> /\ k = Len(fs) /\ k \in Int  BY <2>1
  <2>c. IsInjective(fs)  BY <2>2
  <2>d. x = TotalSize(ToSet(fs)) /\ x \in Int  BY <2>2, <2>3
  <2>5. one \in UnitsOver(S)
    <3> HIDE DEF fs, x, k, one
    <3> QED BY <2>a, <2>b, <2>c, <2>d DEF UnitsOver
  <2> QED BY <2>1, <2>2, <2>4, <2>5
<1>3. DOMAIN us = 1..Len(files) /\ \A n \in 1..Len(files) : us[n] = UnitOf(files[n])
  BY <1>1 DEF Units
<1>4. us \in Seq(UnitsOver(S))
  <2>1. us = [n \in 1..Len(files) |-> us[n]]  BY <1>3 DEF Units
  <2>2. \A n \in 1..Len(files) : us[n] \in UnitsOver(S)  BY <1>1, <1>2, <1>3
  <2> HIDE DEF us
  <2>3. us \in [1..Len(files) -> UnitsOver(S)]  BY <2>1, <2>2
  <2> QED BY <1>1, <2>3
<1> HIDE DEF us
<1>5. \A u \in ToSet(us) : \E n \in 1..Len(files) : u = UnitOf(files[n])
  BY <1>3 DEF ToSet
<1>6. \A n \in 1..Len(files) : UnitOf(files[n]) \in ToSet(us)
  BY <1>3 DEF ToSet
<1>7. \A f, h \in S : UnitOf(f) = UnitOf(h) => f = h  BY <1>2
<1>8. IsInjective(us)
  <2> SUFFICES ASSUME NEW m \in 1..Len(files), NEW n \in 1..Len(files), us[m] = us[n]
               PROVE  m = n
    BY <1>3 DEF IsInjective
  <2>1. files[m] = files[n]  BY <1>1, <1>3, <1>7
  <2> QED BY <1>1, <2>1 DEF IsInjective
<1>9. \A u, v \in ToSet(us) : u # v => ToSet(u.files) \cap ToSet(v.files) = {}
  <2> TAKE u, v \in ToSet(us)
  <2>1. PICK m \in 1..Len(files) : u = UnitOf(files[m])  BY <1>5
  <2>2. PICK n \in 1..Len(files) : v = UnitOf(files[n])  BY <1>5
  <2>3. files[m] \in S /\ files[n] \in S  BY <1>1
  <2>4. ToSet(u.files) = {files[m]} /\ ToSet(v.files) = {files[n]}  BY <1>2, <2>1, <2>2, <2>3
  <2> QED BY <2>1, <2>2, <2>4
<1>10. Covered(us) = ToSet(files)
  <2>1. ToSet(files) = {files[n] : n \in 1..Len(files)}  BY <1>1 DEF ToSet
  <2>2. \A u \in ToSet(us) : \E n \in 1..Len(files) : ToSet(u.files) = {files[n]}
    BY <1>1, <1>2, <1>5
  <2>3. \A n \in 1..Len(files) : \E u \in ToSet(us) : ToSet(u.files) = {files[n]}
    BY <1>1, <1>2, <1>6
  <2>4. \A y \in Covered(us) : y \in ToSet(files)
    <3> TAKE y \in Covered(us)
    <3>1. PICK u \in ToSet(us) : y \in ToSet(u.files)  BY DEF Covered
    <3> QED BY <2>1, <2>2, <3>1
  <2>5. \A y \in ToSet(files) : y \in Covered(us)
    <3> TAKE y \in ToSet(files)
    <3>1. PICK n \in 1..Len(files) : y = files[n]  BY <2>1
    <3>2. PICK u \in ToSet(us) : ToSet(u.files) = {files[n]}  BY <2>3
    <3> QED BY <3>1, <3>2 DEF Covered
  <2> QED BY <2>4, <2>5
<1>11. \A u \in ToSet(us) : Len(u.files) = 1  BY <1>1, <1>2, <1>5
<1> QED BY <1>4, <1>8, <1>9, <1>10, <1>11 DEF IsPacking, us

-----------------------------------------------------------------------------
(* One pass over the units *)

Records(S) == [files : Seq(S), size : Int, count : Int]
Passes(S) == [groups : Seq(Records(S)), open : Records(S)]

\* The groups t come from the groups s by one unit more.
SplitStep(s, u, t, maxSize, maxCount, V) ==
  \/ s = <<>> /\ t = Append(s, u)
  \/ \E g \in Seq(V), o \in V :
       /\ s = Append(g, o)
       /\ t = IF WouldExceed(o, u, maxSize, maxCount) THEN Append(s, u) ELSE Append(g, Joined(o, u))

\* A pass stays one when a unit is added.
LEMMA AddedUnit ==
  ASSUME NEW S, NEW p \in Passes(S), NEW u \in Records(S), NEW maxSize, NEW maxCount
  PROVE  AddUnit(p, u, maxSize, maxCount) \in Passes(S)
<1> DEFINE V == Records(S)
<1>1. p = [groups |-> p.groups, open |-> p.open] /\ p.groups \in Seq(V) /\ p.open \in V
  BY DEF Passes
<1>2. Joined(p.open, u) \in V
  <2>1. /\ p.open.files \in Seq(S) /\ p.open.size \in Int /\ p.open.count \in Int
        /\ u.files \in Seq(S) /\ u.size \in Int /\ u.count \in Int
    BY <1>1 DEF Records
  <2>2. /\ p.open.files \o u.files \in Seq(S) /\ p.open.size + u.size \in Int
        /\ p.open.count + u.count \in Int
    BY <2>1
  <2> QED BY <2>2 DEF Joined, Records
<1>3. Flushed(p.groups, p.open) \in Seq(V)
  <2>1. Append(p.groups, p.open) \in Seq(V)
    <3> HIDE DEF V
    <3> QED BY <1>1
  <2> QED BY <1>1, <2>1 DEF Flushed
<1> DEFINE q == AddUnit(p, u, maxSize, maxCount)
<1>4. \/ q = [groups |-> Flushed(p.groups, p.open), open |-> u]
      \/ q = [groups |-> p.groups, open |-> Joined(p.open, u)]
  <2>1. [p EXCEPT !.open = Joined(@, u)] = [groups |-> p.groups, open |-> Joined(p.open, u)]
    BY <1>1
  <2> QED BY <2>1 DEF AddUnit
<1>5. CASE q = [groups |-> Flushed(p.groups, p.open), open |-> u]
  <2> DEFINE a == Flushed(p.groups, p.open)
  <2>1. a \in Seq(V) /\ u \in V /\ q = [groups |-> a, open |-> u]  BY <1>3, <1>5
  <2> HIDE DEF q, a, V
  <2>2. q \in [groups : Seq(V), open : V]  BY <2>1
  <2> QED BY <2>2 DEF Passes, V, q
<1>6. CASE q = [groups |-> p.groups, open |-> Joined(p.open, u)]
  <2> DEFINE b == Joined(p.open, u)
             a == p.groups
  <2>1. a \in Seq(V) /\ b \in V /\ q = [groups |-> a, open |-> b]  BY <1>1, <1>2, <1>6
  <2> HIDE DEF q, a, b, V
  <2>2. q \in [groups : Seq(V), open : V]  BY <2>1
  <2> QED BY <2>2 DEF Passes, V, q
<1> QED BY <1>4, <1>5, <1>6

\* A pass, unit by unit.
LEMMA PassExists ==
  ASSUME NEW S, NEW units \in Seq(Records(S)), NEW maxSize, NEW maxCount
  PROVE  \E k : /\ k[0] = [groups |-> <<>>, open |-> NoGroup]
                /\ \A n \in 1..Len(units) : k[n] = AddUnit(k[n - 1], units[n], maxSize, maxCount)
                /\ Split(units, maxSize, maxCount) = Flushed(k[Len(units)].groups, k[Len(units)].open)
<1> DEFINE N == Len(units)
           P == Passes(S)
           start == [groups |-> <<>>, open |-> NoGroup]
           G == [n \in 1..N |-> [p \in P |-> AddUnit(p, units[n], maxSize, maxCount)]]
<1>1. N \in Nat /\ \A n \in 1..N : units[n] \in Records(S)  OBVIOUS
<1>2. start \in P
  <2>1. NoGroup \in Records(S)
    <3>1. <<>> \in Seq(S)  OBVIOUS
    <3> QED BY <3>1 DEF NoGroup, Records
  <2>2. <<>> \in Seq(Records(S))  OBVIOUS
  <2> QED BY <2>1, <2>2 DEF Passes
<1>3. G \in [1..N -> [P -> P]]
  <2> HIDE DEF P, N
  <2>1. \A n \in 1..N : \A p \in P : AddUnit(p, units[n], maxSize, maxCount) \in P
    BY <1>1, AddedUnit DEF P
  <2> QED BY <2>1
<1>4. PICK f \in [0..N -> P] : GoesBy(f, N, start, G)
  <2> HIDE DEF N, P, G, start
  <2> QED BY <1>1, <1>2, <1>3, RecursionExists
<1> DEFINE Body(k, n) == IF n = 0 THEN start ELSE AddUnit(k[n - 1], units[n], maxSize, maxCount)
           K == CHOOSE k : k = [n \in 0..N |-> Body(k, n)]
<1>5. f = [n \in 0..N |-> Body(f, n)]
  <2>1. \A n \in 0..N : f[n] = Body(f, n)
    <3> TAKE n \in 0..N
    <3>1. CASE n = 0  BY <1>4, <3>1 DEF GoesBy
    <3>2. CASE n # 0
      <4>1. n \in 1..N /\ n - 1 \in 0..N  BY <1>1, <3>2
      <4>2. f[n - 1] \in P
        <5> HIDE DEF P, N
        <5> QED BY <1>4, <4>1
      <4>3. f[n] = G[n][f[n - 1]]
        <5> HIDE DEF P, N, G, start
        <5> QED BY <1>4, <4>1 DEF GoesBy
      <4>4. f[n] = AddUnit(f[n - 1], units[n], maxSize, maxCount)
        <5> HIDE DEF P, N
        <5> QED BY <4>1, <4>2, <4>3
      <4> QED BY <3>2, <4>4
    <3> QED BY <3>1, <3>2
  <2>2. f = [n \in 0..N |-> f[n]]  OBVIOUS
  <2> HIDE DEF Body, N
  <2> QED BY <2>1, <2>2
<1>6. K = [n \in 0..N |-> Body(K, n)]  BY <1>5
<1>7. Split(units, maxSize, maxCount) = Flushed(K[N].groups, K[N].open)
  BY DEF Split
<1> HIDE DEF K, G
<1>8. K[0] = start
  <2>1. 0 \in 0..N  BY <1>1
  <2>2. K[0] = Body(K, 0)
    <3> HIDE DEF Body
    <3> QED BY <1>6, <2>1
  <2> QED BY <2>2
<1>9. ASSUME NEW n \in 1..N PROVE K[n] = AddUnit(K[n - 1], units[n], maxSize, maxCount)
  <2>1. n \in 0..N /\ n # 0  BY <1>1
  <2>2. K[n] = Body(K, n)
    <3> HIDE DEF Body
    <3> QED BY <1>6, <2>1
  <2> QED BY <2>1, <2>2
<1> QED BY <1>7, <1>8, <1>9

\* What a pass has put out after each unit, the open group included.
LEMMA SplitSteps ==
  ASSUME NEW S, NEW units \in Seq(Records(S)), \A n \in 1..Len(units) : units[n].files # <<>>,
         NEW maxSize, NEW maxCount
  PROVE  \E f : /\ f[0] = <<>>
                /\ \A n \in 1..Len(units) :
                     SplitStep(f[n - 1], units[n], f[n], maxSize, maxCount, Records(S))
                /\ Split(units, maxSize, maxCount) = f[Len(units)]
<1> DEFINE N == Len(units)
           V == Records(S)
           start == [groups |-> <<>>, open |-> NoGroup]
<1>1. N \in Nat /\ \A n \in 1..N : units[n] \in V /\ units[n].files # <<>>  OBVIOUS
<1>2. PICK k : /\ k[0] = start
               /\ \A n \in 1..N : k[n] = AddUnit(k[n - 1], units[n], maxSize, maxCount)
               /\ Split(units, maxSize, maxCount) = Flushed(k[N].groups, k[N].open)
  BY PassExists
<1> DEFINE Good(n) == k[n] \in Passes(S) /\ (n = 0 \/ k[n].open.files # <<>>)
           T == {n \in 0..N : Good(n)}
           f == [n \in 0..N |-> Flushed(k[n].groups, k[n].open)]
<1>3. 0 \in T
  <2>1. NoGroup \in Records(S)
    <3>1. <<>> \in Seq(S)  OBVIOUS
    <3> QED BY <3>1 DEF NoGroup, Records
  <2>2. <<>> \in Seq(Records(S))  OBVIOUS
  <2>3. start \in Passes(S)  BY <2>1, <2>2 DEF Passes
  <2>4. Good(0)
    <3> HIDE DEF start
    <3> QED BY <1>2, <2>3
  <2> HIDE DEF Good
  <2> QED BY <1>1, <2>4
<1>4. \A n \in 1..N : n - 1 \in T => n \in T
  <2> SUFFICES ASSUME NEW n \in 1..N, n - 1 \in T PROVE n \in T  OBVIOUS
  <2>1. Good(n - 1)
    <3> HIDE DEF Good
    <3> QED OBVIOUS
  <2> DEFINE p == k[n - 1]
             u == units[n]
  <2>2. k[n] = AddUnit(p, u, maxSize, maxCount) /\ p \in Passes(S)  BY <1>2, <2>1
  <2>3. u \in V /\ u.files # <<>>  BY <1>1
  <2> HIDE DEF p, u
  <2>4. k[n] \in Passes(S)  BY <2>2, <2>3, AddedUnit
  <2>5. k[n].open.files # <<>>
    <3>1. p = [groups |-> p.groups, open |-> p.open] /\ p.open \in V  BY <2>2 DEF Passes
    <3>2. CASE k[n] = [groups |-> Flushed(p.groups, p.open), open |-> u]
      <4>1. k[n].open = u  BY <3>2
      <4> QED BY <2>3, <4>1
    <3>3. CASE k[n] = [p EXCEPT !.open = Joined(@, u)]
      <4>1. [p EXCEPT !.open = Joined(@, u)] = [groups |-> p.groups, open |-> Joined(p.open, u)]
        BY <3>1
      <4>a. k[n].open = Joined(p.open, u)  BY <3>3, <4>1
      <4>2. k[n].open.files = p.open.files \o u.files
          <5>1. Joined(p.open, u).files = p.open.files \o u.files  BY DEF Joined
          <5> QED BY <4>a, <5>1
      <4>3. p.open.files \in Seq(S) /\ u.files \in Seq(S)  BY <2>3, <3>1 DEF Records
      <4>5. p.open.files \o u.files # <<>>
        <5> DEFINE a == p.open.files
                   b == u.files
                   j == a \o b
        <5>1. a \in Seq(S) /\ b \in Seq(S) /\ b # <<>>  BY <2>3, <4>3
        <5> HIDE DEF a, b
        <5>2. Len(a) \in Nat /\ Len(b) \in Nat /\ Len(b) # 0  BY <5>1
        <5>3. Len(j) = Len(a) + Len(b)  BY <5>1
        <5>4. Len(j) # 0  BY <5>2, <5>3
        <5> HIDE DEF j
        <5>5. j # <<>>  BY <5>4
        <5> QED BY <5>5 DEF j, a, b
      <4> QED BY <4>2, <4>5
    <3> QED BY <2>2, <3>2, <3>3 DEF AddUnit
  <2>6. Good(n)  BY <2>4, <2>5
  <2> HIDE DEF Good
  <2> QED BY <1>1, <2>6
<1>5. \A n \in 0..N : Good(n)
  <2> HIDE DEF Good, N
  <2>1. T = {n \in 0..N : Good(n)}  OBVIOUS
  <2> HIDE DEF T
  <2>2. \A n \in 0..N : n \in T  BY <1>1, <1>3, <1>4, Climbs
  <2> QED BY <2>1, <2>2
<1>6. f[0] = <<>>
  <2>1. 0 \in 0..N  BY <1>1
  <2>2. k[0].groups = <<>> /\ k[0].open.files = <<>>  BY <1>2 DEF NoGroup
  <2> QED BY <2>1, <2>2 DEF Flushed
<1>7. ASSUME NEW n \in 1..N
      PROVE  SplitStep(f[n - 1], units[n], f[n], maxSize, maxCount, V)
  <2> DEFINE p == k[n - 1]
             u == units[n]
             q == k[n]
  <2>1. q = AddUnit(p, u, maxSize, maxCount)  BY <1>2
  <2>2. n \in 0..N /\ n - 1 \in 0..N  BY <1>1
  <2>3. Good(n - 1) /\ Good(n)
    <3> HIDE DEF Good
    <3> QED BY <1>5, <2>2
  <2>4. p \in Passes(S) /\ q \in Passes(S) /\ q.open.files # <<>>  BY <2>3
  <2>5. f[n - 1] = Flushed(p.groups, p.open) /\ f[n] = Append(q.groups, q.open)
    <3>1. f[n - 1] = Flushed(p.groups, p.open) /\ f[n] = Flushed(q.groups, q.open)
      BY <2>2
    <3> QED BY <2>4, <3>1 DEF Flushed
  <2>6. p = [groups |-> p.groups, open |-> p.open] /\ p.open \in V /\ p.groups \in Seq(V)
    BY <2>4 DEF Passes
  <2>7. CASE n = 1
    <3>1. p = start  BY <1>2, <2>7
    <3>2. p.groups = <<>> /\ p.open = NoGroup  BY <3>1
    <3>3. p.open.files = <<>> /\ p.open.size = 0 /\ p.open.count = 0  BY <3>2 DEF NoGroup
    <3>4. q = [groups |-> p.groups, open |-> Joined(p.open, u)]
      <4>1. q = [p EXCEPT !.open = Joined(@, u)]  BY <2>1, <3>3 DEF AddUnit
      <4> HIDE DEF p, q
      <4> QED BY <2>6, <4>1
    <3>5. Joined(p.open, u) = u
      <4>1. u = [files |-> u.files, size |-> u.size, count |-> u.count]
            /\ u.files \in Seq(S) /\ u.size \in Int /\ u.count \in Int
        BY <1>1 DEF Records
      <4>2. <<>> \o u.files = u.files /\ 0 + u.size = u.size /\ 0 + u.count = u.count  BY <4>1
      <4> QED BY <3>3, <4>1, <4>2 DEF Joined
    <3>6. f[n - 1] = <<>>  BY <1>6, <2>7
    <3>7. f[n] = Append(<<>>, u)
      <4>1. q.groups = <<>> /\ q.open = u
        <5> HIDE DEF p, q, u
        <5> QED BY <3>2, <3>4, <3>5
      <4> HIDE DEF p, q, u, f
      <4> QED BY <2>5, <4>1
    <3> HIDE DEF f
    <3> QED BY <3>6, <3>7 DEF SplitStep
  <2>8. CASE n # 1
    <3>1. p.open.files # <<>>
      <4>1. n - 1 # 0  BY <2>8
      <4> QED BY <2>3, <4>1
    <3>2. f[n - 1] = Append(p.groups, p.open)
      <4> HIDE DEF f, p, q
      <4> QED BY <2>5, <3>1 DEF Flushed
    <3> DEFINE g == p.groups
               o == p.open
    <3>3. f[n] = IF WouldExceed(o, u, maxSize, maxCount) THEN Append(f[n - 1], u)
                 ELSE Append(g, Joined(o, u))
      <4>1. CASE WouldExceed(o, u, maxSize, maxCount)
        <5>1. q = [groups |-> Flushed(g, o), open |-> u]
          BY <2>1, <3>1, <4>1 DEF AddUnit
        <5>2. q.groups = Append(g, o) /\ q.open = u
          <6> HIDE DEF q, p
          <6> QED BY <3>1, <5>1 DEF Flushed
        <5> HIDE DEF f, q, p, u
        <5> QED BY <2>5, <3>2, <4>1, <5>2
      <4>2. CASE ~WouldExceed(o, u, maxSize, maxCount)
        <5>1. q = [p EXCEPT !.open = Joined(@, u)]  BY <2>1, <4>2 DEF AddUnit
        <5>2. q.groups = g /\ q.open = Joined(o, u)
          <6> HIDE DEF p, q
          <6> QED BY <2>6, <5>1
        <5> HIDE DEF f, q, p, u
        <5> QED BY <2>5, <4>2, <5>2
      <4> QED BY <4>1, <4>2
    <3> HIDE DEF f
    <3> QED BY <2>6, <3>2, <3>3 DEF SplitStep
  <2> QED BY <2>7, <2>8
<1>8. Split(units, maxSize, maxCount) = f[N]  BY <1>1, <1>2
<1> QED BY <1>6, <1>7, <1>8

Fits(u, maxSize, maxCount) == u.size <= maxSize /\ u.count <= maxCount

AllFits(files, maxSize, maxCount) ==
  TotalSize(files) <= maxSize /\ Cardinality(files) <= maxCount

\* The groups s hold the units done so far, within the limits where they can be.
Grouped(s, done, all, S, maxSize, maxCount) ==
  /\ IsPacking(s, S) /\ Covered(s) = UNION {ToSet(u.files) : u \in done}
  /\ \A a \in ToSet(s) : Fits(a, maxSize, maxCount) \/ a \in done
  /\ \A u \in done : \E a \in ToSet(s) : ToSet(u.files) \subseteq ToSet(a.files)
  /\ AllFits(all, maxSize, maxCount) => \A a, b \in ToSet(s) : a = b

\* A unit more keeps what a pass promises.
LEMMA SplitStepGroups ==
  ASSUME NEW S, SizesAdd(S), NEW maxSize \in Int, NEW maxCount \in Int,
         NEW s, NEW t, NEW done, NEW all \in SUBSET S, NEW u \in UnitsOver(S),
         Grouped(s, done, all, S, maxSize, maxCount), Covered(s) \cap ToSet(u.files) = {},
         Covered(s) \subseteq all, ToSet(u.files) \subseteq all,
         SplitStep(s, u, t, maxSize, maxCount, Records(S))
  PROVE  Grouped(t, done \cup {u}, all, S, maxSize, maxCount)
<1>1. /\ IsPacking(s, S) /\ Covered(s) = UNION {ToSet(v.files) : v \in done}
      /\ \A a \in ToSet(s) : Fits(a, maxSize, maxCount) \/ a \in done
      /\ \A v \in done : \E a \in ToSet(s) : ToSet(v.files) \subseteq ToSet(a.files)
      /\ AllFits(all, maxSize, maxCount) => \A a, b \in ToSet(s) : a = b
  BY DEF Grouped
<1>2. /\ ToSet(u.files) \subseteq S /\ ToSet(u.files) # {} /\ u.size = TotalSize(ToSet(u.files))
      /\ u.count = Cardinality(ToSet(u.files)) /\ u.size \in Int /\ u.count \in Nat
  BY UnitFacts
<1>3. Covered(s) \cup ToSet(u.files) = UNION {ToSet(v.files) : v \in done \cup {u}}
  BY <1>1
<1>4. ASSUME t = Append(s, u), AllFits(all, maxSize, maxCount) => s = <<>>
      PROVE  Grouped(t, done \cup {u}, all, S, maxSize, maxCount)
  <2>1. /\ IsPacking(t, S) /\ Covered(t) = Covered(s) \cup ToSet(u.files)
        /\ ToSet(t) = ToSet(s) \cup {u}
    BY <1>1, <1>4, OneMoreUnit
  <2>2. \A a \in ToSet(t) : Fits(a, maxSize, maxCount) \/ a \in done \cup {u}
    BY <1>1, <2>1
  <2>3. \A v \in done \cup {u} : \E a \in ToSet(t) : ToSet(v.files) \subseteq ToSet(a.files)
    BY <1>1, <2>1
  <2>4. ASSUME AllFits(all, maxSize, maxCount) PROVE \A a, b \in ToSet(t) : a = b
    <3>1. ToSet(s) = {}  BY <1>4, <2>4, NothingPackedYet
    <3> QED BY <2>1, <3>1
  <2>5. Covered(t) = UNION {ToSet(v.files) : v \in done \cup {u}}  BY <1>3, <2>1
  <2> QED BY <2>1, <2>2, <2>3, <2>4, <2>5 DEF Grouped
<1>5. CASE s = <<>> /\ t = Append(s, u)  BY <1>4, <1>5
<1>6. ASSUME NEW g \in Seq(Records(S)), NEW o \in Records(S), s = Append(g, o),
             t = IF WouldExceed(o, u, maxSize, maxCount) THEN Append(s, u) ELSE Append(g, Joined(o, u))
      PROVE  Grouped(t, done \cup {u}, all, S, maxSize, maxCount)
  <2>1. /\ IsPacking(g, S) /\ o \in UnitsOver(S) /\ Covered(g) \cap ToSet(o.files) = {}
        /\ ToSet(s) = ToSet(g) \cup {o}
    <3>1. IsPacking(Append(g, o), S)  BY <1>1, <1>6
    <3> QED BY <1>6, <3>1, OneUnitLess
  <2>2. /\ ToSet(o.files) \subseteq S /\ ToSet(o.files) # {} /\ o.size = TotalSize(ToSet(o.files))
        /\ o.count = Cardinality(ToSet(o.files)) /\ o.size \in Int /\ o.count \in Nat
    BY <2>1, UnitFacts
  <2>3. Covered(s) = Covered(g) \cup ToSet(o.files)  BY <2>1 DEF Covered
  <2>4. ToSet(o.files) \cap ToSet(u.files) = {} /\ Covered(g) \cap ToSet(u.files) = {}  BY <2>3
  <2>5. /\ Joined(o, u) \in UnitsOver(S)
        /\ ToSet(Joined(o, u).files) = ToSet(o.files) \cup ToSet(u.files)
    BY <2>1, <2>4, JoinedUnits
  <2>6. /\ Joined(o, u).size = o.size + u.size /\ Joined(o, u).count = o.count + u.count
        /\ Joined(o, u).size = TotalSize(ToSet(o.files) \cup ToSet(u.files))
        /\ Joined(o, u).count = Cardinality(ToSet(o.files) \cup ToSet(u.files))
    <3>1. Joined(o, u).size = o.size + u.size /\ Joined(o, u).count = o.count + u.count
      BY DEF Joined
    <3> QED BY <2>5, <3>1, UnitFacts
  <2>7. CASE WouldExceed(o, u, maxSize, maxCount)
    <3>1. ~AllFits(all, maxSize, maxCount)
      <4> DEFINE B == ToSet(o.files) \cup ToSet(u.files)
      <4>1. B \in SUBSET all  BY <2>3
      <4>2. /\ TotalSize(B) \in Nat /\ TotalSize(all) \in Nat /\ TotalSize(B) <= TotalSize(all)
            /\ Cardinality(B) \in Nat /\ Cardinality(all) \in Nat /\ Cardinality(B) <= Cardinality(all)
        <5> HIDE DEF B
        <5> QED BY <4>1, SizesGrow
      <4>3. TotalSize(B) = o.size + u.size /\ Cardinality(B) = o.count + u.count  BY <2>6
      <4> HIDE DEF B
      <4>4. o.size + u.size > maxSize \/ o.count + u.count > maxCount  BY <2>7 DEF WouldExceed
      <4>5. TotalSize(B) > maxSize \/ Cardinality(B) > maxCount  BY <4>3, <4>4
      <4> QED BY <4>2, <4>5 DEF AllFits
    <3>2. t = Append(s, u)  BY <1>6, <2>7
    <3> QED BY <1>4, <3>1, <3>2
  <2>8. CASE ~WouldExceed(o, u, maxSize, maxCount)
    <3> DEFINE j == Joined(o, u)
    <3>1. t = Append(g, j)  BY <1>6, <2>8
    <3>2. Covered(g) \cap ToSet(j.files) = {}  BY <2>1, <2>4, <2>5
    <3>3. /\ IsPacking(t, S) /\ Covered(t) = Covered(g) \cup ToSet(j.files)
          /\ ToSet(t) = ToSet(g) \cup {j}
      BY <2>1, <2>5, <3>1, <3>2, OneMoreUnit
    <3>4. Fits(j, maxSize, maxCount)
      <4>1. o.size + u.size <= maxSize /\ o.count + u.count <= maxCount
        BY <1>2, <2>2, <2>8 DEF WouldExceed
      <4> QED BY <2>6, <4>1 DEF Fits
    <3> HIDE DEF j
    <3>5. ToSet(o.files) \subseteq ToSet(j.files) /\ ToSet(u.files) \subseteq ToSet(j.files)
      BY <2>5 DEF j
    <3>6. \A a \in ToSet(t) : Fits(a, maxSize, maxCount) \/ a \in done \cup {u}
      BY <1>1, <2>1, <3>3, <3>4
    <3>7. \A v \in done \cup {u} : \E a \in ToSet(t) : ToSet(v.files) \subseteq ToSet(a.files)
      <4> TAKE v \in done \cup {u}
      <4>1. CASE v = u  BY <3>3, <3>5, <4>1
      <4>2. CASE v \in done
        <5>1. PICK a \in ToSet(s) : ToSet(v.files) \subseteq ToSet(a.files)  BY <1>1, <4>2
        <5>2. CASE a = o  BY <3>3, <3>5, <5>1, <5>2
        <5>3. CASE a \in ToSet(g)  BY <3>3, <5>1, <5>3
        <5> QED BY <2>1, <5>1, <5>2, <5>3
      <4> QED BY <4>1, <4>2
    <3>8. ASSUME AllFits(all, maxSize, maxCount) PROVE \A a, b \in ToSet(t) : a = b
      <4>1. \A a \in ToSet(g) : a = o  BY <1>1, <2>1, <3>8
      <4>2. o \notin ToSet(g)  BY <2>1, <2>2 DEF Covered
      <4>3. ToSet(g) = {}  BY <4>1, <4>2
      <4> QED BY <3>3, <4>3
    <3>9. Covered(t) = UNION {ToSet(v.files) : v \in done \cup {u}}
      BY <1>3, <2>3, <2>5, <3>3 DEF j
    <3> QED BY <3>3, <3>6, <3>7, <3>8, <3>9 DEF Grouped
  <2> QED BY <2>7, <2>8
<1> QED BY <1>5, <1>6 DEF SplitStep

\* What a pass promises of its groups.
LEMMA SplitGroups ==
  ASSUME NEW S, SizesAdd(S), NEW units, IsPacking(units, S), NEW maxSize \in Int, NEW maxCount \in Int
  PROVE  Grouped(Split(units, maxSize, maxCount), ToSet(units), Covered(units), S, maxSize, maxCount)
<1> DEFINE N == Len(units)
           Upto(n) == {units[k] : k \in 1..n}
           all == Covered(units)
<1>1. /\ units \in Seq(UnitsOver(S)) /\ IsInjective(units)
      /\ \A u, v \in ToSet(units) : u # v => ToSet(u.files) \cap ToSet(v.files) = {}
  BY DEF IsPacking
<1>2. N \in Nat /\ DOMAIN units = 1..N /\ \A n \in 1..N : units[n] \in UnitsOver(S)
  BY <1>1
<1>3. \A n \in 1..N : units[n] \in ToSet(units)  BY <1>2 DEF ToSet
<1>4. all \in SUBSET S
  <2>1. \A u \in ToSet(units) : u \in UnitsOver(S)  BY <1>2 DEF ToSet
  <2>2. \A u \in ToSet(units) : ToSet(u.files) \subseteq S  BY <2>1, UnitFacts
  <2> QED BY <2>2 DEF Covered
<1>5. units \in Seq(Records(S)) /\ \A n \in 1..N : units[n].files # <<>>
  <2>1. \A n \in 1..N : units[n] \in Records(S) /\ units[n].files # <<>>
    BY <1>2 DEF UnitsOver, Records
  <2> QED BY <1>1, <1>2, <2>1
<1>6. PICK f : /\ f[0] = <<>>
               /\ \A n \in 1..N : SplitStep(f[n - 1], units[n], f[n], maxSize, maxCount, Records(S))
               /\ Split(units, maxSize, maxCount) = f[N]
  <2>1. units \in Seq(Records(S))  BY <1>5
  <2>2. \A n \in 1..Len(units) : units[n].files # <<>>  BY <1>5
  <2>3. \E f : /\ f[0] = <<>>
               /\ \A n \in 1..Len(units) :
                    SplitStep(f[n - 1], units[n], f[n], maxSize, maxCount, Records(S))
               /\ Split(units, maxSize, maxCount) = f[Len(units)]
    BY <2>1, <2>2, SplitSteps
  <2> QED BY <2>3
<1> DEFINE Good(n) == Grouped(f[n], Upto(n), all, S, maxSize, maxCount)
           T == {n \in 0..N : Good(n)}
<1>7. 0 \in T
  <2>1. Upto(0) = {}  OBVIOUS
  <2>2. Good(0)
    <3> HIDE DEF Upto, all
    <3> QED BY <1>6, <2>1, NothingPackedYet DEF Grouped
  <2> HIDE DEF Good
  <2> QED BY <1>2, <2>2
<1>8. \A n \in 1..N : n - 1 \in T => n \in T
  <2> SUFFICES ASSUME NEW n \in 1..N, n - 1 \in T PROVE n \in T  OBVIOUS
  <2>1. Good(n - 1)
    <3> HIDE DEF Good
    <3> QED OBVIOUS
  <2> DEFINE u == units[n]
             s == f[n - 1]
             done == Upto(n - 1)
  <2>2. u \in UnitsOver(S)  BY <1>2
  <2>3. Upto(n) = done \cup {u}
    <3>1. \A k \in 1..n : k = n \/ k \in 1..(n - 1)  BY <1>2
    <3>2. (\A k \in 1..(n - 1) : k \in 1..n) /\ n \in 1..n  BY <1>2
    <3> QED BY <3>1, <3>2
  <2>4. Covered(s) = UNION {ToSet(v.files) : v \in done}  BY <2>1 DEF Grouped
  <2>5. \A v \in done : v \in ToSet(units) /\ v # u
    <3>1. \A k \in 1..(n - 1) : k \in 1..N /\ k # n  BY <1>2
    <3>2. \A k \in 1..(n - 1) : units[k] # units[n]  BY <1>1, <1>2, <3>1 DEF IsInjective
    <3> QED BY <1>3, <3>1, <3>2
  <2> HIDE DEF done
  <2>6. Covered(s) \cap ToSet(u.files) = {}  BY <1>1, <1>3, <2>4, <2>5
  <2>7. Covered(s) \subseteq all  BY <2>4, <2>5 DEF Covered
  <2>8. ToSet(u.files) \subseteq all  BY <1>3 DEF Covered
  <2>9. SplitStep(s, u, f[n], maxSize, maxCount, Records(S))  BY <1>6
  <2>10. Grouped(f[n], done \cup {u}, all, S, maxSize, maxCount)
    <3>1. Grouped(s, done, all, S, maxSize, maxCount)  BY <2>1 DEF done
    <3> HIDE DEF s, u, all, Upto
    <3> QED BY <1>4, <2>2, <2>6, <2>7, <2>8, <2>9, <3>1, SplitStepGroups
  <2>11. Good(n)
    <3> HIDE DEF all, Upto
    <3> QED BY <2>3, <2>10
  <2> HIDE DEF Good
  <2> QED BY <1>2, <2>11
<1>9. Good(N)
  <2> HIDE DEF T, N
  <2>1. \A n \in 0..N : n \in T  BY <1>2, <1>7, <1>8, Climbs
  <2>2. N \in T  BY <1>2, <2>1
  <2> HIDE DEF Good
  <2> QED BY <2>2 DEF T
<1>10. Upto(N) = ToSet(units)  BY <1>2 DEF ToSet
<1> HIDE DEF Upto
<1> QED BY <1>6, <1>9, <1>10

\* Packings laid out one after the other, when they share no file.
LEMMA FlatPacking ==
  ASSUME NEW S, NEW lists \in Seq(Seq(UnitsOver(S))), \A d \in 1..Len(lists) : IsPacking(lists[d], S),
         \A d, e \in 1..Len(lists) : d # e => Covered(lists[d]) \cap Covered(lists[e]) = {}
  PROVE  /\ IsPacking(FlattenSeq(lists), S)
         /\ ToSet(FlattenSeq(lists)) = UNION {ToSet(lists[d]) : d \in 1..Len(lists)}
         /\ Covered(FlattenSeq(lists)) = UNION {Covered(lists[d]) : d \in 1..Len(lists)}
<1> DEFINE N == Len(lists)
           flat == FlattenSeq(lists)
           V == UnitsOver(S)
<1>1. flat \in Seq(V) /\ \E row, col : LaidOut(row, col, flat, lists, N)
  <2>1. lists \in Seq(Seq(V))  OBVIOUS
  <2> HIDE DEF V
  <2> QED BY <2>1, FlatPlaces
<1>2. PICK row, col : LaidOut(row, col, flat, lists, N)  BY <1>1
<1> HIDE DEF flat
<1>3. \A d \in 1..N : lists[d] \in Seq(V)  OBVIOUS
<1>4. /\ \A k \in DOMAIN flat : /\ row[k] \in 1..N /\ col[k] \in DOMAIN lists[row[k]]
                               /\ flat[k] = lists[row[k]][col[k]]
      /\ \A k, l \in DOMAIN flat : row[k] = row[l] /\ col[k] = col[l] => k = l
      /\ \A d \in 1..N : \A i \in DOMAIN lists[d] : \E k \in DOMAIN flat : row[k] = d /\ col[k] = i
  BY <1>2 DEF LaidOut
<1> HIDE DEF N, V
<1>5. \A d \in 1..N : IsPacking(lists[d], S)  BY DEF N
<1>6. \A d, e \in 1..N : d # e => Covered(lists[d]) \cap Covered(lists[e]) = {}  BY DEF N
<1>7. \A k \in DOMAIN flat : flat[k] \in ToSet(lists[row[k]])  BY <1>4 DEF ToSet
<1>8. ToSet(flat) = UNION {ToSet(lists[d]) : d \in 1..N}
  <2>1. \A u \in ToSet(flat) : \E d \in 1..N : u \in ToSet(lists[d])
    BY <1>4, <1>7 DEF ToSet
  <2>2. ASSUME NEW d \in 1..N, NEW u \in ToSet(lists[d]) PROVE u \in ToSet(flat)
    <3>1. PICK i \in DOMAIN lists[d] : u = lists[d][i]  BY DEF ToSet
    <3>2. PICK k \in DOMAIN flat : row[k] = d /\ col[k] = i  BY <1>4
    <3>3. flat[k] = u  BY <1>4, <3>1, <3>2
    <3> QED BY <3>3 DEF ToSet
  <2> QED BY <2>1, <2>2
<1>9. \A d \in 1..N : \A u \in ToSet(lists[d]) :
        u \in V /\ ToSet(u.files) # {} /\ ToSet(u.files) \subseteq Covered(lists[d])
  <2>1. \A d \in 1..N : \A u \in ToSet(lists[d]) : u \in V  BY <1>3 DEF ToSet
  <2>2. \A u \in V : ToSet(u.files) # {}  BY UnitFacts DEF V
  <2> QED BY <2>1, <2>2 DEF Covered
<1>10. ASSUME NEW d \in 1..N, NEW e \in 1..N, NEW u \in ToSet(lists[d]), NEW v \in ToSet(lists[e]), d # e
       PROVE  ToSet(u.files) \cap ToSet(v.files) = {} /\ u # v
  <2>1. Covered(lists[d]) \cap Covered(lists[e]) = {}  BY <1>6, <1>10
  <2>2. ToSet(u.files) # {} /\ ToSet(u.files) \subseteq Covered(lists[d])
        /\ ToSet(v.files) \subseteq Covered(lists[e])
    BY <1>9
  <2> QED BY <2>1, <2>2
<1>11. IsInjective(flat)
  <2> SUFFICES ASSUME NEW k \in DOMAIN flat, NEW l \in DOMAIN flat, flat[k] = flat[l]
               PROVE  k = l
    BY DEF IsInjective
  <2>1. row[k] = row[l]
    <3>1. row[k] \in 1..N /\ row[l] \in 1..N  BY <1>4
    <3>2. flat[k] \in ToSet(lists[row[k]]) /\ flat[l] \in ToSet(lists[row[l]])  BY <1>7
    <3> QED BY <1>10, <3>1, <3>2
  <2>2. IsInjective(lists[row[k]])  BY <1>4, <1>5 DEF IsPacking
  <2>3. col[k] = col[l]  BY <1>4, <2>1, <2>2 DEF IsInjective
  <2> QED BY <1>4, <2>1, <2>3
<1>12. \A u, v \in ToSet(flat) : u # v => ToSet(u.files) \cap ToSet(v.files) = {}
  <2> TAKE u, v \in ToSet(flat)
  <2> HAVE u # v
  <2>1. PICK d \in 1..N : u \in ToSet(lists[d])  BY <1>8
  <2>2. PICK e \in 1..N : v \in ToSet(lists[e])  BY <1>8
  <2>3. CASE d = e
    <3>1. v \in ToSet(lists[d]) /\ IsPacking(lists[d], S)  BY <1>5, <2>2, <2>3
    <3> QED BY <2>1, <3>1 DEF IsPacking
  <2>4. CASE d # e  BY <1>10, <2>1, <2>2, <2>4
  <2> QED BY <2>3, <2>4
<1>13. Covered(flat) = UNION {Covered(lists[d]) : d \in 1..N}
  <2>1. \A y \in Covered(flat) : \E d \in 1..N : y \in Covered(lists[d])
    <3> TAKE y \in Covered(flat)
    <3>1. PICK u \in ToSet(flat) : y \in ToSet(u.files)  BY DEF Covered
    <3>2. PICK d \in 1..N : u \in ToSet(lists[d])  BY <1>8
    <3> QED BY <1>9, <3>1, <3>2
  <2>2. ASSUME NEW d \in 1..N, NEW y \in Covered(lists[d]) PROVE y \in Covered(flat)
    <3>1. PICK u \in ToSet(lists[d]) : y \in ToSet(u.files)  BY DEF Covered
    <3>2. u \in ToSet(flat)  BY <1>8
    <3> QED BY <3>1, <3>2 DEF Covered
  <2> QED BY <2>1, <2>2
<1>14. IsPacking(flat, S)  BY <1>1, <1>11, <1>12 DEF IsPacking, V
<1> QED BY <1>8, <1>13, <1>14 DEF N, flat

-----------------------------------------------------------------------------
(* Putting a finite set in order *)

\* Lt relates the elements of S as a strict total order does.
IsOrder(Lt, S) ==
  /\ \A a, b \in S : a # b => <<a, b>> \in Lt \/ <<b, a>> \in Lt
  /\ \A a, b, c \in S : <<a, b>> \in Lt /\ <<b, c>> \in Lt => <<a, c>> \in Lt

InOrder(order, Lt) == \A m, n \in DOMAIN order : m < n => <<order[m], order[n]>> \in Lt

\* A finite set that is not empty has a last element.
LEMMA LastExists ==
  ASSUME NEW S, IsFiniteSet(S), NEW Lt, IsOrder(Lt, S), NEW A \in SUBSET S, A # {}
  PROVE  \E x \in A : \A y \in A \ {x} : <<y, x>> \in Lt
<1> DEFINE Good(V) == \E x \in V : \A y \in V \ {x} : <<y, x>> \in Lt
           Bad == {V \in SUBSET S : V # {} /\ ~Good(V)}
<1> SUFFICES Bad = {}  OBVIOUS
<1> SUFFICES ASSUME Bad # {} PROVE FALSE  OBVIOUS
<1>1. PICK V \in Bad : \A W \in Bad : Cardinality(V) <= Cardinality(W)
  <2>1. \A V \in Bad : IsFiniteSet(V)  BY FS_Subset
  <2> HIDE DEF Bad
  <2> QED BY <2>1, SmallestSet
<1>2. V \in SUBSET S /\ V # {} /\ ~Good(V) /\ IsFiniteSet(V)  BY FS_Subset
<1>3. PICK z \in V : TRUE  BY <1>2
<1> DEFINE V1 == V \ {z}
<1>4. V1 \notin Bad
  <2>1. Cardinality(V) \in Nat /\ Cardinality(V1) = Cardinality(V) - 1  BY <1>2, OneLess
  <2> HIDE DEF Bad, V1
  <2> QED BY <1>1, <2>1
<1>5. CASE V1 = {}
  <2>1. Good(V)  BY <1>5
  <2> QED BY <1>2, <2>1
<1>6. CASE V1 # {}
  <2>1. Good(V1)  BY <1>2, <1>4, <1>6
  <2>2. PICK x \in V1 : \A y \in V1 \ {x} : <<y, x>> \in Lt  BY <2>1
  <2>3. x # z /\ x \in S /\ z \in S  BY <1>2, <2>2
  <2>4. CASE <<z, x>> \in Lt
    <3>1. \A y \in V \ {x} : <<y, x>> \in Lt  BY <2>2, <2>4
    <3>2. Good(V)  BY <2>2, <3>1
    <3> QED BY <1>2, <3>2
  <2>5. CASE <<x, z>> \in Lt
    <3>1. \A y \in V \ {z} : <<y, z>> \in Lt
      <4> TAKE y \in V \ {z}
      <4>1. y = x \/ (y \in V1 \ {x} /\ <<y, x>> \in Lt)  BY <2>2
      <4> QED BY <1>2, <2>3, <2>5, <4>1 DEF IsOrder
    <3>2. Good(V)  BY <1>3, <3>1
    <3> QED BY <1>2, <3>2
  <2> QED BY <2>3, <2>4, <2>5 DEF IsOrder
<1> QED BY <1>5, <1>6

\* A finite set can be put in order.
LEMMA OrderingExists ==
  ASSUME NEW S, IsFiniteSet(S), NEW Lt, IsOrder(Lt, S)
  PROVE  \A A \in SUBSET S : \E order \in SetToSeqs(A) : InOrder(order, Lt)
<1> DEFINE Good(V) == \E order \in SetToSeqs(V) : InOrder(order, Lt)
           Bad == {V \in SUBSET S : ~Good(V)}
<1> SUFFICES ASSUME Bad # {} PROVE FALSE  OBVIOUS
<1>1. PICK V \in Bad : \A W \in Bad : Cardinality(V) <= Cardinality(W)
  <2>1. \A V \in Bad : IsFiniteSet(V)  BY FS_Subset
  <2> HIDE DEF Bad
  <2> QED BY <2>1, SmallestSet
<1>2. V \in SUBSET S /\ ~Good(V) /\ IsFiniteSet(V)  BY FS_Subset
<1>3. V # {}
  <2> SUFFICES ASSUME V = {} PROVE FALSE  OBVIOUS
  <2> DEFINE order == [n \in 1..0 |-> 0]
  <2>1. Cardinality(V) = 0  BY FS_EmptySet
  <2>2. order \in SetToSeqs(V)  BY <2>1 DEF SetToSeqs
  <2>3. InOrder(order, Lt)  BY DEF InOrder
  <2> HIDE DEF order
  <2> QED BY <1>2, <2>2, <2>3
<1>4. PICK x \in V : \A y \in V \ {x} : <<y, x>> \in Lt  BY <1>2, <1>3, LastExists
<1> DEFINE V1 == V \ {x}
           c == Cardinality(V)
<1>5. c \in Nat /\ Cardinality(V1) = c - 1  BY <1>2, OneLess
<1>6. c # 0  BY <1>2, <1>3, FS_EmptySet
<1>7. V1 \notin Bad
  <2> HIDE DEF Bad, V1
  <2> QED BY <1>1, <1>5
<1>8. PICK s \in SetToSeqs(V1) : InOrder(s, Lt)
  <2>1. V1 \in SUBSET S  BY <1>2
  <2> HIDE DEF V1
  <2> QED BY <1>7, <2>1
<1>9. s \in [1..(c - 1) -> V1] /\ \A i, j \in 1..(c - 1) : i # j => s[i] # s[j]
  BY <1>5, <1>8 DEF SetToSeqs
<1> DEFINE order == [n \in 1..c |-> IF n = c THEN x ELSE s[n]]
<1> HIDE DEF V1, c
<1>10. \A n \in 1..c : n # c => n \in 1..(c - 1) /\ order[n] = s[n] /\ s[n] \in V1
  BY <1>5, <1>6, <1>9
<1>11. c \in 1..c /\ order[c] = x  BY <1>5, <1>6
<1>12. DOMAIN order = 1..c /\ V1 \subseteq V /\ x \notin V1  BY DEF V1
<1>13. order = [n \in 1..c |-> order[n]]  OBVIOUS
<1> HIDE DEF order
<1>14. order \in SetToSeqs(V)
  <2>1. \A n \in 1..c : order[n] \in V  BY <1>4, <1>10, <1>11, <1>12
  <2>2. order \in [1..c -> V]  BY <1>13, <2>1
  <2>3. \A i, j \in 1..c : i # j => order[i] # order[j]
    BY <1>9, <1>10, <1>11, <1>12
  <2> QED BY <2>2, <2>3 DEF SetToSeqs, c
<1>15. InOrder(order, Lt)
  <2> SUFFICES ASSUME NEW m \in 1..c, NEW n \in 1..c, m < n
               PROVE  <<order[m], order[n]>> \in Lt
    BY <1>12 DEF InOrder
  <2>1. m # c /\ m \in 1..(c - 1) /\ order[m] = s[m] /\ s[m] \in V1  BY <1>5, <1>10
  <2>2. CASE n = c  BY <1>4, <1>11, <2>1, <2>2 DEF V1
  <2>3. CASE n # c
    <3>1. n \in 1..(c - 1) /\ order[n] = s[n] /\ DOMAIN s = 1..(c - 1)  BY <1>9, <1>10, <2>3
    <3> QED BY <1>8, <2>1, <3>1 DEF InOrder
  <2> QED BY <2>2, <2>3
<1> QED BY <1>2, <1>14, <1>15

\* A set that is put in order is the set, each element once.
LEMMA OrderedSet ==
  ASSUME NEW S, IsFiniteSet(S), NEW order \in SetToSeqs(S)
  PROVE  order \in Seq(S) /\ IsInjective(order) /\ ToSet(order) = S
<1> DEFINE c == Cardinality(S)
           D == 1..c
<1>1. c \in Nat /\ IsFiniteSet(D) /\ Cardinality(D) = c  BY FS_CardinalityType, FS_Interval
<1>2. order \in [D -> S] /\ \A i, j \in D : i # j => order[i] # order[j]  BY DEF SetToSeqs
<1>3. order \in Seq(S) /\ DOMAIN order = D  BY <1>1, <1>2
<1> HIDE DEF c, D
<1>4. IsInjective(order)  BY <1>2, <1>3 DEF IsInjective
<1>5. order \in Injection(D, S)  BY <1>2, <1>3, <1>4 DEF Injection
<1>6. order \in Surjection(D, S)  BY <1>1, <1>5, FS_Injection DEF c
<1>7. \A y \in S : \E n \in D : order[n] = y  BY <1>6 DEF Surjection
<1>8. ToSet(order) = S  BY <1>2, <1>3, <1>7 DEF ToSet
<1> QED BY <1>3, <1>4, <1>8

-----------------------------------------------------------------------------
(* Grouping the entries *)

\* Files as a request has them: sizes that can be read or not, directories by number,
\* and no two files with one number.
AreFiles(X) ==
  /\ IsFiniteSet(X) /\ \A f \in X : f.size \in Nat \cup {Unreadable} /\ f.dir \in Dirs /\ f.id \in Nat
  /\ \A f, g \in X : f.id = g.id => f = g

Sized(X) == {f \in X : f.size # Unreadable}

\* Directories are the numbers from one on.
LEMMA DirsAreNumbers == Dirs \subseteq Nat /\ \A d \in Dirs : d \in 1..Cardinality(Dirs)
BY GroupingAssumption

\* The files that can be read have sizes that add up.
LEMMA SizedFiles ==
  ASSUME NEW X, AreFiles(X)
  PROVE  SizesAdd(Sized(X)) /\ IsFiniteSet(Sized(X)) /\ Sized(X) \subseteq X
<1>1. Sized(X) \in SUBSET X  BY DEF Sized
<1>2. IsFiniteSet(Sized(X))  BY <1>1, FS_Subset DEF AreFiles
<1>3. \A f \in Sized(X) : f.size \in Nat  BY DEF Sized, AreFiles
<1> QED BY <1>1, <1>2, <1>3, SizesAreAdded

\* A sequence is one over every set that has its elements.
LEMMA SequenceOver ==
  ASSUME NEW X, NEW s \in Seq(X), NEW V, ToSet(s) \subseteq V
  PROVE  s \in Seq(V)
<1>1. Len(s) \in Nat /\ DOMAIN s = 1..Len(s) /\ s = [n \in 1..Len(s) |-> s[n]]  OBVIOUS
<1>2. \A n \in 1..Len(s) : s[n] \in V  BY <1>1 DEF ToSet
<1> QED BY <1>1, <1>2

\* groupPackEntries leaves out the files that cannot be read, and no other.
LEMMA ReadableFiles ==
  ASSUME NEW X, NEW files \in Seq(X), IsInjective(files)
  PROVE  /\ Readable(files) \in Seq(Sized(X)) /\ IsInjective(Readable(files))
         /\ ToSet(Readable(files)) = ToSet(files) \cap Sized(X)
<1> DEFINE chosen == {f \in ToSet(files) : f.size # Unreadable}
           r == Readable(files)
<1>1. ToSet(files) \subseteq X
  <2>1. \A n \in DOMAIN files : files[n] \in X  OBVIOUS
  <2> QED BY <2>1 DEF ToSet
<1>2. r = Among(files, chosen)  BY DEF Readable
<1>3. r \in Seq(X) /\ ToSet(r) = ToSet(files) \cap chosen /\ IsInjective(r)
  <2> HIDE DEF chosen, r
  <2> QED BY <1>2, AmongFiles
<1>4. ToSet(files) \cap chosen = ToSet(files) \cap Sized(X)  BY <1>1 DEF Sized
<1> HIDE DEF r, chosen
<1>5. r \in Seq(Sized(X))  BY <1>3, <1>4, SequenceOver
<1> QED BY <1>3, <1>4, <1>5 DEF r

\* The sort by directory loses no file.
LEMMA DirectoriesInOrder ==
  ASSUME NEW X, AreFiles(X), NEW files \in Seq(X)
  PROVE  /\ ByDirectory(files) \in Seq(ToSet(files)) /\ IsInjective(ByDirectory(files))
         /\ ToSet(ByDirectory(files)) = ToSet(files)
<1> DEFINE Lt == {fg \in X \X X : DirectoryBefore(fg[1], fg[2])}
           V == ToSet(files)
<1>1. V \in SUBSET X
  <2>1. \A n \in DOMAIN files : files[n] \in X  OBVIOUS
  <2> QED BY <2>1 DEF ToSet
<1>2. \A f, g \in X : <<f, g>> \in Lt <=> DirectoryBefore(f, g)  OBVIOUS
<1>3. \A f \in X : f.dir \in Nat /\ f.id \in Nat  BY DirsAreNumbers DEF AreFiles
<1> HIDE DEF Lt, V
<1>4. IsOrder(Lt, X)
  <2>1. \A f, g \in X : f # g => DirectoryBefore(f, g) \/ DirectoryBefore(g, f)
    <3> TAKE f, g \in X
    <3>1. f # g => f.id # g.id  BY DEF AreFiles
    <3>2. f.dir \in Nat /\ g.dir \in Nat /\ f.id \in Nat /\ g.id \in Nat  BY <1>3
    <3> QED BY <3>1, <3>2 DEF DirectoryBefore
  <2>2. \A f, g, h \in X : DirectoryBefore(f, g) /\ DirectoryBefore(g, h) => DirectoryBefore(f, h)
    <3> TAKE f, g, h \in X
    <3>1. f.dir \in Nat /\ g.dir \in Nat /\ h.dir \in Nat /\ f.id \in Nat /\ g.id \in Nat /\ h.id \in Nat
      BY <1>3
    <3> QED BY <3>1 DEF DirectoryBefore
  <2> QED BY <1>2, <2>1, <2>2 DEF IsOrder
<1>5. PICK order \in SetToSeqs(V) : InOrder(order, Lt)
  BY <1>1, <1>4, OrderingExists DEF AreFiles
<1>6. IsFiniteSet(V)  BY <1>1, FS_Subset DEF AreFiles
<1>7. order \in Seq(V)  BY <1>6, OrderedSet
<1>8. \A m, n \in DOMAIN order : m < n => DirectoryBefore(order[m], order[n])
  <2>1. \A n \in DOMAIN order : order[n] \in X  BY <1>1, <1>7
  <2> QED BY <1>2, <1>5, <2>1 DEF InOrder
<1>9. ByDirectory(files) \in SetToSeqs(V)  BY <1>5, <1>8 DEF ByDirectory, V
<1>10. /\ ByDirectory(files) \in Seq(V) /\ IsInjective(ByDirectory(files))
       /\ ToSet(ByDirectory(files)) = V
  BY <1>6, <1>9, OrderedSet
<1> QED BY <1>10 DEF V

InDirectory(V, d) == {f \in V : f.dir = d}

\* The chunks of a directory hold its files, in one chunk when they fit.
LEMMA ChunksOfDirectory ==
  ASSUME NEW S, SizesAdd(S), NEW files \in Seq(S), IsInjective(files), NEW d,
         NEW maxSize \in Int, NEW maxCount \in Int
  PROVE  LET chunks == ChunksOf(files, d, maxSize, maxCount)
             mine == InDirectory(ToSet(files), d)
         IN  /\ IsPacking(chunks, S) /\ Covered(chunks) = mine
             /\ \A c \in ToSet(chunks) : Fits(c, maxSize, maxCount) \/ Len(c.files) = 1
             /\ AllFits(mine, maxSize, maxCount) => \A a, b \in ToSet(chunks) : a = b
<1> DEFINE mine == InDirectory(ToSet(files), d)
           own == OfDirectory(files, d)
           us == Units(own)
           chunks == Split(us, maxSize, maxCount)
<1>1. own \in Seq(S) /\ ToSet(own) = mine /\ IsInjective(own)
  <2> DEFINE chosen == {f \in ToSet(files) : f.dir = d}
  <2>1. own = Among(files, chosen)  BY DEF OfDirectory
  <2>2. ToSet(files) \cap chosen = mine  BY DEF InDirectory
  <2> HIDE DEF own, chosen, mine
  <2> QED BY <2>1, <2>2, AmongFiles
<1> HIDE DEF own
<1>2. IsPacking(us, S) /\ Covered(us) = mine /\ \A u \in ToSet(us) : Len(u.files) = 1
  <2> HIDE DEF mine
  <2> QED BY <1>1, FileUnits
<1> HIDE DEF us, mine
<1>3. Grouped(chunks, ToSet(us), Covered(us), S, maxSize, maxCount)  BY <1>2, SplitGroups
<1>4. chunks = ChunksOf(files, d, maxSize, maxCount)  BY DEF ChunksOf, own, us
<1> HIDE DEF chunks
<1>5. /\ IsPacking(chunks, S) /\ Covered(chunks) = mine
      /\ AllFits(mine, maxSize, maxCount) => \A a, b \in ToSet(chunks) : a = b
  <2>1. Covered(us) = UNION {ToSet(u.files) : u \in ToSet(us)}  BY DEF Covered
  <2> QED BY <1>2, <1>3, <2>1 DEF Grouped
<1>6. \A c \in ToSet(chunks) : Fits(c, maxSize, maxCount) \/ Len(c.files) = 1
  BY <1>2, <1>3 DEF Grouped
<1> QED BY <1>4, <1>5, <1>6 DEF mine

\* What a grouping promises: every file of V in one group, within the limits where they
\* can be, and above the threshold no directory split that fits into a group.
WellGrouped(groups, V, S, maxSize, maxCount, threshold) ==
  /\ IsPacking(groups, S) /\ Covered(groups) = V
  /\ \A g \in ToSet(groups) : Fits(g, maxSize, maxCount) \/ Len(g.files) = 1
  /\ Cardinality(V) > threshold =>
       \A d \in Dirs : InDirectory(V, d) # {} /\ AllFits(InDirectory(V, d), maxSize, maxCount)
         => \E g \in ToSet(groups) : InDirectory(V, d) \subseteq ToSet(g.files)

\* Grouping files, one by one or by their directories, groups all of them well.
LEMMA EntriesGrouped ==
  ASSUME NEW X, AreFiles(X), NEW files \in Seq(X), IsInjective(files),
         NEW maxSize \in Int, NEW maxCount \in Int, NEW threshold \in Int
  PROVE  WellGrouped(GroupEntries(files, maxSize, maxCount, threshold), ToSet(files) \cap Sized(X),
                     Sized(X), maxSize, maxCount, threshold)
<1> DEFINE groups == GroupEntries(files, maxSize, maxCount, threshold)
           S == Sized(X)
           V == ToSet(files) \cap S
           readable == Readable(files)
<1>1. SizesAdd(S) /\ S \subseteq X  BY SizedFiles
<1>2. readable \in Seq(S) /\ IsInjective(readable) /\ ToSet(readable) = V
  BY ReadableFiles
<1>3. Cardinality(V) = Len(readable) /\ Len(readable) \in Nat
  <2> HIDE DEF readable, V, S
  <2> QED BY <1>2, LengthIsCount
<1>4. CASE Len(readable) <= threshold
  <2> DEFINE us == Units(readable)
  <2>1. groups = Split(us, maxSize, maxCount)  BY <1>4 DEF GroupEntries
  <2> HIDE DEF readable, groups, V, S
  <2>2. IsPacking(us, S) /\ Covered(us) = V /\ \A u \in ToSet(us) : Len(u.files) = 1
    BY <1>1, <1>2, FileUnits
  <2> HIDE DEF us
  <2>3. Grouped(groups, ToSet(us), Covered(us), S, maxSize, maxCount)  BY <1>1, <2>1, <2>2, SplitGroups
  <2>4. IsPacking(groups, S) /\ Covered(groups) = V
    <3>1. Covered(us) = UNION {ToSet(u.files) : u \in ToSet(us)}  BY DEF Covered
    <3> QED BY <2>2, <2>3, <3>1 DEF Grouped
  <2>5. \A g \in ToSet(groups) : Fits(g, maxSize, maxCount) \/ Len(g.files) = 1
    BY <2>2, <2>3 DEF Grouped
  <2>6. ~(Cardinality(V) > threshold)  BY <1>3, <1>4
  <2> QED BY <2>4, <2>5, <2>6 DEF groups, V, S, WellGrouped
<1>5. CASE ~(Len(readable) <= threshold)
  <2> DEFINE sorted == ByDirectory(readable)
             N == Cardinality(Dirs)
             lists == [d \in 1..N |-> ChunksOf(sorted, d, maxSize, maxCount)]
             chunks == FlattenSeq(lists)
  <2>1. groups = Split(chunks, maxSize, maxCount)  BY <1>5 DEF GroupEntries
  <2>2. sorted \in Seq(S) /\ IsInjective(sorted) /\ ToSet(sorted) = V
    <3>1. readable \in Seq(X)
      <4> HIDE DEF readable, S
      <4>1. ToSet(readable) \subseteq X  BY <1>1, <1>2
      <4> QED BY <1>2, <4>1, SequenceOver
    <3>2. sorted \in Seq(V) /\ IsInjective(sorted) /\ ToSet(sorted) = V
      <4> HIDE DEF readable, V, S
      <4> QED BY <1>2, <3>1, DirectoriesInOrder
    <3>3. ToSet(sorted) \subseteq S  BY <3>2
    <3> HIDE DEF sorted, V, S
    <3> QED BY <3>2, <3>3, SequenceOver
  <2> HIDE DEF readable, groups, V, S, sorted
  <2>3. N \in Nat /\ DOMAIN lists = 1..N  BY GroupingAssumption
  <2>4. \A d \in 1..N :
          /\ IsPacking(lists[d], S) /\ Covered(lists[d]) = InDirectory(V, d)
          /\ \A c \in ToSet(lists[d]) : Fits(c, maxSize, maxCount) \/ Len(c.files) = 1
          /\ AllFits(InDirectory(V, d), maxSize, maxCount) => \A a, b \in ToSet(lists[d]) : a = b
    <3> TAKE d \in 1..N
    <3>1. lists[d] = ChunksOf(sorted, d, maxSize, maxCount)  OBVIOUS
    <3> HIDE DEF lists, N
    <3> QED BY <1>1, <2>2, <3>1, ChunksOfDirectory
  <2>5. lists \in Seq(Seq(UnitsOver(S))) /\ Len(lists) = N
    <3>1. \A d \in 1..N : lists[d] \in Seq(UnitsOver(S))
      <4> HIDE DEF lists
      <4> QED BY <2>4 DEF IsPacking
    <3>2. lists = [d \in 1..N |-> lists[d]]  OBVIOUS
    <3> HIDE DEF lists, N
    <3> QED BY <2>3, <3>1, <3>2
  <2> HIDE DEF lists, N
  <2>6. \A d, e \in 1..N : d # e => Covered(lists[d]) \cap Covered(lists[e]) = {}
    <3>1. \A d \in 1..N : Covered(lists[d]) = InDirectory(V, d)  BY <2>4
    <3>2. \A d, e : d # e => InDirectory(V, d) \cap InDirectory(V, e) = {}  BY DEF InDirectory
    <3>3. N \in Nat  BY <2>3
    <3> QED BY <3>1, <3>2
  <2>7. /\ IsPacking(chunks, S) /\ ToSet(chunks) = UNION {ToSet(lists[d]) : d \in 1..N}
        /\ Covered(chunks) = UNION {Covered(lists[d]) : d \in 1..N}
    <3>1. lists \in Seq(Seq(UnitsOver(S)))  BY <2>5
    <3>2. \A d \in 1..Len(lists) : IsPacking(lists[d], S)  BY <2>4, <2>5
    <3>3. \A d, e \in 1..Len(lists) : d # e => Covered(lists[d]) \cap Covered(lists[e]) = {}
      BY <2>5, <2>6
    <3>4. /\ IsPacking(FlattenSeq(lists), S)
          /\ ToSet(FlattenSeq(lists)) = UNION {ToSet(lists[d]) : d \in 1..Len(lists)}
          /\ Covered(FlattenSeq(lists)) = UNION {Covered(lists[d]) : d \in 1..Len(lists)}
      BY <3>1, <3>2, <3>3, FlatPacking
    <3> QED BY <2>5, <3>4
  <2> HIDE DEF chunks
  <2>8. Covered(chunks) = V
    <3>1. \A d \in 1..N : Covered(lists[d]) = InDirectory(V, d)  BY <2>4
    <3>2. \A f \in V : f.dir \in 1..N
      BY <1>1, DirsAreNumbers DEF AreFiles, N, V
    <3>3. \A f \in V : f \in InDirectory(V, f.dir)  BY DEF InDirectory
    <3>4. \A d : InDirectory(V, d) \subseteq V  BY DEF InDirectory
    <3> QED BY <2>7, <3>1, <3>2, <3>3, <3>4
  <2>9. Grouped(groups, ToSet(chunks), Covered(chunks), S, maxSize, maxCount)
    BY <1>1, <2>1, <2>7, SplitGroups
  <2>10. IsPacking(groups, S) /\ Covered(groups) = V
    <3>1. Covered(chunks) = UNION {ToSet(u.files) : u \in ToSet(chunks)}  BY DEF Covered
    <3> QED BY <2>8, <2>9, <3>1 DEF Grouped
  <2>11. \A g \in ToSet(groups) : Fits(g, maxSize, maxCount) \/ Len(g.files) = 1
    <3>1. \A c \in ToSet(chunks) : Fits(c, maxSize, maxCount) \/ Len(c.files) = 1  BY <2>4, <2>7
    <3> QED BY <2>9, <3>1 DEF Grouped
  <2>12. ASSUME NEW d \in Dirs, InDirectory(V, d) # {}, AllFits(InDirectory(V, d), maxSize, maxCount)
         PROVE  \E g \in ToSet(groups) : InDirectory(V, d) \subseteq ToSet(g.files)
    <3>1. d \in 1..N  BY DirsAreNumbers DEF N
    <3>2. Covered(lists[d]) = InDirectory(V, d) /\ \A a, b \in ToSet(lists[d]) : a = b
      BY <2>4, <2>12, <3>1
    <3>3. PICK c \in ToSet(lists[d]) : TRUE  BY <2>12, <3>2 DEF Covered
    <3>4. Covered(lists[d]) = ToSet(c.files)  BY <3>2, <3>3 DEF Covered
    <3>5. c \in ToSet(chunks)  BY <2>7, <3>1, <3>3
    <3>6. PICK g \in ToSet(groups) : ToSet(c.files) \subseteq ToSet(g.files)
      BY <2>9, <3>5 DEF Grouped
    <3> QED BY <3>2, <3>4, <3>6
  <2> QED BY <2>10, <2>11, <2>12 DEF groups, V, S, WellGrouped
<1> QED BY <1>4, <1>5

-----------------------------------------------------------------------------
(* The partitions of a request *)

CutOf(parts, files, threshold, p) ==
  GroupEntries(parts[p].files, MaxArchive, NoLimit, InnerThreshold(files, threshold))

PartsOf(files, threshold) == GroupEntries(files, TotalSize(ToSet(files)), MaxPerPart, threshold)

\* The list holds, under its part and number, every group that a part is cut into.
CutUp(list, parts, cut, S) ==
  /\ IsPacking(parts, S) /\ DOMAIN list = 1..Len(list) /\ Len(list) \in Nat
  /\ \A p \in DOMAIN parts : IsPacking(cut[p], S) /\ Covered(cut[p]) = ToSet(parts[p].files)
  /\ \A a \in DOMAIN list : /\ list[a].part \in DOMAIN parts
                            /\ list[a].sub \in DOMAIN cut[list[a].part]
                            /\ list[a].files = cut[list[a].part][list[a].sub].files
  /\ \A a, b \in DOMAIN list : list[a].part = list[b].part /\ list[a].sub = list[b].sub => a = b
  /\ \A p \in DOMAIN parts : \A s \in DOMAIN cut[p] :
       \E a \in DOMAIN list : list[a].part = p /\ list[a].sub = s

\* The files that cannot be read add nothing.
LEMMA TotalOfSized ==
  ASSUME NEW X, AreFiles(X)
  PROVE  TotalSize(X) \in Nat /\ TotalSize(X) = TotalSize(Sized(X))
<1>1. {f \in X : f.size # Unreadable} = {f \in Sized(X) : f.size # Unreadable}  BY DEF Sized
<1>2. TotalSize(X) = TotalSize(Sized(X))  BY <1>1 DEF TotalSize
<1>3. SizesAdd(Sized(X))  BY SizedFiles
<1> QED BY <1>2, <1>3 DEF SizesAdd

\* The logical parts hold every readable file once, and no part too many.
LEMMA PartsAreGrouped ==
  ASSUME NEW files, files \in Seq(ToSet(files)), IsInjective(files), AreFiles(ToSet(files)),
         NEW threshold \in Nat
  PROVE  LET parts == PartsOf(files, threshold)
             S == Sized(ToSet(files))
         IN  /\ IsPacking(parts, S) /\ Covered(parts) = S
             /\ \A g \in ToSet(parts) : Len(g.files) <= MaxPerPart
<1> DEFINE X == ToSet(files)
           S == Sized(X)
           total == TotalSize(X)
           parts == PartsOf(files, threshold)
<1>1. total \in Int /\ MaxPerPart \in Int /\ threshold \in Int /\ 1 <= MaxPerPart
  <2>1. total \in Nat  BY TotalOfSized
  <2> QED BY <2>1, GroupingAssumption
<1>2. S \subseteq X  BY SizedFiles
<1>3. parts = GroupEntries(files, total, MaxPerPart, threshold)  BY DEF PartsOf
<1> HIDE DEF total, parts
<1>4. /\ IsPacking(parts, S) /\ Covered(parts) = X \cap S
      /\ \A g \in ToSet(parts) : Fits(g, total, MaxPerPart) \/ Len(g.files) = 1
  <2>1. WellGrouped(parts, X \cap S, S, total, MaxPerPart, threshold)
    BY <1>1, <1>3, EntriesGrouped
  <2> QED BY <2>1 DEF WellGrouped
<1>5. \A g \in ToSet(parts) : g.count = Len(g.files)
  <2>1. \A g \in ToSet(parts) : g \in UnitsOver(S)  BY <1>4 DEF IsPacking, ToSet
  <2> QED BY <2>1, UnitFacts
<1>6. \A g \in ToSet(parts) : Len(g.files) <= MaxPerPart  BY <1>1, <1>4, <1>5 DEF Fits
<1> QED BY <1>2, <1>4, <1>6 DEF parts

\* The archives of a part hold its files once, within the size, directories together.
LEMMA CutsAreGrouped ==
  ASSUME NEW files, files \in Seq(ToSet(files)), IsInjective(files), AreFiles(ToSet(files)),
         NEW threshold \in Nat, Len(files) <= MaxFiles,
         NEW p \in DOMAIN PartsOf(files, threshold)
  PROVE  LET parts == PartsOf(files, threshold)
             cut == CutOf(parts, files, threshold, p)
             S == Sized(ToSet(files))
             V == ToSet(parts[p].files)
         IN  /\ IsPacking(cut, S) /\ Covered(cut) = V
             /\ \A g \in ToSet(cut) : TotalSize(ToSet(g.files)) <= MaxArchive \/ Len(g.files) = 1
             /\ Len(files) > threshold =>
                  \A d \in Dirs : InDirectory(V, d) # {} /\ TotalSize(InDirectory(V, d)) <= MaxArchive
                    => \E g \in ToSet(cut) : InDirectory(V, d) \subseteq ToSet(g.files)
<1> DEFINE X == ToSet(files)
           S == Sized(X)
           parts == PartsOf(files, threshold)
           fs == parts[p].files
           V == ToSet(fs)
           inner == InnerThreshold(files, threshold)
           cut == CutOf(parts, files, threshold, p)
<1>1. IsPacking(parts, S)  BY PartsAreGrouped
<1>2. S \subseteq X /\ SizesAdd(S)  BY SizedFiles
<1> HIDE DEF parts
<1>3. parts[p] \in UnitsOver(S)  BY <1>1 DEF IsPacking, parts
<1>4. fs \in Seq(S) /\ IsInjective(fs) /\ V \subseteq S /\ V # {} /\ IsFiniteSet(V)  BY <1>3, UnitFacts
<1>5. fs \in Seq(X)
  <2> HIDE DEF fs, V, S
  <2>1. ToSet(fs) \subseteq X  BY <1>2, <1>4 DEF V
  <2> QED BY <1>4, <2>1, SequenceOver
<1>6. MaxArchive \in Int /\ NoLimit \in Int /\ inner \in Int /\ NoLimit >= Len(files) /\ Len(files) \in Nat
  BY GroupingAssumption DEF InnerThreshold
<1>7. cut = GroupEntries(fs, MaxArchive, NoLimit, inner)  BY DEF CutOf
<1>8. V \cap S = V  BY <1>4
<1> HIDE DEF cut, fs, V, S, inner, X
<1>9. /\ IsPacking(cut, S) /\ Covered(cut) = V
      /\ \A g \in ToSet(cut) : Fits(g, MaxArchive, NoLimit) \/ Len(g.files) = 1
      /\ Cardinality(V) > inner =>
           \A d \in Dirs : InDirectory(V, d) # {} /\ AllFits(InDirectory(V, d), MaxArchive, NoLimit)
             => \E g \in ToSet(cut) : InDirectory(V, d) \subseteq ToSet(g.files)
  <2>1. AreFiles(X)  BY DEF X
  <2>2. ToSet(fs) \cap Sized(X) = V  BY <1>8 DEF V, S
  <2>3. WellGrouped(cut, ToSet(fs) \cap Sized(X), Sized(X), MaxArchive, NoLimit, inner)
    BY <1>4, <1>5, <1>6, <1>7, <2>1, EntriesGrouped
  <2> QED BY <2>2, <2>3 DEF WellGrouped, S
<1>10. \A g \in ToSet(cut) : TotalSize(ToSet(g.files)) <= MaxArchive \/ Len(g.files) = 1
  <2>1. \A g \in ToSet(cut) : g \in UnitsOver(S)  BY <1>9 DEF IsPacking, ToSet
  <2>2. \A g \in ToSet(cut) : g.size = TotalSize(ToSet(g.files))  BY <2>1, UnitFacts
  <2> QED BY <1>9, <2>2 DEF Fits
<1>11. ASSUME Len(files) > threshold, NEW d \in Dirs, InDirectory(V, d) # {},
              TotalSize(InDirectory(V, d)) <= MaxArchive
       PROVE  \E g \in ToSet(cut) : InDirectory(V, d) \subseteq ToSet(g.files)
  <2>1. inner = 0  BY <1>11 DEF inner, InnerThreshold
  <2>2. Cardinality(V) > inner
    <3>1. Cardinality(V) \in Nat /\ Cardinality(V) # 0  BY <1>4, FS_CardinalityType, FS_EmptySet
    <3> QED BY <2>1, <3>1
  <2>3. Cardinality(InDirectory(V, d)) <= NoLimit
    <3>1. IsFiniteSet(X) /\ Cardinality(X) = Len(files)  BY LengthIsCount DEF X
    <3>2. InDirectory(V, d) \in SUBSET X  BY <1>2, <1>4 DEF InDirectory
    <3>3. /\ Cardinality(InDirectory(V, d)) <= Cardinality(X)
          /\ Cardinality(InDirectory(V, d)) \in Nat
      BY <3>1, <3>2, FS_Subset, FS_CardinalityType
    <3> QED BY <1>6, <3>1, <3>3
  <2> QED BY <1>9, <1>11, <2>2, <2>3 DEF AllFits
<1> QED BY <1>9, <1>10, <1>11 DEF X, S, V, fs, parts, cut

\* The partitions of a request are the groups its parts are cut into.
LEMMA PartitionsCutUp ==
  ASSUME NEW files, files \in Seq(ToSet(files)), IsInjective(files), AreFiles(ToSet(files)),
         NEW threshold \in Nat, Len(files) <= MaxFiles
  PROVE  LET parts == PartsOf(files, threshold)
         IN  CutUp(Partitions(files, threshold), parts,
                   [p \in DOMAIN parts |-> CutOf(parts, files, threshold, p)], Sized(ToSet(files)))
<1> DEFINE S == Sized(ToSet(files))
           parts == PartsOf(files, threshold)
           D == DOMAIN parts
           cut == [p \in D |-> CutOf(parts, files, threshold, p)]
           lists == [p \in D |-> [s \in DOMAIN cut[p] |->
                                    [files |-> cut[p][s].files, part |-> p, sub |-> s]]]
           list == FlattenSeq(lists)
           A == [files : Seq(S), part : Nat, sub : Nat]
<1>1. Partitions(files, threshold) = list
  <2>1. lists = [p \in D |-> LET groups == CutOf(parts, files, threshold, p)
                             IN  [s \in DOMAIN groups |->
                                    [files |-> groups[s].files, part |-> p, sub |-> s]]]
    OBVIOUS
  <2> QED BY <2>1 DEF Partitions, PartsOf, CutOf
<1>2. IsPacking(parts, S)  BY PartsAreGrouped
<1>3. \A p \in D : IsPacking(cut[p], S) /\ Covered(cut[p]) = ToSet(parts[p].files)
  BY CutsAreGrouped
<1> HIDE DEF parts, S
<1>4. D = 1..Len(parts) /\ Len(parts) \in Nat  BY <1>2 DEF IsPacking
<1> HIDE DEF D, cut
<1>5. \A p \in D : cut[p] \in Seq(UnitsOver(S))  BY <1>3 DEF IsPacking
<1>6. \A p \in D : /\ DOMAIN lists[p] = DOMAIN cut[p]
                   /\ \A s \in DOMAIN cut[p] : /\ lists[p][s].part = p /\ lists[p][s].sub = s
                                              /\ lists[p][s].files = cut[p][s].files
  OBVIOUS
<1>7. \A p \in D : lists[p] \in Seq(A)
  <2> TAKE p \in D
  <2> DEFINE c == cut[p]
             n == Len(c)
             l == [s \in DOMAIN c |-> [files |-> c[s].files, part |-> p, sub |-> s]]
  <2>1. n \in Nat /\ DOMAIN c = 1..n /\ \A s \in 1..n : c[s] \in UnitsOver(S)  BY <1>5
  <2>2. \A s \in 1..n : c[s].files \in Seq(S)  BY <2>1, UnitFacts
  <2>3. p \in Nat  BY <1>4
  <2>4. lists[p] = l  OBVIOUS
  <2> HIDE DEF c, n, lists
  <2>5. l = [s \in 1..n |-> [files |-> c[s].files, part |-> p, sub |-> s]]  BY <2>1
  <2>6. l \in [1..n -> A]  BY <2>1, <2>2, <2>3, <2>5
  <2> HIDE DEF l, A
  <2>7. l \in Seq(A)  BY <2>1, <2>6
  <2> QED BY <2>4, <2>7
<1>8. DOMAIN lists = D /\ lists \in Seq(Seq(A)) /\ Len(lists) = Len(parts)
  <2>1. lists = [p \in D |-> lists[p]] /\ DOMAIN lists = D  OBVIOUS
  <2> HIDE DEF lists, A
  <2>2. lists \in [1..Len(parts) -> Seq(A)]  BY <1>4, <1>7, <2>1
  <2> QED BY <1>4, <2>1, <2>2
<1> HIDE DEF lists, A
<1>9. list \in Seq(A) /\ \E row, col : LaidOut(row, col, list, lists, Len(lists))
  BY <1>8, FlatPlaces
<1> HIDE DEF list
<1>10. PICK row, col : LaidOut(row, col, list, lists, Len(lists))  BY <1>9
<1>11. 1..Len(lists) = D  BY <1>4, <1>8
<1>12. \A a \in DOMAIN list : /\ row[a] \in D /\ col[a] \in DOMAIN cut[row[a]]
                             /\ list[a].part = row[a] /\ list[a].sub = col[a]
                             /\ list[a].files = cut[row[a]][col[a]].files
  <2> TAKE a \in DOMAIN list
  <2>1. row[a] \in D /\ col[a] \in DOMAIN lists[row[a]] /\ list[a] = lists[row[a]][col[a]]
    BY <1>10, <1>11 DEF LaidOut
  <2> QED BY <1>6, <2>1
<1>13. \A a, b \in DOMAIN list : list[a].part = list[b].part /\ list[a].sub = list[b].sub => a = b
  BY <1>10, <1>12 DEF LaidOut
<1>14. \A p \in D : \A s \in DOMAIN cut[p] : \E a \in DOMAIN list : list[a].part = p /\ list[a].sub = s
  <2> TAKE p \in D
  <2> TAKE s \in DOMAIN cut[p]
  <2>1. s \in DOMAIN lists[p]  BY <1>6
  <2>2. PICK a \in DOMAIN list : row[a] = p /\ col[a] = s  BY <1>10, <1>11, <2>1 DEF LaidOut
  <2> QED BY <1>12, <2>2
<1>15. DOMAIN list = 1..Len(list) /\ Len(list) \in Nat  BY <1>9
<1>16. CutUp(list, parts, cut, S)
  <2>1. \A a \in DOMAIN list : /\ list[a].part \in D
                               /\ list[a].sub \in DOMAIN cut[list[a].part]
                               /\ list[a].files = cut[list[a].part][list[a].sub].files
    BY <1>12
  <2> QED BY <1>2, <1>3, <1>13, <1>14, <1>15, <2>1 DEF CutUp, D
<1> QED BY <1>1, <1>16 DEF cut, D, parts, S

-----------------------------------------------------------------------------
(* The archives of a request *)

\* The files of an archive are those of one group, and no other archive has one of them.
LEMMA ArchiveFiles ==
  ASSUME NEW parts, NEW cut, NEW S, CutUp(archives, parts, cut, S)
  PROVE  /\ \A a \in DOMAIN archives :
              /\ archives[a].files \in Seq(S) /\ IsInjective(archives[a].files)
              /\ archives[a].files # <<>> /\ FilesIn(a) # {} /\ FilesIn(a) \subseteq S
              /\ FilesIn(a) \subseteq ToSet(parts[archives[a].part].files)
              /\ Len(archives[a].files) = Cardinality(FilesIn(a)) /\ IsFiniteSet(FilesIn(a))
              /\ cut[archives[a].part][archives[a].sub] \in ToSet(cut[archives[a].part])
              /\ FilesIn(a) = ToSet(cut[archives[a].part][archives[a].sub].files)
         /\ \A a, b \in DOMAIN archives : a # b => FilesIn(a) \cap FilesIn(b) = {}
<1> DEFINE P(a) == archives[a].part
           g(a) == cut[archives[a].part][archives[a].sub]
<1>1. \A a \in DOMAIN archives : /\ P(a) \in DOMAIN parts /\ archives[a].sub \in DOMAIN cut[P(a)]
                                 /\ archives[a].files = g(a).files
  BY DEF CutUp
<1>2. \A p \in DOMAIN parts : IsPacking(cut[p], S) /\ Covered(cut[p]) = ToSet(parts[p].files)
  BY DEF CutUp
<1>3. \A a \in DOMAIN archives : g(a) \in ToSet(cut[P(a)])  BY <1>1 DEF ToSet
<1> HIDE DEF P, g
<1>4. \A p \in DOMAIN parts : \A u \in ToSet(cut[p]) : u \in UnitsOver(S)
  <2> TAKE p \in DOMAIN parts
  <2>1. cut[p] \in Seq(UnitsOver(S))  BY <1>2 DEF IsPacking
  <2> QED BY <2>1 DEF ToSet
<1>5. ASSUME NEW a \in DOMAIN archives
      PROVE  /\ archives[a].files \in Seq(S) /\ IsInjective(archives[a].files)
             /\ archives[a].files # <<>> /\ FilesIn(a) # {} /\ FilesIn(a) \subseteq S
             /\ FilesIn(a) \subseteq ToSet(parts[P(a)].files)
             /\ Len(archives[a].files) = Cardinality(FilesIn(a)) /\ IsFiniteSet(FilesIn(a))
             /\ FilesIn(a) = ToSet(g(a).files)
  <2>1. g(a) \in UnitsOver(S) /\ g(a) \in ToSet(cut[P(a)]) /\ archives[a].files = g(a).files
    BY <1>1, <1>3, <1>4
  <2>2. FilesIn(a) = ToSet(g(a).files)  BY <2>1 DEF FilesIn
  <2>3. ToSet(g(a).files) \subseteq Covered(cut[P(a)])  BY <2>1 DEF Covered
  <2>4. Covered(cut[P(a)]) = ToSet(parts[P(a)].files)  BY <1>1, <1>2
  <2>5. /\ g(a).files \in Seq(S) /\ g(a).files # <<>> /\ IsInjective(g(a).files)
        /\ ToSet(g(a).files) \subseteq S /\ ToSet(g(a).files) # {} /\ IsFiniteSet(ToSet(g(a).files))
        /\ Cardinality(ToSet(g(a).files)) = Len(g(a).files)
    BY <2>1, UnitFacts
  <2> QED BY <2>1, <2>2, <2>3, <2>4, <2>5
<1>6. ASSUME NEW a \in DOMAIN archives, NEW b \in DOMAIN archives, a # b
      PROVE  FilesIn(a) \cap FilesIn(b) = {}
  <2>1. CASE P(a) = P(b)
    <3>1. archives[a].sub # archives[b].sub  BY <1>6, <2>1 DEF CutUp, P
    <3>2. IsPacking(cut[P(a)], S) /\ archives[a].sub \in DOMAIN cut[P(a)]
          /\ archives[b].sub \in DOMAIN cut[P(a)]
      BY <1>1, <1>2, <2>1
    <3>3. g(a) # g(b)  BY <2>1, <3>1, <3>2 DEF IsPacking, IsInjective, g, P
    <3>4. ToSet(g(a).files) \cap ToSet(g(b).files) = {}
      <4>1. g(a) \in ToSet(cut[P(a)]) /\ g(b) \in ToSet(cut[P(a)])  BY <1>3, <2>1
      <4> QED BY <3>2, <3>3, <4>1 DEF IsPacking
    <3> QED BY <1>5, <3>4
  <2>2. CASE P(a) # P(b)
    <3>1. IsPacking(parts, S) /\ P(a) \in DOMAIN parts /\ P(b) \in DOMAIN parts  BY <1>1 DEF CutUp
    <3>2. parts[P(a)] # parts[P(b)]  BY <2>2, <3>1 DEF IsPacking, IsInjective
    <3>3. parts[P(a)] \in ToSet(parts) /\ parts[P(b)] \in ToSet(parts)  BY <3>1 DEF ToSet
    <3>4. ToSet(parts[P(a)].files) \cap ToSet(parts[P(b)].files) = {}  BY <3>1, <3>2, <3>3 DEF IsPacking
    <3> QED BY <1>5, <3>4
  <2> QED BY <2>1, <2>2
<1> QED BY <1>3, <1>5, <1>6 DEF P, g

\* The files of a part's archives are those of the part.
LEMMA PartFiles ==
  ASSUME NEW parts, NEW cut, NEW S, CutUp(archives, parts, cut, S)
  PROVE  /\ \A p \in DOMAIN parts : FilesOfPart(p) = ToSet(parts[p].files)
         /\ UNION {FilesIn(a) : a \in DOMAIN archives} = Covered(parts)
<1>1. \A a \in DOMAIN archives : /\ archives[a].part \in DOMAIN parts
                                 /\ FilesIn(a) \subseteq ToSet(parts[archives[a].part].files)
  BY ArchiveFiles DEF CutUp
<1>2. ASSUME NEW p \in DOMAIN parts, NEW f \in ToSet(parts[p].files)
      PROVE  \E a \in DOMAIN archives : archives[a].part = p /\ f \in FilesIn(a)
  <2>1. f \in Covered(cut[p])  BY DEF CutUp
  <2>2. PICK u \in ToSet(cut[p]) : f \in ToSet(u.files)  BY <2>1 DEF Covered
  <2>3. PICK s \in DOMAIN cut[p] : u = cut[p][s]  BY DEF ToSet
  <2>4. PICK a \in DOMAIN archives : archives[a].part = p /\ archives[a].sub = s  BY DEF CutUp
  <2>5. FilesIn(a) = ToSet(cut[p][s].files)  BY <2>4, ArchiveFiles
  <2> QED BY <2>2, <2>3, <2>4, <2>5
<1>3. ASSUME NEW p \in DOMAIN parts PROVE FilesOfPart(p) = ToSet(parts[p].files)
  <2>1. \A f \in FilesOfPart(p) : f \in ToSet(parts[p].files)
    <3> TAKE f \in FilesOfPart(p)
    <3>1. PICK a \in DOMAIN archives : archives[a].part = p /\ f \in FilesIn(a)  BY DEF FilesOfPart
    <3> QED BY <1>1, <3>1
  <2>2. \A f \in ToSet(parts[p].files) : f \in FilesOfPart(p)
    <3> TAKE f \in ToSet(parts[p].files)
    <3>1. PICK a \in DOMAIN archives : archives[a].part = p /\ f \in FilesIn(a)  BY <1>2
    <3> QED BY <3>1 DEF FilesOfPart
  <2> QED BY <2>1, <2>2
<1>4. UNION {FilesIn(a) : a \in DOMAIN archives} = Covered(parts)
  <2>1. \A a \in DOMAIN archives : \A f \in FilesIn(a) : f \in Covered(parts)
    <3> TAKE a \in DOMAIN archives
    <3>1. parts[archives[a].part] \in ToSet(parts)  BY <1>1 DEF ToSet
    <3> QED BY <1>1, <3>1 DEF Covered
  <2>2. \A f \in Covered(parts) : \E a \in DOMAIN archives : f \in FilesIn(a)
    <3> TAKE f \in Covered(parts)
    <3>1. PICK u \in ToSet(parts) : f \in ToSet(u.files)  BY DEF Covered
    <3>2. PICK p \in DOMAIN parts : u = parts[p]  BY DEF ToSet
    <3> QED BY <1>2, <3>1, <3>2
  <2> QED BY <2>1, <2>2
<1> QED BY <1>3, <1>4

\* Archives of one part differ by their sub-part, which is in the name when there are
\* several.
LEMMA NamesOfArchives ==
  ASSUME NEW parts, NEW cut, NEW S, CutUp(archives, parts, cut, S)
  PROVE  ArchiveNamesDiffer
<1> SUFFICES ASSUME NEW a \in DOMAIN archives, NEW b \in DOMAIN archives, NameOf(a) = NameOf(b)
             PROVE  a = b
  BY DEF ArchiveNamesDiffer
<1>1. archives[a].part = archives[b].part /\ SubInName(a) = SubInName(b)  BY DEF NameOf
<1> DEFINE same == {c \in DOMAIN archives : archives[c].part = archives[a].part}
<1>2. SubInName(a) = (IF Cardinality(same) > 1 THEN archives[a].sub ELSE 0)
      /\ SubInName(b) = (IF Cardinality(same) > 1 THEN archives[b].sub ELSE 0)
  BY <1>1 DEF SubInName
<1>3. CASE Cardinality(same) > 1
  <2>1. archives[a].sub = archives[b].sub  BY <1>1, <1>2, <1>3
  <2> QED BY <1>1, <2>1 DEF CutUp
<1>4. CASE ~(Cardinality(same) > 1)
  <2>1. IsFiniteSet(same)
    <3>1. IsFiniteSet(DOMAIN archives)  BY FS_Interval DEF CutUp
    <3> QED BY <3>1, FS_Subset
  <2>2. {a, b} \in SUBSET same  BY <1>1
  <2> HIDE DEF same
  <2>3. Cardinality({a, b}) <= Cardinality(same) /\ IsFiniteSet({a, b})  BY <2>1, <2>2, FS_Subset
  <2>4. Cardinality(same) \in Nat /\ Cardinality({a, b}) \in Nat  BY <2>1, <2>3, FS_CardinalityType
  <2>5. a # b => Cardinality({a, b}) = 2
    <3> HAVE a # b
    <3>1. IsFiniteSet({a}) /\ Cardinality({a}) = 1  BY FS_Singleton
    <3>2. Cardinality({a} \cup {b}) = Cardinality({a}) + 1  BY <3>1, FS_AddElement
    <3>3. {a} \cup {b} = {a, b}  OBVIOUS
    <3> QED BY <3>1, <3>2, <3>3
  <2> QED BY <1>4, <2>3, <2>4, <2>5
<1> QED BY <1>3, <1>4

\* The number of the last file of an archive, as buildGroupOrdinalRanges counts it.
LastStep(f, list, n) == f[n] = FirstAfter(f[n - 1]) + Len(list[n].files) - 1

\* buildGroupOrdinalRanges, archive by archive.
LEMMA RangeSteps ==
  ASSUME NEW list, DOMAIN list = 1..Len(list), Len(list) \in Nat,
         \A n \in DOMAIN list : Len(list[n].files) \in Nat
  PROVE  \E f : /\ f[0] = 0 /\ \A n \in 1..Len(list) : LastStep(f, list, n)
                /\ \A n \in 0..Len(list) : f[n] \in Int
                /\ OrdinalRanges(list) = [n \in DOMAIN list |->
                                            [first |-> FirstAfter(f[n - 1]), last |-> f[n]]]
<1> DEFINE N == Len(list)
           G == [n \in 1..N |-> [k \in Int |-> FirstAfter(k) + Len(list[n].files) - 1]]
<1>1. \A n \in 1..N : Len(list[n].files) \in Nat  OBVIOUS
<1>2. \A n \in 1..N : \A k \in Int : FirstAfter(k) + Len(list[n].files) - 1 \in Int
  BY <1>1 DEF FirstAfter
<1>3. G \in [1..N -> [Int -> Int]]  BY <1>2
<1>4. PICK f \in [0..N -> Int] : GoesBy(f, N, 0, G)
  <2>1. 0 \in Int /\ N \in Nat  OBVIOUS
  <2> HIDE DEF N, G
  <2> QED BY <1>3, <2>1, RecursionExists
<1> DEFINE Body(k, n) == IF n = 0 THEN 0 ELSE FirstAfter(k[n - 1]) + Len(list[n].files) - 1
           K == CHOOSE k : k = [n \in 0..N |-> Body(k, n)]
<1>5. f = [n \in 0..N |-> Body(f, n)]
  <2>1. \A n \in 0..N : f[n] = Body(f, n)
    <3> TAKE n \in 0..N
    <3>1. CASE n = 0  BY <1>4, <3>1 DEF GoesBy
    <3>2. CASE n # 0
      <4>1. n \in 1..N /\ n - 1 \in 0..N  BY <3>2
      <4>2. f[n] = G[n][f[n - 1]]
        <5> HIDE DEF N, G
        <5> QED BY <1>4, <4>1 DEF GoesBy
      <4>3. f[n - 1] \in Int  BY <1>4, <4>1
      <4> QED BY <3>2, <4>1, <4>2, <4>3
    <3> QED BY <3>1, <3>2
  <2>2. f = [n \in 0..N |-> f[n]]  OBVIOUS
  <2> HIDE DEF Body, N
  <2> QED BY <2>1, <2>2
<1>6. K = [n \in 0..N |-> Body(K, n)]  BY <1>5
<1>7. OrdinalRanges(list) = [n \in DOMAIN list |-> [first |-> FirstAfter(K[n - 1]), last |-> K[n]]]
  BY DEF OrdinalRanges
<1> HIDE DEF K, G
<1>8. K[0] = 0
  <2>1. K[0] = Body(K, 0)
    <3> HIDE DEF Body
    <3> QED BY <1>6
  <2> QED BY <2>1
<1>9. \A n \in 1..N : LastStep(K, list, n)
  <2> TAKE n \in 1..N
  <2>1. n \in 0..N /\ n # 0  OBVIOUS
  <2>2. K[n] = Body(K, n)
    <3> HIDE DEF Body
    <3> QED BY <1>6, <2>1
  <2> QED BY <2>1, <2>2 DEF LastStep
<1>10. \A n \in 0..N : K[n] \in Int
  <2> DEFINE T == {n \in 0..N : K[n] \in Int}
  <2>1. 0 \in T  BY <1>8
  <2>2. \A n \in 1..N : n - 1 \in T => n \in T
    <3> SUFFICES ASSUME NEW n \in 1..N, n - 1 \in T PROVE n \in T  OBVIOUS
    <3>1. K[n] = FirstAfter(K[n - 1]) + Len(list[n].files) - 1 /\ K[n - 1] \in Int
      BY <1>9 DEF LastStep
    <3>2. n \in 0..N  OBVIOUS
    <3> QED BY <1>2, <3>1, <3>2
  <2>3. N \in Nat  OBVIOUS
  <2> HIDE DEF T, N
  <2>4. \A n \in 0..N : n \in T  BY <2>1, <2>2, <2>3, Climbs
  <2> QED BY <2>4 DEF T
<1> QED BY <1>7, <1>8, <1>9, <1>10

\* The ranges follow one another up to the number of readable files.
LEMMA RangesOfArchives ==
  ASSUME NEW parts, NEW cut, NEW S, CutUp(archives, parts, cut, S), IsFiniteSet(S),
         Covered(parts) = ToSet(Readable(packFiles)),
         Len(Readable(packFiles)) = Cardinality(ToSet(Readable(packFiles)))
  PROVE  RangesNumberTheFiles
<1> DEFINE N == Len(archives)
           Upto(n) == UNION {FilesIn(a) : a \in 1..n}
<1>1. N \in Nat /\ DOMAIN archives = 1..N  BY DEF CutUp
<1> HIDE DEF N
<1>2. \A a \in 1..N : /\ Len(archives[a].files) = Cardinality(FilesIn(a)) /\ IsFiniteSet(FilesIn(a))
                      /\ Len(archives[a].files) \in Nat /\ FilesIn(a) \subseteq S
  BY <1>1, ArchiveFiles, FS_CardinalityType
<1>3. \A a, b \in 1..N : a # b => FilesIn(a) \cap FilesIn(b) = {}  BY <1>1, ArchiveFiles
<1>4. PICK f : /\ f[0] = 0 /\ \A n \in 1..N : LastStep(f, archives, n)
               /\ \A n \in 0..N : f[n] \in Int
               /\ OrdinalRanges(archives) = [n \in DOMAIN archives |->
                                               [first |-> FirstAfter(f[n - 1]), last |-> f[n]]]
  <2>1. DOMAIN archives = 1..Len(archives) /\ Len(archives) \in Nat
    BY DEF CutUp
  <2>2. \A n \in DOMAIN archives : Len(archives[n].files) \in Nat  BY <1>1, <1>2
  <2> QED BY <2>1, <2>2, RangeSteps DEF N
<1> DEFINE T == {n \in 0..N : f[n] = Cardinality(Upto(n))}
<1>5. 0 \in T
  <2>1. Upto(0) = {}  OBVIOUS
  <2>2. f[0] = Cardinality(Upto(0))  BY <1>4, <2>1, FS_EmptySet
  <2>3. 0 \in 0..N  BY <1>1
  <2> HIDE DEF Upto
  <2> QED BY <2>2, <2>3
<1>6. \A n \in 1..N : n - 1 \in T => n \in T
  <2> SUFFICES ASSUME NEW n \in 1..N, n - 1 \in T PROVE n \in T  OBVIOUS
  <2> DEFINE V == Upto(n - 1)
  <2>1. f[n - 1] = Cardinality(V) /\ n \in 0..N  BY <1>1
  <2>2. Upto(n) = V \cup FilesIn(n)
    <3>1. \A a \in 1..n : a = n \/ a \in 1..(n - 1)  BY <1>1
    <3>2. (\A a \in 1..(n - 1) : a \in 1..n) /\ n \in 1..n  BY <1>1
    <3> QED BY <3>1, <3>2
  <2>3. \A a \in 1..(n - 1) : a \in 1..N /\ a # n  BY <1>1
  <2>4. V \subseteq S /\ V \cap FilesIn(n) = {}  BY <1>2, <1>3, <2>3
  <2>5. IsFiniteSet(V)  BY <2>4, FS_Subset
  <2> HIDE DEF V
  <2>6. Cardinality(V \cup FilesIn(n)) = Cardinality(V) + Cardinality(FilesIn(n)) - Cardinality({})
    BY <1>2, <2>4, <2>5, FS_Union
  <2>7. f[n] = FirstAfter(f[n - 1]) + Len(archives[n].files) - 1  BY <1>4 DEF LastStep
  <2>8. Cardinality(V) \in Nat /\ Cardinality({}) = 0  BY <2>5, FS_CardinalityType, FS_EmptySet
  <2>9. f[n] = Cardinality(V \cup FilesIn(n))
    <3> DEFINE c == Cardinality(V)
               l == Len(archives[n].files)
    <3>1. l = Cardinality(FilesIn(n)) /\ l \in Nat  BY <1>2
    <3>2. f[n - 1] = c /\ c \in Nat  BY <2>1, <2>8
    <3>3. Cardinality(V \cup FilesIn(n)) = c + l - 0  BY <2>6, <2>8, <3>1
    <3>4. f[n] = c + 1 + l - 1  BY <2>7, <3>2 DEF FirstAfter
    <3> HIDE DEF c, l
    <3> QED BY <3>1, <3>2, <3>3, <3>4
  <2> HIDE DEF Upto
  <2> QED BY <2>1, <2>2, <2>9
<1>7. f[N] = Cardinality(Upto(N))
  <2> HIDE DEF T, Upto
  <2>1. \A n \in 0..N : n \in T  BY <1>1, <1>5, <1>6, Climbs
  <2>2. N \in T  BY <1>1, <2>1
  <2> QED BY <2>2 DEF T
<1>8. Upto(N) = ToSet(Readable(packFiles))  BY <1>1, PartFiles
<1> HIDE DEF Upto
<1> DEFINE ranges == OrdinalRanges(archives)
<1>9. DOMAIN ranges = 1..N /\ \A a \in 1..N : /\ ranges[a].first = f[a - 1] + 1
                                             /\ ranges[a].last = f[a]
  BY <1>1, <1>4 DEF FirstAfter
<1>10. Len(ranges) = N
  <2>1. ranges = [n \in 1..N |-> [first |-> FirstAfter(f[n - 1]), last |-> f[n]]]  BY <1>1, <1>4
  <2> HIDE DEF ranges
  <2> QED BY <1>1, <2>1
<1> HIDE DEF ranges
<1>11. \A a \in DOMAIN ranges :
         ranges[a].first = (IF a = 1 THEN 1 ELSE ranges[a - 1].last + 1)
  <2> TAKE a \in DOMAIN ranges
  <2>1. a \in 1..N /\ ranges[a].first = f[a - 1] + 1  BY <1>9
  <2>2. CASE a = 1
    <3>1. f[a - 1] = 0  BY <1>4, <2>2
    <3> QED BY <2>1, <2>2, <3>1
  <2>3. CASE a # 1
    <3>1. a - 1 \in 1..N  BY <1>1, <2>1, <2>3
    <3>2. ranges[a - 1].last = f[a - 1]  BY <1>9, <3>1
    <3> QED BY <2>1, <2>3, <3>2
  <2> QED BY <2>2, <2>3
<1>12. ASSUME ranges # <<>> PROVE ranges[Len(ranges)].last = Len(Readable(packFiles))
  <2>1. N \in 1..N
    <3>1. CASE N = 0
      <4>1. ranges = [n \in 1..0 |-> [first |-> FirstAfter(f[n - 1]), last |-> f[n]]]
        BY <1>1, <1>4, <3>1 DEF ranges
      <4>2. ranges = <<>>  BY <4>1
      <4> QED BY <1>12, <4>2
    <3>2. CASE N # 0  BY <1>1, <3>2
    <3> QED BY <3>1, <3>2
  <2>2. ranges[N].last = f[N]  BY <1>9, <2>1
  <2> QED BY <1>7, <1>8, <1>10, <2>2
<1> QED BY <1>11, <1>12 DEF RangesNumberTheFiles, ranges

-----------------------------------------------------------------------------
(* A grouping request *)

\* The files as FilesOf numbers them.
IsRequest(files) ==
  \E n \in 1..MaxFiles :
    \E sizes \in [1..n -> Sizes \cup {Unreadable}], dirs \in [1..n -> Dirs] : files = FilesOf(sizes, dirs)

GroupingInv ==
  \/ packFiles = <<>> /\ archives = <<>>
  \/ /\ IsRequest(packFiles) /\ keepTogether \in {MaxPerPart, 0}
     /\ archives = Partitions(packFiles, keepTogether)

\* The files of a request have numbers of their own, sizes and directories.
LEMMA RequestedFiles ==
  ASSUME NEW files, IsRequest(files)
  PROVE  /\ files \in Seq(ToSet(files)) /\ IsInjective(files) /\ AreFiles(ToSet(files))
         /\ Len(files) <= MaxFiles /\ Len(files) \in Nat
<1>a. PICK n \in 1..MaxFiles :
        \E sizes \in [1..n -> Sizes \cup {Unreadable}], dirs \in [1..n -> Dirs] :
          files = FilesOf(sizes, dirs)
  BY DEF IsRequest
<1>1. PICK sizes \in [1..n -> Sizes \cup {Unreadable}], dirs \in [1..n -> Dirs] :
        files = FilesOf(sizes, dirs)
  BY <1>a
<1>2. files = [i \in 1..n |-> [id |-> i, size |-> sizes[i], dir |-> dirs[i]]]
  BY <1>1 DEF FilesOf
<1>3. DOMAIN files = 1..n /\ n \in Nat /\ n <= MaxFiles
  BY <1>2, GroupingAssumption
<1>4. \A i \in 1..n : files[i].id = i /\ files[i].size = sizes[i] /\ files[i].dir = dirs[i]
  BY <1>2
<1>5. \A i \in 1..n : files[i] \in ToSet(files)  BY <1>3 DEF ToSet
<1>6. files = [i \in 1..n |-> files[i]]  BY <1>2
<1> HIDE DEF ToSet
<1>7. files \in Seq(ToSet(files)) /\ Len(files) = n
  <2> DEFINE V == ToSet(files)
  <2>1. \A i \in 1..n : files[i] \in V  BY <1>5
  <2> HIDE DEF V
  <2>2. files \in [1..n -> V]  BY <1>6, <2>1
  <2>3. files \in Seq(V) /\ Len(files) = n  BY <1>3, <2>2
  <2> QED BY <2>3 DEF V
<1>8. IsInjective(files)  BY <1>3, <1>4 DEF IsInjective
<1>9. \A f \in ToSet(files) : \E i \in 1..n : f = files[i]  BY <1>3 DEF ToSet
<1>10. IsFiniteSet(ToSet(files))
  <2>1. IsFiniteSet(ToSet(files)) /\ Cardinality(ToSet(files)) = Len(files)
    <3> DEFINE V == ToSet(files)
    <3>1. files \in Seq(V)  BY <1>7
    <3> HIDE DEF V
    <3> QED BY <1>8, <3>1, LengthIsCount
  <2> QED BY <2>1
<1>11. \A f \in ToSet(files) : f.size \in Nat \cup {Unreadable} /\ f.dir \in Dirs /\ f.id \in Nat
  <2>1. \A i \in 1..n : files[i].size \in Nat \cup {Unreadable} /\ files[i].dir \in Dirs
                        /\ files[i].id \in Nat
    <3>1. \A i \in 1..n : sizes[i] \in Sizes \cup {Unreadable} /\ dirs[i] \in Dirs /\ i \in Nat
      BY <1>1
    <3>2. Sizes \subseteq Nat  BY GroupingAssumption
    <3> QED BY <1>4, <3>1, <3>2
  <2> QED BY <1>9, <2>1
<1>12. \A f, g \in ToSet(files) : f.id = g.id => f = g
  <2> TAKE f, g \in ToSet(files)
  <2>1. PICK i \in 1..n : f = files[i]  BY <1>9
  <2>2. PICK j \in 1..n : g = files[j]  BY <1>9
  <2> QED BY <1>4, <2>1, <2>2
<1> QED BY <1>3, <1>7, <1>8, <1>10, <1>11, <1>12 DEF AreFiles

\* Nothing is asked for yet, and nothing packed.
LEMMA BeforeRequest ==
  ASSUME packFiles = <<>>, archives = <<>>
  PROVE  PlanIsSound
<1>1. DOMAIN archives = {}  OBVIOUS
<1>2. ToSet(Readable(packFiles)) = {}
  <2>1. packFiles \in Seq({}) /\ DOMAIN packFiles = {}  OBVIOUS
  <2>2. ToSet(packFiles) = {} /\ IsInjective(packFiles)  BY <2>1 DEF ToSet, IsInjective
  <2>3. ToSet(Readable(packFiles)) = ToSet(packFiles) \cap Sized({})
    <3> HIDE DEF ToSet, IsInjective
    <3> QED BY <2>1, <2>2, ReadableFiles
  <2> QED BY <2>2, <2>3
<1>3. EveryFileInOneArchive
  <2>1. UNION {FilesIn(a) : a \in DOMAIN archives} = {}  BY <1>1
  <2> QED BY <1>1, <1>2, <2>1 DEF EveryFileInOneArchive
<1>4. ArchivesAreBounded  BY <1>1 DEF ArchivesAreBounded
<1>5. ArchiveNamesDiffer  BY <1>1 DEF ArchiveNamesDiffer
<1>6. DirectoriesStayTogether  BY <1>1 DEF DirectoriesStayTogether
<1>7. RangesNumberTheFiles
  <2> DEFINE ranges == OrdinalRanges(archives)
  <2>1. DOMAIN archives = 1..Len(archives) /\ Len(archives) \in Nat  OBVIOUS
  <2>2. \A n \in DOMAIN archives : Len(archives[n].files) \in Nat  BY <1>1
  <2>3. \E f : ranges = [n \in DOMAIN archives |-> [first |-> FirstAfter(f[n - 1]), last |-> f[n]]]
    BY <2>1, <2>2, RangeSteps
  <2>4. PICK f : ranges = [n \in DOMAIN archives |-> [first |-> FirstAfter(f[n - 1]), last |-> f[n]]]
    BY <2>3
  <2> HIDE DEF ranges
  <2>5. DOMAIN ranges = {}  BY <1>1, <2>4
  <2>6. ranges = <<>>
    <3>1. ranges = [n \in 1..0 |-> [first |-> FirstAfter(f[n - 1]), last |-> f[n]]]
      BY <1>1, <2>4
    <3> QED BY <3>1
  <2> QED BY <2>5, <2>6 DEF RangesNumberTheFiles, ranges
<1> QED BY <1>3, <1>4, <1>5, <1>6, <1>7 DEF PlanIsSound

\* The archives of a request are as promised.
LEMMA RequestIsSound ==
  ASSUME IsRequest(packFiles), keepTogether \in {MaxPerPart, 0},
         archives = Partitions(packFiles, keepTogether)
  PROVE  PlanIsSound
<1> DEFINE X == ToSet(packFiles)
           S == Sized(X)
           parts == PartsOf(packFiles, keepTogether)
           cut == [p \in DOMAIN parts |-> CutOf(parts, packFiles, keepTogether, p)]
<1>1. /\ packFiles \in Seq(X) /\ IsInjective(packFiles) /\ AreFiles(X)
      /\ Len(packFiles) <= MaxFiles /\ Len(packFiles) \in Nat /\ keepTogether \in Nat
  BY RequestedFiles, GroupingAssumption
<1>2. SizesAdd(S) /\ IsFiniteSet(S) /\ S \subseteq X  BY <1>1, SizedFiles
<1>3. /\ IsPacking(parts, S) /\ Covered(parts) = S
      /\ \A g \in ToSet(parts) : Len(g.files) <= MaxPerPart
  BY <1>1, PartsAreGrouped
<1>4. CutUp(archives, parts, cut, S)  BY <1>1, PartitionsCutUp
<1>5. \A p \in DOMAIN parts :
        /\ \A g \in ToSet(cut[p]) : TotalSize(ToSet(g.files)) <= MaxArchive \/ Len(g.files) = 1
        /\ Len(packFiles) > keepTogether =>
             \A d \in Dirs : LET mine == InDirectory(ToSet(parts[p].files), d)
                             IN  mine # {} /\ TotalSize(mine) <= MaxArchive
                                   => \E g \in ToSet(cut[p]) : mine \subseteq ToSet(g.files)
  BY <1>1, CutsAreGrouped
<1>6. ToSet(Readable(packFiles)) = S /\ Len(Readable(packFiles)) = Cardinality(S)
  <2> DEFINE r == Readable(packFiles)
  <2>1. r \in Seq(S) /\ IsInjective(r) /\ ToSet(r) = X \cap S
    <3> HIDE DEF X
    <3> QED BY <1>1, ReadableFiles DEF X
  <2>2. ToSet(r) = S  BY <1>2, <2>1
  <2> HIDE DEF r, S
  <2>3. Cardinality(ToSet(r)) = Len(r)  BY <2>1, LengthIsCount
  <2> QED BY <2>2, <2>3 DEF r
<1> HIDE DEF X, S, parts, cut
<1>7. EveryFileInOneArchive
  <2>1. UNION {FilesIn(a) : a \in DOMAIN archives} = ToSet(Readable(packFiles))
    BY <1>3, <1>4, <1>6, PartFiles
  <2> QED BY <1>4, <2>1, ArchiveFiles DEF EveryFileInOneArchive
<1>8. ArchivesAreBounded
  <2>1. ASSUME NEW a \in DOMAIN archives
        PROVE  TotalSize(FilesIn(a)) <= MaxArchive \/ Len(archives[a].files) = 1
    <3> DEFINE p == archives[a].part
               g == cut[archives[a].part][archives[a].sub]
    <3>1. p \in DOMAIN parts /\ archives[a].files = g.files  BY <1>4 DEF CutUp
    <3>2. g \in ToSet(cut[p]) /\ FilesIn(a) = ToSet(g.files)  BY <1>4, ArchiveFiles
    <3> HIDE DEF g, p
    <3> QED BY <1>5, <3>1, <3>2
  <2>2. ASSUME NEW a \in DOMAIN archives
        PROVE  Cardinality(FilesOfPart(archives[a].part)) <= MaxPerPart
    <3> DEFINE p == archives[a].part
    <3>1. p \in DOMAIN parts  BY <1>4 DEF CutUp
    <3> HIDE DEF p
    <3>2. parts[p] \in ToSet(parts)  BY <3>1 DEF ToSet
    <3>3. parts[p] \in UnitsOver(S)  BY <1>3, <3>1 DEF IsPacking
    <3>4. Cardinality(ToSet(parts[p].files)) = Len(parts[p].files)  BY <3>3, UnitFacts
    <3>5. FilesOfPart(p) = ToSet(parts[p].files)  BY <1>4, <3>1, PartFiles
    <3> QED BY <1>3, <3>2, <3>4, <3>5 DEF p
  <2> QED BY <2>1, <2>2 DEF ArchivesAreBounded
<1>9. ArchiveNamesDiffer  BY <1>4, NamesOfArchives
<1>10. RangesNumberTheFiles  BY <1>2, <1>3, <1>4, <1>6, RangesOfArchives
<1>11. DirectoriesStayTogether
  <2> SUFFICES ASSUME Len(packFiles) > keepTogether,
                      NEW a \in DOMAIN archives, NEW b \in DOMAIN archives, NEW d \in Dirs,
                      a # b, archives[a].part = archives[b].part,
                      InDirectory(FilesIn(a), d) # {}, InDirectory(FilesIn(b), d) # {},
                      ~(TotalSize(InDirectory(FilesOfPart(archives[a].part), d)) > MaxArchive)
               PROVE  FALSE
    BY DEF DirectoriesStayTogether, InDirectory
  <2> DEFINE p == archives[a].part
             mine == InDirectory(ToSet(parts[p].files), d)
  <2>1. p \in DOMAIN parts /\ FilesOfPart(p) = ToSet(parts[p].files)  BY <1>4, PartFiles DEF CutUp
  <2>2. FilesIn(a) \subseteq ToSet(parts[p].files) /\ FilesIn(b) \subseteq ToSet(parts[p].files)
    BY <1>4, ArchiveFiles
  <2>3. InDirectory(FilesIn(a), d) \subseteq mine /\ InDirectory(FilesIn(b), d) \subseteq mine
    BY <2>2 DEF InDirectory
  <2>4. TotalSize(mine) <= MaxArchive
    <3>1. ToSet(parts[p].files) \subseteq S
      <4>1. parts[p] \in UnitsOver(S)  BY <1>3, <2>1 DEF IsPacking
      <4> QED BY <4>1, UnitFacts
    <3>2. mine \in SUBSET S  BY <3>1 DEF InDirectory
    <3>3. TotalSize(mine) \in Nat /\ MaxArchive \in Nat  BY <1>2, <3>2, GroupingAssumption DEF SizesAdd
    <3>4. ~(TotalSize(mine) > MaxArchive)  BY <2>1
    <3> HIDE DEF mine
    <3> QED BY <3>3, <3>4
  <2>5. mine # {}  BY <2>3
  <2> HIDE DEF mine, p
  <2>6. PICK g \in ToSet(cut[p]) : mine \subseteq ToSet(g.files)  BY <1>5, <2>1, <2>4, <2>5 DEF mine
  <2>7. PICK s \in DOMAIN cut[p] : g = cut[p][s]  BY DEF ToSet
  <2>8. PICK c \in DOMAIN archives : archives[c].part = p /\ archives[c].sub = s  BY <1>4, <2>1 DEF CutUp
  <2>9. FilesIn(c) = ToSet(g.files)  BY <1>4, <2>7, <2>8, ArchiveFiles
  <2>10. \A x \in DOMAIN archives : InDirectory(FilesIn(x), d) \subseteq FilesIn(x)  BY DEF InDirectory
  <2>11. FilesIn(a) \cap FilesIn(c) # {} /\ FilesIn(b) \cap FilesIn(c) # {}
    BY <2>3, <2>6, <2>9, <2>10
  <2>12. a = c /\ b = c  BY <1>4, <2>11, ArchiveFiles
  <2> QED BY <2>12
<1> QED BY <1>7, <1>8, <1>9, <1>10, <1>11 DEF PlanIsSound

LEMMA GroupingIsSound == GroupingInv => PlanIsSound
BY BeforeRequest, RequestIsSound DEF GroupingInv

LEMMA GroupingStep_Inv == GroupingInv /\ [GroupingNext]_groupingVars => GroupingInv'
<1> SUFFICES ASSUME GroupingInv, [GroupingNext]_groupingVars PROVE GroupingInv'  OBVIOUS
<1>1. CASE RequestGrouping
  <2>1. \E n \in 1..MaxFiles :
          \E sizes \in [1..n -> Sizes \cup {Unreadable}], dirs \in [1..n -> Dirs] :
            packFiles' = FilesOf(sizes, dirs)
    BY <1>1 DEF RequestGrouping
  <2>2. IsRequest(packFiles')  BY <2>1 DEF IsRequest
  <2> QED BY <1>1, <2>2 DEF RequestGrouping, GroupingInv
<1>2. CASE UNCHANGED groupingVars  BY <1>2 DEF GroupingInv, groupingVars
<1> QED BY <1>1, <1>2 DEF GroupingNext

\* Every plan packs each file that can be read once, within the limits, under names that
\* differ and count, and keeps together the directories that fit.
THEOREM PlansPack == GroupingSpec => []PlanIsSound
<1>1. GroupingInit => GroupingInv  BY DEF GroupingInit, GroupingInv
<1>2. GroupingSpec => []GroupingInv  BY <1>1, GroupingStep_Inv, PTL DEF GroupingSpec
<1> QED BY <1>2, GroupingIsSound, PTL

-----------------------------------------------------------------------------
(* Names as sequences of words *)

IsStem(s) == s \in Seq(Range(s))

IsPath(p) == p = [dir |-> p.dir, stem |-> p.stem, ext |-> p.ext] /\ IsStem(p.stem)

LastWord(path) == path.stem[Len(path.stem)]

\* A sequence over any set of words is a stem.
LEMMA StemIsSeq ==
  ASSUME NEW W, NEW s \in Seq(W)
  PROVE  IsStem(s) /\ Len(s) \in Nat /\ DOMAIN s = 1..Len(s)
<1>1. Len(s) \in Nat /\ DOMAIN s = 1..Len(s)  OBVIOUS
<1>2. \A n \in 1..Len(s) : s[n] \in Range(s)  BY <1>1 DEF Range
<1> QED BY <1>1, <1>2 DEF IsStem

\* A word more, at the end.
LEMMA WordAdded ==
  ASSUME NEW s, IsStem(s), NEW x
  PROVE  /\ IsStem(Append(s, x)) /\ Len(s) \in Nat /\ Len(Append(s, x)) = Len(s) + 1
         /\ Append(s, x)[Len(Append(s, x))] = x
         /\ \A n \in 1..Len(s) : Append(s, x)[n] = s[n]
<1> DEFINE W == Range(s) \cup {x}
<1>1. s \in Seq(W)  BY DEF IsStem
<1>2. x \in W  OBVIOUS
<1> HIDE DEF W
<1>3. Append(s, x) \in Seq(W)  BY <1>1, <1>2
<1>4. IsStem(Append(s, x))  BY <1>3, StemIsSeq
<1>5. Len(s) \in Nat /\ Len(Append(s, x)) = Len(s) + 1  BY <1>1, <1>2
<1>6. Append(s, x)[Len(s) + 1] = x /\ \A n \in 1..Len(s) : Append(s, x)[n] = s[n]
  BY <1>1, <1>2
<1> QED BY <1>4, <1>5, <1>6

\* The words of a conflict name: the label and hash of the folder first, the hash of the
\* file last.
LEMMA WordsAround ==
  ASSUME NEW s, IsStem(s), NEW a, NEW b, NEW h
  PROVE  LET t == <<a, b>> \o s \o <<h>>
         IN  IsStem(t) /\ Len(t) = Len(s) + 3 /\ Len(s) \in Nat
             /\ t[1] = a /\ t[2] = b /\ t[Len(t)] = h
<1> DEFINE W == Range(s) \cup {a, b, h}
<1>1. s \in Seq(W)  BY DEF IsStem
<1>2. <<a, b>> \in Seq(W) /\ <<h>> \in Seq(W)  OBVIOUS
<1>3. Len(s) \in Nat  BY <1>1
<1>a. a \in W /\ b \in W /\ h \in W  OBVIOUS
<1> HIDE DEF W
<1> DEFINE u == <<a, b>> \o s
           t == u \o <<h>>
<1>4. u \in Seq(W) /\ Len(u) = Len(s) + 2 /\ u[1] = a /\ u[2] = b
  BY <1>1, <1>2, <1>3, <1>a
<1>5. t \in Seq(W) /\ Len(t) = Len(u) + 1 /\ t[Len(u) + 1] = h
  <2> HIDE DEF u
  <2> QED BY <1>2, <1>4, <1>3
<1>6. t[1] = u[1] /\ t[2] = u[2]
  <2> HIDE DEF u
  <2> QED BY <1>2, <1>4, <1>3
<1>7. IsStem(t)
  <2> HIDE DEF t
  <2> QED BY <1>5, StemIsSeq
<1> QED BY <1>3, <1>4, <1>5, <1>6, <1>7

\* Three words put before a stem.
LEMMA WordsBefore ==
  ASSUME NEW s, IsStem(s), NEW a, NEW b, NEW c
  PROVE  LET t == <<a, b, c>> \o s
         IN  IsStem(t) /\ Len(t) = Len(s) + 3 /\ Len(s) \in Nat /\ t[2] = b /\ t[3] = c
<1> DEFINE W == Range(s) \cup {a, b, c}
<1>1. s \in Seq(W)  BY DEF IsStem
<1>2. <<a, b, c>> \in Seq(W)  OBVIOUS
<1>3. Len(s) \in Nat  BY <1>1
<1>a. a \in W /\ b \in W /\ c \in W  OBVIOUS
<1> HIDE DEF W
<1> DEFINE t == <<a, b, c>> \o s
<1>4. t \in Seq(W) /\ Len(t) = Len(s) + 3 /\ t[2] = b /\ t[3] = c
  BY <1>1, <1>2, <1>3, <1>a
<1>5. IsStem(t)
  <2> HIDE DEF t
  <2> QED BY <1>4, StemIsSeq
<1> QED BY <1>3, <1>4, <1>5

\* The files that may be given are finitely many, and paths.
LEMMA FilesArePaths ==
  /\ \A file \in SourceFiles : IsPath(file)
  /\ IsFiniteSet(SourceFiles)
  /\ \A f, g \in SourceFiles : HashOf(f) = HashOf(g) => f = g
<1>1. \A file \in SourceFiles : IsPath(file)  BY NamesAssumption DEF IsPath, IsStem
<1>2. IsFiniteSet(SourceFiles)
  <2> DEFINE D == 1..Len(PathOrder)
  <2>1. PathOrder \in [D -> SourceFiles]  BY NamesAssumption
  <2>2. Len(PathOrder) \in Nat  BY NamesAssumption
  <2>3. IsFiniteSet(D)  BY <2>2, FS_Interval
  <2>4. \A y \in SourceFiles : \E n \in D : PathOrder[n] = y
    BY <2>1 DEF SourceFiles, Range
  <2>5. PathOrder \in Surjection(D, SourceFiles)
    <3> HIDE DEF D
    <3> QED BY <2>1, <2>4 DEF Surjection
  <2> HIDE DEF D
  <2> QED BY <2>3, <2>5, FS_Surjection
<1>3. ASSUME NEW f \in SourceFiles, NEW g \in SourceFiles, HashOf(f) = HashOf(g)
      PROVE  f = g
  <2>1. f.dir = g.dir /\ f.stem = g.stem /\ f.ext = g.ext  BY <1>3 DEF HashOf
  <2>2. /\ f = [dir |-> f.dir, stem |-> f.stem, ext |-> f.ext]
        /\ g = [dir |-> g.dir, stem |-> g.stem, ext |-> g.ext]
    BY <1>1 DEF IsPath
  <2> QED BY <2>1, <2>2
<1> QED BY <1>1, <1>2, <1>3

\* A conflict name stays in its folder, carries the folder's hash and ends in the file's.
LEMMA ConflictNames ==
  ASSUME NEW file \in SourceFiles, NEW path, IsPath(path)
  PROVE  LET named == ConflictHandled(file, path)
         IN  /\ IsPath(named) /\ named.dir = path.dir
             /\ LastWord(named) = HashOf(file)
             /\ named.stem[2] = FolderHash(file.dir)
<1> DEFINE t == <<Word(LabelOf[file.dir]), FolderHash(file.dir)>> \o path.stem \o <<HashOf(file)>>
           named == [path EXCEPT !.stem = t]
<1>1. /\ IsStem(t) /\ t[Len(t)] = HashOf(file) /\ t[2] = FolderHash(file.dir)
  BY WordsAround DEF IsPath
<1>2. ConflictHandled(file, path) = named  BY DEF ConflictHandled, ConflictStem
<1> HIDE DEF t
<1>3. named = [dir |-> path.dir, stem |-> t, ext |-> path.ext]  BY DEF IsPath
<1> QED BY <1>1, <1>2, <1>3 DEF IsPath, LastWord

\* A name with a word more ends in that word.
LEMMA SuffixedNames ==
  ASSUME NEW path, IsPath(path), NEW token
  PROVE  /\ IsPath(Suffixed(path, token)) /\ Suffixed(path, token).dir = path.dir
         /\ LastWord(Suffixed(path, token)) = token
         /\ Len(Suffixed(path, token).stem) = Len(path.stem) + 1 /\ Len(path.stem) \in Nat
<1> DEFINE t == Append(path.stem, token)
<1>1. IsStem(t) /\ t[Len(t)] = token /\ Len(t) = Len(path.stem) + 1 /\ Len(path.stem) \in Nat
  BY WordAdded DEF IsPath
<1>2. Suffixed(path, token) = [path EXCEPT !.stem = t]  BY DEF Suffixed
<1> HIDE DEF t
<1>3. Suffixed(path, token) = [dir |-> path.dir, stem |-> t, ext |-> path.ext]
  BY <1>2 DEF IsPath
<1> QED BY <1>1, <1>3 DEF IsPath, LastWord

\* Each file has a place of its own in the order of paths.
LEMMA Ranks ==
  /\ Len(PathOrder) \in Nat
  /\ \A file \in SourceFiles : /\ PathRank(file) \in 1..Len(PathOrder)
                               /\ PathOrder[PathRank(file)] = file
<1>1. Len(PathOrder) \in Nat /\ DOMAIN PathOrder = 1..Len(PathOrder)  BY NamesAssumption
<1>2. \A file \in SourceFiles : \E n \in DOMAIN PathOrder : PathOrder[n] = file
  BY <1>1 DEF SourceFiles, Range
<1> QED BY <1>1, <1>2 DEF PathRank

\* A set of files can be put in order, and Sorted does.
LEMMA SortedFiles ==
  ASSUME NEW files \in SUBSET SourceFiles
  PROVE  /\ Sorted(files) \in SetToSeqs(files) /\ InPathOrder(Sorted(files))
<1> DEFINE Lt == {fg \in SourceFiles \X SourceFiles : PathRank(fg[1]) < PathRank(fg[2])}
<1>1. \A f, g \in SourceFiles : <<f, g>> \in Lt <=> PathRank(f) < PathRank(g)  OBVIOUS
<1> HIDE DEF Lt
<1>2. IsOrder(Lt, SourceFiles)
  <2>1. \A f \in SourceFiles : PathRank(f) \in Nat /\ PathOrder[PathRank(f)] = f  BY Ranks
  <2>2. \A f, g \in SourceFiles :
          f # g => PathRank(f) < PathRank(g) \/ PathRank(g) < PathRank(f)
    <3> TAKE f, g \in SourceFiles
    <3>1. f # g => PathRank(f) # PathRank(g)  BY <2>1
    <3> QED BY <2>1, <3>1
  <2>3. \A f, g, h \in SourceFiles :
          PathRank(f) < PathRank(g) /\ PathRank(g) < PathRank(h) => PathRank(f) < PathRank(h)
    BY <2>1
  <2> QED BY <1>1, <2>2, <2>3 DEF IsOrder
<1>3. PICK order \in SetToSeqs(files) : InOrder(order, Lt)
  BY <1>2, FilesArePaths, OrderingExists
<1>4. InPathOrder(order)
  <2>1. IsFiniteSet(files)  BY FilesArePaths, FS_Subset
  <2>2. \A n \in DOMAIN order : order[n] \in files
    <3>1. order \in Seq(files)  BY <2>1, OrderedSet
    <3> QED BY <3>1
  <2> QED BY <1>1, <1>3, <2>2 DEF InPathOrder, InOrder
<1> QED BY <1>3, <1>4 DEF Sorted

\* Files in any order are files, each once.
LEMMA OrderedFiles ==
  ASSUME NEW files \in SUBSET SourceFiles, NEW order \in SetToSeqs(files)
  PROVE  order \in Seq(SourceFiles) /\ IsInjective(order) /\ Range(order) \subseteq files
<1>1. IsFiniteSet(files) /\ Cardinality(files) \in Nat
  BY FilesArePaths, FS_Subset, FS_CardinalityType
<1>2. order \in [1..Cardinality(files) -> files]
  BY DEF SetToSeqs
<1>3. order \in Seq(SourceFiles) /\ DOMAIN order = 1..Cardinality(files)
  BY <1>1, <1>2
<1>4. IsInjective(order)  BY <1>3 DEF SetToSeqs, IsInjective
<1>5. Range(order) \subseteq files  BY <1>2 DEF Range
<1> QED BY <1>3, <1>4, <1>5

-----------------------------------------------------------------------------
(* The invariant of the naming *)

ForVideos == request.work \in {"encode", "pack"}

OutputsPlanned ==
  namingStep = "separate" \/ (namingStep \in {"enter", "add", "named"} /\ ForVideos)

\* The videos whose output has not been renamed by its own hash.
Unmarked == {f \in Range(givenFiles) : LastWord(outputOf[f]) # HashOf(f)}

NameTypes ==
  /\ namingStep \in {"start", "plan", "refused", "separate", "enter", "add", "named"}
  /\ givenFiles \in Seq(SourceFiles) /\ IsInjective(givenFiles)
  /\ namingStep # "start" => request \in Requests
  /\ namingStep = "separate" => ForVideos
  /\ namingStep \in {"enter", "add"} => request.work # "encode"

OutputsInv ==
  /\ ~OutputsPlanned => outputOf = <<>> /\ nameRounds = 0
  /\ OutputsPlanned =>
       /\ DOMAIN outputOf = Range(givenFiles)
       /\ \A f \in Range(givenFiles) :
            /\ IsPath(outputOf[f]) /\ outputOf[f].dir = OutputDir(f)
            /\ ForcedVideo => outputOf[f] = ConflictHandled(f, CandidateOf(f))
       /\ nameRounds \in Nat
       /\ nameRounds + Cardinality(Unmarked) <= Cardinality(Range(givenFiles))
       /\ namingStep # "separate" => IsInjective(outputOf)

\* Entries, of which no two have one name.
EntriesApart(entries) ==
  \A m, n \in DOMAIN entries : m # n => entries[m].name # entries[n].name

EntriesNamed(entries) ==
  entries \in Seq(Range(entries)) /\ \A n \in DOMAIN entries : IsPath(entries[n].name)

ArchiveInv ==
  /\ namingStep \notin {"add", "named"} => toPack = <<>> /\ inArchive = <<>>
  /\ IsStem(inArchive) /\ EntriesNamed(toPack)
  /\ request.full => IsInjective(inArchive)
  /\ Forced /\ ~request.full =>
       /\ IsInjective(inArchive) /\ EntriesApart(toPack)
       /\ \A m \in DOMAIN inArchive, n \in DOMAIN toPack : inArchive[m] # toPack[n].name

NameInv == NameTypes /\ OutputsInv /\ ArchiveInv

\* The files given are finitely many.
LEMMA GivenAreFiles ==
  ASSUME NameTypes
  PROVE  /\ Range(givenFiles) \subseteq SourceFiles
         /\ IsFiniteSet(Range(givenFiles)) /\ Cardinality(Range(givenFiles)) \in Nat
         /\ DOMAIN givenFiles = 1..Len(givenFiles) /\ Len(givenFiles) \in Nat
         /\ \A n \in DOMAIN givenFiles : givenFiles[n] \in Range(givenFiles)
         /\ \A m, n \in DOMAIN givenFiles : m # n => givenFiles[m] # givenFiles[n]
<1>1. givenFiles \in Seq(SourceFiles)  BY DEF NameTypes
<1>2. DOMAIN givenFiles = 1..Len(givenFiles) /\ Len(givenFiles) \in Nat  BY <1>1
<1>3. Range(givenFiles) \subseteq SourceFiles  BY <1>1, <1>2 DEF Range
<1>4. \A n \in DOMAIN givenFiles : givenFiles[n] \in Range(givenFiles)  BY DEF Range
<1>5. IsFiniteSet(Range(givenFiles)) /\ Cardinality(Range(givenFiles)) \in Nat
  BY <1>3, FilesArePaths, FS_Subset, FS_CardinalityType
<1> QED BY <1>2, <1>3, <1>4, <1>5 DEF NameTypes, IsInjective

\* An archive without entries, and none to add.
LEMMA NothingPacked == toPack = <<>> /\ inArchive = <<>> => ArchiveInv
<1> SUFFICES ASSUME toPack = <<>>, inArchive = <<>> PROVE ArchiveInv  OBVIOUS
<1>1. DOMAIN inArchive = {} /\ DOMAIN toPack = {}  OBVIOUS
<1>2. inArchive \in Seq(Range(inArchive)) /\ toPack \in Seq(Range(toPack))  OBVIOUS
<1> QED BY <1>1, <1>2 DEF ArchiveInv, IsStem, EntriesNamed, IsInjective, EntriesApart

\* What a request asks of a file, as long as it is the same request.
LEMMA RequestKept ==
  ASSUME UNCHANGED <<request, givenFiles>>, NEW f
  PROVE  /\ OutputDir(f)' = OutputDir(f) /\ (ForcedVideo' <=> ForcedVideo)
         /\ CandidateOf(f)' = CandidateOf(f)
         /\ ConflictHandled(f, CandidateOf(f))' = ConflictHandled(f, CandidateOf(f))
<1>1. OutputDir(f)' = OutputDir(f)  BY DEF OutputDir, UsesSharedRoot, OutputRoot
<1>2. CandidateOf(f)' = CandidateOf(f)  BY <1>1 DEF CandidateOf
<1>3. ConflictHandled(f, CandidateOf(f))' = ConflictHandled(f, CandidateOf(f))
  BY <1>2 DEF ConflictHandled, ConflictStem
<1>4. ForcedVideo' <=> ForcedVideo  BY DEF ForcedVideo, Forced
<1> QED BY <1>1, <1>2, <1>3, <1>4

\* A step that leaves the outputs alone.
LEMMA OutputsStay ==
  ASSUME OutputsInv, UNCHANGED <<request, givenFiles, outputOf, nameRounds>>,
         OutputsPlanned' <=> OutputsPlanned,
         namingStep' = "separate" <=> namingStep = "separate"
  PROVE  OutputsInv'
<1>1. Unmarked' = Unmarked  BY DEF Unmarked
<1>2. ASSUME NEW f
      PROVE  /\ OutputDir(f)' = OutputDir(f) /\ (ForcedVideo' <=> ForcedVideo)
             /\ ConflictHandled(f, CandidateOf(f))' = ConflictHandled(f, CandidateOf(f))
  BY RequestKept
<1> QED BY <1>1, <1>2 DEF OutputsInv

LEMMA NamingInit_Inv == NamingInit => NameInv
<1> SUFFICES ASSUME NamingInit PROVE NameInv  OBVIOUS
<1>1. /\ namingStep = "start" /\ givenFiles = <<>> /\ outputOf = <<>> /\ nameRounds = 0
      /\ toPack = <<>> /\ inArchive = <<>>
  BY DEF NamingInit
<1>2. NameTypes
  <2>1. givenFiles \in Seq(SourceFiles) /\ DOMAIN givenFiles = {}  BY <1>1
  <2> QED BY <1>1, <2>1 DEF NameTypes, IsInjective
<1>3. OutputsInv  BY <1>1 DEF OutputsInv, OutputsPlanned
<1>4. ArchiveInv  BY <1>1, NothingPacked
<1> QED BY <1>2, <1>3, <1>4 DEF NameInv

LEMMA Give_Inv == ASSUME NameInv, Give PROVE NameInv'
<1>1. /\ namingStep = "start" /\ namingStep' = "plan" /\ request' \in Requests
      /\ UNCHANGED <<outputOf, nameRounds, toPack, inArchive>>
  BY DEF Give
<1>2. givenFiles' \in Seq(SourceFiles) /\ IsInjective(givenFiles')
  <2>1. PICK files \in SUBSET SourceFiles :
          givenFiles' \in IF Cardinality(files) > MaxShuffled THEN {Sorted(files)} ELSE SetToSeqs(files)
    BY DEF Give
  <2>2. givenFiles' \in SetToSeqs(files)  BY <2>1, SortedFiles
  <2> QED BY <2>2, OrderedFiles
<1>3. NameTypes'  BY <1>1, <1>2 DEF NameTypes
<1>4. outputOf = <<>> /\ nameRounds = 0 /\ toPack = <<>> /\ inArchive = <<>>
  BY <1>1 DEF NameInv, OutputsInv, OutputsPlanned, ArchiveInv
<1>5. OutputsInv'  BY <1>1, <1>4 DEF OutputsInv, OutputsPlanned
<1>6. ArchiveInv'
  <2>1. toPack' = <<>> /\ inArchive' = <<>>  BY <1>1, <1>4
  <2>2. (toPack = <<>> /\ inArchive = <<>>)' => ArchiveInv'  BY NothingPacked, PTL
  <2> QED BY <2>1, <2>2
<1> QED BY <1>3, <1>5, <1>6 DEF NameInv

\* Two stems make one.
LEMMA StemsJoined ==
  ASSUME NEW s, IsStem(s), NEW t, IsStem(t)
  PROVE  IsStem(s \o t)
<1> DEFINE W == Range(s) \cup Range(t)
<1>1. s \in Seq(W) /\ t \in Seq(W)  BY DEF IsStem
<1> HIDE DEF W
<1>2. s \o t \in Seq(W)  BY <1>1
<1> QED BY <1>2, StemIsSeq

\* The plain output of a file, in its output folder.
LEMMA CandidatePaths ==
  ASSUME NEW file \in SourceFiles
  PROVE  IsPath(CandidateOf(file)) /\ CandidateOf(file).dir = OutputDir(file)
<1>1. IsStem(file.stem)  BY FilesArePaths DEF IsPath
<1> DEFINE tail == IF request.webp THEN <<>> ELSE <<Word("hevc")>>
<1>2. IsStem(tail)
  <2>1. <<>> \in Seq({}) /\ <<Word("hevc")>> \in Seq({Word("hevc")})  OBVIOUS
  <2> QED BY <2>1, StemIsSeq
<1> DEFINE t == file.stem \o tail
<1>3. IsStem(t)
  <2> HIDE DEF tail
  <2> QED BY <1>1, <1>2, StemsJoined
<1> HIDE DEF t
<1>4. CandidateOf(file) = [dir |-> OutputDir(file), stem |-> t,
                           ext |-> IF request.webp THEN "webp" ELSE "mp4"]
  BY DEF CandidateOf, t
<1> QED BY <1>3, <1>4 DEF IsPath

\* The planned output of a file, in its output folder, under its conflict name when that is
\* forced.
LEMMA PlannedOutputs ==
  ASSUME NEW file \in SourceFiles
  PROVE  /\ IsPath(PlannedOutput(file)) /\ PlannedOutput(file).dir = OutputDir(file)
         /\ ForcedVideo => PlannedOutput(file) = ConflictHandled(file, CandidateOf(file))
BY CandidatePaths, ConflictNames DEF PlannedOutput

LEMMA Plan_Inv == ASSUME NameInv, Plan PROVE NameInv'
<1>1. /\ namingStep = "plan" /\ namingStep' \in {"enter", "refused", "separate"}
      /\ UNCHANGED <<request, givenFiles, nameRounds, toPack, inArchive>>
      /\ namingStep' = "separate" =>
           ForVideos /\ outputOf' = [file \in Range(givenFiles) |-> PlannedOutput(file)]
      /\ namingStep' # "separate" => UNCHANGED outputOf
      /\ namingStep' = "enter" => ~ForVideos
  BY DEF Plan, ForVideos
<1>2. outputOf = <<>> /\ nameRounds = 0 /\ toPack = <<>> /\ inArchive = <<>>
  BY <1>1 DEF NameInv, OutputsInv, OutputsPlanned, ArchiveInv
<1>3. NameTypes'  BY <1>1 DEF NameInv, NameTypes, ForVideos
<1>4. ArchiveInv'
  <2>1. toPack' = <<>> /\ inArchive' = <<>>  BY <1>1, <1>2
  <2>2. (toPack = <<>> /\ inArchive = <<>>)' => ArchiveInv'  BY NothingPacked, PTL
  <2> QED BY <2>1, <2>2
<1>5. OutputsInv'
  <2>1. CASE namingStep' # "separate"
    <3>1. ~OutputsPlanned'  BY <1>1, <2>1 DEF OutputsPlanned, ForVideos
    <3> QED BY <1>1, <1>2, <2>1, <3>1 DEF OutputsInv
  <2>2. CASE namingStep' = "separate"
    <3>1. OutputsPlanned'  BY <2>2 DEF OutputsPlanned
    <3>2. outputOf' = [file \in Range(givenFiles) |-> PlannedOutput(file)] /\ givenFiles' = givenFiles
      BY <1>1, <2>2
    <3>3. Range(givenFiles) \subseteq SourceFiles /\ IsFiniteSet(Range(givenFiles))
          /\ Cardinality(Range(givenFiles)) \in Nat
      BY GivenAreFiles DEF NameInv
    <3>4. ASSUME NEW f \in Range(givenFiles)
          PROVE  /\ IsPath(outputOf'[f]) /\ outputOf'[f].dir = OutputDir(f)'
                 /\ ForcedVideo' => outputOf'[f] = ConflictHandled(f, CandidateOf(f))'
      <4>1. outputOf'[f] = PlannedOutput(f) /\ f \in SourceFiles  BY <3>2, <3>3
      <4>2. /\ OutputDir(f)' = OutputDir(f) /\ (ForcedVideo' <=> ForcedVideo)
            /\ ConflictHandled(f, CandidateOf(f))' = ConflictHandled(f, CandidateOf(f))
        BY <1>1, RequestKept
      <4> QED BY <4>1, <4>2, PlannedOutputs
    <3>5. Cardinality(Unmarked') \in Nat /\ Cardinality(Unmarked') <= Cardinality(Range(givenFiles))
      <4>1. Unmarked' \subseteq Range(givenFiles)  BY <3>2 DEF Unmarked
      <4> QED BY <3>3, <4>1, FS_Subset, FS_CardinalityType
    <3>6. nameRounds' = 0  BY <1>1, <1>2
    <3>7. DOMAIN outputOf' = Range(givenFiles)  BY <3>2
    <3> QED BY <2>2, <3>1, <3>2, <3>4, <3>5, <3>6, <3>7, <3>3 DEF OutputsInv
  <2> QED BY <2>1, <2>2
<1> QED BY <1>3, <1>4, <1>5 DEF NameInv

\* A forced name ends in the hash of its file.
LEMMA ForcedAreMarked ==
  ASSUME NameInv, OutputsPlanned, ForcedVideo, NEW f \in Range(givenFiles)
  PROVE  LastWord(outputOf[f]) = HashOf(f)
<1>1. f \in SourceFiles  BY GivenAreFiles DEF NameInv
<1>2. outputOf[f] = ConflictHandled(f, CandidateOf(f))  BY DEF NameInv, OutputsInv
<1> QED BY <1>1, <1>2, CandidatePaths, ConflictNames

\* Of two videos that share an output, one is not marked yet.
LEMMA OneIsUnmarked ==
  ASSUME NameInv, Duplicated # {}
  PROVE  \E f \in Duplicated : f \in Unmarked
<1>1. PICK f \in Range(givenFiles) : \E g \in Range(givenFiles) \ {f} : Coincide(f, g)
  BY DEF Duplicated
<1>2. PICK g \in Range(givenFiles) \ {f} : Coincide(f, g)  BY <1>1
<1>3. f # g /\ outputOf[f] = outputOf[g] /\ f \in Duplicated /\ g \in Duplicated
  BY <1>1, <1>2 DEF Duplicated, Coincide
<1>4. f \in SourceFiles /\ g \in SourceFiles  BY <1>1, <1>2, GivenAreFiles DEF NameInv
<1>5. HashOf(f) # HashOf(g)  BY <1>3, <1>4, FilesArePaths
<1> QED BY <1>1, <1>2, <1>3, <1>5 DEF Unmarked

LEMMA Separate_Inv == ASSUME NameInv, Separate PROVE NameInv'
<1>1. /\ namingStep = "separate" /\ ForVideos /\ OutputsPlanned
      /\ UNCHANGED <<request, givenFiles, toPack, inArchive>>
  BY DEF Separate, NameInv, NameTypes, OutputsPlanned
<1>2. /\ DOMAIN outputOf = Range(givenFiles)
      /\ \A f \in Range(givenFiles) :
            /\ IsPath(outputOf[f]) /\ outputOf[f].dir = OutputDir(f)
            /\ ForcedVideo => outputOf[f] = ConflictHandled(f, CandidateOf(f))
      /\ nameRounds \in Nat
      /\ nameRounds + Cardinality(Unmarked) <= Cardinality(Range(givenFiles))
  BY <1>1 DEF NameInv, OutputsInv
<1>3. toPack = <<>> /\ inArchive = <<>>  BY <1>1 DEF NameInv, ArchiveInv
<1>4. ArchiveInv'
  <2>1. toPack' = <<>> /\ inArchive' = <<>>  BY <1>1, <1>3
  <2>2. (toPack = <<>> /\ inArchive = <<>>)' => ArchiveInv'  BY NothingPacked, PTL
  <2> QED BY <2>1, <2>2
<1>5. ASSUME NEW f \in Range(givenFiles)
      PROVE  /\ OutputDir(f)' = OutputDir(f)
             /\ ConflictHandled(f, CandidateOf(f))' = ConflictHandled(f, CandidateOf(f))
  BY <1>1, RequestKept
<1>6. ForcedVideo' <=> ForcedVideo  BY <1>1 DEF ForcedVideo, Forced
<1>7. CASE Duplicated = {}
  <2>1. /\ namingStep' = IF request.work = "pack" THEN "enter" ELSE "named"
        /\ UNCHANGED <<outputOf, nameRounds>>
    BY <1>7 DEF Separate
  <2>2. NameTypes'  BY <1>1, <2>1 DEF NameInv, NameTypes, ForVideos
  <2>3. IsInjective(outputOf)
    BY <1>2, <1>7 DEF Duplicated, Coincide, IsInjective
  <2>4. OutputsPlanned'  BY <1>1, <2>1 DEF OutputsPlanned, ForVideos
  <2>5. Unmarked' = Unmarked  BY <1>1, <2>1 DEF Unmarked
  <2>6. OutputsInv'  BY <1>1, <1>2, <1>5, <1>6, <2>1, <2>3, <2>4, <2>5 DEF OutputsInv
  <2> QED BY <1>4, <2>2, <2>6 DEF NameInv
<1>8. CASE Duplicated # {}
  <2>1. /\ outputOf' = [file \in Range(givenFiles) |->
                IF file \in Duplicated THEN Suffixed(outputOf[file], HashOf(file))
                ELSE outputOf[file]]
        /\ nameRounds' = nameRounds + 1 /\ UNCHANGED namingStep
    BY <1>8 DEF Separate
  <2>2. NameTypes'  BY <1>1, <2>1 DEF NameInv, NameTypes, ForVideos
  <2>3. PICK u \in Duplicated : u \in Unmarked  BY <1>8, OneIsUnmarked
  <2>4. ~ForcedVideo  BY <1>1, <2>3, ForcedAreMarked DEF Unmarked
  <2>5. ASSUME NEW f \in Range(givenFiles)
        PROVE  /\ IsPath(outputOf'[f]) /\ outputOf'[f].dir = OutputDir(f)
               /\ f \in Duplicated => LastWord(outputOf'[f]) = HashOf(f)
               /\ f \notin Duplicated => outputOf'[f] = outputOf[f]
    BY <1>2, <2>1, SuffixedNames
  <2>6. Unmarked' \subseteq Unmarked \ {u}
    BY <1>1, <2>3, <2>5 DEF Unmarked
  <2>7. Cardinality(Unmarked') + 1 <= Cardinality(Unmarked) /\ Cardinality(Unmarked') \in Nat
        /\ Cardinality(Unmarked) \in Nat
    <3>1. IsFiniteSet(Unmarked)  BY GivenAreFiles, FS_Subset DEF Unmarked, NameInv
    <3>2. IsFiniteSet(Unmarked \ {u}) /\ Cardinality(Unmarked \ {u}) = Cardinality(Unmarked) - 1
      BY <2>3, <3>1, FS_RemoveElement
    <3>3. Cardinality(Unmarked') <= Cardinality(Unmarked \ {u}) /\ IsFiniteSet(Unmarked')
      BY <2>6, <3>2, FS_Subset
    <3> QED BY <3>1, <3>2, <3>3, FS_CardinalityType
  <2>8. nameRounds' + Cardinality(Unmarked') <= Cardinality(Range(givenFiles))
    BY <1>2, <2>1, <2>7, GivenAreFiles DEF NameInv
  <2>9. OutputsPlanned' /\ DOMAIN outputOf' = Range(givenFiles) /\ nameRounds' \in Nat
    BY <1>1, <1>2, <2>1 DEF OutputsPlanned
  <2>10. namingStep' = "separate" /\ givenFiles' = givenFiles  BY <1>1, <2>1
  <2>11. OutputsInv'
    BY <1>5, <1>6, <2>4, <2>5, <2>8, <2>9, <2>10 DEF OutputsInv
  <2> QED BY <1>4, <2>2, <2>11 DEF NameInv
<1> QED BY <1>7, <1>8

-----------------------------------------------------------------------------
(* The entries of an archive *)

\* Neither the folder nor the extension is in the stem.
LEMMA PlainNames ==
  ASSUME NEW path, IsPath(path)
  PROVE  /\ IsPath(FileName(path)) /\ FileName(path).stem = path.stem
         /\ IsPath(CompressedName(path)) /\ CompressedName(path).stem = path.stem
<1>1. FileName(path) = [dir |-> <<>>, stem |-> path.stem, ext |-> path.ext]
  BY DEF IsPath, FileName
<1>2. CompressedName(path) = [dir |-> path.dir, stem |-> path.stem, ext |-> "jpg"]
  BY DEF IsPath, CompressedName
<1> QED BY <1>1, <1>2 DEF IsPath

\* What is given for each number from one on is a sequence.
LEMMA EntriesListed ==
  ASSUME NEW n \in Nat, NEW entries, DOMAIN entries = 1..n,
         entries = [m \in 1..n |-> entries[m]]
  PROVE  entries \in Seq(Range(entries)) /\ Len(entries) = n
<1>1. \A m \in 1..n : entries[m] \in Range(entries)  BY DEF Range
<1>2. entries \in [1..n -> Range(entries)]  BY <1>1
<1> QED BY <1>2

\* Two lists of entries apart from each other, one behind the other.
LEMMA EntriesJoined ==
  ASSUME NEW first, EntriesNamed(first), NEW second, EntriesNamed(second)
  PROVE  /\ EntriesNamed(first \o second)
         /\ (/\ EntriesApart(first) /\ EntriesApart(second)
             /\ \A m \in DOMAIN first, n \in DOMAIN second : first[m].name # second[n].name)
              => EntriesApart(first \o second)
<1> DEFINE W == Range(first) \cup Range(second)
           both == first \o second
<1>1. first \in Seq(W) /\ second \in Seq(W)  BY DEF EntriesNamed
<1> HIDE DEF W
<1>2. /\ both \in Seq(W) /\ DOMAIN both = 1..Len(both)
      /\ DOMAIN first = 1..Len(first) /\ DOMAIN second = 1..Len(second)
      /\ Len(first) \in Nat /\ Len(second) \in Nat /\ Len(both) = Len(first) + Len(second)
  BY <1>1
<1>3. \A n \in DOMAIN both :
         \/ n \in DOMAIN first /\ both[n] = first[n]
         \/ n - Len(first) \in DOMAIN second /\ both[n] = second[n - Len(first)]
            /\ n \notin DOMAIN first
  <2> TAKE n \in DOMAIN both
  <2>1. CASE n <= Len(first)  BY <1>1, <1>2, <2>1
  <2>2. CASE n > Len(first)
    <3>1. n - Len(first) \in 1..Len(second) /\ n \in Nat  BY <1>2, <2>2
    <3>2. both[n] = second[n - Len(first)]  BY <1>1, <1>2, <2>2
    <3> QED BY <1>2, <2>2, <3>1, <3>2
  <2> QED BY <1>2, <2>1, <2>2
<1> HIDE DEF both
<1>4. EntriesNamed(both)
  <2>1. both \in Seq(Range(both))  BY <1>2, StemIsSeq DEF IsStem
  <2> QED BY <1>3, <2>1 DEF EntriesNamed
<1>5. ASSUME EntriesApart(first), EntriesApart(second),
             \A m \in DOMAIN first, n \in DOMAIN second : first[m].name # second[n].name
      PROVE  EntriesApart(both)
  <2> SUFFICES ASSUME NEW m \in DOMAIN both, NEW n \in DOMAIN both, m # n
               PROVE  both[m].name # both[n].name
    BY DEF EntriesApart
  <2>1. m \in Nat /\ n \in Nat /\ m - Len(first) # n - Len(first)  BY <1>2
  <2>2. CASE m \in DOMAIN first /\ n \in DOMAIN first
    BY <1>3, <1>5, <2>2 DEF EntriesApart
  <2>3. CASE m \in DOMAIN first /\ n \notin DOMAIN first  BY <1>3, <1>5, <2>3
  <2>4. CASE m \notin DOMAIN first /\ n \in DOMAIN first  BY <1>3, <1>5, <2>4
  <2>5. CASE m \notin DOMAIN first /\ n \notin DOMAIN first
    <3>1. /\ m - Len(first) \in DOMAIN second /\ both[m] = second[m - Len(first)]
          /\ n - Len(first) \in DOMAIN second /\ both[n] = second[n - Len(first)]
      BY <1>3, <2>5
    <3> QED BY <1>5, <2>1, <3>1 DEF EntriesApart
  <2> QED BY <2>2, <2>3, <2>4, <2>5
<1> QED BY <1>4, <1>5 DEF both

\* What tells the names of an archive apart under forced naming: the last word of a name
\* is the hash of its own input.
LEMMA EntriesByHash ==
  ASSUME NameTypes, NEW entries, DOMAIN entries = DOMAIN givenFiles,
         entries = [n \in DOMAIN givenFiles |-> entries[n]],
         \A n \in DOMAIN givenFiles : IsPath(entries[n].name),
         NEW Cond,
         Cond => \A n \in DOMAIN givenFiles : LastWord(entries[n].name) = HashOf(givenFiles[n])
  PROVE  EntriesNamed(entries) /\ (Cond => EntriesApart(entries))
<1>1. EntriesNamed(entries)
  BY GivenAreFiles, EntriesListed DEF EntriesNamed
<1>2. ASSUME Cond PROVE EntriesApart(entries)
  <2> SUFFICES ASSUME NEW m \in DOMAIN givenFiles, NEW n \in DOMAIN givenFiles, m # n
               PROVE  entries[m].name # entries[n].name
    BY DEF EntriesApart
  <2>1. /\ givenFiles[m] # givenFiles[n]
        /\ givenFiles[m] \in SourceFiles /\ givenFiles[n] \in SourceFiles
    BY GivenAreFiles
  <2>2. HashOf(givenFiles[m]) # HashOf(givenFiles[n])  BY <2>1, FilesArePaths
  <2> QED BY <1>2, <2>2
<1> QED BY <1>1, <1>2

\* The entries of encoded videos are apart under forced naming.
LEMMA VideosNamed ==
  ASSUME NameInv, namingStep = "enter", request.work = "pack"
  PROVE  EntriesNamed(VideoEntries) /\ (Forced => EntriesApart(VideoEntries))
<1>1. NameTypes /\ OutputsPlanned  BY DEF NameInv, OutputsPlanned, ForVideos
<1>2. \A n \in DOMAIN givenFiles : /\ givenFiles[n] \in Range(givenFiles)
                                   /\ IsPath(outputOf[givenFiles[n]])
  BY <1>1, GivenAreFiles DEF NameInv, OutputsInv
<1>3. \A n \in DOMAIN givenFiles : VideoEntries[n].name = FileName(outputOf[givenFiles[n]])
  BY DEF VideoEntries
<1>4. DOMAIN VideoEntries = DOMAIN givenFiles
      /\ VideoEntries = [n \in DOMAIN givenFiles |-> VideoEntries[n]]
  BY DEF VideoEntries
<1>5. \A n \in DOMAIN givenFiles : IsPath(VideoEntries[n].name)
  BY <1>2, <1>3, PlainNames
<1>6. ASSUME Forced
      PROVE  \A n \in DOMAIN givenFiles : LastWord(VideoEntries[n].name) = HashOf(givenFiles[n])
  <2>1. ForcedVideo  BY <1>6 DEF ForcedVideo
  <2> TAKE n \in DOMAIN givenFiles
  <2>2. LastWord(outputOf[givenFiles[n]]) = HashOf(givenFiles[n])
    BY <1>1, <1>2, <2>1, ForcedAreMarked
  <2> QED BY <1>2, <1>3, <2>2, PlainNames DEF LastWord
<1> QED BY <1>1, <1>4, <1>5, <1>6, EntriesByHash

\* The name of a file that is packed as it stands, by its hash when that is forced.
LEMMA PackNames ==
  ASSUME NEW file \in SourceFiles
  PROVE  /\ IsPath(PackName(file)) /\ IsPath(PictureName(file))
         /\ Forced => /\ PackName(file) = ConflictHandled(file, FileName(file))
                      /\ PictureName(file) = ConflictHandled(file, FileName(file))
         /\ LastWord(ConflictHandled(file, FileName(file))) = HashOf(file)
         /\ ConflictHandled(file, FileName(file)).stem[2] = FolderHash(file.dir)
<1>1. IsPath(file) /\ IsPath(FileName(file))  BY FilesArePaths, PlainNames
<1>2. /\ IsPath(ConflictHandled(file, FileName(file)))
      /\ LastWord(ConflictHandled(file, FileName(file))) = HashOf(file)
      /\ ConflictHandled(file, FileName(file)).stem[2] = FolderHash(file.dir)
  BY <1>1, ConflictNames
<1>3. IsPath(PackName(file))  BY <1>1, <1>2 DEF PackName
<1>4. IsPath(PictureName(file))  BY <1>2, <1>3 DEF PictureName
<1>5. Forced => /\ PackName(file) = ConflictHandled(file, FileName(file))
                /\ PictureName(file) = ConflictHandled(file, FileName(file))
  BY DEF PackName, PictureName, Forced
<1> QED BY <1>2, <1>3, <1>4, <1>5

\* The entries of files packed as they stand are apart under forced naming.
LEMMA GivenNamed ==
  ASSUME NameTypes
  PROVE  EntriesNamed(GivenEntries) /\ (Forced => EntriesApart(GivenEntries))
<1>1. \A n \in DOMAIN givenFiles : givenFiles[n] \in SourceFiles  BY GivenAreFiles
<1>2. \A n \in DOMAIN givenFiles : GivenEntries[n].name = PackName(givenFiles[n])
  BY DEF GivenEntries
<1>3. DOMAIN GivenEntries = DOMAIN givenFiles
      /\ GivenEntries = [n \in DOMAIN givenFiles |-> GivenEntries[n]]
  BY DEF GivenEntries
<1>4. \A n \in DOMAIN givenFiles : IsPath(GivenEntries[n].name)
  BY <1>1, <1>2, PackNames
<1>5. Forced => \A n \in DOMAIN givenFiles :
                  LastWord(GivenEntries[n].name) = HashOf(givenFiles[n])
  BY <1>1, <1>2, PackNames
<1> QED BY <1>3, <1>4, <1>5, EntriesByHash

\* A picture's entry has the name it was given, but for the extension.
LEMMA PictureEntryNames ==
  ASSUME NEW file, NEW name, IsPath(name)
  PROVE  /\ IsPath(PictureEntry(file, name).name)
         /\ PictureEntry(file, name).name.stem = name.stem
BY PlainNames DEF PictureEntry

\* The entries of the pictures themselves.
OwnEntries ==
  [n \in DOMAIN givenFiles |-> PictureEntry(givenFiles[n], PictureName(givenFiles[n]))]

\* The pictures' own entries are apart under forced naming.
LEMMA OwnNamed ==
  ASSUME NameTypes
  PROVE  /\ EntriesNamed(OwnEntries) /\ (Forced => EntriesApart(OwnEntries))
         /\ Forced => \A n \in DOMAIN OwnEntries :
                        /\ givenFiles[n] \in SourceFiles
                        /\ OwnEntries[n].name.stem[2] = FolderHash(givenFiles[n].dir)
<1>1. \A n \in DOMAIN givenFiles : givenFiles[n] \in SourceFiles  BY GivenAreFiles
<1>2. DOMAIN OwnEntries = DOMAIN givenFiles
      /\ OwnEntries = [n \in DOMAIN givenFiles |-> OwnEntries[n]]
  BY DEF OwnEntries
<1>3. \A n \in DOMAIN givenFiles : /\ IsPath(OwnEntries[n].name)
                                   /\ OwnEntries[n].name.stem = PictureName(givenFiles[n]).stem
  BY <1>1, PackNames, PictureEntryNames DEF OwnEntries
<1>4. Forced => \A n \in DOMAIN givenFiles :
                  LastWord(OwnEntries[n].name) = HashOf(givenFiles[n])
  BY <1>1, <1>3, PackNames DEF LastWord
<1>5. Forced => \A n \in DOMAIN givenFiles :
                  OwnEntries[n].name.stem[2] = FolderHash(givenFiles[n].dir)
  BY <1>1, <1>3, PackNames
<1> QED BY <1>1, <1>2, <1>3, <1>4, <1>5, EntriesByHash

\* A summary picture's name carries the label and the hash of its folder.
LEMMA SummaryNames ==
  ASSUME NEW file \in SourceFiles
  PROVE  /\ IsPath(SummaryName(file))
         /\ SummaryName(file).stem[2] = Word(LabelOf[file.dir])
         /\ SummaryName(file).stem[3] = FolderHash(file.dir)
<1> DEFINE t == <<Word("summary"), Word(LabelOf[file.dir]), FolderHash(file.dir)>> \o file.stem
<1>1. IsPath(file)  BY FilesArePaths
<1>2. IsStem(t) /\ t[2] = Word(LabelOf[file.dir]) /\ t[3] = FolderHash(file.dir)
  BY <1>1, WordsBefore DEF IsPath
<1>3. FileName(file) = [dir |-> <<>>, stem |-> file.stem, ext |-> file.ext]
  BY <1>1 DEF IsPath, FileName
<1>4. FileName(file).stem = file.stem  BY <1>3
<1>5. SummaryName(file) = [FileName(file) EXCEPT !.stem = t]  BY <1>4 DEF SummaryName
<1> HIDE DEF t
<1>6. SummaryName(file) = [dir |-> <<>>, stem |-> t, ext |-> file.ext]  BY <1>3, <1>5
<1> QED BY <1>2, <1>6 DEF IsPath

\* The entries of summary pictures are apart, and told from the pictures' own by their
\* second words.
LEMMA SummaryNamed ==
  ASSUME NameTypes
  PROVE  /\ EntriesNamed(SummaryEntries) /\ EntriesApart(SummaryEntries)
         /\ \A n \in DOMAIN SummaryEntries :
              \E file \in SourceFiles :
                SummaryEntries[n].name.stem[2] = Word(LabelOf[file.dir])
<1> DEFINE set == IF request.summary THEN SummaryPictures ELSE {}
           chosen == Sorted(set)
<1>1. set \in SUBSET SourceFiles  BY GivenAreFiles DEF SummaryPictures
<1>2. \A f, g \in set : f.dir = g.dir => f = g  BY DEF SummaryPictures
<1>3. SummaryEntries = [n \in DOMAIN chosen |-> PictureEntry(chosen[n], SummaryName(chosen[n]))]
  BY DEF SummaryEntries
<1> HIDE DEF set
<1>4. chosen \in Seq(SourceFiles) /\ IsInjective(chosen) /\ Range(chosen) \subseteq set
  BY <1>1, SortedFiles, OrderedFiles
<1> HIDE DEF chosen
<1>5. DOMAIN chosen = 1..Len(chosen) /\ Len(chosen) \in Nat  BY <1>4
<1>6. \A n \in DOMAIN chosen : chosen[n] \in set /\ chosen[n] \in SourceFiles
  BY <1>1, <1>4 DEF Range
<1>7. /\ DOMAIN SummaryEntries = DOMAIN chosen
      /\ SummaryEntries = [n \in DOMAIN chosen |-> SummaryEntries[n]]
  BY <1>3
<1>8. \A n \in DOMAIN chosen :
         /\ IsPath(SummaryEntries[n].name)
         /\ SummaryEntries[n].name.stem[2] = Word(LabelOf[chosen[n].dir])
         /\ SummaryEntries[n].name.stem[3] = FolderHash(chosen[n].dir)
  BY <1>3, <1>6, SummaryNames, PictureEntryNames
<1>9. EntriesNamed(SummaryEntries)
  BY <1>5, <1>7, <1>8, EntriesListed DEF EntriesNamed
<1>10. EntriesApart(SummaryEntries)
  <2> SUFFICES ASSUME NEW m \in DOMAIN chosen, NEW n \in DOMAIN chosen, m # n
               PROVE  SummaryEntries[m].name # SummaryEntries[n].name
    BY <1>7 DEF EntriesApart
  <2>1. chosen[m] # chosen[n]  BY <1>4 DEF IsInjective
  <2>2. chosen[m].dir # chosen[n].dir  BY <1>2, <1>6, <2>1
  <2>3. FolderHash(chosen[m].dir) # FolderHash(chosen[n].dir)  BY <2>2 DEF FolderHash
  <2> QED BY <1>8, <2>3
<1> QED BY <1>6, <1>7, <1>8, <1>9, <1>10

\* All entries of a picture pack are apart under forced naming.
LEMMA PicturesNamed ==
  ASSUME NameTypes
  PROVE  EntriesNamed(PictureEntries) /\ (Forced => EntriesApart(PictureEntries))
<1>1. PictureEntries = SummaryEntries \o OwnEntries  BY DEF PictureEntries, OwnEntries
<1>2. EntriesNamed(SummaryEntries) /\ EntriesNamed(OwnEntries)  BY SummaryNamed, OwnNamed
<1>3. ASSUME Forced, NEW m \in DOMAIN SummaryEntries, NEW n \in DOMAIN OwnEntries
      PROVE  SummaryEntries[m].name # OwnEntries[n].name
  <2>1. PICK file \in SourceFiles : SummaryEntries[m].name.stem[2] = Word(LabelOf[file.dir])
    BY SummaryNamed
  <2>2. OwnEntries[n].name.stem[2] = FolderHash(givenFiles[n].dir)  BY <1>3, OwnNamed
  <2>3. Word(LabelOf[file.dir]) # FolderHash(givenFiles[n].dir)  BY DEF Word, FolderHash
  <2> QED BY <2>1, <2>2, <2>3
<1> QED BY <1>1, <1>2, <1>3, SummaryNamed, OwnNamed, EntriesJoined

LEMMA Collect_Inv == ASSUME NameInv, Collect PROVE NameInv'
<1>1. /\ namingStep = "enter" /\ namingStep' = "add" /\ toPack' = EntriesFor(request.work)
      /\ UNCHANGED <<request, givenFiles, outputOf, nameRounds, inArchive>>
  BY DEF Collect
<1>2. NameTypes /\ toPack = <<>> /\ inArchive = <<>>
  BY <1>1 DEF NameInv, ArchiveInv
<1>3. request.work \in {"pack", "packonly", "pictures"}
  BY <1>1, <1>2 DEF NameTypes, Requests
<1>4. EntriesNamed(toPack') /\ (Forced => EntriesApart(toPack'))
  <2>1. CASE request.work = "pack"
    BY <1>1, <2>1, VideosNamed DEF EntriesFor
  <2>2. CASE request.work = "packonly"
    BY <1>1, <1>2, <2>2, GivenNamed DEF EntriesFor
  <2>3. CASE request.work = "pictures"
    BY <1>1, <1>2, <2>3, PicturesNamed DEF EntriesFor
  <2> QED BY <1>3, <2>1, <2>2, <2>3
<1>5. NameTypes'  BY <1>1, <1>2 DEF NameTypes
<1>6. OutputsInv'
  <2>1. OutputsPlanned' <=> OutputsPlanned  BY <1>1 DEF OutputsPlanned, ForVideos
  <2> QED BY <1>1, <2>1, OutputsStay DEF NameInv
<1>7. ArchiveInv'
  <2>1. DOMAIN inArchive' = {} /\ IsStem(inArchive')
    <3>1. inArchive' = <<>>  BY <1>1, <1>2
    <3>2. <<>> \in Seq({}) /\ DOMAIN <<>> = {}  OBVIOUS
    <3>3. IsStem(<<>>)  BY <3>2, StemIsSeq
    <3> QED BY <3>1, <3>2, <3>3
  <2>2. IsInjective(inArchive')  BY <2>1 DEF IsInjective
  <2>3. Forced' <=> Forced  BY <1>1 DEF Forced
  <2> QED BY <1>1, <1>4, <2>1, <2>2, <2>3 DEF ArchiveInv
<1> QED BY <1>5, <1>6, <1>7 DEF NameInv

\* makeUniqueZipEntryName ends: one of the alternatives is not in use.
LEMMA NameIsFree ==
  ASSUME IsStem(inArchive), NEW entry, IsPath(entry.name)
  PROVE  FirstFree(Alternatives(entry)) \notin Range(inArchive)
<1> DEFINE hashed == Suffixed(entry.name, HashOf(entry.path))
           N == Len(inArchive)
           numbered == [n \in 1..N |-> Suffixed(hashed, Numeral(n))]
           names == <<entry.name, hashed>> \o numbered
<1>1. N \in Nat /\ DOMAIN inArchive = 1..N  BY DEF IsStem
<1>2. IsPath(hashed)  BY SuffixedNames
<1> HIDE DEF hashed, N
<1>3. \A n \in 1..N : /\ LastWord(numbered[n]) = Numeral(n)
                      /\ Len(numbered[n].stem) = Len(hashed.stem) + 1 /\ Len(hashed.stem) \in Nat
  BY <1>2, SuffixedNames
<1>4. /\ \A m, n \in 1..N : m # n => numbered[m] # numbered[n]
      /\ \A n \in 1..N : numbered[n] # hashed
  <2>1. \A m, n \in 1..N : m # n => Numeral(m) # Numeral(n)  BY DEF Numeral
  <2> HIDE DEF numbered
  <2> QED BY <1>3, <2>1
<1>5. DOMAIN numbered = 1..N /\ numbered = [n \in 1..N |-> numbered[n]]  OBVIOUS
<1>6. \E free : free \notin Range(inArchive) /\ (free = hashed \/ \E n \in 1..N : free = numbered[n])
  <2> SUFFICES ASSUME hashed \in Range(inArchive), \A n \in 1..N : numbered[n] \in Range(inArchive)
               PROVE  FALSE
    OBVIOUS
  <2>1. IsFiniteSet(Range(inArchive)) /\ Cardinality(Range(inArchive)) <= N
    <3>1. inArchive \in Surjection(1..N, Range(inArchive))
      <4>1. inArchive \in Seq(Range(inArchive))  BY DEF IsStem
      <4>2. inArchive \in [1..N -> Range(inArchive)]  BY <1>1, <4>1
      <4>3. \A y \in Range(inArchive) : \E n \in 1..N : inArchive[n] = y  BY <1>1 DEF Range
      <4> QED BY <4>2, <4>3 DEF Surjection
    <3>2. IsFiniteSet(1..N) /\ Cardinality(1..N) = N  BY <1>1, FS_Interval
    <3> QED BY <3>1, <3>2, FS_Surjection
  <2> DEFINE g == [n \in 0..N |-> IF n = 0 THEN hashed ELSE numbered[n]]
  <2>2. g \in Injection(0..N, Range(inArchive))
    <3>1. \A n \in 0..N : n # 0 => n \in 1..N  BY <1>1
    <3>2. g \in [0..N -> Range(inArchive)]
      <4> HIDE DEF numbered
      <4> QED BY <3>1
    <3>3. \A m, n \in 0..N : g[m] = g[n] => m = n
      <4> HIDE DEF numbered
      <4> QED BY <1>4, <3>1
    <3> HIDE DEF g
    <3> QED BY <3>2, <3>3 DEF Injection, IsInjective
  <2>3. IsFiniteSet(0..N) /\ Cardinality(0..N) = N + 1  BY <1>1, FS_Interval
  <2>4. Cardinality(0..N) <= Cardinality(Range(inArchive))
    BY <2>1, <2>2, FS_Injection
  <2>5. Cardinality(Range(inArchive)) \in Nat  BY <2>1, FS_CardinalityType
  <2> QED BY <1>1, <2>1, <2>3, <2>4, <2>5
<1>7. /\ Len(names) = N + 2 /\ names[2] = hashed
      /\ \A n \in 1..N : n + 2 \in 1..Len(names) /\ names[n + 2] = numbered[n]
  <2>1. numbered \in Seq(Range(numbered)) /\ Len(numbered) = N
    <3> HIDE DEF numbered
    <3> QED BY <1>1, <1>5, EntriesListed
  <2> DEFINE W == Range(numbered) \cup {entry.name, hashed}
  <2>2. numbered \in Seq(W) /\ entry.name \in W /\ hashed \in W  BY <2>1
  <2> HIDE DEF W, numbered
  <2>3. <<entry.name, hashed>> \in Seq(W)  BY <2>2
  <2> QED BY <1>1, <2>1, <2>2, <2>3
<1> DEFINE I == {n \in 1..Len(names) : names[n] \notin Range(inArchive)}
<1> HIDE DEF names, numbered
<1>8. I # {}
  <2>1. 2 \in 1..Len(names)  BY <1>1, <1>7
  <2>2. PICK free : /\ free \notin Range(inArchive)
                    /\ free = hashed \/ \E n \in 1..N : free = numbered[n]
    BY <1>6
  <2>3. CASE free = hashed  BY <1>7, <2>1, <2>2, <2>3
  <2>4. CASE \E n \in 1..N : free = numbered[n]
    <3>1. PICK n \in 1..N : free = numbered[n]  BY <2>4
    <3>2. n + 2 \in I  BY <1>7, <2>2, <3>1
    <3> QED BY <3>2
  <2> QED BY <2>2, <2>3, <2>4
<1>9. Min(I) \in I
  <2>1. I \in SUBSET Nat  BY <1>1, <1>7
  <2> HIDE DEF I
  <2>2. \E n \in I : \A k \in I : n <= k  BY <1>8, <2>1, LeastNumber
  <2> QED BY <2>2 DEF Min
<1>10. FirstFree(names) = names[Min(I)]
  BY <1>8 DEF FirstFree, SelectInSeq
<1>11. Alternatives(entry) = names
  BY DEF Alternatives, names, numbered, hashed, N
<1> QED BY <1>9, <1>10, <1>11

LEMMA AddNamed_Inv == ASSUME NameInv, AddNamed PROVE NameInv'
<1>1. /\ namingStep = "add" /\ toPack # <<>> /\ toPack' = Tail(toPack)
      /\ UNCHANGED <<request, givenFiles, outputOf, nameRounds, namingStep>>
  BY DEF AddNamed
<1> DEFINE name == IF request.full THEN FirstFree(Alternatives(Head(toPack))) ELSE Head(toPack).name
<1>2. inArchive' = Append(inArchive, name)  BY DEF AddNamed
<1>3. NameTypes'  BY <1>1 DEF NameInv, NameTypes
<1>4. OutputsInv'
  <2>1. OutputsPlanned' <=> OutputsPlanned  BY <1>1 DEF OutputsPlanned, ForVideos
  <2> QED BY <1>1, <2>1, OutputsStay DEF NameInv
<1>5. ArchiveInv  BY DEF NameInv
<1>6. /\ toPack \in Seq(Range(toPack)) /\ Len(toPack) \in Nat \ {0}
      /\ DOMAIN toPack = 1..Len(toPack)
  BY <1>1, <1>5 DEF ArchiveInv, EntriesNamed
<1>7. /\ Head(toPack) = toPack[1] /\ 1 \in DOMAIN toPack
      /\ toPack' \in Seq(Range(toPack)) /\ DOMAIN toPack' = 1..(Len(toPack) - 1)
      /\ \A n \in DOMAIN toPack' : n + 1 \in DOMAIN toPack /\ toPack'[n] = toPack[n + 1]
      /\ \A n \in DOMAIN toPack' : n + 1 # 1
  <2>1. Head(toPack) = toPack[1] /\ 1 \in DOMAIN toPack  BY <1>6
  <2>2. /\ Tail(toPack) \in Seq(Range(toPack)) /\ Len(Tail(toPack)) = Len(toPack) - 1
        /\ \A n \in 1..(Len(toPack) - 1) : Tail(toPack)[n] = toPack[n + 1]
    BY <1>1, <1>6
  <2>3. DOMAIN Tail(toPack) = 1..(Len(toPack) - 1)  BY <2>2
  <2> QED BY <1>1, <1>6, <2>1, <2>2, <2>3
<1>8. EntriesNamed(toPack')
  <2>1. toPack' \in Seq(Range(toPack'))  BY <1>7, StemIsSeq DEF IsStem
  <2>2. \A n \in DOMAIN toPack' : IsPath(toPack'[n].name)
    BY <1>5, <1>7 DEF ArchiveInv, EntriesNamed
  <2> QED BY <2>1, <2>2 DEF EntriesNamed
<1> HIDE DEF name
<1>9. /\ IsStem(inArchive') /\ DOMAIN inArchive = 1..Len(inArchive)
      /\ DOMAIN inArchive' = 1..(Len(inArchive) + 1) /\ Len(inArchive) \in Nat
      /\ inArchive'[Len(inArchive) + 1] = name
      /\ \A n \in DOMAIN inArchive : inArchive'[n] = inArchive[n]
  <2>1. IsStem(inArchive)  BY <1>5 DEF ArchiveInv
  <2>2. DOMAIN inArchive = 1..Len(inArchive) /\ Len(inArchive) \in Nat  BY <2>1 DEF IsStem
  <2>3. IsStem(inArchive') /\ Len(inArchive') = Len(inArchive) + 1
        /\ inArchive'[Len(inArchive) + 1] = name
        /\ \A n \in 1..Len(inArchive) : inArchive'[n] = inArchive[n]
    BY <1>2, <2>1, WordAdded
  <2>4. DOMAIN inArchive' = 1..Len(inArchive')  BY <2>3 DEF IsStem
  <2> QED BY <2>2, <2>3, <2>4
<1>10. ASSUME IsInjective(inArchive), name \notin Range(inArchive)
       PROVE  IsInjective(inArchive')
  <2> SUFFICES ASSUME NEW m \in DOMAIN inArchive', NEW n \in DOMAIN inArchive',
                      inArchive'[m] = inArchive'[n]
               PROVE  m = n
    BY DEF IsInjective
  <2>1. \A k \in DOMAIN inArchive' : k \in DOMAIN inArchive \/ k = Len(inArchive) + 1
    BY <1>9
  <2>2. \A k \in DOMAIN inArchive : inArchive'[k] \in Range(inArchive)
    BY <1>9 DEF Range
  <2>3. CASE m \in DOMAIN inArchive /\ n \in DOMAIN inArchive
    BY <1>9, <1>10, <2>3 DEF IsInjective
  <2>4. CASE m = Len(inArchive) + 1 \/ n = Len(inArchive) + 1
    BY <1>9, <1>10, <2>1, <2>2, <2>4
  <2> QED BY <2>1, <2>3, <2>4
<1>11. ASSUME request.full PROVE IsInjective(inArchive')
  <2>1. name = FirstFree(Alternatives(Head(toPack)))  BY <1>11 DEF name
  <2>2. IsPath(Head(toPack).name) /\ IsStem(inArchive) /\ IsInjective(inArchive)
    BY <1>5, <1>7, <1>11 DEF ArchiveInv, EntriesNamed
  <2> QED BY <1>10, <2>1, <2>2, NameIsFree
<1>12. ASSUME Forced, ~request.full
       PROVE  /\ IsInjective(inArchive') /\ EntriesApart(toPack')
              /\ \A m \in DOMAIN inArchive', n \in DOMAIN toPack' : inArchive'[m] # toPack'[n].name
  <2>1. name = toPack[1].name  BY <1>7, <1>12 DEF name
  <2>2. /\ IsInjective(inArchive) /\ EntriesApart(toPack)
        /\ \A m \in DOMAIN inArchive, n \in DOMAIN toPack : inArchive[m] # toPack[n].name
    BY <1>5, <1>12 DEF ArchiveInv
  <2>3. name \notin Range(inArchive)  BY <1>7, <2>1, <2>2 DEF Range
  <2>4. IsInjective(inArchive')  BY <1>10, <2>2, <2>3
  <2>5. EntriesApart(toPack')
    <3> SUFFICES ASSUME NEW m \in DOMAIN toPack', NEW n \in DOMAIN toPack', m # n
                 PROVE  toPack'[m].name # toPack'[n].name
      BY DEF EntriesApart
    <3>1. m + 1 # n + 1  BY <1>7
    <3> QED BY <1>7, <2>2, <3>1 DEF EntriesApart
  <2>6. ASSUME NEW m \in DOMAIN inArchive', NEW n \in DOMAIN toPack'
        PROVE  inArchive'[m] # toPack'[n].name
    <3>1. n + 1 \in DOMAIN toPack /\ toPack'[n] = toPack[n + 1] /\ n + 1 # 1  BY <1>7
    <3>2. CASE m \in DOMAIN inArchive  BY <1>9, <2>2, <3>1, <3>2
    <3>3. CASE m \notin DOMAIN inArchive
      <4>1. inArchive'[m] = name
        <5>1. m = Len(inArchive) + 1  BY <1>9, <3>3
        <5> QED BY <1>9, <5>1
      <4> QED BY <1>7, <2>1, <2>2, <3>1, <4>1 DEF EntriesApart
    <3> QED BY <3>2, <3>3
  <2> QED BY <2>4, <2>5, <2>6
<1>13. ArchiveInv'
  <2>1. Forced' <=> Forced  BY <1>1 DEF Forced
  <2>2. request' = request /\ namingStep' = "add"  BY <1>1
  <2> QED BY <1>8, <1>9, <1>11, <1>12, <2>1, <2>2 DEF ArchiveInv
<1> QED BY <1>3, <1>4, <1>13 DEF NameInv

LEMMA NamingStays == ASSUME NameInv, UNCHANGED namingVars PROVE NameInv'
<1>1. UNCHANGED <<request, givenFiles, outputOf, nameRounds, toPack, inArchive, namingStep>>
  BY DEF namingVars
<1>2. NameTypes'  BY <1>1 DEF NameInv, NameTypes, ForVideos
<1>3. OutputsInv'
  <2>1. OutputsPlanned' <=> OutputsPlanned  BY <1>1 DEF OutputsPlanned, ForVideos
  <2> QED BY <1>1, <2>1, OutputsStay DEF NameInv
<1>4. ArchiveInv'
  <2>1. Forced' <=> Forced  BY <1>1 DEF Forced
  <2> QED BY <1>1, <2>1 DEF ArchiveInv, NameInv
<1> QED BY <1>2, <1>3, <1>4 DEF NameInv

LEMMA CloseNamed_Inv == ASSUME NameInv, CloseNamed PROVE NameInv'
<1>1. /\ namingStep = "add" /\ toPack = <<>> /\ namingStep' = "named"
      /\ UNCHANGED <<request, givenFiles, outputOf, nameRounds, toPack, inArchive>>
  BY DEF CloseNamed
<1>2. NameTypes'  BY <1>1 DEF NameInv, NameTypes
<1>3. OutputsInv'
  <2>1. OutputsPlanned' <=> OutputsPlanned  BY <1>1 DEF OutputsPlanned, ForVideos
  <2> QED BY <1>1, <2>1, OutputsStay DEF NameInv
<1>4. ArchiveInv'
  <2>1. Forced' <=> Forced  BY <1>1 DEF Forced
  <2> QED BY <1>1, <2>1 DEF ArchiveInv, NameInv
<1> QED BY <1>2, <1>3, <1>4 DEF NameInv

LEMMA NamingStep_Inv == NameInv /\ [NamingNext]_namingVars => NameInv'
<1> SUFFICES ASSUME NameInv, [NamingNext]_namingVars PROVE NameInv'  OBVIOUS
<1>1. CASE Give  BY <1>1, Give_Inv
<1>2. CASE Plan  BY <1>2, Plan_Inv
<1>3. CASE Separate  BY <1>3, Separate_Inv
<1>4. CASE Collect  BY <1>4, Collect_Inv
<1>5. CASE AddNamed  BY <1>5, AddNamed_Inv
<1>6. CASE CloseNamed  BY <1>6, CloseNamed_Inv
<1>7. CASE UNCHANGED namingVars  BY <1>7, NamingStays
<1> QED BY <1>1, <1>2, <1>3, <1>4, <1>5, <1>6, <1>7 DEF NamingNext

\* Whatever files are given and however they are called, no two videos share an output, a
\* forced name depends on its own input alone, a kept layout is kept, and no entry takes
\* the place of another (planVideoOutputFiles, ensureUniqueOutputPaths,
\* makeUniqueZipEntryName).
THEOREM NamesSound == NamingSpec => []NamesAreSound
<1>1. ASSUME NameInv PROVE NamesAreSound
  <2>1. OutputsAreApart
    <3>1. Cardinality(Range(givenFiles)) \in Nat  BY <1>1, GivenAreFiles DEF NameInv
    <3>2. CASE OutputsPlanned
      <4>1. Cardinality(Unmarked) \in Nat
        BY <1>1, GivenAreFiles, FS_Subset, FS_CardinalityType DEF NameInv, Unmarked
      <4>2. /\ nameRounds \in Nat
            /\ nameRounds + Cardinality(Unmarked) <= Cardinality(Range(givenFiles))
            /\ namingStep # "separate" => IsInjective(outputOf)
        BY <1>1, <3>2 DEF NameInv, OutputsInv
      <4>3. nameRounds <= Cardinality(Range(givenFiles))  BY <3>1, <4>1, <4>2
      <4> QED BY <4>2, <4>3 DEF OutputsAreApart
    <3>3. CASE ~OutputsPlanned
      <4>1. outputOf = <<>> /\ nameRounds = 0  BY <1>1, <3>3 DEF NameInv, OutputsInv
      <4>2. IsInjective(outputOf)
        <5>1. DOMAIN outputOf = {}  BY <4>1
        <5> QED BY <5>1 DEF IsInjective
      <4> QED BY <3>1, <4>1, <4>2 DEF OutputsAreApart
    <3> QED BY <3>2, <3>3
  <2>2. (namingStep = "named" /\ outputOf # <<>>) =>
          \A f \in Range(givenFiles) :
            /\ outputOf[f].dir = OutputDir(f)
            /\ ForcedVideo => outputOf[f] = ConflictHandled(f, CandidateOf(f))
    BY <1>1 DEF NameInv, OutputsInv
  <2>3. ForcedNamesAreStable  BY <2>2 DEF ForcedNamesAreStable
  <2>4. LayoutIsKept  BY <2>2 DEF LayoutIsKept, OutputDir
  <2>5. EveryEntryIsThere  BY <1>1 DEF EveryEntryIsThere, NameInv, ArchiveInv
  <2> QED BY <2>1, <2>3, <2>4, <2>5 DEF NamesAreSound
<1> QED BY <1>1, NamingInit_Inv, NamingStep_Inv, PTL DEF NamingSpec

-----------------------------------------------------------------------------
\* Whatever is asked for, the archives, the names and the clusters are as promised: each
\* part by itself, since no state is shared (packer.cpp, video_output_planning.cpp,
\* cluster.cpp).
THEOREM PlansSound == GroupingSpec /\ NamingSpec /\ LinkSpec => []PlansAreSound
BY PlansPack, NamesSound, LinkagesAreExact, PTL DEF PlansAreSound
=============================================================================
