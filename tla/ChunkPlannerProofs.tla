------------------------- MODULE ChunkPlannerProofs -------------------------
(***************************************************************************)
(* Theorems about ChunkPlanner, for any number of workers and chunks, any  *)
(* batch and any predictions.                                              *)
(*                                                                         *)
(* The chunks of a batch follow one another, so they share no row and take *)
(* all of them.  Giving one out adds one place to the lists and leaves the *)
(* others as they are: when all are given out each is in one place.  That  *)
(* holds for any loads; but a plan may be refused, and the loads stay      *)
(* finite because a chunk goes to the worker that would be done first,     *)
(* which is no later than one whose model predicts finite times.           *)
(*                                                                         *)
(* Assign and Imbalance are functions defined by recursion.  That they are *)
(* what their definitions say is no axiom: Recursion proves it.            *)
(***************************************************************************)
EXTENDS ChunkPlanner, TLAPS, WellFoundedInduction

-----------------------------------------------------------------------------
(* Numbers and recursion *)

\* A non-empty set of naturals has a least element.
LEMMA LeastNatural ==
  ASSUME NEW T \in SUBSET Nat, T # {}
  PROVE  \E x \in T : \A y \in T : x <= y
<1> DEFINE R == {ss \in Nat \X Nat : ss[1] < ss[2]}
<1>1. OpToRel(<, Nat) = R
  BY Zenon DEF OpToRel
<1>2. PICK x \in T : \A y \in T : ~ (<<y, x>> \in R)
  <2>1. IsWellFoundedOn(R, Nat)
    BY <1>1, NatLessThanWellFounded
  <2> HIDE DEF R
  <2> QED
    BY <2>1, WFMin
<1>3. ASSUME NEW y \in T PROVE x <= y
  <2>1. x \in Nat /\ y \in Nat
    OBVIOUS
  <2>2. ~ (<<y, x>> \in R)
    BY <1>2
  <2>3. ~ (y < x)
    BY <2>1, <2>2
  <2> QED
    BY <2>1, <2>3
<1> QED
  BY <1>3

\* What holds at the beginning and goes on from one number to the next holds up
\* to the end: Good is the set of the numbers of which it holds.
LEMMA StepByStep ==
  ASSUME NEW N \in Nat, NEW Good, 0 \in Good,
         \A m \in 1 .. N : m - 1 \in Good => m \in Good
  PROVE  \A m \in 0 .. N : m \in Good
<1> DEFINE Bad == {m \in Nat : m <= N /\ m \notin Good}
<1>1. SUFFICES ASSUME Bad # {} PROVE FALSE
  OBVIOUS
<1>2. PICK m \in Bad : \A y \in Bad : m <= y
  <2>1. Bad \in SUBSET Nat
    OBVIOUS
  <2> HIDE DEF Bad
  <2> QED
    BY <1>1, <2>1, LeastNatural
<1>3. m # 0 /\ m - 1 \in Nat /\ m - 1 \notin Bad
  BY <1>2
<1> QED
  BY <1>2, <1>3

\* A beginning in S and steps that stay in S, and what they lead through.
HasSteps(S, base, N, step) ==
  base \in S /\ N \in Nat /\ step \in [1 .. N -> [S -> S]]

StepsThrough(f, S, base, N, step) ==
  /\ f \in [0 .. N -> S] /\ f[0] = base
  /\ \A n \in 1 .. N : f[n] = step[n][f[n - 1]]

\* With a beginning and a step there is a sequence of steps of any length.
LEMMA Recursion ==
  ASSUME NEW S, NEW base, NEW N, NEW step, HasSteps(S, base, N, step)
  PROVE  \E f : StepsThrough(f, S, base, N, step)
<1>0. base \in S /\ N \in Nat /\ step \in [1 .. N -> [S -> S]]
  BY DEF HasSteps
<1> DEFINE Steps(f, m) ==
             f \in [0 .. m -> S] /\ f[0] = base /\ \A n \in 1 .. m : f[n] = step[n][f[n - 1]]
           Good == {m \in 0 .. N : \E f : Steps(f, m)}
<1>1. 0 \in Good
  <2> DEFINE g == [n \in 0 .. 0 |-> base]
  <2>1. Steps(g, 0)
    BY <1>0
  <2> HIDE DEF g, Steps
  <2> QED
    BY <1>0, <2>1
<1>2. ASSUME NEW m \in 1 .. N, m - 1 \in Good PROVE m \in Good
  <2>1. PICK f : Steps(f, m - 1)
    BY <1>2
  <2>2. m - 1 \in Nat /\ m \in Nat /\ m - 1 \in 0 .. m - 1 /\ 0 \in 0 .. m - 1
    BY <1>0
  <2>3. f[m - 1] \in S /\ f \in [0 .. m - 1 -> S]
    BY <2>1, <2>2
  <2>4. PICK s \in S : s = step[m][f[m - 1]]
    <3>1. step[m] \in [S -> S]
      BY <1>0
    <3> QED
      BY <2>3, <3>1
  <2> DEFINE g == [n \in 0 .. m |-> IF n = m THEN s ELSE f[n]]
  <2>5. g \in [0 .. m -> S]
    <3>1. ASSUME NEW n \in 0 .. m, n # m PROVE f[n] \in S
      BY <2>2, <2>3, <3>1
    <3> QED
      BY <2>4, <3>1
  <2>6. g[0] = base
    <3>1. 0 \in 0 .. m /\ m # 0
      BY <1>0
    <3>2. f[0] = base
      BY <2>1
    <3> QED
      BY <3>1, <3>2
  <2>7. ASSUME NEW n \in 1 .. m PROVE g[n] = step[n][g[n - 1]]
    <3>1. n \in 0 .. m /\ n - 1 \in 0 .. m /\ n - 1 # m
      BY <2>2
    <3>2. g[n - 1] = f[n - 1]
      BY <3>1
    <3>3. CASE n = m
      BY <2>4, <3>1, <3>2, <3>3
    <3>4. CASE n # m
      <4>1. n \in 1 .. m - 1
        BY <2>2, <3>4
      <4>2. g[n] = f[n]
        BY <3>1, <3>4
      <4> QED
        BY <2>1, <3>2, <4>1, <4>2
    <3> QED
      BY <3>3, <3>4
  <2>8. Steps(g, m)
    BY <2>5, <2>6, <2>7
  <2> HIDE DEF g, Steps
  <2> QED
    BY <2>8
<1>3. N \in Good
  <2> HIDE DEF Good
  <2>1. \A m \in 0 .. N : m \in Good
    BY <1>0, <1>1, <1>2, StepByStep
  <2> QED
    BY <1>0, <2>1
<1> QED
  BY <1>3 DEF StepsThrough

\* Of a table of times that are not all infinite, one is the least.
LEMMA LeastTime ==
  ASSUME NEW hi \in Nat, NEW D \in SUBSET (0 .. hi), NEW key \in [D -> Int \cup {Infinite}],
         \E x \in D : key[x] # Infinite
  PROVE  \E x \in D : key[x] # Infinite
           /\ \A y \in D : key[y] # Infinite => key[x] <= key[y]
<1> DEFINE Finite(m) == {x \in D : x <= m /\ key[x] # Infinite}
           Good == {m \in 0 .. hi : Finite(m) # {} =>
                      \E x \in Finite(m) : \A y \in Finite(m) : key[x] <= key[y]}
<1>1. 0 \in Good
  <2>1. ASSUME NEW x \in Finite(0), NEW y \in Finite(0) PROVE key[x] <= key[y]
    <3>1. x = y /\ key[x] \in Int
      OBVIOUS
    <3> QED
      BY <3>1
  <2>2. 0 \in 0 .. hi
    OBVIOUS
  <2> HIDE DEF Finite
  <2> QED
    BY <2>1, <2>2
<1>2. ASSUME NEW m \in 1 .. hi, m - 1 \in Good PROVE m \in Good
  <2>1. SUFFICES ASSUME Finite(m) # {}
                 PROVE  \E x \in Finite(m) : \A y \in Finite(m) : key[x] <= key[y]
    OBVIOUS
  <2>2. /\ \A x \in Finite(m) : x \in Finite(m - 1) \/ x = m
        /\ \A x \in Finite(m - 1) : x \in Finite(m)
        /\ \A x \in Finite(m) : key[x] \in Int
    OBVIOUS
  <2>3. Finite(m - 1) # {} => \E x \in Finite(m - 1) : \A y \in Finite(m - 1) : key[x] <= key[y]
    BY <1>2
  <2> HIDE DEF Finite
  <2>4. CASE Finite(m - 1) = {}
    <3>1. \A x \in Finite(m) : x = m
      BY <2>2, <2>4
    <3> QED
      BY <2>1, <2>2, <3>1
  <2>5. CASE Finite(m - 1) # {}
    <3>1. PICK x \in Finite(m - 1) : \A y \in Finite(m - 1) : key[x] <= key[y]
      BY <2>3, <2>5
    <3>2. CASE m \in Finite(m) /\ key[m] < key[x]
      <4>1. ASSUME NEW y \in Finite(m) PROVE key[m] <= key[y]
        <5>1. key[y] \in Int /\ key[m] \in Int /\ key[x] \in Int
          BY <2>2, <3>2
        <5> QED
          BY <2>2, <3>1, <3>2, <5>1
      <4> QED
        BY <3>2, <4>1
    <3>3. CASE ~ (m \in Finite(m) /\ key[m] < key[x])
      <4>1. ASSUME NEW y \in Finite(m) PROVE key[x] <= key[y]
        <5>1. key[y] \in Int /\ key[x] \in Int
          BY <2>2
        <5> QED
          BY <2>2, <3>1, <3>3, <5>1
      <4> QED
        BY <2>2, <4>1
    <3> QED
      BY <3>2, <3>3
  <2> QED
    BY <2>4, <2>5
<1>3. hi \in Good
  <2> HIDE DEF Good
  <2>1. \A m \in 0 .. hi : m \in Good
    BY <1>1, <1>2, StepByStep
  <2> QED
    BY <2>1
<1>4. ASSUME NEW x \in D PROVE key[x] # Infinite <=> x \in Finite(hi)
  <2>1. x <= hi
    OBVIOUS
  <2> QED
    BY <2>1
<1>5. Finite(hi) # {} =>
        \E x \in Finite(hi) : \A y \in Finite(hi) : key[x] <= key[y]
  BY <1>3
<1>6. Finite(hi) \subseteq D
  OBVIOUS
<1> HIDE DEF Finite
<1> QED
  BY <1>4, <1>5, <1>6

\* The entry FirstLeast names is there and is not infinite; 0 stands for none.
LEMMA FirstLeastFinds ==
  ASSUME NEW D \in SUBSET Nat, NEW key, DOMAIN key = D
  PROVE  FirstLeast(key) = 0 \/ (FirstLeast(key) \in D /\ key[FirstLeast(key)] # Infinite)
<1> DEFINE least == {x \in {z \in D : key[z] # Infinite} :
                       \A y \in {z \in D : key[z] # Infinite} : key[x] <= key[y]}
<1>1. FirstLeast(key) = IF least = {} THEN 0 ELSE Min(least)
  BY DEF FirstLeast
<1>2. least # {} => Min(least) \in least
  <2>1. least \in SUBSET Nat
    OBVIOUS
  <2> HIDE DEF least
  <2> QED
    BY <2>1, LeastNatural DEF Min
<1>3. \A x \in least : x \in D /\ key[x] # Infinite
  OBVIOUS
<1> HIDE DEF least
<1> QED
  BY <1>1, <1>2, <1>3

\* It names one if there is one.
LEMMA FirstLeastExists ==
  ASSUME NEW hi \in Nat, NEW D \in SUBSET (0 .. hi), NEW key \in [D -> Int \cup {Infinite}],
         \E x \in D : key[x] # Infinite
  PROVE  FirstLeast(key) \in D /\ key[FirstLeast(key)] # Infinite
<1> DEFINE least == {x \in {z \in D : key[z] # Infinite} :
                       \A y \in {z \in D : key[z] # Infinite} : key[x] <= key[y]}
<1>1. FirstLeast(key) = IF least = {} THEN 0 ELSE Min(least)
  BY DEF FirstLeast
<1>2. least # {}
  BY LeastTime
<1>3. Min(least) \in least
  <2>1. least \in SUBSET Nat
    <3>1. D \in SUBSET Nat
      OBVIOUS
    <3> QED
      BY <3>1
  <2> HIDE DEF least
  <2> QED
    BY <1>2, <2>1, LeastNatural DEF Min
<1>4. \A x \in least : x \in D /\ key[x] # Infinite
  OBVIOUS
<1> HIDE DEF least
<1> QED
  BY <1>1, <1>2, <1>3, <1>4

-----------------------------------------------------------------------------
(* Splitting a batch *)

\* Division with remainder, for at most as many chunks as rows.
LEMMA Division ==
  ASSUME NEW total \in Nat, NEW n \in 1 .. total
  PROVE  /\ total \div n \in Nat \ {0} /\ total % n \in 0 .. n - 1
         /\ total = n * (total \div n) + (total % n)
<1>1. total \div n \in Nat /\ total % n \in 0 .. n - 1
  OBVIOUS
<1>2. total = n * (total \div n) + (total % n)
  OBVIOUS
<1>3. total \div n # 0
  BY <1>1, <1>2
<1> QED
  BY <1>1, <1>2, <1>3

Chunks(total) == [start : Nat, size : 1 .. total]

\* The chunks of a batch follow one another from the first row to the last, and
\* none is empty.
LEMMA SplitFollows ==
  ASSUME NEW total \in Nat, NEW n \in 1 .. total
  PROVE  /\ Split(total, n) \in Seq(Chunks(total)) /\ Len(Split(total, n)) = n
         /\ \A i \in 1 .. n : Split(total, n)[i] \in Chunks(total)
         /\ Split(total, n)[1].start = 0
         /\ \A i \in 2 .. n : Split(total, n)[i].start
                               = Split(total, n)[i - 1].start + Split(total, n)[i - 1].size
         /\ Split(total, n)[n].start + Split(total, n)[n].size = total
<1> DEFINE q == total \div n
           r == total % n
           start(i) == (i - 1) * q + Least(i - 1, r)
           size(i) == q + (IF i <= r THEN 1 ELSE 0)
<1>1. q \in Nat \ {0} /\ r \in 0 .. n - 1 /\ total = n * q + r
  BY Division
<1>2. Split(total, n) = [i \in 1 .. n |-> [start |-> start(i), size |-> size(i)]]
  BY DEF Split
<1> HIDE DEF q, r
<1>3. ASSUME NEW i \in 1 .. n PROVE start(i) \in Nat /\ size(i) \in 1 .. total
  <2>1. (i - 1) * q \in Nat
    BY <1>1
  <2>2. start(i) \in Nat
    BY <1>1, <2>1 DEF Least
  <2>3. q <= n * q
    BY <1>1
  <2>4. size(i) \in 1 .. total
    <3>1. n * q \in Nat
      BY <1>1
    <3> QED
      BY <1>1, <2>3, <3>1
  <2> QED
    BY <2>2, <2>4
<1>4. start(1) = 0
  <2>1. 0 * q = 0 /\ 1 - 1 = 0
    BY <1>1
  <2> QED
    BY <1>1, <2>1 DEF Least
<1>5. ASSUME NEW i \in 2 .. n PROVE start(i) = start(i - 1) + size(i - 1)
  <2>1. (i - 1) * q = (i - 1 - 1) * q + q
    BY <1>1
  <2>2. (i - 1 - 1) * q \in Nat
    BY <1>1
  <2> QED
    BY <1>1, <2>1, <2>2 DEF Least
<1>6. start(n) + size(n) = total
  <2>1. (n - 1) * q + q = n * q /\ (n - 1) * q \in Nat
    BY <1>1
  <2> QED
    BY <1>1, <2>1 DEF Least
<1> HIDE DEF start, size
<1>7. \A i \in 1 .. n : Split(total, n)[i] = [start |-> start(i), size |-> size(i)]
  BY <1>2
<1>8. Split(total, n) \in Seq(Chunks(total)) /\ Len(Split(total, n)) = n
  BY <1>2, <1>3 DEF Chunks
<1>9. \A i \in 1 .. n : Split(total, n)[i] \in Chunks(total)
  <2>1. ASSUME NEW i \in 1 .. n PROVE Split(total, n)[i] \in Chunks(total)
    <3>1. Split(total, n)[i] = [start |-> start(i), size |-> size(i)]
      BY <1>7
    <3> QED
      BY <1>3, <3>1 DEF Chunks
  <2> QED
    BY <2>1
<1> QED
  BY <1>4, <1>5, <1>6, <1>7, <1>8, <1>9

\* A chunk ends where a later one begins, or before.
LEMMA LaterChunks ==
  ASSUME NEW total \in Nat, NEW n \in 1 .. total, NEW i \in 1 .. n, NEW j \in 1 .. n, i < j
  PROVE  Split(total, n)[i].start + Split(total, n)[i].size <= Split(total, n)[j].start
<1> DEFINE c == Split(total, n)
           Good == {m \in 0 .. n : m > i => c[i].start + c[i].size <= c[m].start}
<1>1. /\ \A m \in 1 .. n : c[m].start \in Nat /\ c[m].size \in Nat
      /\ \A m \in 2 .. n : c[m].start = c[m - 1].start + c[m - 1].size
  <2>1. \A m \in 1 .. n : c[m] \in Chunks(total)
    BY SplitFollows
  <2>2. \A m \in 2 .. n : c[m].start = c[m - 1].start + c[m - 1].size
    BY SplitFollows
  <2> HIDE DEF c
  <2>3. \A m \in 1 .. n : c[m].start \in Nat /\ c[m].size \in Nat
    BY <2>1 DEF Chunks
  <2> QED
    BY <2>2, <2>3
<1> HIDE DEF c
<1>2. 0 \in Good
  OBVIOUS
<1>3. ASSUME NEW m \in 1 .. n, m - 1 \in Good PROVE m \in Good
  BY <1>1, <1>3
<1>4. j \in Good
  <2> HIDE DEF Good
  <2>1. \A m \in 0 .. n : m \in Good
    BY <1>2, <1>3, StepByStep
  <2> QED
    BY <2>1
<1> QED
  BY <1>4 DEF c

RowsOfChunk(c) == c.start .. c.start + c.size - 1

\* Every row is in a chunk, every chunk has rows of the batch, and different
\* chunks have different rows.
LEMMA SplitPartitions ==
  ASSUME NEW total \in Nat, NEW n \in 1 .. total
  PROVE  LET c == Split(total, n) IN
         /\ \A i \in 1 .. n : RowsOfChunk(c[i]) # {} /\ RowsOfChunk(c[i]) \subseteq 0 .. total - 1
         /\ \A i, j \in 1 .. n : i # j => RowsOfChunk(c[i]) \cap RowsOfChunk(c[j]) = {}
         /\ \A row \in 0 .. total - 1 : \E i \in 1 .. n : row \in RowsOfChunk(c[i])
<1> DEFINE c == Split(total, n)
<1>1. /\ \A m \in 1 .. n : c[m].start \in Nat /\ c[m].size \in Nat \ {0}
      /\ c[1].start = 0
      /\ \A m \in 2 .. n : c[m].start = c[m - 1].start + c[m - 1].size
      /\ c[n].start + c[n].size = total
  <2>1. \A m \in 1 .. n : c[m] \in Chunks(total)
    BY SplitFollows
  <2>2. /\ c[1].start = 0 /\ c[n].start + c[n].size = total
        /\ \A m \in 2 .. n : c[m].start = c[m - 1].start + c[m - 1].size
    BY SplitFollows
  <2> HIDE DEF c
  <2> QED
    BY <2>1, <2>2 DEF Chunks
<1>2. \A i, j \in 1 .. n : i < j => c[i].start + c[i].size <= c[j].start
  BY LaterChunks
<1> HIDE DEF c
<1>3. ASSUME NEW i \in 1 .. n
      PROVE  RowsOfChunk(c[i]) # {} /\ RowsOfChunk(c[i]) \subseteq 0 .. total - 1
  <2>1. c[i].start \in RowsOfChunk(c[i])
    BY <1>1 DEF RowsOfChunk
  <2>2. c[i].start + c[i].size <= total
    BY <1>1, <1>2
  <2> QED
    BY <1>1, <2>1, <2>2 DEF RowsOfChunk
<1>4. ASSUME NEW i \in 1 .. n, NEW j \in 1 .. n, i # j
      PROVE  RowsOfChunk(c[i]) \cap RowsOfChunk(c[j]) = {}
  BY <1>1, <1>2, <1>4 DEF RowsOfChunk
<1>5. ASSUME NEW row \in 0 .. total - 1
      PROVE  \E i \in 1 .. n : row \in RowsOfChunk(c[i])
  <2> DEFINE T == {i \in 1 .. n : row < c[i].start + c[i].size}
  <2>1. n \in T /\ T \in SUBSET Nat
    BY <1>1
  <2>2. PICK i \in T : \A y \in T : i <= y
    <3> HIDE DEF T
    <3> QED
      BY <2>1, LeastNatural
  <2>3. c[i].start <= row
    <3>1. CASE i = 1
      BY <1>1, <3>1
    <3>2. CASE i # 1
      <4>1. i \in 2 .. n /\ i - 1 \in 1 .. n /\ i - 1 \notin T
        BY <2>2, <3>2
      <4> QED
        BY <1>1, <4>1
    <3> QED
      BY <3>1, <3>2
  <2> QED
    BY <1>1, <2>2, <2>3 DEF RowsOfChunk
<1> QED
  BY <1>3, <1>4, <1>5 DEF c

-----------------------------------------------------------------------------
(* Giving out the chunks *)

\* What has been dealt after some chunks, with loads in T.
Dealing(T, C) == [load : [Workers -> T], lists : [Workers -> Seq(C)]]

Costs(T, sizes) == [Workers -> [sizes -> T]]

\* The worker a chunk goes to.
BestWorker(dealt, c, cost, ahead) ==
  FirstLeast([v \in Workers |-> Plus(dealt.load[v], IF ahead THEN cost[v][c.size] ELSE 0)])

\* The lists when chunk c has gone to worker w.
Handed(lists, w, c) == [lists EXCEPT ![w] = Append(@, c)]

\* The loads when it has.
Loaded(load, w, c, cost) == [load EXCEPT ![w] = Plus(@, cost[w][c.size])]

\* T is closed under adding.
Adds(T) == 0 \in T /\ \A a, b \in T : Plus(a, b) \in T

\* What the worker that a chunk goes to has after it.
LEMMA GiveIs ==
  ASSUME NEW dealt, NEW c, NEW cost, NEW ahead
  PROVE  /\ Give(dealt, c, cost, ahead).lists
              = Handed(dealt.lists, BestWorker(dealt, c, cost, ahead), c)
         /\ Give(dealt, c, cost, ahead).load
              = Loaded(dealt.load, BestWorker(dealt, c, cost, ahead), c, cost)
BY DEF Give, BestWorker, Handed, Loaded

\* A chunk goes to one worker, whatever the loads are.
LEMMA GiveToOne ==
  ASSUME NEW T, Adds(T),
         NEW total \in Nat, NEW cost \in Costs(T, 1 .. total),
         NEW dealt \in Dealing(T, Chunks(total)), NEW c \in Chunks(total), NEW ahead
  PROVE  /\ BestWorker(dealt, c, cost, ahead) \in Workers
         /\ Give(dealt, c, cost, ahead) \in Dealing(T, Chunks(total))
<1> DEFINE w == BestWorker(dealt, c, cost, ahead)
<1>1. 0 \in Workers /\ Workers \in SUBSET Nat
  BY PlannerAssumption DEF Workers
<1>2. w \in Workers
  <2> DEFINE key == [v \in Workers |-> Plus(dealt.load[v], IF ahead THEN cost[v][c.size] ELSE 0)]
  <2>1. DOMAIN key = Workers /\ w = FirstLeast(key)
    BY DEF BestWorker
  <2> HIDE DEF key, w
  <2> QED
    BY <1>1, <2>1, FirstLeastFinds
<1>3. Give(dealt, c, cost, ahead)
        = [load |-> [dealt.load EXCEPT ![w] = Plus(@, cost[w][c.size])],
           lists |-> [dealt.lists EXCEPT ![w] = Append(@, c)]]
  BY DEF Give, BestWorker
<1> HIDE DEF w
<1>4. dealt.load \in [Workers -> T] /\ dealt.lists \in [Workers -> Seq(Chunks(total))]
  BY DEF Dealing
<1>5. cost[w][c.size] \in T
  <2>1. c.size \in 1 .. total /\ cost[w] \in [1 .. total -> T]
    BY <1>2 DEF Chunks, Costs
  <2> QED
    BY <2>1
<1>6. [dealt.load EXCEPT ![w] = Plus(@, cost[w][c.size])] \in [Workers -> T]
  BY <1>2, <1>4, <1>5 DEF Adds
<1>7. [dealt.lists EXCEPT ![w] = Append(@, c)] \in [Workers -> Seq(Chunks(total))]
  BY <1>2, <1>4
<1>8. [load |-> [dealt.load EXCEPT ![w] = Plus(@, cost[w][c.size])],
       lists |-> [dealt.lists EXCEPT ![w] = Append(@, c)]] \in Dealing(T, Chunks(total))
  BY <1>6, <1>7 DEF Dealing
<1> QED
  BY <1>2, <1>3, <1>8 DEF w

\* Giving out chunks stays in S, and f is one way to have given out the first N.
GivesWithin(S, N, chunks, cost, ahead) ==
  /\ NothingGiven \in S /\ N \in Nat
  /\ \A n \in 1 .. N, s \in S : Give(s, chunks[n], cost, ahead) \in S

GivenOut(f, S, N, chunks, cost, ahead) ==
  /\ f \in [0 .. N -> S]
  /\ f[0] = NothingGiven
  /\ \A n \in 1 .. N : f[n] = Give(f[n - 1], chunks[n], cost, ahead)

\* As long as giving out a chunk stays in S, all can be given out.
LEMMA GivingOut ==
  ASSUME NEW S, NEW N, NEW chunks, NEW cost, NEW ahead,
         GivesWithin(S, N, chunks, cost, ahead)
  PROVE  \E f : GivenOut(f, S, N, chunks, cost, ahead)
<1>0. /\ NothingGiven \in S /\ N \in Nat
      /\ \A n \in 1 .. N, s \in S : Give(s, chunks[n], cost, ahead) \in S
  BY DEF GivesWithin
<1>1. PICK step \in [1 .. N -> [S -> S]] :
        \A n \in 1 .. N, s \in S : step[n][s] = Give(s, chunks[n], cost, ahead)
  <2> DEFINE step == [n \in 1 .. N |-> [s \in S |-> Give(s, chunks[n], cost, ahead)]]
  <2>1. step \in [1 .. N -> [S -> S]]
    BY <1>0
  <2>2. \A n \in 1 .. N, s \in S : step[n][s] = Give(s, chunks[n], cost, ahead)
    OBVIOUS
  <2> HIDE DEF step
  <2> QED
    BY <2>1, <2>2
<1>2. PICK f \in [0 .. N -> S] :
        f[0] = NothingGiven /\ \A n \in 1 .. N : f[n] = step[n][f[n - 1]]
  <2>1. HasSteps(S, NothingGiven, N, step)
    BY <1>0 DEF HasSteps
  <2>2. PICK f : StepsThrough(f, S, NothingGiven, N, step)
    BY <2>1, Recursion
  <2> QED
    BY <2>2 DEF StepsThrough
<1>3. ASSUME NEW n \in 1 .. N PROVE f[n] = Give(f[n - 1], chunks[n], cost, ahead)
  <2>1. n - 1 \in 0 .. N
    BY <1>0
  <2>2. f[n - 1] \in S
    BY <2>1
  <2> QED
    BY <1>1, <1>2, <2>2
<1> QED
  BY <1>2, <1>3 DEF GivenOut

\* Assign gives the chunks out one by one.
LEMMA AssignSteps ==
  ASSUME NEW T, Adds(T),
         NEW total \in Nat, NEW cost \in Costs(T, 1 .. total), NEW ahead,
         NEW chunks \in Seq(Chunks(total))
  PROVE  \E f : /\ GivenOut(f, Dealing(T, Chunks(total)), Len(chunks), chunks, cost, ahead)
                /\ Assign(chunks, cost, ahead) = f[Len(chunks)]
<1> DEFINE N == Len(chunks)
           All == Dealing(T, Chunks(total))
           Rec(f) == [n \in 0 .. N |-> IF n = 0 THEN NothingGiven
                                       ELSE Give(f[n - 1], chunks[n], cost, ahead)]
<1>1. N \in Nat /\ \A n \in 1 .. N : chunks[n] \in Chunks(total)
  OBVIOUS
<1>2. NothingGiven \in All
  BY DEF NothingGiven, Nothing, Dealing, Adds
<1>3. \A n \in 1 .. N, s \in All : Give(s, chunks[n], cost, ahead) \in All
  BY <1>1, GiveToOne
<1>6. Assign(chunks, cost, ahead) = (CHOOSE f : f = Rec(f))[N]
  BY DEF Assign
<1> HIDE DEF N, All
<1>4. GivesWithin(All, N, chunks, cost, ahead)
  BY <1>1, <1>2, <1>3 DEF GivesWithin
<1>5. PICK f : GivenOut(f, All, N, chunks, cost, ahead)
  BY <1>4, GivingOut
<1>7. /\ f \in [0 .. N -> All] /\ f[0] = NothingGiven
      /\ \A n \in 1 .. N : f[n] = Give(f[n - 1], chunks[n], cost, ahead)
  BY <1>5 DEF GivenOut
<1>9. f = Rec(f)
  <2>1. ASSUME NEW n \in 0 .. N, n # 0 PROVE n \in 1 .. N
    BY <1>1, <2>1
  <2>2. \A n \in 0 .. N : f[n] = Rec(f)[n]
    BY <1>7, <2>1
  <2> QED
    BY <1>7, <2>2
<1> DEFINE g == CHOOSE h : h = Rec(h)
<1>10. g = Rec(g)
  BY <1>9
<1>11. g[0] = NothingGiven /\ \A n \in 1 .. N : g[n] = Give(g[n - 1], chunks[n], cost, ahead)
  <2> HIDE DEF g
  <2>1. 0 \in 0 .. N /\ \A n \in 1 .. N : n \in 0 .. N /\ n # 0
    BY <1>1
  <2> QED
    BY <1>10, <2>1
<1>12. g \in [0 .. N -> All]
  <2> DEFINE Good == {n \in 0 .. N : g[n] \in All}
  <2>1. 0 \in Good
    BY <1>1, <1>2, <1>11
  <2>2. ASSUME NEW n \in 1 .. N, n - 1 \in Good PROVE n \in Good
    <3> HIDE DEF g
    <3>1. g[n - 1] \in All /\ n \in 0 .. N
      BY <1>1, <2>2
    <3> QED
      BY <1>3, <1>11, <3>1
  <2>3. \A n \in 0 .. N : n \in Good
    <3> HIDE DEF Good
    <3> QED
      BY <1>1, <2>1, <2>2, StepByStep
  <2>4. DOMAIN g = 0 .. N /\ g = [n \in 0 .. N |-> g[n]]
    <3> HIDE DEF g
    <3> QED
      BY <1>10
  <2> HIDE DEF g
  <2> QED
    BY <2>3, <2>4
<1>13. Assign(chunks, cost, ahead) = g[N]
  BY <1>6
<1> HIDE DEF g
<1> QED
  BY <1>11, <1>12, <1>13 DEF GivenOut, N, All

-----------------------------------------------------------------------------
(* Every chunk is given out once *)

AtPlace(lists, p) == lists[p[1]][p[2]]

\* The chunks 1 .. m are in the lists, each in one place, and nothing else is.
DealtUpTo(lists, chunks, m) ==
  /\ \A p \in Places(lists) : \E i \in 1 .. m : AtPlace(lists, p) = chunks[i]
  /\ \A i \in 1 .. m : \E p \in Places(lists) : AtPlace(lists, p) = chunks[i]
  /\ \A p, q \in Places(lists) : AtPlace(lists, p) = AtPlace(lists, q) => p = q

\* A place is a worker and a place in its list.
LEMMA PlaceIs ==
  ASSUME NEW lists
  PROVE  /\ \A p \in Places(lists) :
              p[1] \in Workers /\ p[2] \in DOMAIN lists[p[1]] /\ p = <<p[1], p[2]>>
         /\ \A v \in Workers : \A i \in DOMAIN lists[v] : <<v, i>> \in Places(lists)
BY DEF Places

\* Appending to a list adds one place and leaves the others as they are.
LEMMA AppendAddsPlace ==
  ASSUME NEW C, NEW lists \in [Workers -> Seq(C)], NEW w \in Workers, NEW c \in C
  PROVE  LET after == Handed(lists, w, c)
             new == <<w, Len(lists[w]) + 1>>
         IN /\ Places(after) = Places(lists) \cup {new}
            /\ new \notin Places(lists)
            /\ AtPlace(after, new) = c
            /\ \A p \in Places(lists) : AtPlace(after, p) = AtPlace(lists, p)
<1> DEFINE after == Handed(lists, w, c)
           l == Len(lists[w])
           new == <<w, l + 1>>
<1>1. l \in Nat /\ lists[w] \in Seq(C) /\ DOMAIN lists[w] = 1 .. l
  OBVIOUS
<1>2. /\ after[w] = Append(lists[w], c)
      /\ \A v \in Workers : v # w => after[v] = lists[v]
  BY DEF Handed
<1> HIDE DEF after, l
<1>3. /\ DOMAIN after[w] = 1 .. l + 1 /\ after[w][l + 1] = c
      /\ \A i \in 1 .. l : after[w][i] = lists[w][i]
  BY <1>1, <1>2 DEF l
<1>4. l + 1 \notin DOMAIN lists[w] /\ l + 1 \in DOMAIN after[w]
  BY <1>1, <1>3
<1>5. ASSUME NEW p \in Places(after) PROVE p \in Places(lists) \cup {new}
  <2>1. p[1] \in Workers /\ p[2] \in DOMAIN after[p[1]] /\ p = <<p[1], p[2]>>
    BY PlaceIs
  <2>2. CASE p[1] # w
    <3>1. p[2] \in DOMAIN lists[p[1]]
      BY <1>2, <2>1, <2>2
    <3> QED
      BY <2>1, <3>1, PlaceIs
  <2>3. CASE p[1] = w /\ p[2] = l + 1
    BY <2>1, <2>3
  <2>4. CASE p[1] = w /\ p[2] # l + 1
    <3>1. p[2] \in 1 .. l
      BY <1>1, <1>3, <2>1, <2>4
    <3>2. p[2] \in DOMAIN lists[p[1]]
      BY <1>1, <2>4, <3>1
    <3> QED
      BY <2>1, <3>2, PlaceIs
  <2> QED
    BY <2>2, <2>3, <2>4
<1>6. ASSUME NEW p \in Places(lists)
      PROVE  p \in Places(after) /\ AtPlace(after, p) = AtPlace(lists, p)
  <2>1. p[1] \in Workers /\ p[2] \in DOMAIN lists[p[1]] /\ p = <<p[1], p[2]>>
    BY PlaceIs
  <2>2. CASE p[1] # w
    <3>1. after[p[1]] = lists[p[1]]
      BY <1>2, <2>1, <2>2
    <3> QED
      BY <2>1, <3>1, PlaceIs DEF AtPlace
  <2>3. CASE p[1] = w
    <3>1. p[2] \in 1 .. l /\ p[2] \in 1 .. l + 1
      BY <1>1, <2>1, <2>3
    <3>2. p[2] \in DOMAIN after[p[1]] /\ after[p[1]][p[2]] = lists[p[1]][p[2]]
      BY <1>3, <2>3, <3>1
    <3> QED
      BY <2>1, <3>2, PlaceIs DEF AtPlace
  <2> QED
    BY <2>2, <2>3
<1>7. new \in Places(after)
  BY <1>4, PlaceIs
<1>8. new \notin Places(lists)
  <2>1. new[1] = w /\ new[2] = l + 1
    OBVIOUS
  <2> HIDE DEF new
  <2> QED
    BY <1>4, <2>1, PlaceIs
<1>9. AtPlace(after, new) = c
  BY <1>3 DEF AtPlace
<1> HIDE DEF new
<1>10. Places(after) = Places(lists) \cup {new}
  BY <1>5, <1>6, <1>7
<1> QED
  BY <1>6, <1>8, <1>9, <1>10 DEF after, new, l

\* Giving out the next of the chunks.
LEMMA DealOneMore ==
  ASSUME NEW C, NEW N \in Nat, NEW chunks, NEW m \in 1 .. N,
         \A i \in 1 .. N : chunks[i] \in C,
         \A i, j \in 1 .. N : chunks[i] = chunks[j] => i = j,
         NEW lists \in [Workers -> Seq(C)], NEW w \in Workers,
         DealtUpTo(lists, chunks, m - 1)
  PROVE  DealtUpTo(Handed(lists, w, chunks[m]), chunks, m)
<1> DEFINE after == Handed(lists, w, chunks[m])
           new == <<w, Len(lists[w]) + 1>>
<1>1. /\ Places(after) = Places(lists) \cup {new}
      /\ AtPlace(after, new) = chunks[m]
      /\ \A p \in Places(lists) : AtPlace(after, p) = AtPlace(lists, p)
  <2>1. chunks[m] \in C
    OBVIOUS
  <2> QED
    BY <2>1, AppendAddsPlace
<1> HIDE DEF after, new
<1>2. /\ \A i \in 1 .. m - 1 : i \in 1 .. N /\ i \in 1 .. m /\ i # m
      /\ \A i \in 1 .. m : i = m \/ i \in 1 .. m - 1
      /\ m \in 1 .. m
  OBVIOUS
<1>3. /\ \A p \in Places(lists) : \E i \in 1 .. m - 1 : AtPlace(lists, p) = chunks[i]
      /\ \A i \in 1 .. m - 1 : \E p \in Places(lists) : AtPlace(lists, p) = chunks[i]
      /\ \A p, q \in Places(lists) : AtPlace(lists, p) = AtPlace(lists, q) => p = q
  BY DEF DealtUpTo
<1>4. \A p \in Places(lists) : AtPlace(lists, p) # chunks[m]
  BY <1>2, <1>3
<1>5. ASSUME NEW p \in Places(after) PROVE \E i \in 1 .. m : AtPlace(after, p) = chunks[i]
  <2>1. CASE p = new
    BY <1>1, <1>2, <2>1
  <2>2. CASE p \in Places(lists)
    <3>1. PICK i \in 1 .. m - 1 : AtPlace(lists, p) = chunks[i]
      BY <1>3, <2>2
    <3> QED
      BY <1>1, <1>2, <2>2, <3>1
  <2> QED
    BY <1>1, <2>1, <2>2
<1>6. \A i \in 1 .. m : \E p \in Places(after) : AtPlace(after, p) = chunks[i]
  BY <1>1, <1>2, <1>3
<1>7. \A p, q \in Places(after) : AtPlace(after, p) = AtPlace(after, q) => p = q
  BY <1>1, <1>3, <1>4
<1> QED
  BY <1>5, <1>6, <1>7 DEF DealtUpTo, after

\* The lists Assign makes of different chunks hold each of them once.
LEMMA AssignDeals ==
  ASSUME NEW T, Adds(T),
         NEW total \in Nat, NEW cost \in Costs(T, 1 .. total), NEW ahead,
         NEW chunks \in Seq(Chunks(total)),
         \A i, j \in 1 .. Len(chunks) : chunks[i] = chunks[j] => i = j
  PROVE  /\ Assign(chunks, cost, ahead) \in Dealing(T, Chunks(total))
         /\ DealtUpTo(Assign(chunks, cost, ahead).lists, chunks, Len(chunks))
<1> DEFINE N == Len(chunks)
           C == Chunks(total)
           All == Dealing(T, C)
<1>1. PICK f : GivenOut(f, All, N, chunks, cost, ahead) /\ Assign(chunks, cost, ahead) = f[N]
  BY AssignSteps
<1>2. N \in Nat /\ \A i \in 1 .. N : chunks[i] \in C
  OBVIOUS
<1>3. \A i, j \in 1 .. N : chunks[i] = chunks[j] => i = j
  OBVIOUS
<1> HIDE DEF N
<1>4. /\ f \in [0 .. N -> All] /\ f[0] = NothingGiven
      /\ \A n \in 1 .. N : f[n] = Give(f[n - 1], chunks[n], cost, ahead)
  BY <1>1 DEF GivenOut
<1> DEFINE Good == {n \in 0 .. N : DealtUpTo(f[n].lists, chunks, n)}
<1>5. 0 \in Good
  <2>1. Places(Nothing) = {}
    <3>1. \A v \in Workers : DOMAIN Nothing[v] = {}
      BY DEF Nothing
    <3> QED
      BY <3>1, PlaceIs
  <2>2. f[0].lists = Nothing
    BY <1>4 DEF NothingGiven
  <2>3. DealtUpTo(f[0].lists, chunks, 0)
    BY <2>1, <2>2 DEF DealtUpTo
  <2> QED
    BY <1>2, <2>3
<1>6. ASSUME NEW m \in 1 .. N, m - 1 \in Good PROVE m \in Good
  <2>1. f[m - 1] \in All /\ m \in 0 .. N
    <3>1. m - 1 \in 0 .. N /\ m \in 0 .. N
      BY <1>2
    <3> QED
      BY <1>4, <3>1
  <2>2. f[m] = Give(f[m - 1], chunks[m], cost, ahead) /\ chunks[m] \in C
    BY <1>2, <1>4
  <2>3. PICK w \in Workers :
          Give(f[m - 1], chunks[m], cost, ahead).lists
            = Handed(f[m - 1].lists, w, chunks[m])
    <3> DEFINE w == BestWorker(f[m - 1], chunks[m], cost, ahead)
    <3>1. f[m - 1] \in Dealing(T, Chunks(total)) /\ chunks[m] \in Chunks(total)
      BY <2>1, <2>2
    <3>2. w \in Workers
      BY <3>1, GiveToOne
    <3>3. Give(f[m - 1], chunks[m], cost, ahead).lists = Handed(f[m - 1].lists, w, chunks[m])
      BY GiveIs
    <3> HIDE DEF w
    <3> QED
      BY <3>2, <3>3
  <2>4. f[m - 1].lists \in [Workers -> Seq(C)]
    BY <2>1 DEF Dealing
  <2>5. DealtUpTo(f[m - 1].lists, chunks, m - 1)
    BY <1>6
  <2> HIDE DEF C, All
  <2>6. DealtUpTo(Handed(f[m - 1].lists, w, chunks[m]), chunks, m)
    BY <1>2, <1>3, <2>4, <2>5, DealOneMore
  <2>7. DealtUpTo(f[m].lists, chunks, m)
    BY <2>2, <2>3, <2>6
  <2> QED
    BY <2>1, <2>7
<1>7. N \in Good
  <2> HIDE DEF Good
  <2>1. \A m \in 0 .. N : m \in Good
    BY <1>2, <1>5, <1>6, StepByStep
  <2> QED
    BY <1>2, <2>1
<1>8. f[N] \in All
  BY <1>2, <1>4
<1> QED
  BY <1>1, <1>7, <1>8 DEF N

-----------------------------------------------------------------------------
(* Plans *)

\* Every row in one chunk of one list.
Whole(lists, total) ==
  /\ \A p, q \in Places(lists) : p # q => RowsOf(lists, p) \cap RowsOf(lists, q) = {}
  /\ \A p \in Places(lists) : RowsOf(lists, p) # {}
  /\ Covered(lists) = 0 .. total - 1

Times == Int \cup {Infinite}

\* Adding numbers gives a number, adding times a time.
LEMMA PlusCloses == Adds(Int) /\ Adds(Times)
BY PlannerAssumption DEF Plus, Times, Adds

\* What Assign makes of a split batch is a whole plan, whatever the costs are.
LEMMA AssignIsWhole ==
  ASSUME NEW T, Adds(T),
         NEW total \in Nat, NEW n \in 1 .. total, NEW cost \in Costs(T, 1 .. total), NEW ahead
  PROVE  /\ Whole(Assign(Split(total, n), cost, ahead).lists, total)
         /\ Assign(Split(total, n), cost, ahead).load \in [Workers -> T]
<1> DEFINE c == Split(total, n)
           lists == Assign(c, cost, ahead).lists
<1>1. /\ c \in Seq(Chunks(total)) /\ Len(c) = n
  BY SplitFollows
<1>2. /\ \A i \in 1 .. n : RowsOfChunk(c[i]) # {} /\ RowsOfChunk(c[i]) \subseteq 0 .. total - 1
      /\ \A i, j \in 1 .. n : i # j => RowsOfChunk(c[i]) \cap RowsOfChunk(c[j]) = {}
      /\ \A row \in 0 .. total - 1 : \E i \in 1 .. n : row \in RowsOfChunk(c[i])
  BY SplitPartitions
<1> HIDE DEF c
<1>3. \A i, j \in 1 .. Len(c) : c[i] = c[j] => i = j
  BY <1>1, <1>2
<1>4. /\ Assign(c, cost, ahead) \in Dealing(T, Chunks(total))
      /\ DealtUpTo(lists, c, Len(c))
  BY <1>1, <1>3, AssignDeals
<1> HIDE DEF lists
<1>5. /\ \A p \in Places(lists) : \E i \in 1 .. n : AtPlace(lists, p) = c[i]
      /\ \A i \in 1 .. n : \E p \in Places(lists) : AtPlace(lists, p) = c[i]
      /\ \A p, q \in Places(lists) : AtPlace(lists, p) = AtPlace(lists, q) => p = q
  BY <1>1, <1>4 DEF DealtUpTo
<1>6. \A p : RowsOf(lists, p) = RowsOfChunk(AtPlace(lists, p))
  BY DEF RowsOf, RowsOfChunk, AtPlace
<1>7. \A p, q \in Places(lists) : p # q => RowsOf(lists, p) \cap RowsOf(lists, q) = {}
  <2> SUFFICES ASSUME NEW p \in Places(lists), NEW q \in Places(lists), p # q
               PROVE  RowsOf(lists, p) \cap RowsOf(lists, q) = {}
    OBVIOUS
  <2>1. PICK i \in 1 .. n : AtPlace(lists, p) = c[i]
    BY <1>5
  <2>2. PICK j \in 1 .. n : AtPlace(lists, q) = c[j]
    BY <1>5
  <2>3. i # j
    BY <1>5, <2>1, <2>2
  <2>4. RowsOfChunk(c[i]) \cap RowsOfChunk(c[j]) = {}
    BY <1>2, <2>3
  <2> QED
    BY <1>6, <2>1, <2>2, <2>4
<1>8. ASSUME NEW p \in Places(lists)
      PROVE  RowsOf(lists, p) # {} /\ RowsOf(lists, p) \subseteq 0 .. total - 1
  <2>1. PICK i \in 1 .. n : AtPlace(lists, p) = c[i]
    BY <1>5
  <2> QED
    BY <1>2, <1>6, <2>1
<1>9. ASSUME NEW row \in 0 .. total - 1
      PROVE  \E p \in Places(lists) : row \in RowsOf(lists, p)
  <2>1. PICK i \in 1 .. n : row \in RowsOfChunk(c[i])
    BY <1>2
  <2>2. PICK p \in Places(lists) : AtPlace(lists, p) = c[i]
    BY <1>5
  <2> QED
    BY <1>6, <2>1, <2>2
<1>10. Covered(lists) = 0 .. total - 1
  BY <1>8, <1>9 DEF Covered
<1>11. Whole(lists, total)
  BY <1>7, <1>8, <1>10 DEF Whole
<1>12. Assign(c, cost, ahead).load \in [Workers -> T]
  BY <1>4 DEF Dealing
<1> QED
  BY <1>11, <1>12 DEF c, lists

\* There is a number of chunks to try, and never more chunks than rows.
LEMMA SomeChunks ==
  ASSUME NEW total \in Nat \ {0}
  PROVE  MaxChunks(total) \in 1 .. total
<1>1. NumWorkers * ChunksPerWorker \in Nat \ {0}
  BY PlannerAssumption
<1> QED
  BY <1>1 DEF MaxChunks, Least

\* The imbalance of a plan is a number.
LEMMA ImbalanceIsNumber ==
  ASSUME NEW total \in Nat, NEW n \in 1 .. total
  PROVE  Imbalance(total, n) \in Int
<1> DEFINE load == EvenAssign(total, n).load
           Far(w) == IF NumWorkers * load[w] < total THEN total - NumWorkers * load[w]
                     ELSE NumWorkers * load[w] - total
           Rec(sum) == [k \in 0 .. NumWorkers |-> IF k = 0 THEN 0 ELSE sum[k - 1] + Far(k - 1)]
<1>1. load \in [Workers -> Int]
  <2> DEFINE cost == [w \in Workers |-> [size \in 1 .. total |-> size]]
  <2>1. cost \in Costs(Int, 1 .. total)
    BY DEF Costs
  <2> HIDE DEF cost
  <2>2. Assign(Split(total, n), cost, FALSE).load \in [Workers -> Int]
    BY <2>1, PlusCloses, AssignIsWhole
  <2> QED
    BY <2>2 DEF EvenAssign, cost
<1>2. Imbalance(total, n) = (CHOOSE sum : sum = Rec(sum))[NumWorkers]
  BY DEF Imbalance
<1> HIDE DEF load
<1>3. NumWorkers \in Nat \ {0} /\ \A k \in 1 .. NumWorkers : k - 1 \in Workers
  BY PlannerAssumption DEF Workers
<1>4. \A w \in Workers : Far(w) \in Int
  BY <1>1, <1>3
<1> HIDE DEF Far
<1>5. PICK step \in [1 .. NumWorkers -> [Int -> Int]] :
        \A k \in 1 .. NumWorkers, s \in Int : step[k][s] = s + Far(k - 1)
  <2> DEFINE step == [k \in 1 .. NumWorkers |-> [s \in Int |-> s + Far(k - 1)]]
  <2>1. \A k \in 1 .. NumWorkers, s \in Int : s + Far(k - 1) \in Int
    BY <1>3, <1>4
  <2>2. step \in [1 .. NumWorkers -> [Int -> Int]]
    BY <2>1
  <2>3. \A k \in 1 .. NumWorkers, s \in Int : step[k][s] = s + Far(k - 1)
    OBVIOUS
  <2> HIDE DEF step
  <2> QED
    BY <2>2, <2>3
<1>6. PICK f \in [0 .. NumWorkers -> Int] :
        f[0] = 0 /\ \A k \in 1 .. NumWorkers : f[k] = step[k][f[k - 1]]
  <2>1. HasSteps(Int, 0, NumWorkers, step)
    <3>1. 0 \in Int /\ NumWorkers \in Nat
      BY <1>3
    <3>2. step \in [1 .. NumWorkers -> [Int -> Int]]
      OBVIOUS
    <3> QED
      BY <3>1, <3>2, Zenon DEF HasSteps
  <2>2. PICK f : StepsThrough(f, Int, 0, NumWorkers, step)
    BY <2>1, Recursion
  <2> QED
    BY <2>2 DEF StepsThrough
<1>7. f = Rec(f)
  <2>1. ASSUME NEW k \in 0 .. NumWorkers PROVE f[k] = Rec(f)[k]
    <3>1. CASE k = 0
      BY <1>6, <3>1
    <3>2. CASE k # 0
      <4>1. k \in 1 .. NumWorkers /\ k - 1 \in 0 .. NumWorkers
        BY <1>3, <3>2
      <4> QED
        BY <1>5, <1>6, <3>2, <4>1
    <3> QED
      BY <3>1, <3>2
  <2> QED
    BY <1>6, <2>1
<1> DEFINE g == CHOOSE sum : sum = Rec(sum)
<1>8. g = Rec(g)
  BY <1>7
<1> HIDE DEF g
<1>9. g[0] = 0 /\ \A k \in 1 .. NumWorkers : g[k] = g[k - 1] + Far(k - 1)
  <2>1. 0 \in 0 .. NumWorkers /\ \A k \in 1 .. NumWorkers : k \in 0 .. NumWorkers /\ k # 0
    BY <1>3
  <2> QED
    BY <1>8, <2>1
<1> DEFINE Good == {k \in 0 .. NumWorkers : g[k] \in Int}
<1>10. 0 \in Good
  <2>1. 0 \in 0 .. NumWorkers /\ g[0] \in Int
    BY <1>3, <1>9
  <2> QED
    BY <2>1
<1>11. ASSUME NEW m \in 1 .. NumWorkers, m - 1 \in Good PROVE m \in Good
  <2>1. g[m - 1] \in Int /\ m \in 0 .. NumWorkers /\ Far(m - 1) \in Int
    BY <1>3, <1>4, <1>11
  <2> QED
    BY <1>9, <2>1
<1>12. NumWorkers \in Good
  <2> HIDE DEF Good
  <2>1. \A m \in 0 .. NumWorkers : m \in Good
    BY <1>3, <1>10, <1>11, StepByStep
  <2> QED
    BY <1>3, <2>1
<1> QED
  BY <1>2, <1>12 DEF g

\* The plan made without predictions is whole.
LEMMA FallbackIsWhole ==
  ASSUME NEW total \in Nat \ {0}
  PROVE  Whole(Fallback(total), total)
<1> DEFINE M == MaxChunks(total)
           penalty == [n \in 1 .. M |-> Imbalance(total, n)]
           n == FirstLeast(penalty)
<1>1. M \in 1 .. total /\ M \in Nat
  BY SomeChunks
<1>2. Fallback(total) = EvenAssign(total, n).lists
  BY DEF Fallback
<1> HIDE DEF M
<1>3. penalty \in [1 .. M -> Int] /\ \A k \in 1 .. M : k \in 1 .. total
  BY <1>1, ImbalanceIsNumber
<1> HIDE DEF penalty
<1>4. n \in 1 .. M
  <2>1. 1 .. M \in SUBSET (0 .. M) /\ penalty \in [1 .. M -> Int \cup {Infinite}]
    BY <1>3
  <2>2. 1 \in 1 .. M /\ penalty[1] # Infinite
    BY <1>1, <1>3, PlannerAssumption
  <2> QED
    BY <1>1, <2>1, <2>2, FirstLeastExists
<1> HIDE DEF n
<1> DEFINE cost == [w \in Workers |-> [size \in 1 .. total |-> size]]
<1>5. cost \in Costs(Int, 1 .. total)
  BY DEF Costs
<1>6. EvenAssign(total, n) = Assign(Split(total, n), cost, FALSE)
  BY DEF EvenAssign
<1> HIDE DEF cost
<1>7. Whole(Assign(Split(total, n), cost, FALSE).lists, total)
  BY <1>3, <1>4, <1>5, PlusCloses, AssignIsWhole
<1> QED
  BY <1>2, <1>6, <1>7

TypesOfPredictor == predictor \in [Workers -> Predictions]

\* What the models predict, or the size where they predict nothing, is a time, and
\* a finite one for a finite model.
LEMMA TimeIsTime ==
  ASSUME TypesOfPredictor, NEW total \in Totals, NEW w \in Workers, NEW s \in 1 .. total
  PROVE  Time(w, s) \in Times /\ (FiniteModel(w) => Time(w, s) # Infinite)
<1>1. total \in Nat /\ predictor[w] \in Predictions /\ Infinite \notin Int
  BY PlannerAssumption DEF TypesOfPredictor
<1>2. s \in DOMAIN predictor[w] /\ predictor[w][s] \in Int \cup {Infinite}
  BY <1>1, PlannerAssumption
<1>3. s \in Int
  BY <1>1
<1>4. FiniteModel(w) => predictor[w][s] # Infinite
  BY <1>2 DEF FiniteModel
<1> QED
  BY <1>1, <1>2, <1>3, <1>4 DEF Time, Times

\* The costs of the chunks for each worker.
TimeCost(total) == [w \in Workers |-> [size \in 1 .. total |-> Time(w, size)]]

\* They are times, and finite for a finite model.
LEMMA TimesAreCosts ==
  ASSUME TypesOfPredictor, NEW total \in Totals
  PROVE  /\ TimeCost(total) \in Costs(Times, 1 .. total)
         /\ \A w \in Workers : FiniteModel(w) =>
              \A s \in 1 .. total : TimeCost(total)[w][s] # Infinite
<1>1. \A w \in Workers, s \in 1 .. total :
        Time(w, s) \in Times /\ (FiniteModel(w) => Time(w, s) # Infinite)
  BY TimeIsTime
<1>2. \A w \in Workers, s \in 1 .. total : TimeCost(total)[w][s] = Time(w, s)
  BY DEF TimeCost
<1>3. TimeCost(total) \in Costs(Times, 1 .. total)
  BY <1>1 DEF Costs, TimeCost
<1> QED
  BY <1>1, <1>2, <1>3

\* Every worker's load is a time, so the slowest worker's is.
LEMMA SlowestIsTime ==
  ASSUME NEW total, NEW n, TimedAssign(total, n).load \in [Workers -> Times]
  PROVE  /\ Slowest(total, n) \in Times
         /\ (\A w \in Workers : TimedAssign(total, n).load[w] # Infinite)
              => Slowest(total, n) # Infinite
<1> DEFINE load == TimedAssign(total, n).load
<1>1. Slowest(total, n) = IF \E w \in Workers : load[w] = Infinite THEN Infinite
                          ELSE Max({load[w] : w \in Workers})
  BY DEF Slowest
<1> HIDE DEF load
<1>2. SUFFICES ASSUME \A w \in Workers : load[w] # Infinite
               PROVE  Max({load[w] : w \in Workers}) \in Int
  BY <1>1, PlannerAssumption DEF Times, load
<1>3. load \in [Workers -> Int]
  BY <1>2 DEF Times, load
<1> DEFINE key == [w \in Workers |-> 0 - load[w]]
<1>4. key \in [Workers -> Int] /\ \A w \in Workers : key[w] = 0 - load[w]
  BY <1>3
<1> HIDE DEF key
<1>5. PICK x \in Workers : \A y \in Workers : key[x] <= key[y]
  <2>1. NumWorkers \in Nat /\ 0 \in Workers /\ Workers \in SUBSET (0 .. NumWorkers)
    BY PlannerAssumption DEF Workers
  <2>2. key \in [Workers -> Int \cup {Infinite}] /\ \A y \in Workers : key[y] # Infinite
    BY <1>4, PlannerAssumption
  <2> QED
    BY <2>1, <2>2, LeastTime
<1>6. \A y \in Workers : load[x] >= load[y]
  BY <1>3, <1>4, <1>5
<1> DEFINE loads == {load[w] : w \in Workers}
<1>7. loads \in SUBSET Int /\ load[x] \in loads /\ \A y \in loads : load[x] >= y
  BY <1>3, <1>6
<1> HIDE DEF loads
<1>8. Max(loads) \in loads
  BY <1>7 DEF Max
<1> QED
  BY <1>7, <1>8 DEF loads

\* If one worker is never infinitely slow, no chunk goes to one that is.
LEMMA LoadsStayFinite ==
  ASSUME NEW total \in Nat, NEW cost \in Costs(Times, 1 .. total), NEW v \in Workers,
         \A s \in 1 .. total : cost[v][s] # Infinite,
         NEW chunks \in Seq(Chunks(total)), NEW ahead, ahead = TRUE
  PROVE  \A w \in Workers : Assign(chunks, cost, ahead).load[w] # Infinite
<1> DEFINE N == Len(chunks)
           All == Dealing(Times, Chunks(total))
<1>1. PICK f : GivenOut(f, All, N, chunks, cost, ahead) /\ Assign(chunks, cost, ahead) = f[N]
  <2>1. total \in Nat /\ cost \in Costs(Times, 1 .. total) /\ chunks \in Seq(Chunks(total))
    OBVIOUS
  <2> QED
    BY ONLY <2>1, PlusCloses, AssignSteps
<1>2. N \in Nat /\ \A i \in 1 .. N : chunks[i] \in Chunks(total)
  OBVIOUS
<1> HIDE DEF N
<1>3. /\ f \in [0 .. N -> All] /\ f[0] = NothingGiven
      /\ \A n \in 1 .. N : f[n] = Give(f[n - 1], chunks[n], cost, ahead)
  BY <1>1 DEF GivenOut
<1> DEFINE Good == {n \in 0 .. N : \A w \in Workers : f[n].load[w] # Infinite}
<1>4. 0 \in Good
  <2>1. \A w \in Workers : f[0].load[w] = 0
    BY <1>3 DEF NothingGiven
  <2> QED
    BY <1>2, <2>1, PlannerAssumption
<1>5. ASSUME NEW m \in 1 .. N, m - 1 \in Good PROVE m \in Good
  <2> DEFINE before == f[m - 1].load
             c == chunks[m]
             key == [u \in Workers |-> Plus(before[u], cost[u][c.size])]
             w == FirstLeast(key)
  <2>1. f[m - 1] \in All /\ m \in 0 .. N
    <3>1. m - 1 \in 0 .. N /\ m \in 0 .. N
      BY <1>2
    <3> QED
      BY <1>3, <3>1
  <2>2. before \in [Workers -> Times] /\ \A u \in Workers : before[u] # Infinite
    BY <1>5, <2>1 DEF Dealing
  <2>3. c.size \in 1 .. total
    BY <1>2 DEF Chunks
  <2>4. \A u \in Workers : cost[u][c.size] \in Times
    BY <2>3 DEF Costs
  <2>5. f[m].load = [before EXCEPT ![w] = Plus(@, cost[w][c.size])]
    <3>1. f[m] = Give(f[m - 1], c, cost, ahead)
      BY <1>3
    <3>2. w = BestWorker(f[m - 1], c, cost, ahead)
      BY DEF BestWorker
    <3>3. Give(f[m - 1], c, cost, ahead).load
            = Loaded(f[m - 1].load, BestWorker(f[m - 1], c, cost, ahead), c, cost)
      BY ONLY GiveIs
    <3> HIDE DEF w, c
    <3> QED
      BY <3>1, <3>2, <3>3 DEF Loaded
  <2> HIDE DEF before, c
  <2>6. /\ key \in [Workers -> Int \cup {Infinite}] /\ key[v] # Infinite
        /\ \A u \in Workers : key[u] = Plus(before[u], cost[u][c.size])
    <3>1. \A u \in Workers : Plus(before[u], cost[u][c.size]) \in Times
      BY <2>2, <2>4, PlusCloses DEF Adds
    <3>2. before[v] \in Int /\ cost[v][c.size] \in Int
      BY <2>2, <2>3, <2>4 DEF Times
    <3>3. Plus(before[v], cost[v][c.size]) \in Int
      BY <3>2, PlusCloses DEF Adds
    <3> QED
      BY <3>1, <3>3, PlannerAssumption DEF Times
  <2> HIDE DEF key
  <2>7. w \in Workers /\ key[w] # Infinite
    <3>1. NumWorkers \in Nat /\ Workers \in SUBSET (0 .. NumWorkers)
      BY PlannerAssumption DEF Workers
    <3> QED
      BY <2>6, <3>1, FirstLeastExists
  <2> HIDE DEF w
  <2>8. \A u \in Workers : f[m].load[u] # Infinite
    BY <2>2, <2>5, <2>6, <2>7
  <2> QED
    BY <2>1, <2>8
<1>6. N \in Good
  <2> HIDE DEF Good
  <2>1. \A m \in 0 .. N : m \in Good
    BY <1>2, <1>4, <1>5, StepByStep
  <2> QED
    BY <1>2, <2>1
<1> QED
  BY <1>1, <1>6

\* A plan made with predictions is whole or has nothing in it, and the latter
\* only if every model predicts an infinite time.
LEMMA PredictedIsWhole ==
  ASSUME TypesOfPredictor, NEW total \in Totals, total > 0
  PROVE  /\ Whole(Predicted(total), total) \/ Predicted(total) = Nothing
         /\ (\E v \in Workers : FiniteModel(v)) => Whole(Predicted(total), total)
<1> DEFINE M == MaxChunks(total)
           slowest == [n \in 1 .. M |-> Slowest(total, n)]
           n == FirstLeast(slowest)
<1>1. total \in Nat \ {0} /\ M \in 1 .. total /\ M \in Nat
  BY SomeChunks, PlannerAssumption
<1>2. Predicted(total) = IF n = 0 THEN Nothing ELSE TimedAssign(total, n).lists
  BY DEF Predicted
<1> HIDE DEF M
<1>3. \A k : TimedAssign(total, k) = Assign(Split(total, k), TimeCost(total), TRUE)
  BY DEF TimedAssign, TimeCost
<1>4. TimeCost(total) \in Costs(Times, 1 .. total)
  BY TimesAreCosts
<1>5. ASSUME NEW k \in 1 .. M
      PROVE  /\ Whole(TimedAssign(total, k).lists, total)
             /\ TimedAssign(total, k).load \in [Workers -> Times]
  <2>1. k \in 1 .. total
    BY <1>1
  <2>2. /\ Whole(Assign(Split(total, k), TimeCost(total), TRUE).lists, total)
        /\ Assign(Split(total, k), TimeCost(total), TRUE).load \in [Workers -> Times]
    BY <1>1, <1>4, <2>1, PlusCloses, AssignIsWhole
  <2> QED
    BY <1>3, <2>2
<1>6. DOMAIN slowest = 1 .. M /\ 1 .. M \in SUBSET Nat /\ 1 .. M \in SUBSET (0 .. M) /\ 0 \notin 1 .. M
  BY <1>1
<1>7. \A k \in 1 .. M : slowest[k] = Slowest(total, k)
  OBVIOUS
<1>8. slowest \in [1 .. M -> Int \cup {Infinite}]
  BY <1>5, SlowestIsTime DEF Times
<1> HIDE DEF slowest
<1>9. n = 0 \/ n \in 1 .. M
  BY <1>6, FirstLeastFinds
<1>10. ASSUME NEW v \in Workers, FiniteModel(v) PROVE n \in 1 .. M
  <2>1. \A s \in 1 .. total : TimeCost(total)[v][s] # Infinite
    BY <1>10, TimesAreCosts
  <2>2. 1 \in 1 .. M /\ 1 \in 1 .. total
    BY <1>1
  <2>3. Split(total, 1) \in Seq(Chunks(total))
    BY <1>1, <2>2, SplitFollows
  <2>4. \A w \in Workers : TimedAssign(total, 1).load[w] # Infinite
    BY <1>1, <1>3, <1>4, <2>1, <2>3, LoadsStayFinite
  <2>5. slowest[1] # Infinite
    BY <1>5, <1>7, <2>2, <2>4, SlowestIsTime
  <2> QED
    BY <1>1, <1>6, <1>8, <2>2, <2>5, FirstLeastExists
<1> HIDE DEF n
<1> QED
  BY <1>2, <1>5, <1>6, <1>9, <1>10

-----------------------------------------------------------------------------
(* Theorems *)

\* The invariant: models are models, and whatever was planned gives no row out
\* twice and leaves no chunk empty.
PlannerInv == TypesOfPredictor /\ NoRowTwice

\* The models of the workers stay models, whatever is measured.
LEMMA PredictorTyped ==
  /\ Init => TypesOfPredictor
  /\ TypesOfPredictor /\ [Next]_vars => TypesOfPredictor'
<1>1. Init => TypesOfPredictor
  BY DEF Init, TypesOfPredictor
<1>2. ASSUME TypesOfPredictor, [Next]_vars PROVE TypesOfPredictor'
  <2>1. CASE UNCHANGED predictor
    BY <1>2, <2>1 DEF TypesOfPredictor
  <2>2. ASSUME NEW w \in Workers, Report(w) PROVE TypesOfPredictor'
    BY <1>2, <2>2 DEF TypesOfPredictor, Report
  <2> QED
    BY <1>2, <2>1, <2>2 DEF Next, vars, PlanNone, PlanPredicted, PlanFallback
<1> QED
  BY <1>1, <1>2

\* In the empty plan no row is given out.
LEMMA NothingIsEmpty == Places(Nothing) = {} /\ Covered(Nothing) = {}
<1>1. \A v \in Workers : DOMAIN Nothing[v] = {}
  BY DEF Nothing
<1>2. Places(Nothing) = {}
  BY <1>1, PlaceIs
<1> QED
  BY <1>2 DEF Covered

\* A step makes no plan, or one that is whole, or the empty plan: of no rows, or
\* because all times are infinite.
LEMMA StepPlans ==
  ASSUME TypesOfPredictor, Next
  PROVE  \/ planned' = NoPlan
         \/ /\ planned'.total \in Nat
            /\ Whole(planned'.lists, planned'.total)
         \/ /\ planned'.lists = Nothing
            /\ ~ \E v \in Workers : FiniteModel(v)
<1>1. CASE \E w \in Workers : Report(w)
  BY <1>1 DEF Report
<1>2. ASSUME NEW total \in Totals, PlanNone(total)
      PROVE  planned'.total \in Nat /\ Whole(planned'.lists, planned'.total)
  <2>1. planned'.total = 0 /\ planned'.lists = Nothing
    BY <1>2 DEF PlanNone
  <2>2. Places(Nothing) = {} /\ Covered(Nothing) = {} /\ 0 .. 0 - 1 = {}
    BY NothingIsEmpty
  <2>3. Whole(Nothing, 0)
    BY <2>2 DEF Whole
  <2> QED
    BY <2>1, <2>3
<1>3. ASSUME NEW total \in Totals, PlanPredicted(total)
      PROVE  /\ planned'.total \in Nat /\ (Whole(planned'.lists, planned'.total)
                  \/ (planned'.lists = Nothing /\ ~ \E v \in Workers : FiniteModel(v)))
  <2>1. planned'.total = total /\ planned'.lists = Predicted(total) /\ total > 0
    BY <1>3 DEF PlanPredicted
  <2>2. total \in Nat
    BY PlannerAssumption
  <2> QED
    BY <2>1, <2>2, PredictedIsWhole
<1>4. ASSUME NEW total \in Totals, PlanFallback(total)
      PROVE  planned'.total \in Nat /\ Whole(planned'.lists, planned'.total)
  <2>1. planned'.total = total /\ planned'.lists = Fallback(total) /\ total > 0
    BY <1>4 DEF PlanFallback
  <2>2. total \in Nat \ {0}
    BY <2>1, PlannerAssumption
  <2> QED
    BY <2>1, <2>2, FallbackIsWhole
<1> QED
  BY <1>1, <1>2, <1>3, <1>4 DEF Next

\* PlannerInv is inductive.
LEMMA PlannerInvHolds ==
  /\ Init => PlannerInv
  /\ PlannerInv /\ [Next]_vars => PlannerInv'
<1>1. Init => NoRowTwice
  BY DEF Init, NoRowTwice
<1>2. ASSUME PlannerInv, [Next]_vars PROVE NoRowTwice'
  <2>1. CASE UNCHANGED vars
    BY <1>2, <2>1 DEF PlannerInv, NoRowTwice, vars
  <2>2. CASE Next
    <3>1. \/ planned' = NoPlan
          \/ Whole(planned'.lists, planned'.total)
          \/ planned'.lists = Nothing
      BY <1>2, <2>2, StepPlans DEF PlannerInv
    <3>2. CASE planned' = NoPlan
      BY <3>2 DEF NoRowTwice
    <3>3. CASE Whole(planned'.lists, planned'.total)
      BY <3>3 DEF NoRowTwice, Whole
    <3>4. CASE planned'.lists = Nothing
      BY <3>4, NothingIsEmpty DEF NoRowTwice
    <3> QED
      BY <3>1, <3>2, <3>3, <3>4
  <2> QED
    BY <1>2, <2>1, <2>2
<1> QED
  BY <1>1, <1>2, PredictorTyped DEF PlannerInv

\* No plan gives a row out twice, hands a worker an empty chunk or goes beyond the
\* batch, whatever the models predict: no chunk is computed over another's rows.
THEOREM RowsGivenOnce == Spec => []NoRowTwice
<1>1. Init => PlannerInv
  BY PlannerInvHolds
<1>2. PlannerInv /\ [Next]_vars => PlannerInv'
  BY PlannerInvHolds
<1>3. PlannerInv => NoRowTwice
  BY DEF PlannerInv
<1> QED
  BY <1>1, <1>2, <1>3, PTL DEF Spec

\* A plan leaves out no row of the batch as long as one model predicts no infinite
\* time, however often the others do: the forward pass writes its whole output.
THEOREM RowsAllGiven == Spec => PlanCovers
<1>1. ASSUME TypesOfPredictor, [Next]_vars
      PROVE  [(planned' \notin {planned, NoPlan} /\ \E w \in Workers : FiniteModel(w))
               => Covered(planned.lists)' = 0 .. planned'.total - 1]_vars
  <2>1. CASE UNCHANGED vars
    BY <2>1
  <2>2. CASE Next
    <3>1. ASSUME planned' \notin {planned, NoPlan}, \E w \in Workers : FiniteModel(w)
          PROVE  Covered(planned'.lists) = 0 .. planned'.total - 1
      <4>1. Whole(planned'.lists, planned'.total)
        BY <1>1, <2>2, <3>1, StepPlans
      <4> QED
        BY <4>1 DEF Whole
    <3> QED
      BY <3>1
  <2> QED
    BY <1>1, <2>1, <2>2
<1>2. Init => TypesOfPredictor
  BY PredictorTyped
<1>3. TypesOfPredictor /\ [Next]_vars => TypesOfPredictor'
  BY PredictorTyped
<1> QED
  BY <1>1, <1>2, <1>3, PTL DEF Spec, PlanCovers

=============================================================================
