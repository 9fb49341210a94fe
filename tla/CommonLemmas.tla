---------------------------- MODULE CommonLemmas ----------------------------
(***************************************************************************)
(* Lemmas that the proofs about several components need: least numbers,    *)
(* and what Split of BatchOptions answers, for any number and options.     *)
(*                                                                         *)
(* The induction theorems of the library cannot be used by the provers     *)
(* here; a least counterexample, from LeastNatural, takes their place.     *)
(***************************************************************************)
EXTENDS BatchOptions, FiniteSetTheorems, SequenceTheorems, WellFoundedInduction, TLAPS

\* A set of natural numbers that is not empty has a least element: the strict
\* subsets among the intervals 0 .. k are well founded.
LEMMA LeastNatural ==
    ASSUME NEW X \in SUBSET Nat, X # {}
    PROVE  \E m \in X : \A k \in X : m =< k
<1> DEFINE T == {0 .. k : k \in X}
           R == StrictSubsetOrdering(Nat)
<1>1. IsWellFoundedOn(R, FiniteSubsetsOf(Nat))
  BY FS_StrictSubsetOrderingWellFounded
<1>2. T \subseteq FiniteSubsetsOf(Nat) /\ T # {}
  <2>1. \A k \in Nat : 0 .. k \subseteq Nat /\ IsFiniteSet(0 .. k)
    BY FS_Interval
  <2> QED
    BY <2>1 DEF FiniteSubsetsOf
<1>3. PICK t \in T : \A u \in T : ~ (<<u, t>> \in R)
  <2> HIDE DEF T, R
  <2> QED
    BY <1>1, <1>2, WFMin
<1>4. PICK m \in X : t = 0 .. m
  OBVIOUS
<1>5. ASSUME NEW k \in X, k < m
      PROVE  FALSE
  <2>1. 0 .. k \in T /\ 0 .. k \subseteq 0 .. m /\ 0 .. k # 0 .. m
    <3>1. m \in 0 .. m /\ m \notin 0 .. k
      BY <1>5
    <3> QED
      BY <1>5, <3>1
  <2>2. <<0 .. k, 0 .. m>> \in R
    BY <2>1 DEF StrictSubsetOrdering
  <2> QED
    BY <1>3, <1>4, <2>1, <2>2
<1> QED
  BY <1>5
-----------------------------------------------------------------------------
(* Split.                                                                  *)

\* One round of the loop of Split.
Round(o, at) ==
    LET b == IF o.MaxBatchSize > at.n THEN at.n ELSE o.MaxBatchSize
    IN  IF at.n < o.MinBatchSize THEN at
        ELSE [n |-> at.n - b, batches |-> Append(at.batches, b)]

LoopStart(n) == [n |-> n, batches |-> << >>]

\* loop gives what the loop of Split has after each of its m rounds.
IsLoop(loop, n, o, m) ==
    loop = [k \in 0 .. m |-> IF k = 0 THEN LoopStart(n) ELSE Round(o, loop[k - 1])]

SplitLoop(n, o) == CHOOSE loop : IsLoop(loop, n, o, o.MaxHandlers)

\* splitLoop answers what the last round has collected.
LEMMA SplitLoopIs ==
    ASSUME NEW n, NEW o
    PROVE  splitLoop(n, o) = SplitLoop(n, o)[o.MaxHandlers].batches
  BY DEF splitLoop, SplitLoop, IsLoop, LoopStart, Round

\* The loop of Split is there, for any number of rounds: one that there is not
\* would be one round longer than one that there is.
LEMMA LoopExists ==
    ASSUME NEW n, NEW o, NEW m \in Nat
    PROVE  \E loop : IsLoop(loop, n, o, m)
<1> DEFINE X == {k \in Nat : ~ \E loop : IsLoop(loop, n, o, k)}
<1>1. SUFFICES ASSUME X # {} PROVE FALSE
  OBVIOUS
<1>2. PICK k \in X : \A j \in X : k =< j
  BY <1>1, LeastNatural
<1>3. k # 0
  <2> SUFFICES ASSUME k = 0 PROVE FALSE
    OBVIOUS
  <2> DEFINE loop == [j \in 0 .. 0 |-> LoopStart(n)]
  <2>1. IsLoop(loop, n, o, 0)
    BY DEF IsLoop
  <2> QED
    BY <2>1
<1>4. PICK loop : IsLoop(loop, n, o, k - 1)
  BY <1>2, <1>3
<1> DEFINE longer == [j \in 0 .. k |-> IF j = k THEN Round(o, loop[k - 1]) ELSE loop[j]]
<1>5. ASSUME NEW j \in 0 .. k
      PROVE  longer[j] = IF j = 0 THEN LoopStart(n) ELSE Round(o, longer[j - 1])
  <2>1. CASE j = 0
    BY <1>3, <1>4, <2>1 DEF IsLoop
  <2>2. CASE j # 0
    <3>1. longer[j - 1] = loop[j - 1]
      BY <2>2
    <3>2. j # k => loop[j] = Round(o, loop[j - 1])
      BY <1>4, <2>2 DEF IsLoop
    <3> QED
      BY <2>2, <3>1, <3>2
  <2> QED
    BY <2>1, <2>2
<1>6. IsLoop(longer, n, o, k)
  <2> HIDE DEF longer
  <2>1. longer = [j \in 0 .. k |-> IF j = 0 THEN LoopStart(n) ELSE Round(o, longer[j - 1])]
    <3>1. longer = [j \in 0 .. k |-> longer[j]]
      BY DEF longer
    <3> QED
      BY <1>5, <3>1
  <2> QED
    BY <2>1 DEF IsLoop
<1> QED
  BY <1>2, <1>6

\* f adds up sizes from the front.
Sums(f, sizes) ==
    /\ f \in [0 .. Len(sizes) -> Nat]
    /\ f[0] = 0
    /\ \A k \in 1 .. Len(sizes) : f[k] = f[k - 1] + sizes[k]

\* The sizes are within the limits of o, and with the rest they make up n.
Fits(o, n, sizes, rest) ==
    /\ sizes \in Seq(Nat) /\ rest \in Nat
    /\ Len(sizes) =< o.MaxHandlers
    /\ \A k \in 1 .. Len(sizes) :
         /\ o.MaxBatchSize > 0 => sizes[k] =< o.MaxBatchSize
         /\ sizes[k] >= o.MinBatchSize \/ sizes[k] = o.MaxBatchSize
    /\ \E f : Sums(f, sizes) /\ f[Len(sizes)] = n - rest

\* One more size adds to the sum.
LEMMA SumsAppend ==
    ASSUME NEW s \in Seq(Nat), NEW b \in Nat, NEW f, Sums(f, s)
    PROVE  \E g : Sums(g, Append(s, b)) /\ g[Len(s) + 1] = f[Len(s)] + b
<1> DEFINE g == [k \in 0 .. Len(s) + 1 |-> IF k = Len(s) + 1 THEN f[Len(s)] + b ELSE f[k]]
<1>1. Len(Append(s, b)) = Len(s) + 1 /\ Len(s) \in Nat
  OBVIOUS
<1>2. g \in [0 .. Len(s) + 1 -> Nat] /\ g[0] = 0 /\ g[Len(s) + 1] = f[Len(s)] + b
  BY DEF Sums
<1>3. ASSUME NEW k \in 1 .. Len(s) + 1
      PROVE  g[k] = g[k - 1] + Append(s, b)[k]
  <2>1. g[k - 1] = f[k - 1]
    BY <1>1
  <2>2. CASE k = Len(s) + 1
    BY <2>1, <2>2, <1>2
  <2>3. CASE k # Len(s) + 1
    <3>1. k \in 1 .. Len(s) /\ Append(s, b)[k] = s[k] /\ g[k] = f[k]
      BY <2>3, <1>1
    <3> HIDE DEF g
    <3> QED
      BY <2>1, <3>1 DEF Sums
  <2> QED
    BY <2>2, <2>3
<1> HIDE DEF g
<1> QED
  BY <1>1, <1>2, <1>3 DEF Sums

\* One more batch, within the limits, fits.
LEMMA FitsAppend ==
    ASSUME NEW o \in Options, NEW n \in Nat, NEW s, NEW rest, Fits(o, n, s, rest),
           Len(s) < o.MaxHandlers, NEW b \in Nat, b =< rest, b =< o.MaxBatchSize,
           b >= o.MinBatchSize \/ b = o.MaxBatchSize
    PROVE  Fits(o, n, Append(s, b), rest - b)
<1>1. /\ s \in Seq(Nat) /\ rest \in Nat /\ rest - b \in Nat /\ o.MaxHandlers \in Nat
      /\ Append(s, b) \in Seq(Nat) /\ Len(Append(s, b)) = Len(s) + 1
      /\ o.MaxBatchSize \in Nat /\ o.MinBatchSize \in Nat
  BY DEF Fits, Options
<1>2. ASSUME NEW j \in 1 .. Len(s) + 1
      PROVE  /\ o.MaxBatchSize > 0 => Append(s, b)[j] =< o.MaxBatchSize
             /\ Append(s, b)[j] >= o.MinBatchSize \/ Append(s, b)[j] = o.MaxBatchSize
  <2>1. CASE j = Len(s) + 1
    BY <1>1, <2>1
  <2>2. CASE j # Len(s) + 1
    <3>1. j \in 1 .. Len(s) /\ Append(s, b)[j] = s[j]
      BY <1>1, <2>2
    <3> QED
      BY <3>1 DEF Fits
  <2> QED
    BY <2>1, <2>2
<1>3. \E g : Sums(g, Append(s, b)) /\ g[Len(s) + 1] = n - (rest - b)
  <2>1. PICK f : Sums(f, s) /\ f[Len(s)] = n - rest
    BY DEF Fits
  <2>2. PICK g : Sums(g, Append(s, b)) /\ g[Len(s) + 1] = f[Len(s)] + b
    BY <1>1, <2>1, SumsAppend
  <2> QED
    BY <1>1, <2>1, <2>2
<1>4. Len(Append(s, b)) =< o.MaxHandlers
  BY <1>1
<1> HIDE DEF Sums
<1> QED
  BY <1>1, <1>2, <1>3, <1>4 DEF Fits

\* After each round, either it had a batch for each or too little is left.
LEMMA LoopFits ==
    ASSUME NEW n \in Nat, NEW o \in Options, o.MinBatchSize > 0, o.MaxBatchSize > 0,
           NEW m \in 0 .. o.MaxHandlers, NEW loop, IsLoop(loop, n, o, o.MaxHandlers)
    PROVE  /\ Fits(o, n, loop[m].batches, loop[m].n)
           /\ loop[m].n < o.MinBatchSize \/ Len(loop[m].batches) = m
<1> DEFINE P(k) == /\ loop[k] \in [n : Nat, batches : Seq(Nat)]
                   /\ Fits(o, n, loop[k].batches, loop[k].n)
                   /\ Len(loop[k].batches) =< k
                   /\ loop[k].n < o.MinBatchSize \/ Len(loop[k].batches) = k
           X == {k \in 0 .. o.MaxHandlers : ~ P(k)}
<1>0. /\ o.MinBatchSize \in Nat /\ o.MaxBatchSize \in Nat /\ o.MaxHandlers \in Nat
      /\ X \in SUBSET Nat
  BY DEF Options
<1>1. P(0)
  <2>1. loop[0] = LoopStart(n)
    BY <1>0 DEF IsLoop
  <2>2. Sums([k \in 0 .. 0 |-> 0], << >>)
    BY DEF Sums
  <2>3. \E f : Sums(f, << >>) /\ f[0] = n - n
    BY <2>2
  <2> QED
    BY <1>0, <2>1, <2>3 DEF LoopStart, Fits
<1>2. ASSUME NEW k \in 1 .. o.MaxHandlers, P(k - 1)
      PROVE  P(k)
  <2> DEFINE at == loop[k - 1]
             b  == IF o.MaxBatchSize > at.n THEN at.n ELSE o.MaxBatchSize
  <2>1. loop[k] = Round(o, at)
    BY <1>0 DEF IsLoop
  <2>2. CASE at.n < o.MinBatchSize
    <3>1. loop[k] = at
      BY <2>1, <2>2 DEF Round
    <3> QED
      BY <1>0, <1>2, <2>2, <3>1 DEF Fits
  <2>3. CASE ~ (at.n < o.MinBatchSize)
    <3>1. loop[k] = [n |-> at.n - b, batches |-> Append(at.batches, b)]
      BY <2>1, <2>3 DEF Round
    <3>2. /\ at.n \in Nat /\ at.batches \in Seq(Nat) /\ Len(at.batches) = k - 1
          /\ b \in Nat /\ b =< at.n /\ b =< o.MaxBatchSize
          /\ b >= o.MinBatchSize \/ b = o.MaxBatchSize
      BY <1>0, <1>2, <2>3
    <3> HIDE DEF at, b
    <3>3. /\ loop[k] \in [n : Nat, batches : Seq(Nat)]
          /\ loop[k].n = at.n - b /\ loop[k].batches = Append(at.batches, b)
          /\ Len(loop[k].batches) = k
      BY <3>1, <3>2
    <3>4. Fits(o, n, at.batches, at.n)
      BY <1>2 DEF at
    <3>5. Fits(o, n, loop[k].batches, loop[k].n)
      <4>1. Len(at.batches) < o.MaxHandlers
        BY <1>0, <3>2
      <4>2. Fits(o, n, Append(at.batches, b), at.n - b)
        BY <3>2, <3>4, <4>1, FitsAppend
      <4> QED
        BY <3>3, <4>2, Zenon
    <3> QED
      BY <3>3, <3>5
  <2> QED
    BY <2>2, <2>3
<1> HIDE DEF P
<1>3. X = {}
  <2> SUFFICES ASSUME X # {} PROVE FALSE
    OBVIOUS
  <2>1. PICK k \in X : \A j \in X : k =< j
    BY <1>0, LeastNatural
  <2>2. k # 0 /\ k - 1 \in 0 .. o.MaxHandlers /\ P(k - 1)
    BY <1>0, <1>1, <2>1
  <2> QED
    BY <1>2, <2>1, <2>2
<1> QED
  BY <1>3 DEF P

\* With defaults applied, the minimum and the number of handlers are not zero.
LEMMA DefaultsTypes ==
    ASSUME NEW opts \in Options
    PROVE  LET o == newOptionsWithDefaults(opts) IN
           o \in Options /\ o.MinBatchSize > 0 /\ o.MaxHandlers > 0
  BY DEF Options, newOptionsWithDefaults, AtLeastOne

\* What Split answers is within the limits and leaves over only what no
\* further batch may hold.
LEMMA SplitFits ==
    ASSUME NEW n \in Nat, NEW opts \in Options
    PROVE  LET o == newOptionsWithDefaults(opts) IN
           \E rest \in Nat :
              /\ Fits(o, n, Split(n, opts), rest)
              /\ rest > 0 => rest < o.MinBatchSize \/ Len(Split(n, opts)) = o.MaxHandlers
<1> DEFINE o == newOptionsWithDefaults(opts)
<1>1. /\ o \in Options /\ o.MinBatchSize > 0 /\ o.MaxHandlers > 0
      /\ o.MinBatchSize \in Nat /\ o.MaxBatchSize \in Nat /\ o.MaxHandlers \in Nat
  BY DefaultsTypes DEF Options
<1>2. Split(n, opts) = IF n < o.MinBatchSize THEN << >>
                       ELSE IF o.MaxBatchSize = 0 THEN <<n>> ELSE splitLoop(n, o)
  BY DEF Split
<1> HIDE DEF o
<1>3. CASE n < o.MinBatchSize
  <2>1. Sums([k \in 0 .. 0 |-> 0], << >>)
    BY DEF Sums
  <2>2. \E f : Sums(f, << >>) /\ f[0] = n - n
    BY <2>1
  <2>3. Fits(o, n, << >>, n)
    BY <1>1, <2>2 DEF Fits
  <2> QED
    BY <1>2, <1>3, <2>3 DEF o
<1>4. CASE ~ (n < o.MinBatchSize) /\ o.MaxBatchSize = 0
  <2>1. Sums([k \in 0 .. 1 |-> IF k = 0 THEN 0 ELSE n], <<n>>)
    BY DEF Sums
  <2>2. \E f : Sums(f, <<n>>) /\ f[1] = n - 0
    BY <2>1
  <2>3. Fits(o, n, <<n>>, 0)
    BY <1>1, <1>4, <2>2 DEF Fits
  <2> QED
    BY <1>2, <1>4, <2>3 DEF o
<1>5. CASE ~ (n < o.MinBatchSize) /\ o.MaxBatchSize # 0
  <2> DEFINE loop == SplitLoop(n, o)
             last == loop[o.MaxHandlers]
  <2>1. IsLoop(loop, n, o, o.MaxHandlers)
    BY <1>1, LoopExists DEF SplitLoop
  <2>2. Split(n, opts) = last.batches
    BY <1>2, <1>5, SplitLoopIs
  <2> HIDE DEF loop
  <2>3. /\ Fits(o, n, last.batches, last.n)
        /\ last.n < o.MinBatchSize \/ Len(last.batches) = o.MaxHandlers
    BY <1>1, <1>5, <2>1, LoopFits
  <2>4. last.n \in Nat
    BY <2>3 DEF Fits
  <2> QED
    BY <2>2, <2>3, <2>4 DEF o
<1> QED
  BY <1>3, <1>4, <1>5

\* Split answers a sequence of sizes.
LEMMA SplitType ==
    ASSUME NEW n \in Nat, NEW opts \in Options
    PROVE  Split(n, opts) \in Seq(Nat)
  BY SplitFits DEF Fits
=============================================================================
