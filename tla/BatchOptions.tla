---------------------------- MODULE BatchOptions ----------------------------
(***************************************************************************)
(* The options of the batcher package (email/batcher/batcher.go): their    *)
(* defaults, how two sets of options are merged, and how Split cuts a      *)
(* number of items into batches.  A nil *Options is the record of zeros.   *)
(***************************************************************************)
EXTENDS Integers, Sequences

Options == [MaxHandlers : Nat, MinBatchSize : Nat,
            MaxBatchSize : Nat, MaxBatchByteSize : Nat]

NoOptions == [MaxHandlers |-> 0, MinBatchSize |-> 0,
              MaxBatchSize |-> 0, MaxBatchByteSize |-> 0]

AtLeastOne(k) == IF k = 0 THEN 1 ELSE k

newOptionsWithDefaults(o) ==
    [MaxHandlers      |-> AtLeastOne(o.MaxHandlers),
     MinBatchSize     |-> AtLeastOne(o.MinBatchSize),
     MaxBatchSize     |-> o.MaxBatchSize,
     MaxBatchByteSize |-> o.MaxBatchByteSize]

\* Zero leaves a limit unset; of two limits the tighter one is kept.
SmallerLimit(a, b) == IF b # 0 /\ (a = 0 \/ b < a) THEN b ELSE a
LargerLimit(a, b)  == IF b # 0 /\ (a = 0 \/ b > a) THEN b ELSE a

\* A mutant of NewMergedOptions: the minimum merged like the maxima.
MergeMinTheWrongWay(o, p) ==
    [MaxHandlers      |-> SmallerLimit(o.MaxHandlers, p.MaxHandlers),
     MinBatchSize     |-> SmallerLimit(o.MinBatchSize, p.MinBatchSize),
     MaxBatchSize     |-> SmallerLimit(o.MaxBatchSize, p.MaxBatchSize),
     MaxBatchByteSize |-> SmallerLimit(o.MaxBatchByteSize, p.MaxBatchByteSize)]

NewMergedOptions(o, p) ==
    [MaxHandlers      |-> SmallerLimit(o.MaxHandlers, p.MaxHandlers),
     MinBatchSize     |-> LargerLimit(o.MinBatchSize, p.MinBatchSize),
     MaxBatchSize     |-> SmallerLimit(o.MaxBatchSize, p.MaxBatchSize),
     MaxBatchByteSize |-> SmallerLimit(o.MaxBatchByteSize, p.MaxBatchByteSize)]

\* The loop of Split: what is left of n and the batches, after up to k rounds.
splitLoop(n, o) ==
    LET loop[k \in 0 .. o.MaxHandlers] ==
          IF k = 0 THEN [n |-> n, batches |-> << >>]
          ELSE LET at == loop[k - 1]
                   b  == IF o.MaxBatchSize > at.n THEN at.n ELSE o.MaxBatchSize
               IN  IF at.n < o.MinBatchSize THEN at
                   ELSE [n |-> at.n - b, batches |-> Append(at.batches, b)]
    IN  loop[o.MaxHandlers].batches

\* A mutant of Split: one batch below the minimum.
SplitBelowMinimum(n, opts) ==
    LET o == newOptionsWithDefaults(opts)
    IN  IF o.MaxBatchSize = 0 THEN <<n>> ELSE splitLoop(n, o)

Split(n, opts) ==
    LET o == newOptionsWithDefaults(opts)
    IN  IF n < o.MinBatchSize THEN << >>
        ELSE IF o.MaxBatchSize = 0 THEN <<n>>
        ELSE splitLoop(n, o)
=============================================================================
